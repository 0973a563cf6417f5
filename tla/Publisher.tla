----------------------------- MODULE Publisher ------------------------------
(***************************************************************************)
(* The publisher (spectator/publisher.h): Start and Stop, the sender       *)
(* thread, and send_metrics, which cuts the measurements into batches that *)
(* the threads of a pool serialise into shared buffers and post.           *)
(*                                                                         *)
(* send_metrics runs on the sender thread and, as the last flush, on the   *)
(* thread that calls Stop.  Each call has a frame: the local variables     *)
(* that the pool's tasks capture by reference.  A measurement is only      *)
(* counted here.  The answer of the aggregator, after the retries of       *)
(* http_client.cc, is any of the classes handle_aggr_response tells apart. *)
(***************************************************************************)
EXTENDS Integers, Sequences, FiniteSets, Totals

CONSTANTS
  Threads,     \* of the pool: num_sender_threads_ = min(8, hardware_concurrency())
  Buffers,     \* buffers_
  BatchSize,
  HasUri,      \* the config names a uri
  StatusMetrics, \* config.status_metrics_enabled, TRUE unless switched off
  MaxUpdates,  \* bound: measurements the clients produce
  MaxStarts,   \* bound: calls of Start
  None

ASSUME PublisherAssumption ==
  /\ IsFiniteSet(Threads) /\ IsFiniteSet(Buffers)
  /\ Cardinality(Buffers) = Cardinality(Threads)    \* buffers_.resize(num_sender_threads_)
  /\ BatchSize \in Nat \ {0}
  /\ HasUri \in BOOLEAN /\ StatusMetrics \in BOOLEAN /\ MaxUpdates \in Nat /\ MaxStarts \in Nat
  /\ None \notin Buffers

Callers == {"sender", "main"}

VARIABLES
  mpc,                     \* thread that calls Start and Stop
  started, should_stop, http_initialized,
  curl,                    \* "none", "up" or "down": libcurl's global state
  starts,
  restarted,               \* Start was called after a Stop
  tpc,                     \* sender thread
  produced, pending,       \* measurements so far; those Measurements() would return
  fpc, todo, left, avail, responses,  \* of each caller's frame
  queue,                   \* tasks posted to the pool
  task,                    \* what each pool thread works on
  published,               \* measurements that entered a batch
  counters,                \* sentMetrics_, invalidMetrics_, droppedHttp_, droppedOther_
  emptyPop                 \* avail_buffers.back() was called on an empty vector

mainVars  == <<mpc, started, should_stop, http_initialized, curl, starts, restarted>>
frameVars == <<fpc, todo, left, avail, responses>>
poolVars  == <<queue, task, emptyPop>>
vars == <<mainVars, tpc, produced, pending, frameVars, poolVars, published, counters>>

NoTask == [pc |-> "idle", caller |-> None, size |-> 0, buffer |-> None, answer |-> None]

Init ==
  /\ mpc = "idle" /\ tpc = "none"
  /\ started = FALSE /\ should_stop = FALSE /\ http_initialized = FALSE /\ curl = "none"
  /\ starts = 0 /\ restarted = FALSE
  /\ produced = 0 /\ pending = 0
  /\ fpc = [c \in Callers |-> "none"]
  /\ todo = [c \in Callers |-> <<>>]
  /\ left = [c \in Callers |-> 0]
  /\ avail = [c \in Callers |-> {}]
  /\ responses = [c \in Callers |-> <<>>]
  /\ queue = <<>>
  /\ task = [t \in Threads |-> NoTask]
  /\ published = 0
  /\ counters = [sent |-> 0, invalid |-> 0, http |-> 0, other |-> 0]
  /\ emptyPop = FALSE

-----------------------------------------------------------------------------
\* Clients update meters until the daemon shuts down.
Produce ==
  /\ mpc = "idle"
  /\ produced < MaxUpdates
  /\ produced' = produced + 1
  /\ pending' = pending + 1
  /\ UNCHANGED <<mainVars, tpc, frameVars, poolVars, published, counters>>

\* HttpClient::GlobalInit and GlobalShutdown do their work once in a process.
GlobalInit     == curl' = IF curl = "none" THEN "up" ELSE curl
GlobalShutdown == curl' = IF http_initialized THEN "down" ELSE curl

\* Start: without a uri, or when already started, nothing but curl is set up.
\* It may also follow a Stop; should_stop_ stays set then.
Start ==
  /\ mpc \in {"idle", "stopped"}
  /\ starts < MaxStarts
  /\ starts' = starts + 1
  /\ mpc' = "idle"
  /\ restarted' = (restarted \/ mpc = "stopped")
  /\ http_initialized' = TRUE
  /\ GlobalInit
  /\ IF HasUri /\ ~started
     THEN started' = TRUE /\ tpc' = "check"
     ELSE UNCHANGED <<started, tpc>>
  /\ UNCHANGED <<should_stop, produced, pending, frameVars, poolVars, published, counters>>

\* Stop: the sender thread is told to stop and joined ...
Stop ==
  /\ mpc = "idle"
  /\ starts > 0
  /\ IF started
     THEN /\ started' = FALSE /\ should_stop' = TRUE
          /\ mpc' = "joining"
          /\ UNCHANGED <<http_initialized, curl>>
     ELSE /\ http_initialized' = FALSE
          /\ GlobalShutdown
          /\ mpc' = "stopped"
          /\ UNCHANGED <<started, should_stop>>
  /\ UNCHANGED <<starts, restarted, tpc, produced, pending, frameVars, poolVars,
                 published, counters>>

Join_no_wait ==
  /\ mpc = "joining"
  /\ tpc' = "none"
  /\ mpc' = "flush"
  /\ UNCHANGED <<started, should_stop, http_initialized, curl, starts, restarted, produced, pending,
                 frameVars, poolVars, published, counters>>

Join_no_flush ==
  /\ mpc = "joining"
  /\ tpc = "exited"
  /\ tpc' = "none"
  /\ mpc' = "flushed"
  /\ UNCHANGED <<started, should_stop, http_initialized, curl, starts, restarted, produced, pending,
                 frameVars, poolVars, published, counters>>

Join ==
  /\ mpc = "joining"
  /\ tpc = "exited"
  /\ tpc' = "none"
  /\ mpc' = "flush"
  /\ UNCHANGED <<started, should_stop, http_initialized, curl, starts, restarted, produced, pending,
                 frameVars, poolVars, published, counters>>

Shutdown_early ==
  /\ mpc \in {"flush", "flushed"}
  /\ http_initialized' = FALSE
  /\ GlobalShutdown
  /\ mpc' = IF mpc = "flushed" THEN "stopped" ELSE "flush"
  /\ UNCHANGED <<started, should_stop, starts, restarted, tpc, produced, pending,
                 frameVars, poolVars, published, counters>>

\* ... and curl is shut down after the last flush.
Shutdown ==
  /\ mpc = "flushed"
  /\ http_initialized' = FALSE
  /\ GlobalShutdown
  /\ mpc' = "stopped"
  /\ UNCHANGED <<started, should_stop, starts, restarted, tpc, produced, pending,
                 frameVars, poolVars, published, counters>>

\* while (!should_stop_)
SenderCheck ==
  /\ tpc = "check"
  /\ tpc' = IF should_stop THEN "exited" ELSE "send"
  /\ UNCHANGED <<mainVars, produced, pending, frameVars, poolVars, published, counters>>

\* cv_.wait_for has no predicate: a notification, the timeout or nothing at all
\* ends it; after a slow send there is no wait.
SenderWake ==
  /\ tpc = "wait"
  /\ tpc' = "check"
  /\ UNCHANGED <<mainVars, produced, pending, frameVars, poolVars, published, counters>>

-----------------------------------------------------------------------------
\* send_metrics

Batches_extra(m) ==
  [i \in 1 .. m \div BatchSize + 1 |->
     IF i * BatchSize <= m THEN BatchSize ELSE m - (i - 1) * BatchSize]

\* publisher.h:438-446: batches of BatchSize and one with what is left
Batches(m) ==
  [i \in 1 .. (m + BatchSize - 1) \div BatchSize |->
     IF i * BatchSize <= m THEN BatchSize ELSE m - (i - 1) * BatchSize]

MayCall(c) == IF c = "sender" THEN tpc = "send" ELSE mpc = "flush"

Returns(c) ==
  IF c = "sender" THEN tpc' = "wait" /\ UNCHANGED mpc
                  ELSE mpc' = "flushed" /\ UNCHANGED tpc

\* Measurements() empties the meters first; if the publisher is disabled, or
\* there is nothing to send, that is all.
SendNothing(c) ==
  /\ MayCall(c) /\ fpc[c] = "none"
  /\ pending' = 0
  /\ Returns(c)
  /\ UNCHANGED <<started, should_stop, http_initialized, curl, starts, restarted, produced,
                 frameVars, poolVars, published, counters>>

\* Otherwise it sets up its frame: every buffer is available to its tasks.
SendBegin(c) ==
  /\ MayCall(c) /\ fpc[c] = "none"
  /\ pending > 0
  /\ pending' = 0
  /\ published' = published + pending
  /\ fpc' = [fpc EXCEPT ![c] = "post"]
  /\ todo' = [todo EXCEPT ![c] = Batches(pending)]
  /\ left' = [left EXCEPT ![c] = Len(Batches(pending))]
  /\ avail' = [avail EXCEPT ![c] = Buffers]
  /\ UNCHANGED <<mainVars, tpc, produced, responses, poolVars, counters>>

\* asio::post(pool_, ...), batch by batch
SendPost(c) ==
  /\ fpc[c] = "post"
  /\ IF todo[c] # <<>>
     THEN /\ queue' = Append(queue, [caller |-> c, size |-> Head(todo[c])])
          /\ todo' = [todo EXCEPT ![c] = Tail(@)]
          /\ UNCHANGED fpc
     ELSE /\ fpc' = [fpc EXCEPT ![c] = "wait"]
          /\ UNCHANGED <<queue, todo>>
  /\ UNCHANGED <<mainVars, tpc, produced, pending, left, avail, responses, task, emptyPop,
                 published, counters>>

\* batches_to_do.Wait()
SendWait(c) ==
  /\ fpc[c] = "wait"
  /\ left[c] = 0
  /\ fpc' = [fpc EXCEPT ![c] = "account"]
  /\ UNCHANGED <<mainVars, tpc, produced, pending, todo, left, avail, responses, poolVars,
                 published, counters>>

\* The answers handle_aggr_response tells apart: 200; another status below 500
\* with an error count; "unusable", the same without a count or with a body that
\* does not parse, or -1 for no answer at all; a status of 500 or more.
Answers(n) ==
  {[kind |-> k, errors |-> 0] : k \in {"200", "unusable", "5xx"}}
    \cup {[kind |-> "counted", errors |-> e] : e \in 0 .. n}

handle_aggr_response_twice(a, n) ==
  IF ~StatusMetrics THEN counters
  ELSE CASE a.kind = "200"     -> [counters EXCEPT !.sent = @ + n]
         [] a.kind = "counted" -> [counters EXCEPT !.invalid = @ + a.errors, !.sent = @ + n]
         [] a.kind = "5xx"     -> [counters EXCEPT !.http = @ + n]
         [] OTHER              -> [counters EXCEPT !.other = @ + n]

\* publisher.h:318-397, without the totals it returns for the log
handle_aggr_response(a, n) ==
  IF ~StatusMetrics THEN counters
  ELSE CASE a.kind = "200"     -> [counters EXCEPT !.sent = @ + n]
         [] a.kind = "counted" -> [counters EXCEPT !.invalid = @ + a.errors,
                                                   !.sent = @ + (n - a.errors)]
         [] a.kind = "5xx"     -> [counters EXCEPT !.http = @ + n]
         [] OTHER              -> [counters EXCEPT !.other = @ + n]

\* One round of the loop over the responses.
SendAccount(c) ==
  /\ fpc[c] = "account"
  /\ responses[c] # <<>>
  /\ counters' = handle_aggr_response(Head(responses[c]).answer, Head(responses[c]).size)
  /\ responses' = [responses EXCEPT ![c] = Tail(@)]
  /\ UNCHANGED <<mainVars, tpc, produced, pending, fpc, todo, left, avail, poolVars, published>>

SendReturn(c) ==
  /\ fpc[c] = "account"
  /\ responses[c] = <<>>
  /\ fpc' = [fpc EXCEPT ![c] = "none"]
  /\ avail' = [avail EXCEPT ![c] = {}]
  /\ Returns(c)
  /\ UNCHANGED <<started, should_stop, http_initialized, curl, starts, restarted, produced, pending,
                 todo, left, responses, poolVars, published, counters>>

Send(c) == SendNothing(c) \/ SendBegin(c) \/ SendPost(c) \/ SendWait(c)
             \/ SendAccount(c) \/ SendReturn(c)

-----------------------------------------------------------------------------
\* A task on a thread of the pool

NextPc_leak(p) ==
  CASE p = "post"   -> "record"
    [] p = "record" -> "decrement"
    [] OTHER        -> "idle"

NextPc_no_decrement(p) ==
  CASE p = "post"   -> "record"
    [] p = "record" -> "return"
    [] OTHER        -> "idle"

NextPc_swapped(p) ==
  CASE p = "post"   -> "record"
    [] p = "record" -> "decrement"
    [] p = "return" -> "idle"
    [] OTHER        -> "return"

\* The order of the critical sections of a task, publisher.h:464-478
NextPc(p) ==
  CASE p = "post"   -> "record"
    [] p = "record" -> "return"
    [] p = "return" -> "decrement"
    [] OTHER        -> "idle"

Moves(t, fields) ==
  task' = [task EXCEPT ![t] = IF NextPc(@.pc) = "idle" THEN NoTask ELSE fields]

\* The thread takes a task from the pool's queue and the task takes a buffer.
TaskBegin(t) ==
  /\ task[t].pc = "idle"
  /\ queue # <<>>
  /\ queue' = Tail(queue)
  /\ LET c == Head(queue).caller IN
       IF avail[c] = {}
       THEN emptyPop' = TRUE /\ UNCHANGED <<avail, task>>
       ELSE \E b \in avail[c] :
              /\ avail' = [avail EXCEPT ![c] = @ \ {b}]
              /\ task' = [task EXCEPT ![t] =
                            [pc |-> "post", caller |-> c, size |-> Head(queue).size,
                             buffer |-> b, answer |-> None]]
              /\ UNCHANGED emptyPop
  /\ UNCHANGED <<mainVars, tpc, produced, pending, fpc, todo, left, responses, published, counters>>

\* measurements_to_json fills the buffer; Post sends it and returns an answer.
TaskPost(t) ==
  /\ task[t].pc = "post"
  /\ \E a \in Answers(task[t].size) :
       Moves(t, [task[t] EXCEPT !.pc = NextPc(@), !.answer = a])
  /\ UNCHANGED <<mainVars, tpc, produced, pending, frameVars, queue, emptyPop, published, counters>>

\* responses.emplace_back under responses_mutex
TaskRecord(t) ==
  /\ task[t].pc = "record"
  /\ responses' = [responses EXCEPT ![task[t].caller] =
                     Append(@, [size |-> task[t].size, answer |-> task[t].answer])]
  /\ Moves(t, [task[t] EXCEPT !.pc = NextPc(@), !.size = 0, !.answer = None])
  /\ UNCHANGED <<mainVars, tpc, produced, pending, fpc, todo, left, avail, queue, emptyPop,
                 published, counters>>

\* avail_buffers.emplace_back under buffers_mutex
TaskReturn(t) ==
  /\ task[t].pc = "return"
  /\ avail' = [avail EXCEPT ![task[t].caller] = @ \cup {task[t].buffer}]
  /\ Moves(t, [task[t] EXCEPT !.pc = NextPc(@), !.buffer = None])
  /\ UNCHANGED <<mainVars, tpc, produced, pending, fpc, todo, left, responses, queue, emptyPop,
                 published, counters>>

\* batches_to_do.DecrementCount(), the last thing a task does with the frame
TaskDecrement(t) ==
  /\ task[t].pc = "decrement"
  /\ left' = [left EXCEPT ![task[t].caller] = @ - 1]
  /\ Moves(t, [task[t] EXCEPT !.pc = NextPc(@)])
  /\ UNCHANGED <<mainVars, tpc, produced, pending, fpc, todo, avail, responses, queue, emptyPop,
                 published, counters>>

Task(t) == TaskBegin(t) \/ TaskPost(t) \/ TaskRecord(t) \/ TaskReturn(t) \/ TaskDecrement(t)

-----------------------------------------------------------------------------
Sender == SenderCheck \/ SenderWake \/ Send("sender")
Main   == Join \/ Shutdown \/ Send("main")

Next ==
  \/ Produce \/ Start \/ Stop
  \/ Sender
  \/ Main
  \/ \E t \in Threads : Task(t)

\* Threads are scheduled, waits time out, and every request ends: curl's
\* timeouts and the bounded retries see to it.  Nobody has to call Stop.
Fairness == WF_vars(Sender) /\ WF_vars(Main) /\ \A t \in Threads : WF_vars(Task(t))

Spec == Init /\ [][Next]_vars

FairSpec == Spec /\ Fairness

-----------------------------------------------------------------------------
\* Types; no batch is empty or exceeds BatchSize.
TypeOK ==
  /\ mpc \in {"idle", "joining", "flush", "flushed", "stopped"}
  /\ tpc \in {"none", "check", "send", "wait", "exited"}
  /\ {started, should_stop, http_initialized, restarted, emptyPop} \subseteq BOOLEAN
  /\ curl \in {"none", "up", "down"}
  /\ {starts, produced, pending, published} \subseteq Nat
  /\ fpc \in [Callers -> {"none", "post", "wait", "account"}]
  /\ todo \in [Callers -> Seq(1 .. BatchSize)]
  /\ left \in [Callers -> Nat]
  /\ avail \in [Callers -> SUBSET Buffers]
  /\ \A c \in Callers : \A i \in DOMAIN responses[c] : responses[c][i].size \in 1 .. BatchSize
  /\ \A t \in Threads : /\ task[t].caller \in Callers \cup {None}
                        /\ task[t].buffer \in Buffers \cup {None}
  /\ counters \in [{"sent", "invalid", "http", "other"} -> Nat]

Busy == {t \in Threads : task[t].pc # "idle"}

\* No two tasks write to one buffer at a time: the buffers outlive the call of
\* send_metrics that hands them out, and Stop makes such a call itself.
BuffersNotShared ==
  /\ \A t, u \in Busy : task[t].buffer = task[u].buffer /\ task[t].buffer # None => t = u
  /\ fpc["sender"] = "none" \/ fpc["main"] = "none"

\* A task finds a buffer whenever it starts, without checking for one: there are
\* as many buffers as threads, and a task returns its buffer before it ends.
BufferForEveryTask == ~emptyPop

\* No task touches the frame of send_metrics after send_metrics has returned.
FrameOutlivesTasks ==
  /\ \A t \in Busy : fpc[task[t].caller] \in {"post", "wait"}
  /\ \A i \in DOMAIN queue : fpc[queue[i].caller] \in {"post", "wait"}

\* The measurements that are to be posted, queued, worked on or answered.
InFlight ==
  Total(todo["sender"]) + Total(todo["main"]) + Total(Sizes(queue))
    + Total([t \in Threads |-> task[t].size])
    + Total(Sizes(responses["sender"])) + Total(Sizes(responses["main"]))

\* Every measurement that enters a batch is counted exactly once, as sent, as
\* invalid or as dropped, whatever the answers and in whatever order they come;
\* until then it is in exactly one place.  (Without status metrics nothing is counted.)
EveryMeasurementAccounted ==
  StatusMetrics =>
    counters.sent + counters.invalid + counters.http + counters.other + InFlight = published

\* libcurl is initialised while a request may be running, in the one life that a
\* publisher has in the daemon; one that is started again finds libcurl cleaned up.
HttpAliveWhilePosting ==
  ~restarted => \A t \in Busy : task[t].pc = "post" => curl = "up"

\* When Stop has returned, everything recorded before it was called has been
\* taken by a Measurements() call: "Flush any remaining metrics before shutdown"
\* (publisher.h:111).
FlushedAtStop == mpc = "stopped" /\ HasUri => pending = 0

\* Stop returns: the sender is joined, the last batches are answered.
StopTerminates == mpc = "joining" ~> mpc = "stopped"
=============================================================================
