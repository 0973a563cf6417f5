-------------------------- MODULE PublisherProofs ---------------------------
(***************************************************************************)
(* The publisher's safety for every number of pool threads, batch size and *)
(* number of measurements.                                                 *)
(*                                                                         *)
(* The inductive invariant Inv has four parts besides the types.  Phases   *)
(* orders Start, Stop and the sender, so that at most one send_metrics     *)
(* runs.  Frames counts the batches of that call: what its latch waits for *)
(* is what is still to be posted, queued or worked on.  Pool says that the *)
(* buffers of the call are either available or held by one task each.      *)
(* EveryMeasurementAccounted is inductive with these.                      *)
(***************************************************************************)
EXTENDS Publisher, TotalsProofs, FiniteSetTheorems, FunctionTheorems, SequenceTheorems, TLAPS

AnyAnswer == [kind : {"200", "unusable", "5xx", "counted"}, errors : Nat]
Response  == [size : 1 .. BatchSize, answer : AnyAnswer]

PoolTask ==
  [pc     : {"idle", "post", "record", "return", "decrement"},
   caller : Callers \cup {None},
   size   : 0 .. BatchSize,
   buffer : Buffers \cup {None},
   answer : AnyAnswer \cup {None}]

\* What a task has of its frame at each of its steps.
TaskOK(r) ==
  /\ r \in PoolTask
  /\ r.pc # "idle" => r.caller \in Callers
  /\ (r.pc \in {"post", "record"}) <=> r.size # 0
  /\ (r.pc \in {"post", "record", "return"}) <=> r.buffer # None
  /\ r.pc = "record" => r.answer \in Answers(r.size)

Types ==
  /\ TypeOK
  /\ responses \in [Callers -> Seq(Response)]
  /\ \A c \in Callers : \A i \in DOMAIN responses[c] :
       responses[c][i].answer \in Answers(responses[c][i].size)
  /\ queue \in Seq([caller : Callers, size : 1 .. BatchSize])
  /\ task \in [Threads -> PoolTask]
  /\ \A t \in Threads : TaskOK(task[t])
  /\ counters \in [sent : Nat, invalid : Nat, http : Nat, other : Nat]

\* Start, Stop and the sender: the sender thread exists while the publisher is
\* started or being joined; each frame belongs to one place of one thread.
Phases ==
  /\ started = TRUE => mpc = "idle" /\ tpc # "none" /\ starts > 0
  /\ mpc = "joining" => tpc # "none"
  /\ tpc # "none" => started = TRUE \/ mpc = "joining"
  /\ fpc["sender"] # "none" => tpc = "send"
  /\ fpc["main"] # "none" => mpc = "flush" /\ pending = 0
  /\ mpc = "idle" /\ HasUri /\ starts > 0 => started = TRUE
  /\ mpc # "idle" => starts > 0
  /\ starts = 0 => curl = "none"
  /\ starts > 0 /\ restarted = FALSE /\ mpc # "stopped" => curl = "up"
  /\ mpc \in {"flushed", "stopped"} /\ HasUri => pending = 0

\* The call of send_metrics that has tasks.
Open(c) == fpc[c] \in {"post", "wait"}

\* The latch counts the batches that are not done.
Frames ==
  /\ \A c \in Callers : Open(c) => left[c] = Len(todo[c]) + Len(queue) + Cardinality(Busy)
  /\ \A c \in Callers : fpc[c] # "post" => todo[c] = <<>>
  /\ \A c \in Callers : fpc[c] # "account" /\ ~Open(c) => responses[c] = <<>>
  /\ \A t \in Busy : Open(task[t].caller)
  /\ \A i \in DOMAIN queue : Open(queue[i].caller)

\* The buffers of the open frame: available, or held by exactly one task.
Pool ==
  /\ emptyPop = FALSE
  /\ \A t, u \in Threads : task[t].buffer = task[u].buffer /\ task[t].buffer # None => t = u
  /\ \A c \in Callers : Open(c) =>
       /\ \A t \in Threads : task[t].buffer \notin avail[c]
       /\ \A b \in Buffers : b \in avail[c] \/ \E t \in Threads : task[t].buffer = b

Inv == Types /\ Phases /\ Frames /\ Pool /\ EveryMeasurementAccounted
-----------------------------------------------------------------------------
(* Batches(m) cuts m measurements into batches: none is empty or too large, *)
(* and together they hold m.  Measurement j is in batch (j - 1) \div        *)
(* BatchSize + 1.                                                           *)

LEMMA Quotient ==
  ASSUME NEW a \in Nat, NEW b \in Nat \ {0}
  PROVE  /\ a \div b \in Nat
         /\ (a \div b) * b <= a
         /\ a < (a \div b) * b + b
  OBVIOUS

LEMMA Monotonic ==
  ASSUME NEW i \in Nat, NEW j \in Nat, NEW b \in Nat, i <= j
  PROVE  i * b <= j * b
<1>1. PICK d \in Nat : j = i + d
  <2>1. j - i \in Nat /\ j = i + (j - i)
    OBVIOUS
  <2> QED
    BY <2>1
<1>2. j * b = i * b + d * b /\ d * b \in Nat /\ i * b \in Nat
  BY <1>1
<1> QED
  BY <1>2

\* i * BatchSize and so on are named, so that what is left is linear.
LEMMA BatchNumber ==
  ASSUME NEW m \in Nat, NEW i \in Nat \ {0}
  PROVE  i <= (m + BatchSize - 1) \div BatchSize <=> (i - 1) * BatchSize < m
<1> DEFINE q == (m + BatchSize - 1) \div BatchSize
<1>1. BatchSize \in Nat \ {0} /\ m + BatchSize - 1 \in Nat
  BY PublisherAssumption
<1>2. q \in Nat /\ q * BatchSize <= m + BatchSize - 1 /\ m + BatchSize - 1 < q * BatchSize + BatchSize
  BY <1>1, Quotient
<1> HIDE DEF q
<1>3. i * BatchSize = (i - 1) * BatchSize + BatchSize /\ (i - 1) * BatchSize \in Nat
  BY <1>1
<1>4. q * BatchSize \in Nat
  BY <1>1, <1>2
<1>5. CASE i <= q
  <2>1. i * BatchSize <= q * BatchSize
    BY <1>1, <1>2, <1>5, Monotonic
  <2> QED
    BY <1>1, <1>2, <1>3, <1>4, <1>5, <2>1 DEF q
<1>6. CASE ~(i <= q)
  <2>1. q <= i - 1 /\ i - 1 \in Nat
    BY <1>2, <1>6
  <2>2. q * BatchSize <= (i - 1) * BatchSize
    BY <1>1, <1>2, <2>1, Monotonic
  <2> QED
    BY <1>1, <1>2, <1>3, <1>4, <1>6, <2>2 DEF q
<1> QED
  BY <1>5, <1>6

LEMMA BatchesType ==
  ASSUME NEW m \in Nat
  PROVE  Batches(m) \in Seq(1 .. BatchSize)
<1> DEFINE q == (m + BatchSize - 1) \div BatchSize
<1>1. BatchSize \in Nat \ {0} /\ q \in Nat
  BY PublisherAssumption, Quotient
<1>2. ASSUME NEW i \in 1 .. q
      PROVE  (IF i * BatchSize <= m THEN BatchSize ELSE m - (i - 1) * BatchSize) \in 1 .. BatchSize
  <2>1. (i - 1) * BatchSize < m
    BY <1>1, <1>2, BatchNumber
  <2>2. i * BatchSize = (i - 1) * BatchSize + BatchSize /\ (i - 1) * BatchSize \in Nat
    BY <1>1
  <2> QED
    BY <1>1, <2>1, <2>2
<1> HIDE DEF q
<1>3. [i \in 1 .. q |-> IF i * BatchSize <= m THEN BatchSize ELSE m - (i - 1) * BatchSize]
        \in [1 .. q -> 1 .. BatchSize]
  BY <1>2
<1>4. Batches(m) \in [1 .. q -> 1 .. BatchSize]
  BY <1>3 DEF Batches, q
<1> QED
  BY <1>1, <1>4, SeqDef

LEMMA BatchesTotal ==
  ASSUME NEW m \in Nat
  PROVE  Total(Batches(m)) = m
<1> DEFINE B == BatchSize
           q == (m + B - 1) \div B
           f == Batches(m)
           N == [p \in Tally(f) |-> (p[1] - 1) * B + p[2]]
<1>1. B \in Nat \ {0} /\ q \in Nat
  BY PublisherAssumption, Quotient
<1>2. DOMAIN f = 1 .. q
      /\ \A i \in 1 .. q : f[i] = IF i * B <= m THEN B ELSE m - (i - 1) * B
  BY DEF Batches
<1> HIDE DEF f, q
<1>3. \A i \in Nat \ {0} : i * B = (i - 1) * B + B /\ (i - 1) * B \in Nat
  BY <1>1
<1>4. ASSUME NEW i \in 1 .. q, NEW k \in 1 .. B
      PROVE  k <= f[i] <=> (i - 1) * B + k <= m
  BY <1>1, <1>2, <1>3
<1>5. \A p \in Tally(f) : /\ p[1] \in 1 .. q /\ p[2] \in 1 .. B /\ p = <<p[1], p[2]>>
                          /\ p[2] <= f[p[1]]
  <2>1. f \in Seq(1 .. B)
    BY BatchesType DEF f
  <2>2. \A i \in 1 .. q : f[i] \in 1 .. B
    BY <1>2, <2>1, LenProperties, ElementOfSeq
  <2>3. ASSUME NEW p \in Tally(f)
        PROVE  p[1] \in 1 .. q /\ p[2] \in 1 .. f[p[1]] /\ p = <<p[1], p[2]>>
    <3>1. PICK i \in 1 .. q : \E k \in 1 .. f[i] : p = <<i, k>>
      <4>1. \E i \in DOMAIN f : \E k \in 1 .. f[i] : p = <<i, k>>
        BY TallyMember
      <4> QED
        BY <1>2, <4>1
    <3> QED
      BY <3>1
  <2> QED
    BY <1>1, <2>2, <2>3
<1>6. ASSUME NEW p \in Tally(f) PROVE N[p] \in 1 .. m
  <2>1. (p[1] - 1) * B + p[2] <= m /\ (p[1] - 1) * B \in Nat /\ p[2] \in 1 .. B
    <3>1. p[1] \in 1 .. q /\ p[2] \in 1 .. B /\ p[2] <= f[p[1]]
      BY <1>5
    <3>2. (p[1] - 1) * B + p[2] <= m
      BY <1>4, <3>1
    <3>3. (p[1] - 1) * B \in Nat
      BY <1>1, <1>3, <3>1
    <3> QED
      BY <3>1, <3>2, <3>3
  <2> QED
    BY <1>1, <2>1
<1>7. ASSUME NEW p \in Tally(f), NEW r \in Tally(f), N[p] = N[r] PROVE p = r
  <2>1. /\ p[1] \in Nat \ {0} /\ r[1] \in Nat \ {0}
        /\ p[2] \in 1 .. B /\ r[2] \in 1 .. B
        /\ (p[1] - 1) * B + p[2] = (r[1] - 1) * B + r[2]
    BY <1>1, <1>5, <1>7
  <2>2. ASSUME NEW i \in Nat \ {0}, NEW j \in Nat \ {0}, NEW k \in 1 .. B, NEW l \in 1 .. B,
               (i - 1) * B + k = (j - 1) * B + l, i < j
        PROVE  FALSE
    <3>1. i <= j - 1 /\ j - 1 \in Nat
      BY <2>2
    <3>2. i * B <= (j - 1) * B
      BY <1>1, <3>1, Monotonic
    <3> QED
      BY <1>1, <1>3, <2>2, <3>2
  <2>3. p[1] = r[1]
    <3>1. ~(p[1] < r[1])
      BY <2>1, <2>2
    <3>2. ~(r[1] < p[1])
      BY <2>1, <2>2
    <3> QED
      BY <2>1, <3>1, <3>2
  <2>4. p[2] = r[2]
    BY <1>1, <1>3, <2>1, <2>3
  <2> QED
    BY <1>5, <2>3, <2>4
<1>8. ASSUME NEW j \in 1 .. m PROVE \E p \in Tally(f) : N[p] = j
  <2> DEFINE d == (j - 1) \div B
             k == j - d * B
  <2>1. d \in Nat /\ d * B <= j - 1 /\ j - 1 < d * B + B /\ d * B \in Nat
    BY <1>1, Quotient
  <2> HIDE DEF d
  <2>2. k \in 1 .. B /\ (d + 1 - 1) * B = d * B /\ d + 1 \in Nat \ {0}
    BY <1>1, <2>1
  <2>3. d + 1 \in 1 .. q
    BY <1>1, <2>1, <2>2, BatchNumber DEF q
  <2>4. k <= f[d + 1]
    BY <1>1, <1>4, <2>1, <2>2, <2>3
  <2>5. <<d + 1, k>> \in Tally(f)
    <3>1. k \in 1 .. f[d + 1] /\ d + 1 \in DOMAIN f
      BY <1>2, <2>2, <2>3, <2>4
    <3> HIDE DEF k
    <3> QED
      BY <3>1, TallyMember
  <2>6. N[<<d + 1, k>>] = j
    BY <1>1, <2>1, <2>2, <2>5
  <2> QED
    BY <2>5, <2>6
<1> HIDE DEF N
<1>9. N \in [Tally(f) -> 1 .. m]
  BY <1>6 DEF N
<1>10. N \in Bijection(Tally(f), 1 .. m)
  BY <1>7, <1>8, <1>9 DEF Bijection, Injection, Surjection, IsInjective
<1>11. IsFiniteSet(Tally(f)) /\ Total(f) = Cardinality(Tally(f))
  <2>1. IsFiniteSet(1 .. m)
    BY FS_Interval
  <2>2. ExistsBijection(1 .. m, Tally(f))
    BY <1>10, Fun_ExistsBij, Fun_ExistsBijSymmetric
  <2> QED
    BY <2>1, <2>2, FS_Bijection DEF Total
<1>12. Cardinality(1 .. m) = Cardinality(Tally(f))
  BY <1>10, <1>11, FS_Bijection DEF ExistsBijection
<1>13. Cardinality(1 .. m) = m
  BY FS_Interval
<1> QED
  BY <1>11, <1>12, <1>13 DEF f

-----------------------------------------------------------------------------
(* The initial state *)

LEMMA InitInv == Init => Inv
<1> SUFFICES ASSUME Init PROVE Inv
  OBVIOUS
<1>1. Busy = {}
  BY DEF Init, Busy, NoTask
<1>2. Types
  <2>1. TypeOK
    <3>1. counters \in [{"sent", "invalid", "http", "other"} -> Nat]
      BY DEF Init
    <3>2. {started, should_stop, http_initialized, restarted, emptyPop} \subseteq BOOLEAN
      BY DEF Init
    <3>3. todo \in [Callers -> Seq(1 .. BatchSize)]
      BY EmptySeq DEF Init
    <3>4. \A t \in Threads : task[t].caller \in Callers \cup {None} /\ task[t].buffer \in Buffers \cup {None}
      BY DEF Init, NoTask
    <3>5. \A c \in Callers : \A i \in DOMAIN responses[c] : responses[c][i].size \in 1 .. BatchSize
      BY DEF Init
    <3> QED
      BY <3>1, <3>2, <3>3, <3>4, <3>5 DEF Init, TypeOK, Callers
  <2>2. responses \in [Callers -> Seq(Response)]
    BY EmptySeq DEF Init
  <2>3. \A c \in Callers : \A i \in DOMAIN responses[c] :
          responses[c][i].answer \in Answers(responses[c][i].size)
    BY DEF Init
  <2>4. queue \in Seq([caller : Callers, size : 1 .. BatchSize])
    BY EmptySeq DEF Init
  <2>5. \A t \in Threads : TaskOK(task[t])
    BY PublisherAssumption DEF Init, NoTask, TaskOK, PoolTask
  <2>6. task \in [Threads -> PoolTask]
    BY PublisherAssumption DEF Init, NoTask, PoolTask
  <2>7. counters \in [sent : Nat, invalid : Nat, http : Nat, other : Nat]
    BY DEF Init
  <2> QED
    BY <2>1, <2>2, <2>3, <2>4, <2>5, <2>6, <2>7 DEF Types
<1>3. Phases
  BY DEF Init, Phases, Callers
<1>4. Frames
  BY <1>1 DEF Init, Frames, Open
<1>5. Pool
  BY DEF Init, Pool, NoTask, Open
<1>6. EveryMeasurementAccounted
  <2> DEFINE f == [t \in Threads |-> task[t].size]
  <2>1. Tally(f) = {}
    BY PublisherAssumption DEF Init, NoTask, Tally
  <2>2. Total(f) = 0
    BY <2>1, FS_EmptySet DEF Total
  <2> HIDE DEF f
  <2>3. InFlight = 0
    BY <2>2, TotalEmpty, SizesEmpty DEF Init, InFlight, f, Callers
  <2>4. counters.sent = 0 /\ counters.invalid = 0 /\ counters.http = 0 /\ counters.other = 0
    BY DEF Init
  <2> QED
    BY <2>3, <2>4 DEF Init, EveryMeasurementAccounted
<1> QED
  BY <1>2, <1>3, <1>4, <1>5, <1>6 DEF Inv

-----------------------------------------------------------------------------
(* Start, Stop and the sender's loop *)

Control ==
  \/ Produce \/ Start \/ Stop \/ Join \/ Shutdown
  \/ SenderCheck \/ SenderWake
  \/ \E c \in Callers : SendNothing(c)

\* At most one call of send_metrics is under way.
LEMMA OneFrame ==
  ASSUME Inv, NEW c \in Callers, NEW d \in Callers, fpc[d] # "none",
         fpc[c] # "none" \/ MayCall(c)
  PROVE  c = d
  BY DEF Inv, Phases, MayCall, Callers

LEMMA ControlKeeps == Control => UNCHANGED <<frameVars, poolVars, published, counters>>
  BY DEF Control, Produce, Start, Stop, Join, Shutdown, SenderCheck, SenderWake, SendNothing

LEMMA ControlTypes == Inv /\ Control => Types'
<1> SUFFICES ASSUME Inv, Control PROVE Types'
  OBVIOUS
<1>1. UNCHANGED <<fpc, todo, left, avail, responses, queue, task, emptyPop, published, counters>>
  BY ControlKeeps DEF frameVars, poolVars
<1>2. /\ mpc' \in {"idle", "joining", "flush", "flushed", "stopped"}
      /\ tpc' \in {"none", "check", "send", "wait", "exited"}
      /\ curl' \in {"none", "up", "down"}
  BY DEF Inv, Types, TypeOK, Control, Produce, Start, Stop, Join, Shutdown, SenderCheck, SenderWake,
         SendNothing, Returns, mainVars, GlobalInit, GlobalShutdown
<1>3. {starts', produced', pending'} \subseteq Nat
  BY DEF Inv, Types, TypeOK, Control, Produce, Start, Stop, Join, Shutdown, SenderCheck, SenderWake,
         SendNothing, mainVars
<1>4. {started', should_stop', http_initialized', restarted'} \subseteq BOOLEAN
  BY DEF Inv, Types, TypeOK, Control, Produce, Start, Stop, Join, Shutdown, SenderCheck, SenderWake,
         SendNothing, mainVars
<1>5. TypeOK'
  BY <1>1, <1>2, <1>3, <1>4 DEF Inv, Types, TypeOK
<1>6. (\A t \in Threads : TaskOK(task[t]))'
  BY <1>1 DEF Inv, Types, TaskOK
<1> QED
  BY <1>1, <1>5, <1>6 DEF Inv, Types

LEMMA ControlPhases == Inv /\ Control => Phases'
<1> SUFFICES ASSUME Inv, Control PROVE Phases'
  OBVIOUS
<1>1. Phases /\ fpc' = fpc
  BY ControlKeeps DEF Inv, frameVars
<1>2. /\ mpc \in {"idle", "joining", "flush", "flushed", "stopped"} /\ starts \in Nat
      /\ tpc \in {"none", "check", "send", "wait", "exited"}
      /\ started \in BOOLEAN /\ restarted \in BOOLEAN /\ HasUri \in BOOLEAN
  BY PublisherAssumption DEF Inv, Types, TypeOK
<1>3. CASE Produce
  BY <1>1, <1>2, <1>3 DEF Phases, Produce, mainVars
<1>4. CASE Start
  <2>1. restarted' = TRUE \/ (mpc = "idle" /\ restarted' = restarted)
    BY <1>2, <1>4 DEF Start
  <2>2. mpc' = "idle" /\ mpc \in {"idle", "stopped"} /\ starts' = starts + 1 /\ pending' = pending
        /\ curl' = (IF curl = "none" THEN "up" ELSE curl)
    BY <1>4 DEF Start, GlobalInit
  <2>3. \/ started' = TRUE /\ tpc' = "check" /\ started = FALSE
        \/ started' = started /\ tpc' = tpc /\ (HasUri => started = TRUE)
    BY <1>2, <1>4 DEF Start
  <2>4. restarted' = FALSE => curl' = "up"
    BY <1>1, <1>2, <2>1, <2>2 DEF Phases
  <2>5. starts' > 0 /\ (HasUri => started' = TRUE) /\ (started' = TRUE => tpc' # "none")
        /\ (tpc' # "none" => started' = TRUE)
    BY <1>1, <1>2, <2>2, <2>3 DEF Phases
  <2>6. (fpc'["sender"] # "none" => tpc' = "send") /\ fpc'["main"] = "none"
    BY <1>1, <1>2, <2>2, <2>3 DEF Phases
  <2> QED
    BY <2>2, <2>4, <2>5, <2>6 DEF Phases
<1>5. CASE Stop
  BY <1>1, <1>2, <1>5 DEF Phases, Stop, GlobalShutdown
<1>6. CASE Join
  BY <1>1, <1>2, <1>6 DEF Phases, Join
<1>7. CASE Shutdown
  BY <1>1, <1>2, <1>7 DEF Phases, Shutdown, GlobalShutdown
<1>8. CASE SenderCheck \/ SenderWake
  BY <1>1, <1>2, <1>8 DEF Phases, SenderCheck, SenderWake, mainVars
<1>9. ASSUME NEW c \in Callers, SendNothing(c) PROVE Phases'
  BY <1>1, <1>2, <1>9 DEF Phases, SendNothing, Returns, MayCall, Callers
<1> QED
  BY <1>3, <1>4, <1>5, <1>6, <1>7, <1>8, <1>9 DEF Control

LEMMA ControlInv == Inv /\ Control => Inv'
<1> SUFFICES ASSUME Inv, Control PROVE Inv'
  OBVIOUS
<1>1. UNCHANGED <<fpc, todo, left, avail, responses, queue, task, emptyPop, published, counters>>
  BY ControlKeeps DEF frameVars, poolVars
<1>2. Busy' = Busy /\ Frames' /\ Pool'
  BY <1>1 DEF Inv, Frames, Pool, Open, Busy
<1>3. EveryMeasurementAccounted'
  BY <1>1 DEF Inv, EveryMeasurementAccounted, InFlight
<1> QED
  BY <1>2, <1>3, ControlTypes, ControlPhases DEF Inv

-----------------------------------------------------------------------------
(* send_metrics *)

LEMMA Quiet ==
  ASSUME Inv, \A d \in Callers : ~Open(d)
  PROVE  Busy = {} /\ queue = <<>>
<1>1. Busy = {}
  BY DEF Inv, Types, TaskOK, Frames, Busy
<1>2. queue = <<>>
  <2> SUFFICES ASSUME queue # <<>> PROVE FALSE
    OBVIOUS
  <2>1. queue \in Seq([caller : Callers, size : 1 .. BatchSize])
    BY DEF Inv, Types
  <2>2. 1 \in 1 .. Len(queue) /\ DOMAIN queue = 1 .. Len(queue)
    BY <2>1, EmptySeq, LenProperties
  <2>3. queue[1] \in [caller : Callers, size : 1 .. BatchSize]
    BY <2>1, <2>2, ElementOfSeq
  <2> QED
    BY <2>2, <2>3 DEF Inv, Frames
<1> QED
  BY <1>1, <1>2

LEMMA ResponseSize == \A r \in Response : r.size \in Nat
  BY DEF Response

\* What has been counted; the equation of EveryMeasurementAccounted.
Counted(k) == k.sent + k.invalid + k.http + k.other

LEMMA AccountedDef ==
  ASSUME StatusMetrics
  PROVE  EveryMeasurementAccounted <=> Counted(counters) + InFlight = published
  BY DEF EveryMeasurementAccounted, Counted

LEMMA AccountedNext ==
  ASSUME StatusMetrics
  PROVE  EveryMeasurementAccounted' <=> Counted(counters') + InFlight' = published'
  BY DEF EveryMeasurementAccounted, Counted

LEMMA CountedNat ==
  ASSUME NEW k \in [sent : Nat, invalid : Nat, http : Nat, other : Nat]
  PROVE  Counted(k) \in Nat
  BY DEF Counted

\* The parts of InFlight are numbers.
LEMMA InFlightNat ==
  ASSUME Types
  PROVE  /\ \A c \in Callers : /\ Total(todo[c]) \in Nat
                               /\ Total(Sizes(responses[c])) \in Nat
         /\ Total(Sizes(queue)) \in Nat
         /\ Total([t \in Threads |-> task[t].size]) \in Nat
<1>1. ASSUME NEW c \in Callers PROVE Total(todo[c]) \in Nat
  <2>1. todo[c] \in Seq(1 .. BatchSize)
    BY DEF Types, TypeOK
  <2>2. 1 .. BatchSize \subseteq Nat
    OBVIOUS
  <2>3. todo[c] \in Seq(Nat)
    BY <2>1, <2>2, SeqMonotonic
  <2> QED
    BY <2>3, TotalNat
<1>2. ASSUME NEW c \in Callers PROVE Total(Sizes(responses[c])) \in Nat
  <2>1. responses[c] \in Seq(Response)
    BY DEF Types
  <2>2. Sizes(responses[c]) \in Seq(Nat)
    BY <2>1, ResponseSize, SizesType
  <2> QED
    BY <2>2, TotalNat
<1>3. Total(Sizes(queue)) \in Nat
  <2> DEFINE Q == [caller : Callers, size : 1 .. BatchSize]
  <2>1. queue \in Seq(Q) /\ \A r \in Q : r.size \in Nat
    BY DEF Types
  <2> HIDE DEF Q
  <2>2. Sizes(queue) \in Seq(Nat)
    BY <2>1, SizesType
  <2> QED
    BY <2>2, TotalNat
<1>4. Total([t \in Threads |-> task[t].size]) \in Nat
  <2> DEFINE f == [t \in Threads |-> task[t].size]
  <2>1. task \in [Threads -> PoolTask] /\ \A x \in PoolTask : x.size \in Nat
    BY DEF Types, PoolTask
  <2>2. f \in [Threads -> Nat]
    BY <2>1
  <2> HIDE DEF f
  <2>3. Total(f) \in Nat
    BY <2>2, TallyFinite, PublisherAssumption
  <2> QED
    BY <2>3 DEF f
<1> QED
  BY <1>1, <1>2, <1>3, <1>4

LEMMA InFlightIsNat ==
  ASSUME Types
  PROVE  InFlight \in Nat /\ Counted(counters) \in Nat
<1>1. "sender" \in Callers /\ "main" \in Callers
  BY DEF Callers
<1>2. InFlight \in Nat
  BY <1>1, InFlightNat DEF InFlight
<1>3. Counted(counters) \in Nat
  BY CountedNat DEF Types
<1> QED
  BY <1>2, <1>3

LEMMA IntervalShift == 1 .. BatchSize \subseteq Nat
  BY PublisherAssumption

LEMMA SendBeginInv ==
  ASSUME Inv, NEW c \in Callers, SendBegin(c)
  PROVE  Inv'
<1>1. \A d \in Callers : fpc[d] = "none"
  BY OneFrame DEF SendBegin
<1>2. Busy = {} /\ queue = <<>>
  BY <1>1, Quiet DEF Open
<1>3. UNCHANGED <<mpc, started, should_stop, http_initialized, curl, starts, restarted, tpc, produced,
                  responses, queue, task, emptyPop, counters>>
  BY DEF SendBegin, mainVars, poolVars
<1>4. /\ fpc' = [fpc EXCEPT ![c] = "post"]
      /\ todo' = [todo EXCEPT ![c] = Batches(pending)]
      /\ left' = [left EXCEPT ![c] = Len(Batches(pending))]
      /\ avail' = [avail EXCEPT ![c] = Buffers]
      /\ pending' = 0 /\ published' = published + pending
  BY DEF SendBegin
<1>5. pending \in Nat /\ published \in Nat
  BY DEF Inv, Types, TypeOK
<1>6. Batches(pending) \in Seq(1 .. BatchSize) /\ Len(Batches(pending)) \in Nat
  BY <1>5, BatchesType, LenProperties
<1>7. Types'
  <2>1. TypeOK'
    BY <1>3, <1>4, <1>5, <1>6 DEF Inv, Types, TypeOK
  <2>2. (\A t \in Threads : TaskOK(task[t]))'
    BY <1>3 DEF Inv, Types, TaskOK
  <2> QED
    BY <1>3, <2>1, <2>2 DEF Inv, Types
<1>8. Phases'
  BY <1>1, <1>3, <1>4 DEF Inv, Types, TypeOK, Phases, SendBegin, MayCall, Callers
<1>9. Frames'
  <2>1. Busy' = {} /\ queue' = <<>> /\ Cardinality(Busy') = 0
    BY <1>2, <1>3, FS_EmptySet DEF Busy
  <2>2. fpc' \in [Callers -> {"none", "post", "wait", "account"}]
    BY <1>7 DEF Types, TypeOK
  <2>3. \A d \in Callers : d # c => fpc'[d] = "none" /\ todo'[d] = <<>>
    BY <1>1, <1>4 DEF Inv, Types, TypeOK, Frames
  <2>4. fpc'[c] = "post" /\ todo'[c] = Batches(pending) /\ left'[c] = Len(Batches(pending))
    BY <1>4 DEF Inv, Types, TypeOK
  <2>5. \A d \in Callers : responses'[d] = <<>>
    BY <1>1, <1>3 DEF Inv, Frames, Open
  <2> QED
    BY <1>6, <2>1, <2>3, <2>4, <2>5 DEF Frames, Open
<1>10. Pool'
  <2>1. \A t \in Threads : task'[t].buffer = None
    BY <1>2, <1>3 DEF Inv, Types, TaskOK, Busy
  <2>2. \A d \in Callers : d # c => fpc'[d] = "none"
    BY <1>1, <1>4 DEF Inv, Types, TypeOK
  <2>3. avail'[c] = Buffers
    BY <1>4 DEF Inv, Types, TypeOK
  <2>4. emptyPop' = FALSE
    BY <1>3 DEF Inv, Pool
  <2> QED
    BY <2>1, <2>2, <2>3, <2>4, PublisherAssumption DEF Pool, Open
<1>11. EveryMeasurementAccounted'
  <2> SUFFICES ASSUME StatusMetrics PROVE EveryMeasurementAccounted'
    BY DEF EveryMeasurementAccounted
  <2>1. \A d \in Callers : Total(todo[d]) = 0
    BY <1>1, TotalEmpty DEF Inv, Frames
  <2>2. Total(todo'[c]) = pending /\ \A d \in Callers : d # c => Total(todo'[d]) = 0
    BY <1>4, <1>5, <2>1, BatchesTotal DEF Inv, Types, TypeOK
  <2>3. InFlight' = InFlight + pending
    <3>1. Types
      BY DEF Inv
    <3>2. Total(todo'["sender"]) + Total(todo'["main"]) = pending
      BY <1>5, <2>2 DEF Callers
    <3> QED
      BY <1>3, <1>5, <2>1, <3>1, <3>2, InFlightNat DEF InFlight, Callers
  <2>4. Counted(counters) \in Nat /\ InFlight \in Nat
    BY InFlightIsNat DEF Inv
  <2>5. Counted(counters) + InFlight = published
    BY AccountedDef DEF Inv
  <2>6. Counted(counters') + InFlight' = published'
    BY <1>3, <1>4, <1>5, <2>3, <2>4, <2>5
  <2> QED
    BY <2>6, AccountedNext
<1> QED
  BY <1>7, <1>8, <1>9, <1>10, <1>11 DEF Inv

\* asio::post: the head of todo moves to the queue.
LEMMA SendPostInv ==
  ASSUME Inv, NEW c \in Callers, SendPost(c)
  PROVE  Inv'
<1> DEFINE Q == [caller : Callers, size : 1 .. BatchSize]
           e == [caller |-> c, size |-> Head(todo[c])]
<1>1. UNCHANGED <<mpc, started, should_stop, http_initialized, curl, starts, restarted, tpc, produced,
                  pending, left, avail, responses, task, emptyPop, published, counters>>
  BY DEF SendPost, mainVars
<1>2. fpc[c] = "post" /\ \A d \in Callers : d # c => fpc[d] = "none"
  BY OneFrame DEF SendPost
<1>3. todo \in [Callers -> Seq(1 .. BatchSize)] /\ queue \in Seq(Q)
      /\ fpc \in [Callers -> {"none", "post", "wait", "account"}] /\ Types
  BY DEF Inv, Types, TypeOK
<1>4. Busy' = Busy
  BY <1>1 DEF Busy
<1>5. (\A t \in Threads : TaskOK(task[t]))'
  BY <1>1 DEF Inv, Types, TaskOK
<1>6. CASE todo[c] # <<>>
  <2>1. queue' = Append(queue, e) /\ todo' = [todo EXCEPT ![c] = Tail(todo[c])] /\ fpc' = fpc
    BY <1>6 DEF SendPost
  <2>2. Head(todo[c]) \in 1 .. BatchSize /\ Tail(todo[c]) \in Seq(1 .. BatchSize)
        /\ Len(Tail(todo[c])) = Len(todo[c]) - 1 /\ Len(todo[c]) \in Nat
    BY <1>3, <1>6, HeadTailProperties, LenProperties
  <2>3. e \in Q
    BY <2>2
  <2>4. queue' \in Seq(Q) /\ Len(queue') = Len(queue) + 1 /\ queue'[Len(queue) + 1] = e
        /\ (\A i \in 1 .. Len(queue) : queue'[i] = queue[i]) /\ Len(queue) \in Nat
    BY <1>3, <2>1, <2>3, AppendProperties, LenProperties
  <2>5. Types'
    BY <1>1, <1>3, <1>5, <2>1, <2>2, <2>4 DEF Types, TypeOK
  <2>6. Phases'
    BY <1>1, <2>1 DEF Inv, Phases
  <2>7. Frames'
    <3>1. left[c] = Len(todo[c]) + Len(queue) + Cardinality(Busy)
      BY <1>2 DEF Inv, Frames, Open
    <3>2. Cardinality(Busy) \in Nat
      BY PublisherAssumption, FS_Subset, FS_CardinalityType DEF Busy
    <3>3. left'[c] = Len(todo'[c]) + Len(queue') + Cardinality(Busy')
      BY <1>1, <1>3, <1>4, <2>1, <2>2, <2>4, <3>1, <3>2
    <3>4. \A d \in Callers : Open(d)' => d = c
      BY <1>2, <2>1 DEF Open
    <3>5. \A d \in Callers : fpc'[d] # "post" => todo'[d] = <<>>
      BY <1>2, <1>3, <2>1 DEF Inv, Frames
    <3>6. \A d \in Callers : fpc'[d] # "account" /\ ~Open(d)' => responses'[d] = <<>>
      BY <1>1, <2>1 DEF Inv, Frames, Open
    <3>7. \A t \in Busy' : Open(task[t].caller)'
      BY <1>1, <1>4, <2>1 DEF Inv, Frames, Open
    <3>8. ASSUME NEW i \in DOMAIN queue' PROVE Open(queue[i].caller)'
      <4>1. i \in 1 .. Len(queue) + 1
        BY <2>4, LenProperties
      <4>2. CASE i = Len(queue) + 1
        BY <1>2, <2>1, <2>4, <4>2 DEF Open
      <4>3. CASE i # Len(queue) + 1
        <5>1. DOMAIN queue = 1 .. Len(queue)
          BY <1>3, LenProperties
        <5>2. i \in DOMAIN queue /\ queue'[i] = queue[i]
          BY <2>4, <4>1, <4>3, <5>1
        <5> QED
          BY <2>1, <5>2 DEF Inv, Frames, Open
      <4> QED
        BY <4>2, <4>3
    <3> QED
      BY <3>3, <3>4, <3>5, <3>6, <3>7, <3>8 DEF Frames
  <2>8. Pool'
    BY <1>1, <2>1 DEF Inv, Pool, Open
  <2>9. EveryMeasurementAccounted'
    <3>1. todo[c] \in Seq(Nat)
      BY <1>3, SeqMonotonic, IntervalShift
    <3>2. Total(todo[c]) = Total(Tail(todo[c])) + Head(todo[c])
      BY <1>6, <3>1, TotalTail
    <3>3. Total(Sizes(queue')) = Total(Sizes(queue)) + Head(todo[c])
      <4>1. \A r \in Q : r.size \in Nat
        OBVIOUS
      <4>2. e.size = Head(todo[c])
        OBVIOUS
      <4> HIDE DEF Q, e
      <4>3. Total(Sizes(Append(queue, e))) = Total(Sizes(queue)) + e.size
        BY <1>3, <2>3, <4>1, SizesAppend
      <4> QED
        BY <2>1, <4>2, <4>3
    <3>4. todo'[c] = Tail(todo[c]) /\ \A d \in Callers : d # c => todo'[d] = todo[d]
      BY <1>3, <2>1
    <3>5. /\ \A d \in Callers : Total(todo[d]) \in Nat /\ Total(todo'[d]) \in Nat
          /\ Total(Sizes(queue)) \in Nat
      <4>1. Tail(todo[c]) \in Seq(Nat)
        BY <2>2, SeqMonotonic, IntervalShift
      <4> QED
        BY <1>3, <3>4, <4>1, InFlightNat, TotalNat
    <3>6. Total(todo'["sender"]) + Total(todo'["main"]) + Total(Sizes(queue'))
            = Total(todo["sender"]) + Total(todo["main"]) + Total(Sizes(queue))
      <4>1. CASE c = "sender"
        BY <2>2, <3>2, <3>3, <3>4, <3>5, <4>1 DEF Callers
      <4>2. CASE c = "main"
        BY <2>2, <3>2, <3>3, <3>4, <3>5, <4>2 DEF Callers
      <4> QED
        BY <4>1, <4>2 DEF Callers
    <3>7. InFlight' = InFlight
      BY <1>1, <3>6 DEF InFlight
    <3> QED
      BY <1>1, <3>7 DEF Inv, EveryMeasurementAccounted
  <2> QED
    BY <2>5, <2>6, <2>7, <2>8, <2>9 DEF Inv
<1>7. CASE todo[c] = <<>>
  <2>1. fpc' = [fpc EXCEPT ![c] = "wait"] /\ queue' = queue /\ todo' = todo
    BY <1>7 DEF SendPost
  <2>2. \A d \in Callers : (Open(d)' <=> Open(d)) /\ (d # c => fpc'[d] = fpc[d]) /\ fpc'[c] = "wait"
    BY <1>2, <1>3, <2>1 DEF Open
  <2>3. Types'
    BY <1>1, <1>3, <1>5, <2>1 DEF Types, TypeOK
  <2>4. Phases'
    BY <1>1, <1>2, <2>2 DEF Inv, Phases, Callers
  <2>5. Frames'
    <3>1. \A t \in Busy : task[t].caller \in Callers
      BY <1>3 DEF Types, TaskOK, Busy
    <3>2. \A i \in DOMAIN queue : queue[i].caller \in Callers
      <4>1. DOMAIN queue = 1 .. Len(queue) /\ \A i \in 1 .. Len(queue) : queue[i] \in Q
        BY <1>3, LenProperties, ElementOfSeq
      <4> QED
        BY <4>1
    <3>3. \A d \in Callers : Open(d)' => left'[d] = Len(todo'[d]) + Len(queue') + Cardinality(Busy')
      BY <1>1, <1>4, <2>1, <2>2 DEF Inv, Frames
    <3>4. \A d \in Callers : fpc'[d] # "post" => todo'[d] = <<>>
      BY <1>7, <2>1, <2>2 DEF Inv, Frames
    <3>5. \A d \in Callers : fpc'[d] # "account" /\ ~Open(d)' => responses'[d] = <<>>
      BY <1>1, <1>2, <2>2 DEF Inv, Frames
    <3>6. \A t \in Busy' : Open(task[t].caller)'
      BY <1>1, <1>4, <2>2, <3>1 DEF Inv, Frames, Open
    <3>7. \A i \in DOMAIN queue' : Open(queue[i].caller)'
      BY <1>1, <2>1, <2>2, <3>2 DEF Inv, Frames, Open
    <3> QED
      BY <3>3, <3>4, <3>5, <3>6, <3>7 DEF Frames
  <2>6. Pool'
    BY <1>1, <2>2 DEF Inv, Pool
  <2>7. EveryMeasurementAccounted'
    BY <1>1, <2>1 DEF Inv, EveryMeasurementAccounted, InFlight
  <2> QED
    BY <2>3, <2>4, <2>5, <2>6, <2>7 DEF Inv
<1> QED
  BY <1>6, <1>7

\* batches_to_do.Wait(): when the latch is open there are no tasks.
LEMMA SendWaitInv ==
  ASSUME Inv, NEW c \in Callers, SendWait(c)
  PROVE  Inv'
<1>1. UNCHANGED <<mpc, started, should_stop, http_initialized, curl, starts, restarted, tpc, produced,
                  pending, todo, left, avail, responses, queue, task, emptyPop, published, counters>>
  BY DEF SendWait, mainVars, poolVars
<1>2. fpc[c] = "wait" /\ left[c] = 0 /\ \A d \in Callers : d # c => fpc[d] = "none"
  BY OneFrame DEF SendWait
<1>3. fpc' = [fpc EXCEPT ![c] = "account"] /\ fpc \in [Callers -> {"none", "post", "wait", "account"}]
  BY DEF SendWait, Inv, Types, TypeOK
<1>4. Busy = {} /\ queue = <<>>
  <2>1. IsFiniteSet(Busy) /\ Cardinality(Busy) \in Nat
    BY PublisherAssumption, FS_Subset, FS_CardinalityType DEF Busy
  <2>2. Len(todo[c]) \in Nat /\ Len(queue) \in Nat
    BY LenProperties DEF Inv, Types, TypeOK
  <2>3. left[c] = Len(todo[c]) + Len(queue) + Cardinality(Busy)
    BY <1>2 DEF Inv, Frames, Open
  <2>4. Len(queue) = 0 /\ Cardinality(Busy) = 0
    BY <1>2, <2>1, <2>2, <2>3
  <2>5. Busy = {}
    BY <2>1, <2>4, FS_EmptySet
  <2>6. queue = <<>>
    BY <2>4, EmptySeq DEF Inv, Types
  <2> QED
    BY <2>5, <2>6
<1>5. Busy' = {} /\ queue' = <<>>
  BY <1>1, <1>4 DEF Busy
<1>6. \A d \in Callers : ~Open(d)' /\ fpc'[c] = "account" /\ (d # c => fpc'[d] = fpc[d])
  BY <1>2, <1>3 DEF Open
<1>7. Types'
  <2>1. (\A t \in Threads : TaskOK(task[t]))'
    BY <1>1 DEF Inv, Types, TaskOK
  <2> QED
    BY <1>1, <1>3, <2>1 DEF Inv, Types, TypeOK
<1>8. Phases'
  BY <1>1, <1>2, <1>6 DEF Inv, Phases, Callers
<1>9. Frames'
  BY <1>1, <1>2, <1>5, <1>6 DEF Inv, Frames, Open
<1>10. Pool'
  BY <1>1, <1>6 DEF Inv, Pool
<1>11. EveryMeasurementAccounted'
  BY <1>1 DEF Inv, EveryMeasurementAccounted, InFlight
<1> QED
  BY <1>7, <1>8, <1>9, <1>10, <1>11 DEF Inv

\* Whatever the answer, handle_aggr_response counts each of n measurements once, if
\* it counts.
LEMMA AggrCounts ==
  ASSUME NEW n \in 1 .. BatchSize, NEW a \in Answers(n),
         counters \in [sent : Nat, invalid : Nat, http : Nat, other : Nat]
  PROVE  /\ handle_aggr_response(a, n) \in [sent : Nat, invalid : Nat, http : Nat, other : Nat]
         /\ StatusMetrics => Counted(handle_aggr_response(a, n)) = Counted(counters) + n
<1> SUFFICES ASSUME StatusMetrics
             PROVE  /\ handle_aggr_response(a, n) \in [sent : Nat, invalid : Nat, http : Nat, other : Nat]
                    /\ Counted(handle_aggr_response(a, n)) = Counted(counters) + n
  BY DEF handle_aggr_response
<1>1. n \in Nat /\ a.errors \in 0 .. n /\ a.kind \in {"200", "unusable", "5xx", "counted"}
  BY PublisherAssumption DEF Answers
<1>2. CASE a.kind = "200"
  BY <1>1, <1>2 DEF handle_aggr_response, Counted
<1>3. CASE a.kind = "counted"
  <2> DEFINE k == handle_aggr_response(a, n)
  <2>1. k = [counters EXCEPT !.invalid = counters.invalid + a.errors,
                             !.sent = counters.sent + (n - a.errors)]
    BY <1>3 DEF handle_aggr_response
  <2>2. k.sent = counters.sent + (n - a.errors) /\ k.invalid = counters.invalid + a.errors
        /\ k.http = counters.http /\ k.other = counters.other
    BY <2>1
  <2>3. counters.sent \in Nat /\ counters.invalid \in Nat /\ counters.http \in Nat
        /\ counters.other \in Nat
    OBVIOUS
  <2>4. counters.sent + (n - a.errors) \in Nat /\ counters.invalid + a.errors \in Nat
    BY <1>1, <2>3
  <2>5. k \in [sent : Nat, invalid : Nat, http : Nat, other : Nat]
    BY <2>1, <2>4
  <2> HIDE DEF k
  <2>6. Counted(k) = Counted(counters) + n
    BY <1>1, <2>2, <2>3 DEF Counted
  <2> QED
    BY <2>5, <2>6 DEF k
<1>4. CASE a.kind = "5xx"
  BY <1>1, <1>4 DEF handle_aggr_response, Counted
<1>5. CASE a.kind = "unusable"
  BY <1>1, <1>5 DEF handle_aggr_response, Counted
<1> QED
  BY <1>1, <1>2, <1>3, <1>4, <1>5

LEMMA CountersAreFunctions ==
  ASSUME NEW k \in [sent : Nat, invalid : Nat, http : Nat, other : Nat]
  PROVE  k \in [{"sent", "invalid", "http", "other"} -> Nat]
  OBVIOUS

LEMMA SendAccountInv ==
  ASSUME Inv, NEW c \in Callers, SendAccount(c)
  PROVE  Inv'
<1> DEFINE r == Head(responses[c])
<1>1. UNCHANGED <<mpc, started, should_stop, http_initialized, curl, starts, restarted, tpc, produced,
                  pending, fpc, todo, left, avail, queue, task, emptyPop, published>>
  BY DEF SendAccount, mainVars, poolVars
<1>2. fpc[c] = "account" /\ responses[c] # <<>>
      /\ counters' = handle_aggr_response(r.answer, r.size)
      /\ responses' = [responses EXCEPT ![c] = Tail(responses[c])]
  BY DEF SendAccount
<1>3. responses \in [Callers -> Seq(Response)] /\ Types
  BY DEF Inv, Types
<1>4. Tail(responses[c]) \in Seq(Response) /\ Len(Tail(responses[c])) = Len(responses[c]) - 1
      /\ Len(responses[c]) \in Nat \ {0} /\ r = responses[c][1]
      /\ \A i \in 1 .. Len(Tail(responses[c])) : Tail(responses[c])[i] = responses[c][i + 1]
  BY <1>2, <1>3, HeadTailProperties, EmptySeq
<1>5. DOMAIN responses[c] = 1 .. Len(responses[c])
      /\ DOMAIN Tail(responses[c]) = 1 .. Len(Tail(responses[c]))
  BY <1>3, <1>4, LenProperties
<1>6. r \in Response /\ r.answer \in Answers(r.size) /\ r.size \in 1 .. BatchSize
  <2>1. 1 \in DOMAIN responses[c]
    BY <1>4, <1>5
  <2>2. r \in Response
    BY <1>2, <1>3, HeadTailProperties
  <2> QED
    BY <1>3, <1>4, <2>1, <2>2 DEF Types, Response
<1>7. /\ counters' \in [sent : Nat, invalid : Nat, http : Nat, other : Nat]
      /\ StatusMetrics => Counted(counters') = Counted(counters) + r.size
  BY <1>2, <1>3, <1>6, AggrCounts DEF Types
<1>8. responses'[c] = Tail(responses[c]) /\ (\A d \in Callers : d # c => responses'[d] = responses[d])
      /\ responses' \in [Callers -> Seq(Response)]
  BY <1>2, <1>3, <1>4
<1>9. Types'
  <2>1. ASSUME NEW d \in Callers, NEW i \in DOMAIN responses'[d]
        PROVE  /\ responses'[d][i].size \in 1 .. BatchSize
               /\ responses'[d][i].answer \in Answers(responses'[d][i].size)
    <3>1. CASE d = c
      <4>1. i \in 1 .. Len(responses[c]) - 1 /\ responses'[c][i] = responses[c][i + 1]
        BY <1>4, <1>5, <1>8, <3>1
      <4>2. i + 1 \in DOMAIN responses[c]
        BY <1>4, <1>5, <4>1
      <4> QED
        BY <1>3, <3>1, <4>1, <4>2 DEF Types, TypeOK
    <3>2. CASE d # c
      BY <1>3, <1>8, <3>2 DEF Types, TypeOK
    <3> QED
      BY <3>1, <3>2
  <2>2. counters' \in [{"sent", "invalid", "http", "other"} -> Nat]
    BY <1>7, CountersAreFunctions
  <2>3. TypeOK'
    BY <1>1, <1>3, <2>1, <2>2 DEF Types, TypeOK
  <2>4. (\A t \in Threads : TaskOK(task[t]))'
    BY <1>1, <1>3 DEF Types, TaskOK
  <2> QED
    BY <1>1, <1>3, <1>7, <1>8, <2>1, <2>3, <2>4 DEF Types
<1>10. Phases'
  BY <1>1 DEF Inv, Phases
<1>11. Frames'
  <2>1. Busy' = Busy
    BY <1>1 DEF Busy
  <2>2. \A d \in Callers : fpc'[d] # "account" /\ ~Open(d)' => responses'[d] = <<>>
    BY <1>1, <1>2, <1>8 DEF Inv, Frames, Open
  <2> QED
    BY <1>1, <2>1, <2>2 DEF Inv, Frames, Open
<1>12. Pool'
  BY <1>1 DEF Inv, Pool, Open
<1>13. EveryMeasurementAccounted'
  <2> SUFFICES ASSUME StatusMetrics PROVE EveryMeasurementAccounted'
    BY DEF EveryMeasurementAccounted
  <2>1. Total(Sizes(responses[c])) = Total(Sizes(Tail(responses[c]))) + r.size
    BY <1>2, <1>3, ResponseSize, SizesTail
  <2>2. \A d \in Callers : Total(Sizes(responses[d])) \in Nat
    BY <1>3, InFlightNat
  <2>3. Total(Sizes(Tail(responses[c]))) \in Nat
    BY <1>4, ResponseSize, SizesType, TotalNat
  <2> DEFINE n == r.size
             a == Total(Sizes(responses[c]))
             b == Total(Sizes(responses'[c]))
  <2>a. a = b + n /\ a \in Nat /\ b \in Nat /\ n \in Int
    BY <1>6, <1>8, <2>1, <2>2, <2>3
  <2>4. Total(Sizes(responses'["sender"])) + Total(Sizes(responses'["main"]))
          = Total(Sizes(responses["sender"])) + Total(Sizes(responses["main"])) - r.size
    <3> HIDE DEF n
    <3>1. CASE c = "sender"
      <4>1. responses'["main"] = responses["main"] /\ Total(Sizes(responses["main"])) \in Nat
        BY <1>8, <2>2, <3>1 DEF Callers
      <4>2. b + Total(Sizes(responses["main"])) = a + Total(Sizes(responses["main"])) - n
        BY <2>a, <4>1
      <4> QED
        BY <3>1, <4>1, <4>2 DEF n
    <3>2. CASE c = "main"
      <4>1. responses'["sender"] = responses["sender"] /\ Total(Sizes(responses["sender"])) \in Nat
        BY <1>8, <2>2, <3>2 DEF Callers
      <4>2. Total(Sizes(responses["sender"])) + b = Total(Sizes(responses["sender"])) + a - n
        BY <2>a, <4>1
      <4> QED
        BY <3>2, <4>1, <4>2 DEF n
    <3> QED
      BY <3>1, <3>2 DEF Callers
  <2>5. Total(Sizes(responses'["sender"])) \in Nat /\ Total(Sizes(responses'["main"])) \in Nat
    BY <1>8, <2>2, <2>3 DEF Callers
  <2>6. InFlight' = InFlight - r.size
    <3>1. /\ Total(todo["sender"]) \in Nat /\ Total(todo["main"]) \in Nat
          /\ Total(Sizes(responses["sender"])) \in Nat /\ Total(Sizes(responses["main"])) \in Nat
          /\ Total(Sizes(queue)) \in Nat /\ Total([t \in Threads |-> task[t].size]) \in Nat
      BY <1>3, InFlightNat DEF Callers
    <3> QED
      BY <1>1, <1>6, <2>4, <2>5, <3>1 DEF InFlight
  <2>7. Counted(counters) + InFlight = published /\ InFlight \in Nat /\ Counted(counters) \in Nat
    BY <1>3, AccountedDef, InFlightIsNat DEF Inv
  <2>8. Counted(counters') + InFlight' = published'
    BY <1>1, <1>6, <1>7, <2>6, <2>7
  <2> QED
    BY <2>8, AccountedNext
<1> QED
  BY <1>9, <1>10, <1>11, <1>12, <1>13 DEF Inv

LEMMA SendReturnInv ==
  ASSUME Inv, NEW c \in Callers, SendReturn(c)
  PROVE  Inv'
<1>1. UNCHANGED <<started, should_stop, http_initialized, curl, starts, restarted, produced, pending,
                  todo, left, responses, queue, task, emptyPop, published, counters>>
  BY DEF SendReturn, poolVars
<1>2. fpc[c] = "account" /\ responses[c] = <<>> /\ \A d \in Callers : d # c => fpc[d] = "none"
  BY OneFrame DEF SendReturn
<1>3. fpc' = [fpc EXCEPT ![c] = "none"] /\ avail' = [avail EXCEPT ![c] = {}]
      /\ fpc \in [Callers -> {"none", "post", "wait", "account"}]
  BY DEF SendReturn, Inv, Types, TypeOK
<1>4. Busy = {} /\ queue = <<>>
  BY <1>2, Quiet DEF Open
<1>5. Busy' = {} /\ queue' = <<>>
  BY <1>1, <1>4 DEF Busy
<1>6. \A d \in Callers : fpc'[d] = "none" /\ ~Open(d)'
  BY <1>2, <1>3 DEF Open
<1>7. \/ c = "sender" /\ tpc = "send" /\ tpc' = "wait" /\ mpc' = mpc
      \/ c = "main" /\ mpc = "flush" /\ mpc' = "flushed" /\ tpc' = tpc /\ pending = 0
  BY <1>2 DEF Inv, Phases, SendReturn, Returns, Callers
<1>8. Types'
  <2>1. (\A t \in Threads : TaskOK(task[t]))'
    BY <1>1 DEF Inv, Types, TaskOK
  <2> QED
    BY <1>1, <1>3, <1>7, <2>1 DEF Inv, Types, TypeOK
<1>9. Phases'
  BY <1>1, <1>6, <1>7 DEF Inv, Phases, Callers
<1>10. Frames'
  BY <1>1, <1>2, <1>5, <1>6 DEF Inv, Frames, Open
<1>11. Pool'
  BY <1>1, <1>6 DEF Inv, Pool
<1>12. EveryMeasurementAccounted'
  BY <1>1 DEF Inv, EveryMeasurementAccounted, InFlight
<1> QED
  BY <1>8, <1>9, <1>10, <1>11, <1>12 DEF Inv

-----------------------------------------------------------------------------
(* The pool's tasks *)

LEMMA AnswersType == \A n \in 1 .. BatchSize : Answers(n) \subseteq AnyAnswer
  BY PublisherAssumption DEF Answers, AnyAnswer

\* A thread's record is replaced by r.
LEMMA TaskReplaced ==
  ASSUME Types, NEW t \in Threads, NEW r, TaskOK(r), task' = [task EXCEPT ![t] = r]
  PROVE  /\ task' \in [Threads -> PoolTask]
         /\ task'[t] = r /\ \A u \in Threads \ {t} : task'[u] = task[u]
         /\ \A u \in Threads : TaskOK(task'[u])
         /\ \A u \in Threads : /\ task'[u].caller \in Callers \cup {None}
                               /\ task'[u].buffer \in Buffers \cup {None}
<1>1. task \in [Threads -> PoolTask] /\ r \in PoolTask
  BY DEF Types, TaskOK
<1>2. task' \in [Threads -> PoolTask] /\ task'[t] = r /\ \A u \in Threads \ {t} : task'[u] = task[u]
  BY <1>1
<1>3. ASSUME NEW u \in Threads PROVE TaskOK(task'[u])
  <2>1. CASE u = t
    BY <1>2, <2>1
  <2>2. CASE u # t
    <3>1. TaskOK(task[u]) /\ task'[u] = task[u]
      BY <1>2, <2>2 DEF Types
    <3> QED
      BY <3>1
  <2> QED
    BY <2>1, <2>2
<1>4. \A u \in Threads : task'[u] \in PoolTask
  BY <1>2
<1>5. \A u \in Threads : /\ task'[u].caller \in Callers \cup {None}
                         /\ task'[u].buffer \in Buffers \cup {None}
  BY <1>4 DEF PoolTask
<1> QED
  BY <1>2, <1>3, <1>5

LEMMA TaskTotal ==
  ASSUME Types, NEW t \in Threads, NEW r, TaskOK(r), task' = [task EXCEPT ![t] = r]
  PROVE  Total([u \in Threads |-> task'[u].size])
           = Total([u \in Threads |-> task[u].size]) - task[t].size + r.size
<1> DEFINE f == [u \in Threads |-> task[u].size]
           g == [u \in Threads |-> task'[u].size]
<1>1. task' \in [Threads -> PoolTask] /\ task'[t] = r /\ \A u \in Threads \ {t} : task'[u] = task[u]
  BY TaskReplaced
<1>2. task \in [Threads -> PoolTask] /\ \A x \in PoolTask : x.size \in Nat
  BY DEF Types, PoolTask
<1>3. f \in [Threads -> Nat] /\ g \in [Threads -> Nat]
  BY <1>1, <1>2
<1>4. \A u \in Threads \ {t} : g[u] = f[u]
  BY <1>1
<1>5. f[t] = task[t].size /\ g[t] = r.size
  BY <1>1
<1> HIDE DEF f, g
<1>6. Total(g) = Total(f) - f[t] + g[t]
  BY <1>3, <1>4, TotalExcept, PublisherAssumption
<1> QED
  BY <1>5, <1>6 DEF f, g

\* What no task changes.
LEMMA TaskKeeps ==
  ASSUME NEW t \in Threads, Task(t)
  PROVE  UNCHANGED <<mpc, started, should_stop, http_initialized, curl, starts, restarted, tpc, produced,
                     pending, fpc, todo, published, counters>>
  BY DEF Task, TaskBegin, TaskPost, TaskRecord, TaskReturn, TaskDecrement, mainVars, frameVars

LEMMA BusyCount ==
  ASSUME NEW S, S \subseteq Threads, NEW t \in Threads
  PROVE  /\ IsFiniteSet(S) /\ Cardinality(S) \in Nat
         /\ t \notin S => Cardinality(S \cup {t}) = Cardinality(S) + 1
         /\ t \in S => Cardinality(S \ {t}) = Cardinality(S) - 1 /\ Cardinality(S) > 0
<1>1. IsFiniteSet(S)
  BY PublisherAssumption, FS_Subset
<1>2. Cardinality(S) \in Nat
  BY <1>1, FS_CardinalityType
<1>3. t \notin S => Cardinality(S \cup {t}) = Cardinality(S) + 1
  BY <1>1, FS_AddElement
<1>4. t \in S => Cardinality(S \ {t}) = Cardinality(S) - 1
  BY <1>1, FS_RemoveElement
<1>5. t \in S => Cardinality(S) # 0
  BY <1>1, FS_EmptySet
<1> QED
  BY <1>1, <1>2, <1>3, <1>4, <1>5

\* While a thread is idle the open frame has a buffer to spare: every buffer that
\* is not available is held by a different one of the other threads.
LEMMA BufferToSpare ==
  ASSUME Inv, NEW t \in Threads, task[t].pc = "idle", NEW c \in Callers, Open(c)
  PROVE  avail[c] # {}
<1> SUFFICES ASSUME avail[c] = {} PROVE FALSE
  OBVIOUS
<1> DEFINE h == [b \in Buffers |-> CHOOSE u \in Threads : task[u].buffer = b]
<1>1. task[t].buffer = None /\ None \notin Buffers
  BY PublisherAssumption DEF Inv, Types, TaskOK
<1>2. \A b \in Buffers : \E u \in Threads : task[u].buffer = b
  BY DEF Inv, Pool
<1>3. \A b \in Buffers : h[b] \in Threads /\ task[h[b]].buffer = b
  BY <1>2
<1>4. \A b \in Buffers : h[b] \in Threads \ {t}
  BY <1>1, <1>3
<1> HIDE DEF h
<1>5. \A a, b \in Buffers : h[a] = h[b] => a = b
  BY <1>3
<1>6. h \in [Buffers -> Threads \ {t}]
  BY <1>4 DEF h
<1>7. IsFiniteSet(Threads \ {t}) /\ Cardinality(Threads \ {t}) = Cardinality(Threads) - 1
      /\ Cardinality(Threads) \in Nat
  BY PublisherAssumption, FS_RemoveElement, FS_CardinalityType
<1>8. Cardinality(Threads \ {t}) < Cardinality(Buffers) /\ IsFiniteSet(Buffers)
  BY <1>7, PublisherAssumption
<1>9. \E a, b \in Buffers : a # b /\ h[a] = h[b]
  BY <1>6, <1>7, <1>8, FS_PigeonHole
<1> QED
  BY <1>5, <1>9

LEMMA TaskPhases ==
  ASSUME Inv, NEW t \in Threads, Task(t)
  PROVE  Phases'
  BY TaskKeeps DEF Inv, Phases

LEMMA QueueHead ==
  ASSUME Inv, queue # <<>>
  PROVE  /\ Head(queue) \in [caller : Callers, size : 1 .. BatchSize]
         /\ Tail(queue) \in Seq([caller : Callers, size : 1 .. BatchSize])
         /\ Len(Tail(queue)) = Len(queue) - 1 /\ Len(queue) \in Nat \ {0}
         /\ Open(Head(queue).caller)
         /\ \A i \in DOMAIN Tail(queue) : Open(Tail(queue)[i].caller)
         /\ Total(Sizes(queue)) = Total(Sizes(Tail(queue))) + Head(queue).size
<1> DEFINE Q == [caller : Callers, size : 1 .. BatchSize]
<1>1. queue \in Seq(Q) /\ \A r \in Q : r.size \in Nat
  BY DEF Inv, Types
<1> HIDE DEF Q
<1>2. Head(queue) \in Q /\ Tail(queue) \in Seq(Q) /\ Len(Tail(queue)) = Len(queue) - 1
      /\ \A i \in 1 .. Len(Tail(queue)) : Tail(queue)[i] = queue[i + 1]
  BY <1>1, HeadTailProperties
<1>3. Len(queue) \in Nat \ {0} /\ DOMAIN queue = 1 .. Len(queue) /\ Head(queue) = queue[1]
  BY <1>1, EmptySeq, LenProperties
<1>4. DOMAIN Tail(queue) = 1 .. Len(queue) - 1
  BY <1>2, LenProperties
<1>5. Open(Head(queue).caller)
  BY <1>3 DEF Inv, Frames
<1>6. ASSUME NEW i \in DOMAIN Tail(queue) PROVE Open(Tail(queue)[i].caller)
  <2>1. i + 1 \in DOMAIN queue /\ Tail(queue)[i] = queue[i + 1]
    BY <1>2, <1>3, <1>4
  <2> QED
    BY <2>1 DEF Inv, Frames
<1>7. Total(Sizes(queue)) = Total(Sizes(Tail(queue))) + Head(queue).size
  BY <1>1, SizesTail
<1> QED
  BY <1>2, <1>3, <1>5, <1>6, <1>7 DEF Q

LEMMA TaskBeginInv ==
  ASSUME Inv, NEW t \in Threads, TaskBegin(t)
  PROVE  Inv'
<1> DEFINE Q == [caller : Callers, size : 1 .. BatchSize]
<1>1. PICK c \in Callers, n \in 1 .. BatchSize : c = Head(queue).caller /\ n = Head(queue).size
  BY QueueHead DEF TaskBegin
<1>2. task[t].pc = "idle" /\ queue # <<>> /\ queue' = Tail(queue) /\ Types
  BY DEF TaskBegin, Inv
<1>3. Open(c)
  BY <1>1, <1>2, QueueHead
<1>4. avail[c] # {}
  BY <1>2, <1>3, BufferToSpare
<1> DEFINE r(b) == [pc |-> "post", caller |-> c, size |-> n, buffer |-> b, answer |-> None]
<1>5. PICK b \in avail[c] : /\ avail' = [avail EXCEPT ![c] = @ \ {b}]
                            /\ task' = [task EXCEPT ![t] = r(b)]
                            /\ emptyPop' = emptyPop
  BY <1>1, <1>4 DEF TaskBegin
<1>6. UNCHANGED <<mpc, started, should_stop, http_initialized, curl, starts, restarted, tpc, produced,
                  pending, fpc, todo, left, responses, published, counters>>
  BY DEF TaskBegin, mainVars
<1>7. b \in Buffers /\ avail \in [Callers -> SUBSET Buffers]
  BY <1>2 DEF Types, TypeOK
<1>8. TaskOK(r(b))
  BY <1>7, PublisherAssumption DEF TaskOK, PoolTask
<1>9. /\ task' \in [Threads -> PoolTask]
      /\ task'[t] = r(b) /\ \A u \in Threads \ {t} : task'[u] = task[u]
      /\ \A u \in Threads : TaskOK(task'[u])
      /\ \A u \in Threads : /\ task'[u].caller \in Callers \cup {None}
                            /\ task'[u].buffer \in Buffers \cup {None}
  BY <1>2, <1>5, <1>8, TaskReplaced
<1>10. Types'
  <2>1. queue' \in Seq(Q)
    BY <1>2, QueueHead
  <2>2. TypeOK'
    BY <1>2, <1>5, <1>6, <1>7, <1>9 DEF Types, TypeOK
  <2> QED
    BY <1>2, <1>6, <1>9, <2>1, <2>2 DEF Types
<1>11. Phases'
  BY TaskPhases DEF Task
<1>12. \A d \in Callers : (Open(d)' <=> Open(d)) /\ (Open(d) => d = c)
  BY <1>3, <1>6, OneFrame DEF Open
<1>13. Frames'
  <2>1. Busy' = Busy \cup {t} /\ t \notin Busy /\ Busy \subseteq Threads
    BY <1>2, <1>9 DEF Busy
  <2>2. Cardinality(Busy') = Cardinality(Busy) + 1 /\ Cardinality(Busy) \in Nat
    BY <2>1, BusyCount
  <2>3. Len(queue') = Len(queue) - 1 /\ Len(queue) \in Nat
    BY <1>2, QueueHead
  <2>4. Len(todo[c]) \in Nat /\ left[c] = Len(todo[c]) + Len(queue) + Cardinality(Busy)
    BY <1>2, <1>3, LenProperties DEF Types, TypeOK, Inv, Frames
  <2>5. \A d \in Callers : Open(d)' => left'[d] = Len(todo'[d]) + Len(queue') + Cardinality(Busy')
    BY <1>6, <1>12, <2>2, <2>3, <2>4
  <2>6. ASSUME NEW u \in Busy' PROVE Open(task[u].caller)'
    <3>1. CASE u = t
      BY <1>3, <1>6, <1>9, <3>1 DEF Open
    <3>2. CASE u # t
      BY <1>6, <1>9, <2>1, <3>2 DEF Inv, Frames, Open
    <3> QED
      BY <3>1, <3>2
  <2>7. ASSUME NEW i \in DOMAIN queue' PROVE Open(queue[i].caller)'
    BY <1>2, <1>6, QueueHead DEF Open
  <2>8. (\A d \in Callers : fpc[d] # "post" => todo[d] = <<>>)'
        /\ (\A d \in Callers : fpc[d] # "account" /\ ~Open(d) => responses[d] = <<>>)'
    BY <1>6 DEF Inv, Frames, Open
  <2> QED
    BY <2>5, <2>6, <2>7, <2>8 DEF Frames
<1>14. Pool'
  <2>1. emptyPop' = FALSE
    BY <1>5 DEF Inv, Pool
  <2>2. task[t].buffer = None /\ b # None /\ task'[t].buffer = b
    <3>1. task[t].buffer = None
      BY <1>2 DEF Types, TaskOK
    <3>2. r(b).buffer = b
      OBVIOUS
    <3> HIDE DEF r
    <3> QED
      BY <1>7, <1>9, <3>1, <3>2, PublisherAssumption
  <2>3. \A u \in Threads : task[u].buffer # b /\ task[u].buffer \notin avail[c]
    BY <1>3 DEF Inv, Pool
  <2>4. avail'[c] = avail[c] \ {b}
    BY <1>5, <1>7
  <2>5. \A u, v \in Threads : task'[u].buffer = task'[v].buffer /\ task'[u].buffer # None => u = v
    BY <1>9, <2>2, <2>3 DEF Inv, Pool
  <2>6. \A u \in Threads : task'[u].buffer \notin avail'[c]
    BY <1>9, <2>2, <2>3, <2>4
  <2>7. ASSUME NEW x \in Buffers PROVE x \in avail'[c] \/ \E u \in Threads : task'[u].buffer = x
    <3>1. CASE x = b
      BY <2>2, <3>1
    <3>2. CASE x \in avail[c] /\ x # b
      BY <2>4, <3>2
    <3>3. CASE x \notin avail[c]
      <4>1. PICK u \in Threads : task[u].buffer = x
        BY <1>3, <3>3 DEF Inv, Pool
      <4>2. u # t
        BY <2>2, <4>1, PublisherAssumption
      <4> QED
        BY <1>9, <4>1, <4>2
    <3> QED
      BY <3>1, <3>2, <3>3
  <2> QED
    BY <1>12, <2>1, <2>5, <2>6, <2>7 DEF Pool
<1>15. EveryMeasurementAccounted'
  <2>1. Total([u \in Threads |-> task'[u].size]) = Total([u \in Threads |-> task[u].size]) + n
    <3>1. task[t].size = 0 /\ r(b).size = n
      BY <1>2 DEF Types, TaskOK
    <3>2. Total([u \in Threads |-> task'[u].size])
            = Total([u \in Threads |-> task[u].size]) - task[t].size + r(b).size
      BY <1>2, <1>5, <1>8, TaskTotal
    <3>3. Total([u \in Threads |-> task[u].size]) \in Nat
      BY <1>2, InFlightNat
    <3> QED
      BY <3>1, <3>2, <3>3
  <2>2. Total(Sizes(queue)) = Total(Sizes(queue')) + n
    BY <1>1, <1>2, QueueHead
  <2>3. Total(Sizes(queue')) \in Nat
    <3> DEFINE q == Tail(queue)
    <3>1. q \in Seq(Q) /\ \A x \in Q : x.size \in Nat
      BY <1>2, QueueHead
    <3> HIDE DEF Q, q
    <3>2. Sizes(q) \in Seq(Nat)
      BY <3>1, SizesType
    <3> QED
      BY <1>2, <3>2, TotalNat DEF q
  <2>4. InFlight' = InFlight
    BY <1>2, <1>6, <2>1, <2>2, <2>3, InFlightNat DEF InFlight, Callers
  <2> QED
    BY <1>6, <2>4 DEF Inv, EveryMeasurementAccounted
<1> QED
  BY <1>10, <1>11, <1>13, <1>14, <1>15 DEF Inv

\* Steps of a task that change neither the queue nor which threads are busy.
LEMMA StaysBusy ==
  ASSUME Inv, NEW t \in Threads, Task(t), task[t].pc # "idle",
         NEW r, TaskOK(r), r.pc # "idle", r.caller = task[t].caller,
         task' = [task EXCEPT ![t] = r], UNCHANGED <<queue, left>>
  PROVE  /\ Busy' = Busy
         /\ \A d \in Callers : Open(d)' => left'[d] = Len(todo'[d]) + Len(queue') + Cardinality(Busy')
         /\ \A d \in Callers : fpc'[d] # "post" => todo'[d] = <<>>
         /\ \A u \in Busy' : Open(task[u].caller)'
         /\ \A i \in DOMAIN queue' : Open(queue[i].caller)'
<1>1. task'[t] = r /\ \A u \in Threads \ {t} : task'[u] = task[u]
  BY TaskReplaced DEF Inv
<1>2. fpc' = fpc /\ todo' = todo
  BY TaskKeeps
<1>3. Busy' = Busy
  BY <1>1 DEF Busy
<1>4. \A u \in Busy' : Open(task[u].caller)'
  <2> SUFFICES ASSUME NEW u \in Busy PROVE Open(task[u].caller)'
    BY <1>3
  <2>1. task'[u].caller = task[u].caller
    BY <1>1 DEF Busy
  <2> QED
    BY <1>2, <2>1 DEF Inv, Frames, Open
<1> QED
  BY <1>2, <1>3, <1>4 DEF Inv, Frames, Open

LEMMA TaskPostInv ==
  ASSUME Inv, NEW t \in Threads, TaskPost(t)
  PROVE  Inv'
<1>1. UNCHANGED <<mpc, started, should_stop, http_initialized, curl, starts, restarted, tpc, produced,
                  pending, fpc, todo, left, avail, responses, queue, emptyPop, published, counters>>
  BY DEF TaskPost, mainVars, frameVars
<1>2. task[t].pc = "post" /\ Types /\ task[t] \in PoolTask /\ TaskOK(task[t])
  BY DEF TaskPost, Inv, Types
<1>3. PICK a \in Answers(task[t].size) :
        task' = [task EXCEPT ![t] = [task[t] EXCEPT !.pc = "record", !.answer = a]]
  BY <1>2 DEF TaskPost, Moves, NextPc
<1> DEFINE r == [task[t] EXCEPT !.pc = "record", !.answer = a]
<1>4. task[t].size \in 1 .. BatchSize /\ a \in AnyAnswer
  BY <1>2, AnswersType DEF TaskOK, PoolTask
<1>5. r \in PoolTask /\ r.pc = "record" /\ r.answer = a /\ r.size = task[t].size
      /\ r.buffer = task[t].buffer /\ r.caller = task[t].caller
  BY <1>2, <1>4 DEF PoolTask
<1>6. TaskOK(r)
  BY <1>2, <1>5 DEF TaskOK
<1> HIDE DEF r
<1>7. /\ task' \in [Threads -> PoolTask]
      /\ task'[t] = r /\ \A u \in Threads \ {t} : task'[u] = task[u]
      /\ \A u \in Threads : TaskOK(task'[u])
      /\ \A u \in Threads : /\ task'[u].caller \in Callers \cup {None}
                            /\ task'[u].buffer \in Buffers \cup {None}
  BY <1>2, <1>3, <1>6, TaskReplaced DEF r
<1>8. Types'
  BY <1>1, <1>2, <1>7 DEF Types, TypeOK
<1>9. Phases'
  BY TaskPhases DEF Task
<1>10. Frames'
  <2>1. /\ \A d \in Callers : Open(d)' => left'[d] = Len(todo'[d]) + Len(queue') + Cardinality(Busy')
        /\ \A d \in Callers : fpc'[d] # "post" => todo'[d] = <<>>
        /\ \A u \in Busy' : Open(task[u].caller)'
        /\ \A i \in DOMAIN queue' : Open(queue[i].caller)'
    BY <1>1, <1>2, <1>3, <1>5, <1>6, StaysBusy DEF Task, r
  <2> QED
    BY <1>1, <2>1 DEF Inv, Frames, Open
<1>11. Pool'
  <2>1. \A u \in Threads : task'[u].buffer = task[u].buffer
    BY <1>5, <1>7
  <2> QED
    BY <1>1, <2>1 DEF Inv, Pool, Open
<1>12. EveryMeasurementAccounted'
  <2>1. \A u \in Threads : task'[u].size = task[u].size
    BY <1>5, <1>7
  <2>2. [u \in Threads |-> task'[u].size] = [u \in Threads |-> task[u].size]
    BY <2>1
  <2> QED
    BY <1>1, <2>2 DEF Inv, EveryMeasurementAccounted, InFlight
<1> QED
  BY <1>8, <1>9, <1>10, <1>11, <1>12 DEF Inv

\* responses.emplace_back
LEMMA TaskRecordInv ==
  ASSUME Inv, NEW t \in Threads, TaskRecord(t)
  PROVE  Inv'
<1> DEFINE r == [task[t] EXCEPT !.pc = "return", !.size = 0, !.answer = None]
           c == task[t].caller
           e == [size |-> task[t].size, answer |-> task[t].answer]
<1>1. UNCHANGED <<mpc, started, should_stop, http_initialized, curl, starts, restarted, tpc, produced,
                  pending, fpc, todo, left, avail, queue, emptyPop, published, counters>>
  BY DEF TaskRecord, mainVars
<1>2. task[t].pc = "record" /\ Types /\ task[t] \in PoolTask /\ TaskOK(task[t])
      /\ responses \in [Callers -> Seq(Response)]
  BY DEF TaskRecord, Inv, Types
<1>3. task' = [task EXCEPT ![t] = r] /\ responses' = [responses EXCEPT ![c] = Append(responses[c], e)]
  BY <1>2 DEF TaskRecord, Moves, NextPc
<1>4. task[t].size \in 1 .. BatchSize /\ task[t].answer \in Answers(task[t].size) /\ c \in Callers
  BY <1>2 DEF TaskOK, PoolTask
<1>5. r \in PoolTask /\ r.pc = "return" /\ r.size = 0
      /\ r.buffer = task[t].buffer /\ r.caller = task[t].caller
  <2>1. 0 \in 0 .. BatchSize
    BY PublisherAssumption
  <2> QED
    BY <1>2, <2>1 DEF PoolTask
<1>6. TaskOK(r)
  BY <1>2, <1>5 DEF TaskOK
<1>7. e \in Response /\ e.size = task[t].size /\ e.answer \in Answers(e.size)
  BY <1>4, AnswersType DEF Response
<1> HIDE DEF r, e
<1>8. /\ task' \in [Threads -> PoolTask]
      /\ task'[t] = r /\ \A u \in Threads \ {t} : task'[u] = task[u]
      /\ \A u \in Threads : TaskOK(task'[u])
      /\ \A u \in Threads : /\ task'[u].caller \in Callers \cup {None}
                            /\ task'[u].buffer \in Buffers \cup {None}
  BY <1>2, <1>3, <1>6, TaskReplaced
<1>9. Append(responses[c], e) \in Seq(Response) /\ Len(responses[c]) \in Nat
      /\ Len(Append(responses[c], e)) = Len(responses[c]) + 1
      /\ Append(responses[c], e)[Len(responses[c]) + 1] = e
      /\ \A i \in 1 .. Len(responses[c]) : Append(responses[c], e)[i] = responses[c][i]
  BY <1>2, <1>4, <1>7, AppendProperties, LenProperties
<1>10. responses'[c] = Append(responses[c], e) /\ responses' \in [Callers -> Seq(Response)]
       /\ \A d \in Callers : d # c => responses'[d] = responses[d]
  BY <1>2, <1>3, <1>4, <1>9
<1>11. Types'
  <2>1. ASSUME NEW d \in Callers, NEW i \in DOMAIN responses'[d]
        PROVE  /\ responses'[d][i].size \in 1 .. BatchSize
               /\ responses'[d][i].answer \in Answers(responses'[d][i].size)
    <3>1. CASE d # c
      BY <1>2, <1>10, <3>1 DEF Types, TypeOK
    <3>2. CASE d = c
      <4>1. DOMAIN responses'[c] = 1 .. Len(responses[c]) + 1 /\ DOMAIN responses[c] = 1 .. Len(responses[c])
        BY <1>2, <1>4, <1>9, <1>10, LenProperties
      <4>2. CASE i = Len(responses[c]) + 1
        BY <1>4, <1>7, <1>9, <1>10, <3>2, <4>2
      <4>3. CASE i # Len(responses[c]) + 1
        <5>1. i \in DOMAIN responses[c] /\ responses'[c][i] = responses[c][i]
          BY <1>9, <1>10, <3>2, <4>1, <4>3
        <5> QED
          BY <1>2, <1>4, <3>2, <5>1 DEF Types, TypeOK
      <4> QED
        BY <4>2, <4>3
    <3> QED
      BY <3>1, <3>2
  <2> HIDE DEF c
  <2> QED
    BY <1>1, <1>2, <1>8, <1>10, <2>1 DEF Types, TypeOK
<1>12. Phases'
  BY TaskPhases DEF Task
<1>13. Frames'
  <2>1. /\ \A d \in Callers : Open(d)' => left'[d] = Len(todo'[d]) + Len(queue') + Cardinality(Busy')
        /\ \A d \in Callers : fpc'[d] # "post" => todo'[d] = <<>>
        /\ \A u \in Busy' : Open(task[u].caller)'
        /\ \A i \in DOMAIN queue' : Open(queue[i].caller)'
    BY <1>1, <1>2, <1>3, <1>5, <1>6, StaysBusy DEF Task
  <2>2. Open(c)
    BY <1>2 DEF Inv, Frames, Busy
  <2>3. \A d \in Callers : fpc'[d] # "account" /\ ~Open(d)' => responses'[d] = <<>>
    BY <1>1, <1>10, <2>2 DEF Inv, Frames, Open
  <2> QED
    BY <2>1, <2>3 DEF Frames
<1>14. Pool'
  <2>1. \A u \in Threads : task'[u].buffer = task[u].buffer
    BY <1>5, <1>8
  <2> QED
    BY <1>1, <2>1 DEF Inv, Pool, Open
<1>15. EveryMeasurementAccounted'
  <2> DEFINE n == task[t].size
             A == Total([u \in Threads |-> task[u].size])
             B == Total([u \in Threads |-> task'[u].size])
  <2>1. B = A - n /\ A \in Nat /\ n \in Nat
    <3>1. B = A - task[t].size + r.size
      BY <1>2, <1>3, <1>6, TaskTotal
    <3>2. A \in Nat
      BY <1>2, InFlightNat
    <3> HIDE DEF A, B
    <3> QED
      BY <1>4, <1>5, <3>1, <3>2
  <2>2. Total(Sizes(responses'[c])) = Total(Sizes(responses[c])) + n
    <3>1. responses[c] \in Seq(Response)
      BY <1>2, <1>4
    <3>2. Total(Sizes(Append(responses[c], e))) = Total(Sizes(responses[c])) + e.size
      BY <1>7, <3>1, ResponseSize, SizesAppend
    <3> QED
      BY <1>7, <1>10, <3>2
  <2>3. \A d \in Callers : Total(Sizes(responses[d])) \in Nat
    BY <1>2, InFlightNat
  <2> HIDE DEF n, A, B
  <2>4. Total(Sizes(responses'["sender"])) + Total(Sizes(responses'["main"])) + B
          = Total(Sizes(responses["sender"])) + Total(Sizes(responses["main"])) + A
    <3>1. CASE c = "sender"
      <4>1. responses'["main"] = responses["main"]
        BY <1>10, <3>1 DEF Callers
      <4> QED
        BY <2>1, <2>2, <2>3, <3>1, <4>1 DEF Callers
    <3>2. CASE c = "main"
      <4>1. responses'["sender"] = responses["sender"]
        BY <1>10, <3>2 DEF Callers
      <4> QED
        BY <2>1, <2>2, <2>3, <3>2, <4>1 DEF Callers
    <3> QED
      BY <1>4, <3>1, <3>2 DEF Callers
  <2>5. Total(Sizes(responses'["sender"])) \in Int /\ Total(Sizes(responses'["main"])) \in Int /\ B \in Int
    <3>1. \A d \in Callers : Total(Sizes(responses'[d])) \in Int
      <4> SUFFICES ASSUME NEW d \in Callers PROVE Total(Sizes(responses'[d])) \in Int
        OBVIOUS
      <4>1. CASE d = c
        BY <2>1, <2>2, <2>3, <4>1
      <4>2. CASE d # c
        BY <1>10, <2>3, <4>2
      <4> QED
        BY <4>1, <4>2
    <3> QED
      BY <2>1, <3>1 DEF Callers
  <2>6. InFlight' = InFlight
    <3>1. /\ Total(todo["sender"]) \in Nat /\ Total(todo["main"]) \in Nat
          /\ Total(Sizes(responses["sender"])) \in Nat /\ Total(Sizes(responses["main"])) \in Nat
          /\ Total(Sizes(queue)) \in Nat
      BY <1>2, InFlightNat DEF Callers
    <3> QED
      BY <1>1, <2>1, <2>4, <2>5, <3>1 DEF InFlight, A, B
  <2> QED
    BY <1>1, <2>6 DEF Inv, EveryMeasurementAccounted
<1> QED
  BY <1>11, <1>12, <1>13, <1>14, <1>15 DEF Inv

\* avail_buffers.emplace_back
LEMMA TaskReturnInv ==
  ASSUME Inv, NEW t \in Threads, TaskReturn(t)
  PROVE  Inv'
<1> DEFINE r == [task[t] EXCEPT !.pc = "decrement", !.buffer = None]
           c == task[t].caller
           b == task[t].buffer
<1>1. UNCHANGED <<mpc, started, should_stop, http_initialized, curl, starts, restarted, tpc, produced,
                  pending, fpc, todo, left, responses, queue, emptyPop, published, counters>>
  BY DEF TaskReturn, mainVars
<1>2. task[t].pc = "return" /\ Types /\ task[t] \in PoolTask /\ TaskOK(task[t])
      /\ avail \in [Callers -> SUBSET Buffers]
  BY DEF TaskReturn, Inv, Types, TypeOK
<1>3. task' = [task EXCEPT ![t] = r] /\ avail' = [avail EXCEPT ![c] = avail[c] \cup {b}]
  BY <1>2 DEF TaskReturn, Moves, NextPc
<1>4. task[t].size = 0 /\ c \in Callers /\ b \in Buffers /\ b # None
  BY <1>2 DEF TaskOK, PoolTask
<1>5. r \in PoolTask /\ r.pc = "decrement" /\ r.size = task[t].size
      /\ r.buffer = None /\ r.caller = task[t].caller
  BY <1>2 DEF PoolTask
<1>6. TaskOK(r)
  BY <1>2, <1>5 DEF TaskOK
<1> HIDE DEF r
<1>7. /\ task' \in [Threads -> PoolTask]
      /\ task'[t] = r /\ \A u \in Threads \ {t} : task'[u] = task[u]
      /\ \A u \in Threads : TaskOK(task'[u])
      /\ \A u \in Threads : /\ task'[u].caller \in Callers \cup {None}
                            /\ task'[u].buffer \in Buffers \cup {None}
  BY <1>2, <1>3, <1>6, TaskReplaced
<1>8. avail'[c] = avail[c] \cup {b} /\ avail' \in [Callers -> SUBSET Buffers]
  BY <1>2, <1>3, <1>4
<1>9. Types'
  BY <1>1, <1>2, <1>7, <1>8 DEF Types, TypeOK
<1>10. Phases'
  BY TaskPhases DEF Task
<1>11. Frames'
  <2>1. /\ \A d \in Callers : Open(d)' => left'[d] = Len(todo'[d]) + Len(queue') + Cardinality(Busy')
        /\ \A d \in Callers : fpc'[d] # "post" => todo'[d] = <<>>
        /\ \A u \in Busy' : Open(task[u].caller)'
        /\ \A i \in DOMAIN queue' : Open(queue[i].caller)'
    BY <1>1, <1>2, <1>3, <1>5, <1>6, StaysBusy DEF Task
  <2> QED
    BY <1>1, <2>1 DEF Inv, Frames, Open
<1>12. Pool'
  <2>1. Open(c)
    BY <1>2 DEF Inv, Frames, Busy
  <2>2. \A d \in Callers : Open(d)' => d = c
    BY <1>1, <1>4, <2>1, OneFrame DEF Open
  <2>3. task'[t].buffer = None /\ \A u \in Threads \ {t} : task'[u].buffer = task[u].buffer
    BY <1>5, <1>7
  <2> HIDE DEF c, b
  <2>4. \A u, v \in Threads : task'[u].buffer = task'[v].buffer /\ task'[u].buffer # None => u = v
    BY <2>3 DEF Inv, Pool
  <2>5. \A u \in Threads \ {t} : task[u].buffer # b
    BY <1>4 DEF Inv, Pool, b
  <2>6. \A u \in Threads : task'[u].buffer \notin avail'[c]
    BY <1>2, <1>4, <1>8, <2>1, <2>3, <2>5, PublisherAssumption DEF Inv, Pool
  <2>7. ASSUME NEW x \in Buffers PROVE x \in avail'[c] \/ \E u \in Threads : task'[u].buffer = x
    <3>1. CASE x \in avail[c] \/ x = b
      BY <1>8, <3>1
    <3>2. CASE x \notin avail[c] /\ x # b
      <4>1. PICK u \in Threads : task[u].buffer = x
        BY <1>4, <2>1, <3>2 DEF Inv, Pool
      <4>2. u # t
        BY <3>2, <4>1 DEF b
      <4> QED
        BY <2>3, <4>1, <4>2
    <3> QED
      BY <3>1, <3>2
  <2>8. emptyPop' = FALSE
    BY <1>1 DEF Inv, Pool
  <2> QED
    BY <2>2, <2>4, <2>6, <2>7, <2>8 DEF Pool
<1>13. EveryMeasurementAccounted'
  <2>1. \A u \in Threads : task'[u].size = task[u].size
    BY <1>5, <1>7
  <2>2. [u \in Threads |-> task'[u].size] = [u \in Threads |-> task[u].size]
    BY <2>1
  <2> QED
    BY <1>1, <2>2 DEF Inv, EveryMeasurementAccounted, InFlight
<1> QED
  BY <1>9, <1>10, <1>11, <1>12, <1>13 DEF Inv

\* batches_to_do.DecrementCount()
LEMMA TaskDecrementInv ==
  ASSUME Inv, NEW t \in Threads, TaskDecrement(t)
  PROVE  Inv'
<1> DEFINE c == task[t].caller
<1>1. UNCHANGED <<mpc, started, should_stop, http_initialized, curl, starts, restarted, tpc, produced,
                  pending, fpc, todo, avail, responses, queue, emptyPop, published, counters>>
  BY DEF TaskDecrement, mainVars
<1>2. task[t].pc = "decrement" /\ Types /\ task[t] \in PoolTask /\ TaskOK(task[t])
      /\ left \in [Callers -> Nat]
  BY DEF TaskDecrement, Inv, Types, TypeOK
<1>3. task' = [task EXCEPT ![t] = NoTask] /\ left' = [left EXCEPT ![c] = left[c] - 1]
  BY <1>2 DEF TaskDecrement, Moves, NextPc
<1>4. task[t].size = 0 /\ c \in Callers /\ task[t].buffer = None
  BY <1>2 DEF TaskOK, PoolTask
<1>5. TaskOK(NoTask) /\ NoTask.pc = "idle" /\ NoTask.size = 0 /\ NoTask.buffer = None
  BY PublisherAssumption DEF TaskOK, PoolTask, NoTask
<1>6. /\ task' \in [Threads -> PoolTask]
      /\ task'[t] = NoTask /\ \A u \in Threads \ {t} : task'[u] = task[u]
      /\ \A u \in Threads : TaskOK(task'[u])
      /\ \A u \in Threads : /\ task'[u].caller \in Callers \cup {None}
                            /\ task'[u].buffer \in Buffers \cup {None}
  BY <1>2, <1>3, <1>5, TaskReplaced
<1>7. Open(c) /\ \A d \in Callers : Open(d) => d = c
  <2>1. Open(c)
    BY <1>2 DEF Inv, Frames, Busy
  <2> QED
    BY <1>4, <2>1, OneFrame DEF Open
<1> HIDE DEF c
<1>8. Busy' = Busy \ {t} /\ t \in Busy /\ Busy \subseteq Threads
  BY <1>2, <1>5, <1>6 DEF Busy
<1>9. Cardinality(Busy') = Cardinality(Busy) - 1 /\ Cardinality(Busy) \in Nat /\ Cardinality(Busy) > 0
  BY <1>8, BusyCount
<1>10. left[c] = Len(todo[c]) + Len(queue) + Cardinality(Busy) /\ Len(todo[c]) \in Nat /\ Len(queue) \in Nat
  BY <1>2, <1>4, <1>7, LenProperties DEF Types, TypeOK, Inv, Frames
<1>11. left'[c] = Len(todo[c]) + Len(queue) + Cardinality(Busy') /\ left' \in [Callers -> Nat]
  <2>1. left'[c] = left[c] - 1 /\ left[c] - 1 \in Nat
    BY <1>2, <1>3, <1>4, <1>9, <1>10
  <2> QED
    BY <1>2, <1>3, <1>9, <1>10, <2>1
<1>12. Types'
  BY <1>1, <1>2, <1>6, <1>11 DEF Types, TypeOK
<1>13. Phases'
  BY TaskPhases DEF Task
<1>14. Frames'
  <2>1. \A d \in Callers : Open(d)' => left'[d] = Len(todo'[d]) + Len(queue') + Cardinality(Busy')
    BY <1>1, <1>7, <1>11 DEF Open
  <2>2. \A u \in Busy' : Open(task[u].caller)'
    BY <1>1, <1>6, <1>8 DEF Inv, Frames, Open
  <2> QED
    BY <1>1, <2>1, <2>2 DEF Inv, Frames, Open
<1>15. Pool'
  <2>1. \A u \in Threads : task'[u].buffer = task[u].buffer
    BY <1>4, <1>5, <1>6
  <2> QED
    BY <1>1, <2>1 DEF Inv, Pool, Open
<1>16. EveryMeasurementAccounted'
  <2>1. \A u \in Threads : task'[u].size = task[u].size
    BY <1>4, <1>5, <1>6
  <2>2. [u \in Threads |-> task'[u].size] = [u \in Threads |-> task[u].size]
    BY <2>1
  <2> QED
    BY <1>1, <2>2 DEF Inv, EveryMeasurementAccounted, InFlight
<1> QED
  BY <1>12, <1>13, <1>14, <1>15, <1>16 DEF Inv

-----------------------------------------------------------------------------
\* Inv holds in every state of the publisher, however many threads its pool has,
\* whatever the batch size and the number of measurements.
THEOREM PublisherInvariant == Spec => []Inv
<1>1. Inv /\ [Next]_vars => Inv'
  <2> SUFFICES ASSUME Inv, [Next]_vars PROVE Inv'
    OBVIOUS
  <2>1. CASE UNCHANGED vars
    <3>1. UNCHANGED <<mpc, started, should_stop, http_initialized, curl, starts, restarted, tpc,
                      produced, pending, fpc, todo, left, avail, responses, queue, task, emptyPop,
                      published, counters>>
      BY <2>1 DEF vars, mainVars, frameVars, poolVars
    <3>2. Types'
      <4>1. (\A t \in Threads : TaskOK(task[t]))'
        BY <3>1 DEF Inv, Types, TaskOK
      <4> QED
        BY <3>1, <4>1 DEF Inv, Types, TypeOK
    <3>3. Phases'
      BY <3>1 DEF Inv, Phases
    <3>4. Frames' /\ Pool'
      <4>1. Busy' = Busy
        BY <3>1 DEF Busy
      <4> QED
        BY <3>1, <4>1 DEF Inv, Frames, Pool, Open
    <3>5. EveryMeasurementAccounted'
      BY <3>1 DEF Inv, EveryMeasurementAccounted, InFlight
    <3> QED
      BY <3>2, <3>3, <3>4, <3>5 DEF Inv
  <2>2. CASE Control
    BY <2>2, ControlInv
  <2>3. ASSUME NEW c \in Callers,
               SendBegin(c) \/ SendPost(c) \/ SendWait(c) \/ SendAccount(c) \/ SendReturn(c)
        PROVE  Inv'
    BY <2>3, SendBeginInv, SendPostInv, SendWaitInv, SendAccountInv, SendReturnInv
  <2>4. ASSUME NEW t \in Threads, Task(t) PROVE Inv'
    BY <2>4, TaskBeginInv, TaskPostInv, TaskRecordInv, TaskReturnInv, TaskDecrementInv DEF Task
  <2>5. "sender" \in Callers /\ "main" \in Callers
    BY DEF Callers
  <2> QED
    BY <2>1, <2>2, <2>3, <2>4, <2>5 DEF Next, Sender, Main, Send, Control
<1> QED
  BY <1>1, InitInv, PTL DEF Spec

\* Types; no batch is empty or exceeds BatchSize.
THEOREM PublisherTypes == Spec => []TypeOK
<1>1. Inv => TypeOK
  BY DEF Inv, Types
<1> QED
  BY <1>1, PublisherInvariant, PTL

\* No two tasks of the pool use one buffer, and the last flush of Stop never runs
\* beside a send_metrics of the sender thread.
THEOREM PublisherBuffersNotShared == Spec => []BuffersNotShared
<1>1. Inv => BuffersNotShared
  <2> SUFFICES ASSUME Inv PROVE BuffersNotShared
    OBVIOUS
  <2>1. fpc["sender"] = "none" \/ fpc["main"] = "none"
    BY DEF Inv, Phases
  <2> QED
    BY <2>1 DEF Inv, Pool, BuffersNotShared, Busy
<1> QED
  BY <1>1, PublisherInvariant, PTL

\* avail_buffers.back() is never called on an empty vector.
THEOREM PublisherBufferForEveryTask == Spec => []BufferForEveryTask
<1>1. Inv => BufferForEveryTask
  BY DEF Inv, Pool, BufferForEveryTask
<1> QED
  BY <1>1, PublisherInvariant, PTL

\* The local variables of send_metrics outlive the tasks that captured them.
THEOREM PublisherFrameOutlivesTasks == Spec => []FrameOutlivesTasks
<1>1. Inv => FrameOutlivesTasks
  BY DEF Inv, Frames, Open, FrameOutlivesTasks
<1> QED
  BY <1>1, PublisherInvariant, PTL

\* Every measurement that enters a batch is counted once, or is still in one place.
THEOREM PublisherAccounts == Spec => []EveryMeasurementAccounted
<1>1. Inv => EveryMeasurementAccounted
  BY DEF Inv
<1> QED
  BY <1>1, PublisherInvariant, PTL

\* libcurl is up while a task posts, in the first life of a publisher.
THEOREM PublisherHttpAlive == Spec => []HttpAliveWhilePosting
<1>1. Inv => HttpAliveWhilePosting
  <2> SUFFICES ASSUME Inv, ~restarted, NEW t \in Busy PROVE curl = "up"
    BY DEF HttpAliveWhilePosting
  <2>1. restarted = FALSE
    BY DEF Inv, Types, TypeOK
  <2>2. task[t].caller \in Callers /\ fpc[task[t].caller] # "none"
    BY DEF Inv, Types, TaskOK, Frames, Open, Busy
  <2>3. tpc = "send" \/ mpc = "flush"
    BY <2>2 DEF Inv, Phases, Callers
  <2> QED
    BY <2>1, <2>3 DEF Inv, Types, TypeOK, Phases
<1> QED
  BY <1>1, PublisherInvariant, PTL

\* When Stop has returned, nothing that was recorded before it is left unsent.
THEOREM PublisherFlushes == Spec => []FlushedAtStop
<1>1. Inv => FlushedAtStop
  BY DEF Inv, Phases, FlushedAtStop
<1> QED
  BY <1>1, PublisherInvariant, PTL
=============================================================================
