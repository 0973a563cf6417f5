----------------------------- MODULE HttpClient -----------------------------
(***************************************************************************)
(* HttpClient::perform (spectator/http_client.cc) on one thread: requests  *)
(* with up to three attempts on a curl handle that is kept from request to *)
(* request.  The handle holds a response buffer, cached connections and a  *)
(* resolver that read /etc/resolv.conf when the handle was created.  What  *)
(* curl reports of an attempt, and how long it took, is chosen freely      *)
(* within the timeouts that were set.                                      *)
(***************************************************************************)
EXTENDS Integers, Sequences

CONSTANTS
  ConnectTimeout, ReadTimeout,  \* config_.connect_timeout, read_timeout
  Delay,                        \* bound: how late elapsed is read after curl returns
  BackoffUnit                   \* 200 ms

ASSUME HttpAssumption ==
  /\ ConnectTimeout \in Nat \ {0} /\ ReadTimeout \in Nat \ {0}
  /\ Delay \in Nat /\ BackoffUnit \in Nat

total_timeout == ConnectTimeout + ReadTimeout

VARIABLES
  at,         \* "idle", or "attempt": perform is about to use the handle
  attempt,    \* attempt_number, or NoAttempt if perform was not called for this request
  stale,      \* resolv.conf has changed since the handle was created
  connected,  \* the handle has a cached connection
  response,   \* whose bytes response_ holds: of this attempt ("now"), of an earlier one
  logged,     \* the entries logged for this request
  answer,     \* the HttpResponse that was returned last
  spent,      \* time since the request began
  readLate    \* an attempt of this request ran into the read timeout

httpVars == <<at, attempt, stale, connected, response, logged, answer, spent, readLate>>

NoAnswer == [status |-> "none", body |-> {}]

NoAttempt == -1

HttpInit ==
  /\ at = "idle" /\ attempt = 0
  /\ stale = FALSE /\ connected = FALSE
  /\ response = {} /\ logged = <<>> /\ answer = NoAnswer
  /\ spent = 0 /\ readLate = FALSE

\* Post: attempt 0 of a new request, with a payload that is compressed by now or is
\* not to be.
Call ==
  /\ at = "idle"
  /\ at' = "attempt" /\ attempt' = 0
  /\ logged' = <<>> /\ answer' = NoAnswer /\ spent' = 0 /\ readLate' = FALSE
  /\ UNCHANGED <<stale, connected, response>>

\* Post has to compress the payload itself (not from the publisher, which hands over
\* a CompressedResult), zlib fails, and perform is not called.
CompressFails ==
  /\ at = "idle"
  /\ attempt' = NoAttempt
  /\ answer' = [status |-> "-1", body |-> {}]
  /\ logged' = <<>> /\ spent' = 0 /\ readLate' = FALSE
  /\ UNCHANGED <<at, stale, connected, response>>

\* The nameserver is replaced.
ResolvConfChanges ==
  /\ stale' = TRUE
  /\ UNCHANGED <<at, attempt, connected, response, logged, answer, spent, readLate>>

\* The aggregator closes a connection that is not in use: between two requests or
\* while perform sleeps before it tries again.
ConnectionDrops ==
  /\ connected' = FALSE
  /\ UNCHANGED <<at, attempt, stale, response, logged, answer, spent, readLate>>

-----------------------------------------------------------------------------
\* What curl can report.  A stale resolver asks a nameserver that is gone: an
\* attempt that needs it does not get as far as a connection.
Errors   == {"dns", "connect", "broken", "read"}
Statuses == {"2xx", "4xx", "429", "5xx"}

Outcomes == IF stale /\ ~connected THEN {"dns", "connect"} ELSE Errors \cup Statuses

\* For how long curl may run: a connection is given up after ConnectTimeout, the
\* whole request after total_timeout.
Takes(o) ==
  CASE o \in {"dns", "connect"} -> 0 .. ConnectTimeout
    [] o = "read"               -> {total_timeout}
    [] OTHER                    -> 0 .. total_timeout - 1

is_retryable_error(s) == s \in {"429", "5xx"}

clear_for_reuse_keeps(r) == IF r = {} THEN {} ELSE {"before"}

\* The buffer after clear_for_reuse
clear_for_reuse(r) == {}

Backoff(n) == BackoffUnit * 2 ^ n

recreates_dns_only(o) == o = "dns"

\* After which outcomes the handle is destroyed and created anew
recreates(o) == o \in Errors

Retries_read_timeout(o, elapsed) ==
  /\ attempt < 2
  /\ o \in Errors \/ is_retryable_error(o)

Retries_le(o, elapsed) ==
  /\ attempt <= 2
  /\ IF o \in Errors THEN elapsed < total_timeout ELSE is_retryable_error(o)

\* "retry connect timeouts if possible, not read timeouts", and what the
\* aggregator asks to be repeated
Retries(o, elapsed) ==
  /\ attempt < 2
  /\ IF o \in Errors THEN elapsed < total_timeout ELSE is_retryable_error(o)

Log_final_only(o, elapsed) ==
  logged' = IF Retries(o, elapsed) THEN logged
            ELSE Append(logged, [attempt |-> attempt, final |-> TRUE])

\* set_attempt and log: once on each way out of perform
Log(o, elapsed) ==
  logged' = Append(logged, [attempt |-> attempt, final |-> ~Retries(o, elapsed)])

\* The bytes of the body that arrive with an outcome; a connection that breaks
\* may leave a part of them.
Bytes(o) ==
  IF o \in Statuses THEN {{"now"}}
  ELSE IF o \in {"broken", "read"} THEN {{}, {"now"}}
  ELSE {{}}

\* What perform does when curl has reported o: a retry or the answer.
Attempted(o, elapsed, body) ==
  /\ stale' = (stale /\ ~recreates(o))
  /\ connected' = (o \in Statuses)
  /\ readLate' = (readLate \/ o = "read")
  /\ Log(o, elapsed)
  /\ IF Retries(o, elapsed)
     THEN /\ attempt' = attempt + 1
          /\ spent' = spent + elapsed + (IF o \in Errors THEN 0 ELSE Backoff(attempt))
          /\ response' = body
          /\ UNCHANGED <<at, answer>>
     ELSE /\ at' = "idle"
          /\ answer' = [status |-> IF o \in Errors THEN "-1" ELSE o, body |-> body]
          /\ spent' = spent + elapsed
          /\ response' = {}
          /\ UNCHANGED attempt

\* One call of perform
Perform ==
  /\ at = "attempt"
  /\ \E o \in Outcomes : \E took \in Takes(o), late \in 0 .. Delay, bytes \in Bytes(o) :
       Attempted(o, took + late, clear_for_reuse(response) \cup bytes)

HttpNext == Call \/ CompressFails \/ ResolvConfChanges \/ ConnectionDrops \/ Perform

\* curl returns within the timeouts that were set, and the publisher posts again
\* at every interval.
HttpFairness == WF_httpVars(Call) /\ WF_httpVars(Perform)

HttpSpec == HttpInit /\ [][HttpNext]_httpVars /\ HttpFairness

-----------------------------------------------------------------------------
\* Types; there are never more than three attempts.
HttpTypeOK ==
  /\ at \in {"idle", "attempt"}
  /\ attempt \in NoAttempt .. 2
  /\ {stale, connected, readLate} \subseteq BOOLEAN
  /\ response \subseteq {"now", "before"}
  /\ answer \in [status : Statuses \cup {"-1", "none"}, body : SUBSET {"now", "before"}]
  /\ spent \in Nat

\* The body that is returned belongs to the attempt whose status is returned,
\* although the buffer outlives attempts and requests and curl only appends.
BodyMatchesStatus ==
  /\ "before" \notin answer.body
  /\ answer.status \in Statuses => answer.body = {"now"}

\* A read timeout ends the request: the aggregator may have taken the batch
\* ("retry connect timeouts if possible, not read timeouts").
ReadTimeoutIsFinal == readLate => at = "idle"

\* ipc.client.call has one entry for each attempt, of which exactly the last is
\* tagged final, on every way through the recursion; a request that perform never
\* saw has none.
AttemptsLogged ==
  at = "idle" /\ answer # NoAnswer =>
    logged = [i \in 1 .. attempt + 1 |-> [attempt |-> i - 1, final |-> i = attempt + 1]]

\* How long a request can keep a thread of the pool, and so Stop: three
\* timeouts and two back-offs.
RequestBounded == spent <= 3 * (total_timeout + Delay) + Backoff(0) + Backoff(1)

\* A resolver that is out of date and needed is replaced: it does not "cause
\* permanent DNS failures" (http_client.cc:192-195).
ResolverRecovers == (stale /\ ~connected) ~> ~stale
=============================================================================
