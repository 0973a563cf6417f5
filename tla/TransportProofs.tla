-------------------------- MODULE TransportProofs ---------------------------
(***************************************************************************)
(* How a payload gets to the aggregator.  HttpClient::perform keeps its    *)
(* promises for every timeout, delay and back-off: HttpInv is inductive,   *)
(* what a request that is still being retried has logged and spent says    *)
(* what the request as a whole has when it returns.  CompressedBuffer      *)
(* gives back every byte appended, for every size of its chunks and        *)
(* however zlib holds bytes back: BufferInv says where each of them is.    *)
(* What measurements_to_json writes into it is read back as the batch:     *)
(* behind the table of strings a reader finds the measurements so far,     *)
(* whatever follows them.                                                  *)
(***************************************************************************)
EXTENDS HttpClient, CompressedBuffer, Payload, TotalsProofs, FiniteSetTheorems, FunctionTheorems,
        SequenceTheorems, TLAPS

-----------------------------------------------------------------------------
(* HttpClient *)

\* The back-offs slept before attempt n.
SleptBefore(n) ==
  IF n = 0 THEN 0 ELSE IF n = 1 THEN Backoff(0) ELSE Backoff(0) + Backoff(1)

\* A request in progress has logged one entry that is not final for each
\* attempt it gave up.
Retried(n) == [i \in 1 .. n |-> [attempt |-> i - 1, final |-> FALSE]]

\* The inductive invariant.
HttpInv ==
  /\ HttpTypeOK
  /\ BodyMatchesStatus
  /\ ReadTimeoutIsFinal
  /\ AttemptsLogged
  /\ at = "attempt" =>
       /\ attempt # NoAttempt
       /\ logged = Retried(attempt)
       /\ spent <= attempt * (total_timeout + Delay) + SleptBefore(attempt)
  /\ RequestBounded

-----------------------------------------------------------------------------
LEMMA BackoffNat == Backoff(0) = BackoffUnit /\ Backoff(1) = BackoffUnit * 2
  BY HttpAssumption DEF Backoff

\* What one attempt can take.
LEMMA ElapsedBound ==
  ASSUME NEW o \in Errors \cup Statuses, NEW took \in Takes(o), NEW late \in 0 .. Delay
  PROVE  /\ took + late \in 0 .. total_timeout + Delay
         /\ o = "read" => took + late >= total_timeout
  BY HttpAssumption DEF Takes, total_timeout, Errors, Statuses

LEMMA AppendToRetried ==
  ASSUME NEW n \in Nat, NEW e
  PROVE  Append(Retried(n), e) =
           [i \in 1 .. n + 1 |-> IF i = n + 1 THEN e ELSE [attempt |-> i - 1, final |-> FALSE]]
<1>1. Retried(n) \in Seq([attempt : Int, final : BOOLEAN]) /\ Len(Retried(n)) = n
  BY DEF Retried
<1> QED
  BY <1>1 DEF Retried

LEMMA HttpInitInv == HttpInit => HttpInv
<1> SUFFICES ASSUME HttpInit PROVE HttpInv
  OBVIOUS
<1>1. HttpTypeOK
  <2>1. answer \in [status : Statuses \cup {"-1", "none"}, body : SUBSET {"now", "before"}]
    BY DEF HttpInit, NoAnswer
  <2>2. {stale, connected, readLate} \subseteq BOOLEAN
    BY DEF HttpInit
  <2> QED
    BY <2>1, <2>2 DEF HttpInit, HttpTypeOK, NoAttempt
<1>2. BodyMatchesStatus /\ ReadTimeoutIsFinal /\ AttemptsLogged /\ at # "attempt"
  BY DEF HttpInit, BodyMatchesStatus, ReadTimeoutIsFinal, AttemptsLogged, NoAnswer, Statuses
<1>3. RequestBounded
  BY HttpAssumption, BackoffNat DEF HttpInit, RequestBounded, total_timeout
<1> QED
  BY <1>1, <1>2, <1>3 DEF HttpInv

LEMMA HttpCallInv == HttpInv /\ Call => HttpInv'
<1> SUFFICES ASSUME HttpInv, Call PROVE HttpInv'
  OBVIOUS
<1>1. HttpTypeOK'
  <2>1. answer' \in [status : Statuses \cup {"-1", "none"}, body : SUBSET {"now", "before"}]
    BY DEF Call, NoAnswer
  <2>2. {stale, connected, readLate}' \subseteq BOOLEAN
    BY DEF HttpInv, HttpTypeOK, Call
  <2> QED
    BY <2>1, <2>2 DEF HttpInv, HttpTypeOK, Call, NoAttempt
<1>2. BodyMatchesStatus' /\ ReadTimeoutIsFinal' /\ AttemptsLogged'
  BY DEF Call, BodyMatchesStatus, ReadTimeoutIsFinal, AttemptsLogged, NoAnswer, Statuses
<1>3. logged' = Retried(attempt') /\ attempt' # NoAttempt
  BY DEF Call, Retried, NoAttempt
<1>4. spent' <= attempt' * (total_timeout + Delay) + SleptBefore(attempt')
  BY HttpAssumption DEF Call, SleptBefore, total_timeout
<1>5. RequestBounded'
  BY HttpAssumption, BackoffNat DEF Call, RequestBounded, total_timeout
<1> QED
  BY <1>1, <1>2, <1>3, <1>4, <1>5 DEF HttpInv

LEMMA HttpCompressInv == HttpInv /\ CompressFails => HttpInv'
<1> SUFFICES ASSUME HttpInv, CompressFails PROVE HttpInv'
  OBVIOUS
<1>1. HttpTypeOK'
  <2>1. answer' \in [status : Statuses \cup {"-1", "none"}, body : SUBSET {"now", "before"}]
    BY DEF CompressFails
  <2>2. {stale, connected, readLate}' \subseteq BOOLEAN
    BY DEF HttpInv, HttpTypeOK, CompressFails
  <2> QED
    BY <2>1, <2>2 DEF HttpInv, HttpTypeOK, CompressFails, NoAttempt
<1>2. BodyMatchesStatus' /\ ReadTimeoutIsFinal' /\ at' = "idle"
  BY DEF CompressFails, BodyMatchesStatus, ReadTimeoutIsFinal, Statuses
<1>3. AttemptsLogged'
  <2>1. logged' = <<>> /\ 1 .. attempt' + 1 = {}
    BY DEF CompressFails, NoAttempt
  <2>2. [i \in 1 .. attempt' + 1 |-> [attempt |-> i - 1, final |-> i = attempt' + 1]] = <<>>
    BY <2>1
  <2> QED
    BY <2>1, <2>2 DEF AttemptsLogged
<1>4. RequestBounded'
  BY HttpAssumption, BackoffNat DEF CompressFails, RequestBounded, total_timeout
<1> QED
  BY <1>1, <1>2, <1>3, <1>4 DEF HttpInv

LEMMA HttpPerformInv == HttpInv /\ Perform => HttpInv'
<1> SUFFICES ASSUME HttpInv, Perform PROVE HttpInv'
  OBVIOUS
<1>1. PICK o \in Outcomes : \E took \in Takes(o), late \in 0 .. Delay, bytes \in Bytes(o) :
        Attempted(o, took + late, {} \cup bytes)
  BY DEF Perform, clear_for_reuse
<1>2. PICK took \in Takes(o), late \in 0 .. Delay, bytes \in Bytes(o) :
        Attempted(o, took + late, {} \cup bytes)
  BY <1>1
<1> DEFINE elapsed == took + late
<1>3. o \in Errors \cup Statuses
  BY DEF Outcomes, Errors, Statuses
<1>4. elapsed \in 0 .. total_timeout + Delay /\ (o = "read" => elapsed >= total_timeout)
  BY <1>2, <1>3, ElapsedBound
<1>5. Attempted(o, elapsed, {} \cup bytes) /\ {} \cup bytes = bytes
  BY <1>2
<1>6. at = "attempt" /\ HttpTypeOK /\ attempt \in 0 .. 2 /\ logged = Retried(attempt) /\ readLate = FALSE
      /\ spent <= attempt * (total_timeout + Delay) + SleptBefore(attempt)
  BY DEF Perform, HttpInv, ReadTimeoutIsFinal, HttpTypeOK, NoAttempt
<1>7. bytes \in SUBSET {"now"} /\ (o \in Statuses => bytes = {"now"})
  BY <1>3 DEF Bytes, Statuses, Errors
<1> HIDE DEF elapsed
<1>8. CASE Retries(o, elapsed)
  <2>1. attempt < 2 /\ attempt' = attempt + 1 /\ at' = "attempt" /\ answer' = answer
        /\ response' = bytes /\ logged' = Append(logged, [attempt |-> attempt, final |-> FALSE])
        /\ spent' = spent + elapsed + (IF o \in Errors THEN 0 ELSE Backoff(attempt))
    BY <1>5, <1>6, <1>8 DEF Attempted, Log, Retries
  <2>2. o # "read" /\ readLate' = FALSE
    <3>1. o # "read"
      BY <1>4, <1>8, HttpAssumption DEF Retries, Errors, total_timeout
    <3> QED
      BY <1>5, <1>6, <3>1 DEF Attempted
  <2>3. spent' \in Nat
        /\ spent' <= attempt' * (total_timeout + Delay) + SleptBefore(attempt')
    <3>1. attempt \in {0, 1} /\ spent \in Nat
      BY <1>6, <2>1 DEF HttpTypeOK
    <3>2. spent' = spent + elapsed \/ spent' = spent + elapsed + Backoff(attempt)
      BY <1>4, <2>1, <3>1, HttpAssumption DEF total_timeout
    <3> QED
      BY <1>4, <1>6, <2>1, <3>1, <3>2, HttpAssumption, BackoffNat DEF SleptBefore, total_timeout
  <2>4. HttpTypeOK' /\ attempt' # NoAttempt
    BY <1>5, <1>6, <1>7, <2>1, <2>2, <2>3 DEF Attempted, HttpTypeOK, NoAttempt
  <2>5. logged' = Retried(attempt')
    <3>1. attempt \in Nat
      BY <1>6 DEF HttpTypeOK
    <3> QED
      BY <1>6, <2>1, <3>1, AppendToRetried DEF Retried
  <2>6. BodyMatchesStatus' /\ ReadTimeoutIsFinal' /\ AttemptsLogged'
    BY <2>1, <2>2 DEF HttpInv, BodyMatchesStatus, ReadTimeoutIsFinal, AttemptsLogged
  <2>7. RequestBounded'
    <3>1. attempt' \in {1, 2}
      BY <1>6, <2>1 DEF HttpTypeOK
    <3> QED
      BY <2>3, <3>1, HttpAssumption, BackoffNat DEF RequestBounded, SleptBefore, total_timeout
  <2> QED
    BY <2>3, <2>4, <2>5, <2>6, <2>7 DEF HttpInv
<1>9. CASE ~Retries(o, elapsed)
  <2>1. attempt' = attempt /\ at' = "idle" /\ response' = {}
        /\ logged' = Append(logged, [attempt |-> attempt, final |-> TRUE])
        /\ spent' = spent + elapsed
        /\ answer' = [status |-> IF o \in Errors THEN "-1" ELSE o, body |-> bytes]
    BY <1>5, <1>6, <1>9 DEF Attempted, Log
  <2>2. answer'.body = bytes /\ (answer'.status \in Statuses => o \in Statuses)
        /\ answer'.status \in Statuses \cup {"-1"}
    BY <1>3, <2>1 DEF Statuses, Errors
  <2>3. HttpTypeOK'
    <3>1. spent' \in Nat
      BY <1>4, <1>6, <2>1, HttpAssumption DEF HttpTypeOK, total_timeout
    <3>2. answer' \in [status : Statuses \cup {"-1", "none"}, body : SUBSET {"now", "before"}]
      BY <1>3, <1>7, <2>1 DEF Statuses, Errors
    <3> QED
      BY <1>5, <1>6, <2>1, <3>1, <3>2 DEF Attempted, HttpTypeOK
  <2>4. BodyMatchesStatus' /\ ReadTimeoutIsFinal'
    BY <1>7, <2>1, <2>2 DEF BodyMatchesStatus, ReadTimeoutIsFinal
  <2>5. AttemptsLogged'
    <3>1. attempt \in Nat
      BY <1>6 DEF HttpTypeOK
    <3>2. logged' = [i \in 1 .. attempt + 1 |->
            IF i = attempt + 1 THEN [attempt |-> attempt, final |-> TRUE]
                               ELSE [attempt |-> i - 1, final |-> FALSE]]
      BY <1>6, <2>1, <3>1, AppendToRetried
    <3>3. ASSUME NEW i \in 1 .. attempt + 1
          PROVE  (IF i = attempt + 1 THEN [attempt |-> attempt, final |-> TRUE]
                                     ELSE [attempt |-> i - 1, final |-> FALSE])
                   = [attempt |-> i - 1, final |-> i = attempt + 1]
      <4>1. CASE i = attempt + 1
        <5>1. i - 1 = attempt /\ (i = attempt + 1) = TRUE
          BY <3>1, <4>1
        <5> QED
          BY <4>1, <5>1, Zenon
      <4>2. CASE i # attempt + 1
        <5>1. (i = attempt + 1) = FALSE
          BY <4>2
        <5> QED
          BY <4>2, <5>1, Zenon
      <4> QED
        BY <4>1, <4>2
    <3>4. logged' = [i \in 1 .. attempt + 1 |-> [attempt |-> i - 1, final |-> i = attempt + 1]]
      BY <3>2, <3>3, Zenon
    <3> QED
      BY <2>1, <3>4 DEF AttemptsLogged
  <2>6. RequestBounded'
    <3>1. attempt \in {0, 1, 2} /\ spent \in Nat
      BY <1>6 DEF HttpTypeOK
    <3> QED
      BY <1>4, <1>6, <2>1, <3>1, HttpAssumption, BackoffNat
      DEF RequestBounded, SleptBefore, total_timeout
  <2> QED
    BY <2>1, <2>3, <2>4, <2>5, <2>6 DEF HttpInv
<1> QED
  BY <1>8, <1>9

LEMMA HttpEnvironmentInv == HttpInv /\ (ResolvConfChanges \/ ConnectionDrops) => HttpInv'
<1> SUFFICES ASSUME HttpInv, ResolvConfChanges \/ ConnectionDrops PROVE HttpInv'
  OBVIOUS
<1>1. UNCHANGED <<at, attempt, response, logged, answer, spent, readLate>>
      /\ stale' \in {stale, TRUE} /\ connected' \in {connected, FALSE}
  BY DEF ResolvConfChanges, ConnectionDrops
<1>2. HttpTypeOK'
  BY <1>1 DEF HttpInv, HttpTypeOK
<1> QED
  BY <1>1, <1>2 DEF HttpInv, BodyMatchesStatus, ReadTimeoutIsFinal, AttemptsLogged, RequestBounded

-----------------------------------------------------------------------------
\* HttpInv holds in every state of the client, for every timeout and back-off.
THEOREM HttpInvariant == HttpSpec => []HttpInv
<1>1. HttpInv /\ [HttpNext]_httpVars => HttpInv'
  <2> SUFFICES ASSUME HttpInv, [HttpNext]_httpVars PROVE HttpInv'
    OBVIOUS
  <2>1. CASE UNCHANGED httpVars
    BY <2>1 DEF httpVars, HttpInv, HttpTypeOK, BodyMatchesStatus, ReadTimeoutIsFinal,
       AttemptsLogged, RequestBounded
  <2> QED
    BY <2>1, HttpCallInv, HttpCompressInv, HttpPerformInv, HttpEnvironmentInv DEF HttpNext
<1> QED
  BY <1>1, HttpInitInv, PTL DEF HttpSpec

\* Types; a request never makes a fourth attempt (http_client.cc, attempt_number < 2).
THEOREM HttpTypes == HttpSpec => []HttpTypeOK
  BY HttpInvariant, PTL DEF HttpInv

\* The body that perform returns is that of the attempt whose status it returns,
\* although the handle's buffer outlives attempts and requests.
THEOREM HttpBodies == HttpSpec => []BodyMatchesStatus
  BY HttpInvariant, PTL DEF HttpInv

\* A request that ran into its read timeout is never repeated.  The argument is
\* arithmetic: curl gives up reading at connect plus read timeout, and elapsed
\* is read afterwards, so the test elapsed < total_timeout fails.
THEOREM HttpReadTimeouts == HttpSpec => []ReadTimeoutIsFinal
  BY HttpInvariant, PTL DEF HttpInv

\* Every attempt is logged once, and exactly the last one as final.
THEOREM HttpAttempts == HttpSpec => []AttemptsLogged
  BY HttpInvariant, PTL DEF HttpInv

\* A request ends within three timeouts and two back-offs: what Stop may have to
\* wait for.
THEOREM HttpBounded == HttpSpec => []RequestBounded
  BY HttpInvariant, PTL DEF HttpInv

-----------------------------------------------------------------------------
(* CompressedBuffer *)

ByteSeqs == SeqsOf(Nat)

LEMMA BytesConcat ==
  /\ \A a, b \in ByteSeqs : a \o b \in ByteSeqs /\ Len(a \o b) = Len(a) + Len(b)
  /\ \A a, b, c \in ByteSeqs : (a \o b) \o c = a \o (b \o c)
  /\ \A a \in ByteSeqs : a \o <<>> = a /\ <<>> \o a = a
  /\ <<>> \in ByteSeqs
  BY SeqsConcat DEF ByteSeqs

LEMMA DecodedEmpty == Decoded(<<>>) = <<>>
  BY JoinedEmpty DEF Decoded

LEMMA DecodedType == \A u \in Seq(ByteSeqs) : Decoded(u) \in ByteSeqs
  BY JoinedType DEF Decoded, ByteSeqs

LEMMA DecodedAppend ==
  ASSUME NEW u \in Seq(ByteSeqs), NEW x \in ByteSeqs
  PROVE  Decoded(Append(u, x)) = Decoded(u) \o x
  BY JoinedType, JoinedAppend DEF Decoded, ByteSeqs

LEMMA DecodedConcat ==
  ASSUME NEW u \in Seq(ByteSeqs)
  PROVE  \A v \in Seq(ByteSeqs) : Decoded(u \o v) = Decoded(u) \o Decoded(v)
  BY JoinedConcat DEF Decoded, ByteSeqs

-----------------------------------------------------------------------------
\* What zlib holds back, what it has not taken and what it has written are the input.
LEMMA InputSplit ==
  ASSUME NEW a \in ByteSeqs, NEW b \in ByteSeqs, NEW t \in 0..Len(b), NEW n \in 0..Len(a) + t
  PROVE  LET s == a \o b
             x == SubSeq(s, 1, n)
             y == SubSeq(s, n + 1, Len(a) + t)
             z == SubSeq(b, t + 1, Len(b))
         IN x \in ByteSeqs /\ y \in ByteSeqs /\ z \in ByteSeqs /\ (x \o y) \o z = s
<1> DEFINE s == a \o b
           x == SubSeq(s, 1, n)
           y == SubSeq(s, n + 1, Len(a) + t)
           z == SubSeq(b, t + 1, Len(b))
           m == Len(a) + t
<1>1. Len(a) \in Nat /\ Len(b) \in Nat /\ (\A i \in 1..Len(a) : a[i] \in Nat) /\ (\A i \in 1..Len(b) : b[i] \in Nat)
  BY LenProperties, ElementOfSeq DEF ByteSeqs, SeqsOf
<1>2. s \in ByteSeqs /\ Len(s) = Len(a) + Len(b) /\ \A i \in 1..Len(b) : s[Len(a) + i] = b[i]
  <2>1. s \in ByteSeqs /\ Len(s) = Len(a) + Len(b) /\ \A i \in 1..Len(a) + Len(b) : s[i] = IF i <= Len(a) THEN a[i] ELSE b[i - Len(a)]
    BY ConcatProperties DEF ByteSeqs, SeqsOf
  <2> HIDE DEF s
  <2>2. ASSUME NEW i \in 1..Len(b) PROVE s[Len(a) + i] = b[i]
    <3>1. Len(a) + i \in 1..Len(a) + Len(b) /\ ~(Len(a) + i <= Len(a)) /\ Len(a) + i - Len(a) = i
      BY <1>1
    <3> QED BY <2>1, <3>1
  <2> QED BY <2>1, <2>2
<1> HIDE DEF s
<1>3. \A i \in 1..Len(s) : s[i] \in Nat
  BY <1>2, ElementOfSeq DEF ByteSeqs, SeqsOf
<1>4. m \in Nat /\ n \in Nat /\ n <= m /\ m <= Len(s) /\ t \in Nat /\ t <= Len(b) /\ Len(s) \in Nat
  BY <1>1, <1>2
<1>5. z = SubSeq(s, m + 1, Len(s))
  <2> DEFINE w == SubSeq(s, m + 1, Len(s))
  <2>1. z \in Seq(Nat) /\ Len(z) = IF t + 1 <= Len(b) THEN Len(b) - (t + 1) + 1 ELSE 0
    <3>1. t + 1 \in Int /\ Len(b) \in Int /\ \A i \in t + 1..Len(b) : b[i] \in Nat
      BY <1>1, <1>4
    <3> QED BY <3>1, SubSeqProperties
  <2>2. \A i \in 1..Len(b) - (t + 1) + 1 : z[i] = b[t + 1 + i - 1]
    <3>1. t + 1 \in Int /\ Len(b) \in Int /\ \A i \in t + 1..Len(b) : b[i] \in Nat
      BY <1>1, <1>4
    <3> QED BY <3>1, SubSeqProperties
  <2>3. w \in Seq(Nat) /\ Len(w) = IF m + 1 <= Len(s) THEN Len(s) - (m + 1) + 1 ELSE 0
    <3>1. m + 1 \in Int /\ Len(s) \in Int /\ \A i \in m + 1..Len(s) : s[i] \in Nat
      BY <1>3, <1>4
    <3> QED BY <3>1, SubSeqProperties
  <2>4. \A i \in 1..Len(s) - (m + 1) + 1 : w[i] = s[m + 1 + i - 1]
    <3>1. m + 1 \in Int /\ Len(s) \in Int /\ \A i \in m + 1..Len(s) : s[i] \in Nat
      BY <1>3, <1>4
    <3> QED BY <3>1, SubSeqProperties
  <2> HIDE DEF z, w
  <2>5. Len(z) = Len(w) /\ Len(z) = Len(b) - t
    BY <1>1, <1>2, <1>4, <2>1, <2>3
  <2>6. ASSUME NEW i \in 1..Len(z) PROVE z[i] = w[i]
    <3>1. i \in 1..Len(b) - (t + 1) + 1 /\ i \in 1..Len(s) - (m + 1) + 1 /\ t + i \in 1..Len(b)
          /\ t + 1 + i - 1 = t + i /\ m + 1 + i - 1 = Len(a) + (t + i)
      BY <1>1, <1>2, <1>4, <2>5
    <3>2. z[i] = b[t + i]
      BY <2>2, <3>1
    <3>3. w[i] = s[Len(a) + (t + i)]
      BY <2>4, <3>1
    <3> QED BY <1>2, <3>1, <3>2, <3>3
  <2>7. z = w
    BY <2>1, <2>3, <2>5, <2>6, SeqEqual
  <2> QED BY <2>7 DEF w
<1>6. x \in ByteSeqs /\ y \in ByteSeqs /\ z \in ByteSeqs
  <2>1. \A i \in 1..n : s[i] \in Nat
    BY <1>3, <1>4
  <2>2. x \in Seq(Nat)
    BY <1>4, <2>1, SubSeqProperties
  <2>3. \A i \in n + 1..m : s[i] \in Nat
    BY <1>3, <1>4
  <2>4. n + 1 \in Int /\ m \in Int
    BY <1>4
  <2>5. y \in Seq(Nat)
    <3>1. SubSeq(s, n + 1, m) \in Seq(Nat)
      BY <2>3, <2>4, SubSeqProperties
    <3> QED BY <3>1
  <2>6. \A i \in t + 1..Len(b) : b[i] \in Nat
    BY <1>1, <1>4
  <2>7. t + 1 \in Int /\ Len(b) \in Int
    BY <1>1, <1>4
  <2>8. z \in Seq(Nat)
    BY <2>6, <2>7, SubSeqProperties
  <2> QED BY <2>2, <2>5, <2>8 DEF ByteSeqs, SeqsOf
<1>7. x \o y = SubSeq(s, 1, m)
  <2>1. s \in Seq(Nat)
    BY <1>2 DEF ByteSeqs, SeqsOf
  <2>2. 1 \in 1..Len(s) + 1 /\ n \in 1 - 1..Len(s) /\ m \in n..Len(s)
    BY <1>4
  <2>3. SubSeq(s, 1, n) \o SubSeq(s, n + 1, m) = SubSeq(s, 1, m)
    BY <2>1, <2>2, ConcatAdjacentSubSeq
  <2> QED BY <2>3
<1>8. SubSeq(s, 1, m) \o SubSeq(s, m + 1, Len(s)) = s
  <2>1. s \in Seq(Nat)
    BY <1>2 DEF ByteSeqs, SeqsOf
  <2>2. 1 \in 1..Len(s) + 1 /\ m \in 1 - 1..Len(s) /\ Len(s) \in m..Len(s)
    BY <1>4
  <2> HIDE DEF m
  <2>3. SubSeq(s, 1, m) \o SubSeq(s, m + 1, Len(s)) = SubSeq(s, 1, Len(s))
    BY <2>1, <2>2, ConcatAdjacentSubSeq
  <2> QED BY <2>1, <2>3, SubSeqFull
<1> HIDE DEF x, y, z, m
<1>9. (x \o y) \o z = s
  BY <1>5, <1>7, <1>8
<1> QED BY <1>6, <1>9 DEF s, x, y, z, m

\* deflate() writes behind what it wrote before.
LEMMA WrittenBehind ==
  ASSUME NEW d \in Seq(ByteSeqs), NEW t \in Nat, NEW out \in Seq(ByteSeqs), t + Len(out) <= Len(d)
  PROVE  LET e == [i \in DOMAIN d |-> IF i - t \in DOMAIN out THEN out[i - t] ELSE d[i]]
         IN /\ e \in Seq(ByteSeqs) /\ Len(e) = Len(d)
            /\ SubSeq(e, 1, t + Len(out)) = SubSeq(d, 1, t) \o out
            /\ SubSeq(d, 1, t) \in Seq(ByteSeqs)
<1> DEFINE e == [i \in DOMAIN d |-> IF i - t \in DOMAIN out THEN out[i - t] ELSE d[i]]
           m == t + Len(out)
           p == SubSeq(d, 1, t)
           q == SubSeq(e, 1, m)
<1>1. Len(d) \in Nat /\ DOMAIN d = 1..Len(d) /\ (\A i \in 1..Len(d) : d[i] \in ByteSeqs)
  BY LenProperties, ElementOfSeq
<1>2. Len(out) \in Nat /\ DOMAIN out = 1..Len(out) /\ (\A i \in 1..Len(out) : out[i] \in ByteSeqs)
  BY LenProperties, ElementOfSeq
<1>3. e = [i \in 1..Len(d) |-> IF i - t \in 1..Len(out) THEN out[i - t] ELSE d[i]]
  BY <1>1, <1>2
<1>4. \A i \in 1..Len(d) : e[i] = IF i - t \in 1..Len(out) THEN out[i - t] ELSE d[i]
  BY <1>3
<1>5. e \in Seq(ByteSeqs) /\ Len(e) = Len(d)
  <2>1. e \in [1..Len(d) -> ByteSeqs]
    BY <1>1, <1>2, <1>3
  <2> HIDE DEF e
  <2> QED BY <1>1, <2>1
<1> HIDE DEF e
<1>6. m \in Nat /\ m <= Len(d) /\ t <= m
  BY <1>1, <1>2
<1>7. p \in Seq(ByteSeqs) /\ Len(p) = t /\ \A i \in 1..t : p[i] = d[i]
  <2>1. \A i \in 1..t : d[i] \in ByteSeqs
    BY <1>1, <1>2
  <2>2. p \in Seq(ByteSeqs) /\ Len(p) = (IF 1 <= t THEN t - 1 + 1 ELSE 0) /\ \A i \in 1..t - 1 + 1 : p[i] = d[1 + i - 1]
    BY <2>1, SubSeqProperties
  <2> HIDE DEF p
  <2> QED BY <2>2
<1>8. q \in Seq(ByteSeqs) /\ Len(q) = m /\ \A i \in 1..m : q[i] = e[i]
  <2>0. \A i \in 1..Len(d) : e[i] \in ByteSeqs
    BY <1>5, ElementOfSeq
  <2>1. \A i \in 1..m : e[i] \in ByteSeqs
    BY <1>1, <1>6, <2>0
  <2>2. q \in Seq(ByteSeqs) /\ Len(q) = (IF 1 <= m THEN m - 1 + 1 ELSE 0) /\ \A i \in 1..m - 1 + 1 : q[i] = e[1 + i - 1]
    <3> HIDE DEF m
    <3> QED BY <1>6, <2>1, SubSeqProperties
  <2> HIDE DEF q, m
  <2> QED BY <1>6, <2>2
<1> HIDE DEF p, q
<1>9. p \o out \in Seq(ByteSeqs) /\ Len(p \o out) = m
      /\ \A i \in 1..m : (p \o out)[i] = IF i <= t THEN p[i] ELSE out[i - t]
  BY <1>7, ConcatProperties
<1>10. ASSUME NEW i \in 1..m PROVE q[i] = (p \o out)[i]
  <2>1. i \in 1..Len(d) /\ (i - t \in 1..Len(out) <=> ~(i <= t)) /\ i \in Nat
    BY <1>1, <1>2, <1>6
  <2>2. i <= t => i \in 1..t
    BY <2>1
  <2> QED BY <1>4, <1>7, <1>8, <1>9, <2>1, <2>2
<1>11. q = p \o out
  <2> HIDE DEF m
  <2> QED BY <1>8, <1>9, <1>10, SeqEqual
<1> QED BY <1>5, <1>7, <1>11 DEF e, p, q, m

-----------------------------------------------------------------------------
\* What zlib has written for this payload stands for.
Written == Decoded(SubSeq(dest, 1, total_out))

BufferShape ==
  /\ dest \in Seq(ByteSeqs) /\ {cur, availIn, inside, appended} \subseteq ByteSeqs
  /\ total_out \in Nat /\ dest_index = total_out

\* Every byte appended was written, is held back by zlib, is offered to it or is in
\* cur_, in this order; once the stream has ended, all were written.
BytesConserved ==
  /\ bpc \in {"unused", "done"} => inside = <<>>
  /\ bpc = "append" => err = "ok" /\ (Written \o inside) \o cur = appended
  /\ bpc = "deflate" /\ err = "ok" => (Written \o inside) \o availIn = appended
  /\ bpc = "deflate" /\ err # "ok" =>
       flush = "finish" /\ inside = <<>> /\ availIn = <<>> /\ Written = appended \o Trailer
  /\ bpc = "done" => Written = appended \o Trailer

BufferInv == BufferTypeOK /\ BufferShape /\ BytesConserved

LEMMA FreshType == \A n \in Nat : Fresh(n) \in Seq(ByteSeqs) /\ Len(Fresh(n)) = n
<1> TAKE n \in Nat
<1>1. \A i \in 1..n : <<>> \in ByteSeqs
  BY BytesConcat
<1>2. Fresh(n) \in [1..n -> ByteSeqs]
  BY <1>1 DEF Fresh
<1> HIDE DEF Fresh
<1> QED BY <1>2

LEMMA WrittenType == BufferTypeOK /\ BufferShape => Written \in ByteSeqs
<1> SUFFICES ASSUME BufferTypeOK, BufferShape PROVE Written \in ByteSeqs
  OBVIOUS
<1>1. Len(dest) \in Nat /\ \A i \in 1..Len(dest) : dest[i] \in ByteSeqs
  BY LenProperties, ElementOfSeq DEF BufferShape
<1>2. total_out \in Nat /\ total_out <= Len(dest)
  BY <1>1 DEF BufferShape, BufferTypeOK
<1>3. \A i \in 1..total_out : dest[i] \in ByteSeqs
  BY <1>1, <1>2
<1>4. SubSeq(dest, 1, total_out) \in Seq(ByteSeqs)
  BY <1>2, <1>3, SubSeqProperties
<1> QED BY <1>4, DecodedType DEF Written

LEMMA BufferStarts == BufferInit => BufferInv
<1> SUFFICES ASSUME BufferInit PROVE BufferInv
  OBVIOUS
<1>1. dest \in Seq(ByteSeqs) /\ Len(dest) = OutSize /\ OutSize \in Nat
  BY BufferAssumption, FreshType DEF BufferInit
<1>2. BufferTypeOK
  BY <1>1, BufferAssumption DEF BufferInit, BufferTypeOK
<1>3. BufferShape
  BY <1>1, BytesConcat DEF BufferInit, BufferShape
<1>4. BytesConserved
  BY DEF BufferInit, BytesConserved
<1> QED BY <1>2, <1>3, <1>4 DEF BufferInv

LEMMA InitBufferKeeps == BufferInv /\ InitBuffer => BufferInv'
<1> SUFFICES ASSUME BufferInv, InitBuffer PROVE BufferInv'
  OBVIOUS
<1>1. BufferTypeOK'
  <2>1. Len(dest) \in Nat
    BY LenProperties DEF BufferInv, BufferShape
  <2>2. 0 \in 0..Len(dest)
    BY <2>1
  <2>3. payloads + 1 \in 0..MaxPayloads
    BY BufferAssumption DEF BufferInv, BufferTypeOK, InitBuffer
  <2> QED BY <2>2, <2>3 DEF BufferInv, BufferTypeOK, InitBuffer
<1>2. BufferShape'
  BY BytesConcat DEF BufferInv, BufferShape, InitBuffer
<1>3. Written' = <<>>
  <2>1. SubSeq(dest', 1, total_out') = <<>>
    BY SubSeqEmpty DEF InitBuffer
  <2> QED BY <2>1, DecodedEmpty DEF Written
<1>4. inside' = <<>> /\ cur' = <<>> /\ appended' = <<>> /\ bpc' = "append" /\ err' = "ok"
  BY DEF BufferInv, BytesConserved, InitBuffer
<1>5. (Written' \o inside') \o cur' = appended'
  BY <1>3, <1>4, BytesConcat
<1>6. BytesConserved'
  BY <1>4, <1>5 DEF BytesConserved
<1> QED BY <1>1, <1>2, <1>6 DEF BufferInv

LEMMA AppendKeeps == BufferInv /\ (\E n \in 1..MaxAppend : AppendBytes(n)) => BufferInv'
<1> SUFFICES ASSUME BufferInv, NEW n \in 1..MaxAppend, AppendBytes(n) PROVE BufferInv'
  OBVIOUS
<1> DEFINE new == [i \in 1..n |-> Len(appended) + i]
<1>1. cur \in ByteSeqs /\ appended \in ByteSeqs /\ inside \in ByteSeqs /\ Written \in ByteSeqs
  BY WrittenType DEF BufferInv, BufferShape
<1>2. new \in ByteSeqs
  <2>1. Len(appended) \in Nat /\ n \in Nat
    BY <1>1, LenProperties, BufferAssumption DEF ByteSeqs, SeqsOf
  <2>2. \A i \in 1..n : Len(appended) + i \in Nat
    BY <2>1
  <2>3. new \in [1..n -> Nat]
    BY <2>2
  <2> HIDE DEF new
  <2> QED BY <2>1, <2>3 DEF ByteSeqs, SeqsOf
<1>3. appended' = appended \o new /\ cur' = cur \o new /\ UNCHANGED <<inside, dest, dest_index, total_out, payloads>>
      /\ bpc = "append"
  BY DEF AppendBytes
<1>4. \/ bpc' = "deflate" /\ flush' = "no_flush" /\ availIn' = cur \o new /\ err' = "ok"
      \/ UNCHANGED <<bpc, flush, availIn, err>>
  BY DEF AppendBytes, Compress
<1> HIDE DEF new
<1>5. BufferTypeOK'
  BY <1>3, <1>4 DEF BufferInv, BufferTypeOK
<1>6. cur \o new \in ByteSeqs /\ appended \o new \in ByteSeqs
  BY <1>1, <1>2, BytesConcat
<1>7. BufferShape'
  BY <1>3, <1>4, <1>6 DEF BufferInv, BufferShape
<1>8. Written' = Written
  BY <1>3 DEF Written
<1>9. (Written \o inside) \o cur = appended /\ err = "ok"
  BY <1>3 DEF BufferInv, BytesConserved
<1>10. (Written \o inside) \o (cur \o new) = appended \o new
  <2>1. Written \o inside \in ByteSeqs
    BY <1>1, BytesConcat
  <2>2. ((Written \o inside) \o cur) \o new = (Written \o inside) \o (cur \o new)
    BY <1>1, <1>2, <2>1, BytesConcat
  <2> QED BY <1>9, <2>2
<1>11. (Written' \o inside') \o (cur \o new) = appended'
  BY <1>3, <1>8, <1>10
<1>12. BytesConserved'
  <2> HIDE DEF Written
  <2>1. CASE bpc' = "deflate" /\ flush' = "no_flush" /\ availIn' = cur \o new /\ err' = "ok"
    BY <1>11, <2>1 DEF BytesConserved
  <2>2. CASE UNCHANGED <<bpc, flush, availIn, err>>
    BY <1>3, <1>9, <1>11, <2>2 DEF BytesConserved
  <2> QED BY <1>4, <2>1, <2>2
<1> QED BY <1>5, <1>7, <1>12 DEF BufferInv

LEMMA FinishKeeps == BufferInv /\ Finish => BufferInv'
<1> SUFFICES ASSUME BufferInv, Finish PROVE BufferInv'
  OBVIOUS
<1>1. bpc = "append" /\ bpc' = "deflate" /\ flush' = "finish" /\ availIn' = cur /\ err' = "ok"
      /\ UNCHANGED <<cur, inside, dest, dest_index, total_out, appended, payloads>>
  BY DEF Finish, Compress
<1>2. BufferTypeOK'
  BY <1>1 DEF BufferInv, BufferTypeOK
<1>3. BufferShape'
  BY <1>1 DEF BufferInv, BufferShape
<1>4. Written' = Written
  BY <1>1 DEF Written
<1>5. (Written \o inside) \o cur = appended
  BY <1>1 DEF BufferInv, BytesConserved
<1>6. (Written' \o inside') \o availIn' = appended'
  BY <1>1, <1>4, <1>5
<1>7. BytesConserved'
  BY <1>1, <1>6 DEF BytesConserved
<1> QED BY <1>2, <1>3, <1>7 DEF BufferInv

LEMMA CompressedKeeps == BufferInv /\ Compressed => BufferInv'
<1> SUFFICES ASSUME BufferInv, Compressed PROVE BufferInv'
  OBVIOUS
<1>1. bpc = "deflate" /\ availIn = <<>> /\ (flush = "finish" => err # "ok")
      /\ UNCHANGED <<flush, err, availIn, inside, dest, dest_index, total_out, appended, payloads>>
      /\ bpc' = (IF flush = "finish" THEN "done" ELSE "append")
      /\ cur' = (IF flush = "finish" THEN cur ELSE <<>>)
  BY DEF Compressed
<1>2. BufferTypeOK'
  BY <1>1 DEF BufferInv, BufferTypeOK
<1>3. BufferShape'
  BY <1>1, BytesConcat DEF BufferInv, BufferShape
<1>4. Written' = Written
  BY <1>1 DEF Written
<1>5. CASE flush = "finish"
  <2>1. inside = <<>> /\ Written = appended \o Trailer
    BY <1>1, <1>5 DEF BufferInv, BytesConserved
  <2>2. bpc' = "done" /\ inside' = <<>> /\ Written' = appended' \o Trailer
    BY <1>1, <1>4, <1>5, <2>1
  <2>3. BytesConserved'
    BY <2>2 DEF BytesConserved
  <2> QED BY <1>2, <1>3, <2>3 DEF BufferInv
<1>6. CASE flush # "finish"
  <2>1. err = "ok" /\ (Written \o inside) \o availIn = appended
    BY <1>1, <1>6 DEF BufferInv, BytesConserved
  <2>2. bpc' = "append" /\ err' = "ok" /\ (Written' \o inside') \o cur' = appended'
    BY <1>1, <1>4, <1>6, <2>1
  <2>3. BytesConserved'
    BY <2>2 DEF BytesConserved
  <2> QED BY <1>2, <1>3, <2>3 DEF BufferInv
<1> QED BY <1>5, <1>6

LEMMA UnitsDecode ==
  ASSUME NEW s \in ByteSeqs, NEW n \in Nat, NEW u \in Units(s, n)
  PROVE  u \in Seq(ByteSeqs) /\ Decoded(u) = s
<1>1. CASE s = <<>>
  <2>1. u = <<>>
    BY <1>1 DEF Units
  <2>2. <<>> \in Seq(ByteSeqs)
    BY EmptySeq
  <2> QED BY <1>1, <2>1, <2>2, DecodedEmpty
<1>2. CASE s # <<>>
  <2>1. PICK k \in 1..n : u \in [1..k -> Slices(s)]
    BY <1>2 DEF Units
  <2>2. Decoded(u) = s
    BY <1>2 DEF Units
  <2>3. Slices(s) \subseteq ByteSeqs
    <3> SUFFICES ASSUME NEW p \in Slices(s) PROVE p \in ByteSeqs
      OBVIOUS
    <3>0. PICK i \in 1..Len(s), j \in 1..Len(s) : p = SubSeq(s, i, j)
      BY DEF Slices
    <3>1. Len(s) \in Nat /\ \A h \in 1..Len(s) : s[h] \in Nat
      BY LenProperties, ElementOfSeq DEF ByteSeqs, SeqsOf
    <3>2. i \in Int /\ j \in Int /\ \A h \in i..j : s[h] \in Nat
      BY <3>1
    <3> QED BY <3>0, <3>2, SubSeqProperties DEF ByteSeqs, SeqsOf
  <2>4. u \in [1..k -> ByteSeqs] /\ k \in Nat
    BY <2>1, <2>3
  <2>5. u \in Seq(ByteSeqs)
    BY <2>4
  <2> QED BY <2>2, <2>5
<1> QED BY <1>1, <1>2

LEMMA DeflateKeeps == BufferInv /\ deflate_chunk => BufferInv'
<1> SUFFICES ASSUME BufferInv, deflate_chunk PROVE BufferInv'
  OBVIOUS
<1> DEFINE grown == Grown
           avail == Len(grown) - dest_index
           input == inside \o availIn
<1>1. /\ bpc = "deflate" /\ err = "ok" /\ dest_index' = total_out'
      /\ UNCHANGED <<bpc, flush, cur, appended, payloads>>
  BY DEF deflate_chunk
<1>2. PICK n \in 0..Len(input) : \E u \in Units(SubSeq(input, 1, n), avail) :
        \E last \in BOOLEAN, taken \in 0..Len(availIn) : deflate(n, u, last, taken)
  BY DEF deflate_chunk
<1>3. PICK u \in Units(SubSeq(input, 1, n), avail), last \in BOOLEAN, taken \in 0..Len(availIn) :
        deflate(n, u, last, taken)
  BY <1>2
<1> DEFINE out == IF last THEN Append(u, Trailer) ELSE u
           piece == SubSeq(input, 1, n)
<1>4. /\ last => flush = "finish" /\ n = Len(input)
      /\ Len(out) <= avail
      /\ n <= Len(inside) + taken
  BY <1>3 DEF deflate
<1>5. /\ availIn' = SubSeq(availIn, taken + 1, Len(availIn))
      /\ inside' = SubSeq(input, n + 1, Len(inside) + taken)
      /\ total_out' = total_out + Len(out) /\ dest_index' = total_out'
      /\ err' = IF last THEN "stream_end" ELSE "ok"
  BY <1>1, <1>3 DEF deflate
<1>6. dest' = [i \in DOMAIN grown |->
                 IF i - total_out \in DOMAIN out THEN out[i - total_out] ELSE grown[i]]
  <2>1. dest_index = total_out
    BY DEF BufferInv, BufferShape
  <2> QED BY <1>3, <2>1 DEF deflate
<1>7. inside \in ByteSeqs /\ availIn \in ByteSeqs /\ appended \in ByteSeqs /\ cur \in ByteSeqs /\ dest \in Seq(ByteSeqs)
      /\ total_out \in Nat /\ dest_index = total_out /\ Written \in ByteSeqs
  BY WrittenType DEF BufferInv, BufferShape
<1>8. Len(inside) \in Nat /\ Len(availIn) \in Nat /\ Len(dest) \in Nat /\ total_out <= Len(dest)
  <2>1. Len(inside) \in Nat /\ Len(availIn) \in Nat /\ Len(dest) \in Nat
    BY <1>7, LenProperties DEF ByteSeqs, SeqsOf
  <2> QED BY <1>7, <2>1 DEF BufferInv, BufferTypeOK
<1>9. input \in ByteSeqs /\ Len(input) = Len(inside) + Len(availIn)
  BY <1>7, BytesConcat
<1>10. grown \in Seq(ByteSeqs) /\ Len(grown) \in Nat /\ Len(dest) <= Len(grown)
      /\ SubSeq(grown, 1, total_out) = SubSeq(dest, 1, total_out)
  <2>0. grown = dest \/ grown = dest \o Fresh(ChunkOut)
    BY DEF Grown
  <2> HIDE DEF grown
  <2>1. CASE grown = dest
    BY <1>7, <1>8, <2>1
  <2>2. CASE grown = dest \o Fresh(ChunkOut)
    <3>1. Fresh(ChunkOut) \in Seq(ByteSeqs) /\ Len(Fresh(ChunkOut)) = ChunkOut /\ ChunkOut \in Nat
      BY BufferAssumption, FreshType
    <3>2. grown \in Seq(ByteSeqs) /\ Len(grown) = Len(dest) + ChunkOut
      BY <1>7, <2>2, <3>1, ConcatProperties
    <3>3. CASE total_out = 0
      <4>1. SubSeq(grown, 1, 0) = <<>> /\ SubSeq(dest, 1, 0) = <<>>
        BY SubSeqEmpty
      <4> QED BY <1>8, <3>1, <3>2, <3>3, <4>1
    <3>4. CASE total_out # 0
      <4>1. 1 \in 1..Len(dest) /\ total_out \in 1..Len(dest)
        BY <1>7, <1>8, <3>4
      <4>2. SubSeq(dest \o Fresh(ChunkOut), 1, total_out) = SubSeq(dest, 1, total_out)
        BY <1>7, <3>1, <4>1, SubSeqOfConcat1
      <4>3. SubSeq(grown, 1, total_out) = SubSeq(dest, 1, total_out)
        BY <2>2, <4>2
      <4>4. Len(grown) \in Nat /\ Len(dest) <= Len(grown)
        BY <1>8, <3>1, <3>2
      <4> QED BY <3>2, <4>3, <4>4
    <3> QED BY <3>3, <3>4
  <2> QED BY <2>0, <2>1, <2>2
<1>11. taken \in 0..Len(availIn) /\ n \in 0..Len(inside) + taken
  BY <1>4, <1>8, <1>9
<1>12. piece \in ByteSeqs /\ inside' \in ByteSeqs /\ availIn' \in ByteSeqs /\ (piece \o inside') \o availIn' = input
  BY <1>5, <1>7, <1>11, InputSplit
<1>13. avail \in Nat
  BY <1>7, <1>8, <1>10
<1>14. u \in Seq(ByteSeqs) /\ Decoded(u) = piece
  BY <1>12, <1>13, UnitsDecode
<1>15. out \in Seq(ByteSeqs) /\ Decoded(out) = IF last THEN piece \o Trailer ELSE piece
  <2>1. Trailer \in ByteSeqs
    BY DEF Trailer, ByteSeqs, SeqsOf
  <2>2. CASE last
    <3>1. Append(u, Trailer) \in Seq(ByteSeqs)
      BY <1>14, <2>1, AppendProperties
    <3>2. Decoded(Append(u, Trailer)) = piece \o Trailer
      BY <1>12, <1>14, <2>1, DecodedAppend
    <3> QED BY <2>2, <3>1, <3>2
  <2>3. CASE ~last
    BY <1>14, <2>3
  <2> QED BY <2>2, <2>3
<1> HIDE DEF out, grown, piece, input, avail
<1>16. Len(out) \in Nat /\ total_out + Len(out) <= Len(grown)
  <2>1. Len(out) \in Nat
    BY <1>15, LenProperties
  <2> QED BY <1>4, <1>7, <1>10, <2>1 DEF avail
<1>17. dest' \in Seq(ByteSeqs) /\ Len(dest') = Len(grown)
       /\ SubSeq(dest', 1, total_out') = SubSeq(dest, 1, total_out) \o out
       /\ SubSeq(dest, 1, total_out) \in Seq(ByteSeqs)
  <2> DEFINE e == [i \in DOMAIN grown |-> IF i - total_out \in DOMAIN out THEN out[i - total_out] ELSE grown[i]]
  <2>1. e \in Seq(ByteSeqs) /\ Len(e) = Len(grown)
        /\ SubSeq(e, 1, total_out + Len(out)) = SubSeq(grown, 1, total_out) \o out
        /\ SubSeq(grown, 1, total_out) \in Seq(ByteSeqs)
    <3>1. grown \in Seq(ByteSeqs) /\ total_out \in Nat /\ out \in Seq(ByteSeqs)
          /\ total_out + Len(out) <= Len(grown)
      BY <1>7, <1>10, <1>15, <1>16
    <3> QED BY ONLY <3>1, WrittenBehind
  <2>2. dest' = e
    BY <1>6
  <2> HIDE DEF e
  <2> QED BY <1>5, <1>10, <2>1, <2>2
<1>18. Written' = Written \o Decoded(out)
  <2>1. Decoded(SubSeq(dest, 1, total_out) \o out) = Decoded(SubSeq(dest, 1, total_out)) \o Decoded(out)
    BY <1>15, <1>17, DecodedConcat
  <2> QED BY <1>17, <2>1 DEF Written
<1>19. BufferTypeOK'
  <2>1. dest_index' \in 0..Len(dest')
    BY <1>5, <1>7, <1>16, <1>17
  <2>2. err' \in {"ok", "stream_end"}
    BY <1>5
  <2> QED BY <1>1, <2>1, <2>2 DEF BufferInv, BufferTypeOK
<1>20. BufferShape'
  <2>1. total_out' \in Nat
    BY <1>5, <1>7, <1>16
  <2> QED BY <1>1, <1>5, <1>7, <1>12, <1>17, <2>1 DEF BufferShape
<1>21. Written \o input = appended
  <2>1. (Written \o inside) \o availIn = appended
    BY <1>1 DEF BufferInv, BytesConserved
  <2>2. (Written \o inside) \o availIn = Written \o input
    BY <1>7, BytesConcat DEF input
  <2> QED BY <2>1, <2>2
<1>22. CASE last
  <2>1. taken = Len(availIn) /\ n = Len(inside) + taken /\ n = Len(input)
    BY <1>4, <1>8, <1>9, <1>11, <1>22
  <2>2. inside' = <<>> /\ availIn' = <<>>
    <3>1. n + 1 \in Int /\ n \in Int /\ n < n + 1 /\ taken + 1 \in Int /\ taken \in Int /\ taken < taken + 1
      BY <1>8, <1>11
    <3>2. SubSeq(input, n + 1, n) = <<>> /\ SubSeq(availIn, taken + 1, taken) = <<>>
      BY <3>1, SubSeqEmpty
    <3> QED BY <1>5, <2>1, <3>2
  <2>3. piece = input
    <3>1. input \in Seq(Nat)
      BY <1>9 DEF ByteSeqs, SeqsOf
    <3> QED BY <2>1, <3>1, SubSeqFull DEF piece
  <2>4. Written' = Written \o (input \o Trailer)
    BY <1>15, <1>18, <1>22, <2>3
  <2>5. Trailer \in ByteSeqs
    BY DEF Trailer, ByteSeqs, SeqsOf
  <2>6. Written \o (input \o Trailer) = (Written \o input) \o Trailer
    BY <1>7, <1>9, <2>5, BytesConcat
  <2>7. Written' = appended' \o Trailer
    BY <1>1, <1>21, <2>4, <2>6
  <2>8. bpc' = "deflate" /\ err' # "ok" /\ flush' = "finish"
    BY <1>1, <1>4, <1>5, <1>22
  <2>9. BytesConserved'
    BY <2>2, <2>7, <2>8 DEF BytesConserved
  <2> QED BY <1>19, <1>20, <2>9 DEF BufferInv
<1>23. CASE ~last
  <2>1. Written' = Written \o piece
    BY <1>15, <1>18, <1>23
  <2>2. ((Written \o piece) \o inside') \o availIn' = Written \o input
    <3>2. PICK w, p, i, a : w = Written /\ p = piece /\ i = inside' /\ a = availIn'
      OBVIOUS
    <3>3. w \in ByteSeqs /\ p \in ByteSeqs /\ i \in ByteSeqs /\ a \in ByteSeqs
      BY <1>7, <1>12, <3>2
    <3>4. ((w \o p) \o i) \o a = w \o ((p \o i) \o a)
      <4>1. (w \o p) \o i = w \o (p \o i) /\ p \o i \in ByteSeqs
        BY <3>3, BytesConcat
      <4>2. (w \o (p \o i)) \o a = w \o ((p \o i) \o a)
        BY <3>3, <4>1, BytesConcat
      <4> QED BY <4>1, <4>2
    <3> QED BY <1>12, <3>2, <3>4
  <2>3. (Written' \o inside') \o availIn' = appended'
    BY <1>1, <1>21, <2>1, <2>2
  <2>4. bpc' = "deflate" /\ err' = "ok"
    BY <1>1, <1>5, <1>23
  <2>5. BytesConserved'
    BY <2>3, <2>4 DEF BytesConserved
  <2> QED BY <1>19, <1>20, <2>5 DEF BufferInv
<1> QED BY <1>22, <1>23

LEMMA BufferInductive == BufferInv /\ [BufferNext]_bufferVars => BufferInv'
<1> SUFFICES ASSUME BufferInv, [BufferNext]_bufferVars PROVE BufferInv'
  OBVIOUS
<1>1. CASE UNCHANGED bufferVars
  <2>1. Written' = Written
    BY <1>1 DEF bufferVars, Written
  <2>2. BytesConserved'
    BY <1>1, <2>1 DEF BufferInv, BytesConserved, bufferVars
  <2>3. BufferTypeOK'
    BY <1>1 DEF BufferInv, BufferTypeOK, bufferVars
  <2>4. BufferShape'
    BY <1>1 DEF BufferInv, BufferShape, bufferVars
  <2> QED BY <2>2, <2>3, <2>4 DEF BufferInv
<1>2. CASE BufferNext
  <2>1. CASE BufferDone
    BY <1>1, <2>1 DEF BufferDone
  <2> QED BY <1>2, <2>1, InitBufferKeeps, AppendKeeps, FinishKeeps, DeflateKeeps, CompressedKeeps DEF BufferNext
<1> QED BY <1>1, <1>2

\* The indices of dest_ stay within it, for chunks of any size and any behaviour of zlib.
THEOREM BufferTypes == BufferSpec => []BufferTypeOK
<1>1. BufferInv => BufferTypeOK
  BY DEF BufferInv
<1> QED BY <1>1, BufferStarts, BufferInductive, PTL DEF BufferSpec

\* Result() is a complete stream of the bytes appended since Init().
THEOREM BufferComplete == BufferSpec => []BufferDelivers
<1>1. BufferInv => BufferDelivers
  BY DEF BufferInv, BytesConserved, Written, BufferDelivers
<1> QED BY <1>1, BufferStarts, BufferInductive, PTL DEF BufferSpec

-----------------------------------------------------------------------------
(* Payload *)

\* The strings and the items of a payload.
Words == STRING \cup {"tiny", "token", "int32", "0x00", "byte", "last", "string", "double", "name"}
Item == Words \X (Int \cup Words)
Items == SeqsOf(Item)

\* A number of at most the third length.
Short(n) == 2 * n < High * (High * Low)

LEMMA PowerPositive == \A n \in Nat : 2^n \in Nat /\ 2^n > 0
<1> TAKE n \in Nat
<1> DEFINE S == SUBSET (1..n)
<1>1. IsFiniteSet(1..n) /\ Cardinality(1..n) = n
  BY FS_Interval
<1>2. IsFiniteSet(S) /\ Cardinality(S) = 2^n
  BY <1>1, FS_SUBSET, Zenon
<1>3. S # {}
  OBVIOUS
<1> HIDE DEF S
<1>4. Cardinality(S) \in Nat /\ Cardinality(S) # 0
  BY <1>2, <1>3, FS_EmptySet, FS_CardinalityType
<1>5. 2^n \in Nat /\ 2^n # 0
  BY <1>2, <1>4, Zenon
<1> HIDE DEF S
<1> QED BY <1>5

LEMMA Fields == Low \in Nat /\ Low > 0 /\ High \in Nat /\ High > 0
<1>1. LowBits \in Nat /\ HighBits \in Nat
  BY PayloadAssumption
<1> QED BY <1>1, PowerPositive DEF Low, High

LEMMA ItemsConcat ==
  /\ \A a, b \in Items : a \o b \in Items /\ Len(a \o b) = Len(a) + Len(b)
  /\ \A a, b, c \in Items : (a \o b) \o c = a \o (b \o c)
  /\ \A a \in Items : a \o <<>> = a /\ <<>> \o a = a
  /\ <<>> \in Items
  BY SeqsConcat DEF Items

\* What follows s in s \o r is r.
LEMMA ItemsAfter ==
  ASSUME NEW S, NEW s \in Seq(S), NEW r \in Seq(S)
  PROVE  LET p == s \o r
         IN /\ p \in Seq(S) /\ Len(p) = Len(s) + Len(r) /\ DOMAIN p = 1..Len(p)
            /\ Len(s) \in Nat /\ Len(r) \in Nat
            /\ \A i \in 1..Len(s) : p[i] = s[i]
            /\ \A i \in 1..Len(r) : p[Len(s) + i] = r[i]
            /\ SubSeq(p, Len(s) + 1, Len(p)) = r
<1> DEFINE p == s \o r
           m == Len(s)
           q == SubSeq(p, m + 1, Len(p))
<1>1. m \in Nat /\ Len(r) \in Nat
  BY LenProperties
<1>2. p \in Seq(S) /\ Len(p) = m + Len(r) /\ \A i \in 1..m + Len(r) : p[i] = IF i <= m THEN s[i] ELSE r[i - m]
  BY ConcatProperties
<1> HIDE DEF p
<1>3. DOMAIN p = 1..Len(p) /\ \A i \in 1..Len(p) : p[i] \in S
  BY <1>2, LenProperties, ElementOfSeq
<1>4. \A i \in 1..m : p[i] = s[i]
  BY <1>1, <1>2
<1>5. ASSUME NEW i \in 1..Len(r) PROVE p[m + i] = r[i]
  <2>1. m + i \in 1..m + Len(r) /\ ~(m + i <= m) /\ m + i - m = i
    BY <1>1
  <2> QED BY <1>2, <2>1
<1>6. q \in Seq(S) /\ Len(q) = (IF m + 1 <= Len(p) THEN Len(p) - (m + 1) + 1 ELSE 0)
      /\ \A i \in 1..Len(p) - (m + 1) + 1 : q[i] = p[m + 1 + i - 1]
  <2>1. m + 1 \in Int /\ Len(p) \in Int /\ \A i \in m + 1..Len(p) : p[i] \in S
    BY <1>1, <1>2, <1>3
  <2> QED BY <2>1, SubSeqProperties
<1> HIDE DEF q
<1>7. Len(q) = Len(r)
  BY <1>1, <1>2, <1>6
<1>8. ASSUME NEW i \in 1..Len(q) PROVE q[i] = r[i]
  <2>1. i \in 1..Len(r) /\ i \in 1..Len(p) - (m + 1) + 1 /\ m + 1 + i - 1 = m + i
    BY <1>1, <1>2, <1>7
  <2> QED BY <1>5, <1>6, <2>1
<1>9. q = r
  BY <1>6, <1>7, <1>8, SeqEqual
<1> QED BY <1>1, <1>2, <1>3, <1>4, <1>5, <1>9 DEF p, q, m

\* A number behind a token.
LEMMA ReadLong ==
  ASSUME NEW p \in Seq(Item), NEW e \in 2..6, e <= Len(p), p[1] = <<"token", "int32">>,
         p[e][1] = "last", \A j \in 2..e - 1 : p[j][1] = "byte"
  PROVE  LET byte(k) == IF k < e - 1 THEN p[e - k][2] ELSE 0
             high == ((byte(4) * High + byte(3)) * High + byte(2)) * High + byte(1)
         IN ReadInt(p) = [ok |-> TRUE, value |-> (high * Low + p[e][2]) \div 2,
                          rest |-> SubSeq(p, e + 1, Len(p))]
<1> DEFINE ends == {i \in (2..6) \cap DOMAIN p : p[i][1] = "last" /\ \A j \in 2..i - 1 : p[j][1] = "byte"}
<1>1. Len(p) \in Nat /\ DOMAIN p = 1..Len(p)
  BY LenProperties
<1>2. e \in ends
  BY <1>1
<1>3. ASSUME NEW i \in ends PROVE i = e
  <2>1. i \in 2..6 /\ p[i][1] = "last" /\ \A j \in 2..i - 1 : p[j][1] = "byte"
    OBVIOUS
  <2>2. CASE i < e
    <3>1. i \in 2..e - 1
      BY <2>1, <2>2
    <3> QED BY <2>1, <3>1
  <2>3. CASE e < i
    <3>1. e \in 2..i - 1
      BY <2>1, <2>3
    <3> QED BY <2>1, <3>1
  <2> QED BY <2>1, <2>2, <2>3
<1>4. (CHOOSE i \in ends : TRUE) = e /\ ends # {}
  <2> HIDE DEF ends
  <2> QED BY <1>2, <1>3
<1>5. p # <<>> /\ p[1][1] # "tiny"
  BY <1>1
<1> QED BY <1>4, <1>5 DEF ReadInt

\* The parts of a number.
LEMMA DivisionRest == \A i, d \in Nat : d > 0 => i = d * (i \div d) + (i % d)
  OBVIOUS

LEMMA Parts ==
  ASSUME NEW i \in Nat
  PROVE  /\ i \div Low \in Nat /\ i % Low \in Nat /\ (i \div Low) * Low + (i % Low) = i
         /\ i \div High \in Nat /\ i % High \in Nat /\ (i \div High) * High + (i % High) = i
         /\ i < High => i % High = i
         /\ i < Low => i % Low = i
<1>1. ASSUME NEW d \in Nat, d > 0
      PROVE  i \div d \in Nat /\ i % d \in Nat /\ (i \div d) * d + (i % d) = i /\ (i < d => i % d = i)
  <2>1. i \div d \in Nat /\ i % d \in 0..d - 1
    BY <1>1, Division
  <2>2. i = d * (i \div d) + (i % d)
    BY <1>1, DivisionRest
  <2>3. d * (i \div d) = (i \div d) * d
    BY <1>1, <2>1
  <2>4. i < d => i % d = i
    BY <1>1
  <2> QED BY <2>1, <2>2, <2>3, <2>4
<1> QED BY <1>1, Fields

LEMMA AppendIntType == \A n \in Nat : AppendInt(n) \in Items
<1> TAKE n \in Nat
<1> DEFINE i == n * 2
           i1 == i \div Low
           i2 == i1 \div High
           i3 == i2 \div High
<1>1. i \in Nat
  OBVIOUS
<1> HIDE DEF i
<1>2. i1 \in Nat /\ i % Low \in Nat
  BY <1>1, Parts
<1> HIDE DEF i1
<1>3. i2 \in Nat /\ i1 % High \in Nat
  BY <1>2, Parts
<1> HIDE DEF i2
<1>4. i3 \in Nat /\ i2 % High \in Nat
  BY <1>3, Parts
<1> HIDE DEF i3
<1>5. i3 \div High \in Nat /\ i3 % High \in Nat
  BY <1>4, Parts
<1> DEFINE int32 == <<"token", "int32">>
           zero == <<"token", "0x00">>
           b0 == <<"last", i % Low>>
           b1 == <<"byte", i1 % High>>
           b2 == <<"byte", i2 % High>>
           b3 == <<"byte", i3 % High>>
           b4 == <<"byte", i3 \div High>>
           t == <<"tiny", i>>
<1>6. /\ int32 \in Item /\ zero \in Item /\ t \in Item
      /\ b0 \in Item /\ b1 \in Item /\ b2 \in Item /\ b3 \in Item /\ b4 \in Item
  <2>1. \A k \in Nat : k \in Int \cup Words
    OBVIOUS
  <2> QED BY <1>1, <1>2, <1>3, <1>4, <1>5, <2>1 DEF Item, Words
<1>7. AppendInt(n) = CASE i < Low \div 2 -> <<t>>
       [] i >= Low \div 2 /\ i < Low -> <<int32, b0>>
       [] i >= Low /\ i1 < High -> <<int32, b1, b0>>
       [] i1 >= High /\ i2 < High -> <<int32, b2, b1, b0>>
       [] i2 >= High /\ i3 < High -> <<zero, b3, b2, b1, b0>>
       [] OTHER -> <<int32, b4, b3, b2, b1, b0>>
  BY DEF AppendInt, i, i1, i2, i3
<1> HIDE DEF int32, zero, b0, b1, b2, b3, b4, t
<1>8. /\ <<t>> \in Seq(Item) /\ <<int32, b0>> \in Seq(Item) /\ <<int32, b1, b0>> \in Seq(Item)
      /\ <<int32, b2, b1, b0>> \in Seq(Item) /\ <<zero, b3, b2, b1, b0>> \in Seq(Item)
      /\ <<int32, b4, b3, b2, b1, b0>> \in Seq(Item)
  BY <1>6
<1>9. AppendInt(n) \in Seq(Item)
  <2> DEFINE s0 == <<t>>
             s1 == <<int32, b0>>
             s2 == <<int32, b1, b0>>
             s3 == <<int32, b2, b1, b0>>
             s4 == <<zero, b3, b2, b1, b0>>
             s5 == <<int32, b4, b3, b2, b1, b0>>
  <2> HIDE DEF s0, s1, s2, s3, s4, s5
  <2>1. s0 \in Seq(Item) /\ s1 \in Seq(Item) /\ s2 \in Seq(Item) /\ s3 \in Seq(Item) /\ s4 \in Seq(Item) /\ s5 \in Seq(Item)
    BY <1>8 DEF s0, s1, s2, s3, s4, s5
  <2>2. AppendInt(n) = CASE i < Low \div 2 -> s0
       [] i >= Low \div 2 /\ i < Low -> s1
       [] i >= Low /\ i1 < High -> s2
       [] i1 >= High /\ i2 < High -> s3
       [] i2 >= High /\ i3 < High -> s4
       [] OTHER -> s5
    BY <1>7 DEF s0, s1, s2, s3, s4, s5
  <2> QED BY <2>1, <2>2
<1> QED BY <1>9 DEF Items, SeqsOf

\* A short number has at most two bytes before the last.
LEMMA ShortParts ==
  ASSUME NEW n \in Nat, Short(n)
  PROVE  ((n * 2) \div Low) \div High < High
<1> DEFINE i == n * 2
           i1 == i \div Low
           i2 == i1 \div High
<1>1. i \in Nat /\ i < High * (High * Low)
  <2>1. High * (High * Low) \in Nat
    BY Fields
  <2> QED BY <2>1 DEF Short
<1> HIDE DEF i
<1>2. i1 \in Nat /\ i % Low \in Nat /\ i1 * Low + (i % Low) = i
  BY <1>1, Parts
<1> HIDE DEF i1
<1>3. i2 \in Nat /\ i1 % High \in Nat /\ i2 * High + (i1 % High) = i1
  BY <1>2, Parts
<1> HIDE DEF i2
<1>4. ASSUME i2 >= High PROVE FALSE
  <2>1. i2 * High >= High * High
    <3>1. i2 - High \in Nat /\ (i2 - High) * High >= 0 /\ (i2 - High) * High = i2 * High - High * High
      BY <1>3, <1>4, Fields
    <3>2. i2 * High \in Int /\ High * High \in Int
      BY <1>3, Fields
    <3> QED BY <3>1, <3>2
  <2>2. PICK a \in Nat : a = High * High
    BY Fields
  <2>3. i1 >= a
    <3>1. PICK b \in Int : b = i2 * High
      BY <1>3, Fields
    <3> QED BY <1>2, <1>3, <2>1, <2>2, <3>1
  <2>4. i1 * Low >= a * Low
    <3>1. i1 - a \in Nat /\ (i1 - a) * Low >= 0 /\ (i1 - a) * Low = i1 * Low - a * Low
      BY <1>2, <2>2, <2>3, Fields
    <3>2. i1 * Low \in Int /\ a * Low \in Int
      BY <1>2, <2>2, Fields
    <3> QED BY <3>1, <3>2
  <2>5. a * Low = High * (High * Low)
    BY <2>2, Fields
  <2>6. PICK b \in Int, c \in Int : b = i1 * Low /\ c = a * Low
    BY <1>2, <2>2, Fields
  <2> QED BY <1>1, <1>2, <2>4, <2>5, <2>6
<1>5. i2 < High
  BY <1>3, <1>4, Fields
<1> QED BY <1>5 DEF i, i1, i2

\* The reader finds a short number and what follows it.
LEMMA IntRead ==
  ASSUME NEW n \in Nat, Short(n), NEW r \in Items
  PROVE  ReadInt(AppendInt(n) \o r) = [ok |-> TRUE, value |-> n, rest |-> r]
<1> DEFINE i == n * 2
           i1 == i \div Low
           i2 == i1 \div High
           i3 == i2 \div High
           s == AppendInt(n)
           p == s \o r
           int32 == <<"token", "int32">>
           b0 == <<"last", i % Low>>
           b1 == <<"byte", i1 % High>>
           b2 == <<"byte", i2 % High>>
<1>1. i \in Nat /\ i \div 2 = n
  OBVIOUS
<1>2. i2 < High
  BY ShortParts
<1>3. s = CASE i < Low \div 2 -> <<<<"tiny", i>>>>
       [] i >= Low \div 2 /\ i < Low -> <<int32, b0>>
       [] i >= Low /\ i1 < High -> <<int32, b1, b0>>
       [] i1 >= High /\ i2 < High -> <<int32, b2, b1, b0>>
       [] i2 >= High /\ i3 < High -> <<<<"token", "0x00">>, <<"byte", i3 % High>>, b2, b1, b0>>
       [] OTHER -> <<int32, <<"byte", i3 \div High>>, <<"byte", i3 % High>>, b2, b1, b0>>
  BY DEF AppendInt
<1>4. s \in Seq(Item) /\ r \in Seq(Item)
  BY AppendIntType DEF Items, SeqsOf
<1> HIDE DEF i, s
<1>5. i1 \in Nat /\ i % Low \in Nat /\ i1 * Low + (i % Low) = i /\ (i < Low => i % Low = i)
  BY <1>1, Parts
<1>51. i < Low => i1 = 0
  BY <1>1, Fields
<1> HIDE DEF i1
<1>6. i2 \in Nat /\ i1 % High \in Nat /\ i2 * High + (i1 % High) = i1 /\ (i1 < High => i1 % High = i1)
  BY <1>5, Parts
<1>61. i1 < High => i2 = 0
  BY <1>5, Fields
<1> HIDE DEF i2
<1>7. i2 % High = i2
  BY <1>2, <1>6, Parts
<1> HIDE DEF i3
<1>8. /\ p \in Seq(Item) /\ Len(p) = Len(s) + Len(r) /\ Len(r) \in Nat /\ \A j \in 1..Len(s) : p[j] = s[j]
      /\ SubSeq(p, Len(s) + 1, Len(p)) = r
  BY <1>4, ItemsAfter
<1> HIDE DEF p
<1>9. CASE i < Low \div 2
  <2>1. s = <<<<"tiny", i>>>>
    BY <1>1, <1>3, <1>9, <1>51, <1>61, Fields
  <2>2. Len(s) = 1 /\ s[1] = <<"tiny", i>>
    BY <2>1
  <2>3. p # <<>> /\ p[1] = <<"tiny", i>>
    BY <1>8, <2>2
  <2>4. Tail(p) = r
    <3>1. Tail(p) = SubSeq(p, 2, Len(p))
      BY <1>8, <2>3, TailIsSubSeq
    <3> QED BY <1>8, <2>2, <3>1
  <2>5. ReadInt(p) = [ok |-> TRUE, value |-> p[1][2] \div 2, rest |-> Tail(p)]
    BY <2>3 DEF ReadInt
  <2>6. p[1][2] \div 2 = n
    BY <1>1, <2>3
  <2> QED BY <2>4, <2>5, <2>6 DEF p, s
<1>10. CASE i >= Low \div 2 /\ i < Low
  <2>1. s = <<int32, b0>>
    BY <1>1, <1>3, <1>10, <1>51, <1>61, Fields
  <2>2. Len(s) = 2 /\ s[1] = int32 /\ s[2] = b0
    BY <2>1
  <2>3. p[1] = int32 /\ p[2] = b0 /\ Len(p) >= 2
    BY <1>8, <2>2
  <2>4. ReadInt(p) = [ok |-> TRUE, value |-> ((((0 * High + 0) * High + 0) * High + 0) * Low + p[2][2]) \div 2,
                      rest |-> SubSeq(p, 3, Len(p))]
    <3>1. 2 \in 2..6 /\ p[2][1] = "last" /\ \A j \in 2..2 - 1 : p[j][1] = "byte"
      BY <2>3
    <3> HIDE DEF int32, b0
    <3>2. ReadInt(p) = [ok |-> TRUE, value |-> (((((IF 4 < 2 - 1 THEN p[2 - 4][2] ELSE 0) * High
                         + (IF 3 < 2 - 1 THEN p[2 - 3][2] ELSE 0)) * High
                         + (IF 2 < 2 - 1 THEN p[2 - 2][2] ELSE 0)) * High
                         + (IF 1 < 2 - 1 THEN p[2 - 1][2] ELSE 0)) * Low + p[2][2]) \div 2,
                        rest |-> SubSeq(p, 2 + 1, Len(p))]
      BY <1>8, <2>3, <3>1, ReadLong DEF int32
    <3> QED BY <3>2
  <2>5. ((((0 * High + 0) * High + 0) * High + 0) * Low + p[2][2]) = i
    <3>1. p[2][2] = i
      BY <1>5, <1>10, <2>3
    <3>2. (((0 * High + 0) * High + 0) * High + 0) * Low = 0
      BY Fields
    <3> QED BY <1>1, <3>1, <3>2
  <2>6. SubSeq(p, 3, Len(p)) = r
    BY <1>8, <2>2
  <2> QED BY <1>1, <2>4, <2>5, <2>6 DEF p, s
<1>11. CASE i >= Low /\ i1 < High
  <2>1. s = <<int32, b1, b0>>
    BY <1>1, <1>3, <1>5, <1>11, <1>61, Fields
  <2>2. Len(s) = 3 /\ s[1] = int32 /\ s[2] = b1 /\ s[3] = b0
    BY <2>1
  <2>3. p[1] = int32 /\ p[2] = b1 /\ p[3] = b0 /\ Len(p) >= 3
    BY <1>8, <2>2
  <2>4. ReadInt(p) = [ok |-> TRUE, value |-> ((((0 * High + 0) * High + 0) * High + p[2][2]) * Low + p[3][2]) \div 2,
                      rest |-> SubSeq(p, 4, Len(p))]
    <3>1. 3 \in 2..6 /\ p[3][1] = "last" /\ \A j \in 2..3 - 1 : p[j][1] = "byte"
      BY <2>3
    <3> HIDE DEF int32, b0, b1
    <3>2. ReadInt(p) = [ok |-> TRUE, value |-> (((((IF 4 < 3 - 1 THEN p[3 - 4][2] ELSE 0) * High
                         + (IF 3 < 3 - 1 THEN p[3 - 3][2] ELSE 0)) * High
                         + (IF 2 < 3 - 1 THEN p[3 - 2][2] ELSE 0)) * High
                         + (IF 1 < 3 - 1 THEN p[3 - 1][2] ELSE 0)) * Low + p[3][2]) \div 2,
                        rest |-> SubSeq(p, 3 + 1, Len(p))]
      BY <1>8, <2>3, <3>1, ReadLong DEF int32
    <3> QED BY <3>2
  <2>5. ((((0 * High + 0) * High + 0) * High + p[2][2]) * Low + p[3][2]) = i
    <3>1. p[2][2] = i1 /\ p[3][2] = i % Low
      BY <1>6, <1>11, <2>3
    <3>2. ((0 * High + 0) * High + 0) * High + i1 = i1
      BY <1>5, Fields
    <3> QED BY <1>5, <3>1, <3>2
  <2>6. SubSeq(p, 4, Len(p)) = r
    BY <1>8, <2>2
  <2> QED BY <1>1, <2>4, <2>5, <2>6 DEF p, s
<1>12. CASE i1 >= High
  <2>0. i >= Low
    BY <1>1, <1>5, <1>12, <1>51, Fields
  <2>1. s = <<int32, b2, b1, b0>>
    BY <1>1, <1>2, <1>3, <1>5, <1>6, <1>12, <2>0, Fields
  <2>2. Len(s) = 4 /\ s[1] = int32 /\ s[2] = b2 /\ s[3] = b1 /\ s[4] = b0
    BY <2>1
  <2>3. p[1] = int32 /\ p[2] = b2 /\ p[3] = b1 /\ p[4] = b0 /\ Len(p) >= 4
    BY <1>8, <2>2
  <2>4. ReadInt(p) = [ok |-> TRUE, value |-> ((((0 * High + 0) * High + p[2][2]) * High + p[3][2]) * Low + p[4][2]) \div 2,
                      rest |-> SubSeq(p, 5, Len(p))]
    <3>1. 4 \in 2..6 /\ p[4][1] = "last" /\ \A j \in 2..4 - 1 : p[j][1] = "byte"
      BY <2>3
    <3> HIDE DEF int32, b0, b1, b2
    <3>2. ReadInt(p) = [ok |-> TRUE, value |-> (((((IF 4 < 4 - 1 THEN p[4 - 4][2] ELSE 0) * High
                         + (IF 3 < 4 - 1 THEN p[4 - 3][2] ELSE 0)) * High
                         + (IF 2 < 4 - 1 THEN p[4 - 2][2] ELSE 0)) * High
                         + (IF 1 < 4 - 1 THEN p[4 - 1][2] ELSE 0)) * Low + p[4][2]) \div 2,
                        rest |-> SubSeq(p, 4 + 1, Len(p))]
      BY <1>8, <2>3, <3>1, ReadLong DEF int32
    <3> QED BY <3>2
  <2>5. ((((0 * High + 0) * High + p[2][2]) * High + p[3][2]) * Low + p[4][2]) = i
    <3>1. p[2][2] = i2 /\ p[3][2] = i1 % High /\ p[4][2] = i % Low
      BY <1>7, <2>3
    <3>2. ((0 * High + 0) * High + i2) * High + (i1 % High) = i1
      BY <1>6, Fields
    <3> QED BY <1>5, <3>1, <3>2
  <2>6. SubSeq(p, 5, Len(p)) = r
    BY <1>8, <2>2
  <2> QED BY <1>1, <2>4, <2>5, <2>6 DEF p, s
<1> QED BY <1>1, <1>5, <1>9, <1>10, <1>11, <1>12, Fields

-----------------------------------------------------------------------------
\* The first n steps of ReadInts on p.
IntSteps(f, p, n) == f = [i \in 0..n |-> IF i = 0 THEN Begun(p) ELSE ReadMore(f[i - 1])]

LEMMA IntStepsAt ==
  ASSUME NEW f, NEW p, NEW n \in Nat, IntSteps(f, p, n)
  PROVE  \A i \in 0..n : f[i] = IF i = 0 THEN Begun(p) ELSE ReadMore(f[i - 1])
<1> DEFINE F == [i \in 0..n |-> IF i = 0 THEN Begun(p) ELSE ReadMore(f[i - 1])]
<1>1. \A i \in 0..n : F[i] = IF i = 0 THEN Begun(p) ELSE ReadMore(f[i - 1])
  OBVIOUS
<1>2. f = F
  BY DEF IntSteps
<1> HIDE DEF F
<1>3. \A i \in 0..n : f[i] = F[i]
  BY <1>2
<1> QED BY <1>1, <1>3

LEMMA IntStepsExist ==
  ASSUME NEW p
  PROVE  \A n \in Nat : \E f : IntSteps(f, p, n)
<1> DEFINE G == {n \in Nat : \E f : IntSteps(f, p, n)}
<1>1. 0 \in G
  <2> DEFINE e == [i \in 0..0 |-> Begun(p)]
  <2>1. \A i \in 0..0 : i = 0
    OBVIOUS
  <2>2. e = [i \in 0..0 |-> IF i = 0 THEN Begun(p) ELSE ReadMore(e[i - 1])]
    BY <2>1
  <2> HIDE DEF e
  <2> QED BY <2>2 DEF IntSteps
<1>2. ASSUME NEW n \in G PROVE n + 1 \in G
  <2>1. PICK f : IntSteps(f, p, n)
    OBVIOUS
  <2> DEFINE g == [i \in 0..n + 1 |-> IF i = 0 THEN Begun(p) ELSE ReadMore(f[i - 1])]
  <2>2. n \in Nat
    OBVIOUS
  <2>3. \A i \in 0..n : f[i] = g[i]
    <3>1. \A i \in 0..n : g[i] = IF i = 0 THEN Begun(p) ELSE ReadMore(f[i - 1])
      BY <2>2
    <3>2. \A i \in 0..n : f[i] = IF i = 0 THEN Begun(p) ELSE ReadMore(f[i - 1])
      BY <2>1, <2>2, IntStepsAt
    <3> HIDE DEF g
    <3> QED BY <3>1, <3>2
  <2>4. \A i \in 0..n + 1 : i # 0 => f[i - 1] = g[i - 1]
    <3> HIDE DEF g
    <3>1. \A i \in 0..n + 1 : i # 0 => i - 1 \in 0..n
      BY <2>2
    <3> QED BY <2>3, <3>1
  <2>5. g = [i \in 0..n + 1 |-> IF i = 0 THEN Begun(p) ELSE ReadMore(g[i - 1])]
    BY <2>4
  <2> HIDE DEF g
  <2>6. IntSteps(g, p, n + 1) /\ n + 1 \in Nat
    BY <2>2, <2>5 DEF IntSteps
  <2> QED BY <2>6
<1> HIDE DEF G
<1>3. G \in SUBSET Nat
  BY DEF G
<1>4. \A n \in Nat : n \in G
  BY <1>1, <1>2, <1>3, SetInduction
<1> QED BY <1>4 DEF G

LEMMA IntStepsAgree ==
  ASSUME NEW p, NEW n \in Nat, NEW f, NEW g, IntSteps(f, p, n), IntSteps(g, p, n + 1)
  PROVE  \A i \in 0..n : f[i] = g[i]
<1> DEFINE G == {i \in Nat : i \in 0..n => f[i] = g[i]}
<1>1. \A i \in 0..n : f[i] = IF i = 0 THEN Begun(p) ELSE ReadMore(f[i - 1])
  BY IntStepsAt
<1>2. \A i \in 0..n + 1 : g[i] = IF i = 0 THEN Begun(p) ELSE ReadMore(g[i - 1])
  <2>1. n + 1 \in Nat
    OBVIOUS
  <2> QED BY <2>1, IntStepsAt
<1>3. 0 \in G
  BY <1>1, <1>2
<1>4. ASSUME NEW i \in G PROVE i + 1 \in G
  <2> SUFFICES ASSUME i + 1 \in 0..n PROVE f[i + 1] = g[i + 1]
    OBVIOUS
  <2>1. i \in 0..n /\ i + 1 \in 0..n + 1 /\ i + 1 # 0 /\ i + 1 - 1 = i
    OBVIOUS
  <2>2. f[i] = g[i]
    BY <2>1
  <2>3. f[i + 1] = ReadMore(f[i])
    BY <1>1, <2>1
  <2>4. g[i + 1] = ReadMore(g[i])
    BY <1>2, <2>1
  <2> QED BY <2>2, <2>3, <2>4
<1>5. G \in SUBSET Nat
  OBVIOUS
<1> HIDE DEF G
<1>6. \A i \in Nat : i \in G
  BY <1>3, <1>4, <1>5, SetInduction
<1> QED BY <1>6 DEF G

LEMMA IntRecursion ==
  ASSUME NEW p, NEW n \in Nat
  PROVE  ReadInts(0, p) = Begun(p) /\ ReadInts(n + 1, p) = ReadMore(ReadInts(n, p))
<1> DEFINE c(k) == CHOOSE f : IntSteps(f, p, k)
<1>1. ASSUME NEW k \in Nat PROVE IntSteps(c(k), p, k) /\ ReadInts(k, p) = c(k)[k]
  <2>1. IntSteps(c(k), p, k)
    BY IntStepsExist
  <2>2. ReadInts(k, p) = c(k)[k]
    BY DEF ReadInts, IntSteps
  <2> QED BY <2>1, <2>2
<1> HIDE DEF c
<1>2. n + 1 \in Nat /\ 0 \in 0..0 /\ n \in 0..n /\ n + 1 \in 0..n + 1 /\ n + 1 # 0 /\ n + 1 - 1 = n
  OBVIOUS
<1>3. c(0)[0] = Begun(p)
  BY <1>1, <1>2, IntStepsAt
<1>4. c(n + 1)[n + 1] = ReadMore(c(n + 1)[n])
  <2>1. IntSteps(c(n + 1), p, n + 1)
    BY <1>1, <1>2
  <2>2. \A i \in 0..n + 1 : c(n + 1)[i] = IF i = 0 THEN Begun(p) ELSE ReadMore(c(n + 1)[i - 1])
    BY <1>2, <2>1, IntStepsAt
  <2> QED BY <1>2, <2>2
<1>5. c(n)[n] = c(n + 1)[n]
  <2>1. IntSteps(c(n), p, n) /\ IntSteps(c(n + 1), p, n + 1)
    BY <1>1, <1>2
  <2>2. \A i \in 0..n : c(n)[i] = c(n + 1)[i]
    BY <2>1, IntStepsAgree
  <2> QED BY <1>2, <2>2
<1>6. ReadInts(0, p) = c(0)[0] /\ ReadInts(n, p) = c(n)[n] /\ ReadInts(n + 1, p) = c(n + 1)[n + 1]
  BY <1>1, <1>2
<1> QED BY <1>3, <1>4, <1>5, <1>6

-----------------------------------------------------------------------------
\* The first n steps of ReadMeasurements on p.
ReadSteps(f, strings, p, n) == f = [i \in 0..n |-> IF i = 0 THEN Begun(p) ELSE ReadMeasurement(strings, f[i - 1])]

LEMMA ReadStepsAt ==
  ASSUME NEW f, NEW strings, NEW p, NEW n \in Nat, ReadSteps(f, strings, p, n)
  PROVE  \A i \in 0..n : f[i] = IF i = 0 THEN Begun(p) ELSE ReadMeasurement(strings, f[i - 1])
<1> DEFINE F == [i \in 0..n |-> IF i = 0 THEN Begun(p) ELSE ReadMeasurement(strings, f[i - 1])]
<1>1. \A i \in 0..n : F[i] = IF i = 0 THEN Begun(p) ELSE ReadMeasurement(strings, f[i - 1])
  OBVIOUS
<1>2. f = F
  BY DEF ReadSteps
<1> HIDE DEF F
<1>3. \A i \in 0..n : f[i] = F[i]
  BY <1>2
<1> QED BY <1>1, <1>3

LEMMA ReadStepsExist ==
  ASSUME NEW strings, NEW p
  PROVE  \A n \in Nat : \E f : ReadSteps(f, strings, p, n)
<1> DEFINE G == {n \in Nat : \E f : ReadSteps(f, strings, p, n)}
<1>1. 0 \in G
  <2> DEFINE e == [i \in 0..0 |-> Begun(p)]
  <2>1. \A i \in 0..0 : i = 0
    OBVIOUS
  <2>2. e = [i \in 0..0 |-> IF i = 0 THEN Begun(p) ELSE ReadMeasurement(strings, e[i - 1])]
    BY <2>1
  <2> HIDE DEF e
  <2> QED BY <2>2 DEF ReadSteps
<1>2. ASSUME NEW n \in G PROVE n + 1 \in G
  <2>1. PICK f : ReadSteps(f, strings, p, n)
    OBVIOUS
  <2> DEFINE g == [i \in 0..n + 1 |-> IF i = 0 THEN Begun(p) ELSE ReadMeasurement(strings, f[i - 1])]
  <2>2. n \in Nat
    OBVIOUS
  <2>3. \A i \in 0..n : f[i] = g[i]
    <3>1. \A i \in 0..n : g[i] = IF i = 0 THEN Begun(p) ELSE ReadMeasurement(strings, f[i - 1])
      BY <2>2
    <3>2. \A i \in 0..n : f[i] = IF i = 0 THEN Begun(p) ELSE ReadMeasurement(strings, f[i - 1])
      BY <2>1, <2>2, ReadStepsAt
    <3> HIDE DEF g
    <3> QED BY <3>1, <3>2
  <2>4. \A i \in 0..n + 1 : i # 0 => f[i - 1] = g[i - 1]
    <3> HIDE DEF g
    <3>1. \A i \in 0..n + 1 : i # 0 => i - 1 \in 0..n
      BY <2>2
    <3> QED BY <2>3, <3>1
  <2>5. g = [i \in 0..n + 1 |-> IF i = 0 THEN Begun(p) ELSE ReadMeasurement(strings, g[i - 1])]
    BY <2>4
  <2> HIDE DEF g
  <2>6. ReadSteps(g, strings, p, n + 1) /\ n + 1 \in Nat
    BY <2>2, <2>5 DEF ReadSteps
  <2> QED BY <2>6
<1> HIDE DEF G
<1>3. G \in SUBSET Nat
  BY DEF G
<1>4. \A n \in Nat : n \in G
  BY <1>1, <1>2, <1>3, SetInduction
<1> QED BY <1>4 DEF G

LEMMA ReadStepsAgree ==
  ASSUME NEW strings, NEW p, NEW n \in Nat, NEW f, NEW g, ReadSteps(f, strings, p, n), ReadSteps(g, strings, p, n + 1)
  PROVE  \A i \in 0..n : f[i] = g[i]
<1> DEFINE G == {i \in Nat : i \in 0..n => f[i] = g[i]}
<1>1. \A i \in 0..n : f[i] = IF i = 0 THEN Begun(p) ELSE ReadMeasurement(strings, f[i - 1])
  BY ReadStepsAt
<1>2. \A i \in 0..n + 1 : g[i] = IF i = 0 THEN Begun(p) ELSE ReadMeasurement(strings, g[i - 1])
  <2>1. n + 1 \in Nat
    OBVIOUS
  <2> QED BY <2>1, ReadStepsAt
<1>3. 0 \in G
  BY <1>1, <1>2
<1>4. ASSUME NEW i \in G PROVE i + 1 \in G
  <2> SUFFICES ASSUME i + 1 \in 0..n PROVE f[i + 1] = g[i + 1]
    OBVIOUS
  <2>1. i \in 0..n /\ i + 1 \in 0..n + 1 /\ i + 1 # 0 /\ i + 1 - 1 = i
    OBVIOUS
  <2>2. f[i] = g[i]
    BY <2>1
  <2>3. f[i + 1] = ReadMeasurement(strings, f[i])
    BY <1>1, <2>1
  <2>4. g[i + 1] = ReadMeasurement(strings, g[i])
    BY <1>2, <2>1
  <2> QED BY <2>2, <2>3, <2>4
<1>5. G \in SUBSET Nat
  OBVIOUS
<1> HIDE DEF G
<1>6. \A i \in Nat : i \in G
  BY <1>3, <1>4, <1>5, SetInduction
<1> QED BY <1>6 DEF G

LEMMA ReadRecursion ==
  ASSUME NEW strings, NEW p, NEW n \in Nat
  PROVE  ReadMeasurements(0, strings, p) = Begun(p) /\ ReadMeasurements(n + 1, strings, p) = ReadMeasurement(strings, ReadMeasurements(n, strings, p))
<1> DEFINE c(k) == CHOOSE f : ReadSteps(f, strings, p, k)
<1>1. ASSUME NEW k \in Nat PROVE ReadSteps(c(k), strings, p, k) /\ ReadMeasurements(k, strings, p) = c(k)[k]
  <2>1. ReadSteps(c(k), strings, p, k)
    BY ReadStepsExist
  <2>2. ReadMeasurements(k, strings, p) = c(k)[k]
    BY DEF ReadMeasurements, ReadSteps
  <2> QED BY <2>1, <2>2
<1> HIDE DEF c
<1>2. n + 1 \in Nat /\ 0 \in 0..0 /\ n \in 0..n /\ n + 1 \in 0..n + 1 /\ n + 1 # 0 /\ n + 1 - 1 = n
  OBVIOUS
<1>3. c(0)[0] = Begun(p)
  BY <1>1, <1>2, ReadStepsAt
<1>4. c(n + 1)[n + 1] = ReadMeasurement(strings, c(n + 1)[n])
  <2>1. ReadSteps(c(n + 1), strings, p, n + 1)
    BY <1>1, <1>2
  <2>2. \A i \in 0..n + 1 : c(n + 1)[i] = IF i = 0 THEN Begun(p) ELSE ReadMeasurement(strings, c(n + 1)[i - 1])
    BY <1>2, <2>1, ReadStepsAt
  <2> QED BY <1>2, <2>2
<1>5. c(n)[n] = c(n + 1)[n]
  <2>1. ReadSteps(c(n), strings, p, n) /\ ReadSteps(c(n + 1), strings, p, n + 1)
    BY <1>1, <1>2
  <2>2. \A i \in 0..n : c(n)[i] = c(n + 1)[i]
    BY <2>1, ReadStepsAgree
  <2> QED BY <1>2, <2>2
<1>6. ReadMeasurements(0, strings, p) = c(0)[0] /\ ReadMeasurements(n, strings, p) = c(n)[n] /\ ReadMeasurements(n + 1, strings, p) = c(n + 1)[n + 1]
  BY <1>1, <1>2
<1> QED BY <1>3, <1>4, <1>5, <1>6

-----------------------------------------------------------------------------
LEMMA AppendIntsType ==
  ASSUME NEW ns \in Seq(Nat)
  PROVE  /\ AppendInts(ns) \in Items
         /\ [i \in DOMAIN ns |-> AppendInt(ns[i])] \in Seq(Items)
<1> DEFINE m == Len(ns)
           a == [i \in DOMAIN ns |-> AppendInt(ns[i])]
<1>1. m \in Nat /\ DOMAIN ns = 1..m /\ \A i \in 1..m : ns[i] \in Nat
  BY LenProperties, ElementOfSeq
<1>2. a \in [1..m -> Items]
  BY <1>1, AppendIntType
<1> HIDE DEF a
<1>3. a \in Seq(Items)
  BY <1>1, <1>2
<1>4. Joined(a) \in Items
  BY <1>3, JoinedType DEF Items
<1> QED BY <1>3, <1>4 DEF AppendInts, a

LEMMA AppendIntsMore ==
  ASSUME NEW ns \in Seq(Nat), NEW n \in Nat
  PROVE  AppendInts(Append(ns, n)) = AppendInts(ns) \o AppendInt(n)
<1> DEFINE m == Len(ns)
           ms == Append(ns, n)
           a == [i \in DOMAIN ns |-> AppendInt(ns[i])]
           b == [i \in DOMAIN ms |-> AppendInt(ms[i])]
           c == Append(a, AppendInt(n))
<1>1. m \in Nat /\ DOMAIN ns = 1..m
  BY LenProperties
<1>2. ms \in Seq(Nat) /\ Len(ms) = m + 1 /\ ms[m + 1] = n /\ \A i \in 1..m : ms[i] = ns[i]
  BY AppendProperties
<1> HIDE DEF ms
<1>3. DOMAIN ms = 1..m + 1
  BY <1>2, LenProperties
<1>4. a \in Seq(Items) /\ b \in Seq(Items) /\ AppendInt(n) \in Items
  BY <1>2, AppendIntsType, AppendIntType
<1>5. (\A i \in 1..m : a[i] = AppendInt(ns[i])) /\ (\A i \in 1..m + 1 : b[i] = AppendInt(ms[i]))
  BY <1>1, <1>3
<1>6. DOMAIN a = 1..m /\ DOMAIN b = 1..m + 1
  BY <1>1, <1>3
<1> HIDE DEF a, b
<1>7. Len(a) = m /\ Len(b) = m + 1
  BY <1>1, <1>4, <1>6, LenProperties
<1>8. c \in Seq(Items) /\ Len(c) = m + 1 /\ c[m + 1] = AppendInt(n) /\ \A i \in 1..m : c[i] = a[i]
  BY <1>4, <1>7, AppendProperties
<1> HIDE DEF c
<1>9. ASSUME NEW i \in 1..Len(b) PROVE b[i] = c[i]
  <2>1. CASE i = m + 1
    BY <1>1, <1>2, <1>5, <1>8, <2>1
  <2>2. CASE i # m + 1
    <3>1. i \in 1..m /\ i \in 1..m + 1
      BY <1>1, <1>7, <2>2
    <3> QED BY <1>2, <1>5, <1>8, <3>1
  <2> QED BY <2>1, <2>2
<1>10. b = c
  BY <1>4, <1>7, <1>8, <1>9, SeqEqual
<1>11. Joined(c) = Joined(a) \o AppendInt(n)
  <2>1. Joined(a) \in Items
    BY <1>4, JoinedType DEF Items
  <2> QED BY <1>4, <2>1, JoinedAppend DEF c, Items
<1> QED BY <1>10, <1>11 DEF AppendInts, a, b, ms

\* The reader finds the numbers that were written, and what follows them.
LEMMA IntsRead ==
  ASSUME NEW ns \in Seq(Nat), \A i \in 1..Len(ns) : Short(ns[i]), NEW r \in Items
  PROVE  ReadInts(Len(ns), AppendInts(ns) \o r) = [ok |-> TRUE, value |-> ns, rest |-> r]
<1> DEFINE G == {k \in Nat : \A s \in Seq(Nat) : \A q \in Items :
                   Len(s) = k /\ (\A i \in 1..k : Short(s[i]))
                     => ReadInts(k, AppendInts(s) \o q) = [ok |-> TRUE, value |-> s, rest |-> q]}
<1>1. 0 \in G
  <2> SUFFICES ASSUME NEW s \in Seq(Nat), NEW q \in Items, Len(s) = 0
               PROVE  ReadInts(0, AppendInts(s) \o q) = [ok |-> TRUE, value |-> s, rest |-> q]
    OBVIOUS
  <2>1. s = <<>>
    BY EmptySeq
  <2>2. [i \in DOMAIN s |-> AppendInt(s[i])] = <<>>
    BY <2>1
  <2>3. AppendInts(s) = <<>>
    BY <2>2, JoinedEmpty DEF AppendInts
  <2>4. AppendInts(s) \o q = q
    BY <2>3, ItemsConcat
  <2>5. ReadInts(0, q) = Begun(q)
    BY IntRecursion
  <2> QED BY <2>1, <2>4, <2>5 DEF Begun
<1>2. ASSUME NEW k \in G PROVE k + 1 \in G
  <2>0. k + 1 \in Nat
    OBVIOUS
  <2> SUFFICES ASSUME NEW s \in Seq(Nat), NEW q \in Items, Len(s) = k + 1, \A i \in 1..k + 1 : Short(s[i])
               PROVE  ReadInts(k + 1, AppendInts(s) \o q) = [ok |-> TRUE, value |-> s, rest |-> q]
    BY <2>0
  <2>1. k \in Nat /\ s # <<>>
    BY EmptySeq
  <2>2. PICK w \in Seq(Nat), x \in Nat : s = Append(w, x)
    BY <2>1, SequenceEmptyOrAppend
  <2>3. Len(w) = k /\ s[k + 1] = x /\ \A i \in 1..k : s[i] = w[i]
    BY <2>1, <2>2, AppendProperties, LenProperties
  <2>4. (\A i \in 1..k : Short(w[i])) /\ Short(x)
    BY <2>1, <2>3
  <2> DEFINE y == AppendInt(x) \o q
             p == AppendInts(s) \o q
  <2>5. y \in Items /\ AppendInts(w) \in Items /\ AppendInt(x) \in Items
    BY AppendIntType, AppendIntsType, ItemsConcat
  <2>6. p = AppendInts(w) \o y
    <3>1. AppendInts(s) = AppendInts(w) \o AppendInt(x)
      BY <2>2, AppendIntsMore
    <3>2. (AppendInts(w) \o AppendInt(x)) \o q = AppendInts(w) \o (AppendInt(x) \o q)
      <4> HIDE DEF G
      <4> QED BY <2>5, ItemsConcat
    <3> QED BY <3>1, <3>2
  <2> HIDE DEF y, p
  <2>7. ReadInts(k, p) = [ok |-> TRUE, value |-> w, rest |-> y]
    BY <2>3, <2>4, <2>5, <2>6
  <2>8. ReadInts(k + 1, p) = ReadMore(ReadInts(k, p))
    BY <2>1, IntRecursion
  <2>9. ReadInt(y) = [ok |-> TRUE, value |-> x, rest |-> q]
    BY <2>4, IntRead DEF y
  <2>10. ReadMore(ReadInts(k, p)) = [ok |-> TRUE, value |-> Append(w, x), rest |-> q]
    <3> DEFINE R == ReadInts(k, p)
    <3>1. R.value = w /\ R.rest = y
      BY <2>7
    <3>2. ReadInt(y).ok /\ ReadInt(y).value = x /\ ReadInt(y).rest = q
      BY <2>9
    <3> HIDE DEF R, G
    <3>3. ReadMore(R) = [ok |-> TRUE, value |-> Append(w, x), rest |-> q]
      BY <3>1, <3>2 DEF ReadMore
    <3> QED BY <3>3 DEF R
  <2> QED BY <2>2, <2>8, <2>10 DEF p
<1> HIDE DEF G
<1>3. G \in SUBSET Nat
  BY DEF G
<1>4. \A k \in Nat : k \in G
  BY <1>1, <1>2, <1>3, SetInduction
<1>5. Len(ns) \in Nat
  BY LenProperties
<1> QED BY <1>4, <1>5 DEF G

-----------------------------------------------------------------------------
Pairs == Words \X Words
Holds(strings, s) == \E i \in 1..Len(strings) : strings[i] = s

\* ids are the numbers of the keys and values of tags.
Tells(strings, ids, tags) ==
  /\ ids \in Seq(Nat) /\ Len(ids) = 2 * Len(tags)
  /\ \A i \in 1..Len(ids) : ids[i] < Len(strings)
  /\ \A j \in 1..Len(tags) : strings[ids[2 * j - 1] + 1] = tags[j][1] /\ strings[ids[2 * j] + 1] = tags[j][2]

LEMMA IndexOfHeld ==
  ASSUME NEW strings \in Seq(Words), NEW s, Holds(strings, s)
  PROVE  /\ IndexOf(strings, s) \in Nat /\ IndexOf(strings, s) < Len(strings)
         /\ strings[IndexOf(strings, s) + 1] = s
<1>1. Len(strings) \in Nat /\ DOMAIN strings = 1..Len(strings)
  BY LenProperties
<1>2. PICK i \in 1..Len(strings) : i = (CHOOSE j \in DOMAIN strings : strings[j] = s) /\ strings[i] = s
  BY <1>1 DEF Holds
<1>3. IndexOf(strings, s) = i - 1
  BY <1>2 DEF IndexOf
<1> QED BY <1>1, <1>2, <1>3

LEMMA TagIdsTell ==
  ASSUME NEW strings \in Seq(Words), NEW tags \in Seq(Pairs),
         \A j \in 1..Len(tags) : Holds(strings, tags[j][1]) /\ Holds(strings, tags[j][2])
  PROVE  Tells(strings, TagIds(strings, tags), tags)
<1> DEFINE n == Len(tags)
           ids == TagIds(strings, tags)
           e(i) == IndexOf(strings, tags[(i + 1) \div 2][2 - (i % 2)])
<1>1. n \in Nat
  BY LenProperties
<1>2. ASSUME NEW i \in 1..2 * n
      PROVE  e(i) \in Nat /\ e(i) < Len(strings) /\ strings[e(i) + 1] = tags[(i + 1) \div 2][2 - (i % 2)]
  <2>1. (i + 1) \div 2 \in 1..n /\ (2 - (i % 2) = 1 \/ 2 - (i % 2) = 2)
    BY <1>1
  <2>2. Holds(strings, tags[(i + 1) \div 2][2 - (i % 2)])
    BY <2>1
  <2> QED BY <2>2, IndexOfHeld
<1>3. ids = [i \in 1..2 * n |-> e(i)]
  BY DEF TagIds
<1> HIDE DEF e
<1>4. ids \in [1..2 * n -> Nat] /\ \A i \in 1..2 * n : ids[i] = e(i)
  BY <1>2, <1>3
<1> HIDE DEF ids
<1>5. 2 * n \in Nat
  BY <1>1
<1>6. ids \in Seq(Nat) /\ Len(ids) = 2 * n
  <2> DEFINE k == 2 * n
  <2>1. k \in Nat /\ ids \in [1..k -> Nat]
    BY <1>4, <1>5
  <2> HIDE DEF k
  <2>2. ids \in Seq(Nat) /\ Len(ids) = k
    BY <2>1
  <2> QED BY <2>2 DEF k
<1>7. \A i \in 1..Len(ids) : ids[i] < Len(strings)
  BY <1>2, <1>4, <1>6
<1>8. ASSUME NEW j \in 1..n
      PROVE  strings[ids[2 * j - 1] + 1] = tags[j][1] /\ strings[ids[2 * j] + 1] = tags[j][2]
  <2>1. /\ 2 * j - 1 \in 1..2 * n /\ (2 * j - 1 + 1) \div 2 = j /\ 2 - ((2 * j - 1) % 2) = 1
        /\ 2 * j \in 1..2 * n /\ (2 * j + 1) \div 2 = j /\ 2 - ((2 * j) % 2) = 2
    BY <1>1
  <2>2. strings[ids[2 * j - 1] + 1] = tags[j][1]
    BY <1>2, <1>4, <2>1
  <2>3. strings[ids[2 * j] + 1] = tags[j][2]
    BY <1>2, <1>4, <2>1
  <2> QED BY <2>2, <2>3
<1> QED BY <1>6, <1>7, <1>8 DEF Tells, ids

LEMMA TellsConcat ==
  ASSUME NEW strings, NEW a, NEW b, NEW s \in Seq(Pairs), NEW t \in Seq(Pairs),
         Tells(strings, a, s), Tells(strings, b, t)
  PROVE  Tells(strings, a \o b, s \o t)
<1> DEFINE c == a \o b
           u == s \o t
<1>1. a \in Seq(Nat) /\ b \in Seq(Nat)
  BY DEF Tells
<1>2. /\ c \in Seq(Nat) /\ Len(c) = Len(a) + Len(b) /\ Len(a) \in Nat /\ Len(b) \in Nat
      /\ \A i \in 1..Len(a) : c[i] = a[i]
      /\ \A i \in 1..Len(b) : c[Len(a) + i] = b[i]
  BY <1>1, ItemsAfter
<1>3. /\ Len(u) = Len(s) + Len(t) /\ Len(s) \in Nat /\ Len(t) \in Nat
      /\ \A i \in 1..Len(s) : u[i] = s[i]
      /\ \A i \in 1..Len(t) : u[Len(s) + i] = t[i]
  BY ItemsAfter
<1> HIDE DEF c, u
<1>4. Len(a) = 2 * Len(s) /\ Len(b) = 2 * Len(t)
  BY DEF Tells
<1>5. ASSUME NEW i \in 1..Len(c) PROVE c[i] < Len(strings)
  <2>1. CASE i <= Len(a)
    <3>1. i \in 1..Len(a)
      BY <1>2, <2>1
    <3>2. c[i] = a[i]
      BY <1>2, <3>1
    <3> QED BY <3>1, <3>2 DEF Tells
  <2>2. CASE i > Len(a)
    <3>1. PICK k \in 1..Len(b) : i = Len(a) + k
      <4>1. i - Len(a) \in 1..Len(b) /\ i = Len(a) + (i - Len(a))
        BY <1>2, <2>2
      <4> QED BY <4>1
    <3> QED BY <1>2, <3>1 DEF Tells
  <2> QED BY <1>2, <2>1, <2>2
<1>6. ASSUME NEW j \in 1..Len(u)
      PROVE  strings[c[2 * j - 1] + 1] = u[j][1] /\ strings[c[2 * j] + 1] = u[j][2]
  <2>1. CASE j <= Len(s)
    <3>1. j \in 1..Len(s) /\ 2 * j - 1 \in 1..Len(a) /\ 2 * j \in 1..Len(a)
      BY <1>3, <1>4, <2>1
    <3>2. c[2 * j - 1] = a[2 * j - 1] /\ c[2 * j] = a[2 * j] /\ u[j] = s[j]
      BY <1>2, <1>3, <3>1
    <3> QED BY <3>1, <3>2 DEF Tells
  <2>2. CASE j > Len(s)
    <3>1. PICK k \in 1..Len(t) : j = Len(s) + k
      <4>1. j - Len(s) \in 1..Len(t) /\ j = Len(s) + (j - Len(s))
        BY <1>3, <2>2
      <4> QED BY <4>1
    <3>2. /\ 2 * k - 1 \in 1..Len(b) /\ 2 * k \in 1..Len(b)
          /\ 2 * j - 1 = Len(a) + (2 * k - 1) /\ 2 * j = Len(a) + 2 * k
      BY <1>3, <1>4, <3>1
    <3>3. c[2 * j - 1] = b[2 * k - 1] /\ c[2 * j] = b[2 * k] /\ u[j] = t[k]
      BY <1>2, <1>3, <3>1, <3>2
    <3> QED BY <3>1, <3>3 DEF Tells
  <2> QED BY <1>3, <2>1, <2>2
<1>7. Len(c) = 2 * Len(u)
  BY <1>2, <1>3, <1>4
<1> QED BY <1>2, <1>5, <1>6, <1>7 DEF Tells, c, u

\* What is known of a measurement and of the strings it is written with.
Writable(strings, m) ==
  /\ m.name \in Words /\ m.tags \in Seq(Pairs) /\ m.value \in Int
  /\ Holds(strings, "name") /\ Holds(strings, m.name)
  /\ \A j \in 1..Len(m.tags) : Holds(strings, m.tags[j][1]) /\ Holds(strings, m.tags[j][2])
  /\ \A j \in 1..Len(CommonTags) : Holds(strings, CommonTags[j][1]) /\ Holds(strings, CommonTags[j][2])

LEMMA CommonTagsType == CommonTags \in Seq(Pairs) /\ Len(CommonTags) \in Nat
<1>1. STRING \X STRING \subseteq Pairs
  BY DEF Pairs, Words
<1>2. CommonTags \in Seq(STRING \X STRING)
  BY PayloadAssumption DEF TagLists
<1> HIDE DEF Pairs
<1>3. CommonTags \in Seq(Pairs)
  BY <1>1, <1>2, SeqMonotonic
<1> QED BY <1>3, LenProperties

\* The tags of a measurement as they are written and as they are read.
AllIds(strings, m) ==
  TagIds(strings, CommonTags) \o TagIds(strings, m.tags)
    \o <<IndexOf(strings, "name"), IndexOf(strings, m.name)>>
AllTags(m) == CommonTags \o m.tags \o <<<<"name", m.name>>>>

LEMMA AllTell ==
  ASSUME NEW strings \in Seq(Words), NEW m, Writable(strings, m)
  PROVE  /\ Tells(strings, AllIds(strings, m), AllTags(m))
         /\ AllTags(m) \in Seq(Pairs) /\ Len(AllTags(m)) = Len(m.tags) + 1 + Len(CommonTags)
         /\ Len(m.tags) \in Nat
<1> DEFINE a == IndexOf(strings, "name")
           b == IndexOf(strings, m.name)
           x == <<a, b>>
           y == <<<<"name", m.name>>>>
           s == CommonTags \o m.tags
           u == TagIds(strings, CommonTags) \o TagIds(strings, m.tags)
<1>1. m.tags \in Seq(Pairs) /\ Len(m.tags) \in Nat
  BY LenProperties DEF Writable
<1>2. Tells(strings, TagIds(strings, CommonTags), CommonTags) /\ Tells(strings, TagIds(strings, m.tags), m.tags)
  BY <1>1, CommonTagsType, TagIdsTell DEF Writable
<1>3. Tells(strings, u, s)
  BY <1>1, <1>2, CommonTagsType, TellsConcat
<1>4. s \in Seq(Pairs) /\ Len(s) = Len(CommonTags) + Len(m.tags)
  BY <1>1, CommonTagsType, ConcatProperties
<1>5. /\ a \in Nat /\ a < Len(strings) /\ strings[a + 1] = "name"
      /\ b \in Nat /\ b < Len(strings) /\ strings[b + 1] = m.name
  BY IndexOfHeld DEF Writable
<1> HIDE DEF a, b
<1>6. y \in Seq(Pairs) /\ Len(y) = 1 /\ y[1] = <<"name", m.name>>
  <2>1. <<"name", m.name>> \in Pairs
    BY DEF Pairs, Words, Writable
  <2> HIDE DEF Pairs
  <2> QED BY <2>1
<1>7. x \in Seq(Nat) /\ Len(x) = 2 /\ x[1] = a /\ x[2] = b
  BY <1>5
<1> HIDE DEF x, y, s, u
<1>8. Tells(strings, x, y)
  <2>1. \A i \in 1..2 : x[i] < Len(strings)
    <3>1. \A i \in 1..2 : i = 1 \/ i = 2
      OBVIOUS
    <3> QED BY <1>5, <1>7, <3>1
  <2>2. \A j \in 1..1 : strings[x[2 * j - 1] + 1] = y[j][1] /\ strings[x[2 * j] + 1] = y[j][2]
    <3>1. \A j \in 1..1 : j = 1 /\ 2 * j - 1 = 1 /\ 2 * j = 2
      OBVIOUS
    <3> QED BY <1>5, <1>6, <1>7, <3>1
  <2> QED BY <1>6, <1>7, <2>1, <2>2 DEF Tells
<1>9. Tells(strings, u \o x, s \o y)
  BY <1>3, <1>4, <1>6, <1>8, TellsConcat
<1>10. s \o y \in Seq(Pairs) /\ Len(s \o y) = Len(m.tags) + 1 + Len(CommonTags)
  <2>1. s \o y \in Seq(Pairs) /\ Len(s \o y) = Len(s) + Len(y)
    BY <1>4, <1>6, ConcatProperties
  <2> QED BY <1>1, <1>4, <1>6, <2>1, CommonTagsType
<1>11. AllIds(strings, m) = u \o x /\ AllTags(m) = s \o y
  BY DEF AllIds, AllTags, u, x, s, y, a, b
<1> QED BY <1>1, <1>9, <1>10, <1>11

LEMMA ShortBelow ==
  ASSUME NEW n \in Nat, Short(n), NEW k \in Nat, k <= n
  PROVE  Short(k)
<1>1. High * (High * Low) \in Nat
  BY Fields
<1> QED BY <1>1 DEF Short

\* The reader finds a measurement that was written, and what follows it.
LEMMA MeasurementRead ==
  ASSUME NEW strings \in Seq(Words), Short(Len(strings)), Short(10),
         NEW m, Writable(strings, m), Short(Len(m.tags) + 1 + Len(CommonTags)),
         NEW v, NEW r \in Items
  PROVE  /\ append_measurement(strings, m) \in Items
         /\ ReadMeasurement(strings, [ok |-> TRUE, value |-> v, rest |-> append_measurement(strings, m) \o r])
              = [ok |-> TRUE, value |-> Append(v, Meaning(m)), rest |-> r]
<1> DEFINE n == Len(m.tags) + 1 + Len(CommonTags)
           tags == AllTags(m)
           told == AllIds(strings, m)
           op == op_from_tags(m.tags)
           ids == told \o <<op>>
           d == <<AppendDouble(m.value)>>
           y == d \o r
           x == AppendInts(ids) \o y
           p == AppendInt(n) \o x
<1>1. /\ Tells(strings, told, tags) /\ tags \in Seq(Pairs) /\ Len(tags) = n /\ Len(m.tags) \in Nat
  BY AllTell
<1>2. n \in Nat
  BY <1>1, CommonTagsType
<1>3. told \in Seq(Nat) /\ Len(told) = 2 * n /\ \A i \in 1..2 * n : told[i] < Len(strings)
  BY <1>1 DEF Tells
<1>4. op \in Nat /\ op <= 10
  BY DEF op_from_tags
<1>5. append_measurement(strings, m) = AppendInt(n) \o AppendInts(ids) \o d
  BY DEF append_measurement, AllIds
<1> HIDE DEF tags, told, op, n
<1>6. ids \in Seq(Nat) /\ Len(ids) = 2 * n + 1 /\ ids[2 * n + 1] = op /\ \A i \in 1..2 * n : ids[i] = told[i]
  <2>1. <<op>> \in Seq(Nat) /\ Len(<<op>>) = 1 /\ <<op>>[1] = op
    BY <1>4
  <2>2. /\ ids \in Seq(Nat) /\ Len(ids) = Len(told) + 1 /\ (\A i \in 1..Len(told) : ids[i] = told[i])
        /\ \A i \in 1..1 : ids[Len(told) + i] = <<op>>[i]
    BY <1>3, <2>1, ItemsAfter
  <2> QED BY <1>3, <2>1, <2>2
<1> HIDE DEF ids
<1>7. ASSUME NEW i \in 1..Len(ids) PROVE Short(ids[i])
  <2>1. Len(strings) \in Nat
    BY LenProperties
  <2>2. CASE i = 2 * n + 1
    BY <1>4, <1>6, <2>2, ShortBelow
  <2>3. CASE i # 2 * n + 1
    <3>1. i \in 1..2 * n
      BY <1>2, <1>6, <2>3
    <3>2. ids[i] \in Nat /\ ids[i] <= Len(strings)
      <4>1. ids[i] \in Nat
        BY <1>6, ElementOfSeq
      <4> QED BY <1>3, <1>6, <2>1, <3>1, <4>1
    <3> QED BY <2>1, <3>2, ShortBelow
  <2> QED BY <2>2, <2>3
<1>8. d \in Items /\ d[1] = <<"double", m.value>> /\ Len(d) = 1
  <2>1. <<"double", m.value>> \in Item
    BY DEF Item, Words, Writable
  <2> HIDE DEF Item
  <2> QED BY <2>1 DEF Items, SeqsOf, AppendDouble
<1> HIDE DEF d
<1>9. AppendInt(n) \in Items /\ AppendInts(ids) \in Items /\ y \in Items /\ x \in Items
  BY <1>2, <1>6, <1>8, AppendIntType, AppendIntsType, ItemsConcat
<1>10. append_measurement(strings, m) \in Items
  BY <1>5, <1>8, <1>9, ItemsConcat
<1>11. append_measurement(strings, m) \o r = p
  <2>1. AppendInt(n) \o AppendInts(ids) \in Items
    BY <1>9, ItemsConcat
  <2>2. ((AppendInt(n) \o AppendInts(ids)) \o d) \o r = (AppendInt(n) \o AppendInts(ids)) \o y
    BY <1>8, <2>1, ItemsConcat
  <2>3. (AppendInt(n) \o AppendInts(ids)) \o y = p
    BY <1>9, ItemsConcat
  <2> QED BY <1>5, <2>2, <2>3
<1>12. /\ y # <<>> /\ Head(y) = <<"double", m.value>> /\ Tail(y) = r
  <2>1. d \in Seq(Item) /\ r \in Seq(Item)
    BY <1>8 DEF Items, SeqsOf
  <2>2. /\ y \in Seq(Item) /\ Len(y) = 1 + Len(r) /\ Len(r) \in Nat /\ y[1] = d[1]
        /\ SubSeq(y, 2, Len(y)) = r
    <3>1. /\ y \in Seq(Item) /\ Len(y) = Len(d) + Len(r) /\ Len(r) \in Nat
          /\ (\A i \in 1..Len(d) : y[i] = d[i]) /\ SubSeq(y, Len(d) + 1, Len(y)) = r
      BY <2>1, ItemsAfter
    <3> HIDE DEF y
    <3> QED BY <1>8, <3>1
  <2> HIDE DEF y
  <2>3. y # <<>>
    BY <2>2
  <2>4. Tail(y) = SubSeq(y, 2, Len(y)) /\ Head(y) = y[1]
    BY <2>2, <2>3, TailIsSubSeq
  <2> QED BY <1>8, <2>2, <2>3, <2>4
<1> HIDE DEF y
<1>13. ReadInt(p) = [ok |-> TRUE, value |-> n, rest |-> x]
  BY <1>2, <1>9, IntRead DEF n
<1>14. ReadInts(2 * n + 1, x) = [ok |-> TRUE, value |-> ids, rest |-> y]
  <2>1. ReadInts(Len(ids), AppendInts(ids) \o y) = [ok |-> TRUE, value |-> ids, rest |-> y]
    BY <1>6, <1>7, <1>9, IntsRead
  <2> QED BY <1>6, <2>1
<1> HIDE DEF x, p
<1> DEFINE t == [i \in 1..n |-> <<strings[ids[2 * i - 1] + 1], strings[ids[2 * i] + 1]>>]
<1>15. t = tags
  <2>1. \A j \in 1..n : tags[j] \in Pairs /\ strings[told[2 * j - 1] + 1] = tags[j][1] /\ strings[told[2 * j] + 1] = tags[j][2]
    BY <1>1, ElementOfSeq DEF Tells
  <2>2. \A j \in 1..n : ids[2 * j - 1] = told[2 * j - 1] /\ ids[2 * j] = told[2 * j]
    BY <1>2, <1>6
  <2>3. ASSUME NEW j \in 1..n PROVE t[j] = tags[j]
    <3>1. t[j] = <<tags[j][1], tags[j][2]>>
      BY <2>1, <2>2
    <3>2. tags[j] = <<tags[j][1], tags[j][2]>>
      <4>1. tags[j] \in Words \X Words
        BY <2>1 DEF Pairs
      <4> HIDE DEF Words
      <4> QED BY <4>1
    <3> QED BY <3>1, <3>2
  <2>4. tags \in [1..n -> Pairs] /\ DOMAIN t = 1..n
    BY <1>1, LenProperties
  <2>5. t \in [1..n -> Pairs]
    BY <2>1, <2>3, <2>4
  <2> HIDE DEF t
  <2>6. t \in Seq(Pairs) /\ Len(t) = n
    BY <1>2, <2>5
  <2> QED BY <1>1, <2>3, <2>6, SeqEqual
<1> HIDE DEF t
<1> DEFINE R == [ok |-> TRUE, value |-> v, rest |-> p]
<1>16. R.rest = p /\ R.value = v
  OBVIOUS
<1> HIDE DEF R
<1>17. ReadMeasurement(strings, R)
        = [ok |-> TRUE, value |-> Append(v, [tags |-> t, op |-> ids[2 * n + 1], value |-> Head(y)[2]]), rest |-> Tail(y)]
  <2>1. ReadInt(p).ok /\ ReadInt(p).value = n /\ ReadInt(p).rest = x
    BY <1>13
  <2>2. ReadInts(2 * n + 1, x).ok /\ ReadInts(2 * n + 1, x).value = ids /\ ReadInts(2 * n + 1, x).rest = y
    BY <1>14
  <2>3. Head(y)[1] = "double"
    BY <1>12
  <2> QED BY <1>12, <1>16, <2>1, <2>2, <2>3 DEF ReadMeasurement, t
<1>18. [tags |-> t, op |-> ids[2 * n + 1], value |-> Head(y)[2]] = Meaning(m)
  <2>1. Head(y)[2] = m.value
    BY <1>12
  <2>2. t = AllTags(m) /\ ids[2 * n + 1] = op_from_tags(m.tags)
    BY <1>6, <1>15 DEF tags, op
  <2>3. Meaning(m) = [tags |-> AllTags(m), op |-> op_from_tags(m.tags), value |-> m.value]
    BY DEF Meaning, AllTags
  <2> QED BY <2>1, <2>2, <2>3
<1> QED BY <1>10, <1>11, <1>12, <1>17, <1>18 DEF R

-----------------------------------------------------------------------------
LEMMA ImageFinite ==
  ASSUME NEW tags \in Seq(Pairs), NEW c \in {1, 2}
  PROVE  IsFiniteSet({tags[i][c] : i \in DOMAIN tags})
<1> DEFINE D == DOMAIN tags
           T == {tags[i][c] : i \in D}
           f == [i \in D |-> tags[i][c]]
<1>1. IsFiniteSet(D)
  <2>1. Len(tags) \in Nat /\ D = 1..Len(tags)
    BY LenProperties
  <2> QED BY <2>1, FS_Interval
<1>2. f \in Surjection(D, T)
  BY DEF Surjection
<1> HIDE DEF D, T, f
<1>3. IsFiniteSet(T)
  BY <1>1, <1>2, FS_Surjection
<1> QED BY <1>3 DEF T, D

LEMMA StringsOfFinite ==
  ASSUME NEW tags \in Seq(Pairs)
  PROVE  /\ IsFiniteSet(StringsOf(tags)) /\ StringsOf(tags) \subseteq Words
         /\ \A j \in 1..Len(tags) : tags[j][1] \in StringsOf(tags) /\ tags[j][2] \in StringsOf(tags)
<1> DEFINE A == {tags[i][1] : i \in DOMAIN tags}
           B == {tags[i][2] : i \in DOMAIN tags}
<1>1. DOMAIN tags = 1..Len(tags) /\ \A i \in 1..Len(tags) : tags[i] \in Pairs
  BY LenProperties, ElementOfSeq
<1>2. \A i \in 1..Len(tags) : tags[i][1] \in Words /\ tags[i][2] \in Words
  <2> HIDE DEF Words
  <2> QED BY <1>1 DEF Pairs
<1>3. StringsOf(tags) = A \cup B
  BY DEF StringsOf
<1>4. IsFiniteSet(A) /\ IsFiniteSet(B)
  BY ImageFinite
<1>5. \A j \in 1..Len(tags) : tags[j][1] \in A /\ tags[j][2] \in B
  BY <1>1
<1>6. A \subseteq Words /\ B \subseteq Words
  BY <1>1, <1>2
<1> HIDE DEF A, B
<1>7. IsFiniteSet(A \cup B)
  BY <1>4, FS_Union
<1> QED BY <1>3, <1>5, <1>6, <1>7

LEMMA MeasuredType ==
  ASSUME NEW m \in Measured
  PROVE  m.name \in Words /\ m.tags \in Seq(Pairs) /\ m.value \in Int
<1>1. m \in [name : STRING, tags : TagLists, value : Int]
  BY PayloadAssumption
<1>2. m.name \in STRING /\ m.tags \in Seq(STRING \X STRING) /\ m.value \in Int
  BY <1>1 DEF TagLists
<1>3. STRING \X STRING \subseteq Pairs
  BY DEF Pairs, Words
<1>4. m.name \in Words
  BY <1>2 DEF Words
<1> HIDE DEF Pairs
<1>5. m.tags \in Seq(Pairs)
  BY <1>2, <1>3, SeqMonotonic
<1> QED BY <1>2, <1>4, <1>5

LEMMA BatchType ==
  ASSUME NEW b \in Batches
  PROVE  /\ Len(b) \in 1..MaxBatch /\ DOMAIN b = 1..Len(b)
         /\ \A j \in 1..Len(b) : b[j] \in Measured
<1>1. PICK n \in 1..MaxBatch : b \in [1..n -> Measured]
  BY DEF Batches
<1>2. n \in Nat /\ b \in Seq(Measured) /\ Len(b) = n
  BY <1>1, PayloadAssumption
<1> QED BY <1>1, <1>2

\* The strings of a batch can be counted.
LEMMA StringsFinite ==
  ASSUME NEW b \in Batches
  PROVE  /\ IsFiniteSet(Strings(b)) /\ Strings(b) \subseteq Words
         /\ Cardinality(Strings(b)) \in Nat \ {0}
         /\ "name" \in Strings(b)
         /\ \A j \in 1..Len(CommonTags) : CommonTags[j][1] \in Strings(b) /\ CommonTags[j][2] \in Strings(b)
         /\ \A i \in 1..Len(b) :
              /\ b[i].name \in Strings(b)
              /\ \A j \in 1..Len(b[i].tags) : b[i].tags[j][1] \in Strings(b) /\ b[i].tags[j][2] \in Strings(b)
<1> DEFINE D == DOMAIN b
           g == [j \in D |-> {b[j].name} \cup StringsOf(b[j].tags)]
           S == {{b[j].name} \cup StringsOf(b[j].tags) : j \in D}
           C == StringsOf(CommonTags)
<1>1. Len(b) \in Nat /\ D = 1..Len(b) /\ \A j \in D : b[j].name \in Words /\ b[j].tags \in Seq(Pairs)
  BY BatchType, MeasuredType
<1>2. IsFiniteSet(D)
  BY <1>1, FS_Interval
<1>3. IsFiniteSet(S)
  <2>1. g \in Surjection(D, S)
    BY DEF Surjection
  <2> HIDE DEF g, S, D
  <2> QED BY <1>2, <2>1, FS_Surjection
<1>4. ASSUME NEW j \in D
      PROVE  /\ IsFiniteSet({b[j].name} \cup StringsOf(b[j].tags))
             /\ {b[j].name} \cup StringsOf(b[j].tags) \subseteq Words
  <2>1. IsFiniteSet(StringsOf(b[j].tags)) /\ StringsOf(b[j].tags) \subseteq Words /\ b[j].name \in Words
    BY <1>1, StringsOfFinite
  <2>2. IsFiniteSet({b[j].name})
    BY FS_Singleton
  <2>3. IsFiniteSet({b[j].name} \cup StringsOf(b[j].tags))
    BY <2>1, <2>2, FS_Union
  <2> QED BY <2>1, <2>3
<1>5. IsFiniteSet(UNION S) /\ UNION S \subseteq Words
  <2>1. \A T \in S : IsFiniteSet(T) /\ T \subseteq Words
    BY <1>4
  <2> HIDE DEF S
  <2>2. IsFiniteSet(UNION S)
    BY <1>3, <2>1, FS_UNION
  <2> QED BY <2>1, <2>2
<1>6. IsFiniteSet(C) /\ C \subseteq Words
      /\ \A j \in 1..Len(CommonTags) : CommonTags[j][1] \in C /\ CommonTags[j][2] \in C
  BY CommonTagsType, StringsOfFinite
<1>7. Strings(b) = (C \cup {"name"}) \cup UNION S
  BY DEF Strings
<1>8. \A i \in 1..Len(b) :
        /\ b[i].name \in UNION S
        /\ \A j \in 1..Len(b[i].tags) : b[i].tags[j][1] \in UNION S /\ b[i].tags[j][2] \in UNION S
  <2> TAKE i \in 1..Len(b)
  <2>1. i \in D /\ b[i].tags \in Seq(Pairs)
    BY <1>1
  <2>2. {b[i].name} \cup StringsOf(b[i].tags) \in S
    BY <2>1
  <2>3. \A j \in 1..Len(b[i].tags) : b[i].tags[j][1] \in StringsOf(b[i].tags) /\ b[i].tags[j][2] \in StringsOf(b[i].tags)
    BY <2>1, StringsOfFinite
  <2> HIDE DEF S, D
  <2> QED BY <2>2, <2>3
<1> HIDE DEF S, C, D, g
<1>9. IsFiniteSet({"name"}) /\ "name" \in Words
  BY FS_Singleton DEF Words
<1>10. IsFiniteSet(C \cup {"name"})
  BY <1>6, <1>9, FS_Union
<1>11. IsFiniteSet(Strings(b))
  <2> DEFINE X == C \cup {"name"}
             Y == UNION S
  <2>1. IsFiniteSet(X) /\ IsFiniteSet(Y) /\ Strings(b) = X \cup Y
    BY <1>5, <1>7, <1>10
  <2> HIDE DEF X, Y
  <2>2. IsFiniteSet(X \cup Y)
    BY <2>1, FS_Union
  <2> QED BY <2>1, <2>2
<1>12. Cardinality(Strings(b)) \in Nat /\ Cardinality(Strings(b)) # 0
  <2>1. Strings(b) # {}
    BY <1>7
  <2> QED BY <1>11, <2>1, FS_CardinalityType, FS_EmptySet
<1>13. "name" \in Strings(b) /\ Strings(b) \subseteq Words
  BY <1>5, <1>6, <1>7, <1>9
<1>14. UNION S \subseteq Strings(b) /\ C \subseteq Strings(b)
  BY <1>7
<1> QED BY <1>6, <1>8, <1>11, <1>12, <1>13, <1>14

-----------------------------------------------------------------------------
\* The numbers that occur are short: with the widths of the code, a batch has fewer
\* than 2^19 strings and a measurement fewer tags than that.
SmallBatches ==
  /\ Short(10)
  /\ \A m \in Measured : Short(Len(m.tags) + 1 + Len(CommonTags))
  /\ \A b \in Batches : Short(Cardinality(Strings(b)))

\* What build_str_table makes of the strings of a batch.
TableOf(strings, b) ==
  /\ strings \in [1..Cardinality(Strings(b)) -> Strings(b)]
  /\ \A s \in Strings(b) : \E i \in DOMAIN strings : strings[i] = s

TableItems(strings) == [i \in DOMAIN strings |-> AppendString(strings[i])]

Meanings(b, n) == [j \in 1..n |-> Meaning(b[j])]

\* A reader of w finds the first n measurements of b, whatever follows.
ReadsFirst(w, strings, b, n) ==
  \A r \in Items : ReadMeasurements(n, strings, w \o r) = [ok |-> TRUE, value |-> Meanings(b, n), rest |-> r]

\* The inductive invariant: behind the table are the measurements before next.
PayloadInv ==
  /\ batch \in Batches
  /\ next \in 1..Len(batch) + 1
  /\ table = <<>> => next = 1 /\ payload = <<>>
  /\ table # <<>> =>
       /\ TableOf(table, batch)
       /\ \E w \in Items : /\ payload = (AppendInt(Len(table)) \o TableItems(table)) \o w
                           /\ ReadsFirst(w, table, batch, next - 1)

LEMMA TableType ==
  ASSUME NEW b \in Batches, NEW strings, TableOf(strings, b)
  PROVE  /\ strings \in Seq(Words) /\ Len(strings) = Cardinality(Strings(b)) /\ strings # <<>>
         /\ Len(strings) \in Nat /\ DOMAIN strings = 1..Len(strings)
         /\ TableItems(strings) \in Items /\ Len(TableItems(strings)) = Len(strings)
         /\ \A i \in 1..Len(strings) : TableItems(strings)[i][2] = strings[i]
         /\ \A i \in 1..Len(b) : Writable(strings, b[i])
<1> DEFINE n == Cardinality(Strings(b))
           t == TableItems(strings)
<1>1. n \in Nat /\ n # 0 /\ Strings(b) \subseteq Words
  BY StringsFinite
<1> HIDE DEF n
<1>2. strings \in [1..n -> Words]
  BY <1>1 DEF TableOf, n
<1>3. strings \in Seq(Words) /\ Len(strings) = n /\ DOMAIN strings = 1..n
  BY <1>1, <1>2
<1>4. strings # <<>>
  BY <1>1, <1>3
<1>5. \A i \in 1..n : <<"string", strings[i]>> \in Item
  <2>1. "string" \in Words
    BY DEF Words
  <2> HIDE DEF Words
  <2> QED BY <1>2, <2>1 DEF Item
<1>6. t = [i \in 1..n |-> <<"string", strings[i]>>]
  BY <1>3 DEF TableItems, AppendString
<1>7. t \in [1..n -> Item] /\ \A i \in 1..n : t[i][2] = strings[i]
  BY <1>5, <1>6
<1> HIDE DEF t
<1>8. t \in Items /\ Len(t) = n
  BY <1>1, <1>7 DEF Items, SeqsOf
<1>9. \A s \in Strings(b) : Holds(strings, s)
  BY <1>3 DEF TableOf, Holds
<1>10. ASSUME NEW i \in 1..Len(b) PROVE Writable(strings, b[i])
  <2>1. b[i].name \in Words /\ b[i].tags \in Seq(Pairs) /\ b[i].value \in Int
    BY BatchType, MeasuredType
  <2>2. Holds(strings, "name") /\ Holds(strings, b[i].name)
    BY <1>9, StringsFinite
  <2>3. \A j \in 1..Len(b[i].tags) : Holds(strings, b[i].tags[j][1]) /\ Holds(strings, b[i].tags[j][2])
    BY <1>9, StringsFinite
  <2>4. \A j \in 1..Len(CommonTags) : Holds(strings, CommonTags[j][1]) /\ Holds(strings, CommonTags[j][2])
    BY <1>9, StringsFinite
  <2> QED BY <2>1, <2>2, <2>3, <2>4 DEF Writable
<1> QED BY <1>1, <1>3, <1>4, <1>7, <1>8, <1>10 DEF t, n

LEMMA PayloadStarts == PayloadInit => PayloadInv
<1> SUFFICES ASSUME PayloadInit PROVE PayloadInv
  OBVIOUS
<1>1. batch \in Batches /\ next = 1 /\ table = <<>> /\ payload = <<>>
  BY DEF PayloadInit
<1>2. Len(batch) \in Nat
  BY <1>1, BatchType, PayloadAssumption
<1> QED BY <1>1, <1>2 DEF PayloadInv

LEMMA TableKeeps == PayloadInv /\ build_str_table => PayloadInv'
<1> SUFFICES ASSUME PayloadInv, build_str_table PROVE PayloadInv'
  OBVIOUS
<1>1. batch \in Batches /\ next = 1 /\ batch' = batch /\ next' = next
  BY DEF PayloadInv, build_str_table
<1>2. TableOf(table', batch) /\ payload' = AppendInt(Len(table')) \o TableItems(table')
  BY DEF build_str_table, TableOf, TableItems
<1>3. table' # <<>> /\ Len(table') \in Nat /\ TableItems(table') \in Items
  BY <1>1, <1>2, TableType
<1>4. payload' = (AppendInt(Len(table')) \o TableItems(table')) \o <<>> /\ <<>> \in Items
  BY <1>2, <1>3, AppendIntType, ItemsConcat
<1>5. ReadsFirst(<<>>, table', batch, 0)
  <2> SUFFICES ASSUME NEW r \in Items
               PROVE  ReadMeasurements(0, table', <<>> \o r) = [ok |-> TRUE, value |-> Meanings(batch, 0), rest |-> r]
    BY DEF ReadsFirst
  <2>1. <<>> \o r = r
    BY ItemsConcat
  <2>2. ReadMeasurements(0, table', r) = Begun(r)
    BY ReadRecursion
  <2>3. Meanings(batch, 0) = <<>>
    BY DEF Meanings
  <2> QED BY <2>1, <2>2, <2>3 DEF Begun
<1>6. next' \in 1..Len(batch') + 1 /\ next' - 1 = 0
  BY <1>1 DEF PayloadInv
<1> QED BY <1>1, <1>2, <1>3, <1>4, <1>5, <1>6 DEF PayloadInv

LEMMA MeasurementKeeps == ASSUME SmallBatches PROVE PayloadInv /\ AppendNext => PayloadInv'
<1> SUFFICES ASSUME PayloadInv, AppendNext PROVE PayloadInv'
  OBVIOUS
<1> DEFINE m == batch[next]
           e == append_measurement(table, m)
           n == next - 1
<1>1. /\ batch \in Batches /\ batch' = batch /\ table # <<>> /\ table' = table /\ TableOf(table, batch)
      /\ next' = next + 1 /\ next <= Len(batch) /\ payload' = payload \o e
  BY DEF PayloadInv, AppendNext
<1>2. Len(batch) \in Nat /\ next \in 1..Len(batch) /\ n \in Nat /\ m \in Measured
  BY <1>1, BatchType, PayloadAssumption DEF PayloadInv
<1>3. PICK w \in Items : /\ payload = (AppendInt(Len(table)) \o TableItems(table)) \o w
                         /\ ReadsFirst(w, table, batch, n)
  BY <1>1 DEF PayloadInv
<1>4. /\ table \in Seq(Words) /\ Len(table) \in Nat /\ Short(Len(table)) /\ TableItems(table) \in Items
      /\ Writable(table, m)
  BY <1>1, <1>2, TableType DEF SmallBatches
<1>5. Short(10) /\ Short(Len(m.tags) + 1 + Len(CommonTags))
  BY <1>2 DEF SmallBatches
<1> HIDE DEF m
<1>6. e \in Items
  BY <1>4, <1>5, ItemsConcat, MeasurementRead
<1> DEFINE h == AppendInt(Len(table)) \o TableItems(table)
           v == w \o e
<1>7. h \in Items /\ v \in Items
  BY <1>3, <1>4, <1>6, AppendIntType, ItemsConcat
<1>8. payload' = h \o v
  BY <1>1, <1>3, <1>6, <1>7, ItemsConcat
<1>9. Append(Meanings(batch, n), Meaning(m)) = Meanings(batch, n + 1)
  <2> DEFINE a == Meanings(batch, n)
             b == Meanings(batch, n + 1)
             M == {Meaning(batch[j]) : j \in 1..n + 1}
             x == Meaning(m)
  <2>1. n + 1 = next /\ n + 1 \in Nat /\ x = Meaning(batch[n + 1])
    BY <1>2 DEF m
  <2>2. /\ a = [j \in 1..n |-> Meaning(batch[j])] /\ b = [j \in 1..n + 1 |-> Meaning(batch[j])]
    BY DEF Meanings
  <2>3. a \in [1..n -> M] /\ b \in [1..n + 1 -> M] /\ x \in M
        /\ (\A j \in 1..n : a[j] = b[j]) /\ b[n + 1] = x
    BY <1>2, <2>1, <2>2
  <2> HIDE DEF a, b, M, x, n
  <2>4. a \in Seq(M) /\ Len(a) = n /\ b \in Seq(M) /\ Len(b) = n + 1
    BY <1>2, <2>1, <2>3
  <2>5. Append(a, x) \in Seq(M) /\ Len(Append(a, x)) = n + 1 /\ Append(a, x)[n + 1] = x
        /\ \A j \in 1..n : Append(a, x)[j] = a[j]
    BY <2>3, <2>4, AppendProperties
  <2>6. ASSUME NEW j \in 1..n + 1 PROVE Append(a, x)[j] = b[j]
    <3>1. j = n + 1 \/ j \in 1..n
      BY <1>2
    <3> QED BY <2>3, <2>5, <3>1
  <2>7. Append(a, x) = b
    BY <2>4, <2>5, <2>6, SeqEqual
  <2> QED BY <2>7 DEF a, b, x
<1>10. ReadsFirst(v, table, batch, n + 1)
  <2> SUFFICES ASSUME NEW r \in Items
               PROVE  ReadMeasurements(n + 1, table, v \o r)
                        = [ok |-> TRUE, value |-> Meanings(batch, n + 1), rest |-> r]
    BY DEF ReadsFirst
  <2>1. e \o r \in Items /\ v \o r = w \o (e \o r)
    BY <1>6, ItemsConcat
  <2>2. ReadMeasurements(n, table, v \o r) = [ok |-> TRUE, value |-> Meanings(batch, n), rest |-> e \o r]
    BY <1>3, <2>1 DEF ReadsFirst
  <2>3. ReadMeasurements(n + 1, table, v \o r) = ReadMeasurement(table, ReadMeasurements(n, table, v \o r))
    BY <1>2, ReadRecursion
  <2>4. ReadMeasurement(table, [ok |-> TRUE, value |-> Meanings(batch, n), rest |-> e \o r])
          = [ok |-> TRUE, value |-> Append(Meanings(batch, n), Meaning(m)), rest |-> r]
    BY <1>4, <1>5, MeasurementRead
  <2> QED BY <1>9, <2>2, <2>3, <2>4
<1>11. next' - 1 = n + 1 /\ next' \in 1..Len(batch') + 1
  BY <1>1, <1>2
<1> QED BY <1>1, <1>7, <1>8, <1>10, <1>11 DEF PayloadInv

LEMMA PayloadInductive == ASSUME SmallBatches PROVE PayloadInv /\ [PayloadNext]_payloadVars => PayloadInv'
<1> SUFFICES ASSUME PayloadInv, [PayloadNext]_payloadVars PROVE PayloadInv'
  OBVIOUS
<1>1. CASE build_str_table
  BY <1>1, TableKeeps
<1>2. CASE AppendNext
  BY <1>2, MeasurementKeeps
<1>3. CASE PayloadDone \/ UNCHANGED payloadVars
  <2>1. batch' = batch /\ next' = next /\ table' = table /\ payload' = payload
    BY <1>3 DEF PayloadDone, payloadVars
  <2> QED BY <2>1 DEF PayloadInv
<1> QED BY <1>1, <1>2, <1>3 DEF PayloadNext

LEMMA PayloadRead == ASSUME SmallBatches PROVE PayloadInv => PayloadDecodes
<1> SUFFICES ASSUME PayloadInv, next > Len(batch)
             PROVE  ReadPayload(Len(batch), payload)
                      = [ok |-> TRUE, value |-> [j \in DOMAIN batch |-> Meaning(batch[j])], rest |-> <<>>]
  BY DEF PayloadDecodes
<1> DEFINE n == Len(batch)
           k == Len(table)
           t == TableItems(table)
<1>1. batch \in Batches /\ n \in Nat \ {0} /\ DOMAIN batch = 1..n
  BY BatchType, PayloadAssumption DEF PayloadInv
<1>2. next - 1 = n /\ next # 1
  BY <1>1 DEF PayloadInv
<1>3. table # <<>> /\ TableOf(table, batch)
  BY <1>2 DEF PayloadInv
<1>4. PICK w \in Items : payload = (AppendInt(k) \o t) \o w /\ ReadsFirst(w, table, batch, n)
  BY <1>2, <1>3 DEF PayloadInv
<1>5. /\ table \in Seq(Words) /\ k \in Nat /\ DOMAIN table = 1..k /\ Short(k)
      /\ t \in Items /\ Len(t) = k /\ \A i \in 1..k : t[i][2] = table[i]
  BY <1>1, <1>3, TableType DEF SmallBatches
<1> HIDE DEF t, k
<1> DEFINE q == t \o w
<1>6. q \in Items /\ payload = AppendInt(k) \o q
  <2>1. AppendInt(k) \in Items
    BY <1>5, AppendIntType
  <2>2. (AppendInt(k) \o t) \o w = AppendInt(k) \o (t \o w)
    BY <1>5, <2>1, ItemsConcat
  <2> QED BY <1>4, <1>5, <2>2, ItemsConcat
<1>7. (\A i \in 1..k : q[i] = t[i]) /\ SubSeq(q, k + 1, Len(q)) = w
  <2>1. t \in Seq(Item) /\ w \in Seq(Item)
    BY <1>5 DEF Items, SeqsOf
  <2>2. (\A i \in 1..Len(t) : q[i] = t[i]) /\ SubSeq(q, Len(t) + 1, Len(q)) = w
    BY <2>1, ItemsAfter
  <2> QED BY <1>5, <2>2
<1> HIDE DEF q
<1>8. ReadInt(payload) = [ok |-> TRUE, value |-> k, rest |-> q]
  BY <1>5, <1>6, IntRead
<1> DEFINE strings == [i \in 1..k |-> q[i][2]]
<1>9. strings = table
  <2>1. \A i \in 1..k : q[i][2] = table[i]
    BY <1>5, <1>7
  <2>2. table = [i \in 1..k |-> table[i]]
    BY <1>5
  <2> QED BY <2>1, <2>2
<1> HIDE DEF strings
<1>10. ReadPayload(n, payload) = ReadMeasurements(n, strings, SubSeq(q, k + 1, Len(q)))
  <2>1. ReadInt(payload).value = k /\ ReadInt(payload).rest = q
    BY <1>8
  <2> QED BY <2>1 DEF ReadPayload, strings
<1>11. ReadMeasurements(n, table, w \o <<>>) = [ok |-> TRUE, value |-> Meanings(batch, n), rest |-> <<>>]
  BY <1>4, ItemsConcat DEF ReadsFirst
<1>12. w \o <<>> = w
  BY ItemsConcat
<1>13. Meanings(batch, n) = [j \in DOMAIN batch |-> Meaning(batch[j])]
  BY <1>1 DEF Meanings
<1> QED BY <1>7, <1>9, <1>10, <1>11, <1>12, <1>13

\* Types: the table numbers every string once, and no more measurements are written
\* than there are.
THEOREM PayloadTypes == PayloadSpec => []PayloadTypeOK
<1> DEFINE Shape == /\ batch \in Batches /\ next \in 1..Len(batch) + 1
                    /\ table # <<>> => TableOf(table, batch)
<1>1. PayloadInit => Shape
  BY PayloadStarts DEF PayloadInv
<1>2. Shape /\ [PayloadNext]_payloadVars => Shape'
  <2> SUFFICES ASSUME Shape, [PayloadNext]_payloadVars PROVE Shape'
    OBVIOUS
  <2>1. CASE build_str_table
    <3>1. TableOf(table', batch) /\ batch' = batch /\ next' = next
      BY <2>1 DEF build_str_table, TableOf
    <3> QED BY <3>1
  <2>2. CASE AppendNext
    <3>1. Len(batch) \in Nat
      BY BatchType, PayloadAssumption
    <3>2. batch' = batch /\ table' = table /\ next' = next + 1 /\ next <= Len(batch)
      BY <2>2 DEF AppendNext
    <3> QED BY <3>1, <3>2
  <2>3. CASE PayloadDone \/ UNCHANGED payloadVars
    BY <2>3 DEF PayloadDone, payloadVars
  <2> QED BY <2>1, <2>2, <2>3 DEF PayloadNext
<1>3. Shape => PayloadTypeOK
  <2> SUFFICES ASSUME Shape PROVE PayloadTypeOK
    OBVIOUS
  <2> DEFINE T == {table[i] : i \in DOMAIN table}
  <2>1. Len(batch) \in 1..MaxBatch
    BY BatchType
  <2>2. next \in 1..MaxBatch + 1
    BY <2>1, PayloadAssumption
  <2>3. CASE table = <<>>
    <3>1. T = {} /\ Len(table) = 0
      BY <2>3
    <3> QED BY <2>2, <3>1, FS_EmptySet DEF PayloadTypeOK
  <2>4. CASE table # <<>>
    <3>1. T = Strings(batch)
      BY <2>4 DEF TableOf
    <3>2. Len(table) = Cardinality(Strings(batch))
      BY <2>4, TableType
    <3> QED BY <2>2, <3>1, <3>2 DEF PayloadTypeOK
  <2> QED BY <2>3, <2>4
<1>4. QED
  BY <1>1, <1>2, <1>3, PTL DEF PayloadSpec

\* Every payload that measurements_to_json writes is read back as its batch, for any
\* measurements and common tags, any number of them and any order of the table.
THEOREM PayloadReadable == ASSUME SmallBatches PROVE PayloadSpec => []PayloadDecodes
  BY PayloadStarts, PayloadInductive, PayloadRead, PTL DEF PayloadSpec
=============================================================================
