---------------------------- MODULE ServerProofs ----------------------------
(***************************************************************************)
(* The two threads of the server for all ids, datagrams and times that     *)
(* satisfy ServerAssumption: Stop is answered in time, no cache entry is   *)
(* freed while it is used, and the expirer of the registry comes after     *)
(* that of the cache.  Every line of a datagram is applied or counted as   *)
(* an error, once and in order.  And the texts that name a meter, of every *)
(* length: the parsers of lines, of statsd tags and of ids agree.          *)
(***************************************************************************)
EXTENDS Server, LineProtocol, TotalsProofs

-----------------------------------------------------------------------------
\* Stop

\* The upkeep thread exists from Start on, it ends only when told to, and while
\* Stop waits for it no more time has passed than since its loop began.
UpkeepInv ==
  /\ phase \in {"new", "running", "joining", "returned", "terminated"}
  /\ upkeep \in {"none", "check", "ds", "timers", "sleep", "ended"}
  /\ should_stop \in BOOLEAN
  /\ upkeep = "none" <=> phase \in {"new", "terminated"}
  /\ should_stop <=> phase \in {"joining", "returned"}
  /\ upkeep = "ended" => should_stop
  /\ upAge \in Nat /\ upAge <= Frequency + MaxStall
  /\ stopAge \in Nat /\ stopAge <= Frequency + MaxStall
  /\ ~should_stop => stopAge = 0
  /\ should_stop /\ upkeep # "ended" => stopAge <= upAge

\* Frequency and MaxStall are times.
LEMMA Times == /\ ExpireAfter \in Nat /\ Frequency \in Nat /\ MeterTtl \in Nat /\ MaxStall \in Nat
               /\ MaxStall <= ExpireAfter
               /\ MeterTtl >= ExpireAfter + 2 * (Frequency + MaxStall)
  BY ServerAssumption

\* What the io thread does leaves the upkeep thread and Stop alone.
LEMMA IoLeavesUpkeep ==
  ASSUME \/ \E ls \in Datagrams : Receive(ls)
         \/ start_receive \/ LineFails \/ LineElsewhere \/ LineDirect \/ LineCached
         \/ Record \/ RecordReturns \/ \E i \in Ids : ExpireMeter(i)
  PROVE  UNCHANGED <<phase, upkeepVars>>
  BY DEF Receive, start_receive, LineFails, LineElsewhere, LineDirect, LineCached, Record,
         RecordReturns, ExpireMeter

\* The upkeep thread keeps its place in the loop of the server.
LEMMA UpkeepInvariant == ServerSpec => []UpkeepInv
<1>1. ServerInit => UpkeepInv
  <2> SUFFICES ASSUME ServerInit PROVE UpkeepInv
    OBVIOUS
  <2>1. phase = "new" /\ upkeep = "none" /\ upAge = 0 /\ stopAge = 0
    BY DEF ServerInit
  <2>2. should_stop \in BOOLEAN /\ ~should_stop
    BY DEF ServerInit
  <2> QED BY <2>1, <2>2, Times DEF UpkeepInv
<1>2. UpkeepInv /\ [ServerNext]_serverVars => UpkeepInv'
  <2> SUFFICES ASSUME UpkeepInv, [ServerNext]_serverVars PROVE UpkeepInv'
    OBVIOUS
  <2> USE DEF UpkeepInv, upkeepVars
  <2>1. CASE Start
    BY <2>1, Times DEF Start
  <2>2. CASE StartFails
    BY <2>2 DEF StartFails
  <2>3. CASE Stop
    BY <2>3 DEF Stop
  <2>4. CASE Join
    BY <2>4 DEF Join
  <2>5. CASE \/ \E ls \in Datagrams : Receive(ls)
             \/ start_receive \/ LineFails \/ LineElsewhere \/ LineDirect \/ LineCached
             \/ Record \/ RecordReturns \/ \E i \in Ids : ExpireMeter(i)
    BY <2>5, IoLeavesUpkeep
  <2>6. CASE UpkeepCheck
    BY <2>6, Times DEF UpkeepCheck
  <2>7. CASE UpkeepSummaries \/ UpkeepTimers \/ UpkeepWake
    BY <2>7 DEF UpkeepSummaries, UpkeepTimers, UpkeepWake
  <2>8. CASE Tick
    <3>1. phase' = phase /\ upkeep' = upkeep /\ should_stop' = should_stop
      BY <2>8 DEF Tick
    <3>2. upAge' = upAge + 1 /\ upAge < Frequency + MaxStall
      BY <2>8, Times DEF Tick
    <3>3. stopAge' = IF phase = "joining" THEN stopAge + 1 ELSE stopAge
      BY <2>8 DEF Tick
    <3>4. phase \in {"running", "joining"} /\ (phase = "joining" => upkeep # "ended")
      BY <2>8 DEF Tick
    <3> QED BY <3>1, <3>2, <3>3, <3>4, Times
  <2>9. CASE Stopped \/ UNCHANGED serverVars
    BY <2>9 DEF Stopped, serverVars
  <2> QED BY <2>1, <2>2, <2>3, <2>4, <2>5, <2>6, <2>7, <2>8, <2>9 DEF ServerNext
<1> QED BY <1>1, <1>2, PTL DEF ServerSpec

\* Stop of the server (spectatord.cc) returns within one period of the upkeep thread
\* and a stall, for every period and every stall, though its notification may be
\* lost.
THEOREM StopInTime == ServerSpec => []StopBounded
<1>1. UpkeepInv => StopBounded
  BY DEF UpkeepInv, StopBounded
<1> QED BY <1>1, UpkeepInvariant, PTL

-----------------------------------------------------------------------------
\* Types

AnyLine == Line \cup StatsdLine

CacheEntry == [age : 0..ExpireAfter + 1, own : BOOLEAN, fed : BOOLEAN, present : BOOLEAN]
Held == [id : Ids, cached : BOOLEAN, freed : BOOLEAN, own : BOOLEAN]

IoTyped ==
  /\ io \in {"idle", "parse", "record", "count", "reply"}
  /\ rest \in Seq(AnyLine)
  /\ rest = <<>> <=> io \in {"idle", "reply"}
  /\ ioAge \in Nat /\ ioAge <= MaxStall
  /\ parsed \in Nat /\ failed \in Nat

HeapTyped ==
  /\ held \in Held
  /\ cache \in [Ids -> CacheEntry]
  /\ meter \in [Ids -> 0..MeterTtl + 2]

\* The lines that are left after one are lines.
LEMMA NextLinesAreLines ==
  ASSUME NEW ls \in Seq(AnyLine), ls # <<>>
  PROVE  NextLines(ls) \in Seq(AnyLine)
<1> DEFINE empty(l) == ~IsStatsd(l) /\ l.type = ""
           skipped == {n \in 2..Len(ls) : \A j \in 2..n : empty(ls[j])}
           k == Cardinality(skipped)
<1>1. Len(ls) \in Nat /\ Len(ls) > 0
  BY EmptySeq
<1>2. skipped \subseteq 2..Len(ls)
  OBVIOUS
<1>3. k \in Nat
  <2> HIDE DEF skipped
  <2>1. IsFiniteSet(2..Len(ls))
    BY <1>1, FS_Interval
  <2> QED BY <1>2, <2>1, FS_Subset, FS_CardinalityType
<1>4. \A i \in (2 + k)..Len(ls) : ls[i] \in AnyLine
  <2> HIDE DEF k
  <2> QED BY <1>1, <1>3
<1>5. NextLines(ls) = SubSeq(ls, 2 + k, Len(ls))
  BY DEF NextLines
<1> HIDE DEF k
<1> QED BY <1>1, <1>3, <1>4, <1>5, SubSeqProperties

\* The line that is being handled is about one of the ids.
LEMMA HeadHasId ==
  ASSUME NEW ls \in Seq(AnyLine), ls # <<>>
  PROVE  Head(ls).id \in Ids
<1>1. Head(ls) \in AnyLine
  BY HeadTailProperties
<1> QED BY <1>1 DEF AnyLine, Line, StatsdLine

\* The io thread and what it works on keep their types.
LEMMA IoTypes == ServerSpec => [](IoTyped /\ HeapTyped)
<1>1. ServerInit => IoTyped /\ HeapTyped
  <2> SUFFICES ASSUME ServerInit PROVE IoTyped /\ HeapTyped
    OBVIOUS
  <2>1. IoTyped
    BY Times DEF ServerInit, IoTyped
  <2>2. HoldsNothing \in Held
    BY ServerAssumption DEF HoldsNothing, Held
  <2>3. NoEntry \in CacheEntry
    BY Times DEF NoEntry, CacheEntry
  <2> QED BY <2>1, <2>2, <2>3, Times DEF ServerInit, HeapTyped, Absent
<1>2. IoTyped /\ HeapTyped /\ [ServerNext]_serverVars => IoTyped' /\ HeapTyped'
  <2> SUFFICES ASSUME IoTyped, HeapTyped, [ServerNext]_serverVars PROVE IoTyped' /\ HeapTyped'
    OBVIOUS
  <2>0. /\ HoldsNothing \in Held
        /\ NoEntry \in CacheEntry
        /\ \A b \in BOOLEAN : Entry(b) \in CacheEntry
        /\ \A i \in Ids, c \in BOOLEAN, b \in BOOLEAN : Holding(i, c, b) \in Held
        /\ Absent \in 0..MeterTtl + 2
        /\ TRUE \in BOOLEAN /\ FALSE \in BOOLEAN
    BY ServerAssumption, Times DEF HoldsNothing, Held, NoEntry, CacheEntry, Entry, Holding, Absent
  <2>a. io \notin {"idle", "reply"} => NextLines(rest) \in Seq(AnyLine) /\ Head(rest).id \in Ids
    BY NextLinesAreLines, HeadHasId DEF IoTyped
  <2>b. \A i \in Ids : /\ cache[i] \in CacheEntry /\ cache[i].own \in BOOLEAN
                       /\ meter[i] \in 0..MeterTtl + 2
    BY DEF HeapTyped, CacheEntry
  <2>c. ASSUME NEW i \in Ids, GetMeter(i) PROVE meter' \in [Ids -> 0..MeterTtl + 2]
    <3>1. 0 \in 0..MeterTtl + 2
      BY Times
    <3> HIDE DEF Absent
    <3> QED BY <2>c, <3>1 DEF GetMeter, HeapTyped
  <2>1. CASE Start \/ StartFails \/ Stop \/ Join \/ UpkeepCheck \/ UpkeepWake
    BY <2>1 DEF Start, StartFails, Stop, Join, UpkeepCheck, UpkeepWake, ioVars, IoTyped, HeapTyped
  <2>2. ASSUME NEW ls \in Datagrams, Receive(ls) PROVE IoTyped' /\ HeapTyped'
    <3>1. ls \in Seq(AnyLine) /\ ls # <<>>
      BY ServerAssumption DEF AnyLine
    <3> QED BY <2>2, <3>1 DEF Receive, IoTyped, HeapTyped
  <2>3. CASE start_receive
    BY <2>3, Times DEF start_receive, IoTyped, HeapTyped
  <2>4. CASE LineFails
    BY <2>4, <2>a DEF LineFails, LineDone, IoTyped, HeapTyped
  <2>5. CASE LineElsewhere
    BY <2>5, <2>a, <2>0, Times DEF LineElsewhere, Counted, LineDone, IoTyped, HeapTyped
  <2>6. CASE LineDirect
    <3>1. HeapTyped'
      <4>1. Head(rest).id \in Ids
        BY <2>6, <2>a DEF LineDirect
      <4>2. meter' \in [Ids -> 0..MeterTtl + 2]
        BY <2>6, <4>1, <2>c DEF LineDirect
      <4>3. held' \in Held
        BY <2>6, <4>1, <2>0 DEF LineDirect
      <4> QED BY <2>6, <4>2, <4>3 DEF LineDirect, HeapTyped
    <3> QED BY <2>6, <3>1, Times DEF LineDirect, IoTyped
  <2>7. CASE LineCached
    <3>1. HeapTyped'
      <4> DEFINE i == Head(rest).id
      <4>1. i \in Ids /\ get_or_create(i)
        BY <2>7, <2>a DEF LineCached, IoTyped
      <4> HIDE DEF i
      <4>2. meter' \in [Ids -> 0..MeterTtl + 2]
        BY <4>1, <2>c DEF get_or_create, HeapTyped
      <4>3. cache' \in [Ids -> CacheEntry]
        BY <4>1, <2>0, <2>b DEF get_or_create, HeapTyped
      <4>4. held' \in Held
        BY <4>1, <2>0, <2>b DEF get_or_create
      <4> QED BY <4>2, <4>3, <4>4 DEF HeapTyped
    <3> QED BY <2>7, <3>1, Times DEF LineCached, IoTyped
  <2>8. CASE Record
    <3>1. held.id \in Ids /\ [cache[held.id] EXCEPT !.fed = TRUE] \in CacheEntry
      BY <2>b DEF HeapTyped, Held, CacheEntry
    <3>2. HeapTyped'
      BY <2>8, <3>1, Times DEF Record, HeapTyped
    <3> QED BY <2>8, <3>2 DEF Record, IoTyped
  <2>9. CASE RecordReturns
    BY <2>9, <2>a, <2>0, Times DEF RecordReturns, Counted, LineDone, IoTyped, HeapTyped
  <2>10. CASE UpkeepSummaries \/ UpkeepTimers
    <3>1. PICK t \in {"T", "D"} : expire(t)
      BY <2>10 DEF UpkeepSummaries, UpkeepTimers
    <3>2. [held EXCEPT !.freed = TRUE] \in Held
      BY DEF HeapTyped, Held
    <3>3. held' \in Held /\ cache' \in [Ids -> CacheEntry]
      BY <3>1, <3>2, <2>0 DEF expire, HeapTyped
    <3> QED BY <2>10, <3>3 DEF UpkeepSummaries, UpkeepTimers, IoTyped, HeapTyped
  <2>11. ASSUME NEW i \in Ids, ExpireMeter(i) PROVE IoTyped' /\ HeapTyped'
    <3>1. [held EXCEPT !.own = FALSE] \in Held /\ [cache[i] EXCEPT !.own = FALSE] \in CacheEntry
      BY <2>b DEF HeapTyped, Held, CacheEntry
    <3>2. HeapTyped'
      BY <2>11, <3>1, <2>0 DEF ExpireMeter, HeapTyped
    <3> QED BY <2>11, <3>2 DEF ExpireMeter, IoTyped
  <2>12. CASE Tick
    <3>1. \A i \in Ids : [cache[i] EXCEPT !.age = Older(@, ExpireAfter + 1)] \in CacheEntry
      BY <2>b, Times DEF CacheEntry, Older
    <3>2. \A i \in Ids : Older(meter[i], MeterTtl + 1) \in 0..MeterTtl + 2
      BY <2>b, Times DEF Older
    <3>3. HeapTyped'
      BY <2>12, <3>1, <3>2, <2>0 DEF Tick, HeapTyped
    <3> QED BY <2>12, <3>3, Times DEF Tick, IoTyped
  <2>13. CASE Stopped \/ UNCHANGED serverVars
    BY <2>13 DEF Stopped, serverVars, ioVars, IoTyped, HeapTyped
  <2> QED BY <2>1, <2>2, <2>3, <2>4, <2>5, <2>6, <2>7, <2>8, <2>9, <2>10, <2>11, <2>12, <2>13
          DEF ServerNext
<1> QED BY <1>1, <1>2, PTL DEF ServerSpec

\* The server's state has its types; the lines left to handle and the state of the io
\* thread (parse_lines, spectatord.cc) agree.
THEOREM ServerTypeCorrect == ServerSpec => []ServerTypeOK
<1>1. UpkeepInv /\ IoTyped /\ HeapTyped => ServerTypeOK
  <2> SUFFICES ASSUME UpkeepInv, IoTyped, HeapTyped PROVE ServerTypeOK
    OBVIOUS
  <2>1. held.id \in Ids /\ {held.cached, held.freed, held.own} \subseteq BOOLEAN
    BY DEF HeapTyped, Held
  <2>2. cache \in [Ids -> [age : 0..ExpireAfter + 1, own : BOOLEAN, fed : BOOLEAN, present : BOOLEAN]]
    BY DEF HeapTyped, CacheEntry
  <2>3. (rest = <<>>) = (io \in {"idle", "reply"})
    BY DEF IoTyped
  <2>4. {ioAge, parsed, failed, upAge, stopAge} \subseteq Nat /\ should_stop \in BOOLEAN
    BY DEF IoTyped, UpkeepInv
  <2> QED BY <2>1, <2>2, <2>3, <2>4 DEF ServerTypeOK, IoTyped, HeapTyped, UpkeepInv
<1> QED BY <1>1, UpkeepInvariant, IoTypes, PTL

-----------------------------------------------------------------------------
\* The entry in use

\* The entry that the io thread holds was stamped when it got it, no longer ago than
\* it may stall; the entry and the io thread agree on whose meter it is.
HeldInv ==
  /\ ~held.freed
  /\ held.cached => /\ io \in {"record", "count"}
                    /\ cache[held.id].present
                    /\ cache[held.id].age <= ioAge
                    /\ held.own = cache[held.id].own

Typed == IoTyped /\ HeapTyped

\* One step keeps the entry in use alive.
LEMMA HeldStep ==
  ASSUME Typed, Typed', HeldInv, [ServerNext]_serverVars
  PROVE  HeldInv'
<1> USE DEF HeldInv
<1>0. /\ HoldsNothing.cached = FALSE /\ HoldsNothing.freed = FALSE
      /\ \A i \in Ids, c \in BOOLEAN, b \in BOOLEAN :
           LET h == Holding(i, c, b)
           IN h.id = i /\ h.cached = c /\ h.freed = FALSE /\ h.own = b
      /\ \A b \in BOOLEAN : Entry(b).present = TRUE /\ Entry(b).age = 0 /\ Entry(b).own = b
      /\ TRUE \in BOOLEAN /\ FALSE \in BOOLEAN
  BY DEF HoldsNothing, Holding, Entry
<1>a. /\ held.id \in Ids /\ ioAge \in Nat /\ ioAge <= MaxStall
      /\ \A i \in Ids : cache[i] \in CacheEntry /\ cache[i].age \in Nat /\ cache[i].own \in BOOLEAN
  BY Times DEF Typed, IoTyped, HeapTyped, Held, CacheEntry
<1>1. CASE Start \/ StartFails \/ Stop \/ Join \/ UpkeepCheck \/ UpkeepWake
  BY <1>1 DEF Start, StartFails, Stop, Join, UpkeepCheck, UpkeepWake, ioVars
<1>2. CASE \/ \E ls \in Datagrams : Receive(ls)
           \/ start_receive \/ LineFails
  BY <1>2 DEF Receive, start_receive, LineFails
<1>3. CASE LineElsewhere \/ RecordReturns
  BY <1>3, <1>0 DEF LineElsewhere, RecordReturns, Counted
<1>4. CASE LineDirect
  <2>1. Head(rest).id \in Ids
    BY <1>4, HeadHasId DEF LineDirect, Typed, IoTyped
  <2> QED BY <1>4, <2>1, <1>0 DEF LineDirect
<1>5. CASE LineCached
  <2> DEFINE i == Head(rest).id
  <2>1. i \in Ids /\ get_or_create(i) /\ io' = "record" /\ ioAge' = 0
    BY <1>5, HeadHasId DEF LineCached, Typed, IoTyped
  <2> HIDE DEF i
  <2>2. cache \in [Ids -> CacheEntry]
    BY DEF Typed, HeapTyped
  <2>3. CASE cache[i].present
    <3>1. held' = Holding(i, TRUE, cache[i].own) /\ cache'[i] = Entry(cache[i].own)
      BY <2>1, <2>2, <2>3 DEF get_or_create
    <3>2. /\ held'.id = i /\ held'.freed = FALSE /\ held'.own = cache[i].own
          /\ cache'[i].present = TRUE /\ cache'[i].age = 0 /\ cache'[i].own = cache[i].own
      BY <3>1, <2>1, <1>a DEF Holding, Entry
    <3> QED BY <3>2, <2>1
  <2>4. CASE ~cache[i].present
    <3>1. held' = Holding(i, TRUE, TRUE) /\ cache'[i] = Entry(TRUE)
      BY <2>1, <2>2, <2>4 DEF get_or_create
    <3>2. /\ held'.id = i /\ held'.freed = FALSE /\ held'.own = cache'[i].own
          /\ cache'[i].present = TRUE /\ cache'[i].age = 0
      BY <3>1, <2>1 DEF Holding, Entry
    <3> QED BY <3>2, <2>1
  <2> QED BY <2>3, <2>4
<1>6. CASE Record
  <2>1. cache \in [Ids -> CacheEntry]
    BY DEF Typed, HeapTyped
  <2>2. /\ cache'[held.id].present = cache[held.id].present
        /\ cache'[held.id].age = cache[held.id].age
        /\ cache'[held.id].own = cache[held.id].own
    BY <1>6, <1>a, <2>1 DEF Record, CacheEntry
  <2> QED BY <1>6, <2>2 DEF Record
<1>7. CASE UpkeepSummaries \/ UpkeepTimers
  <2>1. PICK t \in {"T", "D"} : expire(t)
    BY <1>7 DEF UpkeepSummaries, UpkeepTimers
  <2>2. held.cached => held.id \notin Expired(t)
    BY <1>a, Times DEF Expired
  <2>3. held' = held /\ (held.cached => cache'[held.id] = cache[held.id])
    BY <2>1, <2>2, <1>a DEF expire
  <2> QED BY <1>7, <2>3 DEF UpkeepSummaries, UpkeepTimers
<1>8. ASSUME NEW i \in Ids, ExpireMeter(i) PROVE HeldInv'
  <2>1. cache \in [Ids -> CacheEntry] /\ held \in Held
    BY DEF Typed, HeapTyped
  <2>2. /\ cache'[held.id].present = cache[held.id].present
        /\ cache'[held.id].age = cache[held.id].age
        /\ cache'[held.id].own = IF held.id = i THEN FALSE ELSE cache[held.id].own
    BY <1>8, <1>a, <2>1 DEF ExpireMeter, CacheEntry
  <2>3. /\ held'.id = held.id /\ held'.cached = held.cached /\ held'.freed = held.freed
        /\ held'.own = IF held.id = i THEN FALSE ELSE held.own
    BY <1>8, <2>1 DEF ExpireMeter, Held
  <2> QED BY <1>8, <2>2, <2>3 DEF ExpireMeter
<1>9. CASE Tick
  <2>1. held.cached => /\ cache'[held.id].present = cache[held.id].present
                       /\ cache'[held.id].own = cache[held.id].own
                       /\ cache'[held.id].age <= cache[held.id].age + 1
    BY <1>9, <1>a, Times DEF Tick, Older, CacheEntry
  <2>2. held.cached => cache'[held.id].age \in Nat
    BY <1>a, Times DEF Typed, HeapTyped, CacheEntry
  <2> QED BY <1>9, <1>a, <2>1, <2>2 DEF Tick
<1>10. CASE Stopped \/ UNCHANGED serverVars
  BY <1>10 DEF Stopped, serverVars, ioVars
<1> QED BY <1>1, <1>2, <1>3, <1>4, <1>5, <1>6, <1>7, <1>8, <1>9, <1>10 DEF ServerNext

\* It is alive always.
LEMMA HeldInvariant == ServerSpec => []HeldInv
<1>1. ServerInit => HeldInv
  BY DEF ServerInit, HeldInv, HoldsNothing
<1>2. Typed /\ Typed' /\ HeldInv /\ [ServerNext]_serverVars => HeldInv'
  BY HeldStep
<1>3. IoTyped /\ HeapTyped => Typed
  BY DEF Typed
<1> QED BY <1>1, <1>2, <1>3, IoTypes, PTL DEF ServerSpec

\* The percentile meter that get_or_create (expiring_cache.h) handed out as a raw
\* pointer is not freed by expire while the io thread records into it, as long as no
\* step takes longer than kExpireAfter.
THEOREM EntryStaysAlive == ServerSpec => []EntryAliveWhileUsed
<1>1. HeldInv => EntryAliveWhileUsed
  BY DEF HeldInv, EntryAliveWhileUsed
<1> QED BY <1>1, HeldInvariant, PTL

-----------------------------------------------------------------------------
\* The two expiries

\* Whether expire has been called for the cache of i in this turn of the upkeep loop.
Passed(i) == upkeep \in {"sleep", "check"} \/ (upkeep = "timers" /\ TypeOf[i] = "D")

\* How long an entry that is still there can have been due for expiry.
Late(i) == IF Passed(i) THEN upAge ELSE Frequency + MaxStall + upAge

\* Before Start there are no entries.
NoneYet ==
  phase \in {"new", "terminated"} => io = "idle" /\ \A i \in Ids : ~cache[i].present

\* The meter of entry i was updated no longer ago than the entry was stamped.
FedBound(i) ==
  cache[i].present /\ cache[i].own =>
    /\ meter[i] # Absent
    /\ cache[i].fed /\ cache[i].age <= ExpireAfter => meter[i] <= cache[i].age
    /\ cache[i].fed /\ cache[i].age > ExpireAfter => meter[i] <= ExpireAfter + Late(i)

FedInv == NoneYet /\ \A i \in Ids : FedBound(i)

\* An entry stays within its bound when nothing changes but that it has more time.
LEMMA FedBoundKept ==
  ASSUME NEW i \in Ids, Typed, UpkeepInv, UpkeepInv', FedBound(i),
         cache'[i] = cache[i], meter'[i] = meter[i], Late(i) <= Late(i)'
  PROVE  FedBound(i)'
<1>1. /\ Late(i) \in Nat /\ Late(i)' \in Nat /\ meter[i] \in Nat /\ cache[i].age \in Nat
  <2>1. upAge \in Nat /\ upAge' \in Nat
    BY DEF UpkeepInv
  <2>2. Late(i) \in Nat
    BY <2>1, Times DEF Late
  <2>3. Late(i)' \in Nat
    <3>1. Late(i)' \in {upAge', Frequency + MaxStall + upAge'}
      BY DEF Late
    <3> QED BY <2>1, <3>1, Times
  <2> QED BY <2>2, <2>3, Times DEF Typed, HeapTyped, CacheEntry
<1> HIDE DEF Late
<1> QED BY <1>1, Times DEF FedBound, Absent

\* One step keeps the bounds.
LEMMA FedStep ==
  ASSUME Typed, Typed', UpkeepInv, UpkeepInv', HeldInv, FedInv, [ServerNext]_serverVars
  PROVE  FedInv'
<1>a. /\ held \in Held /\ held.id \in Ids /\ upAge \in Nat /\ upAge <= Frequency + MaxStall
      /\ cache \in [Ids -> CacheEntry] /\ meter \in [Ids -> 0..MeterTtl + 2]
      /\ cache' \in [Ids -> CacheEntry] /\ meter' \in [Ids -> 0..MeterTtl + 2]
      /\ \A i \in Ids : /\ cache[i].age \in Nat /\ cache[i].own \in BOOLEAN /\ meter[i] \in Nat
  BY Times DEF Typed, HeapTyped, Held, CacheEntry, UpkeepInv
<1>b. \A i \in Ids : FedBound(i)
  BY DEF FedInv
<1>c. \A i \in Ids : Late(i) \in Nat
  BY <1>a, Times DEF Late
<1>d. ASSUME UNCHANGED <<upkeep, upAge>>, NEW i \in Ids PROVE Late(i)' = Late(i)
  BY <1>d DEF Late, Passed
<1>1. CASE Start \/ StartFails
  <2>1. \A i \in Ids : ~cache'[i].present
    BY <1>1 DEF Start, StartFails, FedInv, NoneYet
  <2>2. io' = "idle"
    BY <1>1 DEF Start, StartFails, ioVars, FedInv, NoneYet
  <2> QED BY <2>1, <2>2 DEF FedInv, NoneYet, FedBound
<1>2. CASE \/ Stop \/ Join \/ start_receive \/ LineFails \/ LineElsewhere \/ RecordReturns
           \/ \E ls \in Datagrams : Receive(ls)
  <2>1. UNCHANGED <<cache, meter, upkeep, upAge>>
    BY <1>2 DEF Stop, Join, start_receive, LineFails, LineElsewhere, RecordReturns, Receive, upkeepVars
  <2>2. NoneYet'
    BY <1>2, <2>1 DEF Stop, Join, start_receive, LineFails, LineElsewhere, RecordReturns, Receive,
                      ioVars, FedInv, NoneYet
  <2>3. ASSUME NEW i \in Ids PROVE FedBound(i)'
    BY <2>1, <1>b, <1>c, <1>d, FedBoundKept
  <2> QED BY <2>2, <2>3 DEF FedInv
<1>3. CASE LineDirect
  <2>1. Head(rest).id \in Ids
    BY <1>3, HeadHasId DEF LineDirect, Typed, IoTyped
  <2>2. UNCHANGED <<phase, cache, upkeep, upAge>> /\ phase \notin {"new", "terminated"}
    BY <1>3 DEF LineDirect, upkeepVars, FedInv, NoneYet
  <2>3. ASSUME NEW i \in Ids PROVE FedBound(i)'
    <3>1. CASE meter'[i] = meter[i]
      BY <3>1, <2>2, <1>b, <1>c, <1>d, FedBoundKept
    <3>2. CASE meter'[i] # meter[i]
      <4>1. meter[i] = Absent
        BY <1>3, <3>2, <1>a DEF LineDirect, GetMeter
      <4> QED BY <4>1, <2>2, <1>b DEF FedBound
    <3> QED BY <3>1, <3>2
  <2> QED BY <2>2, <2>3 DEF FedInv, NoneYet
<1>4. CASE LineCached
  <2>1. PICK i \in Ids : get_or_create(i)
    BY <1>4, HeadHasId DEF LineCached, Typed, IoTyped
  <2>2. UNCHANGED <<phase, upkeep, upAge>> /\ phase \notin {"new", "terminated"}
    BY <1>4 DEF LineCached, upkeepVars, FedInv, NoneYet
  <2>3. ~cache'[i].fed
    <3>1. PICK b \in BOOLEAN : cache'[i] = Entry(b)
      BY <2>1, <1>a DEF get_or_create
    <3> QED BY <3>1 DEF Entry
  <2>4. cache'[i].own => meter'[i] # Absent
    <3>1. CASE cache[i].present
      <4>1. cache'[i].own = cache[i].own /\ meter' = meter
        BY <2>1, <1>a, <3>1 DEF get_or_create, Entry
      <4> QED BY <4>1, <3>1, <2>1, <1>b DEF FedBound
    <3>2. CASE ~cache[i].present
      BY <2>1, <1>a, <3>2, Times DEF get_or_create, GetMeter, Absent
    <3> QED BY <3>1, <3>2
  <2>5. FedBound(i)'
    BY <2>3, <2>4 DEF FedBound, Absent
  <2>6. ASSUME NEW j \in Ids, j # i PROVE FedBound(j)'
    <3>1. cache'[j] = cache[j] /\ meter'[j] = meter[j]
      BY <2>1, <2>6, <1>a DEF get_or_create, GetMeter
    <3> QED BY <3>1, <2>2, <1>b, <1>c, <1>d, FedBoundKept
  <2>7. \A j \in Ids : FedBound(j)'
    BY <2>5, <2>6
  <2> QED BY <2>2, <2>7 DEF FedInv, NoneYet
<1>5. CASE Record
  <2>1. UNCHANGED <<phase, upkeep, upAge>> /\ phase \notin {"new", "terminated"}
    BY <1>5 DEF Record, upkeepVars, FedInv, NoneYet
  <2>2. ASSUME NEW i \in Ids PROVE FedBound(i)'
    <3>1. CASE i # held.id
      <4>1. cache'[i] = cache[i] /\ meter'[i] = meter[i]
        BY <1>5, <3>1, <1>a DEF Record
      <4> QED BY <4>1, <2>1, <1>b, <1>c, <1>d, FedBoundKept
    <3>2. CASE i = held.id
      <4>1. /\ cache'[i].present = cache[i].present /\ cache'[i].own = cache[i].own
            /\ cache'[i].age = cache[i].age
        BY <1>5, <3>2, <1>a DEF Record, CacheEntry
      <4>2. CASE held.own
        <5>1. meter'[i] = 0
          BY <1>5, <3>2, <4>2, <1>a DEF Record
        <5>2. Late(i)' \in Nat
          BY <2>1, <1>c, <1>d
        <5> HIDE DEF Late
        <5> QED BY <5>1, <5>2, <4>1, <1>a, Times DEF FedBound, Absent
      <4>3. CASE ~held.own
        <5>1. CASE held.cached
          BY <5>1, <4>3, <4>1, <3>2 DEF HeldInv, FedBound
        <5>2. CASE ~held.cached
          <6>1. cache' = cache /\ meter' = meter
            BY <1>5, <5>2, <4>3 DEF Record
          <6> QED BY <6>1, <2>1, <1>b, <1>c, <1>d, FedBoundKept
        <5> QED BY <5>1, <5>2
      <4> QED BY <4>2, <4>3
    <3> QED BY <3>1, <3>2
  <2> QED BY <2>1, <2>2 DEF FedInv, NoneYet
<1>6. CASE UpkeepCheck
  <2>1. UNCHANGED <<phase, io, cache, meter>>
    BY <1>6 DEF UpkeepCheck, ioVars
  <2>2. ASSUME NEW i \in Ids PROVE Late(i) <= Late(i)'
    <3>1. Late(i) = upAge
      BY <1>6 DEF UpkeepCheck, Late, Passed
    <3>2. Late(i)' = Frequency + MaxStall
      BY <1>6, Times DEF UpkeepCheck, Late, Passed
    <3> QED BY <3>1, <3>2, <1>a
  <2> QED BY <2>1, <2>2, <1>b, FedBoundKept DEF FedInv, NoneYet
<1>7. CASE UpkeepWake
  <2>1. UNCHANGED <<phase, io, cache, meter>>
    BY <1>7 DEF UpkeepWake, ioVars
  <2>2. ASSUME NEW i \in Ids PROVE Late(i)' = Late(i)
    BY <1>7 DEF UpkeepWake, Late, Passed
  <2> QED BY <2>1, <2>2, <1>b, <1>c, FedBoundKept DEF FedInv, NoneYet
<1>8. CASE UpkeepSummaries \/ UpkeepTimers
  <2> DEFINE t == IF upkeep = "ds" THEN "D" ELSE "T"
  <2>1. expire(t) /\ UNCHANGED <<phase, io, meter, upAge>>
    BY <1>8 DEF UpkeepSummaries, UpkeepTimers
  <2>2. ASSUME NEW i \in Ids, TypeOf[i] # t PROVE Late(i)' = Late(i)
    BY <1>8, <2>2, ServerAssumption DEF UpkeepSummaries, UpkeepTimers, Late, Passed
  <2> HIDE DEF t
  <2>3. ASSUME NEW i \in Ids PROVE FedBound(i)'
    <3>1. CASE i \in Expired(t)
      BY <3>1, <2>1 DEF expire, NoEntry, FedBound
    <3>2. CASE i \notin Expired(t)
      <4>1. cache'[i] = cache[i] /\ meter'[i] = meter[i]
        BY <3>2, <2>1 DEF expire
      <4>2. CASE TypeOf[i] # t
        BY <4>1, <4>2, <2>2, <1>b, <1>c, FedBoundKept
      <4>3. CASE TypeOf[i] = t
        <5>1. cache[i].present => cache[i].age <= ExpireAfter
          BY <3>2, <4>3, <1>a, Times DEF Expired
        <5> QED BY <5>1, <4>1, <1>a, <1>b, Times DEF FedBound, Absent
      <4> QED BY <4>2, <4>3
    <3> QED BY <3>1, <3>2
  <2>4. NoneYet'
    BY <2>1 DEF expire, NoEntry, FedInv, NoneYet
  <2> QED BY <2>3, <2>4 DEF FedInv
<1>9. ASSUME NEW j \in Ids, ExpireMeter(j) PROVE FedInv'
  <2>1. UNCHANGED <<phase, io, upkeep, upAge>>
    BY <1>9 DEF ExpireMeter, upkeepVars
  <2>2. cache'[j].own = FALSE /\ cache'[j].present = cache[j].present
    BY <1>9, <1>a DEF ExpireMeter, CacheEntry
  <2>3. \A i \in Ids : i # j => cache'[i] = cache[i] /\ meter'[i] = meter[i]
    BY <1>9, <1>a DEF ExpireMeter
  <2>4. ASSUME NEW i \in Ids PROVE FedBound(i)'
    <3>1. CASE i = j
      BY <3>1, <2>2 DEF FedBound
    <3>2. CASE i # j
      BY <3>2, <2>1, <2>3, <1>b, <1>c, <1>d, FedBoundKept
    <3> QED BY <3>1, <3>2
  <2>5. NoneYet'
    BY <2>1, <2>2, <2>3 DEF FedInv, NoneYet
  <2> QED BY <2>4, <2>5 DEF FedInv
<1>10. CASE Tick
  <2>1. UNCHANGED <<phase, io, upkeep>> /\ upAge' = upAge + 1 /\ phase \notin {"new", "terminated"}
    BY <1>10 DEF Tick
  <2>2. ASSUME NEW i \in Ids PROVE FedBound(i)'
    <3>1. Late(i)' = Late(i) + 1
      BY <2>1, <1>a, Times DEF Late, Passed
    <3>2. CASE ~cache[i].present
      BY <1>10, <3>2 DEF Tick, FedBound
    <3>3. CASE cache[i].present
      <4>1. /\ cache'[i].own = cache[i].own /\ cache'[i].fed = cache[i].fed
            /\ cache'[i].age = Older(cache[i].age, ExpireAfter + 1)
        BY <1>10, <3>3, <1>a DEF Tick, CacheEntry
      <4>2. meter[i] # Absent => meter'[i] = Older(meter[i], MeterTtl + 1)
        BY <1>10 DEF Tick
      <4>3. /\ cache[i].age <= ExpireAfter => cache'[i].age = cache[i].age + 1
            /\ cache[i].age > ExpireAfter => cache'[i].age = cache[i].age
        BY <4>1, <1>a, Times DEF Older, CacheEntry
      <4>4. meter[i] # Absent => meter'[i] # Absent /\ meter'[i] <= meter[i] + 1 /\ meter'[i] \in Nat
        BY <4>2, <1>a, Times DEF Older, Absent
      <4>5. ASSUME cache[i].own PROVE meter[i] # Absent
        BY <4>5, <3>3, <1>b DEF FedBound
      <4>6. ASSUME cache[i].own, cache[i].fed, cache'[i].age <= ExpireAfter
            PROVE  meter'[i] <= cache'[i].age
        BY <4>6, <4>3, <4>4, <4>5, <3>3, <1>a, <1>b, Times DEF FedBound
      <4>7. ASSUME cache[i].own, cache[i].fed, cache'[i].age > ExpireAfter
            PROVE  meter'[i] <= ExpireAfter + Late(i)'
        <5> HIDE DEF Late
        <5> QED BY <4>7, <4>3, <4>4, <4>5, <3>1, <3>3, <1>a, <1>b, <1>c, Times DEF FedBound
      <4> QED BY <4>1, <4>4, <4>5, <4>6, <4>7 DEF FedBound, Absent
    <3> QED BY <3>2, <3>3
  <2> QED BY <2>1, <2>2 DEF FedInv, NoneYet
<1>11. CASE Stopped \/ UNCHANGED serverVars
  BY <1>11 DEF Stopped, serverVars, ioVars, upkeepVars, FedInv, NoneYet, FedBound, Late, Passed, Absent
<1> QED BY <1>1, <1>2, <1>3, <1>4, <1>5, <1>6, <1>7, <1>8, <1>9, <1>10, <1>11 DEF ServerNext

\* A meter that is within its bound is not taken away from its entry.
LEMMA FedNotExpired ==
  ASSUME Typed, UpkeepInv, FedInv, ServerNext, NEW i \in Ids,
         cache[i].present, cache[i].own, cache[i].fed, cache'[i].present
  PROVE  cache'[i].own
<1>1. /\ cache \in [Ids -> CacheEntry] /\ held.id \in Ids
      /\ meter[i] \in Nat /\ cache[i].age \in Nat /\ upAge \in Nat
      /\ upAge <= Frequency + MaxStall
  BY Times DEF Typed, HeapTyped, Held, CacheEntry, UpkeepInv
<1>2. meter[i] <= MeterTtl
  <2>1. Late(i) \in Nat /\ Late(i) <= 2 * (Frequency + MaxStall)
    BY <1>1, Times DEF Late
  <2>2. FedBound(i)
    BY DEF FedInv
  <2> HIDE DEF Late
  <2> QED BY <1>1, <2>1, <2>2, Times DEF FedBound
<1>3. CASE \/ Start \/ StartFails \/ Stop \/ Join \/ start_receive \/ LineFails \/ LineElsewhere
           \/ LineDirect \/ RecordReturns \/ UpkeepCheck \/ UpkeepWake
           \/ \E ls \in Datagrams : Receive(ls)
  BY <1>3 DEF Start, StartFails, Stop, Join, start_receive, LineFails, LineElsewhere, LineDirect,
              RecordReturns, UpkeepCheck, UpkeepWake, Receive
<1>4. CASE LineCached
  <2>1. PICK j \in Ids : get_or_create(j)
    BY <1>4, HeadHasId DEF LineCached, Typed, IoTyped
  <2>2. CASE j = i
    BY <1>1, <2>1, <2>2 DEF get_or_create, Entry
  <2>3. CASE j # i
    BY <1>1, <2>1, <2>3 DEF get_or_create
  <2> QED BY <2>2, <2>3
<1>5. CASE Record
  BY <1>1, <1>5 DEF Record, CacheEntry
<1>6. CASE UpkeepSummaries \/ UpkeepTimers
  <2>1. PICK t \in {"T", "D"} : expire(t)
    BY <1>6 DEF UpkeepSummaries, UpkeepTimers
  <2> QED BY <2>1 DEF expire, NoEntry
<1>7. ASSUME NEW j \in Ids, ExpireMeter(j) PROVE cache'[i].own
  <2>1. j # i
    BY <1>1, <1>2, <1>7, Times DEF ExpireMeter
  <2> QED BY <1>1, <1>7, <2>1 DEF ExpireMeter
<1>8. CASE Tick
  BY <1>1, <1>8 DEF Tick, CacheEntry
<1>9. CASE Stopped
  BY <1>9 DEF Stopped, serverVars
<1> QED BY <1>3, <1>4, <1>5, <1>6, <1>7, <1>8, <1>9 DEF ServerNext

\* The registry's expirer (registry.cc) does not erase the meter of a cache entry
\* (expiring_cache.h) whose last line was recorded, for all times with a meter ttl of
\* kExpireAfter and two late turns of the upkeep thread or more.
THEOREM CacheExpiresFirst == ServerSpec => ExpiryLeavesFedEntries
<1>1. ServerInit => FedInv
  BY DEF ServerInit, FedInv, NoneYet, FedBound, NoEntry
<1>2. Typed /\ Typed' /\ UpkeepInv /\ UpkeepInv' /\ HeldInv /\ FedInv /\ [ServerNext]_serverVars
        => FedInv'
  BY FedStep
<1>3. Typed /\ UpkeepInv /\ FedInv /\ [ServerNext]_serverVars
        => [\A i \in Ids : cache[i].present /\ cache[i].own /\ cache[i].fed /\ cache'[i].present
                              => cache'[i].own]_serverVars
  BY FedNotExpired
<1>4. IoTyped /\ HeapTyped => Typed
  BY DEF Typed
<1> QED BY <1>1, <1>2, <1>3, <1>4, IoTypes, UpkeepInvariant, HeldInvariant, PTL
       DEF ServerSpec, ExpiryLeavesFedEntries

-----------------------------------------------------------------------------
\* Every line is handled once

\* Of the first m lines of a datagram: those parse_lines looks at, and those it applies.
Kept(p, m) == {n \in 1..m : n = 1 \/ IsStatsd(p[n]) \/ p[n].type # ""}
Good(p, m) == {n \in Kept(p, m) : Parses(p[n])}

\* The lines r are the last of the lines p, and begin with one to look at.
EndOf(p, r) ==
  /\ Len(r) <= Len(p)
  /\ \A i \in 1..Len(r) : r[i] = p[Len(p) - Len(r) + i]
  /\ r # <<>> => Len(p) - Len(r) + 1 \in Kept(p, Len(p))

\* The lines a that were applied and the two counts are those of the first m lines of p.
Accounts(p, m, a, np, nf) ==
  /\ Len(a) = Cardinality(Good(p, m))
  /\ \A n \in Good(p, m) : a[Cardinality({j \in Good(p, m) : j <= n})] = p[n]
  /\ np = IF StatusMetrics THEN Cardinality(Good(p, m)) ELSE 0
  /\ nf = IF StatusMetrics THEN Cardinality(Kept(p, m) \ Good(p, m)) ELSE 0

LinesInv ==
  /\ packet \in Seq(AnyLine) /\ applied \in Seq(AnyLine)
  /\ EndOf(packet, rest)
  /\ Accounts(packet, Len(packet) - Len(rest), applied, parsed, failed)
  /\ io = "idle" => packet = <<>>
  /\ io \in {"record", "count"} => Parses(Head(rest))

\* Initial segments of an interval are intervals: the size decides.
LEMMA InitialSegment ==
  ASSUME NEW n \in Nat, NEW S \in SUBSET (2..n), \A i \in S : 2..i \subseteq S
  PROVE  \/ S = {}
         \/ Cardinality(S) \in Nat /\ S = 2..Cardinality(S) + 1 /\ Cardinality(S) + 1 <= n
<1> DEFINE c == Cardinality(S)
<1>1. IsFiniteSet(S) /\ c \in Nat
  <2>1. IsFiniteSet(2..n)
    BY FS_Interval
  <2> QED BY <2>1, FS_Subset, FS_CardinalityType
<1>2. ASSUME NEW i \in S PROVE i <= c + 1
  <2>1. Cardinality(2..i) = i - 1
    BY FS_Interval
  <2>2. Cardinality(2..i) <= c
    BY <1>1, FS_Subset
  <2> QED BY <1>1, <2>1, <2>2
<1> HIDE DEF c
<1>3. S \in SUBSET (2..c + 1)
  BY <1>1, <1>2
<1>4. IsFiniteSet(2..c + 1) /\ Cardinality(2..c + 1) = c
  BY <1>1, FS_Interval
<1>5. S = 2..c + 1
  <2> DEFINE T == 2..c + 1
  <2>1. IsFiniteSet(T) /\ S \in SUBSET T /\ Cardinality(T) = Cardinality(S)
    BY <1>3, <1>4 DEF c
  <2> HIDE DEF T
  <2>2. S = T
    BY <2>1, FS_Subset
  <2> QED BY <2>2 DEF T
<1>6. S # {} => c + 1 \in S
  BY <1>1, <1>5
<1> QED BY <1>1, <1>5, <1>6 DEF c

\* What NextLines does: the line after the first one that is to be looked at.
LEMMA NextLinesSkip ==
  ASSUME NEW r \in Seq(AnyLine), r # <<>>
  PROVE  \E k \in 1..Len(r) :
           /\ \A j \in 2..k : ~IsStatsd(r[j]) /\ r[j].type = ""
           /\ k < Len(r) => IsStatsd(r[k + 1]) \/ r[k + 1].type # ""
           /\ Len(NextLines(r)) = Len(r) - k
           /\ \A i \in 1..Len(r) - k : NextLines(r)[i] = r[k + i]
<1> DEFINE empty(l) == ~IsStatsd(l) /\ l.type = ""
           S == {n \in 2..Len(r) : \A j \in 2..n : empty(r[j])}
           k == Cardinality(S) + 1
<1>1. Len(r) \in Nat /\ Len(r) > 0
  BY EmptySeq
<1>a. NextLines(r) = SubSeq(r, 2 + Cardinality(S), Len(r))
  BY DEF NextLines
<1>b. \A n : n \in S <=> n \in 2..Len(r) /\ \A j \in 2..n : empty(r[j])
  OBVIOUS
<1> HIDE DEF S, empty
<1>3. S \in SUBSET (2..Len(r)) /\ \A i \in S : 2..i \subseteq S
  <2>1. S \in SUBSET (2..Len(r))
    BY <1>b
  <2>2. ASSUME NEW i \in S, NEW n \in 2..i PROVE n \in S
    <3>1. n \in 2..Len(r) /\ \A j \in 2..n : j \in 2..i
      BY <1>1, <2>1
    <3> QED BY <1>b, <3>1
  <2> QED BY <2>1, <2>2
<1>2. NextLines(r) = SubSeq(r, 1 + k, Len(r))
  <2>1. Cardinality(S) \in Nat
    <3>1. IsFiniteSet(2..Len(r))
      BY <1>1, FS_Interval
    <3> QED BY <1>3, <3>1, FS_Subset, FS_CardinalityType
  <2>2. 2 + Cardinality(S) = 1 + k
    BY <2>1
  <2> QED BY <1>a, <2>2
<1>4. S = 2..k /\ k \in 1..Len(r)
  <2>1. CASE S = {}
    <3>1. Cardinality(S) = 0
      BY <2>1, FS_EmptySet
    <3> QED BY <1>1, <2>1, <3>1
  <2>2. CASE S # {}
    <3>1. Cardinality(S) \in Nat /\ S = 2..Cardinality(S) + 1 /\ Cardinality(S) + 1 <= Len(r)
      BY <1>1, <1>3, <2>2, InitialSegment
    <3> QED BY <3>1
  <2> QED BY <2>1, <2>2
<1> HIDE DEF k
<1>5. ASSUME NEW j \in 2..k PROVE empty(r[j])
  <2>1. j \in S /\ j \in 2..j
    BY <1>4
  <2> QED BY <1>b, <2>1
<1>6. k < Len(r) => ~empty(r[k + 1])
  <2> SUFFICES ASSUME k < Len(r), empty(r[k + 1]) PROVE FALSE
    OBVIOUS
  <2>1. k + 1 \in 2..Len(r) /\ k + 1 \notin S
    BY <1>1, <1>4
  <2>2. \A j \in 2..k + 1 : j \in 2..k \/ j = k + 1
    BY <1>4
  <2>3. \A j \in 2..k + 1 : empty(r[j])
    BY <1>5, <2>2
  <2> QED BY <1>b, <2>1, <2>3
<1>7. \A i \in 1 + k..Len(r) : r[i] \in AnyLine
  BY <1>1, <1>4, ElementOfSeq
<1>8. Len(NextLines(r)) = Len(r) - k /\ \A i \in 1..Len(r) - k : NextLines(r)[i] = r[k + i]
  <2> DEFINE a == 1 + k
             b == Len(r)
  <2>1. a \in Int /\ b \in Int /\ \A i \in a..b : r[i] \in AnyLine
    BY <1>1, <1>4, <1>7
  <2>2. NextLines(r) = SubSeq(r, a, b)
    BY <1>2
  <2> HIDE DEF a, b
  <2>3. Len(NextLines(r)) = (IF a <= b THEN b - a + 1 ELSE 0)
        /\ \A i \in 1..b - a + 1 : NextLines(r)[i] = r[a + i - 1]
    BY <2>1, <2>2, SubSeqProperties
  <2>4. \A i \in Int : (1 + k) + i - 1 = k + i
    BY <1>4
  <2> QED BY <1>1, <1>4, <2>3, <2>4 DEF a, b
<1> QED BY <1>4, <1>5, <1>6, <1>8 DEF empty

\* One line of the datagram is done: the next one, and what has been looked at.
LEMMA OneLine ==
  ASSUME NEW p \in Seq(AnyLine), NEW r \in Seq(AnyLine), r # <<>>, EndOf(p, r),
         NEW m, m = Len(p) - Len(r), NEW s, s = Len(p) - Len(NextLines(r))
  PROVE  /\ m \in Nat /\ s \in Nat /\ m < s /\ s <= Len(p)
         /\ EndOf(p, NextLines(r))
         /\ Head(r) = p[m + 1] /\ Head(r) \in AnyLine
         /\ Kept(p, s) = Kept(p, m) \cup {m + 1}
<1> DEFINE q == NextLines(r)
           N == Len(p)
           L == Len(r)
<1>1. N \in Nat /\ L \in Nat /\ L > 0 /\ L <= N /\ Head(r) = r[1] /\ Head(r) \in AnyLine
  BY EmptySeq, LenProperties, HeadTailProperties DEF EndOf
<1>2. \A i \in 1..L : r[i] = p[N - L + i]
  BY DEF EndOf
<1>3. PICK k \in 1..L :
        /\ \A j \in 2..k : ~IsStatsd(r[j]) /\ r[j].type = ""
        /\ k < L => IsStatsd(r[k + 1]) \/ r[k + 1].type # ""
        /\ Len(q) = L - k
        /\ \A i \in 1..L - k : q[i] = r[k + i]
  BY NextLinesSkip
<1>4. q \in Seq(AnyLine)
  BY NextLinesAreLines
<1>5. m + 1 \in Kept(p, N)
  BY DEF EndOf
<1>6. m = N - L /\ s = N - Len(q)
  OBVIOUS
<1> HIDE DEF q, N, L
<1>a. k \in Nat /\ k >= 1 /\ k <= L /\ Len(q) = L - k
  <2>1. Len(q) = L - k
    BY <1>3
  <2>2. k \in 1..L
    OBVIOUS
  <2> QED BY <1>1, <2>1, <2>2
<1>b. m \in Nat /\ s \in Nat /\ s = m + k /\ m < s /\ s <= N /\ Len(q) \in Nat /\ Len(q) <= N
  <2>1. N \in Nat /\ L \in Nat /\ L <= N
    BY <1>1
  <2> QED BY <1>6, <1>a, <2>1
<1>c. N \in Nat /\ L \in Nat /\ L <= N /\ L > 0
  BY <1>1
<1>d. \A n, x : n \in Kept(p, x) <=> n \in 1..x /\ (n = 1 \/ IsStatsd(p[n]) \/ p[n].type # "")
  BY DEF Kept
<1>7. Head(r) = p[m + 1]
  <2>1. 1 \in 1..L /\ N - L + 1 = m + 1
    BY <1>6, <1>b, <1>c
  <2> QED BY <1>1, <1>2, <2>1
<1>8. \A i \in 1..Len(q) : q[i] = p[N - Len(q) + i]
  <2> SUFFICES ASSUME NEW i \in 1..Len(q) PROVE q[i] = p[N - Len(q) + i]
    OBVIOUS
  <2>1. i \in 1..L - k /\ k + i \in 1..L /\ N - L + (k + i) = N - Len(q) + i
    BY <1>a, <1>b, <1>c
  <2>2. q[i] = r[k + i]
    BY <1>3, <2>1
  <2>3. r[k + i] = p[N - L + (k + i)]
    BY <1>2, <2>1
  <2> QED BY <2>1, <2>2, <2>3
<1>9. q # <<>> => N - Len(q) + 1 \in Kept(p, N)
  <2> SUFFICES ASSUME q # <<>> PROVE N - Len(q) + 1 \in Kept(p, N)
    OBVIOUS
  <2>1. k < L
    <3>1. Len(q) # 0
      BY <1>4, EmptySeq
    <3> QED BY <1>a, <1>b, <1>c, <3>1
  <2>2. k + 1 \in 1..L /\ N - L + (k + 1) = N - Len(q) + 1 /\ N - Len(q) + 1 \in 1..N
    BY <1>a, <1>b, <1>c, <2>1
  <2>3. r[k + 1] = p[N - Len(q) + 1]
    BY <1>2, <2>2
  <2>4. IsStatsd(r[k + 1]) \/ r[k + 1].type # ""
    BY <1>3, <2>1
  <2> QED BY <1>d, <2>2, <2>3, <2>4
<1>10. EndOf(p, q)
  BY <1>8, <1>9, <1>b DEF EndOf, N
<1>11. Kept(p, s) = Kept(p, m) \cup {m + 1}
  <2>1. ASSUME NEW n \in Kept(p, s) PROVE n \in Kept(p, m) \cup {m + 1}
    <3>1. n \in 1..s /\ (n = 1 \/ IsStatsd(p[n]) \/ p[n].type # "")
      BY <1>d
    <3>a. n \in Nat /\ n >= 1 /\ n <= s
      <4>1. n \in 1..s
        BY <3>1
      <4> QED BY <1>b, <4>1
    <3>2. CASE n <= m
      <4>1. n \in 1..m
        BY <1>b, <3>a, <3>2
      <4> QED BY <1>d, <3>1, <4>1
    <3>3. CASE n > m + 1
      <4> DEFINE j == n - m
      <4>1. j \in 2..k /\ j \in 1..L /\ N - L + j = n /\ n # 1
        <5>1. j \in Nat /\ j >= 2 /\ j <= k /\ m + j = n /\ n # 1
          BY <1>a, <1>b, <3>a, <3>3
        <5> HIDE DEF j
        <5>2. j \in 2..k /\ j \in 1..L
          BY <1>a, <1>c, <5>1
        <5>3. N - L = m
          BY <1>6
        <5> QED BY <5>1, <5>2, <5>3
      <4> HIDE DEF j
      <4>2. r[j] = p[n]
        BY <1>2, <4>1
      <4>3. ~IsStatsd(r[j]) /\ r[j].type = ""
        BY <1>3, <4>1
      <4> QED BY <3>1, <4>1, <4>2, <4>3
    <3>4. n <= m \/ n > m + 1 \/ n = m + 1
      BY <1>b, <3>a
    <3> QED BY <3>2, <3>3, <3>4
  <2>2. ASSUME NEW n \in Kept(p, m) PROVE n \in Kept(p, s)
    <3>1. n \in 1..m /\ (n = 1 \/ IsStatsd(p[n]) \/ p[n].type # "")
      BY <1>d
    <3>2. n \in 1..m
      BY <3>1
    <3>3. n \in 1..s
      BY <1>b, <3>2
    <3> QED BY <1>d, <3>1, <3>3
  <2>3. m + 1 \in Kept(p, s)
    <3>1. m + 1 \in 1..s
      BY <1>a, <1>b
    <3> QED BY <1>5, <1>d, <3>1
  <2> QED BY <2>1, <2>2, <2>3
<1> QED BY <1>1, <1>7, <1>10, <1>11, <1>b DEF q, N

LEMMA KeptFinite ==
  ASSUME NEW p, NEW m \in Nat
  PROVE  /\ Kept(p, m) \subseteq 1..m /\ Good(p, m) \subseteq Kept(p, m)
         /\ IsFiniteSet(Kept(p, m)) /\ IsFiniteSet(Good(p, m)) /\ IsFiniteSet(Kept(p, m) \ Good(p, m))
         /\ Cardinality(Good(p, m)) \in Nat /\ Cardinality(Kept(p, m) \ Good(p, m)) \in Nat
<1>1. Kept(p, m) \in SUBSET (1..m) /\ Good(p, m) \in SUBSET Kept(p, m)
      /\ Kept(p, m) \ Good(p, m) \in SUBSET Kept(p, m)
  BY DEF Kept, Good
<1>2. IsFiniteSet(1..m)
  BY FS_Interval
<1>3. IsFiniteSet(Kept(p, m))
  BY <1>1, <1>2, FS_Subset
<1>4. IsFiniteSet(Good(p, m)) /\ IsFiniteSet(Kept(p, m) \ Good(p, m))
  BY <1>1, <1>3, FS_Subset
<1> QED BY <1>1, <1>3, <1>4, FS_CardinalityType

LEMMA NotYetKept ==
  ASSUME NEW p, NEW m \in Nat
  PROVE  m + 1 \notin Kept(p, m)
<1>1. m + 1 \notin 1..m
  OBVIOUS
<1> QED BY <1>1, KeptFinite

\* The line m + 1 is not applied ...
LEMMA OneFails ==
  ASSUME NEW p, NEW m \in Nat, NEW s \in Nat, NEW a, NEW np \in Nat, NEW nf \in Nat,
         Accounts(p, m, a, np, nf), Kept(p, s) = Kept(p, m) \cup {m + 1}, ~Parses(p[m + 1])
  PROVE  Accounts(p, s, a, np, IF StatusMetrics THEN nf + 1 ELSE nf)
<1>1. Good(p, s) = Good(p, m)
  BY DEF Good
<1>2. m + 1 \notin Kept(p, m)
  BY NotYetKept
<1>3. Kept(p, s) \ Good(p, s) = (Kept(p, m) \ Good(p, m)) \cup {m + 1}
  BY <1>1, <1>2, KeptFinite
<1> DEFINE B == Kept(p, m) \ Good(p, m)
<1>4. IsFiniteSet(B) /\ m + 1 \notin B
  BY <1>2, KeptFinite
<1> HIDE DEF B
<1>5. Cardinality(B \cup {m + 1}) = Cardinality(B) + 1
  BY <1>4, FS_AddElement
<1>6. Cardinality(Kept(p, s) \ Good(p, s)) = Cardinality(Kept(p, m) \ Good(p, m)) + 1
  BY <1>3, <1>5 DEF B
<1> QED BY <1>1, <1>6 DEF Accounts

\* ... or it is.
LEMMA OneApplied ==
  ASSUME NEW p, NEW m \in Nat, NEW s \in Nat, NEW a \in Seq(AnyLine), NEW np \in Nat, NEW nf \in Nat,
         Accounts(p, m, a, np, nf), Kept(p, s) = Kept(p, m) \cup {m + 1}, Parses(p[m + 1]),
         p[m + 1] \in AnyLine
  PROVE  Accounts(p, s, Append(a, p[m + 1]), IF StatusMetrics THEN np + 1 ELSE np, nf)
<1> DEFINE G == Good(p, m)
           b == Append(a, p[m + 1])
<1>1. Good(p, s) = G \cup {m + 1}
  BY DEF Good
<1>2. m + 1 \notin Kept(p, m) /\ G \subseteq 1..m /\ IsFiniteSet(G) /\ m + 1 \notin G /\ Cardinality(G) \in Nat
  <2>1. m + 1 \notin Kept(p, m)
    BY NotYetKept
  <2> QED BY <2>1, KeptFinite
<1>3. Kept(p, s) \ Good(p, s) = Kept(p, m) \ G
  BY <1>1, <1>2
<1>4. Len(a) = Cardinality(G)
  BY DEF Accounts
<1>5. Len(b) = Len(a) + 1 /\ b[Len(a) + 1] = p[m + 1] /\ \A i \in 1..Len(a) : b[i] = a[i]
  BY AppendProperties
<1>6. \A n \in G : a[Cardinality({j \in G : j <= n})] = p[n]
  BY DEF Accounts
<1>a. /\ np = IF StatusMetrics THEN Cardinality(G) ELSE 0
      /\ nf = IF StatusMetrics THEN Cardinality(Kept(p, m) \ G) ELSE 0
  BY DEF Accounts
<1> HIDE DEF G, b
<1>7. Cardinality(G \cup {m + 1}) = Cardinality(G) + 1
  BY <1>2, FS_AddElement
<1>8. ASSUME NEW n \in G \cup {m + 1}
      PROVE  b[Cardinality({j \in G \cup {m + 1} : j <= n})] = p[n]
  <2>1. CASE n = m + 1
    <3>1. {j \in G \cup {m + 1} : j <= n} = G \cup {m + 1}
      <4>1. \A j \in 1..m : j <= m + 1
        OBVIOUS
      <4>2. \A j \in G \cup {m + 1} : j <= n
        BY <1>2, <2>1, <4>1
      <4> QED BY <4>2
    <3> QED BY <1>4, <1>5, <1>7, <2>1, <3>1
  <2>2. CASE n \in G
    <3> DEFINE R == {j \in G : j <= n}
    <3>1. {j \in G \cup {m + 1} : j <= n} = R
      <4>1. n \in 1..m
        BY <1>2, <2>2
      <4>2. ~(m + 1 <= n)
        BY <4>1
      <4> QED BY <4>2
    <3>2. R \in SUBSET G /\ n \in R
      BY <1>2, <2>2
    <3>3. a[Cardinality(R)] = p[n]
      BY <1>6, <2>2
    <3> HIDE DEF R
    <3>4. IsFiniteSet(R) /\ Cardinality(R) <= Cardinality(G) /\ Cardinality(R) \in Nat
      BY <1>2, <3>2, FS_Subset, FS_CardinalityType
    <3>5. Cardinality(R) # 0
      BY <3>2, <3>4, FS_EmptySet
    <3>6. Cardinality(R) \in 1..Len(a)
      BY <1>2, <1>4, <3>4, <3>5
    <3> QED BY <1>5, <3>1, <3>3, <3>6
  <2> QED BY <2>1, <2>2
<1> QED BY <1>1, <1>2, <1>3, <1>4, <1>5, <1>7, <1>8, <1>a DEF Accounts, b

\* The last lines of a datagram after its first one, and nothing before.
LEMMA FirstLine ==
  ASSUME NEW p \in Seq(AnyLine), p # <<>>
  PROVE  EndOf(p, p) /\ Len(p) - Len(p) = 0
<1>1. Len(p) \in Nat /\ Len(p) # 0
  BY EmptySeq, LenProperties
<1> HIDE DEF Parses
<1>2. Len(p) - Len(p) = 0 /\ Len(p) <= Len(p) /\ 1 \in 1..Len(p)
      /\ \A i \in 1..Len(p) : Len(p) - Len(p) + i = i
  BY <1>1
<1>3. Len(p) - Len(p) + 1 \in Kept(p, Len(p))
  BY <1>2 DEF Kept
<1> QED BY <1>2, <1>3 DEF EndOf

\* Before the first line nothing is counted, whichever datagram it is.
LEMMA NothingYet ==
  ASSUME NEW p, NEW a, NEW np, NEW nf
  PROVE  Accounts(p, 0, a, np, nf) <=> Len(a) = 0 /\ np = 0 /\ nf = 0
<1>1. Kept(p, 0) = {} /\ Good(p, 0) = {}
  BY DEF Kept, Good
<1>2. Cardinality({}) = 0
  BY FS_EmptySet
<1>3. Kept(p, 0) \ Good(p, 0) = {}
  BY <1>1
<1> QED BY <1>1, <1>2, <1>3 DEF Accounts

LEMMA LinesStep ==
  ASSUME IoTyped, LinesInv, [ServerNext]_serverVars
  PROVE  LinesInv'
<1>1. packet \in Seq(AnyLine) /\ applied \in Seq(AnyLine) /\ rest \in Seq(AnyLine)
      /\ parsed \in Nat /\ failed \in Nat
  BY DEF IoTyped, LinesInv
<1> DEFINE m == Len(packet) - Len(rest)
           s == Len(packet) - Len(NextLines(rest))
<1>2. io \in {"parse", "record", "count"} => rest # <<>>
  BY DEF IoTyped
<1>3. ASSUME rest # <<>>
      PROVE  /\ m \in Nat /\ s \in Nat /\ EndOf(packet, NextLines(rest))
             /\ Head(rest) = packet[m + 1] /\ Head(rest) \in AnyLine
             /\ Kept(packet, s) = Kept(packet, m) \cup {m + 1}
  <2>1. EndOf(packet, rest)
    BY DEF LinesInv
  <2>2. m = Len(packet) - Len(rest) /\ s = Len(packet) - Len(NextLines(rest))
    OBVIOUS
  <2> HIDE DEF m, s
  <2> QED BY <1>1, <1>3, <2>1, <2>2, OneLine
<1>4. Accounts(packet, m, applied, parsed, failed)
  BY DEF LinesInv
<1>5. CASE UNCHANGED <<io, packet, rest, parsed, failed, applied>>
  BY <1>5 DEF LinesInv
<1>6. CASE \E ls \in Datagrams : Receive(ls)
  <2>1. PICK ls \in Datagrams : Receive(ls)
    BY <1>6
  <2>2. ls \in Seq(AnyLine) /\ ls # <<>>
    <3>1. ls # <<>> /\ (ls \in Seq(Line) \/ ls \in Seq(StatsdLine))
      BY ServerAssumption
    <3>2. Line \subseteq AnyLine /\ StatsdLine \subseteq AnyLine
      BY DEF AnyLine
    <3> QED BY <3>1, <3>2, SeqMonotonic
  <2>3. packet = <<>> /\ rest = <<>>
    BY <2>1 DEF Receive, LinesInv, IoTyped
  <2>4. Len(applied) = 0 /\ parsed = 0 /\ failed = 0
    <3>1. m = 0
      BY <2>3
    <3> HIDE DEF m
    <3> QED BY <1>4, <3>1, NothingYet
  <2>5. Accounts(ls, 0, applied, parsed, failed)
    BY <2>4, NothingYet
  <2>6. EndOf(ls, ls) /\ Len(ls) - Len(ls) = 0
    BY <2>2, FirstLine
  <2>7. packet' = ls /\ rest' = ls /\ io' = "parse" /\ UNCHANGED <<applied, parsed, failed>>
    BY <2>1 DEF Receive
  <2> QED BY <1>1, <2>2, <2>5, <2>6, <2>7 DEF LinesInv
<1>7. CASE start_receive
  <2>1. rest = <<>>
    BY <1>7 DEF start_receive, IoTyped
  <2>2. io' = "idle" /\ packet' = <<>> /\ rest' = <<>> /\ applied' = <<>> /\ parsed' = 0 /\ failed' = 0
    BY <1>7, <2>1 DEF start_receive
  <2>3. <<>> \in Seq(AnyLine) /\ Len(<<>>) = 0
    OBVIOUS
  <2>4. EndOf(<<>>, <<>>)
    BY DEF EndOf
  <2>5. Accounts(<<>>, Len(<<>>) - Len(<<>>), <<>>, 0, 0)
    <3>1. Len(<<>>) - Len(<<>>) = 0
      OBVIOUS
    <3> QED BY <2>3, <3>1, NothingYet
  <2> QED BY <2>2, <2>3, <2>4, <2>5 DEF LinesInv
<1>8. CASE LineFails
  <2>1. rest # <<>> /\ ~Parses(packet[m + 1])
    BY <1>2, <1>3, <1>8 DEF LineFails
  <2>2. Accounts(packet, s, applied, parsed, IF StatusMetrics THEN failed + 1 ELSE failed)
    <3> HIDE DEF m, s
    <3>1. m \in Nat /\ s \in Nat /\ Kept(packet, s) = Kept(packet, m) \cup {m + 1}
      BY <1>3, <2>1
    <3> QED BY <1>1, <1>4, <2>1, <3>1, OneFails
  <2>3. /\ failed' = IF StatusMetrics THEN failed + 1 ELSE failed
        /\ rest' = NextLines(rest) /\ UNCHANGED <<packet, applied, parsed>>
        /\ io' \in {"reply", "parse"}
    BY <1>8 DEF LineFails, LineDone
  <2>4. EndOf(packet, NextLines(rest))
    BY <1>3, <2>1
  <2> QED BY <1>1, <2>2, <2>3, <2>4 DEF LinesInv
<1>9. ASSUME Counted, rest # <<>>, Parses(Head(rest)), UNCHANGED <<packet, failed>>
      PROVE  LinesInv'
  <2>1. Parses(packet[m + 1]) /\ packet[m + 1] \in AnyLine
    BY <1>3, <1>9
  <2>2. Accounts(packet, s, Append(applied, packet[m + 1]),
                 IF StatusMetrics THEN parsed + 1 ELSE parsed, failed)
    <3> HIDE DEF m, s
    <3>1. m \in Nat /\ s \in Nat /\ Kept(packet, s) = Kept(packet, m) \cup {m + 1}
      BY <1>3, <1>9
    <3> QED BY <1>1, <1>4, <2>1, <3>1, OneApplied
  <2>3. /\ parsed' = IF StatusMetrics THEN parsed + 1 ELSE parsed
        /\ rest' = NextLines(rest) /\ UNCHANGED <<packet, failed>>
        /\ io' \in {"reply", "parse"}
    BY <1>9 DEF Counted, LineDone
  <2>4. applied' = Append(applied, packet[m + 1])
    BY <1>3, <1>9 DEF Counted
  <2>5. EndOf(packet, NextLines(rest))
    BY <1>3, <1>9
  <2>6. applied' \in Seq(AnyLine)
    BY <1>1, <2>1, <2>4, AppendProperties
  <2> QED BY <1>1, <2>2, <2>3, <2>4, <2>5, <2>6 DEF LinesInv
<1>10. CASE LineElsewhere
  BY <1>2, <1>9, <1>10 DEF LineElsewhere
<1>11. CASE RecordReturns
  <2>1. io \in {"record", "count"} /\ Counted /\ UNCHANGED <<packet, failed>>
    BY <1>11 DEF RecordReturns
  <2>2. Parses(Head(rest))
    BY <2>1 DEF LinesInv
  <2> QED BY <1>2, <1>9, <2>1, <2>2
<1>12. CASE LineDirect \/ LineCached
  <2>1. Parses(Head(rest)) /\ io' = "record" /\ UNCHANGED <<packet, rest, parsed, failed, applied>>
    BY <1>12 DEF LineDirect, LineCached
  <2>2. Parses(Head(rest))'
    BY <2>1 DEF Parses, IsStatsd, parse_line, parse_statsd_line
  <2> QED BY <2>1, <2>2 DEF LinesInv
<1>13. CASE Record
  <2>1. io = "record" /\ io' = "count" /\ UNCHANGED <<packet, rest, parsed, failed, applied>>
    BY <1>13 DEF Record
  <2> QED BY <2>1 DEF LinesInv
<1>14. CASE Start \/ StartFails \/ Stop \/ Join \/ UpkeepCheck \/ UpkeepSummaries \/ UpkeepTimers \/ UpkeepWake
            \/ (\E i \in Ids : ExpireMeter(i)) \/ Tick \/ Stopped \/ UNCHANGED serverVars
  <2>1. UNCHANGED <<io, packet, rest, parsed, failed, applied>>
    BY <1>14 DEF Start, StartFails, Stop, Join, UpkeepCheck, UpkeepSummaries, UpkeepTimers, UpkeepWake,
                 ExpireMeter, Tick, Stopped, serverVars, ioVars
  <2> QED BY <1>5, <2>1
<1> QED BY <1>6, <1>7, <1>8, <1>10, <1>11, <1>12, <1>13, <1>14 DEF ServerNext

\* parse_lines (spectatord.cc) handles every line of a datagram once and in order: when
\* it returns, the lines that parse were applied, the others counted as errors, for
\* datagrams of any length, whatever the other threads do meanwhile.
THEOREM ServerLinesAccounted == ServerSpec => []LinesAccounted
<1>1. ServerInit => LinesInv
  <2> SUFFICES ASSUME ServerInit PROVE LinesInv
    OBVIOUS
  <2>1. io = "idle" /\ packet = <<>> /\ rest = <<>> /\ applied = <<>> /\ parsed = 0 /\ failed = 0
    BY DEF ServerInit
  <2>2. <<>> \in Seq(AnyLine) /\ Len(<<>>) - Len(<<>>) = 0
    OBVIOUS
  <2>3. EndOf(<<>>, <<>>)
    BY DEF EndOf
  <2>4. Accounts(<<>>, 0, <<>>, 0, 0)
    BY NothingYet
  <2> QED BY <2>1, <2>2, <2>3, <2>4 DEF LinesInv
<1>2. IoTyped /\ LinesInv /\ [ServerNext]_serverVars => LinesInv'
  BY LinesStep
<1>3. IoTyped /\ LinesInv => LinesAccounted
  <2> SUFFICES ASSUME IoTyped, LinesInv, io = "reply" PROVE LinesAccounted
    BY DEF LinesAccounted
  <2>1. rest = <<>> /\ packet \in Seq(AnyLine)
    BY DEF IoTyped, LinesInv
  <2>2. Len(packet) - Len(rest) = Len(packet) /\ DOMAIN packet = 1..Len(packet)
    BY <2>1, LenProperties
  <2>3. Accounts(packet, Len(packet), applied, parsed, failed)
    BY <2>2 DEF LinesInv
  <2> DEFINE kept == {n \in DOMAIN packet : n = 1 \/ IsStatsd(packet[n]) \/ packet[n].type # ""}
             good == {n \in kept : Parses(packet[n])}
  <2>4. kept = Kept(packet, Len(packet)) /\ good = Good(packet, Len(packet))
    BY <2>2 DEF Kept, Good
  <2> HIDE DEF kept, good
  <2>5. /\ Len(applied) = Cardinality(good)
        /\ \A n \in good : applied[Cardinality({j \in good : j <= n})] = packet[n]
        /\ parsed = IF StatusMetrics THEN Cardinality(good) ELSE 0
        /\ failed = IF StatusMetrics THEN Cardinality(kept \ good) ELSE 0
    BY <2>3, <2>4 DEF Accounts
  <2> QED BY <2>5 DEF LinesAccounted, kept, good
<1> QED BY <1>1, <1>2, <1>3, IoTypes, PTL DEF ServerSpec

-----------------------------------------------------------------------------
(***************************************************************************)
(* The texts of lines, of statsd tags and of ids.  A loop of a parser is   *)
(* the sequence of its states; what holds of each state follows by         *)
(* induction over the turns.                                               *)
(***************************************************************************)

\* The first position of a set of symbols.
LEMMA FindFirst ==
  ASSUME NEW s, Len(s) \in Nat, NEW set, NEW from \in Nat
  PROVE  \/ /\ find_first_of(s, set, from) = 0
            /\ \A j \in from..Len(s) : s[j] \notin set
         \/ /\ find_first_of(s, set, from) \in from..Len(s)
            /\ s[find_first_of(s, set, from)] \in set
            /\ \A i \in from..find_first_of(s, set, from) - 1 : s[i] \notin set
<1> DEFINE S == {j \in from..Len(s) : s[j] \in set}
<1>1. CASE S = {}
  BY <1>1 DEF find_first_of
<1>2. CASE S # {}
  <2>1. S \in SUBSET Nat
    OBVIOUS
  <2>2. PICK x \in S : \A y \in S : x <= y
    BY <1>2, <2>1, LeastElement
  <2>3. \A i \in from..x - 1 : i \in from..Len(s) /\ ~(x <= i)
    BY <2>2
  <2>4. x \in from..Len(s) /\ s[x] \in set /\ \A i \in from..x - 1 : s[i] \notin set
    BY <2>2, <2>3
  <2> QED
    BY <2>4 DEF find_first_of
<1> QED
  BY <1>1, <1>2

LEMMA FindIs ==
  ASSUME NEW s, Len(s) \in Nat, NEW set, NEW from \in Nat \ {0}, NEW j \in from..Len(s),
         s[j] \in set, \A i \in from..j - 1 : s[i] \notin set
  PROVE  find_first_of(s, set, from) = j
<1> DEFINE f == find_first_of(s, set, from)
<1>1. \/ f = 0 /\ \A i \in from..Len(s) : s[i] \notin set
      \/ f \in from..Len(s) /\ s[f] \in set /\ \A i \in from..f - 1 : s[i] \notin set
  BY FindFirst
<1> HIDE DEF f
<1>2. f \in from..Len(s) /\ s[f] \in set /\ \A i \in from..f - 1 : s[i] \notin set
  BY <1>1
<1>3. ~(f < j)
  BY <1>2
<1>4. ~(j < f)
  BY <1>2
<1>5. f = j
  BY <1>2, <1>3, <1>4
<1> QED
  BY <1>5 DEF f

LEMMA FindNone ==
  ASSUME NEW s, NEW set, NEW from, \A j \in from..Len(s) : s[j] \notin set
  PROVE  find_first_of(s, set, from) = 0
  BY DEF find_first_of

\* A part of a part.
LEMMA PartOfPart ==
  ASSUME NEW S, NEW s \in Seq(S), NEW a \in Nat, NEW b \in Nat, a > 0, b <= Len(s),
         NEW c \in Nat, NEW d \in Nat, c > 0, a + d - 1 <= b
  PROVE  SubSeq(SubSeq(s, a, b), c, d) = SubSeq(s, a + c - 1, a + d - 1)
<1> DEFINE u == SubSeq(s, a, b)
           v == SubSeq(u, c, d)
           w == SubSeq(s, a + c - 1, a + d - 1)
<1>1. Len(s) \in Nat /\ \A i \in 1..Len(s) : s[i] \in S
  BY ElementOfSeq, LenProperties
<1>2. u \in Seq(S) /\ \A i \in 1..b - a + 1 : u[i] = s[a + i - 1] /\ u[i] \in S
  <2>1. \A i \in a..b : s[i] \in S
    BY <1>1
  <2>2. u \in Seq(S) /\ \A i \in 1..b - a + 1 : u[i] = s[a + i - 1]
    BY <2>1, SubSeqProperties
  <2>3. \A i \in 1..b - a + 1 : a + i - 1 \in 1..Len(s)
    BY <1>1
  <2> QED BY <1>1, <2>2, <2>3
<1> HIDE DEF u
<1>3. /\ v \in Seq(S) /\ Len(v) = IF c <= d THEN d - c + 1 ELSE 0
      /\ \A i \in 1..d - c + 1 : v[i] = u[c + i - 1]
  <2>1. \A i \in c..d : i \in 1..b - a + 1
    OBVIOUS
  <2>2. \A i \in c..d : u[i] \in S
    BY <1>2, <2>1
  <2> QED BY <2>2, SubSeqProperties
<1>4. /\ w \in Seq(S) /\ Len(w) = IF c <= d THEN d - c + 1 ELSE 0
      /\ \A i \in 1..d - c + 1 : w[i] = s[a + c - 1 + i - 1]
  <2> DEFINE m == a + c - 1
             n == a + d - 1
  <2>1. m \in Int /\ n \in Int /\ n - m + 1 = d - c + 1 /\ (m <= n <=> c <= d)
    OBVIOUS
  <2>2. \A i \in m..n : s[i] \in S
    BY <1>1
  <2> HIDE DEF m, n
  <2>3. /\ SubSeq(s, m, n) \in Seq(S) /\ Len(SubSeq(s, m, n)) = IF m <= n THEN n - m + 1 ELSE 0
        /\ \A i \in 1..n - m + 1 : SubSeq(s, m, n)[i] = s[m + i - 1]
    BY <2>1, <2>2, SubSeqProperties
  <2>4. /\ SubSeq(s, m, n) \in Seq(S) /\ Len(SubSeq(s, m, n)) = IF c <= d THEN d - c + 1 ELSE 0
        /\ \A i \in 1..d - c + 1 : SubSeq(s, m, n)[i] = s[m + i - 1]
    BY <2>1, <2>3
  <2> QED BY <2>4 DEF m, n
<1> HIDE DEF v, w
<1>5. \A i \in 1..Len(v) : i \in 1..d - c + 1 /\ c + i - 1 \in 1..b - a + 1 /\ a + (c + i - 1) - 1 = a + c - 1 + i - 1
  BY <1>3
<1>6. \A i \in 1..Len(v) : v[i] = w[i]
  BY <1>2, <1>3, <1>4, <1>5
<1>7. v = w
  BY <1>3, <1>4, <1>6, SeqEqual
<1> QED BY <1>7 DEF u, v, w

-----------------------------------------------------------------------------
\* The states of a loop after each of its turns.
LoopStates(f, parser, s, start, n) ==
  f = [i \in 0..n |-> IF i = 0 THEN start ELSE Turn(parser, s, f[i - 1])]

LEMMA LoopStatesAt ==
  ASSUME NEW f, NEW parser, NEW s, NEW start, NEW n \in Nat, LoopStates(f, parser, s, start, n)
  PROVE  \A i \in 0..n : f[i] = IF i = 0 THEN start ELSE Turn(parser, s, f[i - 1])
<1> DEFINE F == [i \in 0..n |-> IF i = 0 THEN start ELSE Turn(parser, s, f[i - 1])]
<1>1. \A i \in 0..n : F[i] = IF i = 0 THEN start ELSE Turn(parser, s, f[i - 1])
  OBVIOUS
<1>2. f = F
  BY DEF LoopStates
<1> HIDE DEF F
<1>3. \A i \in 0..n : f[i] = F[i]
  BY <1>2
<1> QED BY <1>1, <1>3

LEMMA LoopStatesExist ==
  ASSUME NEW parser, NEW s, NEW start
  PROVE  \A n \in Nat : \E f : LoopStates(f, parser, s, start, n)
<1> DEFINE G == {n \in Nat : \E f : LoopStates(f, parser, s, start, n)}
<1>1. 0 \in G
  <2> DEFINE e == [i \in 0..0 |-> start]
  <2>1. \A i \in 0..0 : i = 0
    OBVIOUS
  <2>2. e = [i \in 0..0 |-> IF i = 0 THEN start ELSE Turn(parser, s, e[i - 1])]
    BY <2>1
  <2> HIDE DEF e
  <2> QED BY <2>2 DEF LoopStates
<1>2. ASSUME NEW n \in G PROVE n + 1 \in G
  <2>1. PICK f : LoopStates(f, parser, s, start, n)
    OBVIOUS
  <2> DEFINE g == [i \in 0..n + 1 |-> IF i = 0 THEN start ELSE Turn(parser, s, f[i - 1])]
  <2>2. n \in Nat
    OBVIOUS
  <2>3. \A i \in 0..n : f[i] = g[i]
    <3>1. \A i \in 0..n : g[i] = IF i = 0 THEN start ELSE Turn(parser, s, f[i - 1])
      BY <2>2
    <3>2. \A i \in 0..n : f[i] = IF i = 0 THEN start ELSE Turn(parser, s, f[i - 1])
      BY <2>1, <2>2, LoopStatesAt
    <3> HIDE DEF g
    <3> QED BY <3>1, <3>2
  <2>4. \A i \in 0..n + 1 : i # 0 => f[i - 1] = g[i - 1]
    <3> HIDE DEF g
    <3>1. \A i \in 0..n + 1 : i # 0 => i - 1 \in 0..n
      BY <2>2
    <3> QED BY <2>3, <3>1
  <2>5. g = [i \in 0..n + 1 |-> IF i = 0 THEN start ELSE Turn(parser, s, g[i - 1])]
    BY <2>4
  <2> HIDE DEF g
  <2>6. LoopStates(g, parser, s, start, n + 1) /\ n + 1 \in Nat
    BY <2>2, <2>5 DEF LoopStates
  <2> QED BY <2>6
<1> HIDE DEF G
<1>3. G \in SUBSET Nat
  BY DEF G
<1>4. \A n \in Nat : n \in G
  BY <1>1, <1>2, <1>3, SetInduction
<1> QED BY <1>4 DEF G

\* Loop is the last of the states that begin with start and follow one another by
\* turns.
LEMMA LoopTurns ==
  ASSUME NEW parser, NEW s, NEW start, Len(s) \in Nat
  PROVE  \E f : /\ Loop(parser, s, start) = f[Len(s) + 1] /\ f[0] = start
                /\ \A n \in 0..Len(s) : f[n + 1] = Turn(parser, s, f[n])
<1> DEFINE N == Len(s) + 1
           c == CHOOSE f : LoopStates(f, parser, s, start, N)
<1>0. N \in Nat
  OBVIOUS
<1>1. LoopStates(c, parser, s, start, N)
  BY <1>0, LoopStatesExist
<1>2. Loop(parser, s, start) = c[N]
  BY DEF Loop, LoopStates
<1> HIDE DEF c
<1>3. \A i \in 0..N : c[i] = IF i = 0 THEN start ELSE Turn(parser, s, c[i - 1])
  <2> HIDE DEF N
  <2> QED BY <1>0, <1>1, LoopStatesAt
<1>4. ASSUME NEW n \in 0..Len(s) PROVE c[n + 1] = Turn(parser, s, c[n])
  <2>1. n + 1 \in 0..N /\ n + 1 # 0 /\ n + 1 - 1 = n
    OBVIOUS
  <2> HIDE DEF N
  <2> QED BY <1>3, <2>1
<1>5. c[0] = start
  <2>1. 0 \in 0..N
    OBVIOUS
  <2> HIDE DEF N
  <2> QED BY <1>3, <2>1
<1> QED BY <1>2, <1>4, <1>5
-----------------------------------------------------------------------------
\* The tags of a list and of the list with one more pair.
LEMMA NoPairs == PairMap({}) = NoTags
  BY DEF PairMap, NoTags

LEMMA PairMapNext ==
  ASSUME NEW P, NEW p, IsPairList(P \cup {p})
  PROVE  PairMap(P \cup {p}) = With(PairMap(P), KeyOf(p), ValueOf(p))
<1> DEFINE D == {KeyOf(q) : q \in P}
           E == {KeyOf(q) : q \in P \cup {p}}
           a(k) == ValueOf(CHOOSE q \in P \cup {p} : KeyOf(q) = k)
           b(k) == ValueOf(CHOOSE q \in P : KeyOf(q) = k)
<1>1. \A q, r \in P \cup {p} : KeyOf(q) = KeyOf(r) => q = r
  BY DEF IsPairList
<1>2. E = D \cup {KeyOf(p)}
  OBVIOUS
<1>3. a(KeyOf(p)) = ValueOf(p)
  BY <1>1
<1>4. ASSUME NEW k \in D, k # KeyOf(p) PROVE a(k) = b(k)
  <2>1. PICK q \in P : KeyOf(q) = k
    OBVIOUS
  <2>2. (CHOOSE r \in P : KeyOf(r) = k) = q
    BY <1>1, <2>1
  <2>3. (CHOOSE r \in P \cup {p} : KeyOf(r) = k) = q
    BY <1>1, <2>1
  <2> QED BY <2>2, <2>3
<1>5. PairMap(P) = [k \in D |-> b(k)] /\ PairMap(P \cup {p}) = [k \in E |-> a(k)]
  BY DEF PairMap
<1> HIDE DEF D, E, a, b
<1>6. DOMAIN PairMap(P) = D /\ \A k \in D : PairMap(P)[k] = b(k)
  BY <1>5
<1>7. With(PairMap(P), KeyOf(p), ValueOf(p)) =
        [k \in D \cup {KeyOf(p)} |-> IF k = KeyOf(p) THEN ValueOf(p) ELSE PairMap(P)[k]]
  BY <1>6 DEF With
<1>8. \A k \in D \cup {KeyOf(p)} : a(k) = IF k = KeyOf(p) THEN ValueOf(p) ELSE PairMap(P)[k]
  BY <1>3, <1>4, <1>6
<1>9. [k \in D \cup {KeyOf(p)} |-> a(k)] =
        [k \in D \cup {KeyOf(p)} |-> IF k = KeyOf(p) THEN ValueOf(p) ELSE PairMap(P)[k]]
  BY <1>8
<1> QED BY <1>2, <1>5, <1>7, <1>9

-----------------------------------------------------------------------------
Texts == Seq(Symbols)

\* Where a piece starts, and the pieces of those at C that start before x.
Starts(s) == {0} \cup Commas(s)
PiecesBefore(s, C, x) == {Piece(s, i) : i \in {j \in C : j < x}}

LEMMA TextType ==
  ASSUME NEW s \in Texts
  PROVE  /\ s \in Seq(Symbols) /\ Len(s) \in Nat /\ DOMAIN s = 1..Len(s)
         /\ \A i \in 1..Len(s) : s[i] \in Symbols /\ s[i] # ":" /\ s[i] # "end"
  BY LineAssumption, ElementOfSeq, LenProperties DEF Texts

LEMMA CommasType ==
  ASSUME NEW s \in Texts
  PROVE  /\ \A i : i \in Commas(s) <=> i \in 1..Len(s) /\ s[i] = Comma
         /\ Commas(s) \in SUBSET Nat /\ Starts(s) \in SUBSET Nat /\ Starts(s) \subseteq 0..Len(s)
  BY TextType DEF Commas, Starts

LEMMA PiecesNext ==
  ASSUME NEW s, NEW C \in SUBSET Nat, NEW x \in C, NEW y \in Nat, x < y, \A j \in C : x < j => y <= j
  PROVE  PiecesBefore(s, C, y) = PiecesBefore(s, C, x) \cup {Piece(s, x)}
<1>1. \A j \in C : j < y <=> j < x \/ j = x
  OBVIOUS
<1>2. {j \in C : j < y} = {j \in C : j < x} \cup {x}
  BY <1>1
<1> QED BY <1>2 DEF PiecesBefore

\* A piece ends at the next comma or with the text.
LEMMA PieceEnds ==
  ASSUME NEW s \in Texts, NEW i \in 0..Len(s)
  PROVE  /\ PieceEnd(s, i) \in i + 1..Len(s) + 1
         /\ \A j \in i + 1..PieceEnd(s, i) - 1 : j \in 1..Len(s) /\ s[j] # Comma
         /\ PieceEnd(s, i) <= Len(s) => PieceEnd(s, i) \in Commas(s)
         /\ \A j \in Starts(s) : i < j => PieceEnd(s, i) <= j
<1>1. Len(s) \in Nat /\ i \in Nat /\ i <= Len(s) /\ i + 1 \in Nat \ {0}
  BY TextType
<1> DEFINE f == find_first_of(s, {Comma}, i + 1)
<1>2. \/ f = 0 /\ \A j \in i + 1..Len(s) : s[j] \notin {Comma}
      \/ f \in i + 1..Len(s) /\ s[f] \in {Comma} /\ \A j \in i + 1..f - 1 : s[j] \notin {Comma}
  BY <1>1, FindFirst
<1>3. PieceEnd(s, i) = IF f = 0 THEN Len(s) + 1 ELSE f
  BY DEF PieceEnd
<1> HIDE DEF f
<1> DEFINE e == PieceEnd(s, i)
<1> HIDE DEF e
<1>4. e \in i + 1..Len(s) + 1 /\ (\A j \in i + 1..e - 1 : j \in 1..Len(s) /\ s[j] # Comma) /\ (e <= Len(s) => s[e] = Comma)
  BY <1>1, <1>2, <1>3 DEF e
<1>5. e <= Len(s) => e \in Commas(s)
  BY <1>1, <1>4, CommasType
<1>6. ASSUME NEW j \in Starts(s), i < j PROVE e <= j
  <2>1. j \in 1..Len(s) /\ s[j] = Comma
    BY <1>1, <1>6, CommasType DEF Starts
  <2> QED BY <1>1, <1>4, <1>6, <2>1
<1> QED BY <1>1, <1>4, <1>5, <1>6 DEF e

\* Where the key and the value of a pair lie in the text.
LEMMA PairParts ==
  ASSUME NEW s \in Texts, NEW i \in Starts(s), IsPair(Piece(s, i))
  PROVE  \E k \in i + 2..PieceEnd(s, i) - 2 :
           /\ s[k] = "=" /\ \A j \in i + 1..PieceEnd(s, i) - 1 : j # k => s[j] # "="
           /\ KeyOf(Piece(s, i)) = SubSeq(s, i + 1, k - 1)
           /\ ValueOf(Piece(s, i)) = SubSeq(s, k + 1, PieceEnd(s, i) - 1)
<1> DEFINE e == PieceEnd(s, i)
           p == Piece(s, i)
<1>1. /\ Len(s) \in Nat /\ e \in i + 1..Len(s) + 1 /\ i \in Nat /\ s \in Seq(Symbols)
      /\ \A j \in i + 1..e - 1 : j \in 1..Len(s)
  <2>1. i \in 0..Len(s)
    BY CommasType
  <2> QED BY <2>1, PieceEnds, TextType
<1>2. p = SubSeq(s, i + 1, e - 1)
  BY DEF Piece
<1> HIDE DEF e, p
<1>3. p \in Seq(Symbols) /\ Len(p) = e - 1 - i /\ \A j \in 1..Len(p) : p[j] = s[i + j]
  <2>1. \A j \in i + 1..e - 1 : s[j] \in Symbols
    BY <1>1, TextType
  <2>2. /\ p \in Seq(Symbols) /\ Len(p) = IF i + 1 <= e - 1 THEN e - 1 - (i + 1) + 1 ELSE 0
        /\ \A j \in 1..e - 1 - (i + 1) + 1 : p[j] = s[i + 1 + j - 1]
    <3>1. i + 1 \in Int /\ e - 1 \in Int
      BY <1>1
    <3> QED BY <1>2, <2>1, <3>1, SubSeqProperties
  <2>3. Len(p) = e - 1 - i
    BY <1>1, <2>2
  <2>4. ASSUME NEW j \in 1..Len(p) PROVE p[j] = s[i + j]
    <3>1. j \in 1..e - 1 - (i + 1) + 1 /\ i + 1 + j - 1 = i + j
      BY <1>1, <2>3
    <3> QED BY <2>2, <3>1
  <2> QED BY <2>2, <2>3, <2>4
<1>4. PICK x \in 2..Len(p) - 1 : p[x] = "=" /\ \A j \in DOMAIN p \ {x} : p[j] # "="
  BY DEF IsPair, p
<1>5. DOMAIN p = 1..Len(p) /\ Len(p) \in Nat /\ x \in Nat
  BY <1>3, <1>4, LenProperties
<1>6. find_first_of(p, {"="}, 1) = x
  <2>1. x \in 1..Len(p) /\ p[x] \in {"="}
    BY <1>4, <1>5
  <2>2. \A j \in 1..x - 1 : p[j] \notin {"="}
    <3>1. \A j \in 1..x - 1 : j \in 1..Len(p) /\ j # x
      BY <1>4, <1>5
    <3> QED BY <1>4, <1>5, <3>1
  <2> QED BY <1>5, <2>1, <2>2, FindIs
<1> DEFINE k == i + x
<1>7. k \in i + 2..e - 2 /\ k \in Nat /\ e - 1 \in Nat
  BY <1>1, <1>3, <1>4
<1>8. s[k] = "="
  <2>1. x \in 1..Len(p)
    BY <1>4, <1>5
  <2> QED BY <1>3, <1>4, <2>1
<1>9. ASSUME NEW j \in i + 1..e - 1, j # k PROVE s[j] # "="
  <2>1. j - i \in 1..Len(p) /\ j - i # x /\ i + (j - i) = j
    BY <1>1, <1>3, <1>4, <1>9
  <2> QED BY <1>3, <1>4, <1>5, <2>1
<1>10. KeyOf(p) = SubSeq(s, i + 1, k - 1)
  <2>1. i + 1 \in Nat /\ i + 1 > 0 /\ e - 1 <= Len(s) /\ x - 1 \in Nat /\ 1 \in Nat /\ 1 > 0 /\ i + 1 + (x - 1) - 1 <= e - 1
    BY <1>1, <1>3, <1>4
  <2>2. SubSeq(SubSeq(s, i + 1, e - 1), 1, x - 1) = SubSeq(s, i + 1 + 1 - 1, i + 1 + (x - 1) - 1)
    BY <1>1, <1>7, <2>1, PartOfPart
  <2>3. i + 1 + 1 - 1 = i + 1 /\ i + 1 + (x - 1) - 1 = k - 1
    BY <1>1, <1>4
  <2> HIDE DEF k
  <2> QED BY <1>2, <1>6, <2>2, <2>3 DEF KeyOf
<1>11. ValueOf(p) = SubSeq(s, k + 1, e - 1)
  <2>1. i + 1 \in Nat /\ i + 1 > 0 /\ e - 1 <= Len(s) /\ x + 1 \in Nat /\ x + 1 > 0 /\ i + 1 + Len(p) - 1 <= e - 1
    BY <1>1, <1>3, <1>4
  <2>2. SubSeq(SubSeq(s, i + 1, e - 1), x + 1, Len(p)) = SubSeq(s, i + 1 + (x + 1) - 1, i + 1 + Len(p) - 1)
    BY <1>1, <1>5, <1>7, <2>1, PartOfPart
  <2>3. i + 1 + (x + 1) - 1 = k + 1 /\ i + 1 + Len(p) - 1 = e - 1
    BY <1>1, <1>3, <1>4
  <2> HIDE DEF k
  <2> QED BY <1>2, <1>6, <2>2, <2>3 DEF ValueOf
<1>12. /\ s[k] = "=" /\ \A j \in i + 1..e - 1 : j # k => s[j] # "="
       /\ KeyOf(p) = SubSeq(s, i + 1, k - 1) /\ ValueOf(p) = SubSeq(s, k + 1, e - 1)
  BY <1>8, <1>9, <1>10, <1>11
<1> HIDE DEF k
<1> QED BY <1>7, <1>12 DEF e, p
-----------------------------------------------------------------------------
LEMMA Separators == Comma # ":" /\ Comma # "=" /\ Comma # "1" /\ Comma # "end"
  BY Zenon DEF Comma

\* A text in a line, with a value.
AsLine(s) == s \o <<":", "1">>

LEMMA LineText ==
  ASSUME NEW s \in Texts
  PROVE  /\ Len(AsLine(s)) = Len(s) + 2
         /\ \A i \in 1..Len(s) : AsLine(s)[i] = s[i]
         /\ AsLine(s)[Len(s) + 1] = ":" /\ AsLine(s)[Len(s) + 2] = "1"
         /\ \A a, b \in Nat : a > 0 /\ b <= Len(s) => SubSeq(AsLine(s), a, b) = SubSeq(s, a, b)
<1> DEFINE S == Symbols \cup {":", "1"}
           v == <<":", "1">>
<1>1. s \in Seq(S) /\ v \in Seq(S) /\ Len(s) \in Nat /\ Len(v) = 2 /\ v[1] = ":" /\ v[2] = "1"
  BY TextType
<1>2. \A i \in 1..Len(s) : s[i] \in S
  BY TextType
<1> HIDE DEF v, S
<1>3. /\ Len(s \o v) = Len(s) + Len(v)
      /\ \A i \in 1..Len(s) + Len(v) : (s \o v)[i] = IF i <= Len(s) THEN s[i] ELSE v[i - Len(s)]
  BY <1>1, ConcatProperties
<1>4. /\ Len(s \o v) = Len(s) + 2 /\ \A i \in 1..Len(s) : (s \o v)[i] = s[i]
      /\ (s \o v)[Len(s) + 1] = ":" /\ (s \o v)[Len(s) + 2] = "1"
  BY <1>1, <1>3
<1>5. ASSUME NEW a \in Nat, NEW b \in Nat, a > 0, b <= Len(s) PROVE SubSeq(s \o v, a, b) = SubSeq(s, a, b)
  <2> DEFINE t == s \o v
  <2>1. \A i \in a..b : i \in 1..Len(s)
    BY <1>1, <1>5
  <2>2. \A i \in a..b : s[i] \in S /\ t[i] = s[i] /\ t[i] \in S
    BY <1>2, <1>4, <2>1
  <2> HIDE DEF t
  <2>3. /\ SubSeq(t, a, b) \in Seq(S) /\ Len(SubSeq(t, a, b)) = IF a <= b THEN b - a + 1 ELSE 0
        /\ \A i \in 1..b - a + 1 : SubSeq(t, a, b)[i] = t[a + i - 1]
    BY <2>2, SubSeqProperties
  <2>4. /\ SubSeq(s, a, b) \in Seq(S) /\ Len(SubSeq(s, a, b)) = IF a <= b THEN b - a + 1 ELSE 0
        /\ \A i \in 1..b - a + 1 : SubSeq(s, a, b)[i] = s[a + i - 1]
    BY <2>2, SubSeqProperties
  <2>5. \A i \in 1..b - a + 1 : a + i - 1 \in a..b
    OBVIOUS
  <2>6. \A i \in 1..Len(SubSeq(t, a, b)) : i \in 1..b - a + 1
    BY <2>3
  <2>7. \A i \in 1..Len(SubSeq(t, a, b)) : SubSeq(t, a, b)[i] = SubSeq(s, a, b)[i]
    BY <2>2, <2>3, <2>4, <2>5, <2>6
  <2>8. SubSeq(t, a, b) = SubSeq(s, a, b)
    BY <2>3, <2>4, <2>7, SeqEqual
  <2> QED BY <2>8 DEF t
<1> QED BY <1>4, <1>5 DEF AsLine, v

LEMMA LineFinds ==
  ASSUME NEW s \in Texts, NEW i \in 0..Len(s)
  PROVE  /\ find_first_of(AsLine(s), {"="}, i + 1) = find_first_of(s, {"="}, i + 1)
         /\ find_first_of(AsLine(s), {Comma, ":"}, i + 1) = PieceEnd(s, i)
<1>1. Len(s) \in Nat /\ i + 1 \in Nat \ {0} /\ i \in Nat
  BY TextType
<1> DEFINE t == AsLine(s)
<1>2. Len(t) = Len(s) + 2 /\ (\A j \in 1..Len(s) : t[j] = s[j]) /\ t[Len(s) + 1] = ":" /\ t[Len(s) + 2] = "1"
  BY LineText
<1> HIDE DEF t
<1>3. find_first_of(t, {"="}, i + 1) = find_first_of(s, {"="}, i + 1)
  <2> DEFINE f == find_first_of(s, {"="}, i + 1)
  <2>1. \/ f = 0 /\ \A j \in i + 1..Len(s) : s[j] \notin {"="}
        \/ f \in i + 1..Len(s) /\ s[f] \in {"="} /\ \A j \in i + 1..f - 1 : s[j] \notin {"="}
    BY <1>1, FindFirst
  <2> HIDE DEF f
  <2>2. CASE f = 0
    <3>1. \A j \in i + 1..Len(t) : t[j] \notin {"="}
      BY <1>1, <1>2, <2>1, <2>2
    <3> QED BY <2>2, <3>1, FindNone DEF f
  <2>3. CASE f # 0
    <3>1. f \in i + 1..Len(t) /\ t[f] \in {"="} /\ \A j \in i + 1..f - 1 : t[j] \notin {"="}
      BY <1>1, <1>2, <2>1, <2>3
    <3>2. Len(t) \in Nat
      BY <1>1, <1>2
    <3> QED BY <1>1, <3>1, <3>2, FindIs DEF f
  <2> QED BY <2>2, <2>3
<1>4. find_first_of(t, {Comma, ":"}, i + 1) = PieceEnd(s, i)
  <2> DEFINE e == PieceEnd(s, i)
  <2>1. /\ e \in i + 1..Len(s) + 1 /\ (\A j \in i + 1..e - 1 : j \in 1..Len(s) /\ s[j] # Comma)
        /\ e <= Len(s) => e \in Commas(s)
    BY PieceEnds
  <2> HIDE DEF e
  <2>2. e \in i + 1..Len(t) /\ Len(t) \in Nat
    BY <1>1, <1>2, <2>1
  <2>3. t[e] \in {Comma, ":"}
    BY <1>1, <1>2, <2>1, CommasType
  <2>4. \A j \in i + 1..e - 1 : t[j] \notin {Comma, ":"}
    BY <1>2, <2>1, TextType
  <2> QED BY <1>1, <2>2, <2>3, <2>4, FindIs DEF e
<1> QED BY <1>3, <1>4 DEF t

-----------------------------------------------------------------------------
\* A turn of either parser at a comma, and of the line's at its ':'.
LEMMA TurnAtComma ==
  ASSUME NEW s \in Texts, NEW x \in Commas(s), NEW m
  PROVE  LET k == find_first_of(s, {"="}, x + 1)
             e == PieceEnd(s, k)
             tags == With(m, SubSeq(s, x + 1, k - 1), SubSeq(s, k + 1, e - 1))
         IN /\ k = 0 =>
                 /\ MeasurementTags(AsLine(s), Scan(x, "turn", m)) = Scan(x + 1, "done", m)
                 /\ IdTags(s, Scan(x, "turn", m)) = Scan(x, "done", m)
            /\ k # 0 =>
                 /\ k \in x + 1..Len(s) /\ e \in k + 1..Len(s) + 1 /\ (e <= Len(s) => e \in Commas(s))
                 /\ MeasurementTags(AsLine(s), Scan(x, "turn", m)) = Scan(e, "turn", tags)
                 /\ IdTags(s, Scan(x, "turn", m)) = Scan(e, IF e = Len(s) + 1 THEN "done" ELSE "turn", tags)
<1> DEFINE k == find_first_of(s, {"="}, x + 1)
           e == PieceEnd(s, k)
           v == find_first_of(s, {Comma}, k + 1)
           st == Scan(x, "turn", m)
           t == AsLine(s)
<1>1. Len(s) \in Nat /\ x \in 1..Len(s) /\ x \in 0..Len(s) /\ s[x] = Comma /\ x + 1 \in Nat
  BY TextType, CommasType
<1>2. \/ k = 0
      \/ k \in x + 1..Len(s)
  BY <1>1, FindFirst
<1>3. find_first_of(t, {"="}, x + 1) = k /\ t[x] = Comma
  BY <1>1, LineFinds, LineText
<1>4. k # 0 => find_first_of(t, {Comma, ":"}, k + 1) = e
  <2>1. k # 0 => k \in 0..Len(s)
    BY <1>1, <1>2
  <2> HIDE DEF k
  <2> QED BY <2>1, LineFinds
<1>5. k # 0 => e \in k + 1..Len(s) + 1 /\ (e <= Len(s) => e \in Commas(s)) /\ (v = 0 <=> e = Len(s) + 1) /\ e = IF v = 0 THEN Len(s) + 1 ELSE v
  <2>1. k # 0 => k \in 0..Len(s) /\ k + 1 \in Nat
    BY <1>1, <1>2
  <2> HIDE DEF k
  <2>2. k # 0 => e \in k + 1..Len(s) + 1 /\ (e <= Len(s) => e \in Commas(s))
    BY <2>1, PieceEnds
  <2>3. e = IF v = 0 THEN Len(s) + 1 ELSE v
    BY DEF PieceEnd
  <2>4. k # 0 => v = 0 \/ v \in k + 1..Len(s)
    BY <1>1, <2>1, FindFirst
  <2> HIDE DEF v
  <2> QED BY <1>1, <2>1, <2>2, <2>3, <2>4
<1>6. ASSUME k # 0 PROVE SubSeq(t, x + 1, k - 1) = SubSeq(s, x + 1, k - 1) /\ SubSeq(t, k + 1, e - 1) = SubSeq(s, k + 1, e - 1)
  <2>1. x + 1 \in Nat /\ x + 1 > 0 /\ k - 1 \in Nat /\ k - 1 <= Len(s) /\ k + 1 \in Nat /\ k + 1 > 0 /\ e - 1 \in Nat /\ e - 1 <= Len(s)
    <3> HIDE DEF k, e
    <3> QED BY <1>1, <1>2, <1>5, <1>6
  <2> HIDE DEF k, e
  <2> QED BY <2>1, LineText
<1>7. st.pos = x /\ st.status = "turn" /\ st.tags = m /\ st = [pos |-> x, status |-> "turn", tags |-> m]
  BY DEF Scan
<1>8. CASE k = 0
  <2>1. MeasurementTags(t, st) = Scan(x + 1, "done", m)
    <3> HIDE DEF st, k, t
    <3> QED BY <1>3, <1>7, <1>8, Separators DEF MeasurementTags
  <2>2. IdTags(s, st) = Scan(x, "done", m)
    <3> HIDE DEF st
    <3> QED BY <1>7, <1>8 DEF IdTags
  <2> QED BY <1>8, <2>1, <2>2
<1>9. CASE k # 0
  <2>0. e # 0
    <3> HIDE DEF e, k
    <3> QED BY <1>1, <1>2, <1>5, <1>9
  <2>1. MeasurementTags(t, st) = Scan(e, "turn", With(m, SubSeq(s, x + 1, k - 1), SubSeq(s, k + 1, e - 1)))
    <3>1. MeasurementTags(t, st) =
            Scan(e, "turn", With(m, SubSeq(t, x + 1, k - 1), SubSeq(t, k + 1, e - 1)))
      <4> HIDE DEF st, k, t, e
      <4> QED BY <1>3, <1>4, <1>7, <1>9, <2>0, Separators DEF MeasurementTags
    <3> HIDE DEF st, k, t, e
    <3> QED BY <1>6, <1>9, <3>1
  <2>2. IdTags(s, st) = Scan(e, IF e = Len(s) + 1 THEN "done" ELSE "turn", With(m, SubSeq(s, x + 1, k - 1), SubSeq(s, k + 1, e - 1)))
    <3>1. IdTags(s, st) =
            Scan(e, IF v = 0 THEN "done" ELSE "turn", With(m, SubSeq(s, x + 1, k - 1), SubSeq(s, k + 1, e - 1)))
      <4>1. e = IF v = 0 THEN Len(s) + 1 ELSE v
        BY <1>5, <1>9
      <4> HIDE DEF st, e
      <4> QED BY <1>7, <1>9, <4>1 DEF IdTags
    <3> HIDE DEF st, k, t, e, v
    <3> QED BY <1>5, <1>9, <3>1
  <2> HIDE DEF k, e, t, v
  <2>3. k \in x + 1..Len(s) /\ e \in k + 1..Len(s) + 1 /\ (e <= Len(s) => e \in Commas(s))
    BY <1>2, <1>5, <1>9
  <2> QED BY <1>9, <2>1, <2>2, <2>3 DEF k, e, t
<1> QED BY <1>8, <1>9

LEMMA TurnAtEnd ==
  ASSUME NEW s \in Texts, NEW m
  PROVE  MeasurementTags(AsLine(s), Scan(Len(s) + 1, "turn", m)) = Scan(Len(s) + 1, "done", m)
  BY LineText DEF MeasurementTags, Scan

LEMMA TurnAfter ==
  ASSUME NEW s, NEW x, NEW m
  PROVE  MeasurementTags(s, Scan(x, "done", m)) = Scan(x, "done", m) /\ IdTags(s, Scan(x, "done", m)) = Scan(x, "done", m)
  BY DEF MeasurementTags, IdTags, Scan
LEMMA ScanFields ==
  ASSUME NEW x, NEW y, NEW m
  PROVE  Scan(x, y, m).pos = x /\ Scan(x, y, m).status = y /\ Scan(x, y, m).tags = m
  BY DEF Scan

IsScan(a) == a = Scan(a.pos, a.status, a.tags)

\* a is the state of the loop over a line, b of that over an id, after n turns.
SameScan(s, a, b, n) ==
  /\ IsScan(a) /\ IsScan(b) /\ a.tags = b.tags /\ a.pos \in Nat
  /\ \/ a.status = "turn" /\ a.pos \in Commas(s) /\ b = a /\ a.pos > n
     \/ a.status = "turn" /\ a.pos = Len(s) + 1 /\ b.status = "done" /\ a.pos > n
     \/ a.status = "done" /\ b.status = "done"

LEMMA SameScanNext ==
  ASSUME NEW s \in Texts, NEW a, NEW b, NEW n \in Nat, SameScan(s, a, b, n)
  PROVE  SameScan(s, MeasurementTags(AsLine(s), a), IdTags(s, b), n + 1)
<1> DEFINE c == MeasurementTags(AsLine(s), a)
           d == IdTags(s, b)
           m == a.tags
           x == a.pos
<1>1. Len(s) \in Nat /\ x \in Nat
  BY TextType DEF SameScan
<1>2. CASE a.status = "turn" /\ x \in Commas(s) /\ b = a /\ x > n
  <2> DEFINE k == find_first_of(s, {"="}, x + 1)
             e == PieceEnd(s, k)
             tags == With(m, SubSeq(s, x + 1, k - 1), SubSeq(s, k + 1, e - 1))
  <2>1. a = Scan(x, "turn", m) /\ b = Scan(x, "turn", m)
    BY <1>2 DEF SameScan, IsScan
  <2>2. k = 0 => c = Scan(x + 1, "done", m) /\ d = Scan(x, "done", m)
    BY <1>2, <2>1, TurnAtComma
  <2>3. k # 0 => /\ k \in x + 1..Len(s) /\ e \in k + 1..Len(s) + 1 /\ (e <= Len(s) => e \in Commas(s))
                 /\ c = Scan(e, "turn", tags) /\ d = Scan(e, IF e = Len(s) + 1 THEN "done" ELSE "turn", tags)
    BY <1>2, <2>1, TurnAtComma
  <2> HIDE DEF c, d, k, e, tags, m, x
  <2>4. CASE k = 0
    <3>1. /\ c.pos = x + 1 /\ c.status = "done" /\ c.tags = m /\ d.pos = x /\ d.status = "done" /\ d.tags = m
          /\ IsScan(c) /\ IsScan(d)
      BY <2>2, <2>4, ScanFields DEF IsScan
    <3> QED BY <1>1, <3>1 DEF SameScan, c, d
  <2>5. CASE k # 0 /\ e = Len(s) + 1
    <3>1. /\ c.pos = e /\ c.status = "turn" /\ c.tags = tags /\ d.pos = e /\ d.status = "done" /\ d.tags = tags
          /\ IsScan(c) /\ IsScan(d)
      BY <2>3, <2>5, ScanFields DEF IsScan
    <3>2. e \in Nat /\ e > n + 1
      BY <1>1, <1>2, <2>3, <2>5
    <3> QED BY <2>5, <3>1, <3>2 DEF SameScan, c, d
  <2>6. CASE k # 0 /\ e # Len(s) + 1
    <3>1. c.pos = e /\ c.status = "turn" /\ c.tags = tags /\ d = c /\ IsScan(c)
      BY <2>3, <2>6, ScanFields DEF IsScan
    <3>2. e \in Nat /\ e > n + 1 /\ e \in Commas(s)
      BY <1>1, <1>2, <2>3, <2>6
    <3> QED BY <3>1, <3>2 DEF SameScan, c, d
  <2> QED BY <2>4, <2>5, <2>6
<1>3. CASE a.status = "turn" /\ x = Len(s) + 1 /\ b.status = "done" /\ x > n
  <2>1. a = Scan(Len(s) + 1, "turn", m) /\ b = Scan(b.pos, "done", m)
    BY <1>3 DEF SameScan, IsScan
  <2>2. c = Scan(Len(s) + 1, "done", m) /\ d = Scan(b.pos, "done", m)
    BY <2>1, TurnAtEnd, TurnAfter
  <2> HIDE DEF c, d, m, x
  <2>3. /\ c.pos = Len(s) + 1 /\ c.status = "done" /\ c.tags = m /\ d.status = "done" /\ d.tags = m
        /\ IsScan(c) /\ IsScan(d)
    BY <2>2, ScanFields DEF IsScan
  <2> QED BY <1>1, <2>3 DEF SameScan, c, d
<1>4. CASE a.status = "done" /\ b.status = "done"
  <2>1. a = Scan(x, "done", m) /\ b = Scan(b.pos, "done", m)
    BY <1>4 DEF SameScan, IsScan
  <2>2. c = a /\ d = b
    BY <2>1, TurnAfter
  <2> HIDE DEF c, d, m, x
  <2> QED BY <1>4, <2>2 DEF SameScan, c, d
<1> QED BY <1>2, <1>3, <1>4 DEF SameScan

LEMMA LineTurns ==
  ASSUME NEW s \in Texts, NEW start
  PROVE  \E f : /\ Loop("line", AsLine(s), start) = f[Len(AsLine(s)) + 1] /\ f[0] = start
                /\ \A n \in 0..Len(AsLine(s)) : f[n + 1] = Turn("line", AsLine(s), f[n])
<1>1. PICK t : t = AsLine(s)
  OBVIOUS
<1>2. Len(t) \in Nat
  BY <1>1, LineText, TextType
<1>3. \E f : /\ Loop("line", t, start) = f[Len(t) + 1] /\ f[0] = start
            /\ \A n \in 0..Len(t) : f[n + 1] = Turn("line", t, f[n])
  BY <1>2, LoopTurns
<1> QED BY <1>1, <1>3

\* The two loops from the first comma end with the same tags.
LEMMA LineAsId ==
  ASSUME NEW s \in Texts, NEW c \in Commas(s)
  PROVE  LET start == Scan(c, "turn", NoTags)
             end == Loop("line", AsLine(s), start)
         IN end.status = "done" /\ end.tags = Loop("id", s, start).tags
<1> DEFINE start == Scan(c, "turn", NoTags)
           t == AsLine(s)
<1>1. Len(s) \in Nat /\ Len(t) = Len(s) + 2 /\ Len(t) \in Nat /\ c \in 1..Len(s)
  BY TextType, LineText, CommasType
<1>2. PICK f : /\ Loop("line", t, start) = f[Len(t) + 1] /\ f[0] = start
               /\ \A n \in 0..Len(t) : f[n + 1] = Turn("line", t, f[n])
  BY LineTurns
<1>3. PICK g : /\ Loop("id", s, start) = g[Len(s) + 1] /\ g[0] = start
               /\ \A n \in 0..Len(s) : g[n + 1] = Turn("id", s, g[n])
  <2> HIDE DEF start
  <2> QED BY <1>1, LoopTurns
<1>4. \A n \in 0..Len(t) : f[n + 1] = MeasurementTags(t, f[n])
  <2> HIDE DEF t
  <2> QED BY <1>2 DEF Turn
<1>5. \A n \in 0..Len(s) : g[n + 1] = IdTags(s, g[n])
  BY <1>3 DEF Turn
<1> DEFINE G == {n \in Nat : n <= Len(s) + 1 => SameScan(s, f[n], g[n], n)}
<1>6. 0 \in G
  <2>1. IsScan(start) /\ start.pos = c /\ start.status = "turn"
    BY ScanFields DEF IsScan
  <2> HIDE DEF start
  <2>2. c \in Nat /\ c > 0
    BY <1>1
  <2>3. SameScan(s, f[0], g[0], 0)
    BY <1>2, <1>3, <2>1, <2>2 DEF SameScan
  <2> QED BY <2>3
<1>7. ASSUME NEW n \in G PROVE n + 1 \in G
  <2>1. n \in Nat
    OBVIOUS
  <2> SUFFICES ASSUME n + 1 <= Len(s) + 1 PROVE SameScan(s, f[n + 1], g[n + 1], n + 1)
    BY <2>1
  <2>2. n \in 0..Len(s) /\ n \in 0..Len(t) /\ n <= Len(s) + 1
    BY <1>1, <2>1
  <2>3. SameScan(s, f[n], g[n], n)
    BY <2>2
  <2>4. f[n + 1] = MeasurementTags(t, f[n]) /\ g[n + 1] = IdTags(s, g[n])
    BY <1>4, <1>5, <2>2
  <2> QED BY <2>1, <2>3, <2>4, SameScanNext
<1>8. \A n \in Nat : n \in G
  <2>1. G \in SUBSET Nat
    OBVIOUS
  <2> HIDE DEF G
  <2> QED BY <1>6, <1>7, <2>1, SetInduction
<1> DEFINE N == Len(s) + 1
<1>9. SameScan(s, f[N], g[N], N)
  BY <1>1, <1>8
<1>10. f[N].status = "done" /\ f[N].tags = g[N].tags /\ f[N] = Scan(f[N].pos, "done", f[N].tags)
  <2>1. \A x \in Commas(s) : ~(x > N)
    BY <1>1, CommasType
  <2>2. ~(N > N)
    BY <1>1
  <2> QED BY <1>9, <2>1, <2>2 DEF SameScan, IsScan
<1>11. f[N + 1] = f[N]
  <2>1. N \in 0..Len(t)
    BY <1>1
  <2> HIDE DEF N, t
  <2> QED BY <1>4, <1>10, <2>1, TurnAfter
<1>12. f[N + 2] = f[N]
  <2>1. N + 1 \in 0..Len(t) /\ N + 1 + 1 = N + 2
    BY <1>1
  <2> HIDE DEF N, t
  <2>2. f[N + 1 + 1] = MeasurementTags(t, f[N + 1])
    BY <1>4, <2>1
  <2> QED BY <1>10, <1>11, <2>1, <2>2, TurnAfter
<1>13. Len(t) + 1 = N + 2
  BY <1>1
<1> HIDE DEF N, t, start
<1>14. Loop("line", t, start) = f[N]
  BY <1>2, <1>12, <1>13
<1>15. Loop("id", s, start) = g[N]
  BY <1>3 DEF N
<1> QED BY <1>10, <1>14, <1>15 DEF t, start

-----------------------------------------------------------------------------
(* A well-formed id *)

LEMMA SubList ==
  ASSUME NEW P, NEW Q \in SUBSET P, IsPairList(P)
  PROVE  IsPairList(Q)
  BY DEF IsPairList

LEMMA SameEnd ==
  ASSUME NEW s \in Texts, NEW i \in 0..Len(s), NEW k \in i + 1..PieceEnd(s, i) - 1
  PROVE  PieceEnd(s, k) = PieceEnd(s, i) /\ k \in 0..Len(s)
<1> DEFINE e == PieceEnd(s, i)
           d == PieceEnd(s, k)
<1>1. /\ Len(s) \in Nat /\ e \in i + 1..Len(s) + 1 /\ (\A j \in i + 1..e - 1 : j \in 1..Len(s) /\ s[j] # Comma)
      /\ e <= Len(s) => e \in Commas(s)
  BY PieceEnds, TextType
<1>2. k \in 0..Len(s)
  BY <1>1
<1>3. /\ d \in k + 1..Len(s) + 1 /\ (\A j \in k + 1..d - 1 : j \in 1..Len(s) /\ s[j] # Comma)
      /\ d <= Len(s) => d \in Commas(s)
  BY <1>2, PieceEnds
<1> HIDE DEF d
<1>4. e <= Len(s) => s[e] = Comma
  BY <1>1, CommasType
<1>5. d <= Len(s) => s[d] = Comma
  BY <1>3, CommasType
<1> HIDE DEF e
<1>6. k \in i + 1..e - 1 /\ i \in Nat
  BY <1>1 DEF e
<1>7. ~(d < e)
  BY <1>1, <1>3, <1>5, <1>6
<1>8. ~(e < d)
  BY <1>1, <1>3, <1>4, <1>6
<1> QED BY <1>1, <1>2, <1>3, <1>7, <1>8 DEF d, e

\* What a turn of the loop over a line makes of a pair.
LEMMA TurnAtPair ==
  ASSUME NEW s \in Texts, NEW x \in Commas(s), NEW m, IsPair(Piece(s, x))
  PROVE  MeasurementTags(AsLine(s), Scan(x, "turn", m)) =
           Scan(PieceEnd(s, x), "turn", With(m, KeyOf(Piece(s, x)), ValueOf(Piece(s, x))))
<1> DEFINE e == PieceEnd(s, x)
           p == Piece(s, x)
<1>1. x \in Starts(s) /\ x \in 0..Len(s) /\ Len(s) \in Nat /\ x \in Nat
  BY TextType, CommasType DEF Starts
<1>2. PICK k \in x + 2..e - 2 :
           /\ s[k] = "=" /\ \A j \in x + 1..e - 1 : j # k => s[j] # "="
           /\ KeyOf(p) = SubSeq(s, x + 1, k - 1) /\ ValueOf(p) = SubSeq(s, k + 1, e - 1)
  BY <1>1, PairParts
<1>3. e \in x + 1..Len(s) + 1
  BY <1>1, PieceEnds
<1>4. k \in x + 1..e - 1 /\ k # 0 /\ k \in x + 1..Len(s)
  <2> HIDE DEF e
  <2> QED BY <1>1, <1>2, <1>3
<1>5. PieceEnd(s, k) = e
  BY <1>1, <1>4, SameEnd
<1> HIDE DEF e, p
<1>6. find_first_of(s, {"="}, x + 1) = k
  <2>1. \A j \in x + 1..k - 1 : j \in x + 1..e - 1 /\ j # k
    BY <1>1, <1>3, <1>4
  <2>2. \A j \in x + 1..k - 1 : s[j] \notin {"="}
    BY <1>2, <2>1
  <2>3. x + 1 \in Nat \ {0}
    BY <1>1
  <2> QED BY <1>1, <1>2, <1>4, <2>2, <2>3, FindIs
<1>7. MeasurementTags(AsLine(s), Scan(x, "turn", m)) = Scan(e, "turn", With(m, SubSeq(s, x + 1, k - 1), SubSeq(s, k + 1, e - 1)))
  BY <1>4, <1>5, <1>6, TurnAtComma
<1> QED BY <1>2, <1>7 DEF e, p
\* The pairs of s after its name, and the state a of the loop over the line after n
\* turns.
PairsOf(s) == PiecesBefore(s, Commas(s), Len(s) + 1)
ReadTo(s, x, status) == Scan(x, status, PairMap(PiecesBefore(s, Commas(s), x)))
PairsRead(s, a, n) ==
  \/ \E x \in Commas(s) \cup {Len(s) + 1} : x > n /\ a = ReadTo(s, x, "turn")
  \/ a = ReadTo(s, Len(s) + 1, "done")

LEMMA AllPieces ==
  ASSUME NEW s \in Texts
  PROVE  /\ PairsOf(s) = {Piece(s, i) : i \in Commas(s)}
         /\ PiecesBefore(s, Starts(s), Len(s) + 1) = {Piece(s, 0)} \cup PairsOf(s)
<1>1. Len(s) \in Nat /\ Starts(s) \subseteq 0..Len(s)
  BY TextType, CommasType
<1>2. {j \in Starts(s) : j < Len(s) + 1} = {0} \cup Commas(s)
  BY <1>1 DEF Starts
<1>3. {j \in Commas(s) : j < Len(s) + 1} = Commas(s)
  BY <1>1 DEF Starts
<1> QED BY <1>2, <1>3 DEF PiecesBefore, PairsOf

LEMMA PairsReadNext ==
  ASSUME NEW s \in Texts, IsPairList(PairsOf(s)), NEW a, NEW n \in Nat, PairsRead(s, a, n)
  PROVE  PairsRead(s, MeasurementTags(AsLine(s), a), n + 1)
<1>1. Len(s) \in Nat /\ Commas(s) \in SUBSET Nat /\ Starts(s) \in SUBSET Nat
  BY TextType, CommasType
<1>2. CASE \E x \in Commas(s) : x > n /\ a = ReadTo(s, x, "turn")
  <2>1. PICK x \in Commas(s) : x > n /\ a = ReadTo(s, x, "turn")
    BY <1>2
  <2> DEFINE e == PieceEnd(s, x)
             P == PiecesBefore(s, Commas(s), x)
             p == Piece(s, x)
  <2>2. x \in Starts(s) /\ x \in 0..Len(s) /\ x \in Nat
    BY CommasType DEF Starts
  <2>3. e \in x + 1..Len(s) + 1 /\ (e <= Len(s) => e \in Commas(s)) /\ \A j \in Starts(s) : x < j => e <= j
    BY <2>2, PieceEnds
  <2>4. PiecesBefore(s, Commas(s), e) = P \cup {p}
    <3>1. e \in Nat /\ x < e /\ \A j \in Commas(s) : x < j => e <= j
      BY <1>1, <2>2, <2>3 DEF Starts
    <3> QED BY <1>1, <3>1, PiecesNext
  <2>5. P \cup {p} \in SUBSET PairsOf(s)
    <3>1. PairsOf(s) = {Piece(s, i) : i \in Commas(s)}
      BY AllPieces
    <3> QED BY <3>1 DEF PiecesBefore
  <2> HIDE DEF P, p
  <2>6. IsPairList(P \cup {p}) /\ IsPair(p)
    <3>1. IsPairList(P \cup {p})
      BY <2>5, SubList
    <3> QED BY <3>1 DEF IsPairList
  <2>7. a = Scan(x, "turn", PairMap(P))
    BY <2>1 DEF ReadTo, P
  <2>8. MeasurementTags(AsLine(s), a) = Scan(e, "turn", With(PairMap(P), KeyOf(p), ValueOf(p)))
    BY <2>6, <2>7, TurnAtPair DEF p
  <2>9. With(PairMap(P), KeyOf(p), ValueOf(p)) = PairMap(P \cup {p})
    BY <2>6, PairMapNext
  <2> HIDE DEF e
  <2>10. MeasurementTags(AsLine(s), a) = ReadTo(s, e, "turn")
    BY <2>4, <2>8, <2>9 DEF ReadTo
  <2>11. e \in Commas(s) \cup {Len(s) + 1} /\ e > n + 1
    BY <1>1, <2>1, <2>2, <2>3
  <2> QED BY <2>10, <2>11 DEF PairsRead
<1>3. CASE a = ReadTo(s, Len(s) + 1, "turn")
  <2>1. MeasurementTags(AsLine(s), a) = ReadTo(s, Len(s) + 1, "done")
    BY <1>3, TurnAtEnd DEF ReadTo
  <2> QED BY <2>1 DEF PairsRead
<1>4. CASE a = ReadTo(s, Len(s) + 1, "done")
  <2>1. MeasurementTags(AsLine(s), a) = ReadTo(s, Len(s) + 1, "done")
    BY <1>4, TurnAfter DEF ReadTo
  <2> QED BY <2>1 DEF PairsRead
<1> QED BY <1>2, <1>3, <1>4 DEF PairsRead

\* The loop over the line of a well-formed id.
LEMMA LineReads ==
  ASSUME NEW s \in Texts, IsPairList(PairsOf(s))
  PROVE  Loop("line", AsLine(s), Scan(PieceEnd(s, 0), "turn", NoTags)) = ReadTo(s, Len(s) + 1, "done")
<1> DEFINE c == PieceEnd(s, 0)
           start == Scan(c, "turn", NoTags)
           t == AsLine(s)
<1>1. Len(s) \in Nat /\ Len(t) = Len(s) + 2 /\ 0 \in 0..Len(s)
  BY TextType, LineText
<1>2. /\ c \in 1..Len(s) + 1 /\ (c <= Len(s) => c \in Commas(s))
      /\ \A j \in Starts(s) : 0 < j => c <= j
  BY <1>1, PieceEnds
<1>3. PICK f : /\ Loop("line", t, start) = f[Len(t) + 1] /\ f[0] = start
               /\ \A n \in 0..Len(t) : f[n + 1] = Turn("line", t, f[n])
  BY LineTurns
<1> HIDE DEF c
<1>4. start = ReadTo(s, c, "turn")
  <2>1. {j \in Commas(s) : j < c} = {}
    BY <1>1, <1>2, CommasType DEF Starts
  <2>2. PiecesBefore(s, Commas(s), c) = {}
    BY <2>1 DEF PiecesBefore
  <2> QED BY <2>2, NoPairs DEF ReadTo
<1> HIDE DEF start
<1> DEFINE G == {n \in Nat : n <= Len(t) + 1 => PairsRead(s, f[n], n)}
<1>5. 0 \in G
  <2>1. c \in Commas(s) \cup {Len(s) + 1} /\ c > 0
    BY <1>1, <1>2
  <2>2. PairsRead(s, f[0], 0)
    BY <1>3, <1>4, <2>1 DEF PairsRead
  <2> QED BY <2>2
<1>6. ASSUME NEW n \in G PROVE n + 1 \in G
  <2>1. n \in Nat
    OBVIOUS
  <2> SUFFICES ASSUME n + 1 <= Len(t) + 1 PROVE PairsRead(s, f[n + 1], n + 1)
    BY <2>1
  <2>2. n \in 0..Len(t) /\ n <= Len(t) + 1
    BY <1>1, <2>1
  <2>3. PairsRead(s, f[n], n)
    BY <2>2
  <2>4. f[n + 1] = MeasurementTags(t, f[n])
    BY <1>3, <2>2 DEF Turn
  <2> QED BY <2>1, <2>3, <2>4, PairsReadNext
<1>7. \A n \in Nat : n \in G
  <2>1. G \in SUBSET Nat
    OBVIOUS
  <2> HIDE DEF G
  <2> QED BY <1>5, <1>6, <2>1, SetInduction
<1>8. PairsRead(s, f[Len(t) + 1], Len(t) + 1)
  BY <1>1, <1>7
<1>9. \A x \in Commas(s) \cup {Len(s) + 1} : ~(x > Len(t) + 1)
  BY <1>1, CommasType
<1>10. f[Len(t) + 1] = ReadTo(s, Len(s) + 1, "done")
  <2> HIDE DEF t
  <2> QED BY <1>8, <1>9 DEF PairsRead
<1> QED BY <1>3, <1>10 DEF start, c

LEMMA WellFormedLine ==
  ASSUME NEW s \in Texts, IsPairList(PairsOf(s)), Piece(s, 0) # <<>>
  PROVE  get_measurement(AsLine(s)) = Parsed(Piece(s, 0), PairMap(PairsOf(s)))
<1> DEFINE c == PieceEnd(s, 0)
           t == AsLine(s)
           end == Loop("line", t, Scan(c, "turn", NoTags))
<1>1. Len(s) \in Nat /\ Len(t) = Len(s) + 2 /\ 0 \in 0..Len(s)
  BY TextType, LineText
<1>2. c \in 1..Len(s) + 1
  BY <1>1, PieceEnds
<1>3. find_first_of(t, {Comma, ":"}, 1) = c
  <2>1. find_first_of(AsLine(s), {Comma, ":"}, 0 + 1) = PieceEnd(s, 0)
    BY <1>1, LineFinds
  <2> QED BY <2>1
<1>4. end = Scan(Len(s) + 1, "done", PairMap(PairsOf(s)))
  BY LineReads DEF ReadTo, PairsOf
<1>5. end.status # "failed" /\ end.pos = Len(s) + 1 /\ end.tags = PairMap(PairsOf(s))
  <2> HIDE DEF end
  <2> QED BY <1>4, ScanFields
<1>6. At(t, end.pos + 1) = "1"
  <2>1. end.pos + 1 = Len(s) + 2
    BY <1>1, <1>5
  <2>2. t[Len(s) + 2] = "1"
    BY LineText
  <2> HIDE DEF end, t
  <2> QED BY <1>1, <2>1, <2>2 DEF At
<1>7. c # 1
  <2>1. Piece(s, 0) = SubSeq(s, 1, c - 1)
    BY DEF Piece
  <2> HIDE DEF c
  <2>2. c = 1 => SubSeq(s, 1, c - 1) = <<>>
    BY SubSeqEmpty
  <2> QED BY <2>1, <2>2
<1>8. SubSeq(t, 1, c - 1) = Piece(s, 0)
  <2>1. c - 1 \in Nat /\ c - 1 <= Len(s) /\ 1 \in Nat /\ 1 > 0
    BY <1>1, <1>2
  <2>2. Piece(s, 0) = SubSeq(s, 1, c - 1)
    BY DEF Piece
  <2> HIDE DEF c
  <2> QED BY <2>1, <2>2, LineText
<1>9. get_measurement(t) = IF c \in {0, 1} \/ end.status = "failed" \/ At(t, end.pos + 1) # "1" THEN Failed
                           ELSE Parsed(SubSeq(t, 1, c - 1), end.tags)
  BY <1>3 DEF get_measurement
<1> HIDE DEF c, t, end
<1>10. c \notin {0, 1}
  BY <1>1, <1>2, <1>7
<1> QED BY <1>5, <1>6, <1>8, <1>9, <1>10 DEF t

\* What a line is accepted with, parse_id reads alike.
LEMMA AcceptedLine ==
  ASSUME NEW s \in Texts, get_measurement(AsLine(s)).ok
  PROVE  parse_id(s) = get_measurement(AsLine(s))
<1> DEFINE c == PieceEnd(s, 0)
           t == AsLine(s)
           end == Loop("line", t, Scan(c, "turn", NoTags))
           v == find_first_of(s, {Comma}, 1)
<1>1. Len(s) \in Nat /\ 0 \in 0..Len(s) /\ 0 + 1 = 1
  BY TextType
<1>2. c \in 1..Len(s) + 1 /\ (c <= Len(s) => c \in Commas(s)) /\ c = IF v = 0 THEN Len(s) + 1 ELSE v
  <2>1. c \in 0 + 1..Len(s) + 1 /\ (c <= Len(s) => c \in Commas(s))
    BY <1>1, PieceEnds
  <2>2. c = IF v = 0 THEN Len(s) + 1 ELSE v
    BY <1>1 DEF PieceEnd
  <2> QED BY <1>1, <2>1, <2>2
<1>3. find_first_of(t, {Comma, ":"}, 1) = c
  <2>1. find_first_of(AsLine(s), {Comma, ":"}, 0 + 1) = PieceEnd(s, 0)
    BY <1>1, LineFinds
  <2> QED BY <1>1, <2>1
<1>4. get_measurement(t) = IF c \in {0, 1} \/ end.status = "failed" \/ At(t, end.pos + 1) # "1" THEN Failed
                           ELSE Parsed(SubSeq(t, 1, c - 1), end.tags)
  BY <1>3 DEF get_measurement
<1>5. Failed.ok = FALSE
  BY DEF Failed
<1>6. SubSeq(t, 1, c - 1) = SubSeq(s, 1, c - 1)
  <2> HIDE DEF c
  <2>1. c - 1 \in Nat /\ c - 1 <= Len(s) /\ 1 \in Nat /\ 1 > 0
    BY <1>1, <1>2
  <2> QED BY <2>1, LineText
<1>7. parse_id(s) = IF v = 0 THEN Parsed(s, NoTags)
                    ELSE Parsed(SubSeq(s, 1, v - 1), Loop("id", s, Scan(v, "turn", NoTags)).tags)
  BY DEF parse_id
<1>8. v = 0 \/ v \in 1..Len(s)
  BY <1>1, FindFirst
<1>9. CASE v = 0
  <2>1. Commas(s) = {}
    <3>1. \A j \in 1..Len(s) : s[j] \notin {Comma}
      <4> HIDE DEF c, t, end
      <4> QED BY <1>1, <1>9, FindFirst
    <3> QED BY <3>1, CommasType
  <2>2. PairsOf(s) = {}
    BY <2>1 DEF PairsOf, PiecesBefore
  <2>3. IsPairList(PairsOf(s))
    BY <2>2 DEF IsPairList
  <2>4. end = Scan(Len(s) + 1, "done", NoTags)
    BY <2>2, <2>3, LineReads, NoPairs DEF ReadTo, PairsOf
  <2> HIDE DEF end, t, c, v
  <2>5. end.tags = NoTags
    BY <2>4, ScanFields
  <2>6. c - 1 = Len(s)
    BY <1>1, <1>2, <1>9
  <2>7. SubSeq(s, 1, Len(s)) = s
    BY TextType, SubSeqFull
  <2> QED BY <1>4, <1>5, <1>6, <1>7, <1>9, <2>5, <2>6, <2>7 DEF t
<1>10. CASE v # 0
  <2>1. c = v /\ c \in Commas(s)
    <3> HIDE DEF c, v
    <3> QED BY <1>1, <1>2, <1>8, <1>10
  <2>2. end.tags = Loop("id", s, Scan(c, "turn", NoTags)).tags
    <3> HIDE DEF c
    <3> QED BY <2>1, LineAsId
  <2> HIDE DEF end, t, c, v
  <2> QED BY <1>4, <1>5, <1>6, <1>7, <1>10, <2>1, <2>2 DEF t
<1> QED BY <1>9, <1>10
-----------------------------------------------------------------------------
(* The tags of statsd *)

LEMMA StatsdText ==
  ASSUME NEW s \in Texts
  PROVE  /\ Statsd(s) \in Seq(Symbols \cup {":"}) /\ Len(Statsd(s)) = Len(s)
         /\ \A i \in 1..Len(s) : Statsd(s)[i] = IF s[i] = "=" THEN ":" ELSE s[i]
<1>1. Len(s) \in Nat /\ DOMAIN s = 1..Len(s) /\ \A i \in 1..Len(s) : s[i] \in Symbols
  BY TextType
<1> DEFINE t == Statsd(s)
<1>2. t = [i \in 1..Len(s) |-> IF s[i] = "=" THEN ":" ELSE s[i]]
  BY <1>1 DEF Statsd
<1>3. t \in [1..Len(s) -> Symbols \cup {":"}]
  BY <1>1, <1>2
<1>4. t \in Seq(Symbols \cup {":"}) /\ DOMAIN t = 1..Len(s)
  BY <1>1, <1>3, IsASeq
<1>5. Len(t) = Len(s)
  <2> HIDE DEF t
  <2> QED BY <1>1, <1>4, LenProperties
<1> QED BY <1>2, <1>4, <1>5

\* The symbols of the tags, where the text has no '=' and where it has one.
LEMMA StatsdAt ==
  ASSUME NEW s \in Texts
  PROVE  /\ \A i \in 1..Len(s) : At(Statsd(s), i) # "end" /\ (At(Statsd(s), i) = ":" <=> s[i] = "=")
                                 /\ (At(Statsd(s), i) = Comma <=> s[i] = Comma)
         /\ At(Statsd(s), Len(s) + 1) = "end"
<1>1. Len(s) \in Nat
  BY TextType
<1>2. \A i \in 1..Len(s) : At(Statsd(s), i) = IF s[i] = "=" THEN ":" ELSE s[i]
  BY <1>1, StatsdText DEF At
<1>3. At(Statsd(s), Len(s) + 1) = "end"
  BY <1>1, StatsdText DEF At
<1>4. \A i \in 1..Len(s) : s[i] # ":" /\ s[i] # "end"
  BY TextType
<1> QED BY <1>2, <1>3, <1>4, Separators

LEMMA StatsdPart ==
  ASSUME NEW s \in Texts, NEW a \in Nat, NEW b \in Nat, a > 0, b <= Len(s), \A j \in a..b : s[j] # "="
  PROVE  SubSeq(Statsd(s), a, b) = SubSeq(s, a, b) /\ (a <= b => SubSeq(Statsd(s), a, b) # <<>>)
<1> DEFINE t == Statsd(s)
           S == Symbols \cup {":"}
<1>1. \A i \in a..b : i \in 1..Len(s)
  BY TextType
<1>2. \A i \in a..b : s[i] \in S /\ t[i] = s[i] /\ t[i] \in S
  BY <1>1, StatsdText, TextType
<1> HIDE DEF t
<1>3. /\ SubSeq(t, a, b) \in Seq(S) /\ Len(SubSeq(t, a, b)) = IF a <= b THEN b - a + 1 ELSE 0
      /\ \A i \in 1..b - a + 1 : SubSeq(t, a, b)[i] = t[a + i - 1]
  BY <1>2, SubSeqProperties
<1>4. /\ SubSeq(s, a, b) \in Seq(S) /\ Len(SubSeq(s, a, b)) = IF a <= b THEN b - a + 1 ELSE 0
      /\ \A i \in 1..b - a + 1 : SubSeq(s, a, b)[i] = s[a + i - 1]
  BY <1>2, SubSeqProperties
<1>5. \A i \in 1..b - a + 1 : a + i - 1 \in a..b
  OBVIOUS
<1>6. \A i \in 1..Len(SubSeq(t, a, b)) : i \in 1..b - a + 1
  BY <1>3
<1>7. \A i \in 1..Len(SubSeq(t, a, b)) : SubSeq(t, a, b)[i] = SubSeq(s, a, b)[i]
  BY <1>2, <1>3, <1>4, <1>5, <1>6
<1>8. SubSeq(t, a, b) = SubSeq(s, a, b)
  BY <1>3, <1>4, <1>7, SeqEqual
<1>9. a <= b => Len(SubSeq(t, a, b)) # 0
  BY <1>3
<1>10. Len(<<>>) = 0
  OBVIOUS
<1> QED BY <1>8, <1>9, <1>10 DEF t

\* The turns: past a symbol or a ':', past a comma, at the end.
LEMMA StatsdMoves ==
  ASSUME NEW t, NEW p \in Nat, NEW m, NEW bk, NEW ek, NEW bv, At(t, p) # "end",
         NEW q, NEW ek2, NEW bv2, At(t, q) # Comma,
         \/ At(t, p + 1) = ":" /\ q = p + 2 /\ ek2 = p + 1 /\ bv2 = q
         \/ At(t, p + 1) # ":" /\ q = p + 1 /\ ek2 = ek /\ bv2 = bv
  PROVE  StatsdTags(t, StatsdScan(p, "turn", m, bk, ek, bv)) = StatsdScan(q, "turn", m, bk, ek2, bv2)
<1> DEFINE st == StatsdScan(p, "turn", m, bk, ek, bv)
<1>1. st.pos = p /\ st.status = "turn" /\ st.tags = m /\ st.begin_key = bk /\ st.end_key = ek /\ st.begin_value = bv
  BY DEF StatsdScan
<1> HIDE DEF st
<1>2. CASE At(t, p + 1) = ":" /\ q = p + 2 /\ ek2 = p + 1 /\ bv2 = q
  <2>1. At(t, p + 2) # Comma
    BY <1>2
  <2>2. StatsdTags(t, st) = StatsdScan(p + 2, "turn", m, bk, p + 1, p + 2)
    BY <1>1, <1>2, <2>1 DEF StatsdTags
  <2> QED BY <1>2, <2>2 DEF st
<1>3. CASE At(t, p + 1) # ":" /\ q = p + 1 /\ ek2 = ek /\ bv2 = bv
  <2>1. At(t, p + 1) # Comma
    BY <1>3
  <2>2. StatsdTags(t, st) = StatsdScan(p + 1, "turn", m, bk, ek, bv)
    BY <1>1, <1>3, <2>1 DEF StatsdTags
  <2> QED BY <1>3, <2>2 DEF st
<1> QED BY <1>2, <1>3

LEMMA StatsdAdds ==
  ASSUME NEW t, NEW p \in Nat, NEW m, NEW bk, NEW ek, NEW bv, At(t, p) # "end", At(t, p + 1) = Comma,
         NEW m2, add_tag(m, t, bk, ek, bv, p + 1) = Parsed(<<>>, m2)
  PROVE  StatsdTags(t, StatsdScan(p, "turn", m, bk, ek, bv)) = StatsdScan(p + 2, "turn", m2, p + 2, ek, 0)
<1> DEFINE st == StatsdScan(p, "turn", m, bk, ek, bv)
<1>1. st.pos = p /\ st.status = "turn" /\ st.tags = m /\ st.begin_key = bk /\ st.end_key = ek /\ st.begin_value = bv
  BY DEF StatsdScan
<1> HIDE DEF st
<1>2. At(t, p + 1) # ":" /\ p + 1 + 1 = p + 2
  BY Separators
<1>3. Parsed(<<>>, m2).ok /\ Parsed(<<>>, m2).tags = m2
  BY DEF Parsed
<1>4. StatsdTags(t, st) =
        StatsdScan(p + 1 + 1, IF add_tag(m, t, bk, ek, bv, p + 1).ok THEN "turn" ELSE "failed",
                   add_tag(m, t, bk, ek, bv, p + 1).tags, p + 1 + 1, ek, 0)
  BY <1>1, <1>2 DEF StatsdTags
<1> QED BY <1>2, <1>3, <1>4 DEF st

LEMMA StatsdEnds ==
  ASSUME NEW t, NEW p \in Nat, NEW m, NEW bk, NEW ek, NEW bv, At(t, p) = "end",
         NEW m2, add_tag(m, t, bk, ek, bv, p) = Parsed(<<>>, m2)
  PROVE  StatsdTags(t, StatsdScan(p, "turn", m, bk, ek, bv)) = StatsdScan(p, "done", m2, 0, 0, 0)
<1> DEFINE st == StatsdScan(p, "turn", m, bk, ek, bv)
<1>1. st.pos = p /\ st.status = "turn" /\ st.tags = m /\ st.begin_key = bk /\ st.end_key = ek /\ st.begin_value = bv
  BY DEF StatsdScan
<1> HIDE DEF st
<1>2. Parsed(<<>>, m2).ok /\ Parsed(<<>>, m2).tags = m2
  BY DEF Parsed
<1>3. StatsdTags(t, st) =
        StatsdScan(p, IF add_tag(m, t, bk, ek, bv, p).ok THEN "done" ELSE "failed",
                   add_tag(m, t, bk, ek, bv, p).tags, 0, 0, 0)
  BY <1>1 DEF StatsdTags
<1> QED BY <1>2, <1>3 DEF st

LEMMA StatsdAfter ==
  ASSUME NEW t, NEW p, NEW m
  PROVE  StatsdTags(t, StatsdScan(p, "done", m, 0, 0, 0)) = StatsdScan(p, "done", m, 0, 0, 0)
  BY DEF StatsdTags, StatsdScan
\* The '=' of the piece that starts at i.
EqualsOf(s, i) == find_first_of(s, {"="}, i + 1)

LEMMA PairAt ==
  ASSUME NEW s \in Texts, NEW i \in Starts(s), IsPair(Piece(s, i))
  PROVE  /\ EqualsOf(s, i) \in i + 2..PieceEnd(s, i) - 2 /\ s[EqualsOf(s, i)] = "="
         /\ \A j \in i + 1..PieceEnd(s, i) - 1 : j # EqualsOf(s, i) => s[j] # "="
         /\ KeyOf(Piece(s, i)) = SubSeq(s, i + 1, EqualsOf(s, i) - 1)
         /\ ValueOf(Piece(s, i)) = SubSeq(s, EqualsOf(s, i) + 1, PieceEnd(s, i) - 1)
<1> DEFINE e == PieceEnd(s, i)
           p == Piece(s, i)
<1>1. i \in 0..Len(s) /\ Len(s) \in Nat /\ i \in Nat
  BY TextType, CommasType
<1>2. PICK k \in i + 2..e - 2 :
           /\ s[k] = "=" /\ \A j \in i + 1..e - 1 : j # k => s[j] # "="
           /\ KeyOf(p) = SubSeq(s, i + 1, k - 1) /\ ValueOf(p) = SubSeq(s, k + 1, e - 1)
  BY PairParts
<1>3. e \in i + 1..Len(s) + 1
  BY <1>1, PieceEnds
<1> HIDE DEF e, p
<1>4. k \in i + 1..Len(s) /\ i + 1 \in Nat \ {0}
  BY <1>1, <1>2, <1>3
<1>5. \A j \in i + 1..k - 1 : s[j] \notin {"="}
  <2>1. \A j \in i + 1..k - 1 : j \in i + 1..e - 1 /\ j # k
    BY <1>1, <1>2, <1>3, <1>4
  <2> QED BY <1>2, <2>1
<1>6. EqualsOf(s, i) = k
  BY <1>1, <1>2, <1>4, <1>5, FindIs DEF EqualsOf
<1> QED BY <1>2, <1>6 DEF e, p

\* The scan in the key of piece i, in its value, and at the end.
InKey(s, a, i, p) ==
  /\ i + 1 <= p /\ p < EqualsOf(s, i)
  /\ \E ek : a = StatsdScan(p, "turn", PairMap(PiecesBefore(s, Starts(s), i)), i + 1, ek, 0)

InValue(s, a, i, p) ==
  /\ EqualsOf(s, i) < p /\ (p < PieceEnd(s, i) \/ (p = PieceEnd(s, i) /\ p = Len(s) + 1))
  /\ a = StatsdScan(p, "turn", PairMap(PiecesBefore(s, Starts(s), i)), i + 1, EqualsOf(s, i), EqualsOf(s, i) + 1)

AllRead(s, a) ==
  \E p : a = StatsdScan(p, "done", PairMap(PiecesBefore(s, Starts(s), Len(s) + 1)), 0, 0, 0)

StatsdRead(s, a, n) ==
  \/ \E i \in Starts(s) : \E p \in Nat : p > n /\ (InKey(s, a, i, p) \/ InValue(s, a, i, p))
  \/ AllRead(s, a)

ListOf(s) == PiecesBefore(s, Starts(s), Len(s) + 1)

LEMMA ListPieces ==
  ASSUME NEW s \in Texts, IsPairList(ListOf(s)), NEW i \in Starts(s)
  PROVE  /\ IsPair(Piece(s, i)) /\ i \in 0..Len(s)
         /\ PieceEnd(s, i) \in i + 1..Len(s) + 1 /\ (PieceEnd(s, i) <= Len(s) => PieceEnd(s, i) \in Starts(s))
         /\ PairMap(PiecesBefore(s, Starts(s), PieceEnd(s, i))) =
              With(PairMap(PiecesBefore(s, Starts(s), i)), KeyOf(Piece(s, i)), ValueOf(Piece(s, i)))
<1> DEFINE e == PieceEnd(s, i)
           P == PiecesBefore(s, Starts(s), i)
           q == Piece(s, i)
<1>1. Len(s) \in Nat /\ Starts(s) \in SUBSET Nat /\ i \in 0..Len(s) /\ i \in Nat /\ Starts(s) \subseteq 0..Len(s)
  BY TextType, CommasType
<1>2. e \in i + 1..Len(s) + 1 /\ (e <= Len(s) => e \in Starts(s)) /\ \A j \in Starts(s) : i < j => e <= j
  BY <1>1, PieceEnds DEF Starts
<1>3. PiecesBefore(s, Starts(s), e) = P \cup {q}
  <2>1. e \in Nat /\ i < e
    BY <1>1, <1>2
  <2> HIDE DEF e
  <2> QED BY <1>1, <1>2, <2>1, PiecesNext
<1>4. P \cup {q} \in SUBSET ListOf(s)
  <2>1. \A j \in Starts(s) : j < Len(s) + 1
    BY <1>1
  <2> QED BY <2>1 DEF PiecesBefore, ListOf
<1> HIDE DEF P, q, e
<1>5. IsPairList(P \cup {q})
  BY <1>4, SubList
<1>6. IsPair(q)
  BY <1>5 DEF IsPairList
<1>7. PairMap(P \cup {q}) = With(PairMap(P), KeyOf(q), ValueOf(q))
  BY <1>5, PairMapNext
<1> QED BY <1>1, <1>2, <1>3, <1>6, <1>7 DEF P, q, e

\* add_tag adds the pair.
LEMMA PairAdded ==
  ASSUME NEW s \in Texts, NEW i \in Starts(s), IsPair(Piece(s, i)), NEW m
  PROVE  add_tag(m, Statsd(s), i + 1, EqualsOf(s, i), EqualsOf(s, i) + 1, PieceEnd(s, i)) =
           Parsed(<<>>, With(m, KeyOf(Piece(s, i)), ValueOf(Piece(s, i))))
<1> DEFINE e == PieceEnd(s, i)
           k == EqualsOf(s, i)
           t == Statsd(s)
<1>1. Len(s) \in Nat /\ i \in 0..Len(s) /\ i \in Nat
  BY TextType, CommasType
<1>2. e \in i + 1..Len(s) + 1
  BY <1>1, PieceEnds
<1>3. /\ k \in i + 2..e - 2 /\ \A j \in i + 1..e - 1 : j # k => s[j] # "="
      /\ KeyOf(Piece(s, i)) = SubSeq(s, i + 1, k - 1) /\ ValueOf(Piece(s, i)) = SubSeq(s, k + 1, e - 1)
  BY PairAt
<1> HIDE DEF e, k
<1>4. /\ i + 1 \in Nat /\ k - 1 \in Nat /\ i + 1 > 0 /\ k - 1 <= Len(s) /\ i + 1 <= k - 1
      /\ k + 1 \in Nat /\ e - 1 \in Nat /\ k + 1 > 0 /\ e - 1 <= Len(s) /\ k + 1 <= e - 1 /\ k + 1 # 0
  BY <1>1, <1>2, <1>3
<1>5. SubSeq(t, i + 1, k - 1) = SubSeq(s, i + 1, k - 1) /\ SubSeq(t, i + 1, k - 1) # <<>>
  <2>1. \A j \in i + 1..k - 1 : j \in i + 1..e - 1 /\ j # k
    BY <1>1, <1>2, <1>3
  <2>2. \A j \in i + 1..k - 1 : s[j] # "="
    BY <1>3, <2>1
  <2> QED BY <1>4, <2>2, StatsdPart
<1>6. SubSeq(t, k + 1, e - 1) = SubSeq(s, k + 1, e - 1) /\ SubSeq(t, k + 1, e - 1) # <<>>
  <2>1. \A j \in k + 1..e - 1 : j \in i + 1..e - 1 /\ j # k
    BY <1>1, <1>2, <1>3
  <2>2. \A j \in k + 1..e - 1 : s[j] # "="
    BY <1>3, <2>1
  <2> QED BY <1>4, <2>2, StatsdPart
<1> HIDE DEF t
<1>7. add_tag(m, t, i + 1, k, k + 1, e) = Parsed(<<>>, With(m, SubSeq(t, i + 1, k - 1), SubSeq(t, k + 1, e - 1)))
  BY <1>4, <1>5, <1>6 DEF add_tag
<1> QED BY <1>3, <1>5, <1>6, <1>7 DEF e, k, t

LEMMA StatsdReadNext ==
  ASSUME NEW s \in Texts, IsPairList(ListOf(s)), NEW a, NEW n \in Nat, StatsdRead(s, a, n)
  PROVE  StatsdRead(s, StatsdTags(Statsd(s), a), n + 1)
<1> DEFINE t == Statsd(s)
           b == StatsdTags(t, a)
<1>1. Len(s) \in Nat
  BY TextType
<1>2. CASE AllRead(s, a)
  <2>1. PICK p : a = StatsdScan(p, "done", PairMap(PiecesBefore(s, Starts(s), Len(s) + 1)), 0, 0, 0)
    BY <1>2 DEF AllRead
  <2>2. b = a
    BY <2>1, StatsdAfter
  <2> HIDE DEF b, t
  <2> QED BY <1>2, <2>2 DEF StatsdRead, b, t
<1>3. CASE \E i \in Starts(s) : \E p \in Nat : p > n /\ (InKey(s, a, i, p) \/ InValue(s, a, i, p))
  <2>1. PICK i \in Starts(s), p \in Nat : p > n /\ (InKey(s, a, i, p) \/ InValue(s, a, i, p))
    BY <1>3
  <2> DEFINE e == PieceEnd(s, i)
             k == EqualsOf(s, i)
             m == PairMap(PiecesBefore(s, Starts(s), i))
  <2>2. /\ IsPair(Piece(s, i)) /\ i \in 0..Len(s) /\ e \in i + 1..Len(s) + 1 /\ (e <= Len(s) => e \in Starts(s))
        /\ PairMap(PiecesBefore(s, Starts(s), e)) = With(m, KeyOf(Piece(s, i)), ValueOf(Piece(s, i)))
    BY ListPieces
  <2>3. /\ k \in i + 2..e - 2 /\ s[k] = "=" /\ \A j \in i + 1..e - 1 : j # k => s[j] # "="
    BY <2>2, PairAt
  <2>4. (\A j \in i + 1..e - 1 : j \in 1..Len(s) /\ s[j] # Comma) /\ (e <= Len(s) => s[e] = Comma)
    BY <2>2, PieceEnds, CommasType
  <2>5. add_tag(m, t, i + 1, k, k + 1, e) = Parsed(<<>>, PairMap(PiecesBefore(s, Starts(s), e)))
    BY <2>2, PairAdded
  <2>6. /\ \A j \in 1..Len(s) : At(t, j) # "end" /\ (At(t, j) = ":" <=> s[j] = "=") /\ (At(t, j) = Comma <=> s[j] = Comma)
        /\ At(t, Len(s) + 1) = "end"
    BY StatsdAt
  <2> HIDE DEF e, k, m, t
  <2>7. i \in Nat /\ k \in Nat /\ e \in Nat /\ i + 2 <= k /\ k <= e - 2 /\ e <= Len(s) + 1
    BY <1>1, <2>2, <2>3
  <2>8. \A j \in i + 1..e - 1 : At(t, j) # "end" /\ At(t, j) # Comma /\ (At(t, j) = ":" <=> j = k)
    BY <2>3, <2>4, <2>6
  <2>9. CASE InKey(s, a, i, p)
    <3>1. i + 1 <= p /\ p < k
      BY <2>9 DEF InKey, k
    <3>2. PICK ek : a = StatsdScan(p, "turn", m, i + 1, ek, 0)
      BY <2>9 DEF InKey, m
    <3>3. p \in i + 1..e - 1 /\ p + 1 \in i + 1..e - 1 /\ k + 1 \in i + 1..e - 1 /\ k + 1 # k
      BY <2>7, <3>1
    <3>4. At(t, p) # "end"
      BY <2>8, <3>3
    <3>5. CASE p + 1 = k
      <4>1. At(t, p + 1) = ":" /\ k + 1 = p + 2 /\ At(t, k + 1) # Comma
        BY <2>7, <2>8, <3>3, <3>5
      <4>2. b = StatsdScan(k + 1, "turn", m, i + 1, k, k + 1)
        BY <3>2, <3>4, <3>5, <4>1, StatsdMoves
      <4> HIDE DEF b
      <4>3. k + 1 \in Nat /\ k + 1 > n + 1 /\ k < k + 1 /\ k + 1 < e
        BY <2>1, <2>7, <3>5
      <4>4. InValue(s, b, i, k + 1)
        BY <4>2, <4>3 DEF InValue, k, e, m
      <4> QED BY <4>3, <4>4 DEF StatsdRead, b, t
    <3>6. CASE p + 1 # k
      <4>1. At(t, p + 1) # ":" /\ At(t, p + 1) # Comma
        BY <2>8, <3>3, <3>6
      <4>2. b = StatsdScan(p + 1, "turn", m, i + 1, ek, 0)
        BY <3>2, <3>4, <4>1, StatsdMoves
      <4> HIDE DEF b
      <4>3. p + 1 \in Nat /\ p + 1 > n + 1 /\ i + 1 <= p + 1 /\ p + 1 < k
        BY <2>1, <2>7, <3>1, <3>6
      <4>4. InKey(s, b, i, p + 1)
        BY <4>2, <4>3 DEF InKey, k, m
      <4> QED BY <4>3, <4>4 DEF StatsdRead, b, t
    <3> QED BY <3>5, <3>6
  <2>10. CASE InValue(s, a, i, p)
    <3>1. k < p /\ (p < e \/ (p = e /\ p = Len(s) + 1))
      BY <2>10 DEF InValue, k, e
    <3>2. a = StatsdScan(p, "turn", m, i + 1, k, k + 1)
      BY <2>10 DEF InValue, k, m
    <3>3. CASE p < e /\ (p + 1 < e \/ e = Len(s) + 1)
      <4>1. At(t, p) # "end" /\ At(t, p + 1) # ":" /\ At(t, p + 1) # Comma
        <5>1. p \in i + 1..e - 1
          BY <2>7, <3>1, <3>3
        <5>2. CASE p + 1 < e
          <6>1. p + 1 \in i + 1..e - 1 /\ p + 1 # k
            BY <2>7, <3>1, <5>2
          <6> QED BY <2>8, <5>1, <6>1
        <5>3. CASE ~(p + 1 < e)
          <6>1. p + 1 = Len(s) + 1
            BY <2>7, <3>3, <5>3
          <6>2. At(t, p + 1) = "end"
            BY <2>6, <6>1
          <6> QED BY <2>8, <5>1, <6>2, Separators
        <5> QED BY <5>2, <5>3
      <4>2. b = StatsdScan(p + 1, "turn", m, i + 1, k, k + 1)
        BY <3>2, <4>1, StatsdMoves
      <4> HIDE DEF b
      <4>3. p + 1 \in Nat /\ p + 1 > n + 1 /\ k < p + 1 /\ (p + 1 < e \/ (p + 1 = e /\ p + 1 = Len(s) + 1))
        BY <2>1, <2>7, <3>1, <3>3
      <4>4. InValue(s, b, i, p + 1)
        BY <4>2, <4>3 DEF InValue, k, e, m
      <4> QED BY <4>3, <4>4 DEF StatsdRead, b, t
    <3>4. CASE p < e /\ ~(p + 1 < e) /\ e # Len(s) + 1
      <4>1. p + 1 = e /\ e \in 1..Len(s) /\ p \in i + 1..e - 1 /\ e \in Starts(s)
        BY <2>2, <2>7, <3>1, <3>4
      <4>2. At(t, p) # "end" /\ At(t, p + 1) = Comma
        BY <2>4, <2>6, <2>8, <4>1
      <4> DEFINE m2 == PairMap(PiecesBefore(s, Starts(s), e))
      <4>3. add_tag(m, t, i + 1, k, k + 1, p + 1) = Parsed(<<>>, m2)
        BY <2>5, <4>1
      <4> HIDE DEF m2
      <4>4. b = StatsdScan(p + 2, "turn", m2, p + 2, k, 0)
        BY <3>2, <4>2, <4>3, StatsdAdds
      <4> HIDE DEF b
      <4>5. EqualsOf(s, e) \in e + 2..PieceEnd(s, e) - 2 /\ PieceEnd(s, e) \in e + 1..Len(s) + 1
        BY <4>1, ListPieces, PairAt
      <4>6. p + 2 = e + 1 /\ e + 1 \in Nat /\ e + 1 > n + 1 /\ e + 1 <= e + 1 /\ e + 1 < EqualsOf(s, e)
        BY <1>1, <2>1, <2>7, <4>1, <4>5
      <4>7. InKey(s, b, e, e + 1)
        BY <4>4, <4>6 DEF InKey, m2
      <4> QED BY <4>1, <4>6, <4>7 DEF StatsdRead, b, t
    <3>5. CASE ~(p < e)
      <4>1. p = e /\ p = Len(s) + 1
        BY <3>1, <3>5
      <4> DEFINE m2 == PairMap(PiecesBefore(s, Starts(s), Len(s) + 1))
      <4>2. At(t, p) = "end" /\ add_tag(m, t, i + 1, k, k + 1, p) = Parsed(<<>>, m2)
        BY <2>5, <2>6, <4>1
      <4> HIDE DEF m2
      <4>3. b = StatsdScan(p, "done", m2, 0, 0, 0)
        BY <3>2, <4>2, StatsdEnds
      <4> HIDE DEF b
      <4>4. AllRead(s, b)
        BY <4>3 DEF AllRead, m2
      <4> QED BY <4>4 DEF StatsdRead, b, t
    <3> QED BY <3>3, <3>4, <3>5
  <2> QED BY <2>1, <2>9, <2>10
<1> QED BY <1>2, <1>3 DEF StatsdRead

\* The scan of a well-formed list of tags.
LEMMA StatsdReads ==
  ASSUME NEW s \in Texts, IsPairList(ListOf(s))
  PROVE  parse_statsd_tags(Statsd(s)) = Parsed(<<>>, PairMap(ListOf(s)))
<1> DEFINE start == StatsdScan(1, "turn", NoTags, 1, 0, 0)
           end == Loop("statsd", Statsd(s), start)
<1>1. Len(s) \in Nat /\ Len(Statsd(s)) = Len(s)
  BY TextType, StatsdText
<1>2. PICK t : t = Statsd(s)
  OBVIOUS
<1> HIDE DEF start
<1>3. PICK f : /\ Loop("statsd", t, start) = f[Len(t) + 1] /\ f[0] = start
               /\ \A n \in 0..Len(t) : f[n + 1] = Turn("statsd", t, f[n])
  <2>1. Len(t) \in Nat
    BY <1>1, <1>2
  <2> QED BY <2>1, LoopTurns
<1> DEFINE G == {n \in Nat : n <= Len(s) + 1 => StatsdRead(s, f[n], n)}
<1>4. 0 \in G
  <2>1. 0 \in Starts(s)
    BY DEF Starts
  <2>2. EqualsOf(s, 0) \in 0 + 2..PieceEnd(s, 0) - 2 /\ PieceEnd(s, 0) \in 0 + 1..Len(s) + 1
    BY <2>1, ListPieces, PairAt
  <2>3. 0 + 1 <= 1 /\ 1 < EqualsOf(s, 0) /\ 0 + 1 = 1
    BY <1>1, <2>2
  <2>4. PairMap(PiecesBefore(s, Starts(s), 0)) = NoTags
    <3>1. {j \in Starts(s) : j < 0} = {}
      BY CommasType
    <3>2. PiecesBefore(s, Starts(s), 0) = {}
      BY <3>1 DEF PiecesBefore
    <3> QED BY <3>2, NoPairs
  <2>5. start = StatsdScan(1, "turn", PairMap(PiecesBefore(s, Starts(s), 0)), 0 + 1, 0, 0)
    BY <2>3, <2>4 DEF start
  <2>6. InKey(s, f[0], 0, 1)
    BY <1>3, <2>3, <2>5 DEF InKey
  <2>7. StatsdRead(s, f[0], 0)
    BY <2>1, <2>6 DEF StatsdRead
  <2> QED BY <2>7
<1>5. ASSUME NEW n \in G PROVE n + 1 \in G
  <2>1. n \in Nat
    OBVIOUS
  <2> SUFFICES ASSUME n + 1 <= Len(s) + 1 PROVE StatsdRead(s, f[n + 1], n + 1)
    BY <2>1
  <2>2. n \in 0..Len(t) /\ n <= Len(s) + 1
    BY <1>1, <1>2, <2>1
  <2>3. StatsdRead(s, f[n], n)
    BY <2>2
  <2>4. f[n + 1] = StatsdTags(Statsd(s), f[n])
    BY <1>2, <1>3, <2>2 DEF Turn
  <2> QED BY <2>1, <2>3, <2>4, StatsdReadNext
<1>6. \A n \in Nat : n \in G
  <2>1. G \in SUBSET Nat
    OBVIOUS
  <2> HIDE DEF G
  <2> QED BY <1>4, <1>5, <2>1, SetInduction
<1> DEFINE N == Len(s) + 1
<1>7. StatsdRead(s, f[N], N)
  BY <1>1, <1>6
<1>8. ASSUME NEW i \in Starts(s), NEW p \in Nat, p > N, InKey(s, f[N], i, p) \/ InValue(s, f[N], i, p) PROVE FALSE
  <2>1. EqualsOf(s, i) \in i + 2..PieceEnd(s, i) - 2 /\ PieceEnd(s, i) \in i + 1..Len(s) + 1 /\ i \in 0..Len(s)
    BY ListPieces, PairAt
  <2>2. p < EqualsOf(s, i) \/ p < PieceEnd(s, i) \/ p = Len(s) + 1
    BY <1>8 DEF InKey, InValue
  <2> QED BY <1>1, <1>8, <2>1, <2>2
<1>9. AllRead(s, f[N])
  BY <1>7, <1>8 DEF StatsdRead
<1>10. PICK p : f[N] = StatsdScan(p, "done", PairMap(ListOf(s)), 0, 0, 0)
  BY <1>9 DEF AllRead, ListOf
<1>11. f[N].status # "failed" /\ f[N].tags = PairMap(ListOf(s))
  BY <1>10 DEF StatsdScan
<1>12. end = f[N]
  BY <1>1, <1>2, <1>3
<1>13. parse_statsd_tags(Statsd(s)) = IF end.status = "failed" THEN Failed ELSE Parsed(<<>>, end.tags)
  BY DEF parse_statsd_tags, start
<1> HIDE DEF end, N
<1> QED BY <1>11, <1>12, <1>13

-----------------------------------------------------------------------------
LineInv == text \in Texts /\ Len(text) <= MaxTextLength /\ result = Parse(text)

LEMMA LineInductive == LineInv /\ [LineNext]_lineVars => LineInv'
<1> SUFFICES ASSUME LineInv, [LineNext]_lineVars PROVE LineInv'
  OBVIOUS
<1>1. text \in Seq(Symbols) /\ Len(text) \in Nat
  BY TextType DEF LineInv
<1>2. <<>> \in Seq(Symbols) /\ Len(<<>>) = 0 /\ MaxTextLength \in Nat
  BY LineAssumption
<1>3. CASE UNCHANGED lineVars
  BY <1>3 DEF LineInv, lineVars
<1>4. ASSUME NEW c \in Symbols, ParseLonger(c) PROVE LineInv'
  <2>1. text' \in Seq(Symbols) /\ Len(text') = Len(text) + 1
    BY <1>1, <1>4, AppendProperties DEF ParseLonger
  <2>2. Len(text') <= MaxTextLength
    BY <1>1, <1>2, <1>4, <2>1 DEF ParseLonger
  <2> QED BY <1>4, <2>1, <2>2 DEF LineInv, ParseLonger, Texts
<1>5. CASE ParseAgain
  BY <1>2, <1>5 DEF LineInv, ParseAgain, Texts
<1> QED BY <1>3, <1>4, <1>5 DEF LineNext

LEMMA LineInvariant == LineSpec => []LineInv
<1>1. LineInit => LineInv
  <2>1. <<>> \in Seq(Symbols) /\ Len(<<>>) = 0 /\ MaxTextLength \in Nat
    BY LineAssumption
  <2> QED BY <2>1 DEF LineInit, LineInv, Texts
<1> QED BY <1>1, LineInductive, PTL DEF LineSpec

\* A text has at most MaxTextLength of the Symbols, and each of the three parsers
\* has read it.
THEOREM LineTypes == LineSpec => []LineTypeOK
<1>1. LineInv => LineTypeOK
  <2> SUFFICES ASSUME LineInv PROVE LineTypeOK
    OBVIOUS
  <2>1. DOMAIN text = 1..Len(text) /\ \A i \in 1..Len(text) : text[i] \in Symbols
    BY TextType DEF LineInv
  <2>2. {text[i] : i \in DOMAIN text} \subseteq Symbols
    BY <2>1
  <2>3. Len(result) = 3
    BY DEF LineInv, Parse
  <2> QED BY <2>2, <2>3 DEF LineInv, LineTypeOK
<1> QED BY <1>1, LineInvariant, PTL

\* Whatever a line is accepted with, the DELETE of that text names the same meter;
\* a well-formed id gives its name and its pairs, from the line, from the path and
\* from a list of statsd tags.
THEOREM LineTexts == LineSpec => []LineRoundTrip
<1>1. LineInv => LineRoundTrip
  <2> SUFFICES ASSUME LineInv PROVE LineRoundTrip
    OBVIOUS
  <2>1. text \in Texts
    BY DEF LineInv
  <2> DEFINE name == Piece(text, 0)
             pairs == {Piece(text, i) : i \in Commas(text)}
  <2>2. pairs = PairsOf(text) /\ {name} \cup pairs = ListOf(text)
    BY <2>1, AllPieces DEF ListOf
  <2>3. /\ result[1] = get_measurement(AsLine(text)) /\ result[2] = parse_id(text)
        /\ result[3] = parse_statsd_tags(Statsd(text))
    BY DEF LineInv, Parse, AsLine
  <2>4. result[1].ok => result[2] = result[1]
    BY <2>1, <2>3, AcceptedLine
  <2>5. name # <<>> /\ IsPairList(PairsOf(text)) => result[1] = Parsed(name, PairMap(PairsOf(text)))
    BY <2>1, <2>3, WellFormedLine
  <2>6. IsPairList(ListOf(text)) => result[3] = Parsed(<<>>, PairMap(ListOf(text)))
    BY <2>1, <2>3, StatsdReads
  <2> HIDE DEF pairs, name
  <2>7. Parsed(name, PairMap(PairsOf(text))).ok
    BY DEF Parsed
  <2>8. name # <<>> /\ IsPairList(pairs) => result[1] = Parsed(name, PairMap(pairs)) /\ result[2] = result[1]
    BY <2>2, <2>4, <2>5, <2>7
  <2>9. IsPairList({name} \cup pairs) => result[3] = Parsed(<<>>, PairMap({name} \cup pairs))
    BY <2>2, <2>6
  <2> QED BY <2>4, <2>8, <2>9 DEF LineRoundTrip, name, pairs
<1> QED BY <1>1, LineInvariant, PTL
=============================================================================
