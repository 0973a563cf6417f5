------------------------------- MODULE Server -------------------------------
(***************************************************************************)
(* The daemon's server (server/spectatord.cc) on its two threads.  The io  *)
(* thread receives datagrams, parses them line by line and updates meters; *)
(* for the percentile types it goes through a cache (expiring_cache.h)     *)
(* that hands out raw pointers to percentile meters, which in turn keep a  *)
(* shared_ptr to a timer or distribution summary of the registry.  The     *)
(* upkeep thread drops cache entries that were idle for a while; the       *)
(* registry's expirer drops idle meters, whoever still points to them.     *)
(*                                                                         *)
(* Time appears as ages that Tick advances.  A thread that runs takes at   *)
(* most MaxStall between two steps, a wait ends at its deadline.           *)
(***************************************************************************)
EXTENDS Integers, Sequences, FiniteSets

CONSTANTS
  Ids,          \* ids of percentile meters
  TypeOf,       \* [Ids -> {"T", "D"}]: a percentile timer or distribution summary
  Datagrams,    \* what the ports may receive: sequences of lines of one protocol
  StatusMetrics,  \* cfg.status_metrics_enabled
  ExpireAfter,  \* kExpireAfter, 120 s
  Frequency,    \* kFrequency of the upkeep thread, 30 s
  MeterTtl,     \* the registry's meter_ttl_, 15 min unless --meter_ttl says otherwise
  MaxStall      \* bound: how long a running thread may take for a step

\* What a line holds: the type, the ttl or timestamp after it, whether the ':'
\* follows, what get_measurement makes of the rest, the id and whether the value
\* is negative.  The empty line is one whose type is the end of the string.
Line == [type : {"A", "c", "C", "d", "D", "g", "m", "t", "T", "U", "X", "?", ""},
         extra : {"none", "positive", "invalid"}, separator : BOOLEAN,
         measurement : BOOLEAN, id : Ids, negative : BOOLEAN]

\* The same for statsd; form says which part, if any, is malformed.
StatsdLine == [type : {"c", "g", "h", "ms", "s", "?"},
               form : {"ok", "name", "value", "separator", "rate", "tags"},
               id : Ids, negative : BOOLEAN]

ASSUME ServerAssumption ==
  /\ Ids # {} /\ TypeOf \in [Ids -> {"T", "D"}]
  /\ \A ls \in Datagrams : ls # <<>> /\ (ls \in Seq(Line) \/ ls \in Seq(StatsdLine))
  /\ {ExpireAfter, Frequency, MeterTtl, MaxStall} \subseteq Nat
  /\ StatusMetrics \in BOOLEAN
  /\ MaxStall <= ExpireAfter
  /\ MeterTtl >= ExpireAfter + 2 * (Frequency + MaxStall)  \* --meter_ttl may break this

VARIABLES
  phase,    \* of Start: "new", "running", "joining", "returned", or "terminated"
  io,       \* the io thread: "idle", "parse", "record", "count" or "reply"
  packet,   \* the lines of the datagram being handled
  rest,     \* those still to be handled
  held,     \* what the current line works on
  ioAge,    \* time since the io thread got it
  parsed, failed,  \* parsed_count_ and parse_errors_ of this datagram
  applied,  \* the lines of this datagram that were applied, or parsed and ignored
  cache,    \* [Ids -> cache_entry or NoEntry], perc_timers_ and perc_ds_ together
  meter,    \* [Ids -> time since Update() of the registered meter, or Absent]
  upkeep,   \* the upkeep thread: "none", "check", "ds", "timers", "sleep" or "ended"
  upAge,    \* time since its loop began
  should_stop, stopAge

ioVars == <<io, packet, rest, held, ioAge, parsed, failed, applied>>
upkeepVars == <<upkeep, upAge, should_stop, stopAge>>
serverVars == <<phase, ioVars, cache, meter, upkeepVars>>

Absent == MeterTtl + 2   \* no meter: one more than the oldest age kept

\* An entry: the age of its stamp, whether its meter is the registered one and
\* whether that meter was updated since the stamp.
NoEntry == [age |-> 0, own |-> FALSE, fed |-> FALSE, present |-> FALSE]
Entry(own) == [age |-> 0, own |-> own, fed |-> FALSE, present |-> TRUE]

\* Nothing held; otherwise the id, whether through the cache, whether the entry
\* it came from was freed since, and whether its meter is the registered one.
HoldsNothing == [id |-> CHOOSE i \in Ids : TRUE, cached |-> FALSE, freed |-> FALSE, own |-> FALSE]
Holding(i, cached, own) == [id |-> i, cached |-> cached, freed |-> FALSE, own |-> own]

Older(age, cap) == IF age < cap THEN age + 1 ELSE age

ServerInit ==
  /\ phase = "new" /\ io = "idle" /\ packet = <<>> /\ rest = <<>>
  /\ held = HoldsNothing /\ ioAge = 0 /\ parsed = 0 /\ failed = 0 /\ applied = <<>>
  /\ cache = [i \in Ids |-> NoEntry] /\ meter = [i \in Ids |-> Absent]
  /\ upkeep = "none" /\ upAge = 0 /\ should_stop = FALSE /\ stopAge = 0

-----------------------------------------------------------------------------
\* Start and Stop

\* Start: the upkeep thread, then the sockets, then io_context.run().
Start ==
  /\ phase = "new"
  /\ phase' = "running" /\ upkeep' = "check"
  /\ UNCHANGED <<ioVars, cache, meter, upAge, should_stop, stopAge>>

\* A socket cannot be opened: the exception leaves Start while upkeep_thread_ is
\* joinable, and its destructor ends the process.
StartFails ==
  /\ phase = "new"
  /\ phase' = "terminated"
  /\ UNCHANGED <<ioVars, cache, meter, upkeepVars>>

\* The handler of SIGINT and SIGTERM runs on the io thread, between datagrams.
Stop ==
  /\ phase = "running" /\ io = "idle" /\ ~should_stop
  /\ should_stop' = TRUE /\ phase' = "joining"
  /\ UNCHANGED <<ioVars, cache, meter, upkeep, upAge, stopAge>>

\* upkeep_thread_.join() returns, and with it Start.
Join ==
  /\ phase = "joining" /\ upkeep = "ended"
  /\ phase' = "returned"
  /\ UNCHANGED <<ioVars, cache, meter, upkeepVars>>

-----------------------------------------------------------------------------
\* The io thread

\* A datagram of one of the two protocols.
Receive(lines) ==
  /\ phase = "running" /\ io = "idle"
  /\ packet' = lines /\ rest' = lines /\ io' = "parse"
  /\ UNCHANGED <<phase, held, ioAge, parsed, failed, applied, cache, meter, upkeepVars>>

\* The handler returned its error message, which nobody reads: receive again.
start_receive ==
  /\ io = "reply"
  /\ io' = "idle" /\ packet' = <<>> /\ ioAge' = 0
  /\ parsed' = 0 /\ failed' = 0 /\ applied' = <<>>
  /\ UNCHANGED <<phase, rest, held, cache, meter, upkeepVars>>

\* parse_line up to the switch, and its default.
parse_line(l) ==
  /\ ~(l.extra = "invalid" /\ l.type \in {"g", "X"})
  /\ l.separator /\ l.measurement
  /\ l.type \notin {"?", ""}

\* parse_statsd_line up to update_statsd_metric
parse_statsd_line(l) == l.form = "ok" /\ l.type # "?"

IsStatsd(l) == "form" \in DOMAIN l
Parses(l) == IF IsStatsd(l) THEN parse_statsd_line(l) ELSE parse_line(l)

\* The switch: T and D go through the cache; t, d, ms and h get the same kinds of
\* meter from the registry; the other lines touch meters that no entry holds.
Cached(l) == ~IsStatsd(l) /\ l.type = TypeOf[l.id]
Direct(l) == l.type \in IF TypeOf[l.id] = "T" THEN {"t", "ms"} ELSE {"d", "h"}

\* After a line: the empty lines that follow it are skipped.
NextLines(ls) ==
  LET empty(l) == ~IsStatsd(l) /\ l.type = ""
      skipped == {n \in 2..Len(ls) : \A j \in 2..n : empty(ls[j])}
  IN SubSeq(ls, 2 + Cardinality(skipped), Len(ls))

LineDone(ls) == rest' = ls /\ io' = IF ls = <<>> THEN "reply" ELSE "parse"

LineFails_stops ==
  /\ io = "parse" /\ ~Parses(Head(rest))
  /\ failed' = IF StatusMetrics THEN failed + 1 ELSE failed
  /\ LineDone(<<>>)
  /\ UNCHANGED <<phase, packet, held, ioAge, parsed, applied, cache, meter, upkeepVars>>

\* A line with an error is counted, and the rest of the datagram goes on.
LineFails ==
  /\ io = "parse" /\ ~Parses(Head(rest))
  /\ failed' = IF StatusMetrics THEN failed + 1 ELSE failed
  /\ LineDone(NextLines(rest))
  /\ UNCHANGED <<phase, packet, held, ioAge, parsed, applied, cache, meter, upkeepVars>>

\* The line is done: parsed_count_.
Counted ==
  /\ parsed' = IF StatusMetrics THEN parsed + 1 ELSE parsed
  /\ applied' = Append(applied, Head(rest))
  /\ LineDone(NextLines(rest))
  /\ held' = HoldsNothing /\ ioAge' = 0

\* A line about any other meter, or one that is ignored (statsd sets, X without
\* a timestamp).
LineElsewhere ==
  /\ io = "parse" /\ Parses(Head(rest))
  /\ ~Cached(Head(rest)) /\ ~Direct(Head(rest))
  /\ Counted
  /\ UNCHANGED <<phase, packet, failed, cache, meter, upkeepVars>>

\* GetTimer or GetDistributionSummary: the registered meter, or a new one.
GetMeter(i) == meter' = IF meter[i] = Absent THEN [meter EXCEPT ![i] = 0] ELSE meter

LineDirect ==
  /\ io = "parse" /\ Parses(Head(rest)) /\ Direct(Head(rest))
  /\ GetMeter(Head(rest).id)
  /\ held' = Holding(Head(rest).id, FALSE, TRUE)
  /\ io' = "record" /\ ioAge' = 0
  /\ UNCHANGED <<phase, packet, rest, parsed, failed, applied, cache, upkeepVars>>

get_or_create_no_stamp(i) ==
  IF cache[i].present
  THEN /\ held' = Holding(i, TRUE, cache[i].own)
       /\ UNCHANGED <<cache, meter>>
  ELSE /\ GetMeter(i)
       /\ cache' = [cache EXCEPT ![i] = Entry(TRUE)]
       /\ held' = Holding(i, TRUE, TRUE)

\* get_or_create: a hit renews the stamp; a miss constructs the percentile
\* meter, which gets its timer or summary from the registry.
get_or_create(i) ==
  IF cache[i].present
  THEN /\ cache' = [cache EXCEPT ![i] = Entry(cache[i].own)]
       /\ held' = Holding(i, TRUE, cache[i].own)
       /\ UNCHANGED meter
  ELSE /\ GetMeter(i)
       /\ cache' = [cache EXCEPT ![i] = Entry(TRUE)]
       /\ held' = Holding(i, TRUE, TRUE)

LineCached ==
  /\ io = "parse" /\ Parses(Head(rest)) /\ Cached(Head(rest))
  /\ get_or_create(Head(rest).id)
  /\ io' = "record" /\ ioAge' = 0
  /\ UNCHANGED <<phase, packet, rest, parsed, failed, applied, upkeepVars>>

\* The percentile summary ignores a negative amount; a timer and a plain summary
\* update their time whatever the amount.
Ignored == held.cached /\ TypeOf[held.id] = "D" /\ Head(rest).negative

\* Record's first part: Update() of the meter, registered or not.
Record ==
  /\ io = "record" /\ ~Ignored
  /\ meter' = IF held.own THEN [meter EXCEPT ![held.id] = 0] ELSE meter
  /\ cache' = IF held.cached /\ ~held.freed THEN [cache EXCEPT ![held.id].fed = TRUE] ELSE cache
  /\ io' = "count"
  /\ UNCHANGED <<phase, packet, rest, held, ioAge, parsed, failed, applied, upkeepVars>>

\* Record's second part, of a percentile meter the counter of the bucket.
RecordReturns ==
  /\ io = "count" \/ (io = "record" /\ Ignored)
  /\ Counted
  /\ UNCHANGED <<phase, packet, failed, cache, meter, upkeepVars>>

-----------------------------------------------------------------------------
\* The upkeep thread

UpkeepCheck_forever ==
  /\ phase \in {"running", "joining"} /\ upkeep = "check"
  /\ upkeep' = "ds"
  /\ upAge' = 0
  /\ UNCHANGED <<phase, ioVars, cache, meter, should_stop, stopAge>>

\* while (!should_stop_); otherwise the loop begins.
UpkeepCheck ==
  /\ phase \in {"running", "joining"} /\ upkeep = "check"
  /\ upkeep' = IF should_stop THEN "ended" ELSE "ds"
  /\ upAge' = 0
  /\ UNCHANGED <<phase, ioVars, cache, meter, should_stop, stopAge>>

\* expire of one cache: the entries older than kExpireAfter are freed.
Expired(t) == {i \in Ids : TypeOf[i] = t /\ cache[i].present /\ cache[i].age > ExpireAfter}

expire(t) ==
  /\ cache' = [i \in Ids |-> IF i \in Expired(t) THEN NoEntry ELSE cache[i]]
  /\ held' = IF held.cached /\ held.id \in Expired(t) THEN [held EXCEPT !.freed = TRUE] ELSE held

UpkeepSummaries ==
  /\ upkeep = "ds" /\ expire("D") /\ upkeep' = "timers"
  /\ UNCHANGED <<phase, io, packet, rest, ioAge, parsed, failed, applied, meter, upAge, should_stop, stopAge>>

UpkeepTimers_kept ==
  /\ upkeep = "timers"
  /\ upkeep' = IF upAge < Frequency THEN "sleep" ELSE "check"
  /\ UNCHANGED <<phase, ioVars, cache, meter, upAge, should_stop, stopAge>>

\* The status metrics follow; then the thread sleeps for what is left of the
\* period, if anything is.
UpkeepTimers ==
  /\ upkeep = "timers" /\ expire("T")
  /\ upkeep' = IF upAge < Frequency THEN "sleep" ELSE "check"
  /\ UNCHANGED <<phase, io, packet, rest, ioAge, parsed, failed, applied, meter, upAge, should_stop, stopAge>>

\* cv_.wait_for returns: notified, spuriously, or at the end of the period.  The
\* notification of Stop is lost on a thread that is not waiting yet.
UpkeepWake ==
  /\ upkeep = "sleep" /\ upkeep' = "check"
  /\ UNCHANGED <<phase, ioVars, cache, meter, upAge, should_stop, stopAge>>

-----------------------------------------------------------------------------
\* The registry's expirer and the clock

\* An idle meter leaves the map; an entry or the io thread may still hold it.
ExpireMeter(i) ==
  /\ phase \notin {"new", "terminated"} /\ meter[i] # Absent /\ meter[i] > MeterTtl
  /\ meter' = [meter EXCEPT ![i] = Absent]
  /\ cache' = [cache EXCEPT ![i].own = FALSE]
  /\ held' = IF held.id = i THEN [held EXCEPT !.own = FALSE] ELSE held
  /\ UNCHANGED <<phase, io, packet, rest, ioAge, parsed, failed, applied, upkeepVars>>

\* Time passes, no further than the deadlines allow.
Tick ==
  /\ phase \in {"running", "joining"}
  /\ io # "idle" => ioAge < MaxStall
  /\ upkeep \in {"check", "ds", "timers"} => upAge < Frequency + MaxStall
  /\ upkeep = "sleep" => upAge < Frequency
  /\ ~(phase = "joining" /\ upkeep = "ended")
  /\ ioAge' = IF io = "idle" THEN 0 ELSE ioAge + 1
  /\ upAge' = upAge + 1
  /\ stopAge' = IF phase = "joining" THEN stopAge + 1 ELSE stopAge
  /\ cache' = [i \in Ids |-> IF cache[i].present
                               THEN [cache[i] EXCEPT !.age = Older(@, ExpireAfter + 1)] ELSE cache[i]]
  /\ meter' = [i \in Ids |-> IF meter[i] = Absent THEN Absent ELSE Older(meter[i], MeterTtl + 1)]
  /\ UNCHANGED <<phase, io, packet, rest, held, parsed, failed, applied, upkeep, should_stop>>

\* A server that stopped stays as it is.
Stopped == phase \in {"returned", "terminated"} /\ UNCHANGED serverVars

ServerNext ==
  \/ Start \/ StartFails \/ Stop \/ Join
  \/ \E ls \in Datagrams : Receive(ls)
  \/ start_receive \/ LineFails \/ LineElsewhere \/ LineDirect \/ LineCached \/ Record \/ RecordReturns
  \/ UpkeepCheck \/ UpkeepSummaries \/ UpkeepTimers \/ UpkeepWake
  \/ \E i \in Ids : ExpireMeter(i)
  \/ Tick \/ Stopped

ServerSpec == ServerInit /\ [][ServerNext]_serverVars

-----------------------------------------------------------------------------
\* Types
ServerTypeOK ==
  /\ phase \in {"new", "running", "joining", "returned", "terminated"}
  /\ io \in {"idle", "parse", "record", "count", "reply"}
  /\ (rest = <<>>) = (io \in {"idle", "reply"})
  /\ held.id \in Ids /\ {held.cached, held.freed, held.own} \subseteq BOOLEAN
  /\ cache \in [Ids -> [age : 0..ExpireAfter + 1, own : BOOLEAN, fed : BOOLEAN, present : BOOLEAN]]
  /\ meter \in [Ids -> 0..MeterTtl + 2]
  /\ upkeep \in {"none", "check", "ds", "timers", "sleep", "ended"}
  /\ {ioAge, parsed, failed, upAge, stopAge} \subseteq Nat /\ should_stop \in BOOLEAN

\* The raw pointer that get_or_create returned is not freed by the upkeep thread
\* while the io thread uses it, although only the stamp protects it.
EntryAliveWhileUsed == io \in {"record", "count"} => ~held.freed

\* The registry's expirer takes no meter away from a cache entry whose last line
\* was recorded: the entry always expires first.
ExpiryLeavesFedEntries ==
  [][\A i \in Ids : cache[i].present /\ cache[i].own /\ cache[i].fed /\ cache'[i].present
        => cache'[i].own]_serverVars

\* Every line of a datagram is handled exactly once, in order, whatever the lines
\* before it were: the well-formed ones are taken (applied, or parsed and ignored as
\* statsd sets are), each of the others is one error, and the two counters say so.
LinesAccounted ==
  io = "reply" =>
    LET kept == {n \in DOMAIN packet : n = 1 \/ IsStatsd(packet[n]) \/ packet[n].type # ""}
        good == {n \in kept : Parses(packet[n])}
    IN /\ Len(applied) = Cardinality(good)
       /\ \A n \in good : applied[Cardinality({j \in good : j <= n})] = packet[n]
       /\ parsed = IF StatusMetrics THEN Cardinality(good) ELSE 0
       /\ failed = IF StatusMetrics THEN Cardinality(kept \ good) ELSE 0

\* Stop returns after at most one more period of the upkeep thread, also when its
\* notification is lost.
StopBounded == stopAge <= Frequency + MaxStall

\* What is recorded through a percentile meter reaches the meter that the registry
\* publishes.
RecordsReachRegistry == io = "count" /\ held.cached => held.own
=============================================================================
