------------------------------ MODULE Registry ------------------------------
(***************************************************************************)
(* The registry of spectatord: nine maps from ids to shared meters, each   *)
(* with its own lock (spectator/registry.h, registry.cc), and the threads  *)
(* of the daemon that work on them:                                        *)
(*                                                                         *)
(*  - clients (the io thread that parses lines, the upkeep thread): get or *)
(*    create a meter, then update it through the shared_ptr they hold;     *)
(*  - the expirer, which erases idle meters map by map;                    *)
(*  - the publisher's sender, which measures every map and then works on   *)
(*    Measurements that refer to ids owned by the meters;                  *)
(*  - the admin handlers, which erase age gauges and gauges and list       *)
(*    meters through raw pointers.                                         *)
(*                                                                         *)
(* One action is one critical section of meters_mutex_, or one access to   *)
(* an atomic of a meter outside it.  What a value is does not matter here, *)
(* only whether a meter holds something that was never reported: the       *)
(* arithmetic of the meters is in CounterMeter, MaxGaugeMeter,             *)
(* MonotonicCounter and MonotonicCounterUint.                              *)
(***************************************************************************)
EXTENDS Integers, FiniteSets

CONSTANTS
  Keys,         \* the (meter type, id) pairs that are used
  TypeOf,       \* [Keys -> Types], the map a key belongs to
  Objs,         \* addresses of meter objects
  None,         \* no object, no key
  Pinned,       \* [a set of keys -> Objs]: meters of which the daemon keeps a
                \* shared_ptr for life (registry_size_, parse_errors_, ...)
  RegistrySize, \* the key of registry_size_, or None without status metrics
  Clients,      \* threads that get and update meters
  AgeClients,   \* those of them that call GetAgeGauge
  Admins,       \* threads of the admin server
  AgeGaugeLimit, MeterTtl, DefaultGaugeTtl, GaugeTtls, MinTtl,
  ExpirationFrequency,
  MaxTime       \* bound: the clock stops here

\* registry.h:182-190, one map for each
Types == {"AgeGauge", "Counter", "DistributionSummary", "Gauge", "MaxGauge",
          "MonotonicCounter", "MonotonicCounterUint", "MonotonicSampled", "Timer"}

Deletable == {"AgeGauge", "Gauge"}

ASSUME RegistryAssumption ==
  /\ TypeOf \in [Keys -> Types]
  /\ None \notin Objs /\ None \notin Keys /\ None \notin GaugeTtls
  /\ DOMAIN Pinned \subseteq Keys
  /\ Pinned \in [DOMAIN Pinned -> Objs]
  /\ \A k, l \in DOMAIN Pinned : Pinned[k] = Pinned[l] => k = l
  /\ \A k \in DOMAIN Pinned : TypeOf[k] # "AgeGauge"
  /\ RegistrySize \in DOMAIN Pinned \cup {None}
  /\ AgeClients \subseteq Clients
  /\ AgeGaugeLimit \in Nat /\ MeterTtl \in Nat /\ MinTtl \in Nat
  /\ DefaultGaugeTtl \in Nat /\ GaugeTtls \subseteq Nat
  /\ ExpirationFrequency \in Nat /\ MaxTime \in Nat

VARIABLES
  now,      \* the clock all threads read
  meters,   \* [Keys -> Objs or None], the nine maps
  heap,     \* the meter objects some pointer refers to
  cpc, ckey, cobj, cttl,   \* each client: where it is, its id, shared_ptr and ttl
  xpc, xtodo, xnow,        \* expirer: where it is, maps to visit, its "now"
  spc, stodo, ms,          \* sender: where it is, maps to visit, the meters whose
                           \* ids its Measurements refer to
  apc, akey, aptrs,        \* each admin: where it is, its id, its raw pointers
  crashed                  \* an exception left a noexcept function

clientVars  == <<cpc, ckey, cobj, cttl>>
expirerVars == <<xpc, xtodo, xnow>>
senderVars  == <<spc, stodo, ms>>
adminVars   == <<apc, akey, aptrs>>
vars == <<now, meters, heap, clientVars, expirerVars, senderVars, adminVars, crashed>>

\* Where a thread is; nothing runs after std::terminate.
ClientAt(c, p) == ~crashed /\ cpc[c] = p
ExpirerAt(p)   == ~crashed /\ xpc = p
SenderAt(p)    == ~crashed /\ spc = p
AdminAt(a, p)  == ~crashed /\ apc[a] = p

-----------------------------------------------------------------------------
\* Objects

\* Objects some shared_ptr keeps alive.
Owned == ({meters[k] : k \in Keys} \cup {cobj[c] : c \in Clients}
            \cup {Pinned[k] : k \in DOMAIN Pinned}) \ {None}

\* Objects some pointer or reference leads to, the freed ones among them too:
\* an address is not reused while a stale reference to it is around.
Referenced == Owned \cup ms \cup UNION {aptrs[a] : a \in Admins}

\* gauge.cc:10-19: a gauge lives at least MinTtl (5 s).
get_ttl(ttl) == IF ttl < MinTtl THEN MinTtl ELSE ttl

\* A meter just constructed.  value is "none" if Measure would report nothing,
\* "new" after an update no Measure has seen, "old" if Measure repeats it.
\* life records how the object came to be outside the map, if it is.
NewMeter(k, t, l) ==
  [key |-> k, updated |-> now, ttl |-> get_ttl(t), life |-> l,
   value |-> IF TypeOf[k] = "AgeGauge" THEN "old" ELSE "none"]

is_meter_expired_ge(t, m) ==
  CASE TypeOf[m.key] = "AgeGauge" -> FALSE
    [] TypeOf[m.key] = "Gauge"    -> t - m.updated >= m.ttl
    [] OTHER                      -> t - m.updated >= MeterTtl

\* registry.h:30-47
is_meter_expired(t, m) ==
  CASE TypeOf[m.key] = "AgeGauge" -> FALSE
    [] TypeOf[m.key] = "Gauge"    -> t - m.updated > m.ttl
    [] OTHER                      -> t - m.updated > MeterTtl

Registered(t) == {meters[k] : k \in {l \in Keys : TypeOf[l] = t}} \ {None}

EraseAll_frees(E) ==
  /\ meters' = [k \in Keys |-> IF meters[k] \in E THEN None ELSE meters[k]]
  /\ heap' = [o \in Referenced' \ E |-> heap[o]]

\* The objects in E leave the maps; those no longer referenced are freed.
EraseAll(E) ==
  /\ meters' = [k \in Keys |-> IF meters[k] \in E THEN None ELSE meters[k]]
  /\ heap' = [o \in Referenced' |->
                IF o \in E THEN [heap[o] EXCEPT !.life = "erased"] ELSE heap[o]]

-----------------------------------------------------------------------------
\* Clients: Registry::GetX and the update that follows

insert_assign(c, k, t, o) ==
  /\ o \notin DOMAIN heap
  /\ meters' = [meters EXCEPT ![k] = o]
  /\ cobj' = [cobj EXCEPT ![c] = o]
  /\ heap' = [x \in Referenced' |-> IF x = o THEN NewMeter(k, t, "registered") ELSE heap[x]]

\* registry.h:69-75: the new object o is registered only if the id has no meter
\* yet; the caller gets the registered one, whose last_updated_ is left alone.
insert(c, k, t, o) ==
  IF meters[k] = None
  THEN /\ o \notin DOMAIN heap
       /\ meters' = [meters EXCEPT ![k] = o]
       /\ cobj' = [cobj EXCEPT ![c] = o]
       /\ heap' = [x \in Referenced' |-> IF x = o THEN NewMeter(k, t, "registered") ELSE heap[x]]
  ELSE /\ o = meters[k]
       /\ cobj' = [cobj EXCEPT ![c] = o]
       /\ UNCHANGED <<meters, heap>>

\* A client that moves on to pc p and touches nothing but what it says.
ClientGoes(c, p) ==
  /\ cpc' = [cpc EXCEPT ![c] = p]
  /\ UNCHANGED <<now, expirerVars, senderVars, adminVars>>

\* GetCounter, GetTimer, GetGauge(id), ...: every getter but GetAgeGauge and
\* GetGauge(id, ttl) is one insert.
Get(c, k) ==
  /\ ClientAt(c, "idle")
  /\ TypeOf[k] # "AgeGauge"
  /\ ckey' = [ckey EXCEPT ![c] = k]
  /\ ClientGoes(c, "touch")
  /\ UNCHANGED <<cttl, crashed>>
  /\ \E o \in Objs : insert(c, k, DefaultGaugeTtl, o)

\* GetGauge(id, ttl): the insert ...
GetGaugeTtl(c, k) ==
  /\ ClientAt(c, "idle")
  /\ TypeOf[k] = "Gauge"
  /\ ckey' = [ckey EXCEPT ![c] = k]
  /\ ClientGoes(c, "setttl")
  /\ UNCHANGED crashed
  /\ \E t \in GaugeTtls, o \in Objs : /\ insert(c, k, t, o)
                                      /\ cttl' = [cttl EXCEPT ![c] = t]

\* ... and SetTtl, outside the lock.
SetTtl(c) ==
  /\ ClientAt(c, "setttl")
  /\ heap' = [heap EXCEPT ![cobj[c]].ttl = get_ttl(cttl[c])]
  /\ cttl' = [cttl EXCEPT ![c] = None]
  /\ ClientGoes(c, "touch")
  /\ UNCHANGED <<meters, ckey, cobj, crashed>>

\* GetAgeGauge, first critical section: contains(id).
AgeContains(c, k) ==
  /\ ClientAt(c, "idle")
  /\ c \in AgeClients
  /\ TypeOf[k] = "AgeGauge"
  /\ ckey' = [ckey EXCEPT ![c] = k]
  /\ ClientGoes(c, IF meters[k] # None THEN "at" ELSE "size")
  /\ UNCHANGED <<meters, heap, cobj, cttl, crashed>>

\* at(id) throws std::out_of_range if the gauge went away in between, and
\* GetAgeGauge is noexcept: std::terminate.
AgeAt(c) ==
  /\ ClientAt(c, "at")
  /\ IF meters[ckey[c]] # None
     THEN /\ cobj' = [cobj EXCEPT ![c] = meters[ckey[c]]]
          /\ UNCHANGED crashed
     ELSE /\ crashed' = TRUE
          /\ UNCHANGED cobj
  /\ ClientGoes(c, "apply")
  /\ UNCHANGED <<meters, heap, ckey, cttl>>

AgeGaugeRoom_le(n) == n <= AgeGaugeLimit

AgeGaugeRoom(n) == n < AgeGaugeLimit

\* size() < age_gauge_limit decides; beyond it the caller gets an AgeGauge
\* that no map knows.
AgeSize(c) ==
  /\ ClientAt(c, "size")
  /\ IF AgeGaugeRoom(Cardinality(Registered("AgeGauge")))
     THEN /\ ClientGoes(c, "insert")
          /\ UNCHANGED <<heap, cobj>>
     ELSE /\ \E o \in Objs \ DOMAIN heap :
               /\ cobj' = [cobj EXCEPT ![c] = o]
               /\ heap' = [x \in DOMAIN heap \cup {o} |->
                             IF x = o THEN NewMeter(ckey[c], 0, "unregistered") ELSE heap[x]]
          /\ ClientGoes(c, "apply")
  /\ UNCHANGED <<meters, ckey, cttl, crashed>>

AgeInsert(c) ==
  /\ ClientAt(c, "insert")
  /\ ClientGoes(c, "apply")
  /\ UNCHANGED <<ckey, cttl, crashed>>
  /\ \E o \in Objs : insert(c, ckey[c], 0, o)

\* An update through a shared_ptr the daemon holds for life.
UsePinned(c, k) ==
  /\ ClientAt(c, "idle")
  /\ k \in DOMAIN Pinned
  /\ k # RegistrySize
  /\ cobj' = [cobj EXCEPT ![c] = Pinned[k]]
  /\ ckey' = [ckey EXCEPT ![c] = k]
  /\ ClientGoes(c, "touch")
  /\ UNCHANGED <<meters, heap, cttl, crashed>>

\* Meter::Update(): last_updated_ is stored first, the value after it.
Touch(c) ==
  /\ ClientAt(c, "touch")
  /\ heap' = [heap EXCEPT ![cobj[c]].updated = now]
  /\ ClientGoes(c, "apply")
  /\ UNCHANGED <<meters, ckey, cobj, cttl, crashed>>

\* The value itself: Add, Record, Set, UpdateLastSuccess.  An update can record
\* nothing (a negative delta).
Apply(c) ==
  /\ ClientAt(c, "apply")
  /\ \E v \in {"new", heap[cobj[c]].value} :
       heap' = [heap EXCEPT ![cobj[c]].value = v]
  /\ ClientGoes(c, "return")
  /\ UNCHANGED <<meters, ckey, cobj, cttl, crashed>>

\* The shared_ptr goes out of scope.
Return(c) ==
  /\ ClientAt(c, "return")
  /\ cobj' = [cobj EXCEPT ![c] = None]
  /\ ckey' = [ckey EXCEPT ![c] = None]
  /\ ClientGoes(c, "idle")
  /\ UNCHANGED <<meters, cttl, crashed>>
  /\ heap' = [o \in Referenced' |-> heap[o]]

Client(c) ==
  \/ \E k \in Keys : Get(c, k) \/ GetGaugeTtl(c, k) \/ AgeContains(c, k) \/ UsePinned(c, k)
  \/ SetTtl(c) \/ AgeAt(c) \/ AgeSize(c) \/ AgeInsert(c)
  \/ Touch(c) \/ Apply(c) \/ Return(c)

-----------------------------------------------------------------------------
\* The expirer thread

\* Visiting a map that no key belongs to changes nothing and is left out.
Used(S) == {t \in S : \E k \in Keys : TypeOf[k] = t}

\* The order in which the maps are visited, registry.h:202-209 and 222-242
Order == [AgeGauge |-> 1, Counter |-> 2, DistributionSummary |-> 3, Gauge |-> 4, MaxGauge |-> 5,
          MonotonicCounter |-> 6, MonotonicCounterUint |-> 7, Timer |-> 8]
First(S) == CHOOSE t \in S : \A u \in S : Order[t] <= Order[u]

ExpireMaps_no_gauges == Used(DOMAIN Order \ {"AgeGauge", "Gauge"})

\* "age gauges don't expire", and mono_sampled_ is not visited
ExpireMaps == Used(DOMAIN Order \ {"AgeGauge"})

ExpirerWake_always ==
  /\ ExpirerAt("wait")
  /\ ExpireMaps # {}
  /\ xtodo' = ExpireMaps
  /\ xpc' = "now"
  /\ UNCHANGED <<now, meters, heap, clientVars, xnow, senderVars, adminVars, crashed>>

\* registry.cc:234-265, the wait is over: start a round.  With frequency zero
\* the thread returns before its first wait.
ExpirerWake ==
  /\ ExpirationFrequency # 0
  /\ ExpirerAt("wait")
  /\ ExpireMaps # {}
  /\ xtodo' = ExpireMaps
  /\ xpc' = "now"
  /\ UNCHANGED <<now, meters, heap, clientVars, xnow, senderVars, adminVars, crashed>>

\* remove_expired takes the time before it takes the lock ...
ExpirerNow ==
  /\ ExpirerAt("now")
  /\ xnow' = now
  /\ xpc' = "erase"
  /\ UNCHANGED <<now, meters, heap, clientVars, xtodo, senderVars, adminVars, crashed>>

\* ... and erases every meter of one map that had expired then.
ExpirerErase ==
  /\ ExpirerAt("erase")
  /\ xtodo' = xtodo \ {First(xtodo)}
  /\ xpc' = IF xtodo' = {} THEN "wait" ELSE "now"
  /\ xnow' = 0
  /\ UNCHANGED <<now, clientVars, senderVars, adminVars, crashed>>
  /\ EraseAll({o \in Registered(First(xtodo)) : is_meter_expired(xnow, heap[o])})

Expirer == ExpirerWake \/ ExpirerNow \/ ExpirerErase

-----------------------------------------------------------------------------
\* The sender thread of the publisher

MeasureMaps_no_gauges == Used(DOMAIN Order \ {"Gauge"})

\* mono_sampled_ is not visited either
MeasureMaps == Used(DOMAIN Order)

\* Registry::Measurements is called.
SenderStart ==
  /\ SenderAt("wait")
  /\ stodo' = MeasureMaps
  /\ spc' = "measure"
  /\ UNCHANGED <<now, meters, heap, clientVars, expirerVars, ms, adminVars, crashed>>

\* What a meter holds after Measure: gauges repeat their value, the others reset.
Measured(o) ==
  [heap[o] EXCEPT !.value =
     IF @ # "none" /\ TypeOf[heap[o].key] \in {"AgeGauge", "Gauge"} THEN "old" ELSE "none"]

Measure_resets_idle ==
  /\ SenderAt("measure") /\ stodo # {}
  /\ LET R == Registered(First(stodo))
     IN /\ ms' = ms \cup {o \in R : ~is_meter_expired(now, heap[o]) /\ heap[o].value # "none"}
        /\ heap' = [o \in DOMAIN heap |-> IF o \in R THEN Measured(o) ELSE heap[o]]
  /\ stodo' = stodo \ {First(stodo)}
  /\ UNCHANGED <<now, meters, clientVars, expirerVars, spc, adminVars, crashed>>

\* meter_map::measure on one map, under its lock.
Measure ==
  /\ SenderAt("measure") /\ stodo # {}
  /\ LET M == {o \in Registered(First(stodo)) : ~is_meter_expired(now, heap[o])}
     IN /\ ms' = ms \cup {o \in M : heap[o].value # "none"}
        /\ heap' = [o \in DOMAIN heap |-> IF o \in M THEN Measured(o) ELSE heap[o]]
  /\ stodo' = stodo \ {First(stodo)}
  /\ UNCHANGED <<now, meters, clientVars, expirerVars, spc, adminVars, crashed>>

\* registry_size_->Record(res.size()), through the pinned handle.
RecordSize ==
  /\ SenderAt("measure") /\ stodo = {}
  /\ spc' = "publish"
  /\ heap' = IF RegistrySize = None THEN heap
             ELSE [heap EXCEPT ![Pinned[RegistrySize]].updated = now,
                               ![Pinned[RegistrySize]].value = "new"]
  /\ UNCHANGED <<now, meters, clientVars, expirerVars, stodo, ms, adminVars, crashed>>

\* The measurements are serialised and sent; then send_metrics returns.
Publish ==
  /\ SenderAt("publish")
  /\ spc' = "wait"
  /\ ms' = {}
  /\ UNCHANGED <<now, meters, clientVars, expirerVars, stodo, adminVars, crashed>>
  /\ heap' = [o \in Referenced' |-> heap[o]]

Sender == SenderStart \/ Measure \/ RecordSize \/ Publish

-----------------------------------------------------------------------------
\* The handlers of the admin server

\* DELETE of one meter: contains(id) in one critical section ...
AdminContains(a, k) ==
  /\ AdminAt(a, "idle")
  /\ TypeOf[k] \in Deletable
  /\ meters[k] # None
  /\ apc' = [apc EXCEPT ![a] = "erase"]
  /\ akey' = [akey EXCEPT ![a] = k]
  /\ UNCHANGED <<now, meters, heap, clientVars, expirerVars, senderVars, aptrs, crashed>>

\* ... and erase(id) in another, whatever the map holds by then.
AdminErase(a) ==
  /\ AdminAt(a, "erase")
  /\ apc' = [apc EXCEPT ![a] = "idle"]
  /\ akey' = [akey EXCEPT ![a] = None]
  /\ UNCHANGED <<now, clientVars, expirerVars, senderVars, aptrs, crashed>>
  /\ EraseAll({meters[akey[a]]} \ {None})

\* DELETE of all meters of one type.
AdminEraseAll(a, t) ==
  /\ AdminAt(a, "idle")
  /\ UNCHANGED <<now, clientVars, expirerVars, senderVars, adminVars, crashed>>
  /\ EraseAll(Registered(t))

\* GET /metrics: get_values copies raw pointers out of the lock ...
AdminGetValues(a, t) ==
  /\ AdminAt(a, "idle")
  /\ apc' = [apc EXCEPT ![a] = "list"]
  /\ aptrs' = [aptrs EXCEPT ![a] = Registered(t)]
  /\ UNCHANGED <<now, meters, heap, clientVars, expirerVars, senderVars, akey, crashed>>

\* ... and the handler reads the meters through them.
AdminListed(a) ==
  /\ AdminAt(a, "list")
  /\ apc' = [apc EXCEPT ![a] = "idle"]
  /\ aptrs' = [aptrs EXCEPT ![a] = {}]
  /\ UNCHANGED <<now, meters, clientVars, expirerVars, senderVars, akey, crashed>>
  /\ heap' = [o \in Referenced' |-> heap[o]]

Admin(a) ==
  \/ \E k \in Keys : AdminContains(a, k)
  \/ \E t \in Deletable : AdminEraseAll(a, t)
  \/ \E t \in Types \ {"MonotonicSampled"} : AdminGetValues(a, t)
  \/ AdminErase(a) \/ AdminListed(a)

-----------------------------------------------------------------------------
Tick ==
  /\ ~crashed
  /\ now < MaxTime
  /\ now' = now + 1
  /\ UNCHANGED <<meters, heap, clientVars, expirerVars, senderVars, adminVars, crashed>>

\* The registry and the server have been constructed and started.
Init ==
  /\ now = 0
  /\ meters = [k \in Keys |-> IF k \in DOMAIN Pinned THEN Pinned[k] ELSE None]
  /\ cpc = [c \in Clients |-> "idle"]
  /\ ckey = [c \in Clients |-> None]
  /\ cobj = [c \in Clients |-> None]
  /\ cttl = [c \in Clients |-> None]
  /\ xpc = "wait" /\ xtodo = {} /\ xnow = 0
  /\ spc = "wait" /\ stodo = {} /\ ms = {}
  /\ apc = [a \in Admins |-> "idle"]
  /\ akey = [a \in Admins |-> None]
  /\ aptrs = [a \in Admins |-> {}]
  /\ heap = [o \in Referenced |->
               NewMeter(CHOOSE k \in DOMAIN Pinned : Pinned[k] = o, DefaultGaugeTtl, "registered")]
  /\ crashed = FALSE

Next ==
  \/ \E c \in Clients : Client(c)
  \/ Expirer
  \/ Sender
  \/ \E a \in Admins : Admin(a)
  \/ Tick

\* Neither background thread stops before Registry::Stop, and each of their
\* waits has a timeout; nothing obliges a client or an admin to call.
Fairness == WF_vars(Expirer) /\ WF_vars(Sender)

Spec == Init /\ [][Next]_vars

FairSpec == Spec /\ Fairness

-----------------------------------------------------------------------------
ClientPcs == {"idle", "setttl", "at", "size", "insert", "touch", "apply", "return"}

Meters == [key : Keys, updated : 0 .. now, ttl : Nat,
           life : {"registered", "erased", "unregistered"},
           value : {"none", "new", "old"}]

\* Types, and that every pointer of every thread leads to an object that is
\* still in the heap of the model.
TypeOK ==
  /\ now \in Nat
  /\ meters \in [Keys -> Objs \cup {None}]
  /\ DOMAIN heap = Referenced /\ DOMAIN heap \subseteq Objs
  /\ heap \in [DOMAIN heap -> Meters]
  /\ cpc \in [Clients -> ClientPcs]
  /\ ckey \in [Clients -> Keys \cup {None}]
  /\ cobj \in [Clients -> Objs \cup {None}]
  /\ cttl \in [Clients -> GaugeTtls \cup {None}]
  /\ xpc \in {"wait", "now", "erase"} /\ xtodo \subseteq Types /\ xnow \in 0 .. now
  /\ spc \in {"wait", "measure", "publish"} /\ stodo \subseteq Types /\ ms \subseteq Objs
  /\ apc \in [Admins -> {"idle", "erase", "list"}]
  /\ akey \in [Admins -> Keys \cup {None}]
  /\ aptrs \in [Admins -> SUBSET Objs]
  /\ crashed \in BOOLEAN

\* A meter is in the map under its own id exactly as long as nobody erased it:
\* whatever a client, the expirer or an admin does at the same time, no insert
\* ever drives a registered meter out (registry.h:69-75 "only insert if it
\* doesn't exist, otherwise return the existing meter").
OneMeterPerId ==
  /\ \A k \in Keys : meters[k] # None => heap[meters[k]].key = k
  /\ \A o \in DOMAIN heap : heap[o].life = "registered" => meters[heap[o].key] = o
  /\ \A k \in Keys : meters[k] # None => heap[meters[k]].life = "registered"

\* An update stays in its meter until a Measure reports it in this very step, or
\* until the meter is removed: clients that race each other for an id, a Measure
\* that passes over an idle meter, and pointers that go out of scope lose nothing.
\* (That a Measure comes is UpdateMeasured; it never does for mono_sampled_.)
UpdateLostOnlyByRemoval ==
  [][\A o \in DOMAIN heap :
       heap[o].value = "new" =>
         \/ o \in DOMAIN heap' /\ heap'[o].value = "new"
         \/ o \in ms' \ ms
         \/ heap[o].life # "registered"
         \/ meters'[heap[o].key] = None]_vars

\* --age_gauge_limit: "The maximum number of age gauges that may be reported by
\* this process."  The test and the insert are in different critical sections.
AgeGaugeLimitRespected == Cardinality(Registered("AgeGauge")) <= AgeGaugeLimit

\* remove_expired compares with a time read before it waited for the lock.
\* Still, no meter is erased by the expirer unless it is idle for more than its
\* time to live at the very moment of the erasure.
ExpiryRespectsTtl ==
  [][\A k \in Keys :
       xtodo' # xtodo /\ meters[k] # None /\ meters'[k] = None =>
         /\ TypeOf[k] # "AgeGauge"
         /\ now - heap[meters[k]].updated >
              IF TypeOf[k] = "Gauge" THEN heap[meters[k]].ttl ELSE MeterTtl]_vars

\* No Measurement the publisher works on and no pointer GET /metrics works on
\* outlives the meter that owns what it refers to (measurement.h:16-18).
NoDanglingReference == (ms \cup UNION {aptrs[a] : a \in Admins}) \subseteq Owned

\* As the daemon is configured (no expiration frequency), only an admin's delete
\* takes a meter out of the map: whatever a Measurement, a listing, a caller of GetX
\* or a handle kept for life (publisher.h:48-55) leads to is the meter in the map
\* under its id, unless it is an age gauge or a gauge.
OnlyDeletableLeave ==
  \A o \in Referenced : TypeOf[heap[o].key] \in Deletable \/ meters[heap[o].key] = o

\* GetAgeGauge is declared noexcept (registry.h:287): no exception leaves it.
GetAgeGaugeDoesNotThrow == ~crashed

Idle(k) == meters[k] # None /\ is_meter_expired(now, heap[meters[k]])

\* A meter that is idle for longer than its ttl is eventually erased, unless
\* somebody updates it or raises its ttl after all.
IdleMeterErased == \A k \in Keys : Idle(k) ~> ~Idle(k)

\* Every update of a registered meter is eventually measured, unless the meter
\* expires or is erased before its turn comes.
UpdateMeasured ==
  \A k \in Keys :
    meters[k] # None /\ heap[meters[k]].value = "new"
      ~> meters[k] = None \/ Idle(k) \/ heap[meters[k]].value # "new"
=============================================================================
