--------------------------- MODULE RegistryProofs ---------------------------
(***************************************************************************)
(* The registry keeps its maps and its meters consistent for any number of *)
(* ids, clients and admin threads, and whatever the times to live are.     *)
(***************************************************************************)
EXTENDS Registry, FiniteSetTheorems, TLAPS

\* A thread holds what the step it is about to take needs.
ThreadsHold ==
  /\ \A c \in Clients :
       /\ cpc[c] \in {"setttl", "touch", "apply", "return"} /\ ~crashed => cobj[c] # None
       /\ cpc[c] \in {"idle", "at", "size", "insert"} => cobj[c] = None
       /\ cpc[c] \in {"at", "size", "insert"} => ckey[c] # None /\ TypeOf[ckey[c]] = "AgeGauge"
       /\ cpc[c] = "setttl" => cttl[c] # None
  /\ \A a \in Admins : apc[a] = "erase" => akey[a] # None /\ TypeOf[akey[a]] \in Deletable
  /\ \A a \in Admins : apc[a] # "list" => aptrs[a] = {}
  /\ ExpirationFrequency = 0 => xpc = "wait"

\* Only an age gauge can be handed out without being registered.
OnlyAgeGaugesUnregistered ==
  \A o \in DOMAIN heap : heap[o].life = "unregistered" => TypeOf[heap[o].key] = "AgeGauge"

\* Without an expiration frequency only an admin erases.
ErasedByAdmins ==
  ExpirationFrequency = 0 =>
    \A o \in DOMAIN heap : heap[o].life = "erased" => TypeOf[heap[o].key] \in Deletable

\* TypeOK in two halves: the heap, and what the threads keep.
HeapTyped ==
  /\ DOMAIN heap = Referenced /\ DOMAIN heap \subseteq Objs
  /\ heap \in [DOMAIN heap -> Meters]

ThreadsTyped ==
  /\ now \in Nat
  /\ meters \in [Keys -> Objs \cup {None}]
  /\ cpc \in [Clients -> ClientPcs]
  /\ ckey \in [Clients -> Keys \cup {None}]
  /\ cobj \in [Clients -> Objs \cup {None}]
  /\ cttl \in [Clients -> GaugeTtls \cup {None}]
  /\ xpc \in {"wait", "now", "erase"} /\ xtodo \subseteq Types /\ xnow \in 0 .. now
  /\ spc \in {"wait", "measure", "publish"} /\ stodo \subseteq Types /\ ms \subseteq Objs
  /\ apc \in [Admins -> {"idle", "erase", "list"}]
  /\ akey \in [Admins -> Keys \cup {None}]
  /\ aptrs \in [Admins -> SUBSET Objs]
  /\ crashed \in BOOLEAN

HeapOK == HeapTyped /\ OneMeterPerId /\ OnlyAgeGaugesUnregistered /\ ErasedByAdmins

IInv == ThreadsTyped /\ ThreadsHold /\ HeapOK

\* Every pointer of every thread leads into the heap.
LEMMA Pointers ==
  ASSUME ThreadsTyped, HeapTyped
  PROVE  /\ \A k \in Keys : meters[k] # None => meters[k] \in DOMAIN heap
         /\ \A c \in Clients : cobj[c] # None => cobj[c] \in DOMAIN heap
         /\ \A k \in DOMAIN Pinned : Pinned[k] \in DOMAIN heap
         /\ ms \subseteq DOMAIN heap
         /\ \A a \in Admins : aptrs[a] \subseteq DOMAIN heap
         /\ \A t : Registered(t) \subseteq DOMAIN heap
<1> USE RegistryAssumption
<1>1. \A k \in Keys : meters[k] # None => meters[k] \in DOMAIN heap
  BY DEF HeapTyped, Referenced, Owned
<1>2. \A c \in Clients : cobj[c] # None => cobj[c] \in DOMAIN heap
  BY DEF HeapTyped, Referenced, Owned
<1>3. \A k \in DOMAIN Pinned : Pinned[k] \in DOMAIN heap
  BY DEF HeapTyped, Referenced, Owned
<1>4. ms \subseteq DOMAIN heap
  BY DEF HeapTyped, Referenced
<1>5. \A a \in Admins : aptrs[a] \subseteq DOMAIN heap
  BY DEF HeapTyped, Referenced
<1>6. \A t : Registered(t) \subseteq DOMAIN heap
  BY <1>1 DEF Registered
<1>7. QED
  BY <1>1, <1>2, <1>3, <1>4, <1>5, <1>6

LEMMA InitIInv == Init => IInv
<1> SUFFICES ASSUME Init
             PROVE  IInv
  OBVIOUS
<1> USE RegistryAssumption DEF Init
<1>1. \A o \in Referenced : \E k \in DOMAIN Pinned : Pinned[k] = o
  BY DEF Referenced, Owned
<1>2. \A k \in DOMAIN Pinned : Pinned[k] \in Referenced
  BY DEF Referenced, Owned
<1> DEFINE keyOf(o) == CHOOSE k \in DOMAIN Pinned : Pinned[k] = o
<1>3. \A o \in Referenced : keyOf(o) \in DOMAIN Pinned /\ Pinned[keyOf(o)] = o
  BY <1>1
<1>4. \A o \in Referenced : heap[o] = NewMeter(keyOf(o), DefaultGaugeTtl, "registered")
  OBVIOUS
<1> HIDE DEF keyOf
<1>5. \A o \in Referenced : /\ heap[o] \in Meters
                            /\ heap[o].key = keyOf(o)
                            /\ heap[o].life = "registered"
  BY <1>3, <1>4 DEF NewMeter, Meters, get_ttl
<1>6. DOMAIN heap = Referenced /\ Referenced \subseteq Objs
  BY <1>1
<1>7. HeapTyped /\ ThreadsTyped
  <2>1. heap \in [DOMAIN heap -> Meters]
    BY <1>5, <1>6
  <2>2. meters \in [Keys -> Objs \cup {None}]
    OBVIOUS
  <2>3. /\ cpc \in [Clients -> ClientPcs] /\ ckey \in [Clients -> Keys \cup {None}]
        /\ cobj \in [Clients -> Objs \cup {None}] /\ cttl \in [Clients -> GaugeTtls \cup {None}]
    BY DEF ClientPcs
  <2>4. /\ apc \in [Admins -> {"idle", "erase", "list"}]
        /\ akey \in [Admins -> Keys \cup {None}]
        /\ aptrs \in [Admins -> SUBSET Objs]
    OBVIOUS
  <2>5. /\ now \in Nat /\ crashed \in BOOLEAN
        /\ xpc \in {"wait", "now", "erase"} /\ xtodo \subseteq Types /\ xnow \in 0 .. now
        /\ spc \in {"wait", "measure", "publish"} /\ stodo \subseteq Types /\ ms \subseteq Objs
    <3>1. now = 0 /\ xnow = 0 /\ crashed = FALSE
      OBVIOUS
    <3>2. xpc = "wait" /\ xtodo = {} /\ spc = "wait" /\ stodo = {} /\ ms = {}
      OBVIOUS
    <3> HIDE RegistryAssumption DEF Init
    <3>3. now \in Nat /\ xnow \in 0 .. now
      BY <3>1
    <3>4. crashed \in BOOLEAN
      BY <3>1
    <3>5. xtodo \subseteq Types /\ stodo \subseteq Types /\ ms \subseteq Objs
      BY <3>2
    <3>6. xpc \in {"wait", "now", "erase"} /\ spc \in {"wait", "measure", "publish"}
      BY <3>2
    <3>7. QED
      BY <3>3, <3>4, <3>5, <3>6
  <2> HIDE RegistryAssumption DEF Init
  <2>6. QED
    BY <1>6, <2>1, <2>2, <2>3, <2>4, <2>5 DEF HeapTyped, ThreadsTyped
<1>8. OneMeterPerId
  BY <1>2, <1>3, <1>5, <1>6 DEF OneMeterPerId
<1>9. ThreadsHold /\ OnlyAgeGaugesUnregistered /\ ErasedByAdmins
  BY <1>5, <1>6 DEF ThreadsHold, OnlyAgeGaugesUnregistered, ErasedByAdmins
<1>10. QED
  BY <1>7, <1>8, <1>9 DEF IInv, HeapOK

-----------------------------------------------------------------------------
\* What a step may do to the heap

\* A step that only drops objects, or changes time stamps, ttls and values.
LEMMA HeapKept ==
  ASSUME IInv, now' \in Nat, now' >= now, meters' = meters,
         Referenced' \subseteq DOMAIN heap,
         heap' \in [Referenced' -> Meters'],
         \A o \in Referenced' : heap'[o].key = heap[o].key /\ heap'[o].life = heap[o].life
  PROVE  HeapOK'
<1> USE DEF IInv, HeapOK
<1>1. HeapTyped'
  BY DEF HeapTyped
<1>2. \A k \in Keys : meters'[k] # None => meters'[k] \in Referenced'
  BY DEF Referenced, Owned
<1>3. OneMeterPerId'
  BY <1>1, <1>2 DEF OneMeterPerId, HeapTyped
<1>4. OnlyAgeGaugesUnregistered' /\ ErasedByAdmins'
  BY DEF OnlyAgeGaugesUnregistered, ErasedByAdmins, HeapTyped
<1>5. QED
  BY <1>1, <1>3, <1>4

\* The same, when the heap keeps its domain and every pointer stays put.
LEMMA HeapUpdated ==
  ASSUME IInv, now' = now, meters' = meters, cobj' = cobj, aptrs' = aptrs,
         ms' \subseteq DOMAIN heap, ms \subseteq ms',
         heap' \in [DOMAIN heap -> Meters],
         \A o \in DOMAIN heap : heap'[o].key = heap[o].key /\ heap'[o].life = heap[o].life
  PROVE  HeapOK'
<1>1. Referenced' = DOMAIN heap
  <2>1. Owned' = Owned
    BY DEF Owned
  <2>2. DOMAIN heap = Owned \cup ms \cup UNION {aptrs[a] : a \in Admins}
    BY DEF IInv, HeapOK, HeapTyped, Referenced
  <2>3. Referenced' = Owned \cup ms' \cup UNION {aptrs[a] : a \in Admins}
    BY <2>1 DEF Referenced
  <2>4. QED
    BY <2>2, <2>3
<1>2. Meters' = Meters /\ now' \in Nat /\ now' >= now
  BY DEF Meters, IInv, ThreadsTyped
<1>3. QED
  BY <1>1, <1>2, HeapKept

\* Pointers go away, and with them the objects nothing else refers to.
LEMMA HeapDropped ==
  ASSUME IInv, now' = now, meters' = meters, Referenced' \subseteq DOMAIN heap,
         heap' = [o \in Referenced' |-> heap[o]]
  PROVE  HeapOK'
<1>1. Meters' = Meters /\ now' \in Nat /\ now' >= now
  BY DEF Meters, IInv, ThreadsTyped
<1>2. heap' \in [Referenced' -> Meters']
  BY <1>1 DEF IInv, HeapOK, HeapTyped
<1>3. QED
  BY <1>1, <1>2, HeapKept

\* EraseAll: the erased objects stay as long as somebody refers to them.
LEMMA EraseKeepsHeap ==
  ASSUME IInv, NEW E, E \subseteq {meters[k] : k \in Keys} \ {None},
         EraseAll(E), now' = now, cobj' = cobj, ms' = ms, aptrs' = aptrs,
         ExpirationFrequency = 0 => \A o \in E : TypeOf[heap[o].key] \in Deletable
  PROVE  HeapOK' /\ meters' \in [Keys -> Objs \cup {None}]
<1> USE RegistryAssumption DEF IInv, HeapOK, ThreadsTyped
<1>1. meters' \in [Keys -> Objs \cup {None}]
  BY DEF EraseAll
<1>2. \A k \in Keys : meters'[k] = IF meters[k] \in E THEN None ELSE meters[k]
  BY DEF EraseAll
<1>3. Referenced' \subseteq DOMAIN heap
  BY <1>2 DEF Referenced, Owned, HeapTyped
<1>4. /\ DOMAIN heap' = Referenced'
      /\ \A o \in Referenced' :
           heap'[o] = IF o \in E THEN [heap[o] EXCEPT !.life = "erased"] ELSE heap[o]
  BY DEF EraseAll
<1>5. \A o \in DOMAIN heap : heap[o] \in Meters
  BY DEF HeapTyped
<1>6. Meters' = Meters
  BY DEF Meters
<1>7. \A o \in Referenced' :
        /\ heap'[o] \in Meters
        /\ heap'[o].key = heap[o].key
        /\ heap'[o].life = IF o \in E THEN "erased" ELSE heap[o].life
  BY <1>3, <1>4, <1>5 DEF Meters
<1>8. HeapTyped'
  <2>1. heap' \in [Referenced' -> Meters']
    BY <1>4, <1>6, <1>7 DEF EraseAll
  <2>2. QED
    BY <1>3, <1>4, <2>1 DEF HeapTyped
<1>9. \A k \in Keys : meters'[k] # None => meters'[k] \in Referenced'
  BY DEF Referenced, Owned
<1>10. OneMeterPerId'
  <2>1. \A k \in Keys : meters'[k] # None => /\ heap'[meters'[k]].key = k
                                            /\ heap'[meters'[k]].life = "registered"
    BY <1>2, <1>7, <1>9 DEF OneMeterPerId
  <2>2. \A o \in DOMAIN heap' : heap'[o].life = "registered" => meters'[heap'[o].key] = o
    <3> SUFFICES ASSUME NEW o \in DOMAIN heap', heap'[o].life = "registered"
                 PROVE  meters'[heap'[o].key] = o
      OBVIOUS
    <3>1. o \notin E /\ heap[o].life = "registered" /\ heap'[o].key = heap[o].key
      BY <1>4, <1>7
    <3>2. heap[o].key \in Keys /\ meters[heap[o].key] = o
      BY <1>3, <1>4, <1>5, <3>1 DEF OneMeterPerId, Meters
    <3>3. QED
      BY <1>2, <3>1, <3>2
  <2>3. QED
    BY <2>1, <2>2 DEF OneMeterPerId
<1>11. OnlyAgeGaugesUnregistered' /\ ErasedByAdmins'
  BY <1>3, <1>4, <1>7 DEF OnlyAgeGaugesUnregistered, ErasedByAdmins
<1>12. QED
  BY <1>1, <1>8, <1>10, <1>11

\* A step that adds one object o, and nothing else.
LEMMA HeapAdded ==
  ASSUME IInv, now' = now, NEW o \in Objs, o \notin DOMAIN heap,
         NEW k \in Keys, NEW t \in Nat, NEW l \in {"registered", "unregistered"},
         l = "unregistered" => TypeOf[k] = "AgeGauge" /\ meters' = meters,
         l = "registered" => meters[k] = None /\ meters' = [meters EXCEPT ![k] = o],
         Referenced' \subseteq DOMAIN heap \cup {o}, o \in Referenced',
         heap' = [x \in Referenced' |-> IF x = o THEN NewMeter(k, t, l) ELSE heap[x]]
  PROVE  HeapOK'
<1> USE RegistryAssumption DEF IInv, HeapOK, ThreadsTyped
<1>1. Meters' = Meters
  BY DEF Meters
<1>2. NewMeter(k, t, l) \in Meters /\ NewMeter(k, t, l).key = k /\ NewMeter(k, t, l).life = l
  BY DEF NewMeter, Meters, get_ttl
<1>3. \A x \in DOMAIN heap : heap[x] \in Meters
  BY DEF HeapTyped
<1>4. heap' \in [Referenced' -> Meters']
  BY <1>1, <1>2, <1>3
<1>5. heap'[o].key = k /\ heap'[o].life = l
  BY <1>2
<1>6. \A x \in Referenced' : x # o => x \in DOMAIN heap /\ heap'[x] = heap[x]
  OBVIOUS
<1>7. HeapTyped'
  BY <1>4 DEF HeapTyped
<1>8. \A j \in Keys : meters'[j] # None => meters'[j] \in Referenced'
  BY DEF Referenced, Owned
<1>9. \A j \in Keys : meters[j] # o
  BY DEF HeapTyped, Referenced, Owned
<1>10. OneMeterPerId'
  <2>1. CASE l = "registered"
    <3>1. \A j \in Keys : meters'[j] = IF j = k THEN o ELSE meters[j]
      BY <2>1
    <3>2. \A j \in Keys : meters'[j] # None => /\ heap'[meters'[j]].key = j
                                              /\ heap'[meters'[j]].life = "registered"
      BY <1>5, <1>6, <1>8, <1>9, <2>1, <3>1 DEF OneMeterPerId
    <3>3. \A x \in DOMAIN heap' : heap'[x].life = "registered" => meters'[heap'[x].key] = x
      <4> SUFFICES ASSUME NEW x \in DOMAIN heap', heap'[x].life = "registered", x # o
                   PROVE  meters'[heap'[x].key] = x
        BY <1>5, <3>1
      <4>1. x \in DOMAIN heap /\ heap'[x] = heap[x]
        BY <1>6
      <4>2. heap[x].key \in Keys /\ meters[heap[x].key] = x /\ x # None
        BY <1>3, <4>1 DEF OneMeterPerId, Meters, HeapTyped
      <4>3. heap[x].key # k
        BY <2>1, <4>2
      <4>4. QED
        BY <3>1, <4>1, <4>2, <4>3
    <3>4. QED
      BY <3>2, <3>3 DEF OneMeterPerId
  <2>2. CASE l = "unregistered"
    <3>1. \A j \in Keys : meters'[j] = meters[j]
      BY <2>2
    <3>2. \A j \in Keys : meters'[j] # None => /\ heap'[meters'[j]].key = j
                                              /\ heap'[meters'[j]].life = "registered"
      BY <1>6, <1>8, <1>9, <3>1 DEF OneMeterPerId
    <3>3. \A x \in DOMAIN heap' : heap'[x].life = "registered" => meters'[heap'[x].key] = x
      BY <1>3, <1>5, <1>6, <2>2, <3>1 DEF OneMeterPerId, Meters
    <3>4. QED
      BY <3>2, <3>3 DEF OneMeterPerId
  <2>3. QED
    BY <2>1, <2>2
<1>11. OnlyAgeGaugesUnregistered' /\ ErasedByAdmins'
  BY <1>5, <1>6 DEF OnlyAgeGaugesUnregistered, ErasedByAdmins
<1>12. QED
  BY <1>7, <1>10, <1>11

\* A client takes a pointer to an object that is already there.
LEMMA HeapBorrowed ==
  ASSUME IInv, now' = now, meters' = meters, ms' = ms, aptrs' = aptrs, heap' = heap,
         NEW c \in Clients, cobj[c] = None,
         NEW o \in DOMAIN heap, cobj' = [cobj EXCEPT ![c] = o]
  PROVE  HeapOK'
<1> USE RegistryAssumption DEF IInv, HeapOK, ThreadsTyped
<1>1. \A d \in Clients : cobj'[d] = IF d = c THEN o ELSE cobj[d]
  OBVIOUS
<1>2. Referenced' \subseteq DOMAIN heap
  BY <1>1 DEF Referenced, Owned, HeapTyped
<1>3. DOMAIN heap \subseteq Referenced'
  BY <1>1 DEF Referenced, Owned, HeapTyped
<1>4. Meters' = Meters
  BY DEF Meters
<1>5. heap' \in [Referenced' -> Meters']
  BY <1>2, <1>3, <1>4 DEF HeapTyped
<1>6. now' \in Nat /\ now' >= now
  OBVIOUS
<1> HIDE RegistryAssumption DEF IInv, HeapOK, ThreadsTyped
<1>7. QED
  BY <1>2, <1>5, <1>6, HeapKept

\* insert: the caller holds the one meter registered for its id.
LEMMA InsertKeepsHeap ==
  ASSUME IInv, NEW c \in Clients, NEW k \in Keys, NEW t \in Nat, NEW o \in Objs,
         cobj[c] = None, insert(c, k, t, o), now' = now, ms' = ms, aptrs' = aptrs
  PROVE  /\ HeapOK'
         /\ meters' \in [Keys -> Objs \cup {None}]
         /\ cobj' = [cobj EXCEPT ![c] = o]
<1> USE RegistryAssumption DEF IInv, HeapOK, ThreadsTyped
<1>1. meters' \in [Keys -> Objs \cup {None}] /\ cobj' = [cobj EXCEPT ![c] = o]
  BY DEF insert
<1>2. \A d \in Clients : cobj'[d] = IF d = c THEN o ELSE cobj[d]
  BY <1>1
<1>3. CASE meters[k] = None
  <2>1. /\ o \notin DOMAIN heap /\ meters' = [meters EXCEPT ![k] = o]
        /\ heap' = [x \in Referenced' |-> IF x = o THEN NewMeter(k, t, "registered") ELSE heap[x]]
    BY <1>3 DEF insert
  <2>2. \A j \in Keys : meters'[j] = IF j = k THEN o ELSE meters[j]
    BY <2>1
  <2>3. Referenced' \subseteq DOMAIN heap \cup {o}
    BY <1>2, <2>2 DEF Referenced, Owned, HeapTyped
  <2>4. o \in Referenced'
    BY <2>2 DEF Referenced, Owned
  <2> HIDE RegistryAssumption DEF IInv, HeapOK, ThreadsTyped
  <2>5. HeapOK'
    BY <1>3, <2>1, <2>3, <2>4, HeapAdded
  <2>6. QED
    BY <1>1, <2>5
<1>4. CASE meters[k] # None
  <2>1. o = meters[k] /\ meters' = meters /\ heap' = heap
    BY <1>4 DEF insert
  <2>2. o \in DOMAIN heap
    BY <1>4, <2>1, Pointers
  <2>3. HeapOK'
    BY <1>1, <2>1, <2>2, HeapBorrowed
  <2>4. QED
    BY <1>1, <2>3
<1>5. QED
  BY <1>3, <1>4

-----------------------------------------------------------------------------
\* One lemma per thread

\* A client's move leaves every thread with what it needs.
LEMMA ClientMoves ==
  ASSUME IInv, NEW c \in Clients, NEW p \in ClientPcs, ClientGoes(c, p),
         crashed' \in BOOLEAN, crashed => crashed',
         meters' \in [Keys -> Objs \cup {None}],
         ckey' \in [Clients -> Keys \cup {None}],
         cobj' \in [Clients -> Objs \cup {None}],
         cttl' \in [Clients -> GaugeTtls \cup {None}],
         \A d \in Clients \ {c} : ckey'[d] = ckey[d] /\ cobj'[d] = cobj[d] /\ cttl'[d] = cttl[d],
         p \in {"setttl", "touch", "apply", "return"} /\ ~crashed' => cobj'[c] # None,
         p \in {"idle", "at", "size", "insert"} => cobj'[c] = None,
         p \in {"at", "size", "insert"} => ckey'[c] # None /\ TypeOf[ckey'[c]] = "AgeGauge",
         p = "setttl" => cttl'[c] # None
  PROVE  ThreadsTyped' /\ ThreadsHold'
<1>1. cpc' \in [Clients -> ClientPcs] /\ \A d \in Clients : cpc'[d] = IF d = c THEN p ELSE cpc[d]
  BY DEF IInv, ThreadsTyped, ClientGoes
<1>2. ThreadsTyped'
  BY <1>1 DEF IInv, ThreadsTyped, ClientGoes, expirerVars, senderVars, adminVars
<1>3. ThreadsHold'
  <2>1. ASSUME NEW d \in Clients
        PROVE  /\ cpc'[d] \in {"setttl", "touch", "apply", "return"} /\ ~crashed' => cobj'[d] # None
               /\ cpc'[d] \in {"idle", "at", "size", "insert"} => cobj'[d] = None
               /\ cpc'[d] \in {"at", "size", "insert"} =>
                    ckey'[d] # None /\ TypeOf[ckey'[d]] = "AgeGauge"
               /\ cpc'[d] = "setttl" => cttl'[d] # None
    <3>1. CASE d = c
      BY <1>1, <3>1
    <3>2. CASE d # c
      BY <1>1, <3>2 DEF IInv, ThreadsHold
    <3>3. QED
      BY <3>1, <3>2
  <2>2. /\ \A a \in Admins : /\ apc'[a] = "erase" => akey'[a] # None /\ TypeOf[akey'[a]] \in Deletable
                             /\ apc'[a] # "list" => aptrs'[a] = {}
        /\ ExpirationFrequency = 0 => xpc' = "wait"
    BY DEF IInv, ThreadsHold, ClientGoes, adminVars, expirerVars
  <2>3. QED
    BY <2>1, <2>2 DEF ThreadsHold
<1>4. QED
  BY <1>2, <1>3

LEMMA GetStep ==
  ASSUME IInv, NEW c \in Clients, NEW k \in Keys, Get(c, k) \/ GetGaugeTtl(c, k)
  PROVE  IInv'
<1>1. PICK t \in Nat, o \in Objs : insert(c, k, t, o)
  BY RegistryAssumption DEF Get, GetGaugeTtl
<1>2. cobj[c] = None /\ now' = now /\ ms' = ms /\ aptrs' = aptrs
  BY DEF IInv, ThreadsHold, ClientAt, Get, GetGaugeTtl, ClientGoes, senderVars, adminVars
<1>3. HeapOK' /\ meters' \in [Keys -> Objs \cup {None}] /\ cobj' = [cobj EXCEPT ![c] = o]
  BY <1>1, <1>2, InsertKeepsHeap
<1>4. /\ cobj' \in [Clients -> Objs \cup {None}] /\ cobj'[c] # None
      /\ \A d \in Clients \ {c} : cobj'[d] = cobj[d]
  BY <1>3, RegistryAssumption DEF IInv, ThreadsTyped
<1>5. /\ ckey' \in [Clients -> Keys \cup {None}]
      /\ \A d \in Clients \ {c} : ckey'[d] = ckey[d]
  BY DEF IInv, ThreadsTyped, Get, GetGaugeTtl
<1>6. /\ cttl' \in [Clients -> GaugeTtls \cup {None}]
      /\ \A d \in Clients \ {c} : cttl'[d] = cttl[d]
  BY DEF IInv, ThreadsTyped, Get, GetGaugeTtl
<1>7. crashed' \in BOOLEAN /\ (crashed => crashed')
  BY DEF IInv, ThreadsTyped, Get, GetGaugeTtl
<1>8. CASE Get(c, k)
  BY <1>3, <1>4, <1>5, <1>6, <1>7, <1>8, ClientMoves DEF IInv, Get, ClientPcs
<1>9. CASE GetGaugeTtl(c, k)
  <2>1. cttl'[c] # None
    BY <1>9, RegistryAssumption DEF GetGaugeTtl, IInv, ThreadsTyped
  <2>2. QED
    BY <1>3, <1>4, <1>5, <1>6, <1>7, <1>9, <2>1, ClientMoves DEF IInv, GetGaugeTtl, ClientPcs
<1>10. QED
  BY <1>8, <1>9

\* Steps of a client that store into the object it holds.
LEMMA StoreStep ==
  ASSUME IInv, NEW c \in Clients, SetTtl(c) \/ Touch(c) \/ Apply(c)
  PROVE  IInv'
<1> DEFINE o == cobj[c]
<1>1. o # None /\ o \in DOMAIN heap
  <2>1. o # None
    BY DEF IInv, ThreadsHold, ClientAt, SetTtl, Touch, Apply
  <2>2. QED
    BY <2>1, Pointers DEF IInv, HeapOK
<1>2. \A x \in DOMAIN heap : heap[x] \in Meters
  BY DEF IInv, HeapOK, HeapTyped
<1>3. \E m \in Meters : /\ heap' = [heap EXCEPT ![o] = m]
                         /\ m.key = heap[o].key /\ m.life = heap[o].life
  <2>1. CASE SetTtl(c)
    <3>1. get_ttl(cttl[c]) \in Nat
      BY <2>1, RegistryAssumption DEF SetTtl, ClientAt, get_ttl, IInv, ThreadsTyped, ThreadsHold
    <3> DEFINE m == [heap[o] EXCEPT !.ttl = get_ttl(cttl[c])]
    <3>2. m \in Meters /\ m.key = heap[o].key /\ m.life = heap[o].life
      BY <1>1, <1>2, <3>1 DEF Meters
    <3>3. heap' = [heap EXCEPT ![o] = m]
      BY <2>1 DEF SetTtl
    <3>4. QED
      BY <3>2, <3>3
  <2>2. CASE Touch(c)
    <3> DEFINE m == [heap[o] EXCEPT !.updated = now]
    <3>1. now \in 0 .. now
      BY DEF IInv, ThreadsTyped
    <3>2. m \in Meters /\ m.key = heap[o].key /\ m.life = heap[o].life
      BY <1>1, <1>2, <3>1 DEF Meters
    <3>3. heap' = [heap EXCEPT ![o] = m]
      BY <2>2 DEF Touch
    <3>4. QED
      BY <3>2, <3>3
  <2>3. CASE Apply(c)
    <3>1. PICK v \in {"new", heap[o].value} : heap' = [heap EXCEPT ![o].value = v]
      BY <2>3 DEF Apply
    <3> DEFINE m == [heap[o] EXCEPT !.value = v]
    <3>2. m \in Meters /\ m.key = heap[o].key /\ m.life = heap[o].life
      BY <1>1, <1>2, <3>1 DEF Meters
    <3>3. heap' = [heap EXCEPT ![o] = m]
      BY <3>1
    <3>4. QED
      BY <3>2, <3>3
  <2>4. QED
    BY <2>1, <2>2, <2>3
<1>4. /\ now' = now /\ meters' = meters /\ cobj' = cobj /\ aptrs' = aptrs /\ ms' = ms
      /\ ckey' = ckey
  BY DEF SetTtl, Touch, Apply, ClientGoes, adminVars, senderVars
<1>5. /\ heap' \in [DOMAIN heap -> Meters]
      /\ \A x \in DOMAIN heap : heap'[x].key = heap[x].key /\ heap'[x].life = heap[x].life
  BY <1>1, <1>2, <1>3 DEF IInv, HeapOK, HeapTyped
<1>6. HeapOK'
  <2>1. ms \subseteq DOMAIN heap
    BY Pointers DEF IInv, HeapOK
  <2>2. QED
    BY <1>4, <1>5, <2>1, HeapUpdated
<1>7. /\ cttl' \in [Clients -> GaugeTtls \cup {None}]
      /\ \A d \in Clients \ {c} : cttl'[d] = cttl[d]
  BY DEF IInv, ThreadsTyped, SetTtl, Touch, Apply
<1>8. crashed' \in BOOLEAN /\ (crashed => crashed')
  BY DEF IInv, ThreadsTyped, SetTtl, Touch, Apply
<1>9. PICK p \in {"touch", "apply", "return"} : ClientGoes(c, p)
  BY DEF SetTtl, Touch, Apply
<1>10. ThreadsTyped' /\ ThreadsHold'
  <2>1. /\ meters' \in [Keys -> Objs \cup {None}] /\ ckey' \in [Clients -> Keys \cup {None}]
        /\ cobj' \in [Clients -> Objs \cup {None}] /\ cobj'[c] # None
    BY <1>1, <1>4 DEF IInv, ThreadsTyped
  <2>2. QED
    BY <1>4, <1>7, <1>8, <1>9, <2>1, ClientMoves DEF ClientPcs
<1>11. QED
  BY <1>6, <1>10 DEF IInv

\* GetAgeGauge up to the point where it has a gauge.
LEMMA AgeStep ==
  ASSUME IInv, NEW c \in Clients,
         (\E k \in Keys : AgeContains(c, k)) \/ AgeAt(c) \/ AgeSize(c) \/ AgeInsert(c)
  PROVE  IInv'
<1> USE RegistryAssumption
<1>1. cobj[c] = None /\ now' = now /\ ms' = ms /\ aptrs' = aptrs /\ cttl' = cttl
  BY DEF IInv, ThreadsHold, ClientAt, AgeContains, AgeAt, AgeSize, AgeInsert, ClientGoes,
         senderVars, adminVars
<1>2. crashed' \in BOOLEAN /\ (crashed => crashed')
  BY DEF IInv, ThreadsTyped, AgeContains, AgeAt, AgeSize, AgeInsert, ClientAt
<1>3. /\ meters \in [Keys -> Objs \cup {None}] /\ ckey \in [Clients -> Keys \cup {None}]
      /\ cobj \in [Clients -> Objs \cup {None}] /\ cttl \in [Clients -> GaugeTtls \cup {None}]
  BY DEF IInv, ThreadsTyped
<1>4. ms \subseteq DOMAIN heap /\ heap \in [DOMAIN heap -> Meters]
  BY Pointers DEF IInv, HeapOK, HeapTyped
<1>5. ASSUME heap' = heap, meters' = meters, cobj' = cobj
      PROVE  HeapOK'
  BY <1>1, <1>4, <1>5, HeapUpdated
<1>6. ASSUME NEW k \in Keys, AgeContains(c, k)
      PROVE  IInv'
  <2>1. HeapOK' /\ meters' = meters /\ cobj' = cobj
    BY <1>5, <1>6 DEF AgeContains
  <2>2. /\ ckey' \in [Clients -> Keys \cup {None}] /\ ckey'[c] = k
        /\ \A d \in Clients \ {c} : ckey'[d] = ckey[d]
    BY <1>3, <1>6 DEF AgeContains
  <2>3. PICK p \in {"at", "size"} : ClientGoes(c, p)
    BY <1>6 DEF AgeContains
  <2>4. TypeOf[k] = "AgeGauge" /\ k # None
    BY <1>6 DEF AgeContains
  <2>5. ThreadsTyped' /\ ThreadsHold'
    BY <1>1, <1>2, <1>3, <2>1, <2>2, <2>3, <2>4, ClientMoves DEF ClientPcs
  <2>6. QED
    BY <2>1, <2>5 DEF IInv
<1>7. ASSUME AgeAt(c)
      PROVE  IInv'
  <2>1. meters' = meters /\ ckey' = ckey /\ heap' = heap /\ ClientGoes(c, "apply")
    BY <1>7 DEF AgeAt
  <2>2. ckey[c] \in Keys
    BY <1>3, <1>7 DEF AgeAt, ClientAt, IInv, ThreadsHold
  <2>3. CASE meters[ckey[c]] # None
    <3> DEFINE o == meters[ckey[c]]
    <3>1. cobj' = [cobj EXCEPT ![c] = o]
      BY <1>7, <2>3 DEF AgeAt
    <3>2. o \in DOMAIN heap /\ o \in Objs
      BY <2>2, <2>3, Pointers DEF IInv, HeapOK, HeapTyped
    <3> HIDE DEF o
    <3>3. HeapOK'
      BY <1>1, <2>1, <3>1, <3>2, HeapBorrowed
    <3>4. /\ cobj' \in [Clients -> Objs \cup {None}] /\ cobj'[c] # None
          /\ \A d \in Clients \ {c} : cobj'[d] = cobj[d]
      BY <1>3, <3>1, <3>2
    <3>5. ThreadsTyped' /\ ThreadsHold'
      BY <1>1, <1>2, <1>3, <2>1, <3>4, ClientMoves DEF ClientPcs
    <3>6. QED
      BY <3>3, <3>5 DEF IInv
  <2>4. CASE meters[ckey[c]] = None
    <3>1. crashed' = TRUE /\ cobj' = cobj
      BY <1>7, <2>4 DEF AgeAt
    <3>2. HeapOK'
      BY <1>5, <2>1, <3>1
    <3>3. ThreadsTyped' /\ ThreadsHold'
      BY <1>1, <1>2, <1>3, <2>1, <3>1, ClientMoves DEF ClientPcs
    <3>4. QED
      BY <3>2, <3>3 DEF IInv
  <2>5. QED
    BY <2>3, <2>4
<1>8. ASSUME AgeSize(c)
      PROVE  IInv'
  <2>1. meters' = meters /\ ckey' = ckey
    BY <1>8 DEF AgeSize
  <2>2. ckey[c] \in Keys /\ TypeOf[ckey[c]] = "AgeGauge"
    BY <1>3, <1>8 DEF AgeSize, ClientAt, IInv, ThreadsHold
  <2>3. CASE AgeGaugeRoom(Cardinality(Registered("AgeGauge")))
    <3>1. heap' = heap /\ cobj' = cobj /\ ClientGoes(c, "insert")
      BY <1>8, <2>3 DEF AgeSize
    <3>2. HeapOK'
      BY <1>5, <2>1, <3>1
    <3>3. ThreadsTyped' /\ ThreadsHold'
      BY <1>1, <1>2, <1>3, <2>1, <2>2, <3>1, ClientMoves DEF ClientPcs
    <3>4. QED
      BY <3>2, <3>3 DEF IInv
  <2>4. CASE ~AgeGaugeRoom(Cardinality(Registered("AgeGauge")))
    <3>1. PICK o \in Objs \ DOMAIN heap :
            /\ cobj' = [cobj EXCEPT ![c] = o]
            /\ heap' = [x \in DOMAIN heap \cup {o} |->
                          IF x = o THEN NewMeter(ckey[c], 0, "unregistered") ELSE heap[x]]
      BY <1>8, <2>4 DEF AgeSize
    <3>2. ClientGoes(c, "apply")
      BY <1>8, <2>4 DEF AgeSize
    <3>3. \A d \in Clients : cobj'[d] = IF d = c THEN o ELSE cobj[d]
      BY <1>3, <3>1
    <3>4. Referenced' = DOMAIN heap \cup {o} /\ o \in Referenced'
      <4>1. Referenced' \subseteq DOMAIN heap \cup {o}
        BY <1>1, <2>1, <3>3 DEF Referenced, Owned, IInv, HeapOK, HeapTyped
      <4>2. o \in Referenced'
        BY <3>1, <3>3 DEF Referenced, Owned
      <4>3. DOMAIN heap \subseteq Referenced'
        BY <1>1, <2>1, <3>3 DEF Referenced, Owned, IInv, HeapOK, HeapTyped
      <4>4. QED
        BY <4>1, <4>2, <4>3
    <3>5. heap' = [x \in Referenced' |->
                     IF x = o THEN NewMeter(ckey[c], 0, "unregistered") ELSE heap[x]]
      BY <3>1, <3>4
    <3>6. HeapOK'
      BY <1>1, <2>1, <2>2, <3>4, <3>5, HeapAdded
    <3>7. /\ cobj' \in [Clients -> Objs \cup {None}] /\ cobj'[c] # None
          /\ \A d \in Clients \ {c} : cobj'[d] = cobj[d]
      BY <1>3, <3>1
    <3>8. ThreadsTyped' /\ ThreadsHold'
      BY <1>1, <1>2, <1>3, <2>1, <3>2, <3>7, ClientMoves DEF ClientPcs
    <3>9. QED
      BY <3>6, <3>8 DEF IInv
  <2>5. QED
    BY <2>3, <2>4
<1>9. ASSUME AgeInsert(c)
      PROVE  IInv'
  <2>1. ckey' = ckey /\ ClientGoes(c, "apply") /\ ckey[c] \in Keys
    BY <1>3, <1>9 DEF AgeInsert, ClientAt, IInv, ThreadsHold
  <2>2. PICK o \in Objs : insert(c, ckey[c], 0, o)
    BY <1>9 DEF AgeInsert
  <2>3. HeapOK' /\ meters' \in [Keys -> Objs \cup {None}] /\ cobj' = [cobj EXCEPT ![c] = o]
    BY <1>1, <2>1, <2>2, InsertKeepsHeap
  <2>4. /\ cobj' \in [Clients -> Objs \cup {None}] /\ cobj'[c] # None
        /\ \A d \in Clients \ {c} : cobj'[d] = cobj[d]
    BY <1>3, <2>3
  <2>5. ThreadsTyped' /\ ThreadsHold'
    BY <1>1, <1>2, <1>3, <2>1, <2>3, <2>4, ClientMoves DEF ClientPcs
  <2>6. QED
    BY <2>3, <2>5 DEF IInv
<1>10. QED
  BY <1>6, <1>7, <1>8, <1>9

\* A handle held for life is taken up, a pointer is dropped.
LEMMA HandleStep ==
  ASSUME IInv, NEW c \in Clients, (\E k \in Keys : UsePinned(c, k)) \/ Return(c)
  PROVE  IInv'
<1> USE RegistryAssumption
<1>1. now' = now /\ ms' = ms /\ aptrs' = aptrs /\ cttl' = cttl /\ meters' = meters
  BY DEF UsePinned, Return, ClientGoes, senderVars, adminVars
<1>2. crashed' \in BOOLEAN /\ (crashed => crashed')
  BY DEF IInv, ThreadsTyped, UsePinned, Return
<1>3. /\ meters \in [Keys -> Objs \cup {None}] /\ ckey \in [Clients -> Keys \cup {None}]
      /\ cobj \in [Clients -> Objs \cup {None}] /\ cttl \in [Clients -> GaugeTtls \cup {None}]
      /\ now \in Nat
  BY DEF IInv, ThreadsTyped
<1>4. ASSUME NEW k \in Keys, UsePinned(c, k)
      PROVE  IInv'
  <2>1. /\ cobj[c] = None /\ k \in DOMAIN Pinned /\ heap' = heap
        /\ cobj' = [cobj EXCEPT ![c] = Pinned[k]] /\ ckey' = [ckey EXCEPT ![c] = k]
        /\ ClientGoes(c, "touch")
    BY <1>4 DEF UsePinned, ClientAt, IInv, ThreadsHold
  <2>2. Pinned[k] \in DOMAIN heap /\ Pinned[k] \in Objs
    BY <2>1, Pointers DEF IInv, HeapOK
  <2>3. HeapOK'
    BY <1>1, <2>1, <2>2, HeapBorrowed
  <2>4. /\ cobj' \in [Clients -> Objs \cup {None}] /\ cobj'[c] # None
        /\ ckey' \in [Clients -> Keys \cup {None}]
        /\ \A d \in Clients \ {c} : cobj'[d] = cobj[d] /\ ckey'[d] = ckey[d]
    BY <1>3, <2>1, <2>2
  <2>5. ThreadsTyped' /\ ThreadsHold'
    BY <1>1, <1>2, <1>3, <2>1, <2>4, ClientMoves DEF ClientPcs
  <2>6. QED
    BY <2>3, <2>5 DEF IInv
<1>5. ASSUME Return(c)
      PROVE  IInv'
  <2>1. /\ cobj' = [cobj EXCEPT ![c] = None] /\ ckey' = [ckey EXCEPT ![c] = None]
        /\ ClientGoes(c, "idle") /\ heap' = [o \in Referenced' |-> heap[o]]
    BY <1>5 DEF Return
  <2>2. /\ cobj' \in [Clients -> Objs \cup {None}] /\ cobj'[c] = None
        /\ ckey' \in [Clients -> Keys \cup {None}]
        /\ \A d \in Clients \ {c} : cobj'[d] = cobj[d] /\ ckey'[d] = ckey[d]
    BY <1>3, <2>1
  <2>3. Referenced' \subseteq DOMAIN heap
    BY <1>1, <2>2 DEF Referenced, Owned, IInv, HeapOK, HeapTyped
  <2>4. HeapOK'
    BY <1>1, <1>3, <2>1, <2>3, HeapDropped
  <2>5. ThreadsTyped' /\ ThreadsHold'
    BY <1>1, <1>2, <1>3, <2>1, <2>2, ClientMoves DEF ClientPcs
  <2>6. QED
    BY <2>4, <2>5 DEF IInv
<1>6. QED
  BY <1>4, <1>5

LEMMA MapsAreTypes == ExpireMaps \subseteq Types /\ MeasureMaps \subseteq Types
<1>1. DOMAIN Order \subseteq Types
  BY DEF Order, Types
<1>2. QED
  BY <1>1 DEF ExpireMaps, MeasureMaps, Used

LEMMA ExpirerStep ==
  ASSUME IInv, Expirer
  PROVE  IInv'
<1>1. /\ now' = now /\ cpc' = cpc /\ ckey' = ckey /\ cobj' = cobj /\ cttl' = cttl
      /\ spc' = spc /\ stodo' = stodo /\ ms' = ms /\ apc' = apc /\ akey' = akey /\ aptrs' = aptrs
  BY DEF Expirer, ExpirerWake, ExpirerNow, ExpirerErase, clientVars, senderVars, adminVars
<1>2. crashed' = crashed
  BY DEF Expirer, ExpirerWake, ExpirerNow, ExpirerErase
<1>3. ThreadsHold' /\ ExpirationFrequency # 0
  <2>1. ExpirationFrequency # 0
    BY DEF Expirer, ExpirerWake, ExpirerNow, ExpirerErase, ExpirerAt, IInv, ThreadsHold
  <2>2. QED
    BY <1>1, <1>2, <2>1 DEF IInv, ThreadsHold
<1>4. xpc' \in {"wait", "now", "erase"} /\ xtodo' \subseteq Types /\ xnow' \in 0 .. now'
  <2>1. xpc' \in {"wait", "now", "erase"}
    BY DEF Expirer, ExpirerWake, ExpirerNow, ExpirerErase
  <2>2. xtodo' \subseteq Types
    BY MapsAreTypes DEF Expirer, ExpirerWake, ExpirerNow, ExpirerErase, IInv, ThreadsTyped
  <2>3. xnow' \in 0 .. now'
    BY <1>1 DEF Expirer, ExpirerWake, ExpirerNow, ExpirerErase, IInv, ThreadsTyped
  <2>4. QED
    BY <2>1, <2>2, <2>3
<1>5. HeapOK' /\ meters' \in [Keys -> Objs \cup {None}]
  <2>1. CASE ExpirerWake \/ ExpirerNow
    <3>1. meters' = meters /\ heap' = heap
      BY <2>1 DEF ExpirerWake, ExpirerNow
    <3>2. ms \subseteq DOMAIN heap /\ heap \in [DOMAIN heap -> Meters]
      BY Pointers DEF IInv, HeapOK, HeapTyped
    <3>3. HeapOK'
      BY <1>1, <3>1, <3>2, HeapUpdated
    <3>4. QED
      BY <3>1, <3>3 DEF IInv, ThreadsTyped
  <2>2. CASE ExpirerErase
    <3> DEFINE E == {o \in Registered(First(xtodo)) : is_meter_expired(xnow, heap[o])}
    <3>1. E \subseteq {meters[k] : k \in Keys} \ {None}
      BY DEF Registered
    <3>2. EraseAll(E)
      BY <2>2 DEF ExpirerErase
    <3> HIDE DEF E
    <3>3. QED
      BY <1>1, <1>3, <3>1, <3>2, EraseKeepsHeap
  <2>3. QED
    BY <2>1, <2>2 DEF Expirer
<1>6. ThreadsTyped'
  BY <1>1, <1>2, <1>4, <1>5 DEF IInv, ThreadsTyped
<1>7. QED
  BY <1>3, <1>5, <1>6 DEF IInv

LEMMA SenderStep ==
  ASSUME IInv, Sender
  PROVE  IInv'
<1> USE RegistryAssumption
<1>1. /\ now' = now /\ meters' = meters /\ cpc' = cpc /\ ckey' = ckey /\ cobj' = cobj /\ cttl' = cttl
      /\ xpc' = xpc /\ xtodo' = xtodo /\ xnow' = xnow /\ apc' = apc /\ akey' = akey /\ aptrs' = aptrs
  BY DEF Sender, SenderStart, Measure, RecordSize, Publish, clientVars, expirerVars, adminVars
<1>2. crashed' = crashed
  BY DEF Sender, SenderStart, Measure, RecordSize, Publish
<1>3. ThreadsHold'
  BY <1>1, <1>2 DEF IInv, ThreadsHold
<1>4. spc' \in {"wait", "measure", "publish"}
  BY DEF Sender, SenderStart, Measure, RecordSize, Publish, IInv, ThreadsTyped
<1>5. stodo' \subseteq Types
  BY MapsAreTypes DEF Sender, SenderStart, Measure, RecordSize, Publish, IInv, ThreadsTyped
<1>6. /\ ms \subseteq DOMAIN heap /\ heap \in [DOMAIN heap -> Meters] /\ DOMAIN heap \subseteq Objs
      /\ \A t : Registered(t) \subseteq DOMAIN heap
      /\ \A k \in DOMAIN Pinned : Pinned[k] \in DOMAIN heap
  BY Pointers DEF IInv, HeapOK, HeapTyped
<1>7. HeapOK' /\ ms' \subseteq Objs
  <2>1. CASE SenderStart
    <3>1. heap' = heap /\ ms' = ms
      BY <2>1 DEF SenderStart
    <3>2. QED
      BY <1>1, <1>6, <3>1, HeapUpdated
  <2>2. CASE Measure
    <3> DEFINE M == {o \in Registered(First(stodo)) : ~is_meter_expired(now, heap[o])}
    <3>1. M \subseteq DOMAIN heap
      BY <1>6
    <3>2. /\ ms' = ms \cup {o \in M : heap[o].value # "none"}
          /\ heap' = [o \in DOMAIN heap |-> IF o \in M THEN Measured(o) ELSE heap[o]]
      BY <2>2 DEF Measure
    <3> HIDE DEF M
    <3>3. \A o \in DOMAIN heap : /\ Measured(o) \in Meters
                                /\ Measured(o).key = heap[o].key /\ Measured(o).life = heap[o].life
      BY <1>6 DEF Measured, Meters
    <3>4. /\ heap' \in [DOMAIN heap -> Meters]
          /\ \A o \in DOMAIN heap : heap'[o].key = heap[o].key /\ heap'[o].life = heap[o].life
      BY <1>6, <3>2, <3>3
    <3>5. ms' \subseteq DOMAIN heap /\ ms \subseteq ms'
      BY <1>6, <3>1, <3>2
    <3>6. HeapOK'
      BY <1>1, <3>4, <3>5, HeapUpdated
    <3>7. QED
      BY <1>6, <3>5, <3>6
  <2>3. CASE RecordSize
    <3>1. ms' = ms
      BY <2>3 DEF RecordSize
    <3>2. /\ heap' \in [DOMAIN heap -> Meters]
          /\ \A o \in DOMAIN heap : heap'[o].key = heap[o].key /\ heap'[o].life = heap[o].life
      <4>1. CASE RegistrySize = None
        BY <1>6, <2>3, <4>1 DEF RecordSize
      <4>2. CASE RegistrySize # None
        <5> DEFINE p == Pinned[RegistrySize]
                   m == [[heap[p] EXCEPT !.updated = now] EXCEPT !.value = "new"]
        <5>1. p \in DOMAIN heap
          BY <1>6, <4>2
        <5>2. now \in 0 .. now
          BY DEF IInv, ThreadsTyped
        <5>3. heap[p] \in Meters
          BY <1>6, <5>1
        <5>4. m \in Meters /\ m.key = heap[p].key /\ m.life = heap[p].life
          BY <5>2, <5>3 DEF Meters
        <5>5. heap' = [heap EXCEPT ![p] = m]
          BY <1>6, <2>3, <4>2, <5>1 DEF RecordSize
        <5> HIDE DEF p, m
        <5>6. QED
          BY <1>6, <5>1, <5>4, <5>5
      <4>3. QED
        BY <4>1, <4>2
    <3>3. QED
      BY <1>1, <1>6, <3>1, <3>2, HeapUpdated
  <2>4. CASE Publish
    <3>1. ms' = {} /\ heap' = [o \in Referenced' |-> heap[o]]
      BY <2>4 DEF Publish
    <3>2. Referenced' \subseteq DOMAIN heap
      BY <1>1, <3>1 DEF Referenced, Owned, IInv, HeapOK, HeapTyped
    <3>3. QED
      BY <1>1, <3>1, <3>2, HeapDropped
  <2>5. QED
    BY <2>1, <2>2, <2>3, <2>4 DEF Sender
<1>8. ThreadsTyped'
  BY <1>1, <1>2, <1>4, <1>5, <1>7 DEF IInv, ThreadsTyped
<1>9. QED
  BY <1>3, <1>7, <1>8 DEF IInv

LEMMA AdminStep ==
  ASSUME IInv, NEW a \in Admins, Admin(a)
  PROVE  IInv'
<1> USE RegistryAssumption
<1> DEFINE Lists == \E t \in Types \ {"MonotonicSampled"} : AdminGetValues(a, t)
           Finds == \E k \in Keys : AdminContains(a, k)
           Clears == \E t \in Deletable : AdminEraseAll(a, t)
<1>1. /\ now' = now /\ cpc' = cpc /\ ckey' = ckey /\ cobj' = cobj /\ cttl' = cttl
      /\ xpc' = xpc /\ xtodo' = xtodo /\ xnow' = xnow /\ spc' = spc /\ stodo' = stodo /\ ms' = ms
  BY DEF Admin, AdminContains, AdminErase, AdminEraseAll, AdminGetValues, AdminListed,
         clientVars, expirerVars, senderVars
<1>2. crashed' = crashed
  BY DEF Admin, AdminContains, AdminErase, AdminEraseAll, AdminGetValues, AdminListed
<1>3. /\ apc \in [Admins -> {"idle", "erase", "list"}] /\ akey \in [Admins -> Keys \cup {None}]
      /\ aptrs \in [Admins -> SUBSET Objs] /\ meters \in [Keys -> Objs \cup {None}]
  BY DEF IInv, ThreadsTyped
<1>4. /\ ms \subseteq DOMAIN heap /\ heap \in [DOMAIN heap -> Meters] /\ DOMAIN heap \subseteq Objs
      /\ \A t : Registered(t) \subseteq DOMAIN heap
  BY Pointers DEF IInv, HeapOK, HeapTyped
<1>5. /\ apc' \in [Admins -> {"idle", "erase", "list"}] /\ akey' \in [Admins -> Keys \cup {None}]
      /\ aptrs' \in [Admins -> SUBSET Objs]
      /\ \A b \in Admins : apc'[b] = "erase" => akey'[b] # None /\ TypeOf[akey'[b]] \in Deletable
      /\ \A b \in Admins : apc'[b] # "list" => aptrs'[b] = {}
  <2>1. \A b \in Admins : /\ apc[b] = "erase" => akey[b] # None /\ TypeOf[akey[b]] \in Deletable
                          /\ apc[b] # "list" => aptrs[b] = {}
    BY DEF IInv, ThreadsHold
  <2>2. CASE Finds
    BY <1>3, <2>1, <2>2 DEF AdminContains, AdminAt
  <2>3. CASE AdminErase(a)
    BY <1>3, <2>1, <2>3 DEF AdminErase, AdminAt
  <2>4. CASE Clears
    BY <1>3, <2>1, <2>4 DEF AdminEraseAll, adminVars
  <2>5. CASE Lists
    BY <1>3, <1>4, <2>1, <2>5 DEF AdminGetValues
  <2>6. CASE AdminListed(a)
    BY <1>3, <2>1, <2>6 DEF AdminListed
  <2>7. QED
    BY <2>2, <2>3, <2>4, <2>5, <2>6 DEF Admin
<1>6. HeapOK' /\ meters' \in [Keys -> Objs \cup {None}]
  <2>1. CASE Finds
    <3>1. heap' = heap /\ meters' = meters /\ aptrs' = aptrs
      BY <2>1 DEF AdminContains
    <3>2. HeapOK'
      BY <1>1, <1>4, <3>1, HeapUpdated
    <3>3. QED
      BY <1>3, <3>1, <3>2
  <2>2. CASE AdminErase(a)
    <3> DEFINE E == {meters[akey[a]]} \ {None}
    <3>1. akey[a] \in Keys /\ TypeOf[akey[a]] \in Deletable
      BY <1>3, <2>2 DEF AdminErase, AdminAt, IInv, ThreadsHold
    <3>2. E \subseteq {meters[k] : k \in Keys} \ {None} /\ \A o \in E : TypeOf[heap[o].key] \in Deletable
      BY <3>1 DEF IInv, HeapOK, OneMeterPerId
    <3>3. EraseAll(E) /\ aptrs' = aptrs
      BY <2>2 DEF AdminErase
    <3> HIDE DEF E
    <3>4. QED
      BY <1>1, <3>2, <3>3, EraseKeepsHeap
  <2>3. CASE Clears
    <3>1. PICK t \in Deletable : AdminEraseAll(a, t)
      BY <2>3
    <3>2. /\ Registered(t) \subseteq {meters[k] : k \in Keys} \ {None}
          /\ \A o \in Registered(t) : TypeOf[heap[o].key] \in Deletable
      BY DEF Registered, IInv, HeapOK, OneMeterPerId
    <3>3. EraseAll(Registered(t)) /\ aptrs' = aptrs
      BY <3>1 DEF AdminEraseAll, adminVars
    <3>4. QED
      BY <1>1, <3>2, <3>3, EraseKeepsHeap
  <2>4. CASE Lists
    <3>1. PICK t \in Types : AdminGetValues(a, t)
      BY <2>4
    <3>2. /\ heap' = heap /\ meters' = meters /\ aptrs' = [aptrs EXCEPT ![a] = Registered(t)]
          /\ aptrs[a] = {}
      BY <3>1 DEF AdminGetValues, AdminAt, IInv, ThreadsHold
    <3>3. \A b \in Admins : aptrs'[b] = IF b = a THEN Registered(t) ELSE aptrs[b]
      BY <1>3, <3>2
    <3>4. Referenced' \subseteq DOMAIN heap
      BY <1>1, <1>4, <3>2, <3>3 DEF Referenced, Owned, IInv, HeapOK, HeapTyped
    <3>5. DOMAIN heap \subseteq Referenced'
      BY <1>1, <3>2, <3>3 DEF Referenced, Owned, IInv, HeapOK, HeapTyped
    <3>6. heap' = [o \in Referenced' |-> heap[o]]
      BY <1>4, <3>2, <3>4, <3>5
    <3>7. HeapOK'
      BY <1>1, <3>2, <3>4, <3>6, HeapDropped
    <3>8. QED
      BY <1>3, <3>2, <3>7
  <2>5. CASE AdminListed(a)
    <3>1. /\ aptrs' = [aptrs EXCEPT ![a] = {}] /\ meters' = meters
          /\ heap' = [o \in Referenced' |-> heap[o]]
      BY <2>5 DEF AdminListed
    <3>2. \A b \in Admins : aptrs'[b] \subseteq aptrs[b]
      BY <1>3, <3>1
    <3>3. Referenced' \subseteq DOMAIN heap
      BY <1>1, <3>1, <3>2 DEF Referenced, Owned, IInv, HeapOK, HeapTyped
    <3>4. HeapOK'
      BY <1>1, <3>1, <3>3, HeapDropped
    <3>5. QED
      BY <1>3, <3>1, <3>4
  <2>6. QED
    BY <2>1, <2>2, <2>3, <2>4, <2>5 DEF Admin
<1>7. ThreadsTyped'
  BY <1>1, <1>2, <1>5, <1>6 DEF IInv, ThreadsTyped
<1>8. ThreadsHold'
  BY <1>1, <1>2, <1>5 DEF IInv, ThreadsHold
<1>9. QED
  BY <1>6, <1>7, <1>8 DEF IInv

LEMMA TickStep ==
  ASSUME IInv, Tick
  PROVE  IInv'
<1>1. /\ meters' = meters /\ heap' = heap /\ cpc' = cpc /\ ckey' = ckey /\ cobj' = cobj
      /\ cttl' = cttl /\ xpc' = xpc /\ xtodo' = xtodo /\ xnow' = xnow /\ spc' = spc
      /\ stodo' = stodo /\ ms' = ms /\ apc' = apc /\ akey' = akey /\ aptrs' = aptrs
  BY DEF Tick, clientVars, expirerVars, senderVars, adminVars
<1>2. crashed' = crashed
  BY DEF Tick
<1>3. now \in Nat /\ now' \in Nat /\ now' >= now
  BY DEF Tick, IInv, ThreadsTyped
<1>4. Referenced' = DOMAIN heap
  BY <1>1 DEF Referenced, Owned, IInv, HeapOK, HeapTyped
<1>5. \A m \in Meters : m \in Meters'
  BY <1>3 DEF Meters
<1>6. heap' \in [Referenced' -> Meters']
  BY <1>1, <1>4, <1>5 DEF IInv, HeapOK, HeapTyped
<1>7. HeapOK'
  BY <1>1, <1>3, <1>4, <1>6, HeapKept
<1>8. xnow' \in 0 .. now'
  BY <1>1, <1>3 DEF IInv, ThreadsTyped
<1>9. ThreadsTyped'
  BY <1>1, <1>2, <1>3, <1>8 DEF IInv, ThreadsTyped
<1>10. ThreadsHold'
  BY <1>1, <1>2 DEF IInv, ThreadsHold
<1>11. QED
  BY <1>7, <1>9, <1>10 DEF IInv

LEMMA StepIInv == IInv /\ [Next]_vars => IInv'
<1> SUFFICES ASSUME IInv, [Next]_vars
             PROVE  IInv'
  OBVIOUS
<1>1. ASSUME NEW c \in Clients, Client(c)
      PROVE  IInv'
  BY <1>1, GetStep, StoreStep, AgeStep, HandleStep DEF Client
<1>2. CASE Expirer
  BY <1>2, ExpirerStep
<1>3. CASE Sender
  BY <1>3, SenderStep
<1>4. ASSUME NEW a \in Admins, Admin(a)
      PROVE  IInv'
  BY <1>4, AdminStep
<1>5. CASE Tick
  BY <1>5, TickStep
<1>6. CASE UNCHANGED vars
  <2>1. /\ now' = now /\ meters' = meters /\ heap' = heap /\ cpc' = cpc /\ ckey' = ckey
        /\ cobj' = cobj /\ cttl' = cttl /\ xpc' = xpc /\ xtodo' = xtodo /\ xnow' = xnow
        /\ spc' = spc /\ stodo' = stodo /\ ms' = ms /\ apc' = apc /\ akey' = akey /\ aptrs' = aptrs
    BY <1>6 DEF vars, clientVars, expirerVars, senderVars, adminVars
  <2>2. crashed' = crashed
    BY <1>6 DEF vars
  <2>3. ThreadsTyped'
    BY <2>1, <2>2 DEF IInv, ThreadsTyped
  <2>4. ThreadsHold'
    BY <2>1, <2>2 DEF IInv, ThreadsHold
  <2>5. ms \subseteq DOMAIN heap /\ heap \in [DOMAIN heap -> Meters]
    BY Pointers DEF IInv, HeapOK, HeapTyped
  <2>6. HeapOK'
    BY <2>1, <2>5, HeapUpdated
  <2>7. QED
    BY <2>3, <2>4, <2>6 DEF IInv
<1>7. QED
  BY <1>1, <1>2, <1>3, <1>4, <1>5, <1>6 DEF Next

\* IInv holds in every reachable state.
THEOREM RegistryInductive == Spec => []IInv
  BY InitIInv, StepIInv, PTL DEF Spec

-----------------------------------------------------------------------------
\* The results

\* The maps, the heap and the threads of the registry keep their types, and no
\* pointer leads to an object that is not there.
THEOREM RegistryTypeCorrect == Spec => []TypeOK
<1>1. IInv => TypeOK
  BY DEF IInv, HeapOK, HeapTyped, ThreadsTyped, TypeOK
<1>2. QED
  BY <1>1, RegistryInductive, PTL

\* insert never drives a registered meter out: one meter per id, until someone
\* erases it, for any number of racing clients.
THEOREM RegistryOneMeterPerId == Spec => []OneMeterPerId
<1>1. IInv => OneMeterPerId
  BY DEF IInv, HeapOK
<1>2. QED
  BY <1>1, RegistryInductive, PTL

\* Without an expiration frequency, as the daemon is run, whatever any pointer,
\* handle or Measurement leads to is the meter in the map under its id, unless it is
\* of a type that admins can delete.
THEOREM RegistryOnlyDeletableLeave ==
  ASSUME ExpirationFrequency = 0
  PROVE  Spec => []OnlyDeletableLeave
<1>1. ASSUME IInv
      PROVE  OnlyDeletableLeave
  <2> SUFFICES ASSUME NEW o \in Referenced
               PROVE  TypeOf[heap[o].key] \in Deletable \/ meters[heap[o].key] = o
    BY DEF OnlyDeletableLeave
  <2>1. o \in DOMAIN heap
    BY <1>1 DEF IInv, HeapOK, HeapTyped
  <2>2. heap[o].life \in {"registered", "erased", "unregistered"}
    BY <1>1, <2>1 DEF IInv, HeapOK, HeapTyped, Meters
  <2>3. CASE heap[o].life = "registered"
    BY <1>1, <2>1, <2>3 DEF IInv, HeapOK, OneMeterPerId
  <2>4. CASE heap[o].life = "unregistered"
    BY <1>1, <2>1, <2>4 DEF IInv, HeapOK, OnlyAgeGaugesUnregistered, Deletable
  <2>5. CASE heap[o].life = "erased"
    BY <1>1, <2>1, <2>5 DEF IInv, HeapOK, ErasedByAdmins
  <2>6. QED
    BY <2>2, <2>3, <2>4, <2>5
<1>2. QED
  BY <1>1, RegistryInductive, PTL

\* What the expirer erases is idle for longer than its ttl when it is erased,
\* although the time it compares with was read before it waited for the lock.
THEOREM ExpirySafe == Spec => ExpiryRespectsTtl
<1> DEFINE Safe ==
      \A k \in Keys :
        xtodo' # xtodo /\ meters[k] # None /\ meters'[k] = None =>
          /\ TypeOf[k] # "AgeGauge"
          /\ now - heap[meters[k]].updated >
               IF TypeOf[k] = "Gauge" THEN heap[meters[k]].ttl ELSE MeterTtl
<1>1. ASSUME IInv, [Next]_vars
      PROVE  [Safe]_vars
  <2> SUFFICES ASSUME Next, NEW k \in Keys,
                      xtodo' # xtodo, meters[k] # None, meters'[k] = None
               PROVE  /\ TypeOf[k] # "AgeGauge"
                      /\ now - heap[meters[k]].updated >
                           IF TypeOf[k] = "Gauge" THEN heap[meters[k]].ttl ELSE MeterTtl
    BY <1>1
  <2>1. ExpirerErase
    <3>1. ASSUME NEW c \in Clients, Client(c)
          PROVE  FALSE
      BY <3>1 DEF Client, Get, GetGaugeTtl, AgeContains, UsePinned, SetTtl, AgeAt, AgeSize,
                  AgeInsert, Touch, Apply, Return, ClientGoes, expirerVars
    <3>2. ASSUME Sender
          PROVE  FALSE
      BY <3>2 DEF Sender, SenderStart, Measure, RecordSize, Publish, expirerVars
    <3>3. ASSUME NEW a \in Admins, Admin(a)
          PROVE  FALSE
      BY <3>3 DEF Admin, AdminContains, AdminErase, AdminEraseAll, AdminGetValues, AdminListed,
                  expirerVars
    <3>4. ASSUME Tick
          PROVE  FALSE
      BY <3>4 DEF Tick, expirerVars
    <3>5. ~ExpirerWake /\ ~ExpirerNow
      BY DEF ExpirerWake, ExpirerNow
    <3>6. QED
      BY <3>1, <3>2, <3>3, <3>4, <3>5 DEF Next, Expirer
  <2> DEFINE o == meters[k]
  <2>2. is_meter_expired(xnow, heap[o])
    BY <2>1 DEF ExpirerErase, EraseAll
  <2>3. heap[o] \in Meters /\ heap[o].key = k
    BY <1>1, Pointers DEF IInv, HeapOK, HeapTyped, OneMeterPerId
  <2>4. /\ xnow \in Int /\ now \in Int /\ xnow <= now
        /\ heap[o].updated \in Int /\ heap[o].ttl \in Int /\ MeterTtl \in Int
    BY <1>1, <2>3, RegistryAssumption DEF IInv, ThreadsTyped, Meters
  <2> HIDE DEF o
  <2>5. TypeOf[k] # "AgeGauge" /\
        xnow - heap[o].updated > IF TypeOf[k] = "Gauge" THEN heap[o].ttl ELSE MeterTtl
    BY <2>2, <2>3 DEF is_meter_expired
  <2>6. now - heap[o].updated > IF TypeOf[k] = "Gauge" THEN heap[o].ttl ELSE MeterTtl
    BY <2>4, <2>5
  <2>7. QED
    BY <2>5, <2>6 DEF o
<1>2. QED
  BY <1>1, RegistryInductive, PTL DEF Spec, ExpiryRespectsTtl

-----------------------------------------------------------------------------
\* No update is lost

LEMMA FirstInSet ==
  ASSUME NEW S, S \subseteq DOMAIN Order, S # {}
  PROVE  First(S) \in S
<1>1. DOMAIN Order = {"AgeGauge", "Counter", "DistributionSummary", "Gauge", "MaxGauge",
                      "MonotonicCounter", "MonotonicCounterUint", "Timer"}
  BY DEF Order
<1>2. /\ Order["AgeGauge"] = 1 /\ Order["Counter"] = 2 /\ Order["DistributionSummary"] = 3
      /\ Order["Gauge"] = 4 /\ Order["MaxGauge"] = 5 /\ Order["MonotonicCounter"] = 6
      /\ Order["MonotonicCounterUint"] = 7 /\ Order["Timer"] = 8
  BY DEF Order
<1>3. \E t \in S : \A u \in S : Order[t] <= Order[u]
  BY <1>1, <1>2
<1>4. QED
  BY <1>3 DEF First

\* The sender's Measurements are of maps it has visited, and none is left over from
\* the last round.
ReportInv ==
  /\ stodo \subseteq DOMAIN Order
  /\ spc = "wait" => ms = {}
  /\ \A o \in ms : TypeOf[heap[o].key] \notin stodo

\* The meters that Measure visits in the map of type t
Live(t) == {o \in Registered(t) : ~is_meter_expired(now, heap[o])}

\* An object keeps its id, and its update unless it is measured.
LEMMA HeapFrame ==
  ASSUME IInv, [Next]_vars, NEW o \in DOMAIN heap, o \in DOMAIN heap'
  PROVE  /\ heap'[o].key = heap[o].key
         /\ heap[o].value = "new" => \/ heap'[o].value = "new"
                                     \/ Measure /\ o \in Live(First(stodo))
<1> USE RegistryAssumption
<1>1. heap \in [DOMAIN heap -> Meters] /\ (\A c \in Clients : cobj[c] # None => cobj[c] \in DOMAIN heap)
      /\ (\A k \in DOMAIN Pinned : Pinned[k] \in DOMAIN heap)
  BY Pointers DEF IInv, HeapOK, HeapTyped
<1>2. ASSUME NEW c \in Clients, Client(c)
      PROVE  heap'[o].key = heap[o].key /\ (heap[o].value = "new" => heap'[o].value = "new")
  <2>1. ASSUME NEW k, NEW t, NEW x, insert(c, k, t, x)
        PROVE  heap'[o] = heap[o]
    <3>1. CASE meters[k] = None
      BY <2>1, <3>1 DEF insert
    <3>2. CASE meters[k] # None
      BY <2>1, <3>2 DEF insert
    <3> QED BY <3>1, <3>2
  <2>2. CASE \E k \in Keys : Get(c, k) \/ GetGaugeTtl(c, k)
    BY <2>1, <2>2 DEF Get, GetGaugeTtl
  <2>3. CASE AgeInsert(c)
    BY <2>1, <2>3 DEF AgeInsert
  <2>4. CASE (\E k \in Keys : AgeContains(c, k) \/ UsePinned(c, k)) \/ AgeAt(c)
    BY <2>4 DEF AgeContains, UsePinned, AgeAt
  <2>5. CASE SetTtl(c)
    BY <1>1, <2>5 DEF SetTtl, Meters
  <2>6. CASE AgeSize(c)
    BY <2>6 DEF AgeSize
  <2>7. CASE Touch(c)
    BY <1>1, <2>7 DEF Touch, Meters
  <2>8. CASE Apply(c)
    <3>1. PICK v \in {"new", heap[cobj[c]].value} : heap' = [heap EXCEPT ![cobj[c]].value = v]
      BY <2>8 DEF Apply
    <3> QED BY <1>1, <3>1 DEF Meters
  <2>9. CASE Return(c)
    BY <2>9 DEF Return
  <2> QED BY <1>2, <2>2, <2>3, <2>4, <2>5, <2>6, <2>7, <2>8, <2>9 DEF Client
<1>3. ASSUME NEW E, EraseAll(E)
      PROVE  heap'[o].key = heap[o].key /\ heap'[o].value = heap[o].value
  <2>1. heap[o] \in Meters
    BY <1>1
  <2>2. heap'[o] = IF o \in E THEN [heap[o] EXCEPT !.life = "erased"] ELSE heap[o]
    BY <1>3 DEF EraseAll
  <2> QED BY <2>1, <2>2 DEF Meters
<1>4. CASE Expirer
  BY <1>3, <1>4 DEF Expirer, ExpirerWake, ExpirerNow, ExpirerErase
<1>5. CASE Sender
  <2>1. CASE Measure
    <3>1. heap'[o] = IF o \in Live(First(stodo)) THEN Measured(o) ELSE heap[o]
      BY <2>1 DEF Measure, Live
    <3>2. Measured(o).key = heap[o].key
      BY <1>1 DEF Measured, Meters
    <3> QED BY <2>1, <3>1, <3>2
  <2>2. CASE RecordSize
    <3>1. CASE RegistrySize = None
      BY <2>2, <3>1 DEF RecordSize
    <3>2. CASE RegistrySize # None
      <4> DEFINE x == Pinned[RegistrySize]
      <4>1. x \in DOMAIN heap
        BY <1>1, <3>2
      <4>2. heap' = [heap EXCEPT ![x].updated = now, ![x].value = "new"]
        BY <2>2, <3>2 DEF RecordSize
      <4> HIDE DEF x
      <4>3. CASE o = x
        <5>1. heap'[o] = [heap[o] EXCEPT !.updated = now, !.value = "new"]
          BY <4>1, <4>2, <4>3
        <5>2. heap[o] \in Meters
          BY <1>1
        <5> QED BY <5>1, <5>2 DEF Meters
      <4>4. CASE o # x
        BY <4>1, <4>2, <4>4
      <4> QED BY <4>3, <4>4
    <3> QED BY <3>1, <3>2
  <2>3. CASE SenderStart \/ Publish
    BY <2>3 DEF SenderStart, Publish
  <2> QED BY <1>5, <2>1, <2>2, <2>3 DEF Sender
<1>6. ASSUME NEW a \in Admins, Admin(a)
      PROVE  heap'[o].key = heap[o].key /\ heap'[o].value = heap[o].value
  BY <1>3, <1>6 DEF Admin, AdminContains, AdminErase, AdminEraseAll, AdminGetValues, AdminListed
<1>7. CASE Tick \/ UNCHANGED vars
  BY <1>7 DEF Tick, vars
<1> QED BY <1>2, <1>4, <1>5, <1>6, <1>7 DEF Next

\* A step leaves an id with its meter or with none.
LEMMA MapFrame ==
  ASSUME IInv, [Next]_vars, NEW k \in Keys, meters[k] # None
  PROVE  meters'[k] \in {meters[k], None}
<1>1. meters \in [Keys -> Objs \cup {None}]
  BY DEF IInv, ThreadsTyped
<1>2. ASSUME NEW c \in Clients, Client(c)
      PROVE  meters'[k] = meters[k]
  <2>1. ASSUME NEW l, NEW t, NEW x, insert(c, l, t, x)
        PROVE  meters'[k] = meters[k]
    BY <1>1, <2>1 DEF insert
  <2>2. CASE \E l \in Keys : Get(c, l) \/ GetGaugeTtl(c, l)
    BY <2>1, <2>2 DEF Get, GetGaugeTtl
  <2>3. CASE AgeInsert(c)
    BY <2>1, <2>3 DEF AgeInsert
  <2>4. CASE meters' = meters
    BY <2>4
  <2> QED
    BY <1>2, <2>2, <2>3, <2>4 DEF Client, AgeContains, UsePinned, SetTtl, AgeAt, AgeSize, Touch, Apply,
                                  Return
<1>3. ASSUME NEW E, EraseAll(E)
      PROVE  meters'[k] \in {meters[k], None}
  BY <1>3 DEF EraseAll
<1>4. CASE Expirer
  BY <1>3, <1>4 DEF Expirer, ExpirerWake, ExpirerNow, ExpirerErase
<1>5. CASE Sender \/ Tick \/ UNCHANGED vars
  BY <1>5 DEF Sender, SenderStart, Measure, RecordSize, Publish, Tick, vars
<1>6. ASSUME NEW a \in Admins, Admin(a)
      PROVE  meters'[k] \in {meters[k], None}
  BY <1>3, <1>6 DEF Admin, AdminContains, AdminErase, AdminEraseAll, AdminGetValues, AdminListed
<1> QED BY <1>2, <1>4, <1>5, <1>6 DEF Next

LEMMA StepReportInv ==
  ASSUME IInv, ReportInv, [Next]_vars
  PROVE  ReportInv'
<1>1. IInv'
  BY StepIInv
<1>2. ms \subseteq DOMAIN heap /\ ms' \subseteq DOMAIN heap' /\ Registered(First(stodo)) \subseteq DOMAIN heap
  BY <1>1, Pointers DEF IInv, HeapOK, HeapTyped, Referenced
<1>3. \A o \in DOMAIN heap : o \in DOMAIN heap' => heap'[o].key = heap[o].key
  BY HeapFrame
<1>4. ASSUME UNCHANGED senderVars
      PROVE  ReportInv'
  BY <1>2, <1>3, <1>4 DEF ReportInv, senderVars
<1>5. CASE SenderStart
  BY <1>5 DEF SenderStart, SenderAt, ReportInv, MeasureMaps, Used
<1>6. CASE Measure
  <2> DEFINE t == First(stodo)
  <2>1. ms' \subseteq ms \cup Registered(t) /\ stodo' = stodo \ {t} /\ spc' = spc /\ spc = "measure"
    BY <1>6 DEF Measure, SenderAt
  <2>2. \A o \in Registered(t) : TypeOf[heap[o].key] = t
    BY DEF IInv, HeapOK, OneMeterPerId, Registered
  <2> HIDE DEF t
  <2> QED BY <1>2, <1>3, <2>1, <2>2 DEF ReportInv, t
<1>7. CASE RecordSize
  BY <1>2, <1>3, <1>7 DEF RecordSize, ReportInv
<1>8. CASE Publish
  BY <1>8 DEF Publish, ReportInv
<1>9. ASSUME (\E c \in Clients : Client(c)) \/ Expirer \/ (\E a \in Admins : Admin(a)) \/ Tick
             \/ UNCHANGED vars
      PROVE  UNCHANGED senderVars
  BY <1>9 DEF Client, Get, GetGaugeTtl, AgeContains, UsePinned, SetTtl, AgeAt, AgeSize, AgeInsert,
              Touch, Apply, Return, ClientGoes, Expirer, ExpirerWake, ExpirerNow, ExpirerErase,
              Admin, AdminContains, AdminErase, AdminEraseAll, AdminGetValues, AdminListed, Tick, vars
<1> QED BY <1>4, <1>5, <1>6, <1>7, <1>8, <1>9 DEF Next, Sender

\* An update that was applied stays in its meter until a Measure reports it, or the
\* expirer or an admin removes the meter: for any number of clients that race for the
\* same ids, and wherever the sender is in its round.
THEOREM RegistryLosesNoUpdate == Spec => UpdateLostOnlyByRemoval
<1> DEFINE Kept ==
      \A o \in DOMAIN heap :
        heap[o].value = "new" =>
          \/ o \in DOMAIN heap' /\ heap'[o].value = "new"
          \/ o \in ms' \ ms
          \/ heap[o].life # "registered"
          \/ meters'[heap[o].key] = None
<1>1. Init => ReportInv
  BY DEF Init, ReportInv
<1>2. IInv /\ ReportInv /\ [Next]_vars => ReportInv'
  BY StepReportInv
<1>3. ASSUME IInv, ReportInv, [Next]_vars
      PROVE  [Kept]_vars
  <2> SUFFICES ASSUME NEW o \in DOMAIN heap, heap[o].value = "new", heap[o].life = "registered",
                      meters'[heap[o].key] # None
               PROVE  (o \in DOMAIN heap' /\ heap'[o].value = "new") \/ o \in ms' \ ms
    OBVIOUS
  <2>1. heap[o].key \in Keys /\ meters[heap[o].key] = o /\ o \in Objs
    BY <1>3 DEF IInv, HeapOK, HeapTyped, OneMeterPerId, Meters
  <2>2. meters'[heap[o].key] = o
    BY <1>3, <2>1, MapFrame, RegistryAssumption
  <2>3. o \in DOMAIN heap'
    <3>1. IInv'
      BY <1>3, StepIInv
    <3> QED BY <2>1, <2>2, <3>1, RegistryAssumption DEF IInv, HeapOK, HeapTyped, Referenced, Owned
  <2>4. CASE Measure /\ o \in Live(First(stodo))
    <3>1. stodo # {} /\ First(stodo) \in stodo
      BY <1>3, <2>4, FirstInSet DEF Measure, ReportInv
    <3>2. TypeOf[heap[o].key] = First(stodo)
      BY <1>3, <2>4 DEF IInv, HeapOK, OneMeterPerId, Live, Registered
    <3>3. o \notin ms
      BY <1>3, <3>1, <3>2 DEF ReportInv
    <3>4. o \in ms'
      BY <2>4 DEF Measure, Live
    <3> QED BY <3>3, <3>4
  <2> QED BY <1>3, <2>3, <2>4, HeapFrame
<1>4. QED
  BY <1>1, <1>2, <1>3, RegistryInductive, PTL DEF Spec, UpdateLostOnlyByRemoval

-----------------------------------------------------------------------------
\* The limit on age gauges

\* The io thread is the only caller of GetAgeGauge (spectatord.cc:392, 654-659).
OneAgeClient == \A c, d \in AgeClients : c = d

AgeSet == Registered("AgeGauge")

\* Nobody adds an age gauge between a client's size() and its insert.
AgeInv ==
  /\ IsFiniteSet(AgeSet) /\ Cardinality(AgeSet) <= AgeGaugeLimit
  /\ \A c \in Clients : cpc[c] \in {"at", "size", "insert"} => c \in AgeClients
  /\ \A c \in Clients : cpc[c] = "insert" => Cardinality(AgeSet) < AgeGaugeLimit

LEMMA InitAgeInv == Init => AgeInv
<1> SUFFICES ASSUME Init
             PROVE  AgeInv
  OBVIOUS
<1>1. AgeSet = {}
  BY RegistryAssumption DEF AgeSet, Registered, Init
<1>2. IsFiniteSet(AgeSet) /\ Cardinality(AgeSet) <= AgeGaugeLimit
  BY <1>1, FS_EmptySet, RegistryAssumption
<1>3. \A c \in Clients : cpc[c] = "idle"
  BY DEF Init
<1>4. QED
  BY <1>2, <1>3 DEF AgeInv

LEMMA AgeSetShrinks ==
  ASSUME AgeInv, AgeSet' \subseteq AgeSet
  PROVE  /\ IsFiniteSet(AgeSet') /\ Cardinality(AgeSet') <= AgeGaugeLimit
         /\ Cardinality(AgeSet) < AgeGaugeLimit => Cardinality(AgeSet') < AgeGaugeLimit
<1> DEFINE S == AgeSet
           T == AgeSet'
<1>1. IsFiniteSet(S) /\ Cardinality(S) <= AgeGaugeLimit /\ AgeGaugeLimit \in Nat
  BY RegistryAssumption DEF AgeInv
<1> HIDE DEF S, T
<1>2. T \in SUBSET S
  BY DEF S, T
<1>3. IsFiniteSet(T) /\ Cardinality(T) <= Cardinality(S)
  BY <1>1, <1>2, FS_Subset
<1>4. Cardinality(T) \in Nat /\ Cardinality(S) \in Nat
  BY <1>1, <1>3, FS_CardinalityType
<1>5. QED
  BY <1>1, <1>3, <1>4 DEF S, T

\* Of all steps only AgeInsert adds to the map of the age gauges, and only
\* AgeSize decides that there is room.
LEMMA AgeFrame ==
  ASSUME IInv, [Next]_vars
  PROVE  \/ \E c \in Clients : AgeInsert(c)
         \/ /\ AgeSet' \subseteq AgeSet
            /\ \A d \in Clients : cpc'[d] = "insert" => cpc[d] = "insert" \/ AgeSize(d)
<1> USE RegistryAssumption
<1>1. meters \in [Keys -> Objs \cup {None}] /\ cpc \in [Clients -> ClientPcs]
  BY DEF IInv, ThreadsTyped
<1>2. ASSUME meters' = meters
      PROVE  AgeSet' \subseteq AgeSet
  BY <1>2 DEF AgeSet, Registered
<1>3. ASSUME NEW E, EraseAll(E)
      PROVE  AgeSet' \subseteq AgeSet
  BY <1>1, <1>3 DEF EraseAll, AgeSet, Registered
<1>4. ASSUME NEW c \in Clients, NEW k \in Keys, Get(c, k) \/ GetGaugeTtl(c, k)
      PROVE  AgeSet' \subseteq AgeSet
  <2>1. TypeOf[k] # "AgeGauge"
    BY <1>4 DEF Get, GetGaugeTtl
  <2>2. \A j \in Keys : j # k => meters'[j] = meters[j]
    BY <1>1, <1>4 DEF Get, GetGaugeTtl, insert
  <2>3. QED
    BY <2>1, <2>2 DEF AgeSet, Registered
<1>5. ASSUME NEW c \in Clients, Client(c), ~AgeInsert(c)
      PROVE  /\ AgeSet' \subseteq AgeSet
             /\ \A d \in Clients : cpc'[d] = "insert" => cpc[d] = "insert" \/ AgeSize(d)
  <2>1. AgeSet' \subseteq AgeSet
    BY <1>2, <1>4, <1>5 DEF Client, AgeContains, UsePinned, SetTtl, AgeAt, AgeSize, Touch, Apply,
                            Return
  <2>2. CASE AgeSize(c)
    <3>1. PICK p \in ClientPcs : ClientGoes(c, p)
      BY <2>2 DEF AgeSize, ClientPcs
    <3>2. QED
      BY <1>1, <2>1, <2>2, <3>1 DEF ClientGoes
  <2>3. CASE ~AgeSize(c)
    <3>1. PICK p \in ClientPcs \ {"insert"} : ClientGoes(c, p)
      BY <1>5, <2>3 DEF Client, Get, GetGaugeTtl, AgeContains, UsePinned, SetTtl, AgeAt, Touch,
                        Apply, Return, ClientPcs
    <3>2. QED
      BY <1>1, <2>1, <3>1 DEF ClientGoes
  <2>4. QED
    BY <2>2, <2>3
<1>6. ASSUME Expirer \/ Sender \/ (\E a \in Admins : Admin(a)) \/ Tick \/ UNCHANGED vars
      PROVE  cpc' = cpc
  BY <1>6 DEF Expirer, ExpirerWake, ExpirerNow, ExpirerErase, Sender, SenderStart, Measure,
              RecordSize, Publish, Admin, AdminContains, AdminErase, AdminEraseAll,
              AdminGetValues, AdminListed, Tick, vars, clientVars
<1>7. CASE Expirer
  <2>1. AgeSet' \subseteq AgeSet
    BY <1>2, <1>3, <1>7 DEF Expirer, ExpirerWake, ExpirerNow, ExpirerErase
  <2>2. QED
    BY <1>6, <1>7, <2>1
<1>8. CASE Sender
  <2>1. meters' = meters
    BY <1>8 DEF Sender, SenderStart, Measure, RecordSize, Publish
  <2>2. QED
    BY <1>2, <1>6, <1>8, <2>1
<1>9. ASSUME NEW a \in Admins, Admin(a)
      PROVE  /\ AgeSet' \subseteq AgeSet
             /\ \A d \in Clients : cpc'[d] = "insert" => cpc[d] = "insert" \/ AgeSize(d)
  <2>1. AgeSet' \subseteq AgeSet
    BY <1>2, <1>3, <1>9 DEF Admin, AdminContains, AdminErase, AdminEraseAll, AdminGetValues,
                            AdminListed
  <2>2. QED
    BY <1>6, <1>9, <2>1
<1>10. CASE Tick \/ UNCHANGED vars
  <2>1. meters' = meters
    BY <1>10 DEF Tick, vars
  <2>2. QED
    BY <1>2, <1>6, <1>10, <2>1
<1>11. QED
  BY <1>5, <1>7, <1>8, <1>9, <1>10 DEF Next

LEMMA AgeClientsOnly ==
  ASSUME IInv, [Next]_vars,
         \A c \in Clients : cpc[c] \in {"at", "size", "insert"} => c \in AgeClients
  PROVE  \A c \in Clients : cpc'[c] \in {"at", "size", "insert"} => c \in AgeClients
<1>1. cpc \in [Clients -> ClientPcs]
  BY DEF IInv, ThreadsTyped
<1>2. ASSUME NEW c \in Clients, Client(c)
      PROVE  \E p \in ClientPcs :
               /\ ClientGoes(c, p)
               /\ p \in {"at", "size", "insert"} => c \in AgeClients
  BY <1>2 DEF Client, Get, GetGaugeTtl, AgeContains, UsePinned, SetTtl, AgeAt, AgeSize, AgeInsert,
              Touch, Apply, Return, ClientPcs, ClientAt
<1>3. ASSUME NEW c \in Clients, Client(c)
      PROVE  \A d \in Clients : cpc'[d] \in {"at", "size", "insert"} => d \in AgeClients
  BY <1>1, <1>2, <1>3 DEF ClientGoes
<1>4. ASSUME Expirer \/ Sender \/ (\E a \in Admins : Admin(a)) \/ Tick \/ UNCHANGED vars
      PROVE  cpc' = cpc
  BY <1>4 DEF Expirer, ExpirerWake, ExpirerNow, ExpirerErase, Sender, SenderStart, Measure,
              RecordSize, Publish, Admin, AdminContains, AdminErase, AdminEraseAll,
              AdminGetValues, AdminListed, Tick, vars, clientVars
<1>5. QED
  BY <1>3, <1>4 DEF Next

LEMMA StepAgeInv ==
  ASSUME OneAgeClient, IInv, AgeInv, [Next]_vars
  PROVE  AgeInv'
<1> USE RegistryAssumption
<1>1. cpc \in [Clients -> ClientPcs] /\ meters \in [Keys -> Objs \cup {None}]
  BY DEF IInv, ThreadsTyped
<1>2. \A d \in Clients : cpc'[d] \in {"at", "size", "insert"} => d \in AgeClients
  BY AgeClientsOnly DEF AgeInv
<1>3. ASSUME NEW c \in Clients, AgeInsert(c)
      PROVE  AgeInv'
  <2>1. PICK o \in Objs : insert(c, ckey[c], 0, o)
    BY <1>3 DEF AgeInsert
  <2>2. AgeSet' \subseteq AgeSet \cup {o}
    BY <1>1, <2>1 DEF insert, AgeSet, Registered
  <2>3. c \in AgeClients /\ Cardinality(AgeSet) < AgeGaugeLimit
    BY <1>3 DEF AgeInsert, ClientAt, AgeInv
  <2>4. \A d \in Clients : cpc'[d] # "insert"
    <3>1. \A d \in Clients : cpc'[d] = IF d = c THEN "apply" ELSE cpc[d]
      BY <1>1, <1>3 DEF AgeInsert, ClientGoes
    <3>2. \A d \in Clients : cpc[d] = "insert" => d = c
      BY <2>3 DEF AgeInv, OneAgeClient
    <3>3. QED
      BY <3>1, <3>2
  <2>5. IsFiniteSet(AgeSet') /\ Cardinality(AgeSet') <= AgeGaugeLimit
    <3> DEFINE S == AgeSet
               T == AgeSet'
               U == S \cup {o}
    <3>1. IsFiniteSet(S) /\ Cardinality(S) < AgeGaugeLimit
      BY <2>3 DEF AgeInv
    <3>2. T \in SUBSET U
      BY <2>2
    <3> HIDE DEF S, T
    <3>3. IsFiniteSet(U) /\ (Cardinality(U) = Cardinality(S) \/ Cardinality(U) = Cardinality(S) + 1)
      BY <3>1, FS_AddElement
    <3> HIDE DEF U
    <3>4. IsFiniteSet(T) /\ Cardinality(T) <= Cardinality(U)
      BY <3>2, <3>3, FS_Subset
    <3>5. Cardinality(S) \in Nat /\ Cardinality(T) \in Nat /\ Cardinality(U) \in Nat
      BY <3>1, <3>3, <3>4, FS_CardinalityType
    <3>6. QED
      BY <3>1, <3>3, <3>4, <3>5 DEF T
  <2>6. QED
    BY <1>2, <2>4, <2>5 DEF AgeInv
<1>4. ASSUME AgeSet' \subseteq AgeSet,
             \A d \in Clients : cpc'[d] = "insert" => cpc[d] = "insert" \/ AgeSize(d)
      PROVE  AgeInv'
  <2>1. /\ IsFiniteSet(AgeSet') /\ Cardinality(AgeSet') <= AgeGaugeLimit
        /\ Cardinality(AgeSet) < AgeGaugeLimit => Cardinality(AgeSet') < AgeGaugeLimit
    BY <1>4, AgeSetShrinks
  <2>2. ASSUME NEW d \in Clients, cpc'[d] = "insert"
        PROVE  Cardinality(AgeSet) < AgeGaugeLimit
    <3>1. CASE cpc[d] = "insert"
      BY <3>1 DEF AgeInv
    <3>2. CASE AgeSize(d)
      BY <1>1, <2>2, <3>2 DEF AgeSize, AgeGaugeRoom, AgeSet, ClientGoes
    <3>3. QED
      BY <1>4, <2>2, <3>1, <3>2
  <2>3. QED
    BY <1>2, <2>1, <2>2 DEF AgeInv
<1>5. QED
  BY <1>3, <1>4, AgeFrame

\* The limit on age gauges holds although it is tested and used in different
\* critical sections, because a single thread creates age gauges.
THEOREM AgeGaugesLimited == ASSUME OneAgeClient PROVE Spec => []AgeGaugeLimitRespected
<1>1. Init => AgeInv
  BY InitAgeInv
<1>2. IInv /\ AgeInv /\ [Next]_vars => AgeInv'
  BY StepAgeInv
<1>3. AgeInv => AgeGaugeLimitRespected
  BY DEF AgeInv, AgeSet, AgeGaugeLimitRespected
<1>4. QED
  BY <1>1, <1>2, <1>3, RegistryInductive, PTL DEF Spec
=============================================================================
