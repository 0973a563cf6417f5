---------------------------- MODULE MeterProofs -----------------------------
(***************************************************************************)
(* The meters that several threads update without a lock.  add_double is   *)
(* exact as long as one thread adds, or nobody measures, for any deltas    *)
(* and any number of calls.  update_max is exact for any number of threads *)
(* and any values.  A Timer or DistributionSummary that no Measure has cut *)
(* a Record in holds in its four parts what has been recorded.  The three  *)
(* meters that are fed an absolute value never report more than it has     *)
(* grown, wherever a Set falls into a Measure.                             *)
(***************************************************************************)
EXTENDS CounterMeter, MaxGaugeMeter, DistMeter, MonotonicCounter, MonotonicCounterUint,
        MonotonicSampled, TotalsProofs, TLAPS

-----------------------------------------------------------------------------
(* Counter *)
\* What an adder has loaded, relative to the count now.  If nobody measures the
\* count only grows; if nobody else adds, it can only have been reset.
LoadsCurrent ==
  \A a \in Adders :
    /\ addPc[a] = "reload" =>
         \/ Measurers = {} /\ addCurrent[a] <= count
         \/ SingleAdder /\ (count = addCurrent[a] \/ count = 0)
    /\ addPc[a] = "cas" =>
         \/ Measurers = {} /\ addCurrent[a] <= addLoaded[a] /\ addLoaded[a] <= count
         \/ /\ SingleAdder
            /\ count = addLoaded[a] \/ count = 0
            /\ addLoaded[a] = addCurrent[a] \/ (addLoaded[a] = 0 /\ count = 0)

\* An adder on its way adds one of the deltas it may be called with.
DeltaGiven ==
  \A a \in Adders : addPc[a] # "idle" => addDelta[a] \in Deltas /\ addDelta[a] >= 0

CounterInv == CounterTypeOK /\ LoadsCurrent /\ CountConserved

\* The types of the counter and of the adders' local variables.
THEOREM CounterTypes == CounterSpec => []CounterTypeOK
<1>1. CounterInit => CounterTypeOK
  BY DEF CounterInit, CounterTypeOK
<1>2. CounterTypeOK /\ [CounterNext]_counterVars => CounterTypeOK'
  <2> SUFFICES ASSUME CounterTypeOK, [CounterNext]_counterVars
               PROVE  CounterTypeOK'
    OBVIOUS
  <2> USE CounterAssumption DEF CounterTypeOK
  <2>1. ASSUME NEW a \in Adders, NEW d \in Deltas, CallAdd(a, d)
        PROVE  CounterTypeOK'
    BY <2>1 DEF CallAdd
  <2>2. ASSUME NEW a \in Adders, AddLoad(a)
        PROVE  CounterTypeOK'
    BY <2>2 DEF AddLoad
  <2>3. ASSUME NEW a \in Adders, AddReload(a)
        PROVE  CounterTypeOK'
    BY <2>3 DEF AddReload
  <2>4. ASSUME NEW a \in Adders, AddSucceeds(a)
        PROVE  CounterTypeOK'
    BY <2>4 DEF AddSucceeds
  <2>5. ASSUME NEW a \in Adders, AddFails(a)
        PROVE  CounterTypeOK'
    BY <2>5 DEF AddFails
  <2>6. CASE CounterMeasure
    BY <2>6 DEF CounterMeasure
  <2>7. CASE UNCHANGED counterVars
    BY <2>7 DEF counterVars
  <2>8. QED
    BY <2>1, <2>2, <2>3, <2>4, <2>5, <2>6, <2>7 DEF CounterNext
<1>3. QED
  BY <1>1, <1>2, PTL DEF CounterSpec

\* One step of a disciplined use keeps the strengthened invariant.
LEMMA CounterInductive ==
  ASSUME Disciplined, CounterInv, CounterTypeOK', [CounterNext]_counterVars
  PROVE  CounterInv'
<1> USE DEF CounterInv, CountConserved
<1>1. ASSUME NEW a \in Adders, NEW d \in Deltas, CallAdd(a, d)
      PROVE  CounterInv'
  BY <1>1 DEF CallAdd, LoadsCurrent, CounterTypeOK
<1>2. ASSUME NEW a \in Adders, AddLoad(a)
      PROVE  CounterInv'
  BY <1>2 DEF AddLoad, LoadsCurrent, CounterTypeOK, Disciplined
<1>3. ASSUME NEW a \in Adders, AddReload(a)
      PROVE  CounterInv'
  BY <1>3 DEF AddReload, LoadsCurrent, CounterTypeOK, Disciplined
<1>4. ASSUME NEW a \in Adders, AddSucceeds(a)
      PROVE  CounterInv'
  <2>1. addLoaded[a] = count
    BY <1>4 DEF AddSucceeds, LoadsCurrent, CounterTypeOK
  <2>2. CountConserved'
    BY <1>4, <2>1 DEF AddSucceeds, CounterTypeOK
  <2>3. ASSUME NEW b \in Adders, b # a
        PROVE  Measurers = {} /\ ~SingleAdder
    BY <2>3 DEF Disciplined, SingleAdder
  <2>4. count' >= count
    BY <1>4, <2>1 DEF AddSucceeds, CounterTypeOK
  <2>5. LoadsCurrent'
    <3> SUFFICES ASSUME NEW b \in Adders, b # a, addPc[b] \in {"reload", "cas"}
                 PROVE  /\ addPc[b] = "reload" => addCurrent[b] <= count'
                        /\ addPc[b] = "cas" => addCurrent[b] <= addLoaded[b] /\ addLoaded[b] <= count'
      BY <1>4, <2>3 DEF AddSucceeds, LoadsCurrent, CounterTypeOK
    <3>1. QED
      BY <2>3, <2>4 DEF LoadsCurrent, CounterTypeOK
  <2>6. QED
    BY <2>2, <2>5
<1>5. ASSUME NEW a \in Adders, AddFails(a)
      PROVE  CounterInv'
  BY <1>5 DEF AddFails, LoadsCurrent, CounterTypeOK
<1>6. CASE CounterMeasure
  <2>1. SingleAdder /\ Measurers # {}
    BY <1>6 DEF CounterMeasure, Disciplined
  <2>2. QED
    BY <1>6, <2>1 DEF CounterMeasure, LoadsCurrent, CounterTypeOK
<1>7. CASE UNCHANGED counterVars
  BY <1>7 DEF counterVars, LoadsCurrent, CounterTypeOK
<1>8. QED
  BY <1>1, <1>2, <1>3, <1>4, <1>5, <1>6, <1>7 DEF CounterNext

\* Nothing added is lost and nothing is reported twice, provided the counter is
\* used as the daemon uses it: one thread adds, or nobody measures meanwhile.
THEOREM CounterExact == ASSUME Disciplined PROVE CounterSpec => []CountConserved
<1>1. CounterInit => CounterInv
  BY DEF CounterInit, CounterInv, CounterTypeOK, LoadsCurrent, CountConserved
<1>2. CounterInv /\ CounterTypeOK' /\ [CounterNext]_counterVars => CounterInv'
  BY CounterInductive
<1>3. CounterInv => CountConserved
  BY DEF CounterInv
<1>4. QED
  BY <1>1, <1>2, <1>3, CounterTypes, PTL DEF CounterSpec

\* Under the same discipline the loop is one atomic addition: every step of the
\* counter is a step of FetchAdd or leaves its variables alone.
THEOREM CounterIsFetchAdd == ASSUME Disciplined PROVE CounterSpec => ImplementsFetchAdd
<1>1. CounterInit => CounterInv /\ DeltaGiven /\ Abstract!Init
  BY DEF CounterInit, CounterInv, CounterTypeOK, LoadsCurrent, CountConserved, DeltaGiven, Abstract!Init
<1>2. CounterInv /\ CounterTypeOK' /\ [CounterNext]_counterVars => CounterInv'
  BY CounterInductive
<1>3. CounterTypeOK /\ DeltaGiven /\ [CounterNext]_counterVars => DeltaGiven'
  <2> SUFFICES ASSUME CounterTypeOK, DeltaGiven, [CounterNext]_counterVars
               PROVE  DeltaGiven'
    OBVIOUS
  <2> USE DEF DeltaGiven, CounterTypeOK
  <2>1. ASSUME NEW a \in Adders, NEW d \in Deltas, CallAdd(a, d)
        PROVE  DeltaGiven'
    BY <2>1, CounterAssumption DEF CallAdd
  <2>2. ASSUME NEW a \in Adders, AddLoad(a) \/ AddReload(a) \/ AddSucceeds(a) \/ AddFails(a)
        PROVE  DeltaGiven'
    BY <2>2 DEF AddLoad, AddReload, AddSucceeds, AddFails
  <2>3. CASE CounterMeasure \/ UNCHANGED counterVars
    BY <2>3 DEF CounterMeasure, counterVars
  <2>4. QED
    BY <2>1, <2>2, <2>3 DEF CounterNext
<1>4. CounterInv /\ DeltaGiven /\ [CounterNext]_counterVars => [Abstract!Add \/ Abstract!Measure]_<<count, reported>>
  <2> SUFFICES ASSUME CounterInv, DeltaGiven, [CounterNext]_counterVars
               PROVE  [Abstract!Add \/ Abstract!Measure]_<<count, reported>>
    OBVIOUS
  <2>1. ASSUME NEW a \in Adders, AddSucceeds(a)
        PROVE  Abstract!Add
    <3>1. addLoaded[a] = count
      BY <2>1 DEF AddSucceeds, CounterInv, LoadsCurrent, CounterTypeOK
    <3>2. addDelta[a] \in Deltas /\ addDelta[a] >= 0 /\ count' = count + addDelta[a] /\ reported' = reported
      BY <2>1, <3>1 DEF AddSucceeds, DeltaGiven
    <3>3. QED
      BY <3>2 DEF Abstract!Add
  <2>2. ASSUME NEW a \in Adders, NEW d \in Deltas, CallAdd(a, d)
        PROVE  UNCHANGED <<count, reported>>
    BY <2>2 DEF CallAdd
  <2>3. ASSUME NEW a \in Adders, AddLoad(a) \/ AddReload(a) \/ AddFails(a)
        PROVE  UNCHANGED <<count, reported>>
    BY <2>3 DEF AddLoad, AddReload, AddFails
  <2>4. CASE CounterMeasure
    BY <2>4 DEF CounterMeasure, Abstract!Measure
  <2>5. CASE UNCHANGED counterVars
    BY <2>5 DEF counterVars
  <2>6. QED
    BY <2>1, <2>2, <2>3, <2>4, <2>5 DEF CounterNext
<1>5. QED
  BY <1>1, <1>2, <1>3, <1>4, CounterTypes, PTL DEF CounterSpec, ImplementsFetchAdd, Abstract!Spec

-----------------------------------------------------------------------------
(* MaxGauge *)

\* No value is below the one that stands for "none".
ArgsAboveMin == \A u \in Updaters : upArg[u] >= kMinValue

MaxGaugeInv == MaxGaugeTypeOK /\ ArgsAboveMin /\ ValueIsTheMaximum

\* The maximum, the values it stands for and the updaters' local variables keep
\* the invariant of which ValueIsTheMaximum is a part.
THEOREM MaxGaugeInductive == MaxGaugeSpec => []MaxGaugeInv
<1>1. MaxGaugeInit => MaxGaugeInv
  BY MaxGaugeAssumption DEF MaxGaugeInit, MaxGaugeInv, MaxGaugeTypeOK, ArgsAboveMin, ValueIsTheMaximum
<1>2. MaxGaugeInv /\ [MaxGaugeNext]_maxGaugeVars => MaxGaugeInv'
  <2> SUFFICES ASSUME MaxGaugeInv, [MaxGaugeNext]_maxGaugeVars
               PROVE  MaxGaugeInv'
    OBVIOUS
  <2> USE MaxGaugeAssumption DEF MaxGaugeInv, MaxGaugeTypeOK, ArgsAboveMin, ValueIsTheMaximum
  <2>1. ASSUME NEW u \in Updaters, NEW v \in Values, CallUpdate(u, v)
        PROVE  MaxGaugeInv'
    BY <2>1 DEF CallUpdate
  <2>2. ASSUME NEW u \in Updaters, UpLoad(u)
        PROVE  MaxGaugeInv'
    <3>1. CASE upArg[u] > maxValue
      BY <2>2, <3>1 DEF UpLoad
    <3>2. CASE ~(upArg[u] > maxValue)
      <4>1. upArg[u] \in Int /\ upArg[u] <= maxValue /\ owed' = owed \cup {upArg[u]} /\ maxValue' = maxValue
        BY <2>2, <3>2 DEF UpLoad
      <4>2. ValueIsTheMaximum'
        BY <4>1
      <4>3. MaxGaugeTypeOK' /\ ArgsAboveMin'
        BY <2>2, <3>2, <4>1 DEF UpLoad
      <4>4. QED
        BY <4>2, <4>3
    <3>3. QED
      BY <3>1, <3>2
  <2>3. ASSUME NEW u \in Updaters, UpSucceeds(u)
        PROVE  MaxGaugeInv'
    <3>1. upArg[u] \in Int /\ upArg[u] > maxValue /\ maxValue' = upArg[u] /\ owed' = owed \cup {upArg[u]}
      BY <2>3 DEF UpSucceeds
    <3>2. ValueIsTheMaximum'
      BY <3>1
    <3>3. MaxGaugeTypeOK' /\ ArgsAboveMin'
      BY <2>3, <3>1 DEF UpSucceeds
    <3>4. QED
      BY <3>2, <3>3
  <2>4. ASSUME NEW u \in Updaters, UpFails(u)
        PROVE  MaxGaugeInv'
    BY <2>4 DEF UpFails
  <2>5. CASE MaxGaugeMeasure
    BY <2>5 DEF MaxGaugeMeasure
  <2>6. CASE UNCHANGED maxGaugeVars
    BY <2>6 DEF maxGaugeVars
  <2>7. QED
    BY <2>1, <2>2, <2>3, <2>4, <2>5, <2>6 DEF MaxGaugeNext
<1>3. QED
  BY <1>1, <1>2, PTL DEF MaxGaugeSpec

\* For every set of threads and values: what the next Measure reports is the
\* greatest value recorded since the last one.
THEOREM MaxGaugeExact == MaxGaugeSpec => []ValueIsTheMaximum
<1>1. MaxGaugeInv => ValueIsTheMaximum
  BY DEF MaxGaugeInv
<1>2. QED
  BY <1>1, MaxGaugeInductive, PTL

-----------------------------------------------------------------------------
(* Timer and DistributionSummary *)

SumParts == {"count", "total", "totalSq"}

\* Where a recorder is that has still to update the part p, and by how much.
Ahead(p) ==
  CASE p = "count"   -> {"count"}
    [] p = "total"   -> {"count", "total"}
    [] p = "totalSq" -> {"count", "total", "totalSq"}

Weight(p, v) ==
  CASE p = "count"   -> 1
    [] p = "total"   -> v
    [] p = "totalSq" -> v * v

Weights(pc, am, p) == [r \in Recorders |-> IF pc[r] \in Ahead(p) THEN Weight(p, am[r]) ELSE 0]

\* What a sum holds and what the recorders on their way will add to it make up
\* what has been recorded.
SumsExact == \A p \in SumParts : since[p] = parts[p] + Total(Weights(recPc, recAmount, p))

MaxExact ==
  /\ parts["max"] <= since["max"]
  /\ \A r \in Recorders : recPc[r] # "idle" => recAmount[r] <= since["max"]
  /\ \/ since["max"] = parts["max"]
     \/ \E r \in Recorders : recPc[r] # "idle" /\ recAmount[r] = since["max"]

\* The parts a Measure that is about to take the part p has taken.
Taken(p) ==
  CASE p = "count"   -> {}
    [] p = "total"   -> {"count"}
    [] p = "totalSq" -> {"count", "total"}
    [] p = "max"     -> {"count", "total", "totalSq"}

BetweenMeasures == SumsExact /\ MaxExact /\ (since["count"] = 0 => since = Nothing)

WhileMeasuring == ~Recording /\ since = Nothing /\ \A p \in Taken(distPc) : parts[p] = 0

DistInv ==
  /\ DistTypeOK
  /\ distPc # "count"
  /\ distPc = "idle" /\ mixed = FALSE => BetweenMeasures
  /\ distPc # "idle" /\ mixed = FALSE => WhileMeasuring

LEMMA WeightsType ==
  ASSUME NEW pc, NEW am \in [Recorders -> Nat], NEW p \in SumParts
  PROVE  Weights(pc, am, p) \in [Recorders -> Nat] /\ Total(Weights(pc, am, p)) \in Nat
<1>1. \A v \in Nat : Weight(p, v) \in Nat
  BY DEF Weight, SumParts
<1> DEFINE w == Weights(pc, am, p)
<1>2. w \in [Recorders -> Nat]
  BY <1>1 DEF Weights
<1> HIDE DEF w
<1>3. Total(w) \in Nat
  BY <1>2, TallyFinite, DistAssumption
<1> QED
  BY <1>2, <1>3 DEF w

\* One recorder moves.
LEMMA WeightsChange ==
  ASSUME NEW p \in SumParts, NEW x \in Recorders,
         NEW pc, NEW am \in [Recorders -> Nat], NEW pc2, NEW am2 \in [Recorders -> Nat],
         \A r \in Recorders \ {x} : pc2[r] = pc[r] /\ am2[r] = am[r]
  PROVE  Total(Weights(pc2, am2, p))
           = Total(Weights(pc, am, p)) - Weights(pc, am, p)[x] + Weights(pc2, am2, p)[x]
<1> DEFINE f == Weights(pc, am, p)
           g == Weights(pc2, am2, p)
<1>1. f \in [Recorders -> Nat] /\ g \in [Recorders -> Nat]
  BY WeightsType
<1>2. \A r \in Recorders \ {x} : g[r] = f[r]
  BY DEF Weights
<1> HIDE DEF f, g
<1>3. Total(g) = Total(f) - f[x] + g[x]
  BY <1>1, <1>2, TotalExcept, DistAssumption
<1> QED
  BY <1>3 DEF f, g

LEMMA NobodyAhead ==
  ASSUME NEW p \in SumParts, NEW pc, NEW am, \A r \in Recorders : pc[r] = "idle"
  PROVE  Total(Weights(pc, am, p)) = 0
<1>1. "idle" \notin Ahead(p)
  BY DEF Ahead, SumParts
<1>2. \A r \in Recorders : Weights(pc, am, p)[r] = 0
  BY <1>1 DEF Weights
<1>3. DOMAIN Weights(pc, am, p) = Recorders
  BY DEF Weights
<1> DEFINE w == Weights(pc, am, p)
<1> HIDE DEF w
<1>4. Tally(w) = {}
  BY <1>2, <1>3, TallyMember DEF w
<1> QED
  BY <1>4, FS_EmptySet DEF Total, w

\* Nobody is inside: what the parts hold is what was recorded.
LEMMA QuietParts ==
  ASSUME DistTypeOK, BetweenMeasures, ~Recording
  PROVE  parts = since
<1>1. \A r \in Recorders : recPc[r] = "idle"
  BY DEF Recording
<1>2. \A p \in SumParts : since[p] = parts[p]
  BY <1>1, NobodyAhead DEF BetweenMeasures, SumsExact, DistTypeOK, Parts, SumParts
<1>3. since["max"] = parts["max"]
  BY <1>1 DEF BetweenMeasures, MaxExact
<1> QED
  BY <1>2, <1>3 DEF DistTypeOK, Parts, SumParts

\* The types of the meter's parts and of the recorders' local variables.
THEOREM DistTypes == DistSpec => []DistTypeOK
<1>1. DistInit => DistTypeOK
  <2> SUFFICES ASSUME DistInit PROVE DistTypeOK
    OBVIOUS
  <2>1. Nothing \in [Parts -> Nat]
    BY DEF Nothing
  <2>2. mixed \in BOOLEAN
    BY DEF DistInit
  <2> QED
    BY <2>1, <2>2 DEF DistInit, DistTypeOK
<1>2. DistTypeOK /\ [DistNext]_distVars => DistTypeOK'
  <2> SUFFICES ASSUME DistTypeOK, [DistNext]_distVars PROVE DistTypeOK'
    OBVIOUS
  <2>0. \A p \in Parts : /\ NextPart(p) \in Parts \cup {"idle"}
                         /\ \A n, v \in Nat : Plus(p, n, v) \in Nat
    BY DEF NextPart, Plus, Parts
  <2>1. ASSUME NEW r \in Recorders, NEW v \in Amounts, CallRecord(r, v) PROVE DistTypeOK'
    <3>1. CASE v >= 0
      <4>1. v \in Nat
        BY <3>1, DistAssumption
      <4>2. since' \in [Parts -> Nat]
        <5>1. since' = [p \in Parts |-> Plus(p, since[p], v)]
          BY <2>1, <3>1 DEF CallRecord
        <5>2. \A p \in Parts : Plus(p, since[p], v) \in Nat
          BY <2>0, <4>1 DEF DistTypeOK
        <5> QED
          BY <5>1, <5>2
      <4>3. mixed' \in BOOLEAN
        BY <2>1, <3>1 DEF CallRecord
      <4> QED
        BY <2>1, <3>1, <4>1, <4>2, <4>3 DEF CallRecord, DistTypeOK, Parts
    <3>2. CASE ~(v >= 0)
      BY <2>1, <3>2 DEF CallRecord, DistTypeOK
    <3> QED
      BY <3>1, <3>2
  <2>2. ASSUME NEW r \in Recorders, RecordPart(r) PROVE DistTypeOK'
    <3>1. recPc[r] \in Parts /\ recAmount[r] \in Nat /\ parts[recPc[r]] \in Nat
      BY <2>2 DEF RecordPart, DistTypeOK
    <3>2. Plus(recPc[r], parts[recPc[r]], recAmount[r]) \in Nat /\ NextPart(recPc[r]) \in Parts \cup {"idle"}
      BY <2>0, <3>1
    <3>3. parts' \in [Parts -> Nat] /\ recPc' \in [Recorders -> Parts \cup {"idle"}]
      BY <2>2, <3>2 DEF RecordPart, DistTypeOK
    <3>4. recAmount' \in [Recorders -> Nat]
      BY <2>2, <3>1 DEF RecordPart, DistTypeOK
    <3> QED
      BY <2>2, <3>3, <3>4 DEF RecordPart, DistTypeOK
  <2>3. CASE MeasureCount
    <3>1. distPc' \in Parts \cup {"idle"} /\ mixed' \in BOOLEAN
      BY <2>3 DEF MeasureCount, Parts
    <3>2. parts' \in [Parts -> Nat] /\ since' \in [Parts -> Nat]
      BY <2>3 DEF MeasureCount, DistTypeOK, Nothing
    <3> QED
      BY <2>3, <3>1, <3>2 DEF MeasureCount, DistTypeOK
  <2>4. CASE MeasurePart
    BY <2>0, <2>4 DEF MeasurePart, DistTypeOK
  <2>5. CASE UNCHANGED distVars
    BY <2>5 DEF distVars, DistTypeOK
  <2> QED
    BY <2>1, <2>2, <2>3, <2>4, <2>5 DEF DistNext
<1> QED
  BY <1>1, <1>2, PTL DEF DistSpec
LEMMA CallRecordInv ==
  ASSUME DistInv, DistTypeOK', NEW r \in Recorders, NEW v \in Amounts, CallRecord(r, v)
  PROVE  DistInv'
<1>1. CASE ~(v >= 0)
  <2>1. UNCHANGED <<parts, recPc, recAmount, distPc, since, mixed>>
    BY <1>1 DEF CallRecord
  <2> QED
    BY <2>1 DEF DistInv, BetweenMeasures, SumsExact, MaxExact, WhileMeasuring, Recording
<1>2. CASE v >= 0
  <2>1. v \in Nat
    BY <1>2, DistAssumption
  <2>2. /\ recPc[r] = "idle" /\ recPc' = [recPc EXCEPT ![r] = "count"]
        /\ recAmount' = [recAmount EXCEPT ![r] = v]
        /\ since' = [p \in Parts |-> Plus(p, since[p], v)]
        /\ UNCHANGED <<parts, distPc>>
    BY <1>2 DEF CallRecord
  <2>3. mixed' = FALSE => mixed = FALSE /\ distPc = "idle"
    BY <1>2 DEF CallRecord, DistInv, DistTypeOK
  <2> SUFFICES ASSUME mixed = FALSE, distPc = "idle" PROVE BetweenMeasures'
    BY <2>2, <2>3 DEF DistInv
  <2>4. BetweenMeasures /\ DistTypeOK
    BY DEF DistInv
  <2>5. /\ recPc' [r] = "count" /\ recAmount'[r] = v
        /\ \A x \in Recorders \ {r} : recPc'[x] = recPc[x] /\ recAmount'[x] = recAmount[x]
        /\ recAmount \in [Recorders -> Nat] /\ recAmount' \in [Recorders -> Nat]
    BY <2>2, <2>4 DEF DistTypeOK
  <2>6. ASSUME NEW p \in SumParts
        PROVE  since'[p] = parts'[p] + Total(Weights(recPc', recAmount', p))
    <3>1. since[p] = parts[p] + Total(Weights(recPc, recAmount, p))
      BY <2>4 DEF BetweenMeasures, SumsExact
    <3>2. Total(Weights(recPc', recAmount', p))
            = Total(Weights(recPc, recAmount, p)) - Weights(recPc, recAmount, p)[r]
                + Weights(recPc', recAmount', p)[r]
      BY <2>5, WeightsChange
    <3>3. Weights(recPc, recAmount, p)[r] = 0 /\ Weights(recPc', recAmount', p)[r] = Weight(p, v)
      BY <2>2, <2>5 DEF Weights, Ahead, SumParts
    <3>4. since'[p] = since[p] + Weight(p, v) /\ Weight(p, v) \in Nat
      BY <2>1, <2>2 DEF Plus, Weight, SumParts, Parts
    <3>5. Total(Weights(recPc, recAmount, p)) \in Nat /\ parts[p] \in Nat /\ since[p] \in Nat
      BY <2>4, <2>5, WeightsType DEF DistTypeOK, SumParts, Parts
    <3> QED
      BY <2>2, <3>1, <3>2, <3>3, <3>4, <3>5
  <2>7. MaxExact'
    <3>1. since'["max"] = IF v > since["max"] THEN v ELSE since["max"]
      BY <2>2 DEF Plus, Parts
    <3>2. since["max"] \in Nat /\ parts["max"] \in Nat
      BY <2>4 DEF DistTypeOK, Parts
    <3>3. since'["max"] >= since["max"] /\ since'["max"] >= v
          /\ (since'["max"] = v \/ since'["max"] = since["max"]) /\ since'["max"] \in Nat
      BY <2>1, <3>1, <3>2
    <3>4. parts'["max"] <= since'["max"]
      BY <2>2, <2>4, <3>2, <3>3 DEF BetweenMeasures, MaxExact
    <3>5. ASSUME NEW x \in Recorders, recPc'[x] # "idle" PROVE recAmount'[x] <= since'["max"]
      <4>1. CASE x = r
        BY <2>5, <3>3, <4>1
      <4>2. CASE x # r
        BY <2>4, <2>5, <3>2, <3>3, <3>5, <4>2 DEF BetweenMeasures, MaxExact
      <4> QED
        BY <4>1, <4>2
    <3>6. \/ since'["max"] = parts'["max"]
          \/ \E x \in Recorders : recPc'[x] # "idle" /\ recAmount'[x] = since'["max"]
      <4>1. CASE since'["max"] = v
        BY <2>5, <4>1
      <4>2. CASE since'["max"] = since["max"]
        <5>1. CASE since["max"] = parts["max"]
          BY <2>2, <4>2, <5>1
        <5>2. ASSUME NEW x \in Recorders, recPc[x] # "idle", recAmount[x] = since["max"]
              PROVE  recPc'[x] # "idle" /\ recAmount'[x] = since'["max"]
          BY <2>2, <2>5, <4>2, <5>2
        <5> QED
          BY <2>4, <5>1, <5>2 DEF BetweenMeasures, MaxExact
      <4> QED
        BY <3>3, <4>1, <4>2
    <3> QED
      BY <3>4, <3>5, <3>6 DEF MaxExact
  <2>8. since'["count"] # 0
    BY <2>2, <2>4 DEF Plus, Parts, DistTypeOK
  <2> QED
    BY <2>6, <2>7, <2>8 DEF BetweenMeasures, SumsExact
<1> QED
  BY <1>1, <1>2

LEMMA RecordPartInv ==
  ASSUME DistInv, DistTypeOK', NEW r \in Recorders, RecordPart(r)
  PROVE  DistInv'
<1>1. Recording
  BY DEF RecordPart, Recording
<1>2. /\ UNCHANGED <<distPc, records, since, mixed>> /\ recPc[r] # "idle"
      /\ parts' = [parts EXCEPT ![recPc[r]] = Plus(recPc[r], @, recAmount[r])]
      /\ recPc' = [recPc EXCEPT ![r] = NextPart(@)]
      /\ recAmount' = [recAmount EXCEPT ![r] = IF recPc[r] = "max" THEN 0 ELSE @]
  BY DEF RecordPart
<1> SUFFICES ASSUME mixed = FALSE, distPc = "idle" PROVE BetweenMeasures'
  BY <1>1, <1>2 DEF DistInv, WhileMeasuring
<1>3. BetweenMeasures /\ DistTypeOK
  BY DEF DistInv
<1>4. PICK q \in Parts, v \in Nat : q = recPc[r] /\ v = recAmount[r]
  BY <1>2, <1>3 DEF DistTypeOK
<1>5. /\ parts'[q] = Plus(q, parts[q], v) /\ \A p \in Parts \ {q} : parts'[p] = parts[p]
      /\ recPc'[r] = NextPart(q) /\ (q # "max" => recAmount'[r] = v)
      /\ \A x \in Recorders \ {r} : recPc'[x] = recPc[x] /\ recAmount'[x] = recAmount[x]
      /\ recAmount \in [Recorders -> Nat] /\ recAmount' \in [Recorders -> Nat]
  BY <1>2, <1>3, <1>4 DEF DistTypeOK
<1>6. ASSUME NEW p \in SumParts
      PROVE  since'[p] = parts'[p] + Total(Weights(recPc', recAmount', p))
  <2>1. since[p] = parts[p] + Total(Weights(recPc, recAmount, p))
    BY <1>3 DEF BetweenMeasures, SumsExact
  <2>2. Total(Weights(recPc', recAmount', p))
          = Total(Weights(recPc, recAmount, p)) - Weights(recPc, recAmount, p)[r]
              + Weights(recPc', recAmount', p)[r]
    BY <1>5, WeightsChange
  <2>3. Total(Weights(recPc, recAmount, p)) \in Nat /\ parts[p] \in Nat /\ since[p] \in Nat /\ p \in Parts
    BY <1>3, <1>5, WeightsType DEF DistTypeOK, SumParts, Parts
  <2>4. CASE p = q
    <3>1. Weights(recPc, recAmount, p)[r] = Weight(p, v)
      BY <1>4, <2>4 DEF Weights, Ahead, SumParts
    <3>2. Weights(recPc', recAmount', p)[r] = 0
      BY <1>5, <2>4 DEF Weights, Ahead, NextPart, SumParts
    <3>3. parts'[p] = parts[p] + Weight(p, v) /\ Weight(p, v) \in Nat
      BY <1>5, <2>3, <2>4 DEF Plus, Weight, SumParts
    <3> QED
      BY <1>2, <2>1, <2>2, <2>3, <3>1, <3>2, <3>3
  <2>5. CASE p # q
    <3>1. Weights(recPc, recAmount, p)[r] = Weights(recPc', recAmount', p)[r]
          /\ Weights(recPc, recAmount, p)[r] \in Nat
      <4>1. q \in Ahead(p) <=> NextPart(q) \in Ahead(p)
        BY <2>5 DEF Ahead, NextPart, SumParts, Parts
      <4>2. q \in Ahead(p) => q # "max"
        BY DEF Ahead, SumParts
      <4>3. Weights(recPc, recAmount, p)[r] \in Nat
        BY <1>5, WeightsType
      <4> QED
        BY <1>4, <1>5, <4>1, <4>2, <4>3 DEF Weights
    <3>2. parts'[p] = parts[p]
      BY <1>5, <2>3, <2>5
    <3> QED
      BY <1>2, <2>1, <2>2, <2>3, <3>1, <3>2
  <2> QED
    BY <2>4, <2>5
<1>7. MaxExact'
  <2>1. /\ parts["max"] <= since["max"] /\ v <= since["max"]
        /\ parts["max"] \in Nat /\ since["max"] \in Nat /\ since' = since
    BY <1>2, <1>3, <1>4 DEF BetweenMeasures, MaxExact, DistTypeOK, Parts
  <2>2. CASE q = "max"
    <3>1. parts'["max"] = (IF v > parts["max"] THEN v ELSE parts["max"]) /\ recPc'[r] = "idle"
      BY <1>5, <2>2 DEF Plus, NextPart
    <3>2. parts'["max"] \in Nat /\ parts'["max"] >= v /\ parts'["max"] >= parts["max"]
          /\ parts'["max"] <= since["max"]
      BY <2>1, <3>1
    <3>3. \A x \in Recorders : recPc'[x] # "idle" => recAmount'[x] <= since["max"]
      BY <1>3, <1>5, <3>1 DEF BetweenMeasures, MaxExact
    <3>4. \/ since["max"] = parts'["max"]
          \/ \E x \in Recorders : recPc'[x] # "idle" /\ recAmount'[x] = since["max"]
      <4>1. CASE since["max"] = parts["max"] \/ since["max"] = v
        BY <2>1, <3>2, <4>1
      <4>2. ASSUME NEW x \in Recorders, recPc[x] # "idle", recAmount[x] = since["max"], x # r
            PROVE  recPc'[x] # "idle" /\ recAmount'[x] = since["max"]
        BY <1>5, <4>2
      <4> QED
        BY <1>3, <1>4, <4>1, <4>2 DEF BetweenMeasures, MaxExact
    <3> QED
      BY <2>1, <3>2, <3>3, <3>4 DEF MaxExact
  <2>3. CASE q # "max"
    <3>1. parts'["max"] = parts["max"] /\ recPc'[r] # "idle" /\ recAmount'[r] = v
      BY <1>5, <2>3 DEF Parts, NextPart
    <3>2. \A x \in Recorders : recAmount'[x] = recAmount[x] /\ (recPc'[x] # "idle" <=> recPc[x] # "idle")
      BY <1>2, <1>4, <1>5, <3>1
    <3> QED
      BY <1>3, <2>1, <3>1, <3>2 DEF BetweenMeasures, MaxExact
  <2> QED
    BY <2>2, <2>3
<1> QED
  BY <1>2, <1>3, <1>6, <1>7 DEF BetweenMeasures, SumsExact

LEMMA MeasureInv ==
  ASSUME DistInv, DistTypeOK', MeasureCount \/ MeasurePart
  PROVE  DistInv'
<1>1. CASE MeasureCount
  <2>1. /\ distPc = "idle" /\ distPc' = (IF parts["count"] = 0 THEN "idle" ELSE "total")
        /\ parts' = [parts EXCEPT !["count"] = 0] /\ since' = Nothing
        /\ UNCHANGED <<recPc, recAmount>>
    BY <1>1 DEF MeasureCount
  <2>2. mixed' = FALSE => ~Recording /\ (mixed = FALSE \/ parts["count"] # 0)
    BY <1>1 DEF MeasureCount, DistInv, DistTypeOK
  <2>3. distPc' # "count"
    BY <2>1
  <2> SUFFICES ASSUME ~Recording, mixed = FALSE \/ parts["count"] # 0
               PROVE  IF parts["count"] = 0 THEN BetweenMeasures' ELSE WhileMeasuring'
    BY <2>1, <2>2, <2>3 DEF DistInv
  <2>4. CASE parts["count"] = 0
    <3>1. DistTypeOK /\ BetweenMeasures
      BY <2>1, <2>4 DEF DistInv
    <3>2. parts = since
      BY <3>1, QuietParts
    <3>3. since = Nothing
      BY <2>4, <3>1, <3>2 DEF BetweenMeasures
    <3>4. parts' = parts /\ since' = since
      BY <2>1, <2>4, <3>1, <3>3 DEF DistTypeOK, Parts
    <3>5. BetweenMeasures'
      BY <2>1, <3>1, <3>4 DEF BetweenMeasures, SumsExact, MaxExact
    <3> QED
      BY <2>4, <3>5
  <2>5. CASE parts["count"] # 0
    <3>1. ~Recording'
      BY <2>1 DEF Recording
    <3>2. distPc' = "total" /\ parts'["count"] = 0
      BY <2>1, <2>5 DEF DistInv, DistTypeOK, Parts
    <3> QED
      BY <2>1, <2>5, <3>1, <3>2 DEF WhileMeasuring, Taken
  <2> QED
    BY <2>4, <2>5
<1>2. CASE MeasurePart
  <2>1. /\ distPc # "idle" /\ parts' = [parts EXCEPT ![distPc] = 0] /\ distPc' = NextPart(distPc)
        /\ UNCHANGED <<recPc, recAmount, since, mixed>>
    BY <1>2 DEF MeasurePart
  <2>2. distPc \in {"total", "totalSq", "max"} /\ DistTypeOK
    BY <2>1 DEF DistInv, DistTypeOK, Parts
  <2>3. distPc' # "count"
    BY <2>1, <2>2 DEF NextPart
  <2> SUFFICES ASSUME mixed = FALSE
               PROVE  IF distPc' = "idle" THEN BetweenMeasures' ELSE WhileMeasuring'
    BY <2>1, <2>3 DEF DistInv
  <2>4. ~Recording /\ ~Recording' /\ since = Nothing /\ since' = Nothing
        /\ \A p \in Taken(distPc) : parts[p] = 0
    BY <2>1 DEF DistInv, WhileMeasuring, Recording
  <2>5. \A p \in Taken(distPc) \cup {distPc} : parts'[p] = 0
    BY <2>1, <2>2, <2>4 DEF Taken, DistTypeOK, Parts
  <2>6. CASE distPc = "max"
    <3>1. \A p \in Parts : parts'[p] = 0 /\ since'[p] = 0
      BY <2>4, <2>5, <2>6 DEF Taken, Parts, Nothing
    <3>2. \A x \in Recorders : recPc'[x] = "idle"
      BY <2>4 DEF Recording
    <3>3. \A p \in SumParts : Total(Weights(recPc', recAmount', p)) = 0
      BY <3>2, NobodyAhead
    <3>4. SumsExact'
      BY <3>1, <3>3 DEF SumsExact, SumParts, Parts
    <3>5. MaxExact'
      BY <3>1, <3>2 DEF MaxExact, Parts
    <3> QED
      BY <2>1, <2>4, <2>6, <3>4, <3>5 DEF BetweenMeasures, NextPart
  <2>7. CASE distPc # "max"
    <3>1. distPc' # "idle" /\ Taken(distPc') = Taken(distPc) \cup {distPc}
      BY <2>1, <2>2, <2>7 DEF NextPart, Taken
    <3> QED
      BY <2>4, <2>5, <3>1 DEF WhileMeasuring
  <2> QED
    BY <2>6, <2>7
<1> QED
  BY <1>1, <1>2

\* The sums a Timer or DistributionSummary holds and the updates under way make
\* up what was recorded since the last Measure, until a Measure cuts a Record in two.
THEOREM DistInductive == DistSpec => []DistInv
<1>1. DistInit => DistInv
  <2> SUFFICES ASSUME DistInit PROVE DistInv
    OBVIOUS
  <2>1. DistTypeOK
    <3>1. Nothing \in [Parts -> Nat]
      BY DEF Nothing
    <3>2. mixed \in BOOLEAN
      BY DEF DistInit
    <3> QED
      BY <3>1, <3>2 DEF DistInit, DistTypeOK
  <2>2. SumsExact
    BY NobodyAhead DEF DistInit, SumsExact, Nothing, SumParts, Parts
  <2>3. MaxExact
    BY DEF DistInit, MaxExact, Nothing, Parts
  <2> QED
    BY <2>1, <2>2, <2>3 DEF DistInv, BetweenMeasures, DistInit
<1>2. DistInv /\ DistTypeOK' /\ [DistNext]_distVars => DistInv'
  <2> SUFFICES ASSUME DistInv, DistTypeOK', [DistNext]_distVars PROVE DistInv'
    OBVIOUS
  <2>1. CASE UNCHANGED distVars
    BY <2>1 DEF distVars, DistInv, BetweenMeasures, SumsExact, MaxExact, WhileMeasuring, Recording
  <2> QED
    BY <2>1, CallRecordInv, RecordPartInv, MeasureInv DEF DistNext
<1> QED
  BY <1>1, <1>2, DistTypes, PTL DEF DistSpec

\* When nobody is inside the meter, and no Measure has cut a Record in two since
\* the last clean one, the four parts describe the same amounts.
THEOREM DistExact == DistSpec => []QuietIsExact
<1>1. DistInv => QuietIsExact
  <2> SUFFICES ASSUME DistInv, distPc = "idle", ~Recording, ~mixed PROVE parts = since
    BY DEF QuietIsExact
  <2>1. mixed = FALSE
    BY DEF DistInv, DistTypeOK
  <2> QED
    BY <2>1, QuietParts DEF DistInv
<1> QED
  BY <1>1, DistInductive, PTL

-----------------------------------------------------------------------------
(* MonotonicCounter *)

\* While Measure holds the second load, growth since that load is still to come.
Bounded ==
  /\ monoPc = "idle" => monoTotal + Positive(Minus(monoValue, monoPrev)) <= monoGrown
  /\ monoPc = "reload" => monoTotal + Positive(monoDelta) <= monoGrown
  /\ monoPc = "store" => monoTotal + Positive(monoDelta) + Positive(Minus(monoValue, monoAgain)) <= monoGrown

\* Without a previous value there is no delta and nothing was reported; a second
\* load that found nothing means that there is no previous value either.
NothingYet ==
  /\ monoPrev = NaN => monoTotal = 0 /\ (monoPc # "idle" => monoDelta = NaN)
  /\ monoValue = NaN => monoPrev = NaN
  /\ monoPc = "store" /\ monoAgain = NaN => monoPrev = NaN
  /\ monoPc = "store" /\ monoValue = NaN => monoAgain = NaN

MonoInv == MonoTypeOK /\ Bounded /\ NothingYet

\* What is above zero of w - p grows by no more than what is above zero of w - v
\* when the value goes from v to w.
LEMMA GrowthTriangle ==
  ASSUME NEW p \in Nat \cup {NaN}, NEW v \in Nat \cup {NaN}, NEW w \in Nat,
         v = NaN => p = NaN
  PROVE  /\ Positive(Minus(w, p)) <= Positive(Minus(v, p)) + Positive(Minus(w, v))
         /\ Positive(Minus(w, p)) \in Nat
         /\ Positive(Minus(v, p)) \in Nat
         /\ Positive(Minus(w, v)) \in Nat
         /\ p = NaN => Positive(Minus(w, p)) = 0
<1>0. NaN \notin Int
  BY MonotonicAssumption
<1>1. CASE p = NaN
  <2>1. Minus(w, p) = NaN /\ Minus(v, p) = NaN
    BY <1>1 DEF Minus
  <2>2. Positive(Minus(w, v)) \in Nat
    BY <1>0 DEF Minus, Positive
  <2>3. QED
    BY <1>1, <2>1, <2>2 DEF Positive
<1>2. CASE p # NaN
  <2>1. p \in Nat /\ v \in Nat
    BY <1>2
  <2>2. Minus(w, p) = w - p /\ Minus(v, p) = v - p /\ Minus(w, v) = w - v
    BY <1>0, <2>1 DEF Minus
  <2>3. \A d \in Int : Positive(d) = IF d > 0 THEN d ELSE 0
    BY <1>0 DEF Positive
  <2>4. QED
    BY <1>2, <2>1, <2>2, <2>3
<1>3. QED
  BY <1>1, <1>2

\* The strengthened invariant: it bounds the reports also in the middle of a
\* Measure, when the delta is known and the previous value not yet stored.
THEOREM MonotonicInductive == MonoSpec => []MonoInv
<1>1. MonoInit => MonoInv
  BY DEF MonoInit, MonoInv, MonoTypeOK, Bounded, NothingYet, Positive, Minus
<1>2. MonoInv /\ [MonoNext]_monoVars => MonoInv'
  <2> SUFFICES ASSUME MonoInv, [MonoNext]_monoVars
               PROVE  MonoInv'
    OBVIOUS
  <2> USE MonotonicAssumption DEF MonoInv
  <2>1. ASSUME NEW v \in MonoAmounts, MonoSet(v)
        PROVE  MonoInv'
    <3>1. v \in Nat
      OBVIOUS
    <3>2. MonoTypeOK' /\ NothingYet'
      BY <2>1, <3>1 DEF MonoSet, MonoTypeOK, NothingYet, Positive, Minus
    <3>3. monoPc = "idle" => Bounded'
      <4>1. /\ Positive(Minus(v, monoPrev)) <= Positive(Minus(monoValue, monoPrev)) + Positive(Minus(v, monoValue))
            /\ monoPrev = NaN => Positive(Minus(v, monoPrev)) = 0
            /\ Positive(Minus(v, monoPrev)) \in Nat
            /\ Positive(Minus(monoValue, monoPrev)) \in Nat
            /\ Positive(Minus(v, monoValue)) \in Nat
        BY <3>1, GrowthTriangle DEF MonoTypeOK, NothingYet
      <4>2. QED
        BY <2>1, <4>1 DEF MonoSet, MonoTypeOK, Bounded, NothingYet, MonoHasBase
    <3>4. monoPc = "reload" => Bounded'
      BY <2>1, <3>1 DEF MonoSet, MonoTypeOK, Bounded, Positive, Minus
    <3>5. monoPc = "store" => Bounded'
      <4>1. CASE monoPc = "store" /\ (monoValue = NaN => monoAgain = NaN)
        <5>1. /\ Positive(Minus(v, monoAgain)) <= Positive(Minus(monoValue, monoAgain)) + Positive(Minus(v, monoValue))
              /\ monoAgain = NaN => Positive(Minus(v, monoAgain)) = 0
              /\ Positive(Minus(v, monoAgain)) \in Nat
              /\ Positive(Minus(monoValue, monoAgain)) \in Nat
              /\ Positive(Minus(v, monoValue)) \in Nat
          BY <3>1, <4>1, GrowthTriangle DEF MonoTypeOK
        <5>2. Positive(monoDelta) \in Nat
          BY DEF MonoTypeOK, Positive
        <5>3. QED
          BY <2>1, <4>1, <5>1, <5>2 DEF MonoSet, MonoTypeOK, Bounded, NothingYet, MonoHasBase
      <4>2. QED
        BY <4>1 DEF NothingYet
    <3>6. QED
      BY <3>2, <3>3, <3>4, <3>5 DEF MonoTypeOK
  <2>2. CASE MonoMeasureDelta
    BY <2>2 DEF MonoMeasureDelta, MonoTypeOK, Bounded, NothingYet, Positive, Minus
  <2>3. CASE MonoReload
    BY <2>3 DEF MonoReload, MonoTypeOK, Bounded, NothingYet, Positive, Minus
  <2>4. CASE MonoReport
    BY <2>4 DEF MonoReport, MonoTypeOK, Bounded, NothingYet, Positive, Minus
  <2>5. CASE UNCHANGED monoVars
    BY <2>5 DEF monoVars, MonoTypeOK, Bounded, NothingYet, Positive, Minus
  <2>6. QED
    BY <2>1, <2>2, <2>3, <2>4, <2>5 DEF MonoNext
<1>3. QED
  BY <1>1, <1>2, PTL DEF MonoSpec

\* Reports never exceed the growth of the source since it was first measured.
THEOREM MonotonicNeverOverReports == MonoSpec => []MonoNeverOverReports
<1>1. MonoInv => MonoNeverOverReports
  BY MonotonicAssumption DEF MonoInv, MonoTypeOK, Bounded, MonoNeverOverReports, Positive, Minus
<1>2. QED
  BY <1>1, MonotonicInductive, PTL

-----------------------------------------------------------------------------
(* MonotonicCounterUint *)

\* A source that may be restarted keeps the values it is read at below 2^63: two
\* of them are never more than kOverflow apart unless the source was restarted.
BelowHalf(v) == uintFalling => v < Modulus - kOverflow

\* The values that were read came from a Set.
UintReadings ==
  /\ uintPc # "idle" \/ uintInit => uintSets > 0
  /\ uintSets > 0 => BelowHalf(uintValue)
  /\ uintInit => BelowHalf(uintPrev)
  /\ uintPc = "store" => BelowHalf(uintAgain)

\* What is reported is covered by the growth up to the value that counts as
\* previous; while Measure holds its second load, growth since that load is still
\* to come.
UintBounded ==
  /\ uintPc = "idle" /\ uintInit => uintTotal + Growth(uintPrev, uintValue) <= uintGrown
  /\ uintPc = "reload" => uintTotal + Reported(uintDelta) <= uintGrown
  /\ uintPc = "store" => uintTotal + Reported(uintDelta) + Growth(uintAgain, uintValue) <= uintGrown
  /\ ~uintInit => uintTotal = 0 /\ uintDelta = NoDelta

UintInv == UintTypeOK /\ UintReadings /\ UintBounded

LEMMA UintGrowth ==
  ASSUME uintFalling \in BOOLEAN, NEW p \in Uints, NEW v \in Uints, NEW w \in Uints
  PROVE  /\ Growth(p, v) \in Nat
         /\ Growth(v, v) = 0
         /\ Growth(p, w) <= Growth(p, v) + Growth(v, w)
  BY UintAssumption DEF Growth, Uints

\* The delta that is reported is at most the growth: a fall of a source that is
\* restarted looks like a distance of more than kOverflow.
LEMMA UintReported ==
  ASSUME uintFalling \in BOOLEAN, NEW p \in Uints, NEW v \in Uints, BelowHalf(p), BelowHalf(v)
  PROVE  /\ Distance(p, v) \in Uints
         /\ Reported(Distance(p, v)) \in Nat
         /\ Reported(Distance(p, v)) <= Growth(p, v)
  BY UintAssumption DEF Growth, Uints, BelowHalf, Reported, Distance

\* The invariant of which UintNeverOverReports is a consequence, for every modulus
\* and overflow limit, for sources that wrap around and for sources that fall.
THEOREM UintInductive == ASSUME SetFirst PROVE UintSpec => []UintInv
<1>1. UintInit => UintInv
  <2> SUFFICES ASSUME UintInit PROVE UintInv
    OBVIOUS
  <2>1. UintTypeOK
    <3>1. 0 \in Uints
      BY UintAssumption DEF Uints
    <3>2. uintFalling \in BOOLEAN /\ uintInit \in BOOLEAN
      BY DEF UintInit
    <3> QED
      BY <3>1, <3>2 DEF UintInit, UintTypeOK
  <2>2. UintReadings
    BY DEF UintInit, UintReadings
  <2>3. UintBounded
    BY DEF UintInit, UintBounded
  <2> QED
    BY <2>1, <2>2, <2>3 DEF UintInv
<1>2. UintInv /\ [UintNext]_uintVars => UintInv'
  <2> SUFFICES ASSUME UintInv, [UintNext]_uintVars PROVE UintInv'
    OBVIOUS
  <2>1. UintTypeOK /\ UintReadings /\ UintBounded
    BY DEF UintInv
  <2>2. ASSUME NEW v \in Uints, UintSet(v) PROVE UintInv'
    <3>1. UNCHANGED <<uintFalling, uintInit, uintPrev, uintPc, uintDelta, uintAgain, uintTotal>>
          /\ uintValue' = v /\ uintSets' = uintSets + 1 /\ BelowHalf(v)
      BY <2>2 DEF UintSet, BelowHalf
    <3>2. \/ uintGrown' = uintGrown /\ ~UintHasBase
          \/ uintGrown' = uintGrown + Growth(uintValue, v) /\ UintHasBase
      BY <2>1, <2>2 DEF UintSet, UintReadings, UintHasBase
    <3>3. /\ Growth(uintValue, v) \in Nat
          /\ Growth(uintPrev, uintValue) \in Nat /\ Growth(uintAgain, uintValue) \in Nat
          /\ Growth(uintPrev, v) \in Nat /\ Growth(uintAgain, v) \in Nat
          /\ Growth(uintPrev, v) <= Growth(uintPrev, uintValue) + Growth(uintValue, v)
          /\ Growth(uintAgain, v) <= Growth(uintAgain, uintValue) + Growth(uintValue, v)
      BY <2>1, UintGrowth DEF UintTypeOK
    <3>4. Growth(uintPrev', uintValue') = Growth(uintPrev, v)
          /\ Growth(uintAgain', uintValue') = Growth(uintAgain, v)
      BY <3>1
    <3>5. UintTypeOK'
      BY <2>1, <3>1, <3>2, <3>3 DEF UintTypeOK
    <3>6. UintReadings'
      BY <2>1, <3>1 DEF UintReadings, UintTypeOK, BelowHalf
    <3>7. Reported(uintDelta) \in Nat
      BY <2>1, UintAssumption DEF UintTypeOK, Uints, Reported
    <3>8. UintBounded'
      BY <2>1, <3>1, <3>2, <3>3, <3>7 DEF UintBounded, UintTypeOK, UintHasBase, Growth
    <3> QED
      BY <3>5, <3>6, <3>8 DEF UintInv
  <2>3. CASE UintMeasureDelta
    <3>1. UNCHANGED <<uintFalling, uintInit, uintValue, uintPrev, uintAgain, uintSets, uintGrown, uintTotal>>
          /\ uintPc = "idle" /\ uintPc' = "reload" /\ uintSets > 0
      BY <2>3 DEF UintMeasureDelta
    <3>2. CASE uintInit
      <4>1. uintDelta' = Distance(uintPrev, uintValue)
        BY <2>3, <3>2 DEF UintMeasureDelta
      <4>2. /\ Distance(uintPrev, uintValue) \in Uints
            /\ Reported(Distance(uintPrev, uintValue)) \in Nat
            /\ Reported(Distance(uintPrev, uintValue)) <= Growth(uintPrev, uintValue)
            /\ Growth(uintPrev, uintValue) \in Nat
        BY <2>1, <3>1, <3>2, UintReported, UintGrowth DEF UintTypeOK, UintReadings
      <4>3. UintTypeOK'
        BY <2>1, <3>1, <4>1, <4>2 DEF UintTypeOK
      <4>4. UintReadings'
        BY <2>1, <3>1, <3>2 DEF UintReadings, BelowHalf
      <4>5. uintTotal' + Reported(uintDelta') <= uintGrown'
        BY <2>1, <3>1, <3>2, <4>1, <4>2 DEF UintBounded, UintTypeOK
      <4>6. UintBounded'
        BY <3>1, <3>2, <4>5 DEF UintBounded
      <4> QED
        BY <4>3, <4>4, <4>6 DEF UintInv
    <3>3. CASE ~uintInit
      <4>1. uintDelta' = NoDelta
        BY <2>3, <3>3 DEF UintMeasureDelta
      <4>2. UintTypeOK' /\ UintReadings'
        BY <2>1, <3>1, <4>1 DEF UintTypeOK, UintReadings, BelowHalf
      <4>3. UintBounded'
        BY <2>1, <3>1, <3>3, <4>1 DEF UintBounded, UintTypeOK, Reported
      <4> QED
        BY <4>2, <4>3 DEF UintInv
    <3> QED
      BY <3>2, <3>3
  <2>4. CASE UintReload
    <3>1. UNCHANGED <<uintFalling, uintInit, uintValue, uintPrev, uintDelta, uintSets, uintGrown, uintTotal>>
          /\ uintPc = "reload" /\ uintPc' = "store" /\ uintAgain' = uintValue
      BY <2>4 DEF UintReload
    <3>2. Growth(uintAgain', uintValue') = 0 /\ Reported(uintDelta) \in Nat
      BY <2>1, <3>1, UintAssumption DEF UintTypeOK, Uints, Growth, Reported
    <3>3. UintTypeOK' /\ UintReadings'
      BY <2>1, <3>1 DEF UintTypeOK, UintReadings, BelowHalf
    <3>4. UintBounded'
      BY <2>1, <3>1, <3>2 DEF UintBounded, UintTypeOK, Growth
    <3> QED
      BY <3>3, <3>4 DEF UintInv
  <2>5. CASE UintReport
    <3>1. UNCHANGED <<uintFalling, uintValue, uintSets, uintGrown>> /\ uintPc = "store"
          /\ uintPc' = "idle" /\ uintPrev' = uintAgain /\ uintInit' = TRUE
          /\ uintTotal' = uintTotal + Reported(uintDelta) /\ uintDelta' = NoDelta /\ uintAgain' = 0
      BY <2>5 DEF UintReport
    <3>2. Reported(uintDelta) \in Nat /\ 0 \in Uints
      BY <2>1, UintAssumption DEF UintTypeOK, Uints, Reported
    <3>3. UintTypeOK'
      BY <2>1, <3>1, <3>2 DEF UintTypeOK
    <3>4. UintReadings'
      BY <2>1, <3>1 DEF UintReadings, BelowHalf
    <3>5. UintBounded'
      BY <2>1, <3>1 DEF UintBounded, Growth
    <3> QED
      BY <3>3, <3>4, <3>5 DEF UintInv
  <2>6. CASE UNCHANGED uintVars
    BY <2>1, <2>6 DEF uintVars, UintInv, UintTypeOK, UintReadings, UintBounded, BelowHalf, Growth
  <2> QED
    BY <2>2, <2>3, <2>4, <2>5, <2>6 DEF UintNext
<1> QED
  BY <1>1, <1>2, PTL DEF UintSpec

\* Whatever falls between the two loads of Measure, what a MonotonicCounterUint has
\* reported and is about to report is covered by the growth of its source, once a
\* Set has come before the first Measure.
THEOREM MonotonicUintNeverOverReports == ASSUME SetFirst PROVE UintSpec => []UintNeverOverReports
<1>1. UintInv => UintNeverOverReports
  <2> SUFFICES ASSUME UintInv PROVE UintNeverOverReports
    OBVIOUS
  <2>1. UintTypeOK /\ UintReadings /\ UintBounded
    BY DEF UintInv
  <2>2. CASE uintPc = "idle" /\ uintInit
    <3>1. /\ Reported(Distance(uintPrev, uintValue)) \in Nat
          /\ Reported(Distance(uintPrev, uintValue)) <= Growth(uintPrev, uintValue)
          /\ Growth(uintPrev, uintValue) \in Nat
      BY <2>1, <2>2, UintReported, UintGrowth DEF UintTypeOK, UintReadings
    <3> QED
      BY <2>1, <2>2, <3>1 DEF UintNeverOverReports, UintPending, UintBounded, UintTypeOK
  <2>3. CASE uintPc = "idle" /\ ~uintInit
    BY <2>1, <2>3 DEF UintNeverOverReports, UintPending, UintBounded, UintTypeOK
  <2>4. CASE uintPc # "idle"
    <3>1. Reported(uintDelta) \in Nat /\ Growth(uintAgain, uintValue) \in Nat
      BY <2>1, UintAssumption, UintGrowth DEF UintTypeOK, Uints, Reported
    <3> QED
      BY <2>1, <2>4, <3>1 DEF UintNeverOverReports, UintPending, UintBounded, UintTypeOK
  <2> QED
    BY <2>2, <2>3, <2>4
<1> QED
  BY <1>1, UintInductive, PTL

-----------------------------------------------------------------------------
(* MonotonicSampled *)

Sample == [value : Nat \cup {NotANumber}, ts : Nat]

\* What the code keeps true of the two samples: the previous one has a value only
\* if the current one has, and is not newer.
SamplesInOrder ==
  /\ sample \in Sample /\ prevSample \in Sample
  /\ prevSample.ts <= sample.ts
  /\ sample.value = NotANumber => prevSample.value = NotANumber

HistoryTyped ==
  /\ measuring \in [delta : Int, over : Nat]
  /\ sampledSets \in Nat /\ sampledGrown \in Nat /\ sampledTotal \in Nat

SampledInv == SamplesInOrder /\ HistoryTyped /\ SampledNeverOverReports

\* Growth over two steps of the source is at most the sum of both: what lets Set
\* replace the current sample without the reports catching up.
LEMMA RiseTriangle ==
  ASSUME NEW a \in Sample, NEW b \in Sample, NEW c \in Sample,
         b.value # NotANumber, c.value # NotANumber
  PROVE  Rise(a, c) <= Rise(a, b) + Rise(b, c)
  BY SampledAssumption DEF Sample, Rise

\* The growth between two samples with values is a natural number, and so is the
\* growth from a sample without one.
LEMMA RiseNat ==
  ASSUME NEW a \in Sample, NEW b \in Sample, a.value # NotANumber => b.value # NotANumber
  PROVE  Rise(a, b) \in Nat
  BY SampledAssumption DEF Sample, Rise

\* The types of a MonotonicSampled, and that its samples stay in the order of their
\* timestamps however late a Set comes; and that the rates reported so far and the
\* next one stand for no more growth than the samples showed, though Measure
\* releases its mutex in the middle.
THEOREM SampledExact == SampledSpec => [](SampledTypeOK /\ SampledNeverOverReports)
<1>1. SampledInit => SampledInv
  BY SampledAssumption DEF SampledInit, SampledInv, SamplesInOrder, HistoryTyped, SampledNeverOverReports,
     NoSample, NotMeasuring, Sample, Rise
<1>2. SampledInv /\ [SampledNext]_sampledVars => SampledInv'
  <2> SUFFICES ASSUME SampledInv, [SampledNext]_sampledVars PROVE SampledInv'
    OBVIOUS
  <2> USE DEF SampledInv, SamplesInOrder, HistoryTyped
  <2>1. ASSUME NEW v \in SampledAmounts, NEW t \in SampledTimes, SampledSet(v, t)
        PROVE  SampledInv'
    <3> DEFINE new == [value |-> v, ts |-> t]
    <3>1. new \in Sample /\ new.value = v /\ new.ts = t /\ v # NotANumber
      BY SampledAssumption DEF Sample
    <3>2. CASE t < sample.ts
      BY <2>1, <3>2 DEF SampledSet, SampledNeverOverReports, Rise
    <3>3. CASE ~(t < sample.ts)
      <4>1. /\ prevSample' = IF prevSample.value = NotANumber THEN sample ELSE prevSample
            /\ sample' = new /\ sampledGrown' = sampledGrown + Rise(sample, new)
            /\ measuring' = measuring /\ sampledTotal' = sampledTotal
            /\ sampledSets' = sampledSets + 1
        BY <2>1, <3>3 DEF SampledSet
      <4>2. SamplesInOrder'
        BY <4>1, <3>1, <3>3 DEF Sample
      <4>3. Rise(sample, new) \in Nat /\ Rise(prevSample, sample) \in Nat
        BY <3>1, RiseNat
      <4>4. HistoryTyped'
        BY <4>1, <4>3
      <4>5. Rise(prevSample', sample') <= Rise(prevSample, sample) + Rise(sample, new)
        <5>1. CASE prevSample.value = NotANumber
          BY <5>1, <4>1, <4>3
        <5>2. CASE prevSample.value # NotANumber
          BY <5>2, <4>1, <3>1, RiseTriangle
        <5> QED BY <5>1, <5>2
      <4>6. Rise(prevSample', sample') \in Nat
        BY <4>2, <4>1, <3>1, RiseNat
      <4>7. SampledNeverOverReports'
        <5> HIDE DEF new
        <5> DEFINE was == Rise(prevSample, sample)
                   step == Rise(sample, new)
                   is == Rise(prevSample', sample')
        <5>1. is <= was + step /\ was \in Nat /\ step \in Nat /\ is \in Nat
          BY <4>3, <4>5, <4>6
        <5>2. /\ SampledNeverOverReports <=>
                   sampledTotal + (IF measuring # NotMeasuring THEN IF measuring.delta > 0 THEN measuring.delta ELSE 0
                                   ELSE was) <= sampledGrown
              /\ SampledNeverOverReports' <=>
                   sampledTotal + (IF measuring # NotMeasuring THEN IF measuring.delta > 0 THEN measuring.delta ELSE 0
                                   ELSE is) <= sampledGrown + step
          BY <4>1 DEF SampledNeverOverReports, NotMeasuring
        <5> HIDE DEF was, step, is
        <5> QED BY <5>1, <5>2
      <4> QED BY <4>2, <4>4, <4>7
    <3> QED BY <3>2, <3>3
  <2>2. CASE SampledNoRate
    BY <2>2 DEF SampledNoRate, sampledVars, SampledNeverOverReports, Rise
  <2>3. CASE SampledRate
    <3>1. /\ sample' = sample /\ prevSample' = prevSample /\ sampledSets' = sampledSets
          /\ sampledGrown' = sampledGrown /\ sampledTotal' = sampledTotal
          /\ sample.value \in Nat /\ prevSample.value \in Nat /\ measuring = NotMeasuring
          /\ measuring' = [delta |-> sample.value - prevSample.value, over |-> sample.ts - prevSample.ts]
      BY <2>3 DEF SampledRate, HasRate, Sample
    <3>2. SamplesInOrder' /\ HistoryTyped'
      BY <3>1 DEF Sample
    <3>3. Rise(prevSample, sample) = IF measuring'.delta > 0 THEN measuring'.delta ELSE 0
      BY <3>1, SampledAssumption DEF Rise
    <3> QED BY <3>1, <3>2, <3>3 DEF SampledNeverOverReports, NotMeasuring, Rise
  <2>4. CASE SampledReport
    <3>1. /\ measuring # NotMeasuring /\ measuring' = NotMeasuring
          /\ sample' = sample /\ prevSample' = sample /\ sampledSets' = sampledSets
          /\ sampledGrown' = sampledGrown
          /\ sampledTotal' = IF measuring.delta > 0 THEN sampledTotal + measuring.delta ELSE sampledTotal
      BY <2>4 DEF SampledReport
    <3>2. SamplesInOrder' /\ HistoryTyped'
      BY <3>1 DEF NotMeasuring, Sample
    <3>3. Rise(sample, sample) = 0
      BY SampledAssumption DEF Rise, Sample
    <3>4. SampledNeverOverReports' <=> sampledTotal' + Rise(sample, sample) <= sampledGrown
      BY <3>1 DEF SampledNeverOverReports, Rise
    <3> QED BY <3>1, <3>2, <3>3, <3>4 DEF SampledNeverOverReports
  <2>5. CASE UNCHANGED sampledVars
    BY <2>5 DEF sampledVars, SampledNeverOverReports, Rise
  <2> QED BY <2>1, <2>2, <2>3, <2>4, <2>5 DEF SampledNext
<1>3. SampledInv => SampledTypeOK /\ SampledNeverOverReports
  BY DEF SampledInv, SamplesInOrder, HistoryTyped, Sample, SampledTypeOK
<1> QED BY <1>1, <1>2, <1>3, PTL DEF SampledSpec
=============================================================================
