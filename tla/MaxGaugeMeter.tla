--------------------------- MODULE MaxGaugeMeter ----------------------------
(***************************************************************************)
(* One MaxGauge (spectator/max_gauge.cc) and update_max (atomicnumber.h):  *)
(* any number of threads raise the maximum with a load and a               *)
(* compare-exchange while the sender exchanges it with kMinValue.          *)
(***************************************************************************)
EXTENDS Integers

CONSTANTS
  Updaters,   \* threads that call Update
  Values,     \* the values they report
  kMinValue,  \* lowest double: "nothing reported since the last Measure"
  MaxUpdates  \* bound: calls of Update in a behaviour

ASSUME MaxGaugeAssumption ==
  /\ Values \subseteq Int /\ kMinValue \in Int /\ MaxUpdates \in Nat
  /\ \A v \in Values : v >= kMinValue

VARIABLES
  maxValue,                \* value_
  upPc, upArg, upCurrent,  \* of each updater: where it is, its value, what it loaded
  updates,
  owed                     \* the values whose Update took effect since the last Measure

maxGaugeVars == <<maxValue, upPc, upArg, upCurrent, updates, owed>>

MaxGaugeInit ==
  /\ maxValue = kMinValue
  /\ upPc = [u \in Updaters |-> "idle"]
  /\ upArg = [u \in Updaters |-> kMinValue]
  /\ upCurrent = [u \in Updaters |-> kMinValue]
  /\ updates = 0
  /\ owed = {}

CallUpdate(u, v) ==
  /\ updates < MaxUpdates
  /\ upPc[u] = "idle"
  /\ upPc' = [upPc EXCEPT ![u] = "load"]
  /\ upArg' = [upArg EXCEPT ![u] = v]
  /\ updates' = updates + 1
  /\ UNCHANGED <<maxValue, upCurrent, owed>>

\* current = n->load(); the loop ends here unless the value is greater, and the
\* update counts from now on: the maximum it was compared with covers it.
UpLoad(u) ==
  /\ upPc[u] = "load"
  /\ upCurrent' = [upCurrent EXCEPT ![u] = maxValue]
  /\ IF upArg[u] > maxValue
     THEN upPc' = [upPc EXCEPT ![u] = "cas"] /\ UNCHANGED owed
     ELSE upPc' = [upPc EXCEPT ![u] = "idle"] /\ owed' = owed \cup {upArg[u]}
  /\ UNCHANGED <<maxValue, upArg, updates>>

UpSucceeds_store(u) ==
  /\ upPc[u] = "cas"
  /\ maxValue' = upArg[u]
  /\ owed' = owed \cup {upArg[u]}
  /\ upPc' = [upPc EXCEPT ![u] = "idle"]
  /\ UNCHANGED <<upArg, upCurrent, updates>>

\* compare_exchange_weak(current, value)
UpSucceeds(u) ==
  /\ upPc[u] = "cas"
  /\ maxValue = upCurrent[u]
  /\ maxValue' = upArg[u]
  /\ owed' = owed \cup {upArg[u]}
  /\ upPc' = [upPc EXCEPT ![u] = "idle"]
  /\ UNCHANGED <<upArg, upCurrent, updates>>

UpFails(u) ==
  /\ upPc[u] = "cas"
  /\ upPc' = [upPc EXCEPT ![u] = "load"]
  /\ UNCHANGED <<maxValue, upArg, upCurrent, updates, owed>>

\* MaxGauge::Measure reports value, unless it is kMinValue, and starts over.
MaxGaugeMeasure ==
  /\ maxValue' = kMinValue
  /\ owed' = {}
  /\ UNCHANGED <<upPc, upArg, upCurrent, updates>>

MaxGaugeNext ==
  \/ \E u \in Updaters :
       \/ \E v \in Values : CallUpdate(u, v)
       \/ UpLoad(u) \/ UpSucceeds(u) \/ UpFails(u)
  \/ MaxGaugeMeasure

MaxGaugeSpec == MaxGaugeInit /\ [][MaxGaugeNext]_maxGaugeVars

-----------------------------------------------------------------------------
\* Types; and an updater only ever tries to raise what it loaded.
MaxGaugeTypeOK ==
  /\ maxValue \in Int /\ updates \in Nat /\ owed \subseteq Int
  /\ upPc \in [Updaters -> {"idle", "load", "cas"}]
  /\ upArg \in [Updaters -> Int]
  /\ upCurrent \in [Updaters -> Int]
  /\ \A u \in Updaters : upPc[u] = "cas" => upArg[u] > upCurrent[u]

\* The next Measure reports exactly the greatest of the values recorded since
\* the last one, however the updates and the Measures interleave: no maximum is
\* lost and none is carried over into the next interval.
ValueIsTheMaximum ==
  /\ \A v \in owed : v <= maxValue
  /\ maxValue \in owed \cup {kMinValue}
=============================================================================
