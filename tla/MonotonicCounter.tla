-------------------------- MODULE MonotonicCounter --------------------------
(***************************************************************************)
(* One MonotonicCounter (spectator/monotonic_counter.cc): a client stores  *)
(* the value of a counter kept elsewhere, Measure reports by how much it   *)
(* grew since the last Measure.  Measure reads value_ twice, once for the  *)
(* delta and once to remember it, and Set may come in between.             *)
(***************************************************************************)
EXTENDS Integers

CONSTANTS
  MonoAmounts,  \* values of the source counter
  NaN,          \* no value yet
  MonoFalling,  \* whether the source may also fall (it was restarted)
  MaxMonoSets   \* bound: calls of Set in a behaviour

ASSUME MonotonicAssumption ==
  /\ MonoAmounts \subseteq Nat /\ NaN \notin Int
  /\ MonoFalling \in BOOLEAN /\ MaxMonoSets \in Nat

VARIABLES
  monoValue, monoPrev,  \* value_ and prev_value_
  monoPc,               \* of the thread that measures
  monoDelta,            \* what Delta() returned to it
  monoAgain,            \* its second load of value_
  monoSets,
  monoGrown,            \* by how much the source has grown since the first Measure
                        \* that found a value
  monoTotal             \* sum of the deltas that were reported

monoVars == <<monoValue, monoPrev, monoPc, monoDelta, monoAgain, monoSets, monoGrown, monoTotal>>

MonoInit ==
  /\ monoValue = NaN /\ monoPrev = NaN
  /\ monoPc = "idle" /\ monoDelta = NaN /\ monoAgain = NaN
  /\ monoSets = 0 /\ monoGrown = 0 /\ monoTotal = 0

\* NaN is contagious.
Minus(x, y) == IF x = NaN \/ y = NaN THEN NaN ELSE x - y

\* What is above zero of a difference; NaN > 0 is false.
Positive(d) == IF d = NaN THEN 0 ELSE IF d > 0 THEN d ELSE 0

\* A Measure has read the value that the growth counts from.
MonoHasBase == monoPrev # NaN \/ (monoPc = "store" /\ monoAgain # NaN)

MonoSet(v) ==
  /\ monoSets < MaxMonoSets
  /\ MonoFalling \/ Positive(Minus(monoValue, v)) = 0
  /\ monoValue' = v
  /\ monoGrown' = IF MonoHasBase THEN monoGrown + Positive(Minus(v, monoValue)) ELSE monoGrown
  /\ monoSets' = monoSets + 1
  /\ UNCHANGED <<monoPrev, monoPc, monoDelta, monoAgain, monoTotal>>

\* Delta(): value_ - prev_value_.  Only this thread stores prev_value_.
MonoMeasureDelta ==
  /\ monoPc = "idle"
  /\ monoDelta' = Minus(monoValue, monoPrev)
  /\ monoPc' = "reload"
  /\ UNCHANGED <<monoValue, monoPrev, monoAgain, monoSets, monoGrown, monoTotal>>

\* prev_value_.store(value_.load()): the load ...
MonoReload ==
  /\ monoPc = "reload"
  /\ monoAgain' = monoValue
  /\ monoPc' = "store"
  /\ UNCHANGED <<monoValue, monoPrev, monoDelta, monoSets, monoGrown, monoTotal>>

MonoReport_no_reset ==
  /\ monoPc = "store"
  /\ monoPrev' = IF monoPrev = NaN THEN monoAgain ELSE monoPrev
  /\ monoTotal' = monoTotal + Positive(monoDelta)
  /\ monoPc' = "idle" /\ monoDelta' = NaN /\ monoAgain' = NaN
  /\ UNCHANGED <<monoValue, monoSets, monoGrown>>

\* ... the store, and a measurement if the delta is positive.
MonoReport ==
  /\ monoPc = "store"
  /\ monoPrev' = monoAgain
  /\ monoTotal' = monoTotal + Positive(monoDelta)
  /\ monoPc' = "idle" /\ monoDelta' = NaN /\ monoAgain' = NaN
  /\ UNCHANGED <<monoValue, monoSets, monoGrown>>

MonoNext ==
  \/ \E v \in MonoAmounts : MonoSet(v)
  \/ MonoMeasureDelta \/ MonoReload \/ MonoReport

MonoSpec == MonoInit /\ [][MonoNext]_monoVars

-----------------------------------------------------------------------------
\* Types; the total of the reports only grows.
MonoTypeOK ==
  /\ {monoValue, monoPrev, monoAgain} \subseteq Nat \cup {NaN}
  /\ monoDelta \in Int \cup {NaN}
  /\ monoPc \in {"idle", "reload", "store"}
  /\ monoSets \in Nat /\ monoGrown \in Nat /\ monoTotal \in Nat

\* What is reported and what is still to be reported never exceeds the growth
\* of the source since its first measured value, whatever Sets fall into a
\* Measure, also when Measure comes before the first Set or the source falls.
MonoNeverOverReports ==
  monoTotal + Positive(IF monoPc = "idle" THEN Minus(monoValue, monoPrev) ELSE monoDelta)
    <= monoGrown
=============================================================================
