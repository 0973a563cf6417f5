------------------------ MODULE MonotonicCounterUint ------------------------
(***************************************************************************)
(* One MonotonicCounterUint (spectator/monotonic_counter_uint.cc): like    *)
(* MonotonicCounter for an unsigned source that wraps around at Modulus.   *)
(* There is no NaN among the unsigned values: init_, which Measure sets,   *)
(* stands for "there is a previous value".                                 *)
(***************************************************************************)
EXTENDS Integers

CONSTANTS
  Modulus,     \* 2^64 in the code: values are 0 .. Modulus - 1
  kOverflow,   \* 9.223372e+18, about 2^63: a larger delta is taken for a reset
  NoDelta,
  SetFirst,    \* whether no Measure comes before the first Set
  MaxUintSets  \* bound: calls of Set in a behaviour

ASSUME UintAssumption ==
  /\ Modulus \in Nat \ {0} /\ kOverflow \in 0 .. Modulus /\ NoDelta \notin Int
  /\ SetFirst \in BOOLEAN /\ MaxUintSets \in Nat

Uints == 0 .. Modulus - 1

VARIABLES
  uintFalling,        \* the kind of source: FALSE if it only grows, and wraps around;
                      \* TRUE if it may be restarted, with values below 2^63
  uintInit, uintValue, uintPrev,  \* init_, value_, prev_value_
  uintPc, uintDelta, uintAgain,   \* the thread that measures, as in MonotonicCounter
  uintSets,
  uintGrown,          \* by how much the source has grown since the first Measure;
                      \* the first Set is not growth
  uintTotal           \* sum of the deltas that were reported

uintVars == <<uintFalling, uintInit, uintValue, uintPrev, uintPc, uintDelta, uintAgain,
              uintSets, uintGrown, uintTotal>>

UintInit ==
  /\ uintFalling \in BOOLEAN
  /\ uintInit = FALSE /\ uintValue = 0 /\ uintPrev = 0
  /\ uintPc = "idle" /\ uintDelta = NoDelta /\ uintAgain = 0
  /\ uintSets = 0 /\ uintGrown = 0 /\ uintTotal = 0

\* Delta(): kMax - prev + curr + 1 if the source wrapped around.
Distance(p, c) == IF c < p THEN (Modulus - 1) - p + c + 1 ELSE c - p

\* By how much the source grew from v to w: it wraps around, or was restarted.
Growth(v, w) == IF w >= v THEN w - v ELSE IF uintFalling THEN 0 ELSE w - v + Modulus

\* A Measure has read the value that the growth counts from.
UintHasBase == uintInit \/ uintPc = "store"

UintSet(v) ==
  /\ uintSets < MaxUintSets
  /\ uintValue' = v
  /\ uintFalling => v < Modulus - kOverflow
  /\ uintGrown' = IF UintHasBase /\ uintSets > 0
                  THEN uintGrown + Growth(uintValue, v) ELSE uintGrown
  /\ uintSets' = uintSets + 1
  /\ UNCHANGED <<uintFalling, uintInit, uintPrev, uintPc, uintDelta, uintAgain, uintTotal>>

UintMeasureDelta ==
  /\ uintPc = "idle"
  /\ SetFirst => uintSets > 0
  /\ uintDelta' = IF uintInit THEN Distance(uintPrev, uintValue) ELSE NoDelta
  /\ uintPc' = "reload"
  /\ UNCHANGED <<uintFalling, uintInit, uintValue, uintPrev, uintAgain, uintSets,
                 uintGrown, uintTotal>>

UintReload ==
  /\ uintPc = "reload"
  /\ uintAgain' = uintValue
  /\ uintPc' = "store"
  /\ UNCHANGED <<uintFalling, uintInit, uintValue, uintPrev, uintDelta, uintSets,
                 uintGrown, uintTotal>>

Reported_raw(d) == IF d = NoDelta THEN 0 ELSE d

\* A delta that looks like a reset of the source is reported as zero.
Reported(d) == IF d = NoDelta \/ d > kOverflow THEN 0 ELSE d

UintReport ==
  /\ uintPc = "store"
  /\ uintPrev' = uintAgain
  /\ uintInit' = TRUE
  /\ uintTotal' = uintTotal + Reported(uintDelta)
  /\ uintPc' = "idle" /\ uintDelta' = NoDelta /\ uintAgain' = 0
  /\ UNCHANGED <<uintFalling, uintValue, uintSets, uintGrown>>

UintNext == (\E v \in Uints : UintSet(v)) \/ UintMeasureDelta \/ UintReload \/ UintReport

UintSpec == UintInit /\ [][UintNext]_uintVars

-----------------------------------------------------------------------------
\* Types; a delta is the distance of two unsigned values.
UintTypeOK ==
  /\ uintFalling \in BOOLEAN /\ uintInit \in BOOLEAN
  /\ {uintValue, uintPrev, uintAgain} \subseteq Uints
  /\ uintDelta \in Uints \cup {NoDelta}
  /\ uintPc \in {"idle", "reload", "store"}
  /\ uintSets \in Nat /\ uintGrown \in Nat /\ uintTotal \in Nat

\* What the Measure under way, or the next one, will report.
UintPending == IF uintPc # "idle" THEN Reported(uintDelta)
               ELSE IF uintInit THEN Reported(Distance(uintPrev, uintValue)) ELSE 0

\* What is reported and what is about to be never exceeds the growth of the
\* source since its first measured value, be it that the source wraps around or
\* that it is restarted; the first value is only a baseline
\* (monotonic_counter_uint_test.cc:22-26 and 109-112).
UintNeverOverReports == uintTotal + UintPending <= uintGrown
=============================================================================
