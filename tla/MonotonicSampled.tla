-------------------------- MODULE MonotonicSampled --------------------------
(***************************************************************************)
(* One MonotonicSampled (spectator/monotonic_sampled.cc): like a           *)
(* MonotonicCounter, but every value comes with the time it was taken at   *)
(* and what is reported is a rate.  All fields are guarded by a mutex,     *)
(* which Measure takes twice: to compute the rate and to remember the      *)
(* sample; Set may come in between.                                        *)
(***************************************************************************)
EXTENDS Integers

CONSTANTS
  SampledAmounts, SampledTimes,  \* values of the source, and timestamps
  NotANumber,                    \* no value yet
  MaxSampledSets                 \* bound: calls of Set

ASSUME SampledAssumption ==
  /\ SampledAmounts \subseteq Nat /\ SampledTimes \subseteq Nat \ {0}
  /\ NotANumber \notin Nat /\ MaxSampledSets \in Nat

VARIABLES
  sample, prevSample,  \* (value_, ts_) and (prev_value_, prev_ts_)
  measuring,           \* what SampledRate saw, between the two critical sections
  sampledSets,
  sampledGrown,        \* by how much the source has grown over the samples taken
  sampledTotal         \* the growth that the reported rates stand for

sampledVars == <<sample, prevSample, measuring, sampledSets, sampledGrown, sampledTotal>>

NoSample == [value |-> NotANumber, ts |-> 0]
NotMeasuring == [delta |-> 0, over |-> 0]

SampledInit ==
  /\ sample = NoSample /\ prevSample = NoSample /\ measuring = NotMeasuring
  /\ sampledSets = 0 /\ sampledGrown = 0 /\ sampledTotal = 0

Rise(from, to) ==
  IF from.value # NotANumber /\ to.value > from.value THEN to.value - from.value ELSE 0

\* Set: an older sample is ignored; the previous one is only filled in here while
\* there is none.
SampledSet(v, t) ==
  LET new == [value |-> v, ts |-> t]
  IN /\ sampledSets < MaxSampledSets /\ sampledSets' = sampledSets + 1
     /\ IF t < sample.ts
        THEN UNCHANGED <<sample, prevSample, sampledGrown>>
        ELSE /\ prevSample' = IF prevSample.value = NotANumber THEN sample ELSE prevSample
             /\ sample' = new
             /\ sampledGrown' = sampledGrown + Rise(sample, new)
     /\ UNCHANGED <<measuring, sampledTotal>>

\* Without two values, and for 0 / 0, the rate is NaN.
HasRate ==
  /\ sample.value # NotANumber /\ prevSample.value # NotANumber
  /\ sample # prevSample

\* Measure() returns without a measurement.
SampledNoRate == measuring = NotMeasuring /\ ~HasRate /\ UNCHANGED sampledVars

\* SampledRate(), as the difference and the time it is divided by.
SampledRate ==
  /\ measuring = NotMeasuring /\ HasRate
  /\ measuring' = [delta |-> sample.value - prevSample.value, over |-> sample.ts - prevSample.ts]
  /\ UNCHANGED <<sample, prevSample, sampledSets, sampledGrown, sampledTotal>>

SampledReport_keeps ==
  /\ measuring # NotMeasuring
  /\ UNCHANGED prevSample
  /\ sampledTotal' = IF measuring.delta > 0 THEN sampledTotal + measuring.delta ELSE sampledTotal
  /\ measuring' = NotMeasuring
  /\ UNCHANGED <<sample, sampledSets, sampledGrown>>

\* The second critical section, and the measurement if the rate is positive.
SampledReport ==
  /\ measuring # NotMeasuring
  /\ prevSample' = sample
  /\ sampledTotal' = IF measuring.delta > 0 THEN sampledTotal + measuring.delta ELSE sampledTotal
  /\ measuring' = NotMeasuring
  /\ UNCHANGED <<sample, sampledSets, sampledGrown>>

SampledNext ==
  \/ \E v \in SampledAmounts, t \in SampledTimes : SampledSet(v, t)
  \/ SampledNoRate \/ SampledRate \/ SampledReport

SampledSpec == SampledInit /\ [][SampledNext]_sampledVars

-----------------------------------------------------------------------------
\* Types; the samples are in the order of their timestamps.
SampledTypeOK ==
  /\ {sample.value, prevSample.value} \subseteq Nat \cup {NotANumber}
  /\ prevSample.ts <= sample.ts /\ measuring.over \in Nat /\ measuring.delta \in Int
  /\ {sampledSets, sampledGrown, sampledTotal} \subseteq Nat

\* The rates that were reported, and the one that would be reported next, never
\* stand for more growth than the samples showed, whatever Sets fall between the
\* two critical sections of Measure, out of order or with the same timestamp.
SampledNeverOverReports ==
  sampledTotal + (IF measuring # NotMeasuring THEN IF measuring.delta > 0 THEN measuring.delta ELSE 0
                  ELSE Rise(prevSample, sample)) <= sampledGrown
=============================================================================
