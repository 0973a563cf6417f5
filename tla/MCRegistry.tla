----------------------------- MODULE MCRegistry -----------------------------
(***************************************************************************)
(* Small instances of Registry.  Each run uses two or three of the keys: a *)
(* counter, a timer, a gauge, two age gauges, a sampled counter.           *)
(***************************************************************************)
EXTENDS Registry, TLC

CONSTANTS counter, timer, gauge, age1, age2, sampled, \* keys
          o1, o2, o3, o4, o5                          \* objects

MCTypeOf == [k \in Keys |-> CASE k = counter -> "Counter"
                              [] k = timer   -> "Timer"
                              [] k = gauge   -> "Gauge"
                              [] k = sampled -> "MonotonicSampled"
                              [] OTHER       -> "AgeGauge"]

PinCounter == counter :> o1
PinNothing == [k \in {} |-> o1]

\* Objects are interchangeable, but for the one a pinned handle names.
FreeObjs == Permutations(Objs \ {o1})
AllObjs  == Permutations(Objs)
=============================================================================
