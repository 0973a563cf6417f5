------------------------------ MODULE FetchAdd ------------------------------
(***************************************************************************)
(* What a counter promises: Add is one atomic addition, Measure takes the  *)
(* whole count and leaves zero.                                            *)
(***************************************************************************)
EXTENDS Integers

CONSTANT Deltas

VARIABLES count, reported

Init == count = 0 /\ reported = 0

Add == \E d \in Deltas : /\ d >= 0
                         /\ count' = count + d
                         /\ UNCHANGED reported

Measure == /\ reported' = reported + count
           /\ count' = 0

Spec == Init /\ [][Add \/ Measure]_<<count, reported>>
=============================================================================
