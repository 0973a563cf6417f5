------------------------------- MODULE Totals -------------------------------
(***************************************************************************)
(* Sums of natural numbers.  The sum of the values of a function counts a  *)
(* set that has as many elements for each point as the value at it: what   *)
(* is known about cardinalities then says how a sum changes, without an    *)
(* induction over the order in which it would be computed.  And sequences  *)
(* that are joined.                                                        *)
(***************************************************************************)
EXTENDS Integers, FiniteSets

SeqExt == INSTANCE SequencesExt

Tally(f) == UNION {{d} \X (1 .. f[d]) : d \in DOMAIN f}

Total(f) == Cardinality(Tally(f))

\* The sizes of a sequence of records.
Sizes(s) == [i \in DOMAIN s |-> s[i].size]

\* The sequences of a sequence, one after the other.
Joined(ss) == SeqExt!FlattenSeq(ss)
=============================================================================
