----------------------------- MODULE DistMeter ------------------------------
(***************************************************************************)
(* One Timer or DistributionSummary (spectator/timer.cc, dist_summary.cc): *)
(* a count, a total, a sum of squares and a maximum in four atomics, which *)
(* Record updates one after the other while Measure resets them one after  *)
(* the other.  The update of one part is one step here: a fetch_add, or    *)
(* the loops of CounterMeter and MaxGaugeMeter, which are exact while      *)
(* nobody measures; a Measure that overlaps a Record makes the meter       *)
(* "mixed" and what it holds then is not claimed to be anything.           *)
(***************************************************************************)
EXTENDS Integers, FiniteSets

CONSTANTS
  Recorders,   \* threads that call Record
  Amounts,     \* the amounts they record
  MaxRecords   \* bound: calls of Record in a behaviour

ASSUME DistAssumption == IsFiniteSet(Recorders) /\ Amounts \subseteq Int /\ MaxRecords \in Nat

Parts == {"count", "total", "totalSq", "max"}

VARIABLES
  parts,        \* [Parts -> Nat]: count_, total_, totalSq_, max_
  recPc, recAmount,  \* of each recorder: the part it updates next, its amount
  distPc,       \* of the thread that measures: the part it takes next
  records,
  since,        \* what the Records called since the last Measure amount to
  mixed         \* some part may hold a share of a Record that a Measure cut in two

distVars == <<parts, recPc, recAmount, distPc, records, since, mixed>>

Nothing == [p \in Parts |-> 0]

DistInit ==
  /\ parts = Nothing
  /\ recPc = [r \in Recorders |-> "idle"]
  /\ recAmount = [r \in Recorders |-> 0]
  /\ distPc = "idle"
  /\ records = 0
  /\ since = Nothing
  /\ mixed = FALSE

\* A part after an amount was added to it.
Plus(p, old, v) ==
  CASE p = "count"   -> old + 1
    [] p = "total"   -> old + v
    [] p = "totalSq" -> old + v * v
    [] p = "max"     -> IF v > old THEN v ELSE old

\* The order in which Record and Measure go through the parts
NextPart(p) ==
  CASE p = "count"   -> "total"
    [] p = "total"   -> "totalSq"
    [] p = "totalSq" -> "max"
    [] p = "max"     -> "idle"

Recording == \E r \in Recorders : recPc[r] # "idle"

CallRecord_unchecked(r, v) ==
  /\ records < MaxRecords
  /\ recPc[r] = "idle"
  /\ records' = records + 1
  /\ recPc' = [recPc EXCEPT ![r] = "count"]
  /\ recAmount' = [recAmount EXCEPT ![r] = v]
  /\ since' = [p \in Parts |-> Plus(p, since[p], v)]
  /\ mixed' = (mixed \/ distPc # "idle")
  /\ UNCHANGED <<parts, distPc>>

\* Record: a negative amount is ignored.
CallRecord(r, v) ==
  /\ records < MaxRecords
  /\ recPc[r] = "idle"
  /\ records' = records + 1
  /\ IF v >= 0
     THEN /\ recPc' = [recPc EXCEPT ![r] = "count"]
          /\ recAmount' = [recAmount EXCEPT ![r] = v]
          /\ since' = [p \in Parts |-> Plus(p, since[p], v)]
          /\ mixed' = (mixed \/ distPc # "idle")
     ELSE UNCHANGED <<recPc, recAmount, since, mixed>>
  /\ UNCHANGED <<parts, distPc>>

\* count_.fetch_add, total_, add_double(&totalSq_), update_max(&max_)
RecordPart(r) ==
  /\ recPc[r] # "idle"
  /\ parts' = [parts EXCEPT ![recPc[r]] = Plus(recPc[r], @, recAmount[r])]
  /\ recPc' = [recPc EXCEPT ![r] = NextPart(@)]
  /\ recAmount' = [recAmount EXCEPT ![r] = IF recPc[r] = "max" THEN 0 ELSE @]
  /\ UNCHANGED <<distPc, records, since, mixed>>

\* Measure begins: it takes the count, and leaves the rest alone if it is zero.
\* A Record under way at this moment is cut in two.
MeasureCount ==
  /\ distPc = "idle"
  /\ distPc' = IF parts["count"] = 0 THEN "idle" ELSE "total"
  /\ parts' = [parts EXCEPT !["count"] = 0]
  /\ since' = Nothing
  /\ mixed' = ((mixed /\ parts["count"] = 0) \/ Recording)
  /\ UNCHANGED <<recPc, recAmount, records>>

MeasurePart_keep_max ==
  /\ distPc # "idle"
  /\ parts' = [parts EXCEPT ![distPc] = IF distPc = "max" THEN @ ELSE 0]
  /\ distPc' = NextPart(distPc)
  /\ UNCHANGED <<recPc, recAmount, records, since, mixed>>

\* Measure goes on: it takes the next part.
MeasurePart ==
  /\ distPc # "idle"
  /\ parts' = [parts EXCEPT ![distPc] = 0]
  /\ distPc' = NextPart(distPc)
  /\ UNCHANGED <<recPc, recAmount, records, since, mixed>>

DistNext ==
  \/ \E r \in Recorders : (\E v \in Amounts : CallRecord(r, v)) \/ RecordPart(r)
  \/ MeasureCount \/ MeasurePart

DistSpec == DistInit /\ [][DistNext]_distVars

-----------------------------------------------------------------------------
\* Types; no part of a meter is ever negative.
DistTypeOK ==
  /\ parts \in [Parts -> Nat] /\ since \in [Parts -> Nat]
  /\ recPc \in [Recorders -> Parts \cup {"idle"}]
  /\ recAmount \in [Recorders -> Nat]
  /\ distPc \in Parts \cup {"idle"}
  /\ records \in Nat /\ mixed \in BOOLEAN

\* When nobody is inside the meter and it is not mixed, its four parts describe
\* the same amounts: those recorded since the last Measure.  One complete
\* Measure that overlaps no Record is enough to separate what an earlier one
\* mixed; a Measure that finds a count of zero is not.
QuietIsExact == distPc = "idle" /\ ~Recording /\ ~mixed => parts = since
=============================================================================
