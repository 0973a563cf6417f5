---------------------------- MODULE CounterMeter ----------------------------
(***************************************************************************)
(* One Counter (spectator/counter.cc) and add_double (atomicnumber.h): a   *)
(* loop of two loads and a compare-exchange that adders run while other    *)
(* threads Measure, that is, exchange the count with zero.  Every access   *)
(* to the atomic is an action.  The timestamp Add refreshes first is in    *)
(* Registry; counts are whole numbers instead of doubles.                  *)
(***************************************************************************)
EXTENDS Integers

CONSTANTS
  Adders,     \* threads that call Add on this counter
  Measurers,  \* threads that call Measure on it
  Deltas,     \* the amounts that are added
  MaxAdds     \* bound: calls of Add in a behaviour

ASSUME CounterAssumption == Deltas \subseteq Int /\ MaxAdds \in Nat

VARIABLES
  count,            \* count_
  addPc, addDelta,  \* of each adder: where it is and what it adds
  addCurrent,       \* what its first load returned
  addLoaded,        \* what its second load returned
  adds,
  added,            \* sum of the deltas whose Add has taken effect
  reported          \* sum of the counts Measure has taken

counterVars == <<count, addPc, addDelta, addCurrent, addLoaded, adds, added, reported>>

CounterInit ==
  /\ count = 0
  /\ addPc = [a \in Adders |-> "idle"]
  /\ addDelta = [a \in Adders |-> 0]
  /\ addCurrent = [a \in Adders |-> 0]
  /\ addLoaded = [a \in Adders |-> 0]
  /\ adds = 0 /\ added = 0 /\ reported = 0

\* Counter::Add: a negative delta is ignored.
CallAdd(a, d) ==
  /\ adds < MaxAdds
  /\ addPc[a] = "idle"
  /\ addPc' = [addPc EXCEPT ![a] = IF d < 0 THEN "idle" ELSE "load"]
  /\ addDelta' = [addDelta EXCEPT ![a] = IF d < 0 THEN 0 ELSE d]
  /\ adds' = adds + 1
  /\ UNCHANGED <<count, addCurrent, addLoaded, added, reported>>

\* current = n->load()
AddLoad(a) ==
  /\ addPc[a] = "load"
  /\ addCurrent' = [addCurrent EXCEPT ![a] = count]
  /\ addPc' = [addPc EXCEPT ![a] = "reload"]
  /\ UNCHANGED <<count, addDelta, addLoaded, adds, added, reported>>

\* the second n->load(), an operand of the compare-exchange
AddReload(a) ==
  /\ addPc[a] = "reload"
  /\ addLoaded' = [addLoaded EXCEPT ![a] = count]
  /\ addPc' = [addPc EXCEPT ![a] = "cas"]
  /\ UNCHANGED <<count, addDelta, addCurrent, adds, added, reported>>

AddSucceeds_store(a) ==
  /\ addPc[a] = "cas"
  /\ count' = addLoaded[a] + addDelta[a]
  /\ added' = added + addDelta[a]
  /\ addPc' = [addPc EXCEPT ![a] = "idle"]
  /\ UNCHANGED <<addDelta, addCurrent, addLoaded, adds, reported>>

\* compare_exchange_weak(current, loaded + delta)
AddSucceeds(a) ==
  /\ addPc[a] = "cas"
  /\ count = addCurrent[a]
  /\ count' = addLoaded[a] + addDelta[a]
  /\ added' = added + addDelta[a]
  /\ addPc' = [addPc EXCEPT ![a] = "idle"]
  /\ UNCHANGED <<addDelta, addCurrent, addLoaded, adds, reported>>

\* It fails if the count is another one, and may fail spuriously.
AddFails(a) ==
  /\ addPc[a] = "cas"
  /\ addPc' = [addPc EXCEPT ![a] = "load"]
  /\ UNCHANGED <<count, addDelta, addCurrent, addLoaded, adds, added, reported>>

\* Counter::Measure: the count is exchanged with zero and reported if positive.
CounterMeasure ==
  /\ Measurers # {}
  /\ count' = 0
  /\ reported' = reported + count
  /\ UNCHANGED <<addPc, addDelta, addCurrent, addLoaded, adds, added>>

CounterNext ==
  \/ \E a \in Adders :
       \/ \E d \in Deltas : CallAdd(a, d)
       \/ AddLoad(a) \/ AddReload(a) \/ AddSucceeds(a) \/ AddFails(a)
  \/ CounterMeasure

CounterSpec == CounterInit /\ [][CounterNext]_counterVars

-----------------------------------------------------------------------------
\* Types; a counter never goes below zero.
CounterTypeOK ==
  /\ count \in Nat /\ added \in Nat /\ reported \in Nat /\ adds \in Nat
  /\ addPc \in [Adders -> {"idle", "load", "reload", "cas"}]
  /\ addDelta \in [Adders -> Nat]
  /\ addCurrent \in [Adders -> Nat]
  /\ addLoaded \in [Adders -> Nat]

\* Everything added is either still in the count or was reported, once:
\* "Atomically add a delta to an atomic double, equivalent to fetch_add"
\* (atomicnumber.h:8-9) for a counter somebody else measures.
CountConserved == reported + count = added

Abstract == INSTANCE FetchAdd

\* The loop of add_double implements one atomic addition.
ImplementsFetchAdd == Abstract!Spec

\* How the daemon uses a counter: one thread adds while another measures, or
\* several threads add and nobody measures meanwhile.
SingleAdder == \A a, b \in Adders : a = b
Disciplined == SingleAdder \/ Measurers = {}
=============================================================================
