------------------------------- MODULE TagMap -------------------------------
(***************************************************************************)
(* What a set of tags promises: a map from keys to values, however large.  *)
(* Add replaces the value of a key that is there; a copy is independent of *)
(* its source; a map that was moved from is gone.                          *)
(***************************************************************************)
CONSTANTS Slots, Keys, Values

VARIABLE maps  \* [Slots -> a map, or Gone]

Gone == [x \in {0} |-> 0]   \* no map: no string is 0
Empty == [k \in {} |-> k]
Put(map, k, v) == [x \in DOMAIN map \cup {k} |-> IF x = k THEN v ELSE map[x]]

Init == maps = [s \in Slots |-> Gone]

New(s) == maps[s] = Gone /\ maps' = [maps EXCEPT ![s] = Empty]

Destroy(s) == maps[s] # Gone /\ maps' = [maps EXCEPT ![s] = Gone]

Add(s) ==
  /\ maps[s] # Gone
  /\ \E k \in Keys, v \in Values : maps' = [maps EXCEPT ![s] = Put(@, k, v)]

Copy(s, t) ==
  /\ maps[s] # Gone /\ maps[t] = Gone
  /\ maps' = [maps EXCEPT ![t] = maps[s]]

Move(s, t) ==
  /\ maps[s] # Gone /\ maps[t] = Gone
  /\ maps' = [maps EXCEPT ![t] = maps[s], ![s] = Gone]

\* WithTag: a copy with one more tag.
Extend(s, t) ==
  /\ maps[s] # Gone /\ maps[t] = Gone
  /\ \E k \in Keys, v \in Values : maps' = [maps EXCEPT ![t] = Put(maps[s], k, v)]

Next == \E s \in Slots :
  \/ New(s) \/ Destroy(s) \/ Add(s)
  \/ \E t \in Slots : Copy(s, t) \/ Move(s, t) \/ Extend(s, t)

Spec == Init /\ [][Next]_maps
=============================================================================
