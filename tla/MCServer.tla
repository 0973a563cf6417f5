------------------------------ MODULE MCServer ------------------------------
(***************************************************************************)
(* Datagrams for a small instance of the server: for each of the two kinds *)
(* of percentile meter lines that use the cache, lines for the same meter  *)
(* without it, lines that are ignored and lines with an error, before,     *)
(* between and after one another.                                          *)
(***************************************************************************)
EXTENDS Server

MCTypeOf == [i \in {"t", "d"} |-> IF i = "t" THEN "T" ELSE "D"]

WellFormed(type, i, neg) ==
  [type |-> type, extra |-> "none", separator |-> TRUE, measurement |-> TRUE,
   id |-> i, negative |-> neg]

SpectatorDatagrams(i) ==
  LET line == WellFormed(MCTypeOf[i], i, FALSE)
      negative == WellFormed(MCTypeOf[i], i, TRUE)
      bad == [WellFormed("X", i, FALSE) EXCEPT !.extra = "invalid"]
      empty == [WellFormed("", i, FALSE) EXCEPT !.separator = FALSE]
  IN {<<line>>, <<negative>>, <<bad, line>>, <<empty, line>>, <<line, empty, line>>,
      <<negative, empty, empty>>}

StatsdDatagrams(i) ==
  LET line(type, f) == [type |-> type, form |-> f, id |-> i, negative |-> FALSE]
      direct == IF i = "t" THEN "ms" ELSE "h"
  IN {<<line(direct, "ok")>>, <<line(direct, "rate"), line("s", "ok"), line(direct, "ok")>>}

MCDatagrams == UNION {SpectatorDatagrams(i) \cup StatsdDatagrams(i) : i \in Ids}

\* Whether the lines of a datagram, if there is one, are all about i.
About(i) == \A n \in DOMAIN packet' : packet'[n].id = i
=============================================================================
