---------------------------- MODULE LineProtocol ----------------------------
(***************************************************************************)
(* The texts that name a meter and how they are parsed: the part of a line *)
(* after its type (get_measurement, server/spectatord.cc), the list of     *)
(* tags of a statsd line (parse_statsd_line) and the id in the path of an  *)
(* admin request (parse_id, admin/admin_server.cc).  A text is a sequence  *)
(* of symbols: the separators, the digit "1", which alone is a number, and *)
(* other characters.                                                       *)
(***************************************************************************)
EXTENDS Integers, Sequences

CONSTANTS
  Symbols,       \* the symbols of the texts that are tried, ':' excepted
  MaxTextLength  \* bound

\* No text holds the NUL that ends it.
ASSUME LineAssumption == ":" \notin Symbols /\ "end" \notin Symbols /\ MaxTextLength \in Nat

VARIABLES
  text,   \* a text, as a client or an operator wrote it
  result  \* what the parsers made of it

lineVars == <<text, result>>

Comma == ","

NoTags == [k \in {} |-> k]
Failed == [ok |-> FALSE, name |-> <<>>, tags |-> NoTags]
Parsed(name, tags) == [ok |-> TRUE, name |-> name, tags |-> tags]

\* find_first_of(set, from): the first position, or 0.
find_first_of(s, set, from) ==
  IF \E j \in from..Len(s) : s[j] \in set
  THEN CHOOSE j \in from..Len(s) : s[j] \in set /\ \A i \in from..j - 1 : s[i] \notin set
  ELSE 0

\* The symbol at a position; the end of the string after the last.
At(s, pos) == IF pos <= Len(s) THEN s[pos] ELSE "end"

\* Tags.add
With(tags, key, value) ==
  [k \in DOMAIN tags \cup {key} |-> IF k = key THEN value ELSE tags[k]]

-----------------------------------------------------------------------------
(* Each parser has one loop over the tags.  An operator gives the state    *)
(* after a turn of it; once its status is not "turn" a state stays.        *)

Scan(pos, status, tags) == [pos |-> pos, status |-> status, tags |-> tags]

\* get_measurement

MeasurementTags_first_tag(s, st) ==
  LET k == find_first_of(s, {"="}, st.pos + 1)
      v == find_first_of(s, {Comma, ":"}, k + 1)
  IN IF st.status # "turn" THEN st
     ELSE IF s[st.pos] = ":" THEN Scan(st.pos, "done", st.tags)
     ELSE IF k = 0 THEN Scan(st.pos + 1, "done", st.tags)
     ELSE IF v = 0 THEN Scan(st.pos, "failed", st.tags)
     ELSE Scan(find_first_of(s, {":"}, v), "turn",
               With(st.tags, SubSeq(s, st.pos + 1, k - 1), SubSeq(s, k + 1, v - 1)))

\* From the separator at pos.  The loop ends at the ':', or one symbol further on
\* where no '=' is left, and fails where a value has no end.
MeasurementTags(s, st) ==
  LET k == find_first_of(s, {"="}, st.pos + 1)
      v == find_first_of(s, {Comma, ":"}, k + 1)
  IN IF st.status # "turn" THEN st
     ELSE IF s[st.pos] = ":" THEN Scan(st.pos, "done", st.tags)
     ELSE IF k = 0 THEN Scan(st.pos + 1, "done", st.tags)
     ELSE IF v = 0 THEN Scan(st.pos, "failed", st.tags)
     ELSE Scan(v, "turn", With(st.tags, SubSeq(s, st.pos + 1, k - 1), SubSeq(s, k + 1, v - 1)))

\* parse_id: no ':', and the last value ends with the text.
IdTags(s, st) ==
  LET k == find_first_of(s, {"="}, st.pos + 1)
      v == find_first_of(s, {Comma}, k + 1)
      end == IF v = 0 THEN Len(s) + 1 ELSE v
  IN IF st.status # "turn" THEN st
     ELSE IF k = 0 THEN Scan(st.pos, "done", st.tags)
     ELSE Scan(end, IF v = 0 THEN "done" ELSE "turn",
               With(st.tags, SubSeq(s, st.pos + 1, k - 1), SubSeq(s, k + 1, end - 1)))

\* add_tag: a key without a value is a marker and gets the value 1.
add_tag(tags, s, begin_key, end_key, begin_value, end_value) ==
  LET key == SubSeq(s, begin_key, (IF begin_value = 0 THEN end_value ELSE end_key) - 1)
      value == IF begin_value = 0 THEN <<"1">> ELSE SubSeq(s, begin_value, end_value - 1)
  IN IF key = <<>> \/ value = <<>> THEN Failed ELSE Parsed(<<>>, With(tags, key, value))

\* parse_statsd_line, what follows the '#': the scan from position pos, and where
\* the key and the value begin and the key ends.
StatsdScan(pos, status, tags, begin_key, end_key, begin_value) ==
  [pos |-> pos, status |-> status, tags |-> tags,
   begin_key |-> begin_key, end_key |-> end_key, begin_value |-> begin_value]

StatsdTags(s, st) ==
  LET colon == At(s, st.pos + 1) = ":"
      p == IF colon THEN st.pos + 2 ELSE st.pos + 1
      end_key == IF colon THEN st.pos + 1 ELSE st.end_key
      begin_value == IF colon THEN p ELSE st.begin_value
      last == add_tag(st.tags, s, st.begin_key, st.end_key, st.begin_value, st.pos)
      added == add_tag(st.tags, s, st.begin_key, end_key, begin_value, p)
  IN IF st.status # "turn" THEN st
     ELSE IF At(s, st.pos) = "end"
     THEN StatsdScan(st.pos, IF last.ok THEN "done" ELSE "failed", last.tags, 0, 0, 0)
     ELSE IF At(s, p) # Comma
     THEN StatsdScan(p, "turn", st.tags, st.begin_key, end_key, begin_value)
     ELSE StatsdScan(p + 1, IF added.ok THEN "turn" ELSE "failed", added.tags, p + 1, end_key, 0)

Turn(parser, s, st) ==
  IF parser = "line" THEN MeasurementTags(s, st)
  ELSE IF parser = "id" THEN IdTags(s, st)
  ELSE StatsdTags(s, st)

\* The state at the end of the loop: every turn before it goes on by a symbol.
Loop(parser, s, start) ==
  LET after[n \in 0..Len(s) + 1] == IF n = 0 THEN start ELSE Turn(parser, s, after[n - 1])
  IN after[Len(s) + 1]

-----------------------------------------------------------------------------
(* The parsers *)

\* The name, the tags if a ',' follows it, and a number; what comes after the
\* number gives no more than a warning.
get_measurement(s) ==
  LET pos == find_first_of(s, {Comma, ":"}, 1)
      end == Loop("line", s, Scan(pos, "turn", NoTags))
  IN IF pos \in {0, 1} \/ end.status = "failed" \/ At(s, end.pos + 1) # "1" THEN Failed
     ELSE Parsed(SubSeq(s, 1, pos - 1), end.tags)

parse_id(s) ==
  LET pos == find_first_of(s, {Comma}, 1)
  IN IF pos = 0 THEN Parsed(s, NoTags)
     ELSE Parsed(SubSeq(s, 1, pos - 1), Loop("id", s, Scan(pos, "turn", NoTags)).tags)

parse_statsd_tags(s) ==
  LET end == Loop("statsd", s, StatsdScan(1, "turn", NoTags, 1, 0, 0))
  IN IF end.status = "failed" THEN Failed ELSE Parsed(<<>>, end.tags)

-----------------------------------------------------------------------------
\* The pairs of a text as statsd writes them.
Statsd(s) == [i \in DOMAIN s |-> IF s[i] = "=" THEN ":" ELSE s[i]]

\* A client sends the text in a line, before a value, or as statsd tags, an
\* operator as the id of a DELETE.
Parse(s) == <<get_measurement(s \o <<":", "1">>), parse_id(s), parse_statsd_tags(Statsd(s))>>

LineInit == text = <<>> /\ result = Parse(<<>>)

\* The next text, one symbol longer; after the longest the empty one again.
ParseLonger(c) ==
  /\ Len(text) < MaxTextLength
  /\ text' = Append(text, c) /\ result' = Parse(text')

ParseAgain ==
  /\ Len(text) = MaxTextLength
  /\ text' = <<>> /\ result' = Parse(<<>>)

LineNext == (\E c \in Symbols : ParseLonger(c)) \/ ParseAgain

LineSpec == LineInit /\ [][LineNext]_lineVars

-----------------------------------------------------------------------------
\* Types
LineTypeOK ==
  /\ Len(text) <= MaxTextLength /\ {text[i] : i \in DOMAIN text} \subseteq Symbols
  /\ Len(result) = 3

\* The pieces of s between the commas, each named by the comma before it; 0 names
\* the first.
Commas(s) == {i \in DOMAIN s : s[i] = Comma}
PieceEnd(s, i) == LET j == find_first_of(s, {Comma}, i + 1) IN IF j = 0 THEN Len(s) + 1 ELSE j
Piece(s, i) == SubSeq(s, i + 1, PieceEnd(s, i) - 1)

\* A piece that is a key, one '=' and a value.
IsPair(p) == \E i \in 2..Len(p) - 1 : p[i] = "=" /\ \A j \in DOMAIN p \ {i} : p[j] # "="
KeyOf(p) == SubSeq(p, 1, find_first_of(p, {"="}, 1) - 1)
ValueOf(p) == SubSeq(p, find_first_of(p, {"="}, 1) + 1, Len(p))

\* The tags that a list of distinct keys and their values stands for.
IsPairList(P) ==
  /\ \A p \in P : IsPair(p)
  /\ \A p, q \in P : KeyOf(p) = KeyOf(q) => p = q
PairMap(P) == [k \in {KeyOf(p) : p \in P} |-> ValueOf(CHOOSE p \in P : KeyOf(p) = k)]

\* A well-formed id, a name and key=value pairs, is read alike from a line and
\* from the path of a DELETE; and whatever text a line is accepted with, a DELETE
\* of that text names the meter which the line made.  A well-formed list of
\* statsd tags gives its keys and values.
LineRoundTrip ==
  LET name == Piece(text, 0)
      pairs == {Piece(text, i) : i \in Commas(text)}
      list == {name} \cup pairs
  IN /\ name # <<>> /\ IsPairList(pairs) =>
          result[1] = Parsed(name, PairMap(pairs)) /\ result[2] = result[1]
     /\ result[1].ok => result[2] = result[1]
     /\ IsPairList(list) => result[3] = Parsed(<<>>, PairMap(list))
=============================================================================
