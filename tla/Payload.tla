------------------------------ MODULE Payload -------------------------------
(***************************************************************************)
(* How a batch of measurements becomes a payload (measurements_to_json,    *)
(* spectator/publisher.h) in the Smile format (smile.cc): a table of the   *)
(* strings that occur, in the order of a hash map, then every measurement  *)
(* as numbers of strings.  Numbers are written with as few bytes as they   *)
(* need; the widths of the bit fields are parameters, so that small tables *)
(* use all the lengths.                                                    *)
(***************************************************************************)
EXTENDS Totals, Sequences

CONSTANTS
  Measured,     \* measurements: records of name, tags (a sequence of pairs), value
  CommonTags,   \* common_tags_, a sequence of pairs
  AddStats,     \* the values of the tag "statistic" that are summed
  MaxBatch,     \* bound: measurements in a batch
  LowBits,      \* bits of the last byte of a number (6)
  HighBits      \* bits of the other bytes (7)

TagLists == Seq(STRING \X STRING)

ASSUME PayloadAssumption ==
  /\ LowBits \in Nat \ {0} /\ HighBits \in Nat \ {0} /\ MaxBatch \in Nat
  /\ CommonTags \in TagLists /\ Measured \subseteq [name : STRING, tags : TagLists, value : Int]

VARIABLES
  batch,    \* the measurements
  next,     \* the one to be appended
  table,    \* the strings, in the order they are numbered; <<>> before
  payload   \* bytes and strings written

payloadVars == <<batch, next, table, payload>>

-----------------------------------------------------------------------------
\* SmilePayload::Append

Low  == 2^LowBits
High == 2^HighBits

\* A tiny number is part of its token.  A longer one is a token, up to four bytes
\* of HighBits bits with the highest first, and a byte of LowBits bits that is
\* marked as the last.  Where three of the first kind are needed the token is not
\* the one for numbers (smile.cc:64 has kTokenInt32 for kByteInt32).
AppendInt(n) ==
  LET i  == n * 2
      i1 == i \div Low
      i2 == i1 \div High
      i3 == i2 \div High
      int32 == <<"token", "int32">>
      b0 == <<"last", i % Low>>
      b1 == <<"byte", i1 % High>>
      b2 == <<"byte", i2 % High>>
      b3 == <<"byte", i3 % High>>
  IN CASE i < Low \div 2 -> <<<<"tiny", i>>>>
       [] i >= Low \div 2 /\ i < Low -> <<int32, b0>>
       [] i >= Low /\ i1 < High -> <<int32, b1, b0>>
       [] i1 >= High /\ i2 < High -> <<int32, b2, b1, b0>>
       [] i2 >= High /\ i3 < High -> <<<<"token", "0x00">>, b3, b2, b1, b0>>
       [] OTHER -> <<int32, <<"byte", i3 \div High>>, b3, b2, b1, b0>>

AppendInts(ns) == Joined([i \in DOMAIN ns |-> AppendInt(ns[i])])
AppendString(s) == <<"string", s>>
AppendDouble(v) == <<"double", v>>

-----------------------------------------------------------------------------
\* measurements_to_json

StringsOf(tags) == {tags[i][1] : i \in DOMAIN tags} \cup {tags[i][2] : i \in DOMAIN tags}

Strings(ms) == StringsOf(CommonTags) \cup {"name"}
                 \cup UNION {{ms[j].name} \cup StringsOf(ms[j].tags) : j \in DOMAIN ms}

\* strings.find(s)
IndexOf(strings, s) == (CHOOSE i \in DOMAIN strings : strings[i] = s) - 1

\* add_tags and get_common_ids: key and value in turn.
TagIds(strings, tags) == [i \in 1..2 * Len(tags) |-> IndexOf(strings, tags[(i + 1) \div 2][2 - (i % 2)])]

\* op_from_tags: 0 adds, 10 takes the maximum.
op_from_tags(tags) ==
  IF \E i \in DOMAIN tags : tags[i][1] = "statistic" /\ tags[i][2] \in AddStats THEN 0 ELSE 10

Batches == UNION {[1..n -> Measured] : n \in 1..MaxBatch}

PayloadInit ==
  /\ batch \in Batches
  /\ next = 1 /\ table = <<>> /\ payload = <<>>

\* build_str_table: the number of strings and the strings, in the order in which the
\* map is traversed both times.  (The header and the array tokens around the payload,
\* smile.h:14-28, are constant and left out.)
build_str_table ==
  /\ table = <<>>
  /\ \E order \in [1..Cardinality(Strings(batch)) -> Strings(batch)] :
       /\ \A s \in Strings(batch) : \E i \in DOMAIN order : order[i] = s
       /\ table' = order
       /\ payload' = AppendInt(Len(order)) \o [i \in DOMAIN order |-> AppendString(order[i])]
  /\ UNCHANGED <<batch, next>>

append_measurement_unnamed(strings, m) ==
  AppendInt(Len(m.tags) + Len(CommonTags))
    \o AppendInts(TagIds(strings, CommonTags) \o TagIds(strings, m.tags)
                  \o <<IndexOf(strings, "name"), IndexOf(strings, m.name)>> \o <<op_from_tags(m.tags)>>)
    \o <<AppendDouble(m.value)>>

\* append_measurement: how many tags, the common ones, its own, the name as a tag,
\* the operation and the value.
append_measurement(strings, m) ==
  AppendInt(Len(m.tags) + 1 + Len(CommonTags))
    \o AppendInts(TagIds(strings, CommonTags) \o TagIds(strings, m.tags)
                  \o <<IndexOf(strings, "name"), IndexOf(strings, m.name)>> \o <<op_from_tags(m.tags)>>)
    \o <<AppendDouble(m.value)>>

AppendNext ==
  /\ table # <<>> /\ next <= Len(batch)
  /\ payload' = payload \o append_measurement(table, batch[next])
  /\ next' = next + 1
  /\ UNCHANGED <<batch, table>>

PayloadDone == next > Len(batch) /\ UNCHANGED payloadVars

PayloadNext == build_str_table \/ AppendNext \/ PayloadDone

PayloadSpec == PayloadInit /\ [][PayloadNext]_payloadVars

-----------------------------------------------------------------------------
\* The aggregator's side: a reader of the format

Unreadable == [ok |-> FALSE, value |-> <<>>, rest |-> <<>>]

\* The number at the start of p: after the token up to four bytes, then the last one.
ReadInt(p) ==
  LET ends == {i \in (2..6) \cap DOMAIN p : p[i][1] = "last" /\ \A j \in 2..i - 1 : p[j][1] = "byte"}
      e == CHOOSE i \in ends : TRUE
      byte(k) == IF k < e - 1 THEN p[e - k][2] ELSE 0
      high == ((byte(4) * High + byte(3)) * High + byte(2)) * High + byte(1)
  IN IF p = <<>> THEN Unreadable
     ELSE IF p[1][1] = "tiny" THEN [ok |-> TRUE, value |-> p[1][2] \div 2, rest |-> Tail(p)]
     ELSE IF p[1] # <<"token", "int32">> \/ ends = {} THEN Unreadable
     ELSE [ok |-> TRUE, value |-> (high * Low + p[e][2]) \div 2, rest |-> SubSeq(p, e + 1, Len(p))]

Begun(p) == [ok |-> TRUE, value |-> <<>>, rest |-> p]

\* One number more, and n numbers at the start of p.
ReadMore(r) ==
  LET one == ReadInt(r.rest)
  IN IF one.ok THEN [ok |-> TRUE, value |-> Append(r.value, one.value), rest |-> one.rest]
     ELSE Unreadable

ReadInts(n, p) ==
  LET read[i \in 0..n] == IF i = 0 THEN Begun(p) ELSE ReadMore(read[i - 1])
  IN read[n]

\* One measurement more, and n measurements at the start of p, with strings as the
\* table of strings.
ReadMeasurement(strings, r) ==
  LET size == ReadInt(r.rest)
      ids == ReadInts(2 * size.value + 1, size.rest)
      id(i) == strings[ids.value[i] + 1]
      m == [tags |-> [i \in 1..size.value |-> <<id(2 * i - 1), id(2 * i)>>],
            op |-> ids.value[2 * size.value + 1], value |-> Head(ids.rest)[2]]
  IN IF ~size.ok THEN Unreadable
     ELSE IF ~ids.ok \/ ids.rest = <<>> THEN Unreadable
     ELSE IF Head(ids.rest)[1] # "double" THEN Unreadable
     ELSE [ok |-> TRUE, value |-> Append(r.value, m), rest |-> Tail(ids.rest)]

ReadMeasurements(n, strings, p) ==
  LET read[i \in 0..n] == IF i = 0 THEN Begun(p) ELSE ReadMeasurement(strings, read[i - 1])
  IN read[n]

\* A payload of n measurements.
ReadPayload(n, p) ==
  LET size == ReadInt(p)
      strings == [i \in 1..size.value |-> size.rest[i][2]]
  IN ReadMeasurements(n, strings, SubSeq(size.rest, size.value + 1, Len(size.rest)))

\* What a measurement means to the aggregator.
Meaning(m) ==
  [tags |-> CommonTags \o m.tags \o <<<<"name", m.name>>>>,
   op |-> op_from_tags(m.tags), value |-> m.value]

-----------------------------------------------------------------------------
\* Types
PayloadTypeOK ==
  /\ next \in 1..MaxBatch + 1
  /\ Cardinality({table[i] : i \in DOMAIN table}) = Len(table)

\* The aggregator reads back the measurements of the batch, each with the common
\* tags, its own tags, its name and its operation, and nothing is left over, whatever
\* the order of the strings in the table.  It holds as long as no number needs the
\* fourth length, that is with fewer than 2^19 strings in a batch.
PayloadDecodes ==
  next > Len(batch) =>
    ReadPayload(Len(batch), payload)
      = [ok |-> TRUE, value |-> [j \in DOMAIN batch |-> Meaning(batch[j])], rest |-> <<>>]
=============================================================================
