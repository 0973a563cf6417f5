----------------------------- MODULE TagsProofs -----------------------------
(***************************************************************************)
(* Tags behave as maps, whatever their number, the strings and the memory  *)
(* they are kept in, and the common tags that the admin server may change  *)
(* change as a whole.                                                      *)
(*                                                                         *)
(* The tags of an object are good (GoodTags) over a pool if there is room  *)
(* for them where begin_ points, their pointers lead into the pool, and    *)
(* their keys are sorted.  The pool (PoolOK) holds valid strings, each     *)
(* once.  Both together are inductive, and each operation on good tags is  *)
(* one on the map they stand for.                                          *)
(***************************************************************************)
EXTENDS Tags, Admin, FiniteSetTheorems, FunctionTheorems, SequenceTheorems, TLAPS

-----------------------------------------------------------------------------
\* Objects

Tag == [key : Nat, value : Nat]

\* An object's parts; what they hold is Tags::entries_, the allocated memory and the union.
Object == [size : Nat, entries : [1..kSmallTags -> Tag], capacity : Nat,
           begin : {"entries", "memory"}, memory : Seq(Tag)]

\* begin_ points to room for n tags: to entries_ while they are few, afterwards to
\* memory whose size is in capacity_.
Room(o, n) ==
  /\ o \in Object
  /\ o.begin = IF n > kSmallTags THEN "memory" ELSE "entries"
  /\ n > kSmallTags => o.capacity = Len(o.memory) /\ n <= Len(o.memory)

LEMMA TagSizes == kSmallTags \in Nat /\ kSmallTags > 0 /\ TagGrowth \in Nat /\ TagGrowth > 0
BY TagsAssumption

LEMMA JunkIsTag == Junk \in Tag
BY DEF Junk, Tag

\* The memory at begin_ is an array of tags with room for n.
LEMMA MemoryType ==
  ASSUME NEW o, NEW n \in Nat, Room(o, n)
  PROVE  /\ Memory(o) \in Seq(Tag) /\ n <= Len(Memory(o))
         /\ DOMAIN Memory(o) = 1..Len(Memory(o)) /\ Len(Memory(o)) \in Nat
<1>1. kSmallTags \in Nat
  BY TagSizes
<1>2. o.entries \in [1..kSmallTags -> Tag] /\ o.memory \in Seq(Tag)
  BY DEF Room, Object
<1>3. o.entries \in Seq(Tag) /\ Len(o.entries) = kSmallTags
  <2>1. o.entries \in Seq(Tag)
    BY <1>1, <1>2, SeqDef
  <2>2. DOMAIN o.entries = 1..kSmallTags
    BY <1>2
  <2>3. Len(o.entries) \in Nat /\ DOMAIN o.entries = 1..Len(o.entries)
    BY <2>1, LenProperties
  <2>4. Len(o.entries) = kSmallTags
    BY <1>1, <2>2, <2>3
  <2> QED BY <2>1, <2>4
<1>4. CASE n > kSmallTags
  <2>1. Memory(o) = o.memory /\ n <= Len(o.memory)
    BY <1>4 DEF Room, Memory
  <2> QED BY <1>2, <2>1, LenProperties
<1>5. CASE n <= kSmallTags
  <2>1. Memory(o) = o.entries
    BY <1>1, <1>5 DEF Room, Memory
  <2> QED BY <1>3, <1>5, <2>1, LenProperties
<1> QED BY <1>1, <1>4, <1>5

\* Writing the tags at begin_ changes nothing else.
LEMMA StoreAllRoom ==
  ASSUME NEW o, NEW n \in Nat, Room(o, n), NEW ts \in Seq(Tag), Len(ts) = Len(Memory(o))
  PROVE  /\ Room(StoreAll(o, ts), n) /\ StoreAll(o, ts).size = o.size
         /\ Memory(StoreAll(o, ts)) = ts
<1>1. kSmallTags \in Nat
  BY TagSizes
<1>2. o \in Object
  BY DEF Room
<1>3. CASE n > kSmallTags
  <2>1. o.begin = "memory" /\ Memory(o) = o.memory /\ o.capacity = Len(o.memory) /\ n <= Len(o.memory)
    BY <1>3 DEF Room, Memory
  <2> DEFINE x == [o EXCEPT !.memory = ts]
  <2>2. StoreAll(o, ts) = x
    BY <2>1 DEF StoreAll
  <2>3. x \in Object /\ x.size = o.size /\ x.begin = "memory" /\ x.memory = ts /\ x.capacity = o.capacity
    BY <1>2, <2>1 DEF Object
  <2> HIDE DEF x
  <2>4. Room(x, n)
    BY <1>3, <2>1, <2>3 DEF Room
  <2> QED BY <2>2, <2>3, <2>4 DEF Memory
<1>4. CASE n <= kSmallTags
  <2>1. o.begin = "entries" /\ Memory(o) = o.entries /\ ~(n > kSmallTags)
    BY <1>1, <1>4 DEF Room, Memory
  <2> DEFINE x == [o EXCEPT !.entries = ts]
  <2>2. StoreAll(o, ts) = x
    BY <2>1 DEF StoreAll
  <2>3. ts \in [1..kSmallTags -> Tag]
    <3>1. ts \in [1..Len(ts) -> Tag]
      BY LenProperties
    <3>2. Len(Memory(o)) \in Nat /\ DOMAIN Memory(o) = 1..Len(Memory(o))
      BY MemoryType
    <3>3. DOMAIN Memory(o) = 1..kSmallTags
      BY <1>2, <2>1 DEF Object
    <3>4. Len(Memory(o)) = kSmallTags
      BY <1>1, <3>2, <3>3
    <3> QED BY <3>1, <3>4
  <2>4. x \in Object /\ x.size = o.size /\ x.begin = "entries" /\ x.entries = ts
    BY <1>2, <2>1, <2>3 DEF Object
  <2> HIDE DEF x
  <2>5. Room(x, n)
    BY <2>1, <2>4 DEF Room
  <2> QED BY <2>2, <2>4, <2>5 DEF Memory
<1> QED BY <1>1, <1>3, <1>4

\* Tags()
LEMMA NewRoom == Room(NewTags, 0) /\ NewTags.size = 0
<1>1. kSmallTags \in Nat /\ ~(0 > kSmallTags)
  BY TagSizes
<1>2. JunkTags(kSmallTags) \in [1..kSmallTags -> Tag]
  BY JunkIsTag DEF JunkTags
<1>3. <<>> \in Seq(Tag)
  BY EmptySeq
<1>4. NewTags \in Object
  BY <1>2, <1>3 DEF NewTags, Object
<1> QED BY <1>1, <1>4 DEF Room, NewTags

\* An object as it is between two calls.
WellFormed(o) == Room(o, o.size)

\* reallocate makes room for one more, and the tags are where they were.
LEMMA Reallocated ==
  ASSUME NEW o, WellFormed(o), NEW r, r = IF o.size = capacity(o) THEN reallocate(o) ELSE o
  PROVE  /\ Room(r, o.size + 1) /\ r.size = o.size
         /\ \A i \in 1..o.size : TagAt(r, i) = TagAt(o, i)
<1>1. kSmallTags \in Nat /\ kSmallTags > 0 /\ TagGrowth \in Nat /\ TagGrowth > 0
  BY TagSizes
<1>2. o \in Object /\ o.size \in Nat
  BY DEF WellFormed, Room, Object
<1>3. JunkTags(TagGrowth) \in Seq(Tag) /\ Len(JunkTags(TagGrowth)) = TagGrowth
  <2>1. JunkTags(TagGrowth) \in [1..TagGrowth -> Tag]
    BY JunkIsTag DEF JunkTags
  <2>2. JunkTags(TagGrowth) \in Seq(Tag)
    BY <1>1, <2>1, SeqDef
  <2>3. DOMAIN JunkTags(TagGrowth) = 1..TagGrowth
    BY <2>1
  <2>4. Len(JunkTags(TagGrowth)) \in Nat /\ DOMAIN JunkTags(TagGrowth) = 1..Len(JunkTags(TagGrowth))
    BY <2>2, LenProperties
  <2>5. Len(JunkTags(TagGrowth)) = TagGrowth
    BY <1>1, <2>3, <2>4
  <2> QED BY <2>2, <2>5
<1>4. CASE o.size # capacity(o)
  <2>1. r = o
    BY <1>4
  <2>2. CASE o.size > kSmallTags
    <3>1. capacity(o) = Len(o.memory) /\ o.size <= Len(o.memory) /\ o.begin = "memory" /\ o.capacity = Len(o.memory)
      BY <2>2 DEF capacity, is_large, WellFormed, Room
    <3>2. Len(o.memory) \in Nat
      BY <1>2, LenProperties DEF Object
    <3>3. o.size + 1 > kSmallTags /\ o.size + 1 <= Len(o.memory)
      BY <1>1, <1>2, <1>4, <2>2, <3>1, <3>2
    <3> QED BY <1>2, <2>1, <3>1, <3>3 DEF Room
  <2>3. CASE o.size <= kSmallTags
    <3>1. capacity(o) = kSmallTags /\ o.begin = "entries"
      BY <1>1, <1>2, <2>3 DEF capacity, is_large, WellFormed, Room
    <3>2. ~(o.size + 1 > kSmallTags)
      BY <1>1, <1>2, <1>4, <2>3, <3>1
    <3> QED BY <1>2, <2>1, <3>1, <3>2 DEF Room
  <2> QED BY <1>1, <1>2, <2>2, <2>3
<1>5. CASE o.size = capacity(o) /\ o.size > kSmallTags
  <2>1. o.begin = "memory" /\ o.capacity = Len(o.memory) /\ capacity(o) = Len(o.memory) /\ is_large(o)
    BY <1>5 DEF capacity, is_large, WellFormed, Room
  <2> DEFINE mem == o.memory \o JunkTags(TagGrowth)
  <2>2. r = [o EXCEPT !.memory = mem, !.capacity = Len(o.memory) + TagGrowth]
    BY <1>5, <2>1 DEF reallocate
  <2>3. o.memory \in Seq(Tag) /\ Len(o.memory) \in Nat
    BY <1>2, LenProperties DEF Object
  <2>4. mem \in Seq(Tag) /\ Len(mem) = Len(o.memory) + TagGrowth
        /\ \A i \in 1..Len(o.memory) + TagGrowth :
             mem[i] = IF i <= Len(o.memory) THEN o.memory[i] ELSE JunkTags(TagGrowth)[i - Len(o.memory)]
    <3>1. mem \in Seq(Tag) /\ Len(mem) = Len(o.memory) + Len(JunkTags(TagGrowth))
          /\ \A i \in 1..Len(o.memory) + Len(JunkTags(TagGrowth)) :
               mem[i] = IF i <= Len(o.memory) THEN o.memory[i] ELSE JunkTags(TagGrowth)[i - Len(o.memory)]
      BY <1>3, <2>3, ConcatProperties
    <3> QED BY <1>3, <3>1
  <2> HIDE DEF mem
  <2>5. Len(mem) \in Nat
    BY <1>1, <2>3, <2>4
  <2>6. r \in Object /\ r.size = o.size /\ r.begin = "memory" /\ r.memory = mem /\ r.capacity = Len(mem)
    BY <1>2, <2>1, <2>2, <2>4, <2>5 DEF Object
  <2>7. o.size + 1 > kSmallTags /\ o.size + 1 <= Len(mem)
    BY <1>1, <1>2, <1>5, <2>1, <2>3, <2>4
  <2>8. ASSUME NEW i \in 1..o.size PROVE mem[i] = o.memory[i]
    <3>1. i \in 1..Len(o.memory) + TagGrowth /\ i <= Len(o.memory)
      BY <1>1, <1>2, <1>5, <2>1, <2>3
    <3> QED BY <2>4, <3>1
  <2> QED BY <2>1, <2>6, <2>7, <2>8 DEF Room, TagAt, Memory
<1>6. CASE o.size = capacity(o) /\ o.size <= kSmallTags
  <2>1. o.begin = "entries" /\ capacity(o) = kSmallTags /\ ~is_large(o)
    BY <1>1, <1>2, <1>6 DEF capacity, is_large, WellFormed, Room
  <2> DEFINE mem == o.entries \o JunkTags(TagGrowth)
             ent == [o.entries EXCEPT ![1] = Junk]
  <2>2. r = [o EXCEPT !.begin = "memory", !.memory = mem, !.capacity = kSmallTags + TagGrowth, !.entries = ent]
    BY <1>2, <1>6, <2>1 DEF reallocate, SetCapacity, Object
  <2>3. o.entries \in Seq(Tag) /\ Len(o.entries) = kSmallTags
    <3>1. Memory(o) = o.entries
      BY <2>1 DEF Memory
    <3>2. Memory(o) \in Seq(Tag) /\ DOMAIN Memory(o) = 1..Len(Memory(o)) /\ Len(Memory(o)) \in Nat
      BY <1>2, MemoryType DEF WellFormed
    <3>3. DOMAIN o.entries = 1..kSmallTags
      BY <1>2 DEF Object
    <3>4. Len(o.entries) = kSmallTags
      BY <1>1, <3>1, <3>2, <3>3
    <3> QED BY <3>1, <3>2, <3>4
  <2>4. mem \in Seq(Tag) /\ Len(mem) = kSmallTags + TagGrowth
        /\ \A i \in 1..kSmallTags + TagGrowth :
             mem[i] = IF i <= kSmallTags THEN o.entries[i] ELSE JunkTags(TagGrowth)[i - kSmallTags]
    <3>1. mem \in Seq(Tag) /\ Len(mem) = Len(o.entries) + Len(JunkTags(TagGrowth))
          /\ \A i \in 1..Len(o.entries) + Len(JunkTags(TagGrowth)) :
               mem[i] = IF i <= Len(o.entries) THEN o.entries[i] ELSE JunkTags(TagGrowth)[i - Len(o.entries)]
      BY <1>3, <2>3, ConcatProperties
    <3> QED BY <1>3, <2>3, <3>1
  <2>5. ent \in [1..kSmallTags -> Tag]
    BY <1>2, JunkIsTag DEF Object
  <2> HIDE DEF mem, ent
  <2>6. Len(mem) \in Nat
    BY <1>1, <2>4
  <2>7. r \in Object /\ r.size = o.size /\ r.begin = "memory" /\ r.memory = mem /\ r.capacity = Len(mem)
    BY <1>2, <2>2, <2>4, <2>5, <2>6 DEF Object
  <2>8. o.size + 1 > kSmallTags /\ o.size + 1 <= Len(mem)
    BY <1>1, <1>2, <1>6, <2>1, <2>4
  <2>9. ASSUME NEW i \in 1..o.size PROVE mem[i] = o.entries[i]
    <3>1. i \in 1..kSmallTags + TagGrowth /\ i <= kSmallTags
      BY <1>1, <1>2, <1>6, <2>1
    <3> QED BY <2>4, <3>1
  <2> QED BY <2>1, <2>7, <2>8, <2>9 DEF Room, TagAt, Memory
<1> QED BY <1>1, <1>2, <1>4, <1>5, <1>6

\* A copy has the same tags ...
LEMMA Copied ==
  ASSUME NEW o, WellFormed(o)
  PROVE  /\ WellFormed(CopyOf(o)) /\ CopyOf(o).size = o.size
         /\ \A i \in 1..o.size : TagAt(CopyOf(o), i) = TagAt(o, i)
<1>1. kSmallTags \in Nat /\ kSmallTags > 0
  BY TagSizes
<1>2. o \in Object /\ o.size \in Nat
  BY DEF WellFormed, Room, Object
<1>3. NewTags \in Object /\ DOMAIN NewTags.entries = 1..kSmallTags
  BY NewRoom DEF Room, Object
<1>4. CASE o.size > kSmallTags
  <2>1. o.begin = "memory" /\ o.size <= Len(o.memory) /\ is_large(o)
    BY <1>4 DEF WellFormed, Room, is_large
  <2> DEFINE mem == SubSeq(o.memory, 1, o.size)
             ent == [NewTags.entries EXCEPT ![1] = Junk]
             c == CopyOf(o)
  <2>2. c = [NewTags EXCEPT !.size = o.size, !.begin = "memory", !.memory = mem, !.capacity = o.size, !.entries = ent]
    BY <1>3, <2>1 DEF CopyOf, SetCapacity, Object
  <2>3. ASSUME NEW i \in 1..o.size PROVE o.memory[i] \in Tag /\ 1 + i - 1 = i
    <3>1. o.memory \in Seq(Tag) /\ Len(o.memory) \in Nat
      BY <1>2, LenProperties DEF Object
    <3>2. i \in 1..Len(o.memory) /\ 1 + i - 1 = i
      BY <1>2, <2>1, <3>1
    <3> QED BY <3>1, <3>2, ElementOfSeq
  <2>4. mem \in Seq(Tag) /\ Len(mem) = o.size /\ \A i \in 1..o.size : mem[i] = o.memory[i]
    <3>1. 1 \in Int /\ o.size \in Int /\ \A i \in 1..o.size : o.memory[i] \in Tag
      BY <1>2, <2>3
    <3>2. /\ mem \in Seq(Tag) /\ Len(mem) = IF 1 <= o.size THEN o.size - 1 + 1 ELSE 0
          /\ \A i \in 1..o.size - 1 + 1 : mem[i] = o.memory[1 + i - 1]
      BY <3>1, SubSeqProperties
    <3>3. o.size - 1 + 1 = o.size /\ 1 <= o.size
      BY <1>1, <1>2, <1>4
    <3> QED BY <2>3, <3>2, <3>3
  <2>5. ent \in [1..kSmallTags -> Tag]
    BY <1>3, JunkIsTag DEF Object
  <2> HIDE DEF mem, ent, c
  <2>6. c \in Object /\ c.size = o.size /\ c.begin = "memory" /\ c.memory = mem /\ c.capacity = Len(mem)
    BY <1>2, <1>3, <2>2, <2>4, <2>5 DEF Object
  <2>7. WellFormed(c)
    BY <1>2, <1>4, <2>4, <2>6 DEF WellFormed, Room
  <2>8. \A i \in 1..o.size : TagAt(c, i) = TagAt(o, i)
    BY <2>1, <2>4, <2>6 DEF TagAt, Memory
  <2> QED BY <2>6, <2>7, <2>8 DEF c
<1>5. CASE o.size <= kSmallTags
  <2>1. o.begin = "entries" /\ ~is_large(o) /\ ~(o.size > kSmallTags)
    BY <1>1, <1>2, <1>5 DEF WellFormed, Room, is_large
  <2> DEFINE ent == [i \in 1..kSmallTags |-> IF i <= o.size THEN TagAt(o, i) ELSE Junk]
             c == CopyOf(o)
  <2>2. c = [NewTags EXCEPT !.size = o.size, !.entries = ent]
    BY <2>1 DEF CopyOf
  <2>3. ent \in [1..kSmallTags -> Tag] /\ \A i \in 1..o.size : ent[i] = TagAt(o, i)
    <3>1. \A i \in 1..kSmallTags : TagAt(o, i) \in Tag
      BY <1>2, <2>1 DEF TagAt, Memory, Object
    <3>2. \A i \in 1..o.size : i \in 1..kSmallTags /\ i <= o.size
      BY <1>1, <1>2, <1>5
    <3> QED BY <3>1, <3>2, JunkIsTag
  <2> HIDE DEF ent, c
  <2>4. c \in Object /\ c.size = o.size /\ c.begin = "entries" /\ c.entries = ent
    BY <1>2, <1>3, <2>2, <2>3 DEF Object, NewTags
  <2>5. WellFormed(c)
    BY <2>1, <2>4 DEF WellFormed, Room
  <2>6. \A i \in 1..o.size : TagAt(c, i) = TagAt(o, i)
    <3>1. Memory(c) = ent
      BY <2>4 DEF Memory
    <3>2. \A i \in 1..o.size : TagAt(c, i) = ent[i]
      BY <3>1 DEF TagAt
    <3> QED BY <2>3, <3>2
  <2> QED BY <2>4, <2>5, <2>6 DEF c
<1> QED BY <1>1, <1>2, <1>4, <1>5

\* ... and so has an object that another one was moved to.
LEMMA Moved ==
  ASSUME NEW o, WellFormed(o)
  PROVE  /\ WellFormed(MovedOut(o)) /\ MovedOut(o).size = o.size
         /\ \A i \in 1..o.size : TagAt(MovedOut(o), i) = TagAt(o, i)
<1>1. kSmallTags \in Nat /\ kSmallTags > 0
  BY TagSizes
<1>2. o \in Object /\ o.size \in Nat
  BY DEF WellFormed, Room, Object
<1>3. NewTags \in Object
  BY NewRoom DEF Room
<1>4. CASE o.size > kSmallTags
  <2>1. o.begin = "memory" /\ o.size <= Len(o.memory) /\ o.capacity = Len(o.memory) /\ is_large(o)
    BY <1>4 DEF WellFormed, Room, is_large
  <2> DEFINE ent == [NewTags.entries EXCEPT ![1] = Junk]
             c == MovedOut(o)
  <2>2. c = [NewTags EXCEPT !.size = o.size, !.begin = "memory", !.memory = o.memory, !.capacity = o.capacity, !.entries = ent]
    BY <1>3, <2>1 DEF MovedOut, SetCapacity, Object
  <2>3. ent \in [1..kSmallTags -> Tag]
    BY <1>3, JunkIsTag DEF Object
  <2> HIDE DEF ent, c
  <2>4. c \in Object /\ c.size = o.size /\ c.begin = "memory" /\ c.memory = o.memory /\ c.capacity = Len(o.memory)
    BY <1>2, <1>3, <2>1, <2>2, <2>3 DEF Object
  <2>5. WellFormed(c)
    BY <1>4, <2>1, <2>4 DEF WellFormed, Room
  <2>6. \A i \in 1..o.size : TagAt(c, i) = TagAt(o, i)
    BY <2>1, <2>4 DEF TagAt, Memory
  <2> QED BY <2>4, <2>5, <2>6 DEF c
<1>5. CASE o.size <= kSmallTags
  <2>1. MovedOut(o) = CopyOf(o)
    BY <1>1, <1>2, <1>5 DEF MovedOut, is_large
  <2> QED BY <2>1, Copied
<1> QED BY <1>1, <1>2, <1>4, <1>5

-----------------------------------------------------------------------------
\* Sorted arrays

\* The strings that keys and values point to.
KeyAt(p, o, i) == p[TagAt(o, i).key]
ValueAt(p, o, i) == p[TagAt(o, i).value]

\* The tags of o point into the pool and are sorted by key.
Points(p, o) == \A i \in 1..o.size : TagAt(o, i).key \in DOMAIN p /\ TagAt(o, i).value \in DOMAIN p
Sorted(p, o) == \A i, j \in 1..o.size : i < j => KeyAt(p, o, i) < KeyAt(p, o, j)

\* Every string is in the pool once, with valid characters only.
Strings == TagKeys \cup TagValues
PoolOK(p) ==
  /\ p \in Seq(Strings)
  /\ \A r \in DOMAIN p : AtlasChars[p[r]] = p[r]
  /\ \A r, q \in DOMAIN p : p[r] = p[q] => r = q

GoodTags(p, o) == WellFormed(o) /\ Points(p, o) /\ Sorted(p, o)

LEMMA KeysAreNumbers ==
  ASSUME NEW p, PoolOK(p), NEW r \in DOMAIN p
  PROVE  p[r] \in Nat /\ p[r] # 0 /\ p[r] \in Strings /\ r \in Nat
<1>1. DOMAIN p = 1..Len(p) /\ Len(p) \in Nat /\ p \in Seq(Strings)
  BY LenProperties DEF PoolOK
<1>2. p[r] \in Strings
  BY <1>1, ElementOfSeq
<1> QED BY <1>1, <1>2, TagsAssumption DEF Strings

\* A set of positions with everything below each of them is 1..n: its size decides.
LEMMA FirstOnes ==
  ASSUME NEW n \in Nat, NEW S \in SUBSET (1..n), \A i \in S : 1..i \subseteq S
  PROVE  \E c \in 0..n : S = 1..c
<1> DEFINE c == Cardinality(S)
<1>1. IsFiniteSet(1..n) /\ Cardinality(1..n) = n
  BY FS_Interval
<1>2. IsFiniteSet(S) /\ c \in Nat /\ c <= n
  BY <1>1, FS_Subset, FS_CardinalityType
<1>3. ASSUME NEW i \in S PROVE i \in 1..c
  <2>1. 1..i \in SUBSET S /\ i \in Nat /\ i >= 1
    OBVIOUS
  <2>2. Cardinality(1..i) = i
    BY <2>1, FS_Interval
  <2>3. Cardinality(1..i) <= c
    BY <1>2, <2>1, FS_Subset
  <2> QED BY <1>2, <2>1, <2>2, <2>3
<1> DEFINE T == 1..c
<1>4. IsFiniteSet(T) /\ Cardinality(T) = c /\ S \in SUBSET T
  <2>1. 1 \in Int /\ c \in Int /\ (IF 1 > c THEN 0 ELSE c - 1 + 1) = c
    BY <1>2
  <2>2. S \in SUBSET T
    BY <1>3
  <2> HIDE DEF c
  <2>3. IsFiniteSet(1..c) /\ Cardinality(1..c) = IF 1 > c THEN 0 ELSE c - 1 + 1
    BY <2>1, FS_Interval
  <2> QED BY <2>1, <2>2, <2>3
<1>5. c = Cardinality(S)
  OBVIOUS
<1> HIDE DEF c, T
<1>6. S = T
  BY <1>4, <1>5, FS_Subset
<1> QED BY <1>2, <1>6 DEF T

\* lower_bound finds the place of a key.
LEMMA LowerBound ==
  ASSUME NEW p, PoolOK(p), NEW o, GoodTags(p, o), NEW k \in DOMAIN p,
         NEW it, it = lower_bound(p, o, k)
  PROVE  /\ it \in 1..o.size + 1
         /\ \A j \in 1..it - 1 : KeyAt(p, o, j) < p[k]
         /\ it <= o.size => KeyAt(p, o, it) >= p[k]
<1>1. o.size \in Nat
  BY DEF GoodTags, WellFormed, Room, Object
<1>2. \A i \in 1..o.size : KeyAt(p, o, i) \in Nat
  BY KeysAreNumbers DEF GoodTags, Points, KeyAt
<1>3. p[k] \in Nat
  BY KeysAreNumbers
<1> DEFINE S == {j \in 1..o.size : KeyAt(p, o, j) < p[k]}
<1>4. \A i \in S : 1..i \subseteq S
  <2> SUFFICES ASSUME NEW i \in S, NEW j \in 1..i PROVE j \in S
    OBVIOUS
  <2>1. i \in 1..o.size /\ KeyAt(p, o, i) < p[k]
    OBVIOUS
  <2>2. j \in 1..o.size /\ (j < i \/ j = i)
    BY <1>1, <2>1
  <2>3. j < i => KeyAt(p, o, j) < KeyAt(p, o, i)
    BY <2>1, <2>2 DEF GoodTags, Sorted
  <2>4. KeyAt(p, o, j) \in Nat /\ KeyAt(p, o, i) \in Nat
    BY <1>2, <2>1, <2>2
  <2>5. KeyAt(p, o, j) < p[k]
    BY <1>3, <2>1, <2>2, <2>3, <2>4
  <2> QED BY <2>2, <2>5
<1>5. PICK c \in 0..o.size : S = 1..c
  <2>1. S \in SUBSET (1..o.size)
    OBVIOUS
  <2> HIDE DEF S
  <2> QED BY <1>1, <1>4, <2>1, FirstOnes
<1>6. c + 1 \in 1..o.size + 1 /\ (c + 1) - 1 = c
  BY <1>1
<1>7. \A j \in 1..(c + 1) - 1 : KeyAt(p, o, j) < p[k]
  BY <1>5, <1>6
<1>8. c + 1 <= o.size => KeyAt(p, o, c + 1) >= p[k]
  <2> SUFFICES ASSUME c + 1 <= o.size PROVE KeyAt(p, o, c + 1) >= p[k]
    OBVIOUS
  <2>1. c + 1 \in 1..o.size /\ c + 1 \notin 1..c
    BY <1>1
  <2>2. ~(KeyAt(p, o, c + 1) < p[k])
    BY <1>5, <2>1
  <2>3. KeyAt(p, o, c + 1) \in Nat
    BY <1>2, <2>1
  <2> QED BY <1>3, <2>2, <2>3
<1>9. it = CHOOSE i \in 1..o.size + 1 :
              /\ \A j \in 1..i - 1 : KeyAt(p, o, j) < p[k]
              /\ i <= o.size => KeyAt(p, o, i) >= p[k]
  BY DEF lower_bound, KeyAt
<1> QED BY <1>6, <1>7, <1>8, <1>9

\* insert replaces the value of a key that is there ...
LEMMA Replaced ==
  ASSUME NEW p, PoolOK(p), NEW o, GoodTags(p, o), NEW k \in DOMAIN p, NEW v \in DOMAIN p,
         NEW it \in 1..o.size, it = lower_bound(p, o, k), TagAt(o, it).key = k,
         NEW x, x = insert(p, o, k, v)
  PROVE  /\ WellFormed(x) /\ x.size = o.size
         /\ \A i \in 1..o.size : TagAt(x, i) = IF i = it THEN [key |-> k, value |-> v] ELSE TagAt(o, i)
<1> DEFINE tag == [key |-> k, value |-> v]
           ts == [Memory(o) EXCEPT ![it] = tag]
<1>1. o.size \in Nat /\ Room(o, o.size)
  BY DEF GoodTags, WellFormed, Room, Object
<1>2. tag \in Tag
  <2>1. k \in Nat /\ v \in Nat
    BY KeysAreNumbers
  <2> QED BY <2>1 DEF Tag
<1>3. x = StoreAll(o, ts)
  <2>1. it <= o.size
    BY <1>1
  <2> QED BY <2>1 DEF insert, Store
<1>4. Memory(o) \in Seq(Tag) /\ o.size <= Len(Memory(o)) /\ Len(Memory(o)) \in Nat
  BY <1>1, MemoryType
<1>5. it \in 1..Len(Memory(o)) /\ \A i \in 1..o.size : i \in 1..Len(Memory(o))
  BY <1>1, <1>4
<1> HIDE DEF tag
<1>6. /\ ts \in Seq(Tag) /\ Len(ts) = Len(Memory(o))
      /\ \A j \in 1..Len(Memory(o)) : ts[j] = IF j = it THEN tag ELSE Memory(o)[j]
  BY <1>2, <1>4, <1>5, ExceptSeq
<1> HIDE DEF ts
<1>7. Room(x, o.size) /\ x.size = o.size /\ Memory(x) = ts
  BY <1>1, <1>3, <1>6, StoreAllRoom
<1>8. \A i \in 1..o.size : TagAt(x, i) = IF i = it THEN tag ELSE TagAt(o, i)
  BY <1>5, <1>6, <1>7 DEF TagAt
<1> QED BY <1>7, <1>8 DEF WellFormed, tag

\* ... and otherwise makes room for it at its place.
LEMMA Inserted ==
  ASSUME NEW p, PoolOK(p), NEW o, GoodTags(p, o), NEW k \in DOMAIN p, NEW v \in DOMAIN p,
         NEW it \in 1..o.size + 1, it = lower_bound(p, o, k), it <= o.size => TagAt(o, it).key # k,
         NEW x, x = insert(p, o, k, v)
  PROVE  /\ WellFormed(x) /\ x.size = o.size + 1
         /\ \A i \in 1..o.size + 1 :
              TagAt(x, i) = IF i < it THEN TagAt(o, i)
                            ELSE IF i = it THEN [key |-> k, value |-> v] ELSE TagAt(o, i - 1)
<1> DEFINE tag == [key |-> k, value |-> v]
           n == o.size
<1>1. n \in Nat /\ WellFormed(o)
  BY DEF GoodTags, WellFormed, Room, Object
<1>2. tag \in Tag
  <2>1. k \in Nat /\ v \in Nat
    BY KeysAreNumbers
  <2> QED BY <2>1 DEF Tag
<1>3. PICK r : r = IF n = capacity(o) THEN reallocate(o) ELSE o
  OBVIOUS
<1>4. Room(r, n + 1) /\ r.size = n /\ \A i \in 1..n : TagAt(r, i) = TagAt(o, i)
  BY <1>1, <1>3, Reallocated
<1> DEFINE ts == [i \in DOMAIN Memory(r) |-> IF i \in it + 1..n + 1 THEN TagAt(r, i - 1) ELSE TagAt(r, i)]
           q == copy_backward(r, it)
           us == [Memory(q) EXCEPT ![it] = tag]
           w == StoreAll(q, us)
<1>5. x = [w EXCEPT !.size = @ + 1] /\ q = StoreAll(r, ts)
  <2>1. ~(it <= o.size /\ TagAt(o, it).key = k)
    OBVIOUS
  <2>2. x = [Store(copy_backward(r, it), it, tag) EXCEPT !.size = @ + 1]
    BY <1>3, <2>1 DEF insert
  <2> QED BY <1>4, <2>2 DEF Store, copy_backward
<1>6. Memory(r) \in Seq(Tag) /\ n + 1 <= Len(Memory(r)) /\ Len(Memory(r)) \in Nat /\ DOMAIN Memory(r) = 1..Len(Memory(r))
  BY <1>1, <1>4, MemoryType
<1>7. it \in Nat /\ it >= 1 /\ it <= n + 1
  BY <1>1
<1> HIDE DEF tag, n
<1>8. ts \in Seq(Tag) /\ Len(ts) = Len(Memory(r))
  <2> DEFINE z == Len(Memory(r))
  <2>1. \A i \in 1..z : Memory(r)[i] \in Tag
    BY <1>6, ElementOfSeq
  <2>2. \A i \in 1..z : i \in it + 1..n + 1 => i - 1 \in 1..z
    BY <1>1, <1>6, <1>7
  <2>3. ts \in [1..z -> Tag]
    BY <1>6, <2>1, <2>2 DEF TagAt
  <2>4. ts \in Seq(Tag)
    BY <1>6, <2>3, SeqDef
  <2>5. Len(ts) \in Nat /\ DOMAIN ts = 1..Len(ts)
    BY <2>4, LenProperties
  <2>6. DOMAIN ts = 1..z
    BY <2>3
  <2>7. z \in Nat
    BY <1>6
  <2> HIDE DEF ts, z
  <2>8. Len(ts) = z
    <3>1. 1..Len(ts) = 1..z
      BY <2>5, <2>6
    <3>2. PICK y : y = Len(ts)
      OBVIOUS
    <3>3. y \in Nat /\ 1..y = 1..z
      BY <2>5, <3>1, <3>2
    <3>4. y = z
      BY <2>7, <3>3
    <3> QED BY <3>2, <3>4
  <2> QED BY <2>4, <2>8 DEF z
<1>9. \A i \in 1..n + 1 : i \in 1..Len(Memory(r))
  BY <1>1, <1>6
<1>10. \A i \in 1..n + 1 : ts[i] = IF i \in it + 1..n + 1 THEN TagAt(r, i - 1) ELSE TagAt(r, i)
  BY <1>6, <1>9
<1> HIDE DEF ts, q
<1>11. Room(q, n + 1) /\ q.size = n /\ Memory(q) = ts
  <2>1. n + 1 \in Nat
    BY <1>1
  <2> QED BY <1>4, <1>5, <1>8, <2>1, StoreAllRoom
<1>12. us \in Seq(Tag) /\ Len(us) = Len(Memory(q))
       /\ \A j \in 1..Len(Memory(q)) : us[j] = IF j = it THEN tag ELSE Memory(q)[j]
  <2>1. it \in 1..Len(Memory(q)) /\ Memory(q) \in Seq(Tag)
    BY <1>1, <1>6, <1>7, <1>8, <1>11
  <2> QED BY <1>2, <2>1, ExceptSeq
<1> HIDE DEF us, w
<1>13. Room(w, n + 1) /\ w.size = n /\ Memory(w) = us
  <2>1. n + 1 \in Nat /\ w = StoreAll(q, us)
    BY <1>1 DEF w
  <2>2. Room(StoreAll(q, us), n + 1) /\ StoreAll(q, us).size = q.size /\ Memory(StoreAll(q, us)) = us
    BY <1>11, <1>12, <2>1, StoreAllRoom
  <2> QED BY <1>11, <2>1, <2>2
<1>14. Room(x, n + 1) /\ x.size = n + 1 /\ Memory(x) = us
  <2>1. w \in Object
    BY <1>13 DEF Room
  <2>2. /\ x \in Object /\ x.size = n + 1 /\ x.begin = w.begin /\ x.memory = w.memory
        /\ x.entries = w.entries /\ x.capacity = w.capacity
    BY <1>1, <1>5, <1>13, <2>1 DEF Object
  <2>3. Room(x, n + 1)
    BY <1>13, <2>2 DEF Room
  <2>4. Memory(x) = Memory(w)
    BY <2>2 DEF Memory
  <2> QED BY <1>13, <2>2, <2>3, <2>4
<1>15. ASSUME NEW i \in 1..n + 1
       PROVE  TagAt(x, i) = IF i < it THEN TagAt(o, i) ELSE IF i = it THEN tag ELSE TagAt(o, i - 1)
  <2>1. i \in 1..Len(Memory(q)) /\ TagAt(x, i) = us[i] /\ Memory(q)[i] = ts[i]
    BY <1>8, <1>9, <1>11, <1>14 DEF TagAt
  <2>2. us[i] = IF i = it THEN tag ELSE ts[i]
    BY <1>12, <2>1
  <2>3. CASE i < it
    <3>1. i \notin it + 1..n + 1 /\ i \in 1..n /\ i # it
      BY <1>1, <1>7, <2>3
    <3> QED BY <1>4, <1>10, <2>1, <2>2, <2>3, <3>1
  <2>4. CASE i = it
    <3>1. ~(i < it)
      BY <1>7, <2>4
    <3> QED BY <2>1, <2>2, <2>4, <3>1
  <2>5. CASE i > it
    <3>1. i \in it + 1..n + 1 /\ i - 1 \in 1..n /\ i # it /\ ~(i < it)
      BY <1>1, <1>7, <2>5
    <3> QED BY <1>4, <1>10, <2>1, <2>2, <3>1
  <2> QED BY <1>1, <1>7, <2>3, <2>4, <2>5
<1> QED BY <1>14, <1>15 DEF WellFormed, tag, n

\* A key is at one place only.
LEMMA OnePlace ==
  ASSUME NEW p, PoolOK(p), NEW o, GoodTags(p, o), NEW i \in 1..o.size, NEW j \in 1..o.size,
         KeyAt(p, o, i) = KeyAt(p, o, j)
  PROVE  i = j
<1>1. o.size \in Nat
  BY DEF GoodTags, WellFormed, Room, Object
<1>2. KeyAt(p, o, i) \in Nat /\ KeyAt(p, o, j) \in Nat
  BY KeysAreNumbers DEF GoodTags, Points, KeyAt
<1>3. /\ i < j => KeyAt(p, o, i) < KeyAt(p, o, j)
      /\ j < i => KeyAt(p, o, j) < KeyAt(p, o, i)
  BY DEF GoodTags, Sorted
<1> QED BY <1>1, <1>2, <1>3

\* The map of sorted tags.
LEMMA MapOfTags ==
  ASSUME NEW p, PoolOK(p), NEW o, GoodTags(p, o), NEW f, f = MapOf(p, o)
  PROVE  /\ f = [x \in DOMAIN f |-> f[x]]
         /\ DOMAIN f = {KeyAt(p, o, i) : i \in 1..o.size}
         /\ \A i \in 1..o.size : f[KeyAt(p, o, i)] = ValueAt(p, o, i)
<1> DEFINE D == {KeyAt(p, o, i) : i \in 1..o.size}
           ch(x) == CHOOSE j \in 1..o.size : KeyAt(p, o, j) = x
<1>1. \A i \in 1..o.size : StringAt(p, TagAt(o, i).key) = KeyAt(p, o, i)
                           /\ StringAt(p, TagAt(o, i).value) = ValueAt(p, o, i)
  BY DEF GoodTags, Points, StringAt, KeyAt, ValueAt
<1>2. {StringAt(p, TagAt(o, i).key) : i \in 1..o.size} = D
  BY <1>1
<1>3. ASSUME NEW i \in 1..o.size
      PROVE  (CHOOSE j \in 1..o.size : StringAt(p, TagAt(o, j).key) = KeyAt(p, o, i)) = i
  <2>1. \A j \in 1..o.size : StringAt(p, TagAt(o, j).key) = KeyAt(p, o, i) <=> j = i
    <3> SUFFICES ASSUME NEW j \in 1..o.size
                 PROVE  StringAt(p, TagAt(o, j).key) = KeyAt(p, o, i) <=> j = i
      OBVIOUS
    <3>1. StringAt(p, TagAt(o, j).key) = KeyAt(p, o, j)
      BY <1>1
    <3>2. KeyAt(p, o, j) = KeyAt(p, o, i) => j = i
      BY OnePlace
    <3> QED BY <3>1, <3>2
  <2> QED BY <2>1
<1>4. f = [x \in D |->
            StringAt(p, TagAt(o, CHOOSE j \in 1..o.size : StringAt(p, TagAt(o, j).key) = x).value)]
  BY <1>2 DEF MapOf
<1>5. DOMAIN f = D /\ f = [x \in DOMAIN f |-> f[x]]
  BY <1>4
<1>6. ASSUME NEW i \in 1..o.size PROVE f[KeyAt(p, o, i)] = ValueAt(p, o, i)
  <2>1. KeyAt(p, o, i) \in D
    OBVIOUS
  <2>2. f[KeyAt(p, o, i)] =
          StringAt(p, TagAt(o, CHOOSE j \in 1..o.size : StringAt(p, TagAt(o, j).key) = KeyAt(p, o, i)).value)
    BY <1>4, <2>1
  <2> QED BY <1>1, <1>3, <2>2
<1> QED BY <1>5, <1>6

\* Two maps of tags with the same keys and values are one.
LEMMA SameMap ==
  ASSUME NEW f, NEW g, f = [x \in DOMAIN f |-> f[x]], g = [x \in DOMAIN g |-> g[x]],
         DOMAIN f = DOMAIN g, \A x \in DOMAIN f : f[x] = g[x]
  PROVE  f = g
OBVIOUS

\* A map with one more pair, and a function with another value.
PutIn(f, k, v) == [y \in DOMAIN f \cup {k} |-> IF y = k THEN v ELSE f[y]]
With(f, s, c) == [f EXCEPT ![s] = c]

\* insert puts the pair of key and value into the map and keeps the tags in order.
LEMMA InsertPuts ==
  ASSUME NEW p, PoolOK(p), NEW o, GoodTags(p, o), NEW k \in DOMAIN p, NEW v \in DOMAIN p,
         NEW x, x = insert(p, o, k, v)
  PROVE  /\ GoodTags(p, x)
         /\ MapOf(p, x) = PutIn(MapOf(p, o), p[k], p[v])
<1> DEFINE n == o.size
           tag == [key |-> k, value |-> v]
<1>1. n \in Nat
  BY DEF GoodTags, WellFormed, Room, Object
<1>2. PICK it : it = lower_bound(p, o, k)
  OBVIOUS
<1>3. /\ it \in 1..n + 1 /\ \A j \in 1..it - 1 : KeyAt(p, o, j) < p[k]
      /\ it <= n => KeyAt(p, o, it) >= p[k]
  BY <1>2, LowerBound
<1>4. tag.key = k /\ tag.value = v
  OBVIOUS
<1>5. \A i \in 1..n : KeyAt(p, o, i) \in Nat
  BY KeysAreNumbers DEF GoodTags, Points, KeyAt
<1>6. p[k] \in Nat
  BY KeysAreNumbers
<1>7. CASE it <= n /\ TagAt(o, it).key = k
  <2>1. it \in 1..n
    BY <1>1, <1>3, <1>7
  <2>2. WellFormed(x) /\ x.size = n /\ \A i \in 1..n : TagAt(x, i) = IF i = it THEN tag ELSE TagAt(o, i)
    BY <1>2, <1>7, <2>1, Replaced
  <2> HIDE DEF n, tag
  <2>3. \A i \in 1..n : KeyAt(p, x, i) = KeyAt(p, o, i) /\ ValueAt(p, x, i) = IF i = it THEN p[v] ELSE ValueAt(p, o, i)
    BY <1>4, <1>7, <2>2 DEF KeyAt, ValueAt
  <2>4. KeyAt(p, o, it) = p[k]
    BY <1>7 DEF KeyAt
  <2>5. GoodTags(p, x)
    <3>1. Points(p, x)
      BY <1>4, <2>2 DEF GoodTags, Points, n
    <3>2. Sorted(p, x)
      BY <2>2, <2>3 DEF GoodTags, Sorted, n
    <3> QED BY <2>2, <3>1, <3>2 DEF GoodTags
  <2>6. PICK f : f = MapOf(p, o)
    OBVIOUS
  <2>7. f = [y \in DOMAIN f |-> f[y]] /\ DOMAIN f = {KeyAt(p, o, i) : i \in 1..n}
        /\ \A i \in 1..n : f[KeyAt(p, o, i)] = ValueAt(p, o, i)
    BY <2>6, MapOfTags DEF n
  <2>8. PICK g : g = MapOf(p, x)
    OBVIOUS
  <2>9. g = [y \in DOMAIN g |-> g[y]] /\ DOMAIN g = {KeyAt(p, x, i) : i \in 1..n}
        /\ \A i \in 1..n : g[KeyAt(p, x, i)] = ValueAt(p, x, i)
    BY <2>2, <2>5, <2>8, MapOfTags
  <2>10. DOMAIN g = DOMAIN f \cup {p[k]}
    BY <2>1, <2>3, <2>4, <2>7, <2>9
  <2>11. ASSUME NEW y \in DOMAIN g PROVE g[y] = IF y = p[k] THEN p[v] ELSE f[y]
    <3>1. PICK i \in 1..n : y = KeyAt(p, o, i)
      BY <2>3, <2>9
    <3>2. g[y] = IF i = it THEN p[v] ELSE ValueAt(p, o, i)
      BY <2>3, <2>9, <3>1
    <3>3. y = p[k] <=> i = it
      <4>1. KeyAt(p, o, i) = KeyAt(p, o, it) => i = it
        BY <2>1, OnePlace DEF n
      <4> QED BY <2>4, <3>1, <4>1
    <3> QED BY <2>7, <3>1, <3>2, <3>3
  <2>12. g = [y \in DOMAIN f \cup {p[k]} |-> IF y = p[k] THEN p[v] ELSE f[y]]
    BY <2>9, <2>10, <2>11
  <2> QED BY <2>5, <2>6, <2>8, <2>12 DEF PutIn
<1>8. CASE ~(it <= n /\ TagAt(o, it).key = k)
  <2>1. WellFormed(x) /\ x.size = n + 1
        /\ \A i \in 1..n + 1 : TagAt(x, i) = IF i < it THEN TagAt(o, i) ELSE IF i = it THEN tag ELSE TagAt(o, i - 1)
    BY <1>2, <1>3, <1>8, Inserted
  <2> HIDE DEF n, tag
  <2>a. it \in Nat /\ it >= 1 /\ it <= n + 1
    BY <1>1, <1>3
  <2>2. it <= n => p[k] < KeyAt(p, o, it)
    <3> SUFFICES ASSUME it <= n PROVE p[k] < KeyAt(p, o, it)
      OBVIOUS
    <3>1. it \in 1..n
      BY <1>1, <2>a
    <3>2. TagAt(o, it).key \in DOMAIN p /\ TagAt(o, it).key # k
      BY <1>8, <3>1 DEF GoodTags, Points, n
    <3>3. KeyAt(p, o, it) # p[k]
      BY <3>2 DEF PoolOK, KeyAt
    <3>4. KeyAt(p, o, it) >= p[k] /\ KeyAt(p, o, it) \in Nat
      BY <1>3, <1>5, <3>1
    <3> QED BY <1>6, <3>3, <3>4
  <2>3. /\ \A i \in 1..n : i < it => KeyAt(p, o, i) < p[k]
        /\ \A i \in 1..n : it <= i => p[k] < KeyAt(p, o, i)
    <3>1. ASSUME NEW i \in 1..n, i < it PROVE KeyAt(p, o, i) < p[k]
      <4>1. i \in 1..it - 1
        BY <1>1, <2>a, <3>1
      <4> QED BY <1>3, <4>1
    <3>2. ASSUME NEW i \in 1..n, it <= i PROVE p[k] < KeyAt(p, o, i)
      <4>1. it \in 1..n /\ it <= n /\ (it < i \/ it = i)
        BY <1>1, <2>a, <3>2
      <4>2. it < i => KeyAt(p, o, it) < KeyAt(p, o, i)
        BY <4>1 DEF GoodTags, Sorted, n
      <4>3. KeyAt(p, o, it) \in Nat /\ KeyAt(p, o, i) \in Nat /\ p[k] < KeyAt(p, o, it)
        BY <1>5, <2>2, <4>1
      <4> QED BY <1>6, <4>1, <4>2, <4>3
    <3> QED BY <3>1, <3>2
  \* Where a tag of x comes from.
  <2>4. ASSUME NEW i \in 1..n + 1
        PROVE  \/ i = it /\ TagAt(x, i) = tag
               \/ i < it /\ i \in 1..n /\ TagAt(x, i) = TagAt(o, i)
               \/ i > it /\ i - 1 \in 1..n /\ it <= i - 1 /\ TagAt(x, i) = TagAt(o, i - 1)
    <3>1. TagAt(x, i) = IF i < it THEN TagAt(o, i) ELSE IF i = it THEN tag ELSE TagAt(o, i - 1)
      BY <2>1
    <3>2. \/ i = it /\ ~(i < it)
          \/ i < it /\ i \in 1..n
          \/ i > it /\ i - 1 \in 1..n /\ it <= i - 1 /\ ~(i < it) /\ i # it
      BY <1>1, <2>a
    <3> QED BY <3>1, <3>2
  <2>5. ASSUME NEW i \in 1..n + 1
        PROVE  \/ i = it /\ KeyAt(p, x, i) = p[k] /\ ValueAt(p, x, i) = p[v]
               \/ i < it /\ i \in 1..n /\ KeyAt(p, x, i) = KeyAt(p, o, i) /\ ValueAt(p, x, i) = ValueAt(p, o, i)
               \/ i > it /\ i - 1 \in 1..n /\ it <= i - 1
                    /\ KeyAt(p, x, i) = KeyAt(p, o, i - 1) /\ ValueAt(p, x, i) = ValueAt(p, o, i - 1)
    BY <1>4, <2>4 DEF KeyAt, ValueAt
  <2>6. Points(p, x)
    <3>1. \A i \in 1..n : TagAt(o, i).key \in DOMAIN p /\ TagAt(o, i).value \in DOMAIN p
      BY DEF GoodTags, Points, n
    <3>2. ASSUME NEW i \in 1..n + 1 PROVE TagAt(x, i).key \in DOMAIN p /\ TagAt(x, i).value \in DOMAIN p
      BY <1>4, <2>4, <3>1
    <3> QED BY <2>1, <3>2 DEF Points
  <2>7. ASSUME NEW i \in 1..n + 1, NEW j \in 1..n + 1, i < j PROVE KeyAt(p, x, i) < KeyAt(p, x, j)
    <3>0. \A a, b \in 1..n : a < b => KeyAt(p, o, a) < KeyAt(p, o, b)
      BY DEF GoodTags, Sorted, n
    <3>1. CASE i = it
      <4>1. j > it /\ j # it /\ ~(j < it)
        BY <1>1, <2>a, <2>7, <3>1
      <4>2. j - 1 \in 1..n /\ it <= j - 1 /\ KeyAt(p, x, j) = KeyAt(p, o, j - 1)
        BY <2>5, <4>1
      <4>3. KeyAt(p, x, i) = p[k]
        <5>1. ~(i < it) /\ ~(i > it)
          BY <2>a, <3>1
        <5> QED BY <2>5, <5>1
      <4> QED BY <2>3, <4>2, <4>3
    <3>2. CASE i < it
      <4>1. i \in 1..n /\ KeyAt(p, x, i) = KeyAt(p, o, i)
        <5>1. i # it /\ ~(i > it)
          BY <1>1, <2>a, <3>2
        <5> QED BY <2>5, <5>1
      <4>2. KeyAt(p, o, i) < p[k] /\ KeyAt(p, o, i) \in Nat
        BY <1>5, <2>3, <3>2, <4>1
      <4>3. CASE j = it
        <5>1. KeyAt(p, x, j) = p[k]
          <6>1. ~(j < it) /\ ~(j > it)
            BY <2>a, <4>3
          <6> QED BY <2>5, <6>1
        <5> QED BY <4>1, <4>2, <5>1
      <4>4. CASE j < it
        <5>1. j \in 1..n /\ KeyAt(p, x, j) = KeyAt(p, o, j)
          <6>1. j # it /\ ~(j > it)
            BY <1>1, <2>a, <4>4
          <6> QED BY <2>5, <6>1
        <5> QED BY <2>7, <3>0, <4>1, <5>1
      <4>5. CASE j > it
        <5>1. j - 1 \in 1..n /\ it <= j - 1 /\ KeyAt(p, x, j) = KeyAt(p, o, j - 1)
          <6>1. j # it /\ ~(j < it)
            BY <1>1, <2>a, <4>5
          <6> QED BY <2>5, <6>1
        <5>2. p[k] < KeyAt(p, o, j - 1) /\ KeyAt(p, o, j - 1) \in Nat
          BY <1>5, <2>3, <5>1
        <5> QED BY <1>6, <4>1, <4>2, <5>1, <5>2
      <4> QED BY <1>1, <2>a, <4>3, <4>4, <4>5
    <3>3. CASE i > it
      <4>1. i - 1 \in 1..n /\ KeyAt(p, x, i) = KeyAt(p, o, i - 1)
        <5>1. i # it /\ ~(i < it)
          BY <1>1, <2>a, <3>3
        <5> QED BY <2>5, <5>1
      <4>2. j > it /\ j # it /\ ~(j < it) /\ i - 1 < j - 1
        BY <1>1, <2>a, <2>7, <3>3
      <4>3. j - 1 \in 1..n /\ KeyAt(p, x, j) = KeyAt(p, o, j - 1)
        BY <2>5, <4>2
      <4> QED BY <3>0, <4>1, <4>2, <4>3
    <3> QED BY <1>1, <2>a, <3>1, <3>2, <3>3
  <2>8. GoodTags(p, x)
    BY <2>1, <2>6, <2>7 DEF GoodTags, Sorted
  <2>9. PICK f : f = MapOf(p, o)
    OBVIOUS
  <2>10. f = [y \in DOMAIN f |-> f[y]] /\ DOMAIN f = {KeyAt(p, o, i) : i \in 1..n}
         /\ \A i \in 1..n : f[KeyAt(p, o, i)] = ValueAt(p, o, i)
    BY <2>9, MapOfTags DEF n
  <2>11. PICK g : g = MapOf(p, x)
    OBVIOUS
  <2>12. g = [y \in DOMAIN g |-> g[y]] /\ DOMAIN g = {KeyAt(p, x, i) : i \in 1..n + 1}
         /\ \A i \in 1..n + 1 : g[KeyAt(p, x, i)] = ValueAt(p, x, i)
    <3>1. g = [y \in DOMAIN g |-> g[y]] /\ DOMAIN g = {KeyAt(p, x, i) : i \in 1..x.size}
          /\ \A i \in 1..x.size : g[KeyAt(p, x, i)] = ValueAt(p, x, i)
      BY <2>8, <2>11, MapOfTags
    <3>2. x.size = n + 1
      BY <2>1
    <3> QED BY <3>1, <3>2
  <2>13. ASSUME NEW i \in 1..n + 1
         PROVE  /\ KeyAt(p, x, i) \in DOMAIN f \cup {p[k]}
                /\ g[KeyAt(p, x, i)] = IF KeyAt(p, x, i) = p[k] THEN p[v] ELSE f[KeyAt(p, x, i)]
    <3>1. g[KeyAt(p, x, i)] = ValueAt(p, x, i)
      BY <2>12
    <3>2. CASE i = it
      <4>1. KeyAt(p, x, i) = p[k] /\ ValueAt(p, x, i) = p[v]
        <5>1. ~(i < it) /\ ~(i > it)
          BY <2>a, <3>2
        <5> QED BY <2>5, <5>1
      <4> QED BY <3>1, <4>1
    <3>3. ASSUME NEW j \in 1..n, KeyAt(p, x, i) = KeyAt(p, o, j), ValueAt(p, x, i) = ValueAt(p, o, j)
          PROVE  /\ KeyAt(p, x, i) \in DOMAIN f \cup {p[k]}
                 /\ g[KeyAt(p, x, i)] = IF KeyAt(p, x, i) = p[k] THEN p[v] ELSE f[KeyAt(p, x, i)]
      <4>1. KeyAt(p, o, j) # p[k]
        <5>1. j < it \/ it <= j
          BY <1>1, <2>a
        <5>2. KeyAt(p, o, j) < p[k] \/ p[k] < KeyAt(p, o, j)
          BY <2>3, <5>1
        <5>3. KeyAt(p, o, j) \in Nat
          BY <1>5
        <5> QED BY <1>6, <5>2, <5>3
      <4>2. KeyAt(p, o, j) \in DOMAIN f /\ f[KeyAt(p, o, j)] = ValueAt(p, o, j)
        BY <2>10
      <4> QED BY <3>1, <3>3, <4>1, <4>2
    <3> QED BY <2>5, <3>2, <3>3
  <2>14. DOMAIN f \cup {p[k]} \subseteq DOMAIN g
    <3>1. p[k] \in DOMAIN g
      <4>1. it \in 1..n + 1 /\ ~(it < it) /\ ~(it > it)
        BY <1>3, <2>a
      <4>2. KeyAt(p, x, it) = p[k]
        BY <2>5, <4>1
      <4> QED BY <2>12, <4>1, <4>2
    <3>2. ASSUME NEW j \in 1..n PROVE KeyAt(p, o, j) \in DOMAIN g
      <4>1. CASE j < it
        <5>1. j \in 1..n + 1 /\ j # it /\ ~(j > it)
          BY <1>1, <2>a, <4>1
        <5>2. KeyAt(p, x, j) = KeyAt(p, o, j)
          BY <2>5, <5>1
        <5> QED BY <2>12, <5>1, <5>2
      <4>2. CASE it <= j
        <5>1. j + 1 \in 1..n + 1 /\ j + 1 # it /\ ~(j + 1 < it) /\ (j + 1) - 1 = j
          BY <1>1, <2>a, <4>2
        <5>2. KeyAt(p, x, j + 1) = KeyAt(p, o, (j + 1) - 1)
          BY <2>5, <5>1
        <5> QED BY <2>12, <5>1, <5>2
      <4> QED BY <1>1, <2>a, <4>1, <4>2
    <3> QED BY <2>10, <3>1, <3>2
  <2>15. DOMAIN g = DOMAIN f \cup {p[k]}
    BY <2>12, <2>13, <2>14
  <2>16. \A y \in DOMAIN g : g[y] = IF y = p[k] THEN p[v] ELSE f[y]
    BY <2>12, <2>13
  <2>17. g = [y \in DOMAIN f \cup {p[k]} |-> IF y = p[k] THEN p[v] ELSE f[y]]
    BY <2>12, <2>15, <2>16
  <2> QED BY <2>8, <2>9, <2>11, <2>17 DEF PutIn
<1> QED BY <1>7, <1>8

-----------------------------------------------------------------------------
\* The pool

\* The pool q has the strings of p where they were.
Extends(p, q) == \A r \in DOMAIN p : r \in DOMAIN q /\ q[r] = p[r]

\* Intern returns a pointer to the string with valid characters, and every string is
\* still in the pool once.
LEMMA InternOK ==
  ASSUME NEW p, PoolOK(p), NEW s \in Strings, NEW x, x = Intern(s, p)
  PROVE  /\ PoolOK(x.pool) /\ Extends(p, x.pool)
         /\ x.ref \in DOMAIN x.pool /\ x.pool[x.ref] = AtlasChars[s]
<1>1. AtlasChars[s] \in Strings /\ AtlasChars[AtlasChars[s]] = AtlasChars[s]
  BY TagsAssumption DEF Strings
<1>2. p \in Seq(Strings) /\ DOMAIN p = 1..Len(p) /\ Len(p) \in Nat
  BY LenProperties DEF PoolOK
<1>3. CASE \E r \in DOMAIN p : p[r] = s
  <2>1. x = [pool |-> p, ref |-> Position(s, p)]
    BY <1>3 DEF Intern
  <2>2. Position(s, p) \in DOMAIN p /\ p[Position(s, p)] = s
    BY <1>3 DEF Position
  <2>3. AtlasChars[s] = s
    BY <1>3 DEF PoolOK
  <2> QED BY <2>1, <2>2, <2>3 DEF Extends
<1>4. CASE ~(\E r \in DOMAIN p : p[r] = s) /\ \E r \in DOMAIN p : p[r] = AtlasChars[s]
  <2> DEFINE a == AtlasChars[s]
  <2>1. x = [pool |-> p, ref |-> Position(a, p)]
    BY <1>4 DEF Intern
  <2>2. \E r \in DOMAIN p : p[r] = a
    BY <1>4
  <2> HIDE DEF a
  <2>3. Position(a, p) \in DOMAIN p /\ p[Position(a, p)] = a
    BY <2>2 DEF Position
  <2> QED BY <2>1, <2>3 DEF Extends, a
<1>5. CASE ~(\E r \in DOMAIN p : p[r] = s) /\ ~(\E r \in DOMAIN p : p[r] = AtlasChars[s])
  <2> DEFINE a == AtlasChars[s]
             q == Append(p, a)
             n == Len(p)
  <2>1. x = [pool |-> q, ref |-> n + 1]
    BY <1>5 DEF Intern
  <2>2. a \in Strings /\ AtlasChars[a] = a /\ \A r \in DOMAIN p : p[r] # a
    BY <1>1, <1>5
  <2> HIDE DEF a
  <2>3. q \in Seq(Strings) /\ Len(q) = n + 1 /\ (\A i \in 1..n : q[i] = p[i]) /\ q[n + 1] = a
    BY <1>2, <2>2, AppendProperties
  <2>4. DOMAIN q = 1..n + 1
    BY <2>3, LenProperties
  <2>5. n \in Nat /\ DOMAIN p = 1..n
    BY <1>2
  <2> HIDE DEF q, n
  <2>6. \A r \in DOMAIN q : r = n + 1 \/ (r \in DOMAIN p /\ q[r] = p[r])
    <3>1. \A r \in 1..n + 1 : r = n + 1 \/ r \in 1..n
      BY <2>5
    <3> QED BY <2>3, <2>4, <2>5, <3>1
  <2>7. n + 1 \in DOMAIN q
    BY <2>4, <2>5
  <2>8. \A r \in DOMAIN q : AtlasChars[q[r]] = q[r]
    BY <2>2, <2>3, <2>6 DEF PoolOK
  <2>9. \A r, t \in DOMAIN q : q[r] = q[t] => r = t
    BY <2>2, <2>3, <2>6 DEF PoolOK
  <2>10. PoolOK(q)
    BY <2>3, <2>8, <2>9 DEF PoolOK
  <2>11. Extends(p, q)
    <3>1. \A r \in 1..n : r \in 1..n + 1
      BY <2>5
    <3> QED BY <2>3, <2>4, <2>5, <3>1 DEF Extends
  <2>12. q[n + 1] = AtlasChars[s]
    BY <2>3 DEF a
  <2> QED BY <2>1, <2>7, <2>10, <2>11, <2>12
<1> QED BY <1>3, <1>4, <1>5

\* Tags stay what they are when the pool grows.
LEMMA PoolGrows ==
  ASSUME NEW p, PoolOK(p), NEW q, PoolOK(q), Extends(p, q), NEW o, GoodTags(p, o)
  PROVE  GoodTags(q, o) /\ MapOf(q, o) = MapOf(p, o)
<1>1. \A i \in 1..o.size : TagAt(o, i).key \in DOMAIN p /\ TagAt(o, i).value \in DOMAIN p
  BY DEF GoodTags, Points
<1>2. \A i \in 1..o.size : KeyAt(q, o, i) = KeyAt(p, o, i) /\ ValueAt(q, o, i) = ValueAt(p, o, i)
  BY <1>1 DEF Extends, KeyAt, ValueAt
<1>3. GoodTags(q, o)
  <2>1. Points(q, o)
    BY <1>1 DEF Extends, Points
  <2>2. Sorted(q, o)
    BY <1>2 DEF GoodTags, Sorted
  <2> QED BY <2>1, <2>2 DEF GoodTags
<1>4. PICK f, g : f = MapOf(p, o) /\ g = MapOf(q, o)
  OBVIOUS
<1>5. f = [y \in DOMAIN f |-> f[y]] /\ DOMAIN f = {KeyAt(p, o, i) : i \in 1..o.size}
      /\ \A i \in 1..o.size : f[KeyAt(p, o, i)] = ValueAt(p, o, i)
  <2>1. f = MapOf(p, o)
    BY <1>4
  <2>2. PoolOK(p) /\ GoodTags(p, o)
    OBVIOUS
  <2> QED BY ONLY <2>1, <2>2, MapOfTags
<1>6. g = [y \in DOMAIN g |-> g[y]] /\ DOMAIN g = {KeyAt(q, o, i) : i \in 1..o.size}
      /\ \A i \in 1..o.size : g[KeyAt(q, o, i)] = ValueAt(q, o, i)
  BY <1>3, <1>4, MapOfTags
<1>7. DOMAIN f = DOMAIN g
  BY <1>2, <1>5, <1>6
<1>8. \A y \in DOMAIN f : f[y] = g[y]
  BY <1>2, <1>5, <1>6
<1>9. f = g
  BY <1>5, <1>6, <1>7, <1>8, SameMap
<1> QED BY <1>3, <1>4, <1>9

\* An object with the same tags stands for the same map.
LEMMA SameTags ==
  ASSUME NEW p, PoolOK(p), NEW o, GoodTags(p, o), NEW c, WellFormed(c), c.size = o.size,
         \A i \in 1..o.size : TagAt(c, i) = TagAt(o, i)
  PROVE  GoodTags(p, c) /\ MapOf(p, c) = MapOf(p, o)
<1>2. \A i \in 1..o.size : KeyAt(p, c, i) = KeyAt(p, o, i) /\ ValueAt(p, c, i) = ValueAt(p, o, i)
  BY DEF KeyAt, ValueAt
<1>3. GoodTags(p, c)
  <2>1. Points(p, c)
    BY DEF GoodTags, Points
  <2>2. Sorted(p, c)
    BY <1>2 DEF GoodTags, Sorted
  <2> QED BY <2>1, <2>2 DEF GoodTags
<1>4. PICK f, g : f = MapOf(p, o) /\ g = MapOf(p, c)
  OBVIOUS
<1>5. f = [y \in DOMAIN f |-> f[y]] /\ DOMAIN f = {KeyAt(p, o, i) : i \in 1..o.size}
      /\ \A i \in 1..o.size : f[KeyAt(p, o, i)] = ValueAt(p, o, i)
  <2>1. f = MapOf(p, o)
    BY <1>4
  <2>2. PoolOK(p) /\ GoodTags(p, o)
    OBVIOUS
  <2> QED BY ONLY <2>1, <2>2, MapOfTags
<1>6. g = [y \in DOMAIN g |-> g[y]] /\ DOMAIN g = {KeyAt(p, c, i) : i \in 1..c.size}
      /\ \A i \in 1..c.size : g[KeyAt(p, c, i)] = ValueAt(p, c, i)
  BY <1>3, <1>4, MapOfTags
<1>7. DOMAIN f = DOMAIN g
  BY <1>2, <1>5, <1>6
<1>8. \A y \in DOMAIN f : f[y] = g[y]
  BY <1>2, <1>5, <1>6
<1>9. f = g
  BY <1>5, <1>6, <1>7, <1>8, SameMap
<1> QED BY <1>3, <1>4, <1>9

-----------------------------------------------------------------------------
\* The specification

TagsInv ==
  /\ PoolOK(pool)
  /\ tagsAt = [s \in TagSlots |-> tagsAt[s]]
  /\ \A s \in TagSlots : Alive(s) => GoodTags(pool, tagsAt[s])

\* An object that lives is none that is dead, and its map is none that is gone.
LEMMA GoodIsAlive ==
  ASSUME NEW p, PoolOK(p), NEW o, GoodTags(p, o)
  PROVE  o # Dead /\ MapOf(p, o) # [x \in {0} |-> 0]
<1>1. o # Dead
  BY DEF GoodTags, WellFormed, Room, Object, Dead
<1>2. PICK f : f = MapOf(p, o)
  OBVIOUS
<1>3. DOMAIN f = {KeyAt(p, o, i) : i \in 1..o.size}
  BY <1>2, MapOfTags
<1>4. \A i \in 1..o.size : KeyAt(p, o, i) # 0
  BY KeysAreNumbers DEF GoodTags, Points, KeyAt
<1>5. 0 \notin DOMAIN f
  BY <1>3, <1>4
<1>6. 0 \in DOMAIN [x \in {0} |-> 0]
  OBVIOUS
<1> QED BY <1>1, <1>2, <1>5, <1>6

LEMMA NewIsGood ==
  ASSUME NEW p, PoolOK(p)
  PROVE  GoodTags(p, NewTags) /\ MapOf(p, NewTags) = [k \in {} |-> k]
<1>1. NewTags.size = 0 /\ WellFormed(NewTags)
  BY NewRoom DEF WellFormed
<1>2. GoodTags(p, NewTags)
  BY <1>1 DEF GoodTags, Points, Sorted
<1>3. PICK f : f = MapOf(p, NewTags)
  OBVIOUS
<1>4. f = [x \in DOMAIN f |-> f[x]] /\ DOMAIN f = {KeyAt(p, NewTags, i) : i \in 1..NewTags.size}
  <2>1. PICK o : o = NewTags
    OBVIOUS
  <2>2. f = MapOf(p, o) /\ GoodTags(p, o)
    BY <1>2, <1>3, <2>1
  <2>3. f = [x \in DOMAIN f |-> f[x]] /\ DOMAIN f = {KeyAt(p, o, i) : i \in 1..o.size}
    BY <2>2, MapOfTags
  <2> QED BY <2>1, <2>3
<1>5. DOMAIN f = {}
  BY <1>1, <1>4
<1>6. f = [k \in {} |-> k]
  BY <1>4, <1>5
<1> QED BY <1>2, <1>3, <1>6

\* Both interned: add and WithTag.
LEMMA BothInterned ==
  ASSUME NEW p, PoolOK(p), NEW k \in TagKeys, NEW v \in TagValues,
         NEW ik, ik = Intern(k, p), NEW iv, iv = Intern(v, ik.pool)
  PROVE  /\ PoolOK(iv.pool) /\ Extends(p, iv.pool)
         /\ ik.ref \in DOMAIN iv.pool /\ iv.ref \in DOMAIN iv.pool
         /\ iv.pool[ik.ref] = AtlasChars[k] /\ iv.pool[iv.ref] = AtlasChars[v]
<1>1. k \in Strings /\ v \in Strings
  BY DEF Strings
<1>2. PoolOK(ik.pool) /\ Extends(p, ik.pool) /\ ik.ref \in DOMAIN ik.pool /\ ik.pool[ik.ref] = AtlasChars[k]
  BY <1>1, InternOK
<1>3. PoolOK(iv.pool) /\ Extends(ik.pool, iv.pool) /\ iv.ref \in DOMAIN iv.pool /\ iv.pool[iv.ref] = AtlasChars[v]
  BY <1>1, <1>2, InternOK
<1> QED BY <1>2, <1>3 DEF Extends

\* What becomes of one slot, and the others.

\* The maps of the objects T over the pool p.
MapIn(p, o) == IF o # Dead THEN MapOf(p, o) ELSE [x \in {0} |-> 0]
MapsOf(p, T) == [s \in TagSlots |-> MapIn(p, T[s])]
AllGood(p, T) == T = [s \in TagSlots |-> T[s]] /\ \A s \in TagSlots : T[s] # Dead => GoodTags(p, T[s])

\* What one slot turns into is all that changes.
LEMMA OneSlot ==
  ASSUME NEW p, PoolOK(p), NEW q, PoolOK(q), Extends(p, q), NEW T, AllGood(p, T),
         NEW s \in TagSlots, NEW c, c # Dead => GoodTags(q, c), NEW U, U = With(T, s, c)
  PROVE  /\ AllGood(q, U)
         /\ MapsOf(q, U) = With(MapsOf(p, T), s, MapIn(q, c))
<1>1. T = [x \in TagSlots |-> T[x]] /\ \A x \in TagSlots : T[x] # Dead => GoodTags(p, T[x])
  BY DEF AllGood
<1>2. U = [x \in TagSlots |-> U[x]] /\ U[s] = c /\ \A x \in TagSlots : x # s => U[x] = T[x]
  BY <1>1 DEF With
<1>3. \A x \in TagSlots : T[x] # Dead => GoodTags(q, T[x]) /\ MapOf(q, T[x]) = MapOf(p, T[x])
  <2> SUFFICES ASSUME NEW x \in TagSlots, T[x] # Dead
               PROVE  GoodTags(q, T[x]) /\ MapOf(q, T[x]) = MapOf(p, T[x])
    OBVIOUS
  <2>1. PICK o : o = T[x]
    OBVIOUS
  <2>2. GoodTags(p, o)
    BY <1>1, <2>1
  <2>3. GoodTags(q, o) /\ MapOf(q, o) = MapOf(p, o)
    BY <2>2, PoolGrows
  <2> QED BY <2>1, <2>3
<1>4. AllGood(q, U)
  <2>1. \A x \in TagSlots : U[x] # Dead => GoodTags(q, U[x])
    BY <1>2, <1>3
  <2> QED BY <1>2, <2>1 DEF AllGood
<1>5. \A x \in TagSlots : MapsOf(q, U)[x] = IF x = s THEN MapIn(q, c) ELSE MapsOf(p, T)[x]
  <2> SUFFICES ASSUME NEW x \in TagSlots
               PROVE  MapsOf(q, U)[x] = IF x = s THEN MapIn(q, c) ELSE MapsOf(p, T)[x]
    OBVIOUS
  <2>1. CASE x = s
    BY <1>2, <2>1 DEF MapsOf
  <2>2. CASE x # s
    BY <1>2, <1>3, <2>2 DEF MapsOf, MapIn
  <2> QED BY <2>1, <2>2
<1>6. MapsOf(q, U) = [x \in TagSlots |-> MapsOf(q, U)[x]] /\ MapsOf(p, T) = [x \in TagSlots |-> MapsOf(p, T)[x]]
  BY DEF MapsOf
<1> QED BY <1>4, <1>5, <1>6 DEF With

\* Adding a tag to a good object.
LEMMA AddedTo ==
  ASSUME NEW p, PoolOK(p), NEW q, PoolOK(q), Extends(p, q), NEW o, GoodTags(p, o),
         NEW k \in DOMAIN q, NEW v \in DOMAIN q, NEW c, c = insert(q, o, k, v)
  PROVE  /\ GoodTags(q, c)
         /\ MapOf(q, c) = PutIn(MapOf(p, o), q[k], q[v])
<1>1. GoodTags(q, o) /\ MapOf(q, o) = MapOf(p, o)
  BY PoolGrows
<1>2. /\ GoodTags(q, c)
      /\ MapOf(q, c) = PutIn(MapOf(q, o), q[k], q[v])
  BY <1>1, InsertPuts
<1> QED BY <1>1, <1>2

LEMMA SamePool ==
  ASSUME NEW p PROVE Extends(p, p)
BY DEF Extends

\* The objects and their maps, as one.
LEMMA MapsAreMapsOf == Maps = MapsOf(pool, tagsAt) /\ (TagsInv <=> PoolOK(pool) /\ AllGood(pool, tagsAt))
<1>1. Maps = MapsOf(pool, tagsAt)
  BY DEF Maps, MapsOf, MapIn, Alive, Contents
<1>2. TagsInv <=> PoolOK(pool) /\ AllGood(pool, tagsAt)
  BY DEF TagsInv, AllGood, Alive
<1> QED BY <1>1, <1>2

\* Every operation on tags keeps them good and is one on maps.
LEMMA TagsStep ==
  ASSUME TagsInv, TagsNext
  PROVE  TagsInv' /\ M!Next
<1> DEFINE Gone == [x \in {0} |-> 0]
<1>1. PICK p, T : p = pool /\ T = tagsAt
  OBVIOUS
<1>2. PICK q, U : q = pool' /\ U = tagsAt'
  OBVIOUS
<1>3. PoolOK(p) /\ AllGood(p, T) /\ Maps = MapsOf(p, T)
  BY <1>1, MapsAreMapsOf
<1>4. Maps' = MapsOf(q, U) /\ (TagsInv' <=> PoolOK(q) /\ AllGood(q, U))
  <2>1. Maps' = MapsOf(pool', tagsAt')
    BY DEF Maps, MapsOf, MapIn, Alive, Contents
  <2>2. TagsInv' <=> PoolOK(pool') /\ AllGood(pool', tagsAt')
    BY DEF TagsInv, AllGood, Alive
  <2> QED BY <1>2, <2>1, <2>2
<1>5. \A s \in TagSlots : T[s] # Dead => GoodTags(p, T[s]) /\ MapOf(p, T[s]) # Gone
  <2> SUFFICES ASSUME NEW s \in TagSlots, T[s] # Dead PROVE GoodTags(p, T[s]) /\ MapOf(p, T[s]) # Gone
    OBVIOUS
  <2>1. PICK o : o = T[s]
    OBVIOUS
  <2>2. GoodTags(p, o)
    BY <1>3, <2>1 DEF AllGood
  <2>3. MapOf(p, o) # Gone
    BY <1>3, <2>2, GoodIsAlive
  <2> QED BY <2>1, <2>2, <2>3
<1>6. \A s \in TagSlots : Maps[s] = IF T[s] # Dead THEN MapOf(p, T[s]) ELSE Gone
  BY <1>3 DEF MapsOf, MapIn
<1> HIDE DEF Gone
<1>g. Gone = M!Gone /\ Gone = [x \in {0} |-> 0]
  BY DEF Gone, M!Gone
<1>7. ASSUME NEW s \in TagSlots, TagsNew(s) PROVE TagsInv' /\ M!New(s)
  <2>1. T[s] = Dead /\ U = With(T, s, NewTags) /\ q = p
    BY <1>1, <1>2, <1>7 DEF TagsNew, Alive, With
  <2>2. PICK c : c = NewTags
    OBVIOUS
  <2>3. GoodTags(p, c) /\ MapOf(p, c) = [k \in {} |-> k]
    BY <1>3, <2>2, NewIsGood
  <2>4. c # Dead
    BY <1>3, <2>3, GoodIsAlive
  <2>5. AllGood(q, U) /\ MapsOf(q, U) = With(MapsOf(p, T), s, MapIn(q, c))
    BY <1>3, <2>1, <2>2, <2>3, OneSlot, SamePool
  <2>6. Maps' = [Maps EXCEPT ![s] = M!Empty]
    BY <1>3, <1>4, <2>1, <2>3, <2>4, <2>2, <2>5 DEF M!Empty, With, MapIn
  <2>7. Maps[s] = M!Gone
    BY <1>6, <1>g, <2>1
  <2> QED BY <1>3, <1>4, <2>1, <2>5, <2>6, <2>7 DEF M!New
<1>8. ASSUME NEW s \in TagSlots, TagsDestroy(s) PROVE TagsInv' /\ M!Destroy(s)
  <2>1. T[s] # Dead /\ U = With(T, s, Dead) /\ q = p
    BY <1>1, <1>2, <1>8 DEF TagsDestroy, Alive, With
  <2>2. PICK c : c = Dead
    OBVIOUS
  <2>3. AllGood(q, U) /\ MapsOf(q, U) = With(MapsOf(p, T), s, MapIn(q, c))
    BY <1>3, <2>1, <2>2, OneSlot, SamePool
  <2>4. Maps' = [Maps EXCEPT ![s] = M!Gone]
    BY <1>3, <1>4, <1>g, <2>2, <2>3 DEF With, MapIn
  <2>5. Maps[s] # M!Gone
    BY <1>5, <1>6, <1>g, <2>1
  <2> QED BY <1>3, <1>4, <2>1, <2>3, <2>4, <2>5 DEF M!Destroy
<1>9. ASSUME NEW s \in TagSlots, NEW k \in TagKeys, NEW v \in TagValues, TagsAdd(s, k, v)
      PROVE  TagsInv' /\ M!Add(s)
  <2>1. PICK ik : ik = Intern(k, p)
    OBVIOUS
  <2>2. PICK iv : iv = Intern(v, ik.pool)
    OBVIOUS
  <2>3. PICK o : o = T[s]
    OBVIOUS
  <2>4. PICK c : c = insert(q, o, ik.ref, iv.ref)
    OBVIOUS
  <2>5. o # Dead /\ q = iv.pool /\ U = With(T, s, c)
    BY <1>1, <1>2, <1>3, <1>9, <2>1, <2>2, <2>3, <2>4 DEF TagsAdd, Alive, AllGood, With
  <2>6. PoolOK(q) /\ Extends(p, q) /\ ik.ref \in DOMAIN q /\ iv.ref \in DOMAIN q
        /\ q[ik.ref] = AtlasChars[k] /\ q[iv.ref] = AtlasChars[v]
    BY <1>3, <2>1, <2>2, <2>5, BothInterned
  <2>7. GoodTags(p, o) /\ MapOf(p, o) # Gone
    BY <1>5, <2>3, <2>5
  <2>8. /\ GoodTags(q, c)
        /\ MapOf(q, c) = PutIn(MapOf(p, o), q[ik.ref], q[iv.ref])
    BY <1>3, <2>4, <2>6, <2>7, AddedTo
  <2>9. c # Dead
    BY <2>6, <2>8, GoodIsAlive
  <2>10. AllGood(q, U) /\ MapsOf(q, U) = With(MapsOf(p, T), s, MapIn(q, c))
    BY <1>3, <2>5, <2>6, <2>8, OneSlot
  <2>11. Maps[s] = MapOf(p, o)
    BY <1>6, <2>3, <2>5
  <2>12. Maps' = [Maps EXCEPT ![s] = M!Put(@, AtlasChars[k], AtlasChars[v])]
    <3>1. MapOf(q, c) = M!Put(Maps[s], AtlasChars[k], AtlasChars[v])
      BY <2>6, <2>8, <2>11 DEF M!Put, PutIn
    <3> QED BY <1>3, <1>4, <2>9, <2>10, <3>1 DEF With, MapIn
  <2>13. Maps[s] # M!Gone
    BY <1>g, <2>7, <2>11
  <2> QED BY <1>4, <2>6, <2>10, <2>12, <2>13 DEF M!Add
<1>10. ASSUME NEW s \in TagSlots, NEW t \in TagSlots, TagsCopy(s, t) PROVE TagsInv' /\ M!Copy(s, t)
  <2>1. PICK o : o = T[s]
    OBVIOUS
  <2>2. PICK c : c = CopyOf(o)
    OBVIOUS
  <2>3. o # Dead /\ T[t] = Dead /\ q = p /\ U = With(T, t, c)
    BY <1>1, <1>2, <1>10, <2>1, <2>2 DEF TagsCopy, Alive, With
  <2>4. GoodTags(p, o) /\ MapOf(p, o) # Gone
    BY <1>5, <2>1, <2>3
  <2>5. WellFormed(c) /\ c.size = o.size /\ \A i \in 1..o.size : TagAt(c, i) = TagAt(o, i)
    BY <2>2, <2>4, Copied DEF GoodTags
  <2>6. GoodTags(p, c) /\ MapOf(p, c) = MapOf(p, o)
    BY <1>3, <2>4, <2>5, SameTags
  <2>7. c # Dead
    BY <1>3, <2>6, GoodIsAlive
  <2>8. AllGood(q, U) /\ MapsOf(q, U) = With(MapsOf(p, T), t, MapIn(q, c))
    BY <1>3, <2>3, <2>6, OneSlot, SamePool
  <2>9. Maps[s] = MapOf(p, o) /\ Maps[t] = M!Gone /\ Maps[s] # M!Gone
    BY <1>6, <1>g, <2>1, <2>3, <2>4
  <2>10. Maps' = [Maps EXCEPT ![t] = Maps[s]]
    BY <1>3, <1>4, <2>3, <2>6, <2>7, <2>8, <2>9 DEF With, MapIn
  <2> QED BY <1>3, <1>4, <2>3, <2>8, <2>9, <2>10 DEF M!Copy
<1>11. ASSUME NEW s \in TagSlots, NEW t \in TagSlots, TagsMove(s, t) PROVE TagsInv' /\ M!Move(s, t)
  <2>1. PICK o : o = T[s]
    OBVIOUS
  <2>2. PICK c : c = MovedOut(o)
    OBVIOUS
  <2>a. PICK V : V = With(T, t, c)
    OBVIOUS
  <2>b. PICK d : d = Dead
    OBVIOUS
  <2>3. o # Dead /\ T[t] = Dead /\ q = p /\ U = With(V, s, d)
    BY <1>1, <1>2, <1>11, <2>1, <2>2, <2>a, <2>b DEF TagsMove, Alive, With
  <2>4. GoodTags(p, o) /\ MapOf(p, o) # Gone
    BY <1>5, <2>1, <2>3
  <2>5. WellFormed(c) /\ c.size = o.size /\ \A i \in 1..o.size : TagAt(c, i) = TagAt(o, i)
    BY <2>2, <2>4, Moved DEF GoodTags
  <2>6. GoodTags(p, c) /\ MapOf(p, c) = MapOf(p, o)
    BY <1>3, <2>4, <2>5, SameTags
  <2>7. c # Dead
    BY <1>3, <2>6, GoodIsAlive
  <2>8. AllGood(p, V) /\ MapsOf(p, V) = With(MapsOf(p, T), t, MapIn(p, c))
    BY <1>3, <2>6, <2>a, OneSlot, SamePool
  <2>9. AllGood(p, U) /\ MapsOf(p, U) = With(MapsOf(p, V), s, MapIn(p, d))
    BY <1>3, <2>3, <2>8, <2>b, OneSlot, SamePool
  <2>10. Maps[s] = MapOf(p, o) /\ Maps[t] = M!Gone /\ Maps[s] # M!Gone
    BY <1>6, <1>g, <2>1, <2>3, <2>4
  <2>11. MapsOf(p, V) = [Maps EXCEPT ![t] = Maps[s]]
    BY <1>3, <2>6, <2>7, <2>8, <2>10 DEF With, MapIn
  <2>12. Maps' = [MapsOf(p, V) EXCEPT ![s] = M!Gone]
    BY <1>4, <1>g, <2>3, <2>9, <2>b DEF With, MapIn
  <2>13. Maps' = [Maps EXCEPT ![t] = Maps[s], ![s] = M!Gone]
    BY <2>11, <2>12
  <2> QED BY <1>3, <1>4, <2>3, <2>9, <2>10, <2>13 DEF M!Move
<1>12. ASSUME NEW s \in TagSlots, NEW t \in TagSlots, NEW k \in TagKeys, NEW v \in TagValues, WithTag(s, t, k, v)
       PROVE  TagsInv' /\ M!Extend(s, t)
  <2>1. PICK ik : ik = Intern(k, p)
    OBVIOUS
  <2>2. PICK iv : iv = Intern(v, ik.pool)
    OBVIOUS
  <2>3. PICK o : o = T[s]
    OBVIOUS
  <2>a. PICK b : b = CopyOf(o)
    OBVIOUS
  <2>b. PICK w : w = insert(q, b, ik.ref, iv.ref)
    OBVIOUS
  <2>4. PICK c : c = CopyOf(w)
    OBVIOUS
  <2>5. o # Dead /\ T[t] = Dead /\ q = iv.pool /\ U = With(T, t, c)
    BY <1>1, <1>2, <1>12, <2>1, <2>2, <2>3, <2>4, <2>a, <2>b DEF WithTag, Alive, With
  <2>6. PoolOK(q) /\ Extends(p, q) /\ ik.ref \in DOMAIN q /\ iv.ref \in DOMAIN q
        /\ q[ik.ref] = AtlasChars[k] /\ q[iv.ref] = AtlasChars[v]
    BY <1>3, <2>1, <2>2, <2>5, BothInterned
  <2>7. GoodTags(p, o) /\ MapOf(p, o) # Gone
    BY <1>5, <2>3, <2>5
  <2>c. WellFormed(b) /\ b.size = o.size /\ \A i \in 1..o.size : TagAt(b, i) = TagAt(o, i)
    BY <2>a, <2>7, Copied DEF GoodTags
  <2>d. GoodTags(p, b) /\ MapOf(p, b) = MapOf(p, o)
    BY <1>3, <2>7, <2>c, SameTags
  <2>8. /\ GoodTags(q, w)
        /\ MapOf(q, w) = PutIn(MapOf(p, b), q[ik.ref], q[iv.ref])
    BY <1>3, <2>6, <2>b, <2>d, AddedTo
  <2>e. WellFormed(c) /\ c.size = w.size /\ \A i \in 1..w.size : TagAt(c, i) = TagAt(w, i)
    BY <2>4, <2>8, Copied DEF GoodTags
  <2>f. GoodTags(q, c) /\ MapOf(q, c) = MapOf(q, w)
    BY <2>6, <2>8, <2>e, SameTags
  <2>9. c # Dead
    BY <2>6, <2>f, GoodIsAlive
  <2>10. AllGood(q, U) /\ MapsOf(q, U) = With(MapsOf(p, T), t, MapIn(q, c))
    BY <1>3, <2>5, <2>6, <2>f, OneSlot
  <2>11. Maps[s] = MapOf(p, o) /\ Maps[t] = M!Gone /\ Maps[s] # M!Gone
    BY <1>6, <1>g, <2>3, <2>5, <2>7
  <2>12. Maps' = [Maps EXCEPT ![t] = M!Put(Maps[s], AtlasChars[k], AtlasChars[v])]
    <3>1. MapOf(q, c) = M!Put(Maps[s], AtlasChars[k], AtlasChars[v])
      BY <2>6, <2>8, <2>11, <2>d, <2>f DEF M!Put, PutIn
    <3> QED BY <1>3, <1>4, <2>9, <2>10, <3>1 DEF With, MapIn
  <2> QED BY <1>4, <2>6, <2>10, <2>11, <2>12 DEF M!Extend
<1> QED BY <1>7, <1>8, <1>9, <1>10, <1>11, <1>12 DEF TagsNext, M!Next

LEMMA TagsInvariant == TagsSpec => []TagsInv
<1>1. TagsInit => TagsInv
  <2> SUFFICES ASSUME TagsInit PROVE TagsInv
    OBVIOUS
  <2>1. pool = <<>> /\ tagsAt = [s \in TagSlots |-> Dead]
    BY DEF TagsInit
  <2>2. PoolOK(<<>>)
    BY EmptySeq DEF PoolOK
  <2> QED BY <2>1, <2>2 DEF TagsInv, Alive
<1>2. TagsInv /\ [TagsNext]_tagsVars => TagsInv'
  <2>1. TagsInv /\ TagsNext => TagsInv'
    BY TagsStep
  <2>2. TagsInv /\ UNCHANGED tagsVars => TagsInv'
    BY DEF tagsVars, TagsInv, Alive
  <2> QED BY <2>1, <2>2
<1> QED BY <1>1, <1>2, PTL DEF TagsSpec

\* The tags (tags.h) are where begin_ points, no more than there is memory for, in
\* allocated memory exactly when the destructor frees it, and point to interned
\* strings: for any number of tags and any capacities.
THEOREM TagsTypes == TagsSpec => []TagsTypeOK
<1>1. TagsInv => TagsTypeOK
  <2> SUFFICES ASSUME TagsInv PROVE TagsTypeOK
    OBVIOUS
  <2>1. {pool[r] : r \in DOMAIN pool} \subseteq TagKeys \cup TagValues
    <3>1. PICK p : p = pool
      OBVIOUS
    <3>2. PoolOK(p)
      BY <3>1 DEF TagsInv
    <3>3. \A r \in DOMAIN p : p[r] \in Strings
      BY <3>2, KeysAreNumbers
    <3> QED BY <3>1, <3>3 DEF Strings
  <2>2. ASSUME NEW s \in TagSlots, Alive(s), NEW o, o = tagsAt[s]
        PROVE  /\ o.begin = IF is_large(o) THEN "memory" ELSE "entries"
               /\ is_large(o) => o.capacity = Len(o.memory)
               /\ o.size <= capacity(o)
               /\ \A i \in 1..o.size : {TagAt(o, i).key, TagAt(o, i).value} \subseteq DOMAIN pool
    <3>1. WellFormed(o) /\ Points(pool, o)
      BY <2>2 DEF TagsInv, GoodTags
    <3>2. o.size \in Nat /\ kSmallTags \in Nat
      BY <3>1, TagSizes DEF WellFormed, Room, Object
    <3>3. o.size <= capacity(o)
      <4>1. CASE o.size > kSmallTags
        BY <3>1, <4>1 DEF WellFormed, Room, capacity, is_large
      <4>2. CASE ~(o.size > kSmallTags)
        <5>1. capacity(o) = kSmallTags
          BY <4>2 DEF capacity, is_large
        <5> QED BY <3>2, <4>2, <5>1
      <4> QED BY <4>1, <4>2
    <3>4. o.begin = (IF is_large(o) THEN "memory" ELSE "entries") /\ (is_large(o) => o.capacity = Len(o.memory))
      BY <3>1 DEF WellFormed, Room, is_large
    <3>5. \A i \in 1..o.size : {TagAt(o, i).key, TagAt(o, i).value} \subseteq DOMAIN pool
      BY <3>1 DEF Points
    <3> QED BY <3>3, <3>4, <3>5
  <2> QED BY <2>1, <2>2 DEF TagsTypeOK
<1> QED BY <1>1, TagsInvariant, PTL

\* Tags (tags.h) implement maps from valid keys to valid values, however many tags there
\* are, wherever they are kept, and however often they are copied and moved.
THEOREM TagsAreMaps == TagsSpec => ImplementsTagMap
<1>1. TagsInit => M!Init
  <2> SUFFICES ASSUME TagsInit PROVE M!Init
    OBVIOUS
  <2>1. \A s \in TagSlots : ~Alive(s)
    BY DEF TagsInit, Alive
  <2>2. Maps = [s \in TagSlots |-> [x \in {0} |-> 0]]
    BY <2>1 DEF Maps
  <2> QED BY <2>2 DEF M!Init, M!Gone
<1>2. TagsInv /\ [TagsNext]_tagsVars => [M!Next]_Maps
  <2>1. TagsInv /\ TagsNext => M!Next
    BY TagsStep
  <2>2. UNCHANGED tagsVars => UNCHANGED Maps
    BY DEF tagsVars, Maps, Alive, Contents, MapOf, StringAt
  <2> QED BY <2>1, <2>2
<1> QED BY <1>1, <1>2, TagsInvariant, PTL DEF TagsSpec, ImplementsTagMap, M!Spec

-----------------------------------------------------------------------------
\* Equal arrays and equal maps

\* The first keys are as many as their places.
LEMMA KeysCount ==
  ASSUME NEW p, PoolOK(p), NEW o, GoodTags(p, o), NEW n \in 0..o.size
  PROVE  Cardinality({KeyAt(p, o, j) : j \in 1..n}) = n
<1> DEFINE S == 1..n
           K == {KeyAt(p, o, j) : j \in S}
           g == [j \in S |-> KeyAt(p, o, j)]
<1>1. o.size \in Nat
  BY DEF GoodTags, WellFormed, Room, Object
<1>2. n \in Nat /\ \A j \in S : j \in 1..o.size
  BY <1>1
<1>3. IsFiniteSet(S) /\ Cardinality(S) = n
  <2>1. 1 \in Int /\ n \in Int /\ (IF 1 > n THEN 0 ELSE n - 1 + 1) = n
    BY <1>2
  <2>2. IsFiniteSet(1..n) /\ Cardinality(1..n) = IF 1 > n THEN 0 ELSE n - 1 + 1
    BY <2>1, FS_Interval
  <2> QED BY <2>1, <2>2
<1>4. \A i, j \in S : KeyAt(p, o, i) = KeyAt(p, o, j) => i = j
  BY <1>2, OnePlace
<1> HIDE DEF S
<1>5. g \in Bijection(S, K)
  <2>1. g \in [S -> K]
    OBVIOUS
  <2>2. \A i, j \in S : g[i] = g[j] => i = j
    BY <1>4
  <2>3. \A y \in K : \E i \in S : g[i] = y
    OBVIOUS
  <2> QED BY <2>1, <2>2, <2>3 DEF Bijection, Injection, Surjection, IsInjective
<1>6. ExistsBijection(S, K)
  BY <1>5 DEF ExistsBijection
<1> HIDE DEF K
<1>7. Cardinality(K) = Cardinality(S)
  BY <1>3, <1>6, FS_Bijection
<1> QED BY <1>3, <1>7 DEF K, S

\* The keys below the one at a place are those before it.
LEMMA KeysBelow ==
  ASSUME NEW p, PoolOK(p), NEW o, GoodTags(p, o), NEW i \in 1..o.size
  PROVE  Cardinality({y \in {KeyAt(p, o, j) : j \in 1..o.size} : y < KeyAt(p, o, i)}) = i - 1
<1>1. o.size \in Nat /\ i - 1 \in 0..o.size
  BY DEF GoodTags, WellFormed, Room, Object
<1>2. \A j \in 1..o.size : KeyAt(p, o, j) \in Nat
  BY KeysAreNumbers DEF GoodTags, Points, KeyAt
<1>3. \A j \in 1..o.size : KeyAt(p, o, j) < KeyAt(p, o, i) <=> j \in 1..i - 1
  <2> SUFFICES ASSUME NEW j \in 1..o.size PROVE KeyAt(p, o, j) < KeyAt(p, o, i) <=> j \in 1..i - 1
    OBVIOUS
  <2>1. j \in 1..i - 1 <=> j < i
    BY <1>1
  <2>2. (j < i => KeyAt(p, o, j) < KeyAt(p, o, i)) /\ (i < j => KeyAt(p, o, i) < KeyAt(p, o, j))
    BY DEF GoodTags, Sorted
  <2>3. KeyAt(p, o, j) \in Nat /\ KeyAt(p, o, i) \in Nat
    BY <1>2
  <2>4. j < i \/ i < j \/ i = j
    BY <1>1
  <2>5. i < j \/ i = j => ~(KeyAt(p, o, j) < KeyAt(p, o, i))
    BY <2>2, <2>3
  <2>6. j < i => ~(i < j) /\ i # j
    BY <1>1
  <2> QED BY <2>1, <2>2, <2>4, <2>5, <2>6
<1>4. \A j \in 1..i - 1 : j \in 1..o.size
  BY <1>1
<1>5. {y \in {KeyAt(p, o, j) : j \in 1..o.size} : y < KeyAt(p, o, i)} = {KeyAt(p, o, j) : j \in 1..i - 1}
  BY <1>3, <1>4
<1>6. Cardinality({KeyAt(p, o, j) : j \in 1..i - 1}) = i - 1
  <2> DEFINE n == i - 1
  <2>1. n \in 0..o.size
    BY <1>1
  <2> HIDE DEF n
  <2>2. Cardinality({KeyAt(p, o, j) : j \in 1..n}) = n
    BY <2>1, KeysCount
  <2> QED BY <2>2 DEF n
<1> QED BY <1>5, <1>6

\* There is one sorted array for a map.
LEMMA SameMapSameTags ==
  ASSUME NEW p, PoolOK(p), NEW o, GoodTags(p, o), NEW c, GoodTags(p, c), MapOf(p, o) = MapOf(p, c)
  PROVE  EqualTags(o, c)
<1>1. PICK f : f = MapOf(p, o)
  OBVIOUS
<1>2. DOMAIN f = {KeyAt(p, o, i) : i \in 1..o.size} /\ \A i \in 1..o.size : f[KeyAt(p, o, i)] = ValueAt(p, o, i)
  BY <1>1, MapOfTags
<1>3. DOMAIN f = {KeyAt(p, c, i) : i \in 1..c.size} /\ \A i \in 1..c.size : f[KeyAt(p, c, i)] = ValueAt(p, c, i)
  BY <1>1, MapOfTags
<1>4. o.size \in Nat /\ c.size \in Nat
  BY DEF GoodTags, WellFormed, Room, Object
<1>5. o.size = c.size
  <2>1. Cardinality({KeyAt(p, o, i) : i \in 1..o.size}) = o.size
    <3>1. o.size \in 0..o.size
      BY <1>4
    <3> QED BY <3>1, KeysCount
  <2>2. Cardinality({KeyAt(p, c, i) : i \in 1..c.size}) = c.size
    <3>1. c.size \in 0..c.size
      BY <1>4
    <3> QED BY <3>1, KeysCount
  <2> QED BY <1>2, <1>3, <2>1, <2>2
<1>6. ASSUME NEW i \in 1..o.size PROVE TagAt(o, i) = TagAt(c, i)
  <2>1. PICK j \in 1..c.size : KeyAt(p, o, i) = KeyAt(p, c, j)
    BY <1>2, <1>3
  <2>2. Cardinality({y \in {KeyAt(p, o, n) : n \in 1..o.size} : y < KeyAt(p, o, i)}) = i - 1
    BY KeysBelow
  <2>3. Cardinality({y \in {KeyAt(p, c, n) : n \in 1..c.size} : y < KeyAt(p, c, j)}) = j - 1
    BY KeysBelow
  <2>4. i - 1 = j - 1
    BY <1>2, <1>3, <2>1, <2>2, <2>3
  <2>5. i = j
    BY <1>4, <2>4
  <2>6. KeyAt(p, o, i) = KeyAt(p, c, i) /\ ValueAt(p, o, i) = ValueAt(p, c, i) /\ i \in 1..c.size
    BY <1>2, <1>3, <2>1, <2>5
  <2>7. TagAt(o, i).key \in DOMAIN p /\ TagAt(c, i).key \in DOMAIN p
        /\ TagAt(o, i).value \in DOMAIN p /\ TagAt(c, i).value \in DOMAIN p
    BY <2>6 DEF GoodTags, Points
  <2>8. TagAt(o, i).key = TagAt(c, i).key /\ TagAt(o, i).value = TagAt(c, i).value
    BY <2>6, <2>7 DEF PoolOK, KeyAt, ValueAt
  <2>9. TagAt(o, i) \in Tag /\ TagAt(c, i) \in Tag
    <3>1. Room(o, o.size) /\ Room(c, c.size)
      BY DEF GoodTags, WellFormed
    <3>2. Memory(o) \in Seq(Tag) /\ o.size <= Len(Memory(o)) /\ Len(Memory(o)) \in Nat
      BY <1>4, <3>1, MemoryType
    <3>3. Memory(c) \in Seq(Tag) /\ c.size <= Len(Memory(c)) /\ Len(Memory(c)) \in Nat
      BY <1>4, <3>1, MemoryType
    <3>4. i \in 1..Len(Memory(o)) /\ i \in 1..Len(Memory(c))
      BY <1>4, <2>6, <3>2, <3>3
    <3> QED BY <3>2, <3>3, <3>4, ElementOfSeq DEF TagAt
  <2> QED BY <2>8, <2>9 DEF Tag
<1> QED BY <1>5, <1>6 DEF EqualTags

\* operator== of Tags (tags.h) compares sizes and the memory of the pointers, and so
\* decides whether the maps are the same, however the tags came about: the pool
\* (string_pool.cc) holds every string once, and the order of the keys leaves one array.
THEOREM TagsCompare == TagsSpec => []TagsEqualIffSame
<1>1. TagsInv => TagsEqualIffSame
  <2> SUFFICES ASSUME TagsInv, NEW s \in TagSlots, NEW t \in TagSlots, Alive(s), Alive(t)
               PROVE  EqualTags(tagsAt[s], tagsAt[t]) <=> Contents(tagsAt[s]) = Contents(tagsAt[t])
    BY DEF TagsEqualIffSame
  <2>1. PICK p, o, c : p = pool /\ o = tagsAt[s] /\ c = tagsAt[t]
    OBVIOUS
  <2>2. PoolOK(p) /\ GoodTags(p, o) /\ GoodTags(p, c)
    BY <2>1 DEF TagsInv
  <2>3. EqualTags(o, c) => MapOf(p, o) = MapOf(p, c)
    <3> SUFFICES ASSUME EqualTags(o, c) PROVE MapOf(p, c) = MapOf(p, o)
      OBVIOUS
    <3>1. WellFormed(c) /\ c.size = o.size /\ \A i \in 1..o.size : TagAt(c, i) = TagAt(o, i)
      BY <2>2 DEF EqualTags, GoodTags
    <3> QED BY <2>2, <3>1, SameTags
  <2>4. MapOf(p, o) = MapOf(p, c) => EqualTags(o, c)
    BY <2>2, SameMapSameTags
  <2> QED BY <2>1, <2>3, <2>4 DEF Contents
<1> QED BY <1>1, TagsInvariant, PTL

-----------------------------------------------------------------------------
\* The common tags: a POST changes all that it names or nothing

\* The tags b after those of the object o that are in D were applied, in any order.
Applied(b, o, D) ==
  LET set == {t \in D : ~IsEmpty(o[t])}
  IN [t \in (DOMAIN b \ D) \cup set |-> IF t \in set THEN o[t] ELSE b[t]]

\* The tags of the body being applied, and the others, are where they were.
HandlerInv ==
  /\ todo # {} => /\ handling # NoRequest /\ PostsTags(handling) /\ Accepted(handling)
                  /\ todo \subseteq DOMAIN handling.body[2]
  /\ handling # NoRequest =>
       config_tags = IF todo = {} THEN before
                     ELSE Applied(before, handling.body[2], DOMAIN handling.body[2] \ todo)
  /\ config_tags = [t \in DOMAIN config_tags |-> config_tags[t]]
  /\ before = [t \in DOMAIN before |-> before[t]]

LEMMA ApplyNone ==
  ASSUME NEW b, NEW o, b = [t \in DOMAIN b |-> b[t]]
  PROVE  Applied(b, o, {}) = b
BY DEF Applied

LEMMA ApplyOne ==
  \A b, o, D, t : t \notin D =>
    /\ IsEmpty(o[t]) => Applied(b, o, D \cup {t}) = Erase(Applied(b, o, D), t)
    /\ ~IsEmpty(o[t]) => Applied(b, o, D \cup {t}) = Put(Applied(b, o, D), t, o[t])
<1> TAKE b, o, D, t
<1> HAVE t \notin D
<1>1. CASE IsEmpty(o[t])
  BY <1>1 DEF Applied, Erase
<1>2. CASE ~IsEmpty(o[t])
  BY <1>2 DEF Applied, Put
<1> QED BY <1>1, <1>2

LEMMA OneTag ==
  ASSUME HandlerInv, NEW t \in todo, PostApply(t)
  PROVE  /\ config_tags' = Applied(before, handling.body[2],
                                   (DOMAIN handling.body[2] \ todo) \cup {t})
         /\ handling # NoRequest /\ PostsTags(handling) /\ Accepted(handling)
         /\ todo \subseteq DOMAIN handling.body[2]
<1>a. PICK o : o = handling.body[2]
  OBVIOUS
<1>b. PICK D : D = DOMAIN o \ todo
  OBVIOUS
<1>1. config_tags = Applied(before, o, D) /\ t \notin D
  BY <1>a, <1>b DEF HandlerInv
<1>2. config_tags' = IF IsEmpty(o[t]) THEN Erase(config_tags, t) ELSE Put(config_tags, t, o[t])
  BY <1>a DEF PostApply
<1>3. /\ IsEmpty(o[t]) => Applied(before, o, D \cup {t}) = Erase(Applied(before, o, D), t)
      /\ ~IsEmpty(o[t]) => Applied(before, o, D \cup {t}) = Put(Applied(before, o, D), t, o[t])
  BY <1>1, ApplyOne
<1>4. config_tags' = Applied(before, o, D \cup {t})
  BY <1>1, <1>2, <1>3
<1> QED BY <1>4, <1>a, <1>b DEF HandlerInv

LEMMA HandlerStep ==
  ASSUME HandlerInv, [AdminNext]_adminVars
  PROVE  HandlerInv'
<1>1. CASE UNCHANGED adminVars
  BY <1>1 DEF adminVars, HandlerInv
<1>2. ASSUME NEW uri, NEW method, NEW local, NEW body, Request(uri, method, local, body)
      PROVE  HandlerInv'
  <2>1. todo = {}
    BY <1>2 DEF Request, HandlerInv
  <2>2. todo' = {} /\ config_tags' = config_tags /\ before' = config_tags
    BY <1>2, <2>1 DEF Request
  <2> QED BY <2>2 DEF HandlerInv
<1>3. CASE handleRequest \/ PostRefused
  <2>1. handling' = NoRequest /\ todo' = {} /\ UNCHANGED <<config_tags, before>>
    BY <1>3 DEF handleRequest, PostRefused, Respond
  <2> QED BY <2>1 DEF HandlerInv
<1>4. CASE PostAccepted
  <2>1. UNCHANGED <<config_tags, before>> /\ config_tags = before
    BY <1>4 DEF PostAccepted, HandlerInv
  <2>2. CASE DOMAIN handling.body[2] = {}
    <3>1. handling' = NoRequest /\ todo' = {}
      BY <1>4, <2>2 DEF PostAccepted, Respond
    <3> QED BY <2>1, <3>1 DEF HandlerInv
  <2>3. CASE DOMAIN handling.body[2] # {}
    <3> DEFINE o == handling.body[2]
    <3>1. todo' = DOMAIN o /\ UNCHANGED handling /\ handling # NoRequest /\ PostsTags(handling) /\ Accepted(handling)
      BY <1>4, <2>3 DEF PostAccepted
    <3>2. DOMAIN o \ todo' = {}
      BY <3>1
    <3>3. before = [t \in DOMAIN before |-> before[t]] /\ config_tags = [t \in DOMAIN config_tags |-> config_tags[t]]
      BY DEF HandlerInv
    <3>4. Applied(before, o, {}) = before
      BY <3>3, ApplyNone
    <3>5. config_tags' = Applied(before, o, DOMAIN o \ todo)' /\ todo' # {}
      BY <2>1, <2>3, <3>1, <3>2, <3>4
    <3>6. (PostsTags(handling) /\ Accepted(handling) /\ todo \subseteq DOMAIN o)' /\ handling' # NoRequest
      BY <3>1 DEF PostsTags, Accepted
    <3> QED BY <2>1, <3>3, <3>5, <3>6 DEF HandlerInv
  <2> QED BY <2>2, <2>3
<1>5. ASSUME NEW t \in todo, PostApply(t) PROVE HandlerInv'
  <2> DEFINE o == handling.body[2]
  <2>1. /\ config_tags' = Applied(before, o, (DOMAIN o \ todo) \cup {t}) /\ todo \subseteq DOMAIN o
        /\ handling # NoRequest /\ PostsTags(handling) /\ Accepted(handling)
    BY <1>5, OneTag
  <2>2. before' = before /\ before = [x \in DOMAIN before |-> before[x]]
    BY <1>5 DEF PostApply, HandlerInv
  <2>3. config_tags' = [x \in DOMAIN config_tags' |-> config_tags'[x]]
    BY <2>1 DEF Applied
  <2>4. CASE todo = {t}
    <3>1. handling' = NoRequest /\ todo' = {}
      BY <1>5, <2>4 DEF PostApply, Respond
    <3> QED BY <2>2, <2>3, <3>1 DEF HandlerInv
  <2>5. CASE todo # {t}
    <3>1. handling' = handling /\ todo' = todo \ {t}
      BY <1>5, <2>5 DEF PostApply
    <3>2. DOMAIN o \ todo' = (DOMAIN o \ todo) \cup {t} /\ todo' # {}
      BY <2>1, <2>5, <3>1
    <3>3. config_tags' = Applied(before, o, DOMAIN o \ todo)'
      BY <2>1, <2>2, <3>1, <3>2
    <3>4. (PostsTags(handling) /\ Accepted(handling) /\ todo \subseteq DOMAIN o)' /\ handling' # NoRequest
      BY <2>1, <3>1 DEF PostsTags, Accepted
    <3> QED BY <2>2, <2>3, <3>2, <3>3, <3>4 DEF HandlerInv
  <2> QED BY <2>4, <2>5
<1>6. CASE PublishBatch
  BY <1>6 DEF PublishBatch, HandlerInv
<1> QED BY <1>1, <1>2, <1>3, <1>4, <1>5, <1>6 DEF AdminNext

\* set_common_tags (admin_server.cc) either refuses a body and leaves the common tags of
\* the configuration as they were, or sets every tag it names, deletes those with an
\* empty value and leaves the others; so for any number of tags.
THEOREM AdminWholeOrNothing == AdminSpec => ChangesWholeOrNothing
<1>1. AdminInit => HandlerInv
  BY AdminAssumption DEF AdminInit, HandlerInv
<1>2. HandlerInv /\ [AdminNext]_adminVars => HandlerInv'
  BY HandlerStep
<1> DEFINE Whole ==
      handling # NoRequest /\ handling' = NoRequest =>
        config_tags' =
          IF PostsTags(handling) /\ status' = 200
          THEN LET o == handling.body[2]
                   set == {t \in DOMAIN o : ~IsEmpty(o[t])}
               IN [t \in (DOMAIN before \ DOMAIN o) \cup set |-> IF t \in set THEN o[t] ELSE before[t]]
          ELSE before
<1>3. HandlerInv /\ [AdminNext]_adminVars => [Whole]_adminVars
  <2> SUFFICES ASSUME HandlerInv, AdminNext, handling # NoRequest, handling' = NoRequest PROVE Whole
    OBVIOUS
  <2> DEFINE o == handling.body[2]
  <2>1. PostsTags(handling) /\ status' = 200 => config_tags' = Applied(before, o, DOMAIN o)
    <3> SUFFICES ASSUME PostsTags(handling), status' = 200
                 PROVE  config_tags' = Applied(before, o, DOMAIN o)
      OBVIOUS
    <3>1. CASE PostAccepted
      <4>1. config_tags' = before /\ DOMAIN o = {} /\ before = [t \in DOMAIN before |-> before[t]]
        BY <3>1 DEF PostAccepted, HandlerInv
      <4> QED BY <4>1, ApplyNone
    <3>2. ASSUME NEW t \in todo, PostApply(t) PROVE config_tags' = Applied(before, o, DOMAIN o)
      <4>1. config_tags' = Applied(before, o, (DOMAIN o \ todo) \cup {t}) /\ todo \subseteq DOMAIN o
        BY <3>2, OneTag
      <4>2. todo = {t}
        BY <3>2 DEF PostApply
      <4>3. (DOMAIN o \ todo) \cup {t} = DOMAIN o
        BY <4>1, <4>2
      <4> QED BY <4>1, <4>3
    <3>3. ~handleRequest /\ ~PostRefused
      BY DEF handleRequest, PostRefused, Respond
    <3>4. \A uri, method, local, body : ~Request(uri, method, local, body)
      BY DEF Request
    <3>5. ~PublishBatch
      BY DEF PublishBatch
    <3> QED BY <3>1, <3>2, <3>3, <3>4, <3>5 DEF AdminNext
  <2>2. ~(PostsTags(handling) /\ status' = 200) => config_tags' = before
    <3> SUFFICES ASSUME ~(PostsTags(handling) /\ status' = 200) PROVE config_tags' = before
      OBVIOUS
    <3>1. CASE handleRequest \/ PostRefused \/ PostAccepted
      BY <3>1 DEF handleRequest, PostRefused, PostAccepted, HandlerInv
    <3>2. ASSUME NEW t \in todo, PostApply(t) PROVE FALSE
      BY <3>2, OneTag DEF PostApply, Respond
    <3>3. \A uri, method, local, body : ~Request(uri, method, local, body)
      BY DEF Request
    <3>4. ~PublishBatch
      BY DEF PublishBatch
    <3> QED BY <3>1, <3>2, <3>3, <3>4 DEF AdminNext
  <2> QED BY <2>1, <2>2 DEF Applied
<1> QED BY <1>1, <1>2, <1>3, PTL DEF AdminSpec, ChangesWholeOrNothing

\* The tags of a body are among those that can be posted.
AdminTyped ==
  /\ AdminTypeOK
  /\ handling # NoRequest /\ PostsTags(handling) /\ handling.body[1] = "object" =>
       DOMAIN handling.body[2] \subseteq AdminTags

LEMMA BodyTags ==
  ASSUME NEW b \in Bodies, b[1] = "object"
  PROVE  DOMAIN b[2] \subseteq AdminTags
<1>1. <<"malformed">>[1] # "object" /\ <<"array">>[1] # "object"
  OBVIOUS
<1>2. PICK o \in Objects : b = <<"object", o>>
  BY <1>1 DEF Bodies
<1>3. PICK T \in SUBSET AdminTags : o \in [T -> AdminValues]
  BY <1>2 DEF Objects
<1> QED BY <1>2, <1>3

LEMMA AdminTypedStep == AdminTyped /\ [AdminNext]_adminVars => AdminTyped'
<1> SUFFICES ASSUME AdminTyped, [AdminNext]_adminVars PROVE AdminTyped'
  OBVIOUS
<1>1. CASE UNCHANGED adminVars
  BY <1>1 DEF adminVars, AdminTyped, AdminTypeOK
<1>2. ASSUME NEW uri \in Uris, NEW method \in {"GET", "POST", "DELETE"}, NEW local \in BOOLEAN,
             NEW body \in IF method = "POST" THEN Bodies ELSE {<<>>}, Request(uri, method, local, body)
      PROVE  AdminTyped'
  <2>1. AdminTypeOK'
    BY <1>2 DEF Request, AdminTyped, AdminTypeOK
  <2>2. handling'.method = method /\ handling'.body = body
    BY <1>2 DEF Request
  <2>3. ASSUME PostsTags(handling'), handling'.body[1] = "object" PROVE DOMAIN handling'.body[2] \subseteq AdminTags
    <3>1. method = "POST"
      BY <2>2, <2>3 DEF PostsTags
    <3>2. body \in Bodies /\ body[1] = "object"
      BY <2>2, <2>3, <3>1
    <3> QED BY <2>2, <3>2, BodyTags
  <2> QED BY <2>1, <2>3 DEF AdminTyped
<1>3. CASE handleRequest
  <2>1. PICK code \in Route(handling) : Respond(code)
    BY <1>3 DEF handleRequest
  <2>2. code \in {0, 200, 400, 404}
    BY <2>1 DEF Route
  <2> QED BY <1>3, <2>1, <2>2 DEF handleRequest, Respond, AdminTyped, AdminTypeOK
<1>4. CASE PostRefused
  BY <1>4 DEF PostRefused, Respond, AdminTyped, AdminTypeOK
<1>5. CASE PostAccepted
  <2>1. DOMAIN handling.body[2] \subseteq AdminTags
    BY <1>5 DEF PostAccepted, Accepted, AdminTyped
  <2> QED BY <1>5, <2>1 DEF PostAccepted, Respond, AdminTyped, AdminTypeOK
<1>6. ASSUME NEW t \in todo, PostApply(t) PROVE AdminTyped'
  <2>1. t \in AdminTags
    BY DEF AdminTyped, AdminTypeOK
  <2> DEFINE v == handling.body[2][t]
  <2>2. DOMAIN Erase(config_tags, t) \subseteq AdminTags /\ DOMAIN Put(config_tags, t, v) \subseteq AdminTags
    BY <2>1 DEF Erase, Put, AdminTyped, AdminTypeOK
  <2>3. DOMAIN config_tags' \subseteq AdminTags
    BY <1>6, <2>2 DEF PostApply
  <2>4. /\ before' = before /\ todo' \subseteq AdminTags /\ status' \in {0, 200, 400, 404}
        /\ handling' \in {handling, NoRequest}
    BY <1>6 DEF PostApply, Respond, AdminTyped, AdminTypeOK
  <2> QED BY <2>3, <2>4 DEF AdminTyped, AdminTypeOK
<1>7. CASE PublishBatch
  BY <1>7 DEF PublishBatch, AdminTyped, AdminTypeOK
<1> QED BY <1>1, <1>2, <1>3, <1>4, <1>5, <1>6, <1>7 DEF AdminNext

\* The handlers answer with one of their codes, and only tags that a request can name
\* or the configuration starts with are ever among the common tags.
THEOREM AdminTypes == AdminSpec => []AdminTypeOK
<1>1. AdminInit => AdminTyped
  BY AdminAssumption DEF AdminInit, AdminTyped, AdminTypeOK
<1>2. AdminTyped => AdminTypeOK
  BY DEF AdminTyped
<1> QED BY <1>1, <1>2, AdminTypedStep, PTL DEF AdminSpec
=============================================================================
