-------------------------------- MODULE Tags --------------------------------
(***************************************************************************)
(* Tags (spectator/tags.h) over interned strings (string_pool.cc).  Keys   *)
(* and values are pointers into the pool: they are compared for equality   *)
(* as pointers and for order by what they point to.  The tags are sorted   *)
(* by key, in the object itself while they are few and in allocated memory *)
(* afterwards; the capacity of that memory shares a union with the first   *)
(* of the tags in the object.                                              *)
(***************************************************************************)
EXTENDS Integers, Sequences

CONSTANTS
  TagSlots,    \* places in memory where a Tags object may live
  TagKeys, TagValues,  \* strings, as numbers in strcmp order
  AtlasChars,  \* [strings -> strings]: invalid characters become '_'
  kSmallTags,  \* tags kept in the object
  TagGrowth       \* by how many tags the memory grows (4)

ASSUME TagsAssumption ==
  /\ TagKeys \cup TagValues \subseteq Nat \ {0}
  /\ AtlasChars \in [TagKeys \cup TagValues -> TagKeys \cup TagValues]
  /\ \A s \in TagKeys \cup TagValues : AtlasChars[AtlasChars[s]] = AtlasChars[s]
  /\ kSmallTags \in Nat \ {0} /\ TagGrowth \in Nat \ {0}

VARIABLES
  pool,  \* the interned strings; a StrRef is an index
  tagsAt \* [TagSlots -> a Tags object, or Dead]

tagsVars == <<pool, tagsAt>>

Junk == [key |-> 0, value |-> 0]    \* memory that holds no tag
Dead == [size |-> 0, entries |-> <<>>, capacity |-> 0, begin |-> "none", memory |-> <<>>]

JunkTags(n) == [i \in 1..n |-> Junk]

\* Tags()
NewTags == [size |-> 0, entries |-> JunkTags(kSmallTags), capacity |-> 0,
            begin |-> "entries", memory |-> <<>>]

-----------------------------------------------------------------------------
\* The string pool

Position(s, p) == CHOOSE r \in DOMAIN p : p[r] = s

Intern_always_adds(s, p) ==
  IF \E r \in DOMAIN p : p[r] = s THEN [pool |-> p, ref |-> Position(s, p)]
  ELSE [pool |-> Append(p, AtlasChars[s]), ref |-> Len(p) + 1]

\* Intern: the table is searched for the string as it is; if that fails, a copy
\* with valid characters is inserted, unless it is there.
Intern(s, p) ==
  IF \E r \in DOMAIN p : p[r] = s THEN [pool |-> p, ref |-> Position(s, p)]
  ELSE IF \E r \in DOMAIN p : p[r] = AtlasChars[s] THEN [pool |-> p, ref |-> Position(AtlasChars[s], p)]
  ELSE [pool |-> Append(p, AtlasChars[s]), ref |-> Len(p) + 1]

-----------------------------------------------------------------------------
\* Operations on an object o, as functions of it

is_large(o) == o.size > kSmallTags
capacity(o) == IF is_large(o) THEN o.capacity ELSE kSmallTags

\* The memory at begin_, and the tag at begin() + i - 1.
Memory(o) == IF o.begin = "entries" THEN o.entries ELSE o.memory
TagAt(o, i) == Memory(o)[i]

\* Storing to the memory at begin_.
StoreAll(o, tags) ==
  IF o.begin = "entries" THEN [o EXCEPT !.entries = tags] ELSE [o EXCEPT !.memory = tags]
Store(o, i, tag) == StoreAll(o, [Memory(o) EXCEPT ![i] = tag])

\* Writing capacity_ overwrites the start of entries_.
SetCapacity(o, c) == [o EXCEPT !.capacity = c, !.entries[1] = Junk]

reallocate_capacity_first(o) ==
  LET c == capacity(o) + TagGrowth
  IN IF is_large(o)
     THEN [o EXCEPT !.memory = @ \o JunkTags(TagGrowth), !.capacity = c]
     ELSE LET u == SetCapacity(o, c)
          IN [u EXCEPT !.begin = "memory", !.memory = u.entries \o JunkTags(TagGrowth)]

\* reallocate: from the object to memory, or to more memory.
reallocate(o) ==
  LET c == capacity(o) + TagGrowth
  IN IF is_large(o)
     THEN [o EXCEPT !.memory = @ \o JunkTags(TagGrowth), !.capacity = c]
     ELSE SetCapacity([o EXCEPT !.begin = "memory", !.memory = o.entries \o JunkTags(TagGrowth)], c)

\* std::lower_bound by what the keys point to in the pool p.
lower_bound(p, o, k) ==
  CHOOSE i \in 1..o.size + 1 :
    /\ \A j \in 1..i - 1 : p[TagAt(o, j).key] < p[k]
    /\ i <= o.size => p[TagAt(o, i).key] >= p[k]

\* std::copy_backward(it, end(), end() + 1)
copy_backward(o, it) ==
  StoreAll(o, [i \in DOMAIN Memory(o) |-> IF i \in it + 1..o.size + 1 THEN TagAt(o, i - 1) ELSE TagAt(o, i)])

\* insert: replace the value of the key, or make room for it at its place.
insert(p, o, k, v) ==
  LET it == lower_bound(p, o, k)
      r == IF o.size = capacity(o) THEN reallocate(o) ELSE o
  IN IF it <= o.size /\ TagAt(o, it).key = k
     THEN Store(o, it, [key |-> k, value |-> v])
     ELSE [Store(copy_backward(r, it), it, [key |-> k, value |-> v]) EXCEPT !.size = @ + 1]

\* Tags(const Tags&): as much memory as there are tags, if there are many.
CopyOf(o) ==
  IF is_large(o)
  THEN SetCapacity([NewTags EXCEPT !.size = o.size, !.begin = "memory", !.memory = SubSeq(o.memory, 1, o.size)], o.size)
  ELSE [NewTags EXCEPT !.size = o.size,
                       !.entries = [i \in 1..kSmallTags |-> IF i <= o.size THEN TagAt(o, i) ELSE Junk]]

\* Tags(Tags&&): takes the memory over, or copies the tags of the object.
MovedOut(o) ==
  IF is_large(o)
  THEN SetCapacity([NewTags EXCEPT !.size = o.size, !.begin = "memory", !.memory = o.memory], o.capacity)
  ELSE CopyOf(o)

\* operator==: the sizes, then the pointers, in order.
EqualTags(o, p) == o.size = p.size /\ \A i \in 1..o.size : TagAt(o, i) = TagAt(p, i)

-----------------------------------------------------------------------------
TagsInit == pool = <<>> /\ tagsAt = [s \in TagSlots |-> Dead]

Alive(s) == tagsAt[s] # Dead

TagsNew(s) ==
  /\ ~Alive(s) /\ tagsAt' = [tagsAt EXCEPT ![s] = NewTags]
  /\ UNCHANGED pool

TagsDestroy(s) ==
  /\ Alive(s) /\ tagsAt' = [tagsAt EXCEPT ![s] = Dead]
  /\ UNCHANGED pool

\* add interns key and value; their order is the compiler's choice and decides
\* no more than which pointers they get.
TagsAdd(s, k, v) ==
  LET ik == Intern(k, pool)
      iv == Intern(v, ik.pool)
  IN /\ Alive(s)
     /\ pool' = iv.pool
     /\ tagsAt' = [tagsAt EXCEPT ![s] = insert(iv.pool, @, ik.ref, iv.ref)]

TagsCopy(s, t) ==
  /\ Alive(s) /\ ~Alive(t)
  /\ tagsAt' = [tagsAt EXCEPT ![t] = CopyOf(tagsAt[s])]
  /\ UNCHANGED pool

\* The source of a move is only destroyed afterwards.
TagsMove(s, t) ==
  /\ Alive(s) /\ ~Alive(t)
  /\ tagsAt' = [tagsAt EXCEPT ![t] = MovedOut(tagsAt[s]), ![s] = Dead]
  /\ UNCHANGED pool

\* Id::WithTag: copy the tags, add one, and copy them into the new Id.
WithTag(s, t, k, v) ==
  LET ik == Intern(k, pool)
      iv == Intern(v, ik.pool)
  IN /\ Alive(s) /\ ~Alive(t)
     /\ pool' = iv.pool
     /\ tagsAt' = [tagsAt EXCEPT ![t] = CopyOf(insert(iv.pool, CopyOf(tagsAt[s]), ik.ref, iv.ref))]

TagsNext == \E s \in TagSlots :
  \/ TagsNew(s) \/ TagsDestroy(s)
  \/ \E k \in TagKeys, v \in TagValues : TagsAdd(s, k, v)
  \/ \E t \in TagSlots : TagsCopy(s, t) \/ TagsMove(s, t)
  \/ \E t \in TagSlots, k \in TagKeys, v \in TagValues : WithTag(s, t, k, v)

TagsSpec == TagsInit /\ [][TagsNext]_tagsVars

-----------------------------------------------------------------------------
\* The tags are where begin_ points, within the memory there is, and are in
\* allocated memory exactly when the destructor will free it.
TagsTypeOK ==
  /\ {pool[r] : r \in DOMAIN pool} \subseteq TagKeys \cup TagValues
  /\ \A s \in TagSlots : Alive(s) =>
       LET o == tagsAt[s]
       IN /\ o.begin = IF is_large(o) THEN "memory" ELSE "entries"
          /\ is_large(o) => o.capacity = Len(o.memory)
          /\ o.size <= capacity(o)
          /\ \A i \in 1..o.size : {TagAt(o, i).key, TagAt(o, i).value} \subseteq DOMAIN pool

\* The string a pointer leads to in the pool p; none, 0, for one that leads nowhere.
StringAt(p, r) == IF r \in DOMAIN p THEN p[r] ELSE 0

\* The map that an object stands for.
MapOf(p, o) ==
  [x \in {StringAt(p, TagAt(o, i).key) : i \in 1..o.size} |->
     LET i == CHOOSE j \in 1..o.size : StringAt(p, TagAt(o, j).key) = x IN StringAt(p, TagAt(o, i).value)]
Contents(o) == MapOf(pool, o)

\* The maps of all objects; no string is 0.
Maps == [s \in TagSlots |-> IF Alive(s) THEN Contents(tagsAt[s]) ELSE [x \in {0} |-> 0]]

M == INSTANCE TagMap WITH
       Slots <- TagSlots, maps <- Maps,
       Keys <- {AtlasChars[k] : k \in TagKeys}, Values <- {AtlasChars[v] : v \in TagValues}

\* The sorted arrays, in the object or outside it, and the copies and moves of
\* them behave as maps from valid keys to valid values.
ImplementsTagMap == M!Spec

\* Comparing sizes and pointers decides whether two objects hold the same map:
\* interning gives every string one pointer, and the order leaves one array.
TagsEqualIffSame ==
  \A s, t \in TagSlots : Alive(s) /\ Alive(t) =>
    (EqualTags(tagsAt[s], tagsAt[t]) <=> Contents(tagsAt[s]) = Contents(tagsAt[t]))
=============================================================================
