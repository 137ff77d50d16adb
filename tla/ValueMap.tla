------------------------------ MODULE ValueMap ------------------------------
(***************************************************************************)
(* ValueMap.hpp: a map of values packed into one block of memory - header, *)
(* table of entries, pool of payloads - that can be sent as it is.  The    *)
(* records of the values and the keys that are too long for the table lie  *)
(* in the pool.  What is freed there goes to a list of chunks kept in the  *)
(* pool itself, first fit, split, never joined; when nothing fits the pool *)
(* is used further, and when that is full everything moves to a larger     *)
(* block and all offsets are rebased.  What the bytes of a value say is    *)
(* left out: an entry is the region that the map takes for its record.     *)
(***************************************************************************)
EXTENDS Integers, Sequences, FiniteSets, FiniteSetsExt, SequencesExt

CONSTANTS
    Keys,
    Spilled,       \* the keys too long for the table
    KeyLength,     \* their length
    Values,        \* [type, content]: the bytes behind the header of a record
    Sources,       \* the other maps that are merged: sequences of [key, type, len]
    FirstEntries,  \* entries of a new map
    FirstPool,     \* bytes in the pool of a new map
    ChildSize,     \* bytes of a nested map that is formatted in place
    MaxUsed,       \* bound on the bytes used in the pool
    MaxOps         \* bound on the operations

HeaderSize  == 32
EntrySize   == 48
RecHeader   == 8
ChunkHeader == 8
NoRecord    == 0

ASSUME SizesAssumption ==
    /\ IsFiniteSet(Keys) /\ Spilled \subseteq Keys
    /\ KeyLength \in Nat /\ KeyLength + 1 >= ChunkHeader
    /\ Values \subseteq [type : STRING, content : Nat]
    /\ Sources \subseteq Seq([key : Keys, type : STRING, len : Nat])
    /\ FirstEntries \in Nat \ {0}
    /\ {FirstPool, ChildSize, MaxUsed, MaxOps} \subseteq Nat

VARIABLES
    m,       \* the map: its header, entries and free list, see MapOf
    fixed,   \* it lies in memory of its user, and cannot grow (makeAt())
    ops      \* operations so far

vars == <<m, fixed, ops>>

AlignUp(n) == ((n + 15) \div 16) * 16
\* Where the pool begins in a block for n entries.
PoolStart(n) == HeaderSize + EntrySize * n

Nowhere == [key \in {} |-> 0]
MapOf(n, bytes) ==
    [entries |-> Nowhere,   \* key -> [at, len, type, keyAt], offsets in the block
     table   |-> n,         \* entryCapacity
     pool    |-> bytes,     \* payloadCapacity
     used    |-> 0,         \* payloadUsed
     free    |-> <<>>]      \* the chunks [at, len] from payloadFreeHead on

Start(map) == PoolStart(map.table)
Count(map) == Cardinality(DOMAIN map.entries)
With(entries, key, e) == [k \in DOMAIN entries \cup {key} |-> IF k = key THEN e ELSE entries[k]]
Without(entries, key) == [k \in DOMAIN entries \ {key} |-> entries[k]]

-----------------------------------------------------------------------------
(* The block *)

\* A new block with everything rebased to where its pool begins.
Moved(map, table, pool) ==
    LET shift == PoolStart(table) - Start(map)
        To(at) == IF at = NoRecord THEN at ELSE at + shift
        Entry(e) == [e EXCEPT !.at = To(e.at), !.keyAt = To(e.keyAt)]
        Chunk(c) == [c EXCEPT !.at = To(c.at)]
    IN  [map EXCEPT !.table = table, !.pool = pool,
            !.entries = [k \in DOMAIN map.entries |-> Entry(map.entries[k])],
            !.free = [i \in DOMAIN map.free |-> Chunk(map.free[i])]]

\* _grow()
Grow(map, entries, bytes) ==
    Moved(map, Max({entries, Count(map), map.table + map.table \div 2, FirstEntries}),
               Max({bytes, map.used, map.pool + map.pool \div 2}))

-----------------------------------------------------------------------------
(* The pool.  The result of taking bytes is [map, at], where at = NoRecord   *)
(* when a map that cannot grow has no room.                                  *)

\* _freeListPush()
Freed(map, at, len) ==
    IF len < ChunkHeader THEN map
    ELSE [map EXCEPT !.free = <<[at |-> at, len |-> len]>> \o @]

Fitting(map, n) == {i \in DOMAIN map.free : map.free[i].len >= n}

\* Faulty: the rest of the chunk is given back whole.
PoppedWhole(map, n) ==
    LET i == Min(Fitting(map, n))
        c == map.free[i]
    IN  Freed([map EXCEPT !.free = RemoveAt(@, i)], c.at + n, c.len)

\* _freeListPopFit(): the first chunk that is large enough, without its rest.
Popped(map, n) ==
    LET i == Min(Fitting(map, n))
        c == map.free[i]
    IN  Freed([map EXCEPT !.free = RemoveAt(@, i)], c.at + n, c.len - n)

\* n bytes behind position "from" of the pool, which grows when it is full
Bumped(map, from, n) ==
    LET room == from + n <= map.pool
        to == IF room THEN map ELSE Grow(map, Count(map), from + n)
    IN  IF ~room /\ fixed THEN [map |-> map, at |-> NoRecord]
        ELSE [map |-> [to EXCEPT !.used = from + n], at |-> Start(to) + from]

Taken(map, from, n) ==
    IF Fitting(map, n) # {}
    THEN [map |-> Popped(map, n), at |-> map.free[Min(Fitting(map, n))].at]
    ELSE Bumped(map, from, n)

\* _appendPayload(): keys, and whatever merge() copies
AppendPayload(map, n) == Taken(map, map.used, n)

\* _appendValueRecord(): what is appended to the pool is aligned.
AppendRecord(map, content) == Taken(map, AlignUp(map.used), AlignUp(RecHeader + content))

-----------------------------------------------------------------------------
(* Entries *)

\* _ensureEntrySlot(): one entry is kept for the end marker.
HasSlot(map) == Count(map) + 1 < map.table
EnsureSlot(map) == IF HasSlot(map) THEN map ELSE Grow(map, Count(map) + 2, map.used)

Unset == [at |-> NoRecord, len |-> 0, type |-> "none", keyAt |-> NoRecord]

\* A record that is overwritten where it lies: a scalar by one of its type, a
\* string by one that fits.  Values that come from a Value are always copied.
InPlace(e, v) ==
    /\ e.at # NoRecord /\ e.type = v.type
    /\ \/ v.type \notin {"string", "tensor"} /\ v.content <= 8 /\ AlignUp(e.len) = 16
       \/ v.type = "string" /\ RecHeader + v.content <= AlignUp(e.len)

\* _assignValueAt(): nothing for an empty value; otherwise a new record, and the
\* old one is freed, at the place to which it has moved if the block has.
Assigned(map, key, v, copy) ==
    LET e == map.entries[key]
        r == AppendRecord(map, v.content)
        new == [r.map.entries[key] EXCEPT !.at = r.at, !.len = RecHeader + v.content, !.type = v.type]
        to == [r.map EXCEPT !.entries = With(@, key, new)]
        old == e.at + Start(to) - Start(map)
    IN  IF v.type = "none" THEN [map |-> map, ok |-> TRUE]
        ELSE IF InPlace(e, v) /\ ~copy
        THEN [map |-> [map EXCEPT !.entries = With(@, key, [e EXCEPT !.len = AlignUp(e.len)])], ok |-> TRUE]
        ELSE IF r.at = NoRecord THEN [map |-> map, ok |-> FALSE]
        ELSE [map |-> IF e.at = NoRecord THEN to ELSE Freed(to, old, AlignUp(e.len)), ok |-> TRUE]

\* _insertNew(): a value that does not fit leaves no entry, but the bytes of
\* its key in the pool.
Inserted(map, key, v) ==
    LET slot == EnsureSlot(map)
        k == AppendPayload(slot, KeyLength + 1)
        keyed == IF key \notin Spilled THEN [slot EXCEPT !.entries = With(@, key, Unset)]
                 ELSE [k.map EXCEPT !.entries = With(@, key, [Unset EXCEPT !.keyAt = k.at])]
        r == Assigned(keyed, key, v, FALSE)
    IN  IF (~HasSlot(map) /\ fixed) \/ (key \in Spilled /\ k.at = NoRecord) THEN map
        ELSE IF r.ok THEN r.map
        ELSE [r.map EXCEPT !.entries = Without(@, key)]

\* _reclaimEntryPayload(): the record first, then the key.
Reclaimed(map, e) ==
    LET value == IF e.at = NoRecord THEN map ELSE Freed(map, e.at, AlignUp(e.len))
    IN  IF e.keyAt = NoRecord THEN value ELSE Freed(value, e.keyAt, KeyLength + 1)

-----------------------------------------------------------------------------
(* Operations of a map that may grow *)

Becomes(map) ==
    /\ ops < MaxOps /\ ops' = ops + 1
    /\ map.used <= MaxUsed
    /\ m' = map /\ UNCHANGED fixed

\* emplace(), and operator[] with an empty value
Emplace(key, v) == key \notin DOMAIN m.entries /\ Becomes(Inserted(m, key, v))

\* insert_or_assign() of a key that is there
Assign(key, v, copy) == key \in DOMAIN m.entries /\ Becomes(Assigned(m, key, v, copy).map)

Erase(key) ==
    /\ key \in DOMAIN m.entries
    /\ Becomes(Reclaimed([m EXCEPT !.entries = Without(@, key)], m.entries[key]))

Clear == Becomes([m EXCEPT !.entries = Nowhere, !.used = 0, !.free = <<>>])

\* shrink_to_fit(): no more memory than is used, which is not compacted.
Shrink == ~fixed /\ Becomes(Moved(m, Count(m), m.used))

Reserved(map, entries, bytes) ==
    LET needed == Max({entries, Count(map)}) + 1
    IN  IF ~fixed /\ (needed > map.table \/ bytes > map.pool) THEN Grow(map, needed, bytes) ELSE map

Reserve(entries, bytes) == Becomes(Reserved(m, entries, bytes))

\* One step of merge(): the bytes of key and record are copied as they are,
\* without what aligns them, and merge() ends at the first that does not fit.
MergedOne(acc, e) ==
    LET map == acc.map
        slot == EnsureSlot(map)
        k == AppendPayload(slot, KeyLength)
        keyed == IF e.key \notin Spilled THEN [slot EXCEPT !.entries = With(@, e.key, Unset)]
                 ELSE [k.map EXCEPT !.entries = With(@, e.key, [Unset EXCEPT !.keyAt = k.at])]
        r == AppendPayload(keyed, e.len)
        new == [r.map.entries[e.key] EXCEPT !.at = r.at, !.len = e.len, !.type = e.type]
    IN  IF ~acc.ok \/ e.key \in DOMAIN map.entries THEN acc
        ELSE IF (~HasSlot(map) /\ fixed) \/ (e.key \in Spilled /\ k.at = NoRecord)
        THEN [map |-> map, ok |-> FALSE]
        ELSE IF r.at = NoRecord
        THEN [map |-> [r.map EXCEPT !.entries = Without(@, e.key)], ok |-> FALSE]
        ELSE [map |-> [r.map EXCEPT !.entries = With(@, e.key, new)], ok |-> TRUE]

\* merge(): room for all of them, then one entry after the other
Growth(src) ==
    LET bytes[i \in 0..Len(src)] ==
            IF i = 0 THEN 0
            ELSE bytes[i - 1] + src[i].len + (IF src[i].key \in Spilled THEN KeyLength ELSE 0)
    IN  bytes[Len(src)]

Merged(map, src) ==
    LET roomy == Reserved(map, Count(map) + Len(src), map.used + Growth(src))
        upto[i \in 0..Len(src)] == IF i = 0 THEN [map |-> roomy, ok |-> TRUE]
                                   ELSE MergedOne(upto[i - 1], src[i])
    IN  upto[Len(src)].map

Merge(src) == Becomes(Merged(m, src))

-----------------------------------------------------------------------------
(* Operations of a view, which never allocates: it appends to the pool only. *)

\* n bytes from position "from" of the pool on, if it has them
Beyond(map, from, n) ==
    [map |-> [map EXCEPT !.used = from + n], at |-> Start(map) + from, ok |-> from + n <= map.pool]

ViewEmplace(key, v) ==
    LET r == Beyond(m, AlignUp(m.used), AlignUp(RecHeader + v.content))
        e == [Unset EXCEPT !.at = r.at, !.len = RecHeader + v.content, !.type = v.type]
    IN  /\ key \notin DOMAIN m.entries \cup Spilled /\ v.type # "none"
        /\ HasSlot(m) /\ r.ok
        /\ Becomes([r.map EXCEPT !.entries = With(@, key, e)])

\* A scalar of another type gets a new record, and the old one is lost.
ViewAssign(key, v) ==
    LET e == m.entries[key]
        r == Beyond(m, AlignUp(m.used), AlignUp(RecHeader + v.content))
        new == [e EXCEPT !.at = r.at, !.len = RecHeader + v.content, !.type = v.type]
    IN  /\ key \in DOMAIN m.entries /\ e.at # NoRecord
        /\ \/ /\ v.type = "string" /\ e.type = "string"
              /\ AlignUp(RecHeader + v.content) = AlignUp(e.len)
              /\ Becomes([m EXCEPT !.entries = With(@, key, [e EXCEPT !.len = RecHeader + v.content])])
           \/ /\ v.type \notin {"none", "string"} /\ v.type # e.type
              /\ r.ok
              /\ Becomes([r.map EXCEPT !.entries = With(@, key, new)])

\* try_emplace_map(): the nested map begins at an aligned address, its record
\* half a unit before.
ViewNest(key) ==
    LET content == AlignUp(Start(m) + m.used + RecHeader)
        r == Beyond(m, content - RecHeader - Start(m), AlignUp(RecHeader + ChildSize))
        e == [Unset EXCEPT !.at = r.at, !.len = RecHeader + ChildSize, !.type = "map"]
    IN  /\ key \notin DOMAIN m.entries \cup Spilled
        /\ HasSlot(m) /\ r.ok
        /\ Becomes([r.map EXCEPT !.entries = With(@, key, e)])

-----------------------------------------------------------------------------

\* A map of its own memory, or a fixed one for as many entries and bytes
Init ==
    /\ fixed \in BOOLEAN
    /\ m = MapOf(FirstEntries, IF fixed THEN MaxUsed ELSE FirstPool)
    /\ ops = 0

Next ==
    \/ \E key \in Keys, v \in Values :
          \/ Emplace(key, v) \/ ViewEmplace(key, v) \/ ViewAssign(key, v)
          \/ \E copy \in BOOLEAN : Assign(key, v, copy)
    \/ \E key \in Keys : Erase(key) \/ ViewNest(key)
    \/ Clear \/ Shrink
    \/ \E n \in {Cardinality(Keys) + 1} : Reserve(n, m.used + 16)
    \/ \E src \in Sources : Merge(src)

Spec == Init /\ [][Next]_vars

-----------------------------------------------------------------------------
(* Properties *)

\* What is merged fills what is reserved for it, and no key of it is long.
MergedWhole ==
    \A src \in Sources : \A i \in DOMAIN src : AlignUp(src[i].len) = src[i].len /\ src[i].key \notin Spilled

\* What the map will free, or has freed, in the pool
Regions ==
    {[of |-> <<"record", key>>, from |-> m.entries[key].at, to |-> m.entries[key].at + AlignUp(m.entries[key].len)] :
        key \in {k \in DOMAIN m.entries : m.entries[k].at # NoRecord}}
    \cup {[of |-> <<"key", key>>, from |-> m.entries[key].keyAt, to |-> m.entries[key].keyAt + KeyLength + 1] :
        key \in {k \in DOMAIN m.entries : m.entries[k].keyAt # NoRecord}}
    \cup {[of |-> <<"free", i>>, from |-> m.free[i].at, to |-> m.free[i].at + m.free[i].len] : i \in DOMAIN m.free}

\* Whatever was inserted, changed, removed, moved and merged before: records,
\* keys and free chunks lie apart from each other inside the used part of the
\* pool, so that no write for one entry damages another or the free list.  (As
\* long as MergedWhole; what merge() does to other records is in RecordsApart.)
RegionsApart ==
    /\ m.used <= m.pool
    /\ \A r \in Regions :
          /\ Start(m) <= r.from /\ r.to <= Start(m) + m.used
          /\ \A s \in Regions : r.of # s.of => r.to <= s.from \/ s.to <= r.from

\* What is stored in the records of two entries lies apart, so that each
\* reads what was stored for it.  merge() copies a string without what aligns
\* it; a string that is then assigned in place takes what was not copied, too.
RecordsApart ==
    \A k, l \in {key \in DOMAIN m.entries : m.entries[key].at # NoRecord} :
        k # l => LET e == m.entries[k]
                     f == m.entries[l]
                 IN  e.at + e.len <= f.at \/ f.at + f.len <= e.at

\* Every record starts at a multiple of the alignment.
RecordsAligned ==
    \A key \in DOMAIN m.entries :
        m.entries[key].type \notin {"none", "map"} => m.entries[key].at % 16 = 0
=============================================================================
