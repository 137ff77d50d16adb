--------------------------- MODULE HistoryBuffer ---------------------------
(***************************************************************************)
(* HistoryBuffer.hpp: a ring whose memory is twice its size, the second    *)
(* half a mirror of the first, so that a span of logical neighbours is     *)
(* contiguous.  push_back() writes both halves; push_front() writes the    *)
(* first only and counts how many leading elements the mirror has missed.  *)
(* The count is worked off before a span or an iterator is handed out.     *)
(***************************************************************************)
EXTENDS Integers, Sequences, SequencesExt

CONSTANTS
    Values,      \* elements
    Zero,        \* T(), what fresh memory holds
    Capacities,  \* capacities that resize() may ask for
    FirstCapacity,
    Rounded      \* TRUE: dynamic extent, the ring is rounded up to a power of two

VARIABLES
    buffer, capacity, writePosition, size,
    dirty,    \* _mirrorDirtyCount
    history   \* ghost: the elements pushed that nothing has pushed out or popped

vars == <<buffer, capacity, writePosition, size, dirty, history>>

Least(m, n) == IF m < n THEN m ELSE n
BitCeil(n) == CHOOSE p \in {2^k : k \in 0..n} : n <= p /\ p < 2 * n
RingOf(n) == IF Rounded THEN BitCeil(n) ELSE n
Ring == RingOf(capacity)

\* What the constants are, assumed where they get values: no capacity is zero
\* and a ring has room for it.
HistoryConstants ==
    /\ FirstCapacity \in Nat \ {0} /\ Capacities \subseteq Nat \ {0}
    /\ \A n \in Capacities \cup {FirstCapacity} : RingOf(n) \in Nat /\ n <= RingOf(n)

Blank(n) == [i \in 0..2 * RingOf(n) - 1 |-> Zero]

\* map_index()
MapIndex(i) == (writePosition + i) % Ring

\* The arguments of push_front() and push_back(): neighbours differ, so that
\* one in the place of the other shows.
Ranges == {s \in BoundedSeq(Values, capacity + 1) : \A i \in 2..Len(s) : s[i] # s[i - 1]}

\* What the class promises: a push at one end expires what is too much at the other.
Leading(s) == SubSeq(s, 1, Least(capacity', Len(s)))
Trailing(s) == SubSeq(s, Len(s) - Least(capacity', Len(s)) + 1, Len(s))

\* The memory after syncMirror(): the dirty elements copied in two pieces.
Synced ==
    LET missed == {MapIndex(i) : i \in 0..dirty - 1}
    IN  [p \in DOMAIN buffer |-> IF p >= Ring /\ p - Ring \in missed THEN buffer[p - Ring] ELSE buffer[p]]

\* The memory with a range at some index of the ring: in the first half only
\* and backwards for push_front(), in both for push_back()
Prepended(kept, first) ==
    [p \in DOMAIN buffer |->
        LET i == (p - first + Ring) % Ring
        IN  IF p < Ring /\ i < Len(kept) THEN kept[Len(kept) - i] ELSE buffer[p]]
Appended(kept, start) ==
    [p \in DOMAIN buffer |->
        LET i == (p - start + 2 * Ring) % Ring
        IN  IF i < Len(kept) THEN kept[i + 1] ELSE buffer[p]]

\* push_front() of one element
PushFront(v) ==
    /\ size' = Least(size + 1, capacity)
    /\ writePosition' = MapIndex(Ring - 1)
    /\ buffer' = [buffer EXCEPT ![MapIndex(Ring - 1)] = v]
    /\ dirty' = Least(dirty + 1, Ring)
    /\ UNCHANGED capacity /\ history' = Leading(<<v>> \o history)

\* push_front() of a range that leaves out what it would discard itself: the
\* elements before its last capacity ones.
PushFrontRange(values) ==
    LET n == Least(Len(values), capacity)
        first == MapIndex(Ring - (n % Ring))
        kept == SubSeq(values, Len(values) - n + 1, Len(values))
    IN  /\ size' = Least(size + n, capacity)
        /\ writePosition' = first
        /\ buffer' = Prepended(kept, first)
        /\ dirty' = Least(dirty + n, Ring)
        /\ UNCHANGED capacity /\ history' = Leading(Reverse(values) \o history)

\* Faulty: all that is discarded is taken off the count of the next elements.
PushBackUncounted(values) ==
    LET n == Least(Len(values), capacity)
        kept == SubSeq(values, Len(values) - n + 1, Len(values))
        discarded == IF size + n > capacity THEN size + n - capacity ELSE 0
        start == (writePosition + size) % Ring
    IN  /\ size' = size + n - discarded
        /\ writePosition' = MapIndex(discarded)
        /\ dirty' = dirty - Least(dirty, n)
        /\ buffer' = Appended(kept, start)
        /\ UNCHANGED capacity /\ history' = Trailing(history \o values)

\* push_back() of an element or a range: the first elements are discarded, and
\* with them what the mirror has missed of them; both halves are written.
PushBack(values) ==
    LET n == Least(Len(values), capacity)
        kept == SubSeq(values, Len(values) - n + 1, Len(values))
        discarded == IF size + n > capacity THEN size + n - capacity ELSE 0
        start == (writePosition + size) % Ring
    IN  /\ size' = size + n - discarded
        /\ writePosition' = MapIndex(discarded)
        /\ dirty' = dirty - Least(dirty, discarded)
        /\ buffer' = Appended(kept, start)
        /\ UNCHANGED capacity /\ history' = Trailing(history \o values)

PopFront ==
    /\ size > 0 /\ size' = size - 1
    /\ writePosition' = MapIndex(1)
    /\ dirty' = IF dirty > 0 THEN dirty - 1 ELSE 0
    /\ UNCHANGED <<buffer, capacity>> /\ history' = Tail(history)

PopBack ==
    /\ size > 0 /\ size' = size - 1
    /\ UNCHANGED <<buffer, capacity, writePosition, dirty>> /\ history' = Front(history)

\* get_span() and the iterators
Sync ==
    /\ buffer' = Synced /\ dirty' = 0
    /\ UNCHANGED <<capacity, writePosition, size, history>>

\* resize(): new memory, both halves filled with the leading elements.
Resize(n) ==
    /\ capacity' = n
    /\ size' = Least(size, n) /\ history' = Leading(history)
    /\ writePosition' = 0 /\ dirty' = 0
    /\ buffer' = [p \in 0..2 * RingOf(n) - 1 |->
                    LET i == p % RingOf(n)
                    IN  IF i < size' THEN Synced[writePosition + i] ELSE Zero]

\* reset() fills both halves with a value.
Reset(v) ==
    /\ size' = 0 /\ writePosition' = 0 /\ dirty' = 0
    /\ buffer' = [p \in DOMAIN buffer |-> v]
    /\ UNCHANGED capacity /\ history' = <<>>

Init ==
    /\ capacity = FirstCapacity /\ buffer = Blank(FirstCapacity)
    /\ writePosition = 0 /\ size = 0 /\ dirty = 0 /\ history = <<>>

Next ==
    \/ \E v \in Values : PushFront(v) \/ Reset(v)
    \/ \E s \in Ranges : PushFrontRange(s) \/ PushBack(s)
    \/ PopFront \/ PopBack \/ Sync
    \/ \E n \in Capacities : Rounded /\ Resize(n)

Spec == Init /\ [][Next]_vars

-----------------------------------------------------------------------------
(* Properties *)

\* Whatever was pushed and popped at either end, every span that get_span()
\* may hand out, across the wrap too, holds the elements that belong there.
SpansHoldHistory ==
    /\ size = Len(history)
    /\ \A i \in 0..size - 1 : \A n \in 1..size - i :
          \A j \in 0..n - 1 : Synced[MapIndex(i) + j] = history[i + j + 1]
=============================================================================
