---------------------------- MODULE ChunkBuffer ----------------------------
(***************************************************************************)
(* ChunkBuffer.hpp and ChunkPool.hpp: a ring of fixed-size descriptors     *)
(* whose blobs lie in chunks of a pool.  The producer packs blobs into a   *)
(* head chunk; a full head is sealed with the position up to which readers *)
(* have to come before the chunk may be used again.  houseKeeping(), on    *)
(* any thread, gives chunks back to the pool, and in a deep pass to the    *)
(* memory they came from.  The ring of descriptors is taken for what       *)
(* BroadcastStream promises.                                               *)
(***************************************************************************)
EXTENDS Integers, Sequences, FiniteSets, SequencesExt

CONSTANTS
    Readers,       \* readers of the descriptors
    Capacity,      \* slots of the descriptor ring
    Fit,           \* bytes of a standard chunk behind its header
    MaxChunks,     \* _maxChunks
    KeepResident,  \* free chunks that a deep pass leaves in the pool
    MaxStores      \* bound on calls of storeBlob()

\* What the constants are, assumed where they get values.
ChunkConstants ==
    /\ Readers # {}
    /\ {Capacity, Fit, MaxChunks, KeepResident, MaxStores} \subseteq Nat

VARIABLES
    pub,      \* descriptors published
    read,     \* read[r]: descriptors that reader r has consumed
    desc,     \* desc[q]: where the blob of descriptor q lies
    span,     \* descriptors stored in the open WriterSpan, or None
    slots,    \* slots of the open WriterSpan
    memory,   \* memory[c]: the bytes of every chunk that is allocated
    head, headOffset, headLastWritten,
    sealed,   \* the sealed chunks with their thresholds, oldest first
    free,     \* the free list of the pool
    resident, \* _residentChunks
    guard,    \* who holds State::_guard
    wpc,      \* the place of the producer in serialiseBlob()
    blob,     \* the length of the blob that is being stored
    hpc,      \* the place in houseKeeping()
    depth,    \* its depth
    unread,   \* readers whose cursor it has not looked at yet
    minPos,   \* the minimum of the others
    stores    \* calls of storeBlob(): names the blobs

pool  == <<memory, free, resident>>
chain == <<head, headOffset, headLastWritten, sealed>>
ring  == <<pub, read, desc>>
vars  == <<ring, span, slots, pool, chain, guard, wpc, blob, hpc, depth, unread, minPos, stores>>

None == 0
Chunks == 1..MaxChunks
Lengths == 1..Fit + 1
Bytes(c) == Len(memory[c])
SlowestOf(cursors) == CHOOSE p \in cursors : \A q \in cursors : p <= q
Slowest == SlowestOf({read[r] : r \in Readers})

-----------------------------------------------------------------------------
(* ChunkPool *)

Fresh(n) == [i \in 1..n |-> None]
Unused == CHOOSE c \in Chunks : c \notin DOMAIN memory
Exhausted == resident >= MaxChunks
Without(chunks) == [c \in DOMAIN memory \ chunks |-> memory[c]]

\* acquire() and acquireOversized(): a chunk for a blob of n bytes becomes the
\* head, from the free list or from upstream.
AcquireHead(n) ==
    IF n <= Fit /\ free # <<>>
    THEN head' = Head(free) /\ free' = Tail(free) /\ UNCHANGED <<memory, resident>>
    ELSE IF Exhausted
    THEN head' = None /\ UNCHANGED pool
    ELSE /\ head' = Unused
         /\ memory' = [c \in DOMAIN memory \cup {Unused} |->
                         IF c = Unused THEN Fresh(IF n <= Fit THEN Fit ELSE n) ELSE memory[c]]
         /\ resident' = resident + 1
         /\ UNCHANGED free

\* releaseChunk(): releaseOversized() or release()
ReleaseChunk(c) ==
    IF Bytes(c) > Fit
    THEN memory' = Without({c}) /\ resident' = resident - 1 /\ UNCHANGED free
    ELSE free' = <<c>> \o free /\ UNCHANGED <<memory, resident>>

\* reclaimToUpstream()
ReclaimToUpstream ==
    LET n == IF Len(free) > KeepResident THEN Len(free) - KeepResident ELSE 0
    IN  /\ free' = SubSeq(free, n + 1, Len(free))
        /\ memory' = Without(ToSet(SubSeq(free, 1, n)))
        /\ resident' = resident - n

-----------------------------------------------------------------------------
(* The producer *)

\* tryReserve(): only when the ring has room.
Reserve(n) ==
    /\ slots = 0 /\ pub + n <= Slowest + Capacity
    /\ slots' = n /\ span' = <<>>
    /\ UNCHANGED <<ring, pool, chain, guard, wpc, blob, hpc, depth, unread, minPos, stores>>

\* storeBlob() spins for the guard.
Guard(n) ==
    /\ wpc = "idle" /\ Len(span) < slots
    /\ stores < MaxStores /\ stores' = stores + 1
    /\ guard = "nobody" /\ guard' = "producer"
    /\ wpc' = "place" /\ blob' = n
    /\ UNCHANGED <<ring, span, slots, pool, chain, hpc, depth, unread, minPos>>

\* The position that the descriptor will have.
DescAbsPos == pub + Len(span)

\* A blob that the head has no room for goes to a new head; the old one is
\* sealed with the position of this blob, the first that is not in it.  With
\* the pool exhausted storeBlob() returns nothing.
Place ==
    /\ wpc = "place"
    /\ IF head # None /\ headOffset + blob <= Bytes(head)
       THEN /\ wpc' = "copy"
            /\ UNCHANGED <<pool, chain, guard>>
       ELSE /\ sealed' = IF head = None THEN sealed
                         ELSE Append(sealed, [chunk |-> head, threshold |-> DescAbsPos])
            /\ AcquireHead(blob)
            /\ headOffset' = 0
            /\ wpc' = IF head' = None THEN "idle" ELSE "copy"
            /\ guard' = IF head' = None THEN "nobody" ELSE guard
            /\ UNCHANGED headLastWritten
    /\ UNCHANGED <<ring, span, slots, blob, hpc, depth, unread, minPos, stores>>

\* memcpy() behind the blobs that are there, and the end of the guard.
Copy ==
    /\ wpc = "copy" /\ wpc' = "idle"
    /\ memory' = [memory EXCEPT ![head] =
                    [i \in DOMAIN @ |-> IF i \in headOffset + 1..headOffset + blob THEN stores ELSE @[i]]]
    /\ span' = Append(span, [chunk |-> head, from |-> headOffset + 1, to |-> headOffset + blob, id |-> stores])
    /\ headOffset' = headOffset + blob
    /\ headLastWritten' = DescAbsPos
    /\ guard' = "nobody"
    /\ UNCHANGED <<ring, slots, free, resident, head, sealed, blob, hpc, depth, unread, minPos, stores>>

\* ~WriterSpan: the first n of the descriptors stored are published.
Publish(n) ==
    /\ slots # 0 /\ wpc = "idle" /\ n <= Len(span)
    /\ pub' = pub + n /\ desc' = desc \o SubSeq(span, 1, n)
    /\ slots' = 0 /\ span' = <<>>
    /\ UNCHANGED <<read, pool, chain, guard, wpc, blob, hpc, depth, unread, minPos, stores>>

-----------------------------------------------------------------------------
(* Readers and housekeeping *)

Consume(r) ==
    /\ read[r] < pub
    /\ read' = [read EXCEPT ![r] = @ + 1]
    /\ UNCHANGED <<pub, desc, span, slots, pool, chain, guard, wpc, blob, hpc, depth, unread, minPos, stores>>

house == <<ring, span, slots, wpc, blob, stores>>

\* houseKeeping() gives up when the producer holds the guard.
TryGuard(d) ==
    /\ hpc = "idle" /\ guard = "nobody"
    /\ guard' = "housekeeper" /\ hpc' = "scan"
    /\ depth' = d /\ unread' = Readers /\ minPos' = pub
    /\ UNCHANGED <<house, pool, chain>>

\* min_reader_position(): one cursor after the other
Scan(r) ==
    /\ hpc = "scan" /\ r \in unread
    /\ unread' = unread \ {r}
    /\ minPos' = IF read[r] < minPos \/ unread = Readers THEN read[r] ELSE minPos
    /\ hpc' = IF unread' = {} THEN "sealed" ELSE hpc
    /\ UNCHANGED <<house, pool, chain, guard, depth>>

\* Faulty: a chunk is dead one position too early.
PinnedOneLess == minPos + 1 < Head(sealed).threshold

\* A reader still pins the oldest sealed chunk.
Pinned == minPos < Head(sealed).threshold

\* One turn of the loop that releases the sealed chunks up to the first pinned one
ReleaseSealed ==
    /\ hpc = "sealed"
    /\ IF sealed = <<>> \/ Pinned
       THEN hpc' = "head" /\ UNCHANGED <<pool, sealed>>
       ELSE /\ ReleaseChunk(Head(sealed).chunk)
            /\ sealed' = Tail(sealed)
            /\ UNCHANGED hpc
    /\ UNCHANGED <<house, head, headOffset, headLastWritten, guard, depth, unread, minPos>>

\* The head too, when nothing is sealed and all that it holds is consumed.
ReleaseHead ==
    /\ hpc = "head" /\ hpc' = "reclaim"
    /\ IF sealed = <<>> /\ head # None /\ minPos > headLastWritten
       THEN ReleaseChunk(head) /\ head' = None /\ headOffset' = 0
       ELSE UNCHANGED <<pool, head, headOffset>>
    /\ UNCHANGED <<house, headLastWritten, sealed, guard, depth, unread, minPos>>

Reclaim ==
    /\ hpc = "reclaim" /\ hpc' = "idle"
    /\ guard' = "nobody"
    /\ IF depth = "deep" THEN ReclaimToUpstream ELSE UNCHANGED pool
    /\ UNCHANGED <<house, chain, depth, unread, minPos>>

-----------------------------------------------------------------------------

Init ==
    /\ pub = 0 /\ read = [r \in Readers |-> 0] /\ desc = <<>>
    /\ span = <<>> /\ slots = 0
    /\ memory = [c \in {} |-> <<>>] /\ free = <<>> /\ resident = 0
    /\ head = None /\ headOffset = 0 /\ headLastWritten = 0 /\ sealed = <<>>
    /\ guard = "nobody" /\ wpc = "idle" /\ blob = 1
    /\ hpc = "idle" /\ depth = "shallow" /\ unread = {} /\ minPos = 0
    /\ stores = 0

Next ==
    \/ \E n \in 1..Capacity : Reserve(n)
    \/ \E n \in Lengths : Guard(n)
    \/ Place \/ Copy
    \/ \E n \in 0..Len(span) : Publish(n)
    \/ \E r \in Readers : Consume(r) \/ Scan(r)
    \/ \E d \in {"shallow", "deep"} : TryGuard(d)
    \/ ReleaseSealed \/ ReleaseHead \/ Reclaim

Spec == Init /\ [][Next]_vars

-----------------------------------------------------------------------------
(* Properties *)

\* The descriptors that a reader has not released yet, and those that wait
\* for their publication.
Pending == {desc[q] : q \in Slowest + 1..pub} \cup ToSet(span)

\* Whatever houseKeeping() gives back and the producer takes again, the blob
\* of a descriptor stays where it is until every reader has consumed it.
BlobIntact ==
    \A d \in Pending :
        /\ d.chunk \in DOMAIN memory /\ ~Contains(free, d.chunk)
        /\ \A i \in d.from..d.to : i \in DOMAIN memory[d.chunk] /\ memory[d.chunk][i] = d.id
=============================================================================
