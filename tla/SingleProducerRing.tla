------------------------- MODULE SingleProducerRing -------------------------
(***************************************************************************)
(* CircularBuffer<T, SIZE, ProducerType::Single>: one writer, any number   *)
(* of readers, no locks.  The writer reserves slots, fills them and        *)
(* publishes a prefix of them; every reader advances a cursor of its own.  *)
(* The writer never looks at a lock: it computes its remaining capacity    *)
(* from the slowest reader cursor, found in a list of cursors that it      *)
(* caches and re-reads only when the list's generation has changed.        *)
(*                                                                         *)
(* Every access to a shared atomic is a step of its own.  A sample is its  *)
(* position in the stream, so data[p] = j says that the memory at position *)
(* p holds sample j.                                                       *)
(***************************************************************************)
EXTENDS Integers, FiniteSets

CONSTANTS
    Readers,        \* Reader objects; each is constructed and destroyed once
    Size,           \* _size
    MaxCursor,      \* bound: no reservation reaches beyond this position
    WordMod,        \* 2^w of std::size_t, the width of the cursors
    MaxSpans,       \* bound: ReaderSpan copies alive at once per reader
    Quiesced,       \* a Reader is constructed only between the writer's calls
    Clearable,      \* T has clear() and shrink_to_fit(): slots are reclaimed
    DoubleMapped    \* the second half of the memory maps onto the first

ASSUME RingAssumption ==
    /\ Size \in Nat \ {0}
    /\ MaxCursor \in Nat
    /\ WordMod \in Nat /\ WordMod > MaxCursor + Size
    /\ MaxSpans \in Nat \ {0}
    /\ Quiesced \in BOOLEAN
    /\ Clearable \in BOOLEAN
    /\ DoubleMapped \in BOOLEAN

(* The double mapping is used for trivially copyable T only, and no such T *)
(* has a clear().                                                          *)
ASSUME AllocatorAssumption == Clearable => ~DoubleMapped

SizeMax == WordMod - 1          \* std::numeric_limits<std::size_t>::max()
Cleared == -1                   \* the content of an element after clear()
Fallow  == -2                   \* an element as constructed
Min2(a, b) == IF a < b THEN a ELSE b
SubWord(a, b) == IF a >= b THEN a - b ELSE a - b + WordMod

VARIABLES
    \* SingleProducerStrategy and CircularBufferView
    publishCursor, reserveCursor,
    readSequences,      \* the shared list of reader cursors
    generation,         \* _readerListGeneration
    cachedGeneration, cachedReaders,
    cachedMinReader,    \* watermark of the reclaimed slots
    data,               \* 2 * Size elements; the second half mirrors the first
    \* the writer: its position in a call, and the locals of that call
    wpc, wphase, wneed, wblocking, wgen, wlist, wtoScan, wmin,
    offset, span,       \* _offset and _internalSpan.size() of Writer
    \* the readers
    rpc, readIndex, readIndexCached, firstGet, consumeReq, spans

strategyVars == <<publishCursor, reserveCursor, cachedGeneration, cachedReaders>>
listVars     == <<readSequences, generation>>
storeVars    == <<cachedMinReader, data>>
callVars     == <<wphase, wneed, wblocking, wgen>>
scanVars     == <<wlist, wtoScan, wmin>>
spanVars     == <<offset, span>>
readerVars   == <<rpc, readIndex, readIndexCached, firstGet, consumeReq, spans>>
writerVars   == <<wpc, callVars, scanVars, spanVars>>
vars == <<strategyVars, listVars, storeVars, writerVars, readerVars>>

Position(j) == j % Size                     \* calculateIndex
Positions   == 0 .. 2 * Size - 1
Attaching   == {r \in Readers : rpc[r] \in {"added", "reread", "set"}}
InUse       == {r \in Readers : rpc[r] \in {"idle", "open"}}

Init ==
    /\ publishCursor = 0 /\ reserveCursor = 0
    /\ readSequences = {} /\ generation = 0
    /\ cachedGeneration = 0 /\ cachedReaders = {}
    /\ cachedMinReader = 0
    /\ data = [p \in Positions |-> Fallow]
    /\ wpc = "idle" /\ wphase = "claim" /\ wneed = 0 /\ wblocking = FALSE /\ wgen = 0
    /\ wlist = {} /\ wtoScan = {} /\ wmin = SizeMax
    /\ offset = 0 /\ span = 0
    /\ rpc = [r \in Readers |-> "new"]
    /\ readIndex = [r \in Readers |-> 0]
    /\ readIndexCached = [r \in Readers |-> 0]
    /\ firstGet = [r \in Readers |-> SizeMax]
    /\ consumeReq = [r \in Readers |-> SizeMax]
    /\ spans = [r \in Readers |-> 0]

-----------------------------------------------------------------------------
(* The writer.  A call walks idle -> gen -> (list) -> scan and ends in an  *)
(* open span; wphase says which of the call's scans is under way.          *)

(* Faulty: the scan walks the list as it was before it was re-read.        *)
StartScanStale(list) ==
    /\ wlist' = wlist
    /\ wtoScan' = list
    /\ wmin' = SizeMax

StartScan(list) ==
    /\ wlist' = list
    /\ wtoScan' = list
    /\ wmin' = SizeMax

(* tryReserve(n) and reserve(n): an empty request yields an empty span.    *)
BeginReserve(n, blocking) ==
    /\ wpc = "idle"
    /\ Quiesced => Attaching = {}
    /\ reserveCursor + n <= MaxCursor
    /\ IF n = 0
         THEN /\ wpc' = "span"
              /\ UNCHANGED callVars
         ELSE /\ wpc' = "gen"
              /\ wneed' = n
              /\ wblocking' = blocking
              /\ wphase' = IF Clearable THEN "pressure" ELSE "claim"
              /\ UNCHANGED wgen
    /\ UNCHANGED <<strategyVars, listVars, storeVars, scanVars, spanVars, readerVars>>

(* houseKeeping(depth), called by the worker that runs the writing block.  *)
HouseKeeping ==
    /\ wpc = "idle"
    /\ Clearable
    /\ Quiesced => Attaching = {}
    /\ readSequences # {}
    /\ wphase' = "housekeep"
    /\ StartScan(readSequences)
    /\ wpc' = "scan"
    /\ UNCHANGED <<strategyVars, listVars, storeVars, wneed, wblocking, wgen, spanVars, readerVars>>

(* Faulty: a list that was found once is used from then on.                *)
LoadGenerationOnce ==
    /\ wpc = "gen"
    /\ wgen' = generation
    /\ IF cachedReaders # {}
         THEN wpc' = "scan" /\ StartScan(cachedReaders)
         ELSE wpc' = "list" /\ UNCHANGED scanVars
    /\ UNCHANGED <<strategyVars, listVars, storeVars, wphase, wneed, wblocking, spanVars, readerVars>>

LoadGeneration ==
    /\ wpc = "gen"
    /\ wgen' = generation
    /\ IF generation = cachedGeneration
         THEN wpc' = "scan" /\ StartScan(cachedReaders)
         ELSE wpc' = "list" /\ UNCHANGED scanVars
    /\ UNCHANGED <<strategyVars, listVars, storeVars, wphase, wneed, wblocking, spanVars, readerVars>>

LoadList ==
    /\ wpc = "list"
    /\ cachedReaders' = readSequences
    /\ cachedGeneration' = wgen
    /\ StartScan(readSequences)
    /\ wpc' = "scan"
    /\ UNCHANGED <<publishCursor, reserveCursor, listVars, storeVars, callVars, spanVars, readerVars>>

ScanReader(r) ==
    /\ wpc = "scan"
    /\ r \in wtoScan
    /\ wtoScan' = wtoScan \ {r}
    /\ wmin' = Min2(wmin, readIndex[r])
    /\ UNCHANGED <<strategyVars, listVars, storeVars, wpc, callVars, wlist, spanVars, readerVars>>

Scanned(phase) == wpc = "scan" /\ wtoScan = {} /\ wphase = phase

MinReaderCursor   == IF wlist = {} THEN 0 ELSE wmin

(* Faulty: one slot too many.                                              *)
RemainingCapacityPlusOne == SubWord(Size + 1, SubWord(reserveCursor, MinReaderCursor))

RemainingCapacity == SubWord(Size, SubWord(reserveCursor, MinReaderCursor))

(* needsReclaim(): less than a quarter of the buffer is left.              *)
CheckPressure ==
    /\ Scanned("pressure")
    /\ IF RemainingCapacity < Size \div 4 /\ readSequences # {}
         THEN /\ wphase' = "reclaim"
              /\ StartScan(readSequences)
              /\ UNCHANGED wpc
         ELSE /\ wphase' = "claim"
              /\ wpc' = "gen"
              /\ UNCHANGED scanVars
    /\ UNCHANGED <<strategyVars, listVars, storeVars, wneed, wblocking, wgen, spanVars, readerVars>>

FreshMin == wmin

(* reclaimBehindReader() clears the elements of the first half only.       *)
ReclaimBehindReader ==
    /\ Scanned("reclaim") \/ Scanned("housekeep")
    /\ IF FreshMin > cachedMinReader
         THEN LET freed == {Position(i) : i \in cachedMinReader .. FreshMin - 1}
              IN  /\ data' = [p \in Positions |-> IF p \in freed THEN Cleared ELSE data[p]]
                  /\ cachedMinReader' = FreshMin
         ELSE UNCHANGED storeVars
    /\ wpc' = IF wphase = "reclaim" THEN "gen" ELSE "idle"
    /\ wphase' = "claim"
    /\ UNCHANGED <<strategyVars, listVars, wneed, wblocking, wgen, scanVars, spanVars, readerVars>>

Claim ==
    /\ Scanned("claim")
    /\ RemainingCapacity >= wneed
    /\ reserveCursor' = reserveCursor + wneed
    /\ offset' = reserveCursor
    /\ span' = wneed
    /\ wpc' = "span"
    /\ UNCHANGED <<publishCursor, cachedGeneration, cachedReaders, listVars, storeVars, callVars, scanVars, readerVars>>

(* next() spins, tryNext() gives up with an empty span.                    *)
NoRoom ==
    /\ Scanned("claim")
    /\ RemainingCapacity < wneed
    /\ wpc' = IF wblocking THEN "gen" ELSE "span"
    /\ UNCHANGED <<strategyVars, listVars, storeVars, callVars, scanVars, spanVars, readerVars>>

(* Sample offset + i goes to the i-th element from Position(offset) on.    *)
SpanSample(p) == offset + p - Position(offset)

WriteSamples ==
    /\ wpc = "span" /\ span > 0
    /\ LET written == Position(offset) .. Position(offset) + span - 1
           at(p)   == IF p \in written THEN p
                      ELSE IF ~DoubleMapped THEN -1
                      ELSE IF p + Size \in written THEN p + Size
                      ELSE IF p - Size \in written THEN p - Size ELSE -1
       IN  data' = [p \in Positions |-> IF at(p) = -1 THEN data[p] ELSE SpanSample(at(p))]
    /\ wpc' = "written"
    /\ UNCHANGED <<strategyVars, listVars, cachedMinReader, callVars, scanVars, spanVars, readerVars>>

(* Faulty: the samples that wrapped around are not mirrored.               *)
MirrorFirstOnly(k) ==
    LET index == Position(offset)
        first == Min2(Size - index, k)
    IN  [p \in Positions |->
            IF p \in index + Size .. index + Size + first - 1 THEN data[p - Size]
            ELSE data[p]]

(* The copy that stands in for the double mapping, for k samples.          *)
Mirror(k) ==
    LET index  == Position(offset)
        first  == Min2(Size - index, k)
        second == k - first
    IN  [p \in Positions |->
            IF p \in index + Size .. index + Size + first - 1 THEN data[p - Size]
            ELSE IF p \in 0 .. second - 1 THEN data[p + Size]
            ELSE data[p]]

(* ~WriterSpan(): publishes the k samples asked for, gives the rest back.  *)
ReleaseWriterSpan(k) ==
    /\ wpc = "written" \/ (wpc = "span" /\ span = 0)
    /\ Quiesced => Attaching = {}
    /\ k <= span
    /\ data' = IF DoubleMapped THEN data ELSE Mirror(k)
    /\ publishCursor' = offset + k
    /\ reserveCursor' = offset + k
    /\ offset' = offset + k
    /\ span' = 0
    /\ wpc' = "idle"
    /\ UNCHANGED <<cachedGeneration, cachedReaders, listVars, cachedMinReader, callVars, scanVars, readerVars>>

-----------------------------------------------------------------------------
(* A reader.                                                               *)

ReaderStep(r, from, to) ==
    /\ rpc[r] = from
    /\ rpc' = [rpc EXCEPT ![r] = to]

(* addSequences(): the cursor joins the list with the publish cursor's     *)
(* value, then takes the publish cursor's value once more.                 *)
AddSequence(r) ==
    /\ Quiesced => wpc \in {"idle", "span", "written"}
    /\ ReaderStep(r, "new", "added")
    /\ readSequences' = readSequences \cup {r}
    /\ readIndex' = [readIndex EXCEPT ![r] = publishCursor]
    /\ UNCHANGED <<strategyVars, generation, storeVars, writerVars, readIndexCached, firstGet, consumeReq, spans>>

RereadCursor(r) ==
    /\ ReaderStep(r, "added", "reread")
    /\ readIndexCached' = [readIndexCached EXCEPT ![r] = publishCursor]
    /\ UNCHANGED <<strategyVars, listVars, storeVars, writerVars, readIndex, firstGet, consumeReq, spans>>

SetReadIndex(r) ==
    /\ ReaderStep(r, "reread", "set")
    /\ readIndex' = [readIndex EXCEPT ![r] = readIndexCached[r]]
    /\ UNCHANGED <<strategyVars, listVars, storeVars, writerVars, readIndexCached, firstGet, consumeReq, spans>>

InvalidateReaderCache(r) ==
    /\ ReaderStep(r, "set", "idle")
    /\ generation' = generation + 1
    /\ UNCHANGED <<strategyVars, readSequences, storeVars, writerVars, readIndex, readIndexCached, firstGet, consumeReq, spans>>

Available(r) == SubWord(publishCursor, readIndexCached[r])

(* get(n): the first span fixes what later spans may show.                 *)
Get(r, n) ==
    /\ rpc[r] \in {"idle", "open"}
    /\ consumeReq[r] = SizeMax
    /\ spans[r] < MaxSpans
    /\ n <= Available(r)
    /\ rpc' = [rpc EXCEPT ![r] = "open"]
    /\ spans' = [spans EXCEPT ![r] = @ + 1]
    /\ firstGet' = [firstGet EXCEPT ![r] = IF @ = SizeMax THEN n ELSE @]
    /\ UNCHANGED <<strategyVars, listVars, storeVars, writerVars, readIndex, readIndexCached, consumeReq>>

(* Faulty: the cursor moves at once, while the span is still open.         *)
TryConsumeEagerly(r, n) ==
    /\ rpc[r] = "open"
    /\ consumeReq[r] = SizeMax
    /\ n > firstGet[r] => n <= Available(r)
    /\ consumeReq' = [consumeReq EXCEPT ![r] = n]
    /\ readIndex' = [readIndex EXCEPT ![r] = readIndexCached[r] + n]
    /\ UNCHANGED <<strategyVars, listVars, storeVars, writerVars, rpc, readIndexCached, firstGet, spans>>

(* tryConsume(n): the first request counts, and it may exceed the span.    *)
TryConsume(r, n) ==
    /\ rpc[r] = "open"
    /\ consumeReq[r] = SizeMax
    /\ n > firstGet[r] => n <= Available(r)
    /\ consumeReq' = [consumeReq EXCEPT ![r] = n]
    /\ UNCHANGED <<strategyVars, listVars, storeVars, writerVars, rpc, readIndex, readIndexCached, firstGet, spans>>

ReleasePolicies == {"ProcessNone", "ProcessAll"}

(* ~ReaderSpan(): the last copy advances the cursor.                       *)
ReleaseReaderSpan(r, policy) ==
    /\ rpc[r] = "open"
    /\ spans' = [spans EXCEPT ![r] = @ - 1]
    /\ IF spans[r] > 1
         THEN UNCHANGED <<rpc, readIndex, readIndexCached, firstGet, consumeReq>>
         ELSE LET n == IF consumeReq[r] # SizeMax THEN consumeReq[r]
                       ELSE IF policy = "ProcessAll" THEN firstGet[r] ELSE 0
              IN  /\ readIndexCached' = [readIndexCached EXCEPT ![r] = @ + n]
                  /\ readIndex' = [readIndex EXCEPT ![r] = readIndexCached[r] + n]
                  /\ rpc' = [rpc EXCEPT ![r] = "idle"]
                  /\ firstGet' = [firstGet EXCEPT ![r] = SizeMax]
                  /\ consumeReq' = [consumeReq EXCEPT ![r] = SizeMax]
    /\ UNCHANGED <<strategyVars, listVars, storeVars, writerVars>>

(* ~Reader(): removeSequence(), then invalidateReaderCache().              *)
RemoveSequence(r) ==
    /\ ReaderStep(r, "idle", "removed")
    /\ readSequences' = readSequences \ {r}
    /\ UNCHANGED <<strategyVars, generation, storeVars, writerVars, readIndex, readIndexCached, firstGet, consumeReq, spans>>

(* Faulty: the writer is not told that the reader is gone.                 *)
InvalidateAfterRemoveForgotten(r) ==
    /\ ReaderStep(r, "removed", "gone")
    /\ UNCHANGED <<strategyVars, listVars, storeVars, writerVars, readIndex, readIndexCached, firstGet, consumeReq, spans>>

InvalidateAfterRemove(r) ==
    /\ ReaderStep(r, "removed", "gone")
    /\ generation' = generation + 1
    /\ UNCHANGED <<strategyVars, readSequences, storeVars, writerVars, readIndex, readIndexCached, firstGet, consumeReq, spans>>

-----------------------------------------------------------------------------
WriterCall ==
    \/ LoadGeneration
    \/ LoadList
    \/ \E r \in Readers : ScanReader(r)
    \/ CheckPressure
    \/ ReclaimBehindReader
    \/ Claim
    \/ NoRoom

Writer ==
    \/ \E n \in 0..Size, blocking \in BOOLEAN : BeginReserve(n, blocking)
    \/ HouseKeeping
    \/ WriterCall
    \/ WriteSamples
    \/ \E k \in 0..Size : ReleaseWriterSpan(k)

Construct(r) ==
    \/ AddSequence(r)
    \/ RereadCursor(r)
    \/ SetReadIndex(r)
    \/ InvalidateReaderCache(r)

Reader(r) ==
    \/ Construct(r)
    \/ \E n \in 0..Size : Get(r, n)
    \/ \E n \in 0..Size : TryConsume(r, n)
    \/ \E policy \in ReleasePolicies : ReleaseReaderSpan(r, policy)
    \/ RemoveSequence(r)
    \/ InvalidateAfterRemove(r)

Next == Writer \/ \E r \in Readers : Reader(r)

Spec == Init /\ [][Next]_vars

(***************************************************************************)
(* Fairness.  A thread that is inside a call keeps running, a worker calls *)
(* the reading block again and again, and a block that keeps finding input *)
(* consumes some of it (the scheduler's loop; a block that never consumes  *)
(* stops its upstream by design).                                          *)
(***************************************************************************)
Fairness ==
    /\ WF_vars(WriterCall \/ WriteSamples)
    /\ WF_vars(\E k \in 0..Size : ReleaseWriterSpan(k))
    /\ \A r \in Readers :
        /\ WF_vars(RereadCursor(r) \/ SetReadIndex(r) \/ InvalidateReaderCache(r))
        /\ WF_vars(InvalidateAfterRemove(r))
        /\ WF_vars(rpc[r] = "idle" /\ Available(r) > 0 /\ Get(r, Available(r)))
        /\ SF_vars(\E n \in 1..Size : TryConsume(r, n))
        /\ WF_vars(\E policy \in ReleasePolicies : ReleaseReaderSpan(r, policy))

FairSpec == Spec /\ Fairness

-----------------------------------------------------------------------------
(* Properties *)

TypeOK ==
    /\ publishCursor \in Nat /\ reserveCursor \in Nat
    /\ readSequences \subseteq Readers /\ generation \in Nat
    /\ cachedGeneration \in Nat /\ cachedReaders \subseteq Readers
    /\ cachedMinReader \in Nat
    /\ data \in [Positions -> Int]
    /\ wpc \in {"idle", "gen", "list", "scan", "span", "written"}
    /\ wphase \in {"claim", "pressure", "reclaim", "housekeep"}
    /\ wneed \in Nat /\ wblocking \in BOOLEAN /\ wgen \in Nat
    /\ wlist \subseteq Readers /\ wtoScan \subseteq wlist /\ wmin \in Nat
    /\ offset \in Nat /\ span \in Nat
    /\ rpc \in [Readers -> {"new", "added", "reread", "set", "idle", "open", "removed", "gone"}]
    /\ readIndex \in [Readers -> Nat]
    /\ readIndexCached \in [Readers -> Nat]
    /\ firstGet \in [Readers -> Nat]
    /\ consumeReq \in [Readers -> Nat]
    /\ spans \in [Readers -> Nat]

(***************************************************************************)
(* The writer's reservation never reaches more than Size slots beyond any  *)
(* constructed reader: the capacity computed from the cached list of       *)
(* cursors is never an overestimate (qa_buffer.cpp, "reader added          *)
(* mid-stream - cache must not overestimate capacity").                    *)
(***************************************************************************)
NeverLapped ==
    \A r \in InUse :
        /\ readIndex[r] <= publishCursor
        /\ reserveCursor <= readIndex[r] + Size

(***************************************************************************)
(* Where samples may be reclaimed, an unread one is at worst cleared: its  *)
(* place never shows another sample, nor memory the writer never filled.   *)
(***************************************************************************)
UnreadNeverOverwritten ==
    \A r \in InUse :
        \A j \in readIndexCached[r] .. publishCursor - 1 :
            LET p == Position(readIndexCached[r]) + j - readIndexCached[r]
            IN  data[p] = j \/ (Clearable /\ data[p] = Cleared)

(***************************************************************************)
(* No slot is in the writer's open span and in a reader's open span at the *)
(* same time: the unlocked accesses of the two threads are not a data race.*)
(***************************************************************************)
SpansDisjoint ==
    \A r \in Readers :
        rpc[r] = "open" =>
            {Position(j) : j \in offset .. offset + span - 1}
                \cap {Position(j) : j \in readIndexCached[r]
                                            .. readIndexCached[r] + firstGet[r] - 1} = {}

(***************************************************************************)
(* A writer waiting for room gets it as long as a reader is left to make   *)
(* it: slots that were given back, consumed, or held only by a destroyed   *)
(* reader are found although the list of cursors is cached.  (With no      *)
(* reader left the capacity is computed from cursor 0 and next() may spin  *)
(* for ever.)                                                              *)
(***************************************************************************)
WriterProgress ==
    (wpc \notin {"idle", "span", "written"}) ~>
        (wpc \in {"idle", "span", "written"} \/ readSequences = {})

(***************************************************************************)
(* Each reader has its own lossless FIFO view of what is published.        *)
(***************************************************************************)
UnreadQueue(r) ==
    IF r \in readSequences
      THEN [i \in 1 .. publishCursor - readIndex[r] |->
              data[Position(readIndex[r]) + i - 1]]
      ELSE <<>>

Stream == INSTANCE BroadcastStream WITH
    attached  <- readSequences,
    unread    <- [r \in Readers |-> UnreadQueue(r)],
    published <- publishCursor

ImplementsStream == Stream!Spec
=============================================================================
