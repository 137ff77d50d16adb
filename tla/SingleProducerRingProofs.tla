---------------------- MODULE SingleProducerRingProofs ----------------------
(***************************************************************************)
(* The single-producer ring, for every capacity and every set of readers,  *)
(* provided readers are constructed between the writer's calls:            *)
(*                                                                         *)
(*  1. The writer never laps a reader.  The capacity check alone is not    *)
(*     inductive: it is correct because the scanned list contains every    *)
(*     attached reader, which rests on the generation counter (CacheInv),  *)
(*     and because the unsigned subtraction in it never wraps              *)
(*     (CapacityInv).                                                      *)
(*  2. What a reader has not consumed stays in memory, in both kinds of    *)
(*     it (DataInv), and open spans of the two sides share no slot.  Both  *)
(*     rest on positions less than Size apart being different slots.       *)
(*  3. Where nothing is reclaimed, the ring implements BroadcastStream.    *)
(***************************************************************************)
EXTENDS SingleProducerRing, Sequences, TLAPS

(* The writer's position, its span and the two cursors belong together.    *)
WriterInv ==
    /\ offset = publishCursor
    /\ reserveCursor = offset + span
    /\ reserveCursor <= MaxCursor
    /\ wneed <= Size
    /\ span <= Size
    /\ wpc \notin {"span", "written"} => span = 0
    /\ wpc \in {"gen", "list", "scan"} /\ wphase # "housekeep"
            => reserveCursor + wneed <= MaxCursor

Listed == {"added", "reread", "set", "idle", "open"}

(* A reader's cursor, its cached copy and its pending requests stay within *)
(* what is published.                                                      *)
ReaderInv ==
    \A r \in Readers :
        /\ r \in readSequences <=> rpc[r] \in Listed
        /\ readIndex[r] <= publishCursor
        /\ readIndexCached[r] <= publishCursor
        /\ rpc[r] = "reread" => readIndex[r] <= readIndexCached[r]
        /\ rpc[r] \in {"set", "idle", "open"} => readIndexCached[r] = readIndex[r]
        /\ rpc[r] # "open" => firstGet[r] = SizeMax /\ consumeReq[r] = SizeMax
        /\ rpc[r] = "open" => /\ spans[r] > 0
                              /\ readIndexCached[r] + firstGet[r] <= publishCursor
                              /\ \/ consumeReq[r] = SizeMax
                                 \/ readIndexCached[r] + consumeReq[r] <= publishCursor

(* An unchanged generation means that the cached list is complete, up to   *)
(* readers whose construction has not finished.                            *)
CacheInv ==
    /\ cachedGeneration <= generation
    /\ wgen <= generation
    /\ cachedGeneration = generation => readSequences \subseteq cachedReaders \cup Attaching
    /\ Quiesced /\ wpc \in {"gen", "list", "scan"} => Attaching = {}
    /\ wpc = "scan" /\ wphase \in {"claim", "pressure"}
            => /\ wlist = cachedReaders
               /\ Quiesced => readSequences \subseteq cachedReaders

(* No listed or cached cursor is further than Size behind the reservation, *)
(* and the minimum of the running scan is a lower bound that respects it.  *)
CapacityInv ==
    /\ Quiesced => \A r \in readSequences \cup cachedReaders :
                        reserveCursor <= readIndex[r] + Size
    /\ wpc = "scan" =>
        /\ \A r \in wlist \ wtoScan : wmin <= readIndex[r]
        /\ \/ wmin = SizeMax
           \/ wmin <= publishCursor
        /\ Quiesced /\ wphase \in {"claim", "pressure"} /\ wmin # SizeMax
                => reserveCursor <= wmin + Size

IInv == TypeOK /\ WriterInv /\ ReaderInv /\ CacheInv /\ CapacityInv
-----------------------------------------------------------------------------
(* calculateIndex() yields an index of the first half of the memory.       *)
LEMMA PositionType == \A j \in Nat : Position(j) \in 0 .. Size - 1
BY RingAssumption DEF Position

(* Every step keeps the types: the additions and unsigned subtractions of  *)
(* the code stay in Nat.                                                   *)
LEMMA TypeOKStep == IInv /\ [Next]_vars => TypeOK'
<1> SUFFICES ASSUME IInv, [Next]_vars PROVE TypeOK'
    OBVIOUS
<1> USE RingAssumption, PositionType DEF IInv, TypeOK, WriterInv, ReaderInv, strategyVars, listVars, storeVars,
           callVars, scanVars, spanVars, readerVars, writerVars, SizeMax, Available, Min2, SubWord, InUse
<1>1. ASSUME NEW n \in 0..Size, NEW blocking \in BOOLEAN, BeginReserve(n, blocking) PROVE TypeOK'
    BY <1>1 DEF BeginReserve
<1>2. ASSUME HouseKeeping PROVE TypeOK'
    BY <1>2 DEF HouseKeeping, StartScan
<1>3. ASSUME LoadGeneration PROVE TypeOK'
    BY <1>3 DEF LoadGeneration, StartScan
<1>4. ASSUME LoadList PROVE TypeOK'
    BY <1>4 DEF LoadList, StartScan
<1>5. ASSUME NEW r \in Readers, ScanReader(r) PROVE TypeOK'
    BY <1>5 DEF ScanReader
<1>6. ASSUME CheckPressure PROVE TypeOK'
    BY <1>6 DEF CheckPressure, StartScan, Scanned, RemainingCapacity, MinReaderCursor
<1>7. ASSUME ReclaimBehindReader PROVE TypeOK'
    BY <1>7 DEF ReclaimBehindReader, FreshMin, Scanned, Cleared
<1>8. ASSUME Claim PROVE TypeOK'
    BY <1>8 DEF Claim, Scanned, RemainingCapacity, MinReaderCursor
<1>9. ASSUME NoRoom PROVE TypeOK'
    BY <1>9 DEF NoRoom, Scanned, RemainingCapacity, MinReaderCursor
<1>10. ASSUME WriteSamples PROVE TypeOK'
  <2>1. Position(offset) \in 0 .. Size - 1
    OBVIOUS
  <2>2. ASSUME NEW p \in Int PROVE SpanSample(p) \in Int
    BY <2>1 DEF SpanSample
  <2> DEFINE written == Position(offset) .. Position(offset) + span - 1
             at(p)   == IF p \in written THEN p
                        ELSE IF ~DoubleMapped THEN -1
                        ELSE IF p + Size \in written THEN p + Size
                        ELSE IF p - Size \in written THEN p - Size ELSE -1
  <2>3. data' = [p \in Positions |-> IF at(p) = -1 THEN data[p] ELSE SpanSample(at(p))]
    BY <1>10 DEF WriteSamples
  <2>4. ASSUME NEW p \in Positions PROVE at(p) \in Int
    BY DEF Positions
  <2> HIDE DEF at
  <2>5. data' \in [Positions -> Int]
    BY <2>2, <2>3, <2>4
  <2> QED
    BY <1>10, <2>5 DEF WriteSamples
<1>11. ASSUME NEW k \in 0..Size, ReleaseWriterSpan(k) PROVE TypeOK'
  <2>1. Position(offset) \in 0 .. Size - 1
    OBVIOUS
  <2> DEFINE first == Min2(Size - Position(offset), k)
  <2>2. first \in 0 .. k /\ Position(offset) + first <= Size /\ k - first <= Size
    BY <1>11, <2>1 DEF ReleaseWriterSpan
  <2> HIDE DEF first
  <2>3. ASSUME NEW p \in Positions,
               p \in Position(offset) + Size .. Position(offset) + Size + first - 1
        PROVE  data[p - Size] \in Int
    <3>1. p \in Int /\ p - Size >= 0 /\ p - Size < Size
      BY <2>1, <2>2, <2>3
    <3>2. p - Size \in Positions
      BY <3>1 DEF Positions
    <3> QED
      BY <3>2
  <2>4. ASSUME NEW p \in Positions, p \in 0 .. k - first - 1
        PROVE  data[p + Size] \in Int
    BY <2>2, <2>4 DEF Positions
  <2>5. Mirror(k) \in [Positions -> Int]
    BY <2>3, <2>4 DEF Mirror, first
  <2> QED
    BY <1>11, <2>5 DEF ReleaseWriterSpan
<1>12. ASSUME NEW r \in Readers, AddSequence(r) PROVE TypeOK'
    BY <1>12 DEF AddSequence, ReaderStep
<1>13. ASSUME NEW r \in Readers, RereadCursor(r) PROVE TypeOK'
    BY <1>13 DEF RereadCursor, ReaderStep
<1>14. ASSUME NEW r \in Readers, SetReadIndex(r) PROVE TypeOK'
    BY <1>14 DEF SetReadIndex, ReaderStep
<1>15. ASSUME NEW r \in Readers, InvalidateReaderCache(r) PROVE TypeOK'
    BY <1>15 DEF InvalidateReaderCache, ReaderStep
<1>16. ASSUME NEW r \in Readers, NEW n \in 0..Size, Get(r, n) PROVE TypeOK'
    BY <1>16 DEF Get
<1>17. ASSUME NEW r \in Readers, NEW n \in 0..Size, TryConsume(r, n) PROVE TypeOK'
    BY <1>17 DEF TryConsume
<1>18. ASSUME NEW r \in Readers, NEW policy \in ReleasePolicies, ReleaseReaderSpan(r, policy) PROVE TypeOK'
    BY <1>18, SMTT(60) DEF ReleaseReaderSpan
<1>19. ASSUME NEW r \in Readers, RemoveSequence(r) PROVE TypeOK'
    BY <1>19 DEF RemoveSequence, ReaderStep
<1>20. ASSUME NEW r \in Readers, InvalidateAfterRemove(r) PROVE TypeOK'
    BY <1>20 DEF InvalidateAfterRemove, ReaderStep
<1>21. ASSUME UNCHANGED vars PROVE TypeOK'
    BY <1>21 DEF vars
<1> QED
    BY <1>1, <1>2, <1>3, <1>4, <1>5, <1>6, <1>7, <1>8, <1>9, <1>10, <1>11, <1>12, <1>13, <1>14, <1>15, <1>16, <1>17, <1>18, <1>19, <1>20, <1>21 DEF Next, Writer, WriterCall, Reader, Construct

(* Every step keeps offset, span and the two cursors of the writer         *)
(* together.                                                               *)
LEMMA WriterInvStep == IInv /\ [Next]_vars => WriterInv'
<1> SUFFICES ASSUME IInv, [Next]_vars PROVE WriterInv'
    OBVIOUS
<1> USE RingAssumption, PositionType DEF IInv, TypeOK, WriterInv, strategyVars, listVars, storeVars,
           callVars, scanVars, spanVars, readerVars, writerVars, SizeMax, Available, Min2, SubWord, InUse
<1>1. ASSUME NEW n \in 0..Size, NEW blocking \in BOOLEAN, BeginReserve(n, blocking) PROVE WriterInv'
    BY <1>1 DEF BeginReserve
<1>2. ASSUME HouseKeeping PROVE WriterInv'
    BY <1>2 DEF HouseKeeping, StartScan
<1>3. ASSUME LoadGeneration PROVE WriterInv'
    BY <1>3 DEF LoadGeneration, StartScan
<1>4. ASSUME LoadList PROVE WriterInv'
    BY <1>4 DEF LoadList, StartScan
<1>5. ASSUME NEW r \in Readers, ScanReader(r) PROVE WriterInv'
    BY <1>5 DEF ScanReader
<1>6. ASSUME CheckPressure PROVE WriterInv'
    BY <1>6 DEF CheckPressure, StartScan, Scanned, RemainingCapacity, MinReaderCursor
<1>7. ASSUME ReclaimBehindReader PROVE WriterInv'
    BY <1>7 DEF ReclaimBehindReader, FreshMin, Scanned, Cleared
<1>8. ASSUME Claim PROVE WriterInv'
    BY <1>8 DEF Claim, Scanned, RemainingCapacity, MinReaderCursor
<1>9. ASSUME NoRoom PROVE WriterInv'
    BY <1>9 DEF NoRoom, Scanned, RemainingCapacity, MinReaderCursor
<1>10. ASSUME WriteSamples PROVE WriterInv'
    BY <1>10 DEF WriteSamples
<1>11. ASSUME NEW k \in 0..Size, ReleaseWriterSpan(k) PROVE WriterInv'
    BY <1>11 DEF ReleaseWriterSpan
<1>12. ASSUME NEW r \in Readers, AddSequence(r) PROVE WriterInv'
    BY <1>12 DEF AddSequence, ReaderStep
<1>13. ASSUME NEW r \in Readers, RereadCursor(r) PROVE WriterInv'
    BY <1>13 DEF RereadCursor, ReaderStep
<1>14. ASSUME NEW r \in Readers, SetReadIndex(r) PROVE WriterInv'
    BY <1>14 DEF SetReadIndex, ReaderStep
<1>15. ASSUME NEW r \in Readers, InvalidateReaderCache(r) PROVE WriterInv'
    BY <1>15 DEF InvalidateReaderCache, ReaderStep
<1>16. ASSUME NEW r \in Readers, NEW n \in 0..Size, Get(r, n) PROVE WriterInv'
    BY <1>16 DEF Get
<1>17. ASSUME NEW r \in Readers, NEW n \in 0..Size, TryConsume(r, n) PROVE WriterInv'
    BY <1>17 DEF TryConsume
<1>18. ASSUME NEW r \in Readers, NEW policy \in ReleasePolicies, ReleaseReaderSpan(r, policy) PROVE WriterInv'
    BY <1>18 DEF ReleaseReaderSpan
<1>19. ASSUME NEW r \in Readers, RemoveSequence(r) PROVE WriterInv'
    BY <1>19 DEF RemoveSequence, ReaderStep
<1>20. ASSUME NEW r \in Readers, InvalidateAfterRemove(r) PROVE WriterInv'
    BY <1>20 DEF InvalidateAfterRemove, ReaderStep
<1>21. ASSUME UNCHANGED vars PROVE WriterInv'
    BY <1>21 DEF vars
<1> QED
    BY <1>1, <1>2, <1>3, <1>4, <1>5, <1>6, <1>7, <1>8, <1>9, <1>10, <1>11, <1>12, <1>13, <1>14, <1>15, <1>16, <1>17, <1>18, <1>19, <1>20, <1>21 DEF Next, Writer, WriterCall, Reader, Construct

(* Every step keeps each reader at or behind the publish cursor.           *)
LEMMA ReaderInvStep == IInv /\ [Next]_vars => ReaderInv'
<1> SUFFICES ASSUME IInv, [Next]_vars PROVE ReaderInv'
    OBVIOUS
<1> USE RingAssumption, PositionType DEF IInv, TypeOK, WriterInv, ReaderInv, Listed, strategyVars, listVars, storeVars,
           callVars, scanVars, spanVars, readerVars, writerVars, SizeMax, Available, Min2, SubWord, InUse
<1>1. ASSUME NEW n \in 0..Size, NEW blocking \in BOOLEAN, BeginReserve(n, blocking) PROVE ReaderInv'
    BY <1>1 DEF BeginReserve
<1>2. ASSUME HouseKeeping PROVE ReaderInv'
    BY <1>2 DEF HouseKeeping, StartScan
<1>3. ASSUME LoadGeneration PROVE ReaderInv'
    BY <1>3 DEF LoadGeneration, StartScan
<1>4. ASSUME LoadList PROVE ReaderInv'
    BY <1>4 DEF LoadList, StartScan
<1>5. ASSUME NEW r \in Readers, ScanReader(r) PROVE ReaderInv'
    BY <1>5 DEF ScanReader
<1>6. ASSUME CheckPressure PROVE ReaderInv'
    BY <1>6 DEF CheckPressure, StartScan, Scanned, RemainingCapacity, MinReaderCursor
<1>7. ASSUME ReclaimBehindReader PROVE ReaderInv'
    BY <1>7 DEF ReclaimBehindReader, FreshMin, Scanned, Cleared
<1>8. ASSUME Claim PROVE ReaderInv'
    BY <1>8 DEF Claim, Scanned, RemainingCapacity, MinReaderCursor
<1>9. ASSUME NoRoom PROVE ReaderInv'
    BY <1>9 DEF NoRoom, Scanned, RemainingCapacity, MinReaderCursor
<1>10. ASSUME WriteSamples PROVE ReaderInv'
    BY <1>10 DEF WriteSamples
<1>11. ASSUME NEW k \in 0..Size, ReleaseWriterSpan(k) PROVE ReaderInv'
    BY <1>11 DEF ReleaseWriterSpan
<1>12. ASSUME NEW r \in Readers, AddSequence(r) PROVE ReaderInv'
    BY <1>12 DEF AddSequence, ReaderStep
<1>13. ASSUME NEW r \in Readers, RereadCursor(r) PROVE ReaderInv'
    BY <1>13 DEF RereadCursor, ReaderStep
<1>14. ASSUME NEW r \in Readers, SetReadIndex(r) PROVE ReaderInv'
    BY <1>14 DEF SetReadIndex, ReaderStep
<1>15. ASSUME NEW r \in Readers, InvalidateReaderCache(r) PROVE ReaderInv'
    BY <1>15 DEF InvalidateReaderCache, ReaderStep
<1>16. ASSUME NEW r \in Readers, NEW n \in 0..Size, Get(r, n) PROVE ReaderInv'
    BY <1>16 DEF Get
<1>17. ASSUME NEW r \in Readers, NEW n \in 0..Size, TryConsume(r, n) PROVE ReaderInv'
    BY <1>17 DEF TryConsume
<1>18. ASSUME NEW r \in Readers, NEW policy \in ReleasePolicies, ReleaseReaderSpan(r, policy) PROVE ReaderInv'
    BY <1>18 DEF ReleaseReaderSpan
<1>19. ASSUME NEW r \in Readers, RemoveSequence(r) PROVE ReaderInv'
    BY <1>19 DEF RemoveSequence, ReaderStep
<1>20. ASSUME NEW r \in Readers, InvalidateAfterRemove(r) PROVE ReaderInv'
    BY <1>20 DEF InvalidateAfterRemove, ReaderStep
<1>21. ASSUME UNCHANGED vars PROVE ReaderInv'
    BY <1>21 DEF vars
<1> QED
    BY <1>1, <1>2, <1>3, <1>4, <1>5, <1>6, <1>7, <1>8, <1>9, <1>10, <1>11, <1>12, <1>13, <1>14, <1>15, <1>16, <1>17, <1>18, <1>19, <1>20, <1>21 DEF Next, Writer, WriterCall, Reader, Construct

(* Every step keeps the cached reader list complete while its generation   *)
(* is current.                                                             *)
LEMMA CacheInvStep == IInv /\ [Next]_vars => CacheInv'
<1> SUFFICES ASSUME IInv, [Next]_vars PROVE CacheInv'
    OBVIOUS
<1> USE RingAssumption, PositionType DEF IInv, TypeOK, CacheInv, ReaderInv, Listed, Attaching, strategyVars, listVars, storeVars,
           callVars, scanVars, spanVars, readerVars, writerVars, SizeMax, Available, Min2, SubWord, InUse
<1>1. ASSUME NEW n \in 0..Size, NEW blocking \in BOOLEAN, BeginReserve(n, blocking) PROVE CacheInv'
    BY <1>1 DEF BeginReserve
<1>2. ASSUME HouseKeeping PROVE CacheInv'
    BY <1>2 DEF HouseKeeping, StartScan
<1>3. ASSUME LoadGeneration PROVE CacheInv'
    BY <1>3 DEF LoadGeneration, StartScan
<1>4. ASSUME LoadList PROVE CacheInv'
    BY <1>4 DEF LoadList, StartScan
<1>5. ASSUME NEW r \in Readers, ScanReader(r) PROVE CacheInv'
    BY <1>5 DEF ScanReader
<1>6. ASSUME CheckPressure PROVE CacheInv'
    BY <1>6 DEF CheckPressure, StartScan, Scanned, RemainingCapacity, MinReaderCursor
<1>7. ASSUME ReclaimBehindReader PROVE CacheInv'
    BY <1>7 DEF ReclaimBehindReader, FreshMin, Scanned, Cleared
<1>8. ASSUME Claim PROVE CacheInv'
    BY <1>8 DEF Claim, Scanned, RemainingCapacity, MinReaderCursor
<1>9. ASSUME NoRoom PROVE CacheInv'
    BY <1>9 DEF NoRoom, Scanned, RemainingCapacity, MinReaderCursor
<1>10. ASSUME WriteSamples PROVE CacheInv'
    BY <1>10 DEF WriteSamples
<1>11. ASSUME NEW k \in 0..Size, ReleaseWriterSpan(k) PROVE CacheInv'
    BY <1>11 DEF ReleaseWriterSpan
<1>12. ASSUME NEW r \in Readers, AddSequence(r) PROVE CacheInv'
    BY <1>12 DEF AddSequence, ReaderStep
<1>13. ASSUME NEW r \in Readers, RereadCursor(r) PROVE CacheInv'
    BY <1>13 DEF RereadCursor, ReaderStep
<1>14. ASSUME NEW r \in Readers, SetReadIndex(r) PROVE CacheInv'
    BY <1>14 DEF SetReadIndex, ReaderStep
<1>15. ASSUME NEW r \in Readers, InvalidateReaderCache(r) PROVE CacheInv'
    BY <1>15 DEF InvalidateReaderCache, ReaderStep
<1>16. ASSUME NEW r \in Readers, NEW n \in 0..Size, Get(r, n) PROVE CacheInv'
    BY <1>16 DEF Get
<1>17. ASSUME NEW r \in Readers, NEW n \in 0..Size, TryConsume(r, n) PROVE CacheInv'
    BY <1>17 DEF TryConsume
<1>18. ASSUME NEW r \in Readers, NEW policy \in ReleasePolicies, ReleaseReaderSpan(r, policy) PROVE CacheInv'
    BY <1>18 DEF ReleaseReaderSpan
<1>19. ASSUME NEW r \in Readers, RemoveSequence(r) PROVE CacheInv'
    BY <1>19 DEF RemoveSequence, ReaderStep
<1>20. ASSUME NEW r \in Readers, InvalidateAfterRemove(r) PROVE CacheInv'
    BY <1>20 DEF InvalidateAfterRemove, ReaderStep
<1>21. ASSUME UNCHANGED vars PROVE CacheInv'
    BY <1>21 DEF vars
<1> QED
    BY <1>1, <1>2, <1>3, <1>4, <1>5, <1>6, <1>7, <1>8, <1>9, <1>10, <1>11, <1>12, <1>13, <1>14, <1>15, <1>16, <1>17, <1>18, <1>19, <1>20, <1>21 DEF Next, Writer, WriterCall, Reader, Construct

(* Every step keeps the reservation within Size of every cursor that is    *)
(* listed or cached.                                                       *)
LEMMA CapacityInvStep == IInv /\ [Next]_vars => CapacityInv'
<1> SUFFICES ASSUME IInv, [Next]_vars PROVE CapacityInv'
    OBVIOUS
<1> USE RingAssumption, PositionType DEF IInv, TypeOK, WriterInv, ReaderInv, CacheInv, CapacityInv, Listed, Attaching, strategyVars, listVars, storeVars,
           callVars, scanVars, spanVars, readerVars, writerVars, SizeMax, Available, Min2, SubWord, InUse
<1>1. ASSUME NEW n \in 0..Size, NEW blocking \in BOOLEAN, BeginReserve(n, blocking) PROVE CapacityInv'
    BY <1>1 DEF BeginReserve
<1>2. ASSUME HouseKeeping PROVE CapacityInv'
    BY <1>2 DEF HouseKeeping, StartScan
<1>3. ASSUME LoadGeneration PROVE CapacityInv'
    BY <1>3 DEF LoadGeneration, StartScan
<1>4. ASSUME LoadList PROVE CapacityInv'
    BY <1>4 DEF LoadList, StartScan
<1>5. ASSUME NEW r \in Readers, ScanReader(r) PROVE CapacityInv'
    BY <1>5 DEF ScanReader
<1>6. ASSUME CheckPressure PROVE CapacityInv'
    BY <1>6 DEF CheckPressure, StartScan, Scanned, RemainingCapacity, MinReaderCursor
<1>7. ASSUME ReclaimBehindReader PROVE CapacityInv'
    BY <1>7 DEF ReclaimBehindReader, FreshMin, Scanned, Cleared
<1>8. ASSUME Claim PROVE CapacityInv'
    BY <1>8 DEF Claim, Scanned, RemainingCapacity, MinReaderCursor
<1>9. ASSUME NoRoom PROVE CapacityInv'
    BY <1>9 DEF NoRoom, Scanned, RemainingCapacity, MinReaderCursor
<1>10. ASSUME WriteSamples PROVE CapacityInv'
    BY <1>10 DEF WriteSamples
<1>11. ASSUME NEW k \in 0..Size, ReleaseWriterSpan(k) PROVE CapacityInv'
    BY <1>11 DEF ReleaseWriterSpan
<1>12. ASSUME NEW r \in Readers, AddSequence(r) PROVE CapacityInv'
    BY <1>12 DEF AddSequence, ReaderStep
<1>13. ASSUME NEW r \in Readers, RereadCursor(r) PROVE CapacityInv'
    BY <1>13 DEF RereadCursor, ReaderStep
<1>14. ASSUME NEW r \in Readers, SetReadIndex(r) PROVE CapacityInv'
    BY <1>14 DEF SetReadIndex, ReaderStep
<1>15. ASSUME NEW r \in Readers, InvalidateReaderCache(r) PROVE CapacityInv'
    BY <1>15 DEF InvalidateReaderCache, ReaderStep
<1>16. ASSUME NEW r \in Readers, NEW n \in 0..Size, Get(r, n) PROVE CapacityInv'
    BY <1>16 DEF Get
<1>17. ASSUME NEW r \in Readers, NEW n \in 0..Size, TryConsume(r, n) PROVE CapacityInv'
    BY <1>17 DEF TryConsume
<1>18. ASSUME NEW r \in Readers, NEW policy \in ReleasePolicies, ReleaseReaderSpan(r, policy) PROVE CapacityInv'
  <2>1. \A q \in Readers : readIndex'[q] \in Nat /\ readIndex[q] <= readIndex'[q]
    BY <1>18 DEF ReleaseReaderSpan
  <2>2. UNCHANGED <<strategyVars, listVars, storeVars, writerVars>>
    BY <1>18 DEF ReleaseReaderSpan
  <2> QED
    BY <2>1, <2>2
<1>19. ASSUME NEW r \in Readers, RemoveSequence(r) PROVE CapacityInv'
    BY <1>19 DEF RemoveSequence, ReaderStep
<1>20. ASSUME NEW r \in Readers, InvalidateAfterRemove(r) PROVE CapacityInv'
    BY <1>20 DEF InvalidateAfterRemove, ReaderStep
<1>21. ASSUME UNCHANGED vars PROVE CapacityInv'
    BY <1>21 DEF vars
<1> QED
    BY <1>1, <1>2, <1>3, <1>4, <1>5, <1>6, <1>7, <1>8, <1>9, <1>10, <1>11, <1>12, <1>13, <1>14, <1>15, <1>16, <1>17, <1>18, <1>19, <1>20, <1>21 DEF Next, Writer, WriterCall, Reader, Construct

(* A newly constructed buffer satisfies the invariant.                     *)
LEMMA InitIInv == Init => IInv
<1> SUFFICES ASSUME Init PROVE IInv
    OBVIOUS
<1>1. TypeOK
  <2>1. SizeMax \in Nat
    BY RingAssumption DEF SizeMax
  <2>2. Fallow \in Int
    BY DEF Fallow
  <2> QED
    BY <2>1, <2>2 DEF Init, TypeOK
<1>2. WriterInv
    BY RingAssumption DEF Init, WriterInv
<1>3. ReaderInv
    BY DEF Init, ReaderInv, Listed
<1>4. CacheInv
    BY DEF Init, CacheInv
<1>5. CapacityInv
    BY DEF Init, CapacityInv
<1> QED
    BY <1>1, <1>2, <1>3, <1>4, <1>5 DEF IInv

(* The inductive invariant holds in every reachable state.                 *)
LEMMA Inductive == Spec => []IInv
<1>1. IInv /\ [Next]_vars => IInv'
    BY TypeOKStep, WriterInvStep, ReaderInvStep, CacheInvStep, CapacityInvStep DEF IInv
<1> QED
    BY InitIInv, <1>1, PTL DEF Spec

(* Type correctness: in particular no cursor ever leaves the naturals, so  *)
(* no subtraction of the code is taken from a smaller operand unnoticed.   *)
THEOREM TypeCorrect == Spec => []TypeOK
<1>1. IInv => TypeOK
    BY DEF IInv
<1> QED
    BY Inductive, <1>1, PTL

(* getRemainingCapacity() with its cached reader list never lets tryNext() *)
(* or next() reserve a slot that a constructed reader has not consumed.    *)
THEOREM WriterNeverLapsReader ==
    ASSUME Quiesced PROVE Spec => []NeverLapped
<1>1. IInv => NeverLapped
    BY DEF IInv, ReaderInv, CapacityInv, Listed, NeverLapped, InUse
<1> QED
    BY Inductive, <1>1, PTL

-----------------------------------------------------------------------------
(* The samples themselves: what a reader has not consumed is intact in     *)
(* both halves of the memory, and what the writer has filled in is there.  *)
(* That holds because the span of the writer never shares an index with an *)
(* unread sample (CapacityInv and PositionsDiffer).                        *)

(* The element at p is sample j, or may have been reclaimed.               *)
Keeps(p, j) == data[p] = j \/ (Clearable /\ data[p] = Cleared)

(* Sample j is in both halves of the memory.                               *)
Kept(j) == Keeps(Position(j), j) /\ Keeps(Position(j) + Size, j)

(* The i-th sample of the writer's span; mapped twice, it shows up twice.  *)
Filled(i) ==
    /\ data[Position(offset) + i] = offset + i
    /\ DoubleMapped => /\ data[Position(offset + i)] = offset + i
                       /\ data[Position(offset + i) + Size] = offset + i

(* Memory invariant: nothing unread is lost, nothing written goes missing. *)
DataInv ==
    /\ \A r \in readSequences : \A j \in Nat :
            readIndex[r] <= j /\ j < publishCursor => Kept(j)
    /\ wpc = "written" => \A i \in 0 .. span - 1 : Filled(i)
    /\ wphase # "claim" => Clearable

(* Every cursor is some number of turns around the buffer and a position.  *)
LEMMA Division ==
    ASSUME NEW a \in Nat
    PROVE  \E q \in Nat : a = Size * q + Position(a)
<1>1. /\ a \div Size \in Nat
      /\ a = Size * (a \div Size) + Position(a)
  BY RingAssumption, SMTT(30) DEF Position
<1> QED
  BY <1>1, Zenon

(* One turn more is at least Size positions more.                          *)
LEMMA Products ==
    ASSUME NEW n \in Nat \ {0}, NEW p \in Nat, NEW q \in Nat
    PROVE  /\ n * p \in Nat /\ n * q \in Nat
           /\ p < q => n * q >= n * p + n
OBVIOUS

(* Two cursors in different turns differ by at least Size in their turns.  *)
LEMMA Turns ==
    ASSUME NEW n \in Nat \ {0}, NEW p \in Nat, NEW q \in Nat
    PROVE  p = q \/ n * q >= n * p + n \/ n * p >= n * q + n
BY Products

(* Cursors less than Size apart have different positions.                  *)
LEMMA PositionsDiffer ==
    ASSUME NEW a \in Nat, NEW b \in Nat, a < b, b < a + Size
    PROVE  Position(a) # Position(b)
<1>1. PICK p \in Nat : a = Size * p + Position(a)
  BY Division
<1>2. PICK q \in Nat : b = Size * q + Position(b)
  BY Division
<1>3. Size \in Nat \ {0} /\ Position(a) \in Nat /\ Position(b) \in Nat
  BY PositionType, RingAssumption
<1>4. Size * p \in Nat /\ Size * q \in Nat
  BY <1>3, Products
<1>5. p = q \/ Size * q >= Size * p + Size \/ Size * p >= Size * q + Size
  BY <1>3, Turns
<1> QED
  BY <1>1, <1>2, <1>3, <1>4, <1>5

(* The remainder after whole turns is the position.                        *)
LEMMA PositionUnique ==
    ASSUME NEW a \in Nat, NEW q \in Nat, NEW x \in 0 .. Size - 1, a = Size * q + x
    PROVE  Position(a) = x
<1>1. PICK p \in Nat : a = Size * p + Position(a)
  BY Division
<1>2. Size \in Nat \ {0} /\ Position(a) \in 0 .. Size - 1
  BY PositionType, RingAssumption
<1>3. Size * p \in Nat /\ Size * q \in Nat
  BY <1>2, Products
<1>4. p = q \/ Size * q >= Size * p + Size \/ Size * p >= Size * q + Size
  BY <1>2, Turns
<1> QED
  BY <1>1, <1>2, <1>3, <1>4

(* Going on by less than a turn goes on in memory, or wraps around once.   *)
LEMMA PositionStep ==
    ASSUME NEW a \in Nat, NEW d \in Nat, d <= Size
    PROVE  Position(a + d) = IF Position(a) + d < Size THEN Position(a) + d
                             ELSE Position(a) + d - Size
<1>1. PICK p \in Nat : a = Size * p + Position(a)
  BY Division
<1>2. Size \in Nat \ {0} /\ Position(a) \in 0 .. Size - 1 /\ Size * p \in Nat
  BY PositionType, RingAssumption, Products
<1>3. CASE Position(a) + d < Size
  <2>1. a + d = Size * p + (Position(a) + d) /\ Position(a) + d \in 0 .. Size - 1
    BY <1>1, <1>2, <1>3
  <2> QED
    BY <1>3, <2>1, PositionUnique
<1>4. CASE Position(a) + d >= Size
  <2>1. PICK q \in Nat : q = p + 1
    OBVIOUS
  <2>2. Size * q = Size * p + Size
    BY <1>2, <2>1
  <2>3. a + d = Size * q + (Position(a) + d - Size) /\ Position(a) + d - Size \in 0 .. Size - 1
    BY <1>1, <1>2, <1>4, <2>2
  <2>4. Position(a + d) = Position(a) + d - Size
    BY <2>3, PositionUnique
  <2> QED
    BY <1>2, <1>4, <2>4
<1> QED
  BY <1>2, <1>3, <1>4

(* Steps that change neither the memory nor the writer's part of DataInv,  *)
(* and move no cursor of a listed reader back, keep it.                    *)
LEMMA DataUntouched ==
    ASSUME IInv, DataInv, UNCHANGED <<data, publishCursor>>,
           wpc' = "written" => UNCHANGED <<wpc, offset, span>>,
           wphase' # "claim" => Clearable,
           readIndex' \in [Readers -> Nat],
           readSequences' \subseteq Readers,
           \A r \in readSequences' : \/ r \in readSequences /\ readIndex[r] <= readIndex'[r]
                                     \/ readIndex'[r] >= publishCursor
    PROVE  DataInv'
<1>1. \A j : Kept(j)' = Kept(j)
  BY DEF Kept, Keeps
<1>2. wpc' = "written" => \A i : Filled(i)' = Filled(i)
  BY DEF Filled
<1>3. ASSUME NEW r \in readSequences', NEW j \in Nat, readIndex'[r] <= j, j < publishCursor'
      PROVE  Kept(j)'
  <2>1. r \in Readers /\ readIndex'[r] \in Nat /\ readIndex[r] \in Nat /\ publishCursor \in Nat
    BY <1>3 DEF IInv, TypeOK
  <2>2. r \in readSequences /\ readIndex[r] <= j
    BY <1>3, <2>1
  <2>3. Kept(j)
    BY <1>3, <2>2 DEF DataInv
  <2> QED
    BY <1>1, <2>3
<1> QED
  BY <1>2, <1>3 DEF DataInv

(* reclaimBehindReader() only clears, and only what may be cleared.        *)
LEMMA DataReclaim == ASSUME IInv, DataInv, ReclaimBehindReader PROVE DataInv'
<1>1. Clearable /\ wpc = "scan"
  BY DEF ReclaimBehindReader, Scanned, DataInv
<1>2. \A p \in Positions : data'[p] = data[p] \/ data'[p] = Cleared
  BY DEF ReclaimBehindReader, storeVars, IInv, TypeOK
<1>3. \A j \in Nat : Position(j) \in Positions /\ Position(j) + Size \in Positions
  BY PositionType, RingAssumption DEF Positions
<1>4. \A j \in Nat : Kept(j) => Kept(j)'
  BY <1>1, <1>2, <1>3 DEF Kept, Keeps
<1>5. UNCHANGED <<readSequences, readIndex, publishCursor>> /\ wpc' # "written"
  BY DEF ReclaimBehindReader, strategyVars, listVars, readerVars
<1> QED
  BY <1>1, <1>4, <1>5 DEF DataInv

(* The index of the i-th sample of the writer's span, in the first half of *)
(* the memory or, where it wrapped around, in the second.                  *)
LEMMA SpanIndex ==
    ASSUME IInv, NEW i \in 0 .. span - 1
    PROVE  /\ Position(offset + i) \in 0 .. Size - 1
           /\ Position(offset) + i \in Positions
           /\ \/ Position(offset + i) = Position(offset) + i
              \/ Position(offset + i) = Position(offset) + i - Size
<1>1. /\ offset \in Nat /\ offset + i \in Nat /\ i \in Nat
      /\ Size \in Nat \ {0} /\ i < Size
  BY RingAssumption DEF IInv, TypeOK, WriterInv
<1>2. Position(offset) \in 0 .. Size - 1 /\ Position(offset + i) \in 0 .. Size - 1
  BY <1>1, PositionType
<1>3. Position(offset + i) = IF Position(offset) + i < Size THEN Position(offset) + i
                             ELSE Position(offset) + i - Size
  BY <1>1, PositionStep
<1> QED
  BY <1>1, <1>2, <1>3 DEF Positions

(* What a listed reader has not consumed is not in the writer's span.      *)
LEMMA UnreadApart ==
    ASSUME IInv, Quiesced, NEW r \in readSequences, NEW j \in Nat,
           readIndex[r] <= j, j < publishCursor, NEW i \in 0 .. span - 1
    PROVE  Position(j) # Position(offset + i)
<1>1. /\ offset \in Nat /\ span \in Nat /\ offset + i \in Nat /\ readIndex[r] \in Nat
      /\ offset = publishCursor /\ reserveCursor = offset + span
      /\ reserveCursor <= readIndex[r] + Size
  BY DEF IInv, TypeOK, WriterInv, CapacityInv
<1>2. j < offset + i /\ offset + i < j + Size
  BY <1>1, RingAssumption
<1> QED
  BY <1>1, <1>2, PositionsDiffer

(* Filling the span puts its samples where they belong, and reaches no     *)
(* unread sample.                                                          *)
LEMMA DataWrite == ASSUME IInv, DataInv, Quiesced, WriteSamples PROVE DataInv'
<1> DEFINE index == Position(offset)
           written == index .. index + span - 1
           at(p) == IF p \in written THEN p
                    ELSE IF ~DoubleMapped THEN -1
                    ELSE IF p + Size \in written THEN p + Size
                    ELSE IF p - Size \in written THEN p - Size ELSE -1
<1>1. data' = [p \in Positions |-> IF at(p) = -1 THEN data[p] ELSE SpanSample(at(p))]
  BY DEF WriteSamples
<1>2. /\ UNCHANGED <<readSequences, readIndex, publishCursor, offset, span, wphase>>
      /\ wpc' = "written"
  BY DEF WriteSamples, strategyVars, listVars, callVars, spanVars, readerVars
<1>3. /\ Size \in Nat \ {0} /\ offset \in Nat /\ span \in Nat /\ span <= Size
      /\ index \in 0 .. Size - 1
  BY RingAssumption, PositionType DEF IInv, TypeOK, WriterInv
<1>4. \A p \in Positions : p \in Int /\ 0 <= p /\ p < 2 * Size
  BY <1>3 DEF Positions
<1>5. ASSUME NEW i \in 0 .. span - 1 PROVE Filled(i)'
  <2> DEFINE x == index + i
             y == Position(offset + i)
  <2>1. /\ x \in Positions /\ x \in written /\ y \in 0 .. Size - 1
        /\ y = x \/ y = x - Size
    BY <1>3, SpanIndex
  <2>2. y \in Positions /\ y + Size \in Positions
    BY <1>3, <2>1 DEF Positions
  <2> HIDE DEF y
  <2>3. at(x) = x /\ (DoubleMapped => at(y) = x /\ at(y + Size) = x)
    BY <1>3, <2>1
  <2>4. x # -1 /\ SpanSample(x) = offset + i
    BY <1>3 DEF SpanSample
  <2> HIDE DEF x, at
  <2>5. data'[x] = offset + i
    BY <1>1, <2>1, <2>3, <2>4
  <2>6. DoubleMapped => data'[y] = offset + i /\ data'[y + Size] = offset + i
    BY <1>1, <2>2, <2>3, <2>4
  <2> QED
    BY <1>2, <2>5, <2>6 DEF Filled, x, y
<1>6. ASSUME NEW r \in readSequences, NEW j \in Nat, readIndex[r] <= j, j < publishCursor,
             NEW p \in {Position(j), Position(j) + Size}
      PROVE  data'[p] = data[p]
  <2>1. Position(j) \in 0 .. Size - 1
    BY PositionType
  <2>2. p \in Positions
    BY <1>3, <2>1 DEF Positions
  <2>3. ASSUME NEW x \in written, p \in {x, x - Size, x + Size} PROVE FALSE
    <3> HIDE DEF index
    <3>1. PICK i \in 0 .. span - 1 : x = index + i
      <4>1. x - index \in 0 .. span - 1 /\ x = index + (x - index)
        BY <1>3
      <4> QED
        BY <4>1
    <3>2. Position(j) # Position(offset + i)
      BY <1>6, UnreadApart
    <3>3. /\ Position(offset + i) \in 0 .. Size - 1
          /\ \/ Position(offset + i) = Position(offset) + i
             \/ Position(offset + i) = Position(offset) + i - Size
      BY SpanIndex
    <3>4. x \in Nat /\ (p = Position(j) \/ p = Position(j) + Size)
      BY <1>3
    <3>5. Position(offset + i) = x \/ Position(offset + i) = x - Size
      BY <1>3, <3>1, <3>3, <3>4 DEF index
    <3> HIDE DEF written
    <3> QED
      BY <1>3, <2>1, <2>3, <3>2, <3>3, <3>4, <3>5
  <2>4. at(p) = -1
    <3> HIDE DEF written
    <3>1. p \in Int /\ p = (p + Size) - Size /\ p = (p - Size) + Size
      BY <1>3, <1>4, <2>2
    <3> QED
      BY <2>3, <3>1
  <2> HIDE DEF at
  <2> QED
    BY <1>1, <2>2, <2>4
<1>7. ASSUME NEW r \in readSequences', NEW j \in Nat, readIndex'[r] <= j, j < publishCursor'
      PROVE  Kept(j)'
  <2>1. r \in readSequences /\ readIndex[r] <= j /\ j < publishCursor
    BY <1>2, <1>7
  <2>2. Kept(j)
    BY <2>1 DEF DataInv
  <2>3. data'[Position(j)] = data[Position(j)] /\ data'[Position(j) + Size] = data[Position(j) + Size]
    BY <1>6, <2>1
  <2> QED
    BY <2>2, <2>3 DEF Kept, Keeps
<1> QED
  BY <1>2, <1>5, <1>7 DEF DataInv

(* Where the memory is not mapped twice, Mirror(k) brings the first k      *)
(* samples of the span into the other half.                                *)
LEMMA MirrorFills ==
    ASSUME IInv, DataInv, wpc = "written", NEW k \in 0 .. span, NEW i \in 0 .. k - 1
    PROVE  /\ Mirror(k)[Position(offset + i)] = offset + i
           /\ Mirror(k)[Position(offset + i) + Size] = offset + i
<1> DEFINE index == Position(offset)
           first == Min2(Size - index, k)
           x == index + i
           y == Position(offset + i)
<1>1. /\ Size \in Nat \ {0} /\ span \in Nat /\ span <= Size
      /\ index \in 0 .. Size - 1 /\ i \in 0 .. span - 1 /\ offset \in Nat
  BY RingAssumption, PositionType DEF IInv, TypeOK, WriterInv
<1>2. x \in Positions /\ y \in 0 .. Size - 1 /\ (y = x \/ y = x - Size)
  BY <1>1, SpanIndex
<1>3. data[x] = offset + i
  BY <1>1 DEF DataInv, Filled
<1>4. y \in Positions /\ y + Size \in Positions
  BY <1>1, <1>2 DEF Positions
<1>5. Mirror(k) = [p \in Positions |->
                      IF p \in index + Size .. index + Size + first - 1 THEN data[p - Size]
                      ELSE IF p \in 0 .. k - first - 1 THEN data[p + Size] ELSE data[p]]
  BY DEF Mirror
<1> HIDE DEF index, y
<1>6. CASE x < Size
  <2>1. y = x /\ i < first /\ first = (IF Size - index <= k THEN Size - index ELSE k)
    BY <1>1, <1>2, <1>6 DEF Min2
  <2>2. y \notin index + Size .. index + Size + first - 1 /\ y \notin 0 .. k - first - 1
    BY <1>1, <1>2, <1>6, <2>1
  <2>3. y + Size \in index + Size .. index + Size + first - 1 /\ (y + Size) - Size = x
    BY <1>1, <1>2, <1>6, <2>1
  <2> HIDE DEF x, first
  <2> QED
    BY <1>3, <1>4, <1>5, <2>1, <2>2, <2>3 DEF y
<1>7. CASE x >= Size
  <2>1. y = x - Size /\ first = Size - index
    BY <1>1, <1>2, <1>7 DEF Min2
  <2>2. /\ y \notin index + Size .. index + Size + first - 1
        /\ y \in 0 .. k - first - 1 /\ y + Size = x
    BY <1>1, <1>2, <1>7, <2>1
  <2>3. x \notin index + Size .. index + Size + first - 1 /\ x \notin 0 .. k - first - 1
    BY <1>1, <1>2, <1>7, <2>1
  <2> HIDE DEF x, first
  <2> QED
    BY <1>3, <1>4, <1>5, <2>2, <2>3 DEF y
<1> QED
  BY <1>1, <1>6, <1>7

(* Mirror(k) reaches no unread sample.                                     *)
LEMMA MirrorSpares ==
    ASSUME IInv, Quiesced, NEW k \in 0 .. span,
           NEW r \in readSequences, NEW j \in Nat, readIndex[r] <= j, j < publishCursor,
           NEW p \in {Position(j), Position(j) + Size}
    PROVE  Mirror(k)[p] = data[p]
<1> DEFINE index == Position(offset)
           first == Min2(Size - index, k)
<1>1. /\ Size \in Nat \ {0} /\ span \in Nat /\ span <= Size /\ k \in Nat
      /\ index \in 0 .. Size - 1 /\ Position(j) \in 0 .. Size - 1
  BY RingAssumption, PositionType DEF IInv, TypeOK, WriterInv
<1>2. p \in Positions /\ p \in Int
  BY <1>1 DEF Positions
<1>3. first \in Nat /\ first <= k /\ (first = k \/ first = Size - index)
  BY <1>1 DEF Min2
<1> HIDE DEF first
<1>4. ASSUME NEW i \in 0 .. k - 1 PROVE /\ Position(offset + i) \in 0 .. Size - 1
                                       /\ \/ Position(offset + i) = index + i
                                          \/ Position(offset + i) = index + i - Size
                                       /\ Position(j) # Position(offset + i)
  <2>1. i \in 0 .. span - 1
    BY <1>1
  <2> QED
    BY <2>1, SpanIndex, UnreadApart
<1> HIDE DEF index
<1>5. ASSUME p \in index + Size .. index + Size + first - 1 PROVE FALSE
  <2>1. PICK i \in 0 .. k - 1 : p = index + Size + i
    <3>1. p - index - Size \in 0 .. k - 1 /\ p = index + Size + (p - index - Size)
      BY <1>1, <1>2, <1>3, <1>5
    <3> QED
      BY <3>1
  <2> QED
    BY <1>1, <1>4, <2>1
<1>6. ASSUME p \in 0 .. k - first - 1 PROVE FALSE
  <2>1. PICK i \in 0 .. k - 1 : i = first + p
    <3>1. first + p \in 0 .. k - 1
      BY <1>1, <1>2, <1>3, <1>6
    <3> QED
      BY <3>1
  <2>2. first = Size - index
    BY <1>3, <1>6
  <2> QED
    BY <1>1, <1>2, <1>4, <1>6, <2>1, <2>2
<1> QED
  BY <1>2, <1>5, <1>6 DEF Mirror, index, first

(* Publishing makes the k samples readable in both halves of the memory.   *)
LEMMA DataRelease ==
    ASSUME IInv, DataInv, Quiesced, NEW k \in 0 .. Size, ReleaseWriterSpan(k)
    PROVE  DataInv'
<1>1. /\ k \in 0 .. span /\ offset \in Nat /\ span \in Nat /\ publishCursor = offset
      /\ wpc = "written" \/ span = 0
      /\ publishCursor' = offset + k /\ wpc' = "idle"
      /\ UNCHANGED <<readSequences, readIndex, wphase>>
      /\ data' = IF DoubleMapped THEN data ELSE Mirror(k)
  BY DEF ReleaseWriterSpan, callVars, listVars, readerVars, IInv, TypeOK, WriterInv
<1>2. ASSUME NEW r \in readSequences, NEW j \in Nat, readIndex[r] <= j, j < publishCursor
      PROVE  Kept(j)'
  <2>1. Kept(j)
    BY <1>2 DEF DataInv
  <2>2. ASSUME NEW p \in {Position(j), Position(j) + Size} PROVE data'[p] = data[p]
    BY <1>1, <1>2, MirrorSpares
  <2> QED
    BY <2>1, <2>2 DEF Kept, Keeps
<1>3. ASSUME NEW j \in Nat, publishCursor <= j, j < publishCursor' PROVE Kept(j)'
  <2>1. PICK i \in 0 .. k - 1 : j = offset + i
    <3>1. j - offset \in 0 .. k - 1 /\ j = offset + (j - offset)
      BY <1>1, <1>3
    <3> QED
      BY <3>1
  <2>2. i \in 0 .. span - 1 /\ wpc = "written"
    BY <1>1
  <2>3. data'[Position(j)] = j /\ data'[Position(j) + Size] = j
    <3>1. CASE DoubleMapped
      BY <1>1, <2>1, <2>2, <3>1 DEF DataInv, Filled
    <3>2. CASE ~DoubleMapped
      BY <1>1, <2>1, <2>2, <3>2, MirrorFills
    <3> QED
      BY <3>1, <3>2
  <2> QED
    BY <2>3 DEF Kept, Keeps
<1>4. ASSUME NEW r \in readSequences', NEW j \in Nat, readIndex'[r] <= j, j < publishCursor'
      PROVE  Kept(j)'
  <2>1. r \in readSequences /\ readIndex[r] <= j /\ (j < publishCursor \/ publishCursor <= j)
    BY <1>1, <1>4
  <2> QED
    BY <1>2, <1>3, <1>4, <2>1
<1> QED
  BY <1>1, <1>4 DEF DataInv

(* Every step keeps the unread samples and those the writer has filled in. *)
LEMMA DataInvStep == ASSUME IInv, DataInv, Quiesced, [Next]_vars PROVE DataInv'
<1> USE DEF strategyVars, listVars, storeVars, callVars, scanVars, spanVars, readerVars, writerVars
<1>1. ASSUME NEW n \in 0..Size, NEW blocking \in BOOLEAN, BeginReserve(n, blocking) PROVE DataInv'
  BY <1>1, DataUntouched DEF BeginReserve, IInv, TypeOK, ReaderInv, WriterInv, DataInv
<1>2. ASSUME HouseKeeping PROVE DataInv'
  BY <1>2, DataUntouched DEF HouseKeeping, StartScan, IInv, TypeOK, ReaderInv, WriterInv, DataInv
<1>3. ASSUME LoadGeneration PROVE DataInv'
  BY <1>3, DataUntouched DEF LoadGeneration, StartScan, IInv, TypeOK, ReaderInv, WriterInv, DataInv
<1>4. ASSUME LoadList PROVE DataInv'
  BY <1>4, DataUntouched DEF LoadList, StartScan, IInv, TypeOK, ReaderInv, WriterInv, DataInv
<1>5. ASSUME NEW r \in Readers, ScanReader(r) PROVE DataInv'
  BY <1>5, DataUntouched DEF ScanReader, IInv, TypeOK, ReaderInv, WriterInv, DataInv
<1>6. ASSUME CheckPressure PROVE DataInv'
  BY <1>6, DataUntouched DEF CheckPressure, StartScan, Scanned, IInv, TypeOK, ReaderInv, WriterInv, DataInv
<1>7. ASSUME ReclaimBehindReader PROVE DataInv'
  BY <1>7, DataReclaim
<1>8. ASSUME Claim PROVE DataInv'
  BY <1>8, DataUntouched DEF Claim, Scanned, IInv, TypeOK, ReaderInv, WriterInv, DataInv
<1>9. ASSUME NoRoom PROVE DataInv'
  BY <1>9, DataUntouched DEF NoRoom, Scanned, IInv, TypeOK, ReaderInv, WriterInv, DataInv
<1>10. ASSUME WriteSamples PROVE DataInv'
  BY <1>10, DataWrite
<1>11. ASSUME NEW k \in 0..Size, ReleaseWriterSpan(k) PROVE DataInv'
  BY <1>11, DataRelease
<1>12. ASSUME NEW r \in Readers, AddSequence(r) PROVE DataInv'
  BY <1>12, DataUntouched DEF AddSequence, ReaderStep, IInv, TypeOK, ReaderInv, WriterInv, DataInv
<1>13. ASSUME NEW r \in Readers, RereadCursor(r) PROVE DataInv'
  BY <1>13, DataUntouched DEF RereadCursor, ReaderStep, IInv, TypeOK, ReaderInv, WriterInv, DataInv
<1>14. ASSUME NEW r \in Readers, SetReadIndex(r) PROVE DataInv'
  BY <1>14, DataUntouched DEF SetReadIndex, ReaderStep, IInv, TypeOK, ReaderInv, WriterInv, DataInv
<1>15. ASSUME NEW r \in Readers, InvalidateReaderCache(r) PROVE DataInv'
  BY <1>15, DataUntouched DEF InvalidateReaderCache, ReaderStep, IInv, TypeOK, ReaderInv, WriterInv, DataInv
<1>16. ASSUME NEW r \in Readers, NEW n \in 0..Size, Get(r, n) PROVE DataInv'
  BY <1>16, DataUntouched DEF Get, IInv, TypeOK, ReaderInv, WriterInv, DataInv
<1>17. ASSUME NEW r \in Readers, NEW n \in 0..Size, TryConsume(r, n) PROVE DataInv'
  BY <1>17, DataUntouched DEF TryConsume, IInv, TypeOK, ReaderInv, WriterInv, DataInv
<1>18. ASSUME NEW r \in Readers, NEW policy \in ReleasePolicies, ReleaseReaderSpan(r, policy) PROVE DataInv'
  BY <1>18, DataUntouched DEF ReleaseReaderSpan, IInv, TypeOK, ReaderInv, WriterInv, DataInv
<1>19. ASSUME NEW r \in Readers, RemoveSequence(r) PROVE DataInv'
  BY <1>19, DataUntouched DEF RemoveSequence, ReaderStep, IInv, TypeOK, ReaderInv, WriterInv, DataInv
<1>20. ASSUME NEW r \in Readers, InvalidateAfterRemove(r) PROVE DataInv'
  BY <1>20, DataUntouched DEF InvalidateAfterRemove, ReaderStep, IInv, TypeOK, ReaderInv, WriterInv, DataInv
<1>21. ASSUME UNCHANGED vars PROVE DataInv'
  BY <1>21, DataUntouched DEF vars, IInv, TypeOK, ReaderInv, WriterInv, DataInv
<1> QED
  BY <1>1, <1>2, <1>3, <1>4, <1>5, <1>6, <1>7, <1>8, <1>9, <1>10, <1>11, <1>12, <1>13, <1>14, <1>15, <1>16, <1>17, <1>18, <1>19, <1>20, <1>21 DEF Next, Writer, WriterCall, Reader, Construct

(* A newly constructed buffer holds nothing that could be lost.            *)
LEMMA InitDataInv == Init => DataInv
BY DEF Init, DataInv

(* Both invariants hold in every reachable state.                          *)
LEMMA InductiveData == ASSUME Quiesced PROVE Spec => [](IInv /\ DataInv)
<1>1. IInv /\ [Next]_vars => IInv'
  BY TypeOKStep, WriterInvStep, ReaderInvStep, CacheInvStep, CapacityInvStep DEF IInv
<1>2. IInv /\ DataInv /\ [Next]_vars => DataInv'
  BY DataInvStep
<1> QED
  BY InitIInv, InitDataInv, <1>1, <1>2, PTL DEF Spec

(* Where a reader looks for sample j, counting from its cursor on, there   *)
(* is one of the two places of sample j.                                   *)
LEMMA ReaderIndex ==
    ASSUME IInv, Quiesced, NEW r \in readSequences, NEW j \in Nat,
           readIndex[r] <= j, j < publishCursor
    PROVE  Position(readIndex[r]) + j - readIndex[r] \in {Position(j), Position(j) + Size}
<1>1. PICK d \in Nat : d = j - readIndex[r]
  BY DEF IInv, TypeOK
<1>2. readIndex[r] \in Nat /\ d <= Size /\ j = readIndex[r] + d /\ Size \in Nat
  BY <1>1, RingAssumption DEF IInv, TypeOK, WriterInv, CapacityInv
<1>3. Position(j) = IF Position(readIndex[r]) + d < Size THEN Position(readIndex[r]) + d
                    ELSE Position(readIndex[r]) + d - Size
  BY <1>2, PositionStep
<1>4. Position(readIndex[r]) \in Nat
  BY <1>2, PositionType
<1> QED
  BY <1>2, <1>3, <1>4

(* No step of the writer puts another sample in the place of an unread     *)
(* one, be the memory mapped twice or mirrored by hand, reclaimed or not   *)
(* (WriterSpan's destructor and reclaimBehindReader()).                    *)
THEOREM UnreadSurvives ==
    ASSUME Quiesced PROVE Spec => []UnreadNeverOverwritten
<1>1. ASSUME IInv, DataInv PROVE UnreadNeverOverwritten
  <2> SUFFICES ASSUME NEW r \in InUse, NEW j \in readIndexCached[r] .. publishCursor - 1
               PROVE  Keeps(Position(readIndexCached[r]) + j - readIndexCached[r], j)
    BY DEF UnreadNeverOverwritten, Keeps
  <2>1. r \in readSequences /\ readIndexCached[r] = readIndex[r]
    BY <1>1 DEF InUse, IInv, ReaderInv, Listed
  <2>2. j \in Nat /\ readIndex[r] <= j /\ j < publishCursor
    BY <1>1, <2>1 DEF IInv, TypeOK
  <2>3. Kept(j)
    BY <1>1, <2>1, <2>2 DEF DataInv
  <2>4. Position(readIndex[r]) + j - readIndex[r] \in {Position(j), Position(j) + Size}
    BY <1>1, <2>1, <2>2, ReaderIndex
  <2> QED
    BY <2>1, <2>3, <2>4 DEF Kept
<1> QED
  BY <1>1, InductiveData, PTL

(* The writer and a reader never have a slot open at the same time, so     *)
(* their accesses to the samples need no lock.                             *)
THEOREM SpansNeverOverlap ==
    ASSUME Quiesced PROVE Spec => []SpansDisjoint
<1>1. ASSUME IInv PROVE SpansDisjoint
  <2> SUFFICES ASSUME NEW r \in Readers, rpc[r] = "open",
                      NEW i \in offset .. offset + span - 1,
                      NEW j \in readIndexCached[r] .. readIndexCached[r] + firstGet[r] - 1
               PROVE  Position(i) # Position(j)
    BY DEF SpansDisjoint
  <2>1. /\ r \in readSequences /\ readIndexCached[r] = readIndex[r]
        /\ readIndexCached[r] + firstGet[r] <= publishCursor
    BY <1>1 DEF IInv, ReaderInv, Listed
  <2>2. /\ j \in Nat /\ readIndex[r] <= j /\ j < publishCursor
        /\ offset \in Nat /\ i \in Nat /\ i - offset \in 0 .. span - 1 /\ i = offset + (i - offset)
    BY <1>1, <2>1 DEF IInv, TypeOK
  <2>3. Position(j) # Position(offset + (i - offset))
    BY <1>1, <2>1, <2>2, UnreadApart
  <2> QED
    BY <2>2, <2>3
<1> QED
  BY <1>1, Inductive, PTL
-----------------------------------------------------------------------------
(* The refinement of BroadcastStream.  Where nothing is reclaimed, the     *)
(* queue of a reader is the run of samples between its cursor and the      *)
(* publish cursor (QueueIsRun); the rest is about runs.                    *)

(* The n samples from sample a on.                                         *)
Run(a, n) == [i \in 1 .. n |-> a + i - 1]

(* A run of n samples is a sequence of n samples.                          *)
LEMMA RunIsSequence ==
    ASSUME NEW a \in Nat, NEW n \in Nat
    PROVE  Run(a, n) \in Seq(Nat) /\ Len(Run(a, n)) = n
BY DEF Run

(* The empty run is the empty sequence.                                    *)
LEMMA RunEmpty == ASSUME NEW a \in Nat PROVE Run(a, 0) = <<>>
BY DEF Run

(* Two runs, the second where the first ends, are one.                     *)
LEMMA RunAppend ==
    ASSUME NEW a \in Nat, NEW n \in Nat, NEW k \in Nat
    PROVE  Run(a, n) \o Run(a + n, k) = Run(a, n + k)
<1>1. /\ Run(a, n) \in Seq(Nat) /\ Len(Run(a, n)) = n
      /\ Run(a + n, k) \in Seq(Nat) /\ Len(Run(a + n, k)) = k
  BY RunIsSequence, SMTT(60)
<1> DEFINE both == Run(a, n) \o Run(a + n, k)
<1>2. both \in Seq(Nat) /\ Len(both) = n + k
  BY <1>1
<1>3. \A i \in 1 .. n + k : both[i] = a + i - 1
  BY <1>1 DEF Run
<1>4. DOMAIN both = 1 .. n + k
  BY <1>2
<1>5. both = [i \in DOMAIN both |-> both[i]]
  BY <1>2
<1> HIDE DEF both
<1> QED
  BY <1>3, <1>4, <1>5 DEF Run, both

(* What is left of a run whose first k samples are taken is a run.         *)
LEMMA RunRest ==
    ASSUME NEW a \in Nat, NEW n \in Nat, NEW k \in 0 .. n
    PROVE  SubSeq(Run(a, n), k + 1, Len(Run(a, n))) = Run(a + k, n - k)
<1>1. Run(a, n) \in Seq(Nat) /\ Len(Run(a, n)) = n
  BY RunIsSequence
<1> DEFINE rest == SubSeq(Run(a, n), k + 1, n)
<1>2. rest \in Seq(Nat) /\ Len(rest) = n - k
  BY <1>1
<1>3. \A i \in 1 .. n - k : rest[i] = a + k + i - 1
  BY <1>1 DEF Run
<1>4. rest = [i \in 1 .. n - k |-> rest[i]]
  BY <1>2
<1> HIDE DEF rest
<1> QED
  BY <1>1, <1>3, <1>4 DEF Run, rest

(* The queue of a listed reader is a run of at most Size samples.          *)
QueueInv ==
    /\ publishCursor \in Nat /\ readIndex \in [Readers -> Nat] /\ readSequences \subseteq Readers
    /\ reserveCursor \in Nat /\ publishCursor <= reserveCursor
    /\ \A r \in readSequences :
        /\ readIndex[r] <= publishCursor /\ reserveCursor <= readIndex[r] + Size
        /\ UnreadQueue(r) = Run(readIndex[r], publishCursor - readIndex[r])

(* Every queue is a run: no sample in it was overwritten or cleared.       *)
LEMMA QueueIsRun ==
    ASSUME IInv, DataInv, Quiesced, ~Clearable PROVE QueueInv
<1>1. /\ publishCursor \in Nat /\ readIndex \in [Readers -> Nat] /\ readSequences \subseteq Readers
      /\ reserveCursor \in Nat /\ publishCursor <= reserveCursor
      /\ \A r \in readSequences : /\ readIndex[r] <= publishCursor
                                  /\ reserveCursor <= readIndex[r] + Size
  BY DEF IInv, TypeOK, WriterInv, ReaderInv, CapacityInv
<1>2. ASSUME NEW r \in readSequences
      PROVE  UnreadQueue(r) = Run(readIndex[r], publishCursor - readIndex[r])
  <2>1. ASSUME NEW i \in 1 .. publishCursor - readIndex[r]
        PROVE  data[Position(readIndex[r]) + i - 1] = readIndex[r] + i - 1
    <3>1. PICK j \in Nat : j = readIndex[r] + i - 1
      BY <1>1
    <3>2. readIndex[r] <= j /\ j < publishCursor
      BY <1>1, <3>1
    <3>3. Kept(j) /\ Position(readIndex[r]) + j - readIndex[r] \in {Position(j), Position(j) + Size}
      BY <3>2, ReaderIndex DEF DataInv
    <3>4. data[Position(readIndex[r]) + j - readIndex[r]] = j
      BY <3>3 DEF Kept, Keeps
    <3>5. Position(readIndex[r]) + j - readIndex[r] = Position(readIndex[r]) + i - 1
      BY <1>1, <3>1, PositionType
    <3> QED
      BY <3>1, <3>4, <3>5
  <2> QED
    BY <2>1 DEF UnreadQueue, Run
<1> QED
  BY <1>1, <1>2 DEF QueueInv

(* The queues of all readers, as the stream sees them.                     *)
Queues == [r \in Readers |-> UnreadQueue(r)]

(* Steps that move no cursor readers see are stutters of the stream.       *)
LEMMA StutterStep ==
    ASSUME QueueInv, QueueInv', UNCHANGED <<readSequences, readIndex, publishCursor>>
    PROVE  UNCHANGED Stream!vars
<1>1. \A r \in Readers : UnreadQueue(r)' = UnreadQueue(r)
  <2> SUFFICES ASSUME NEW r \in Readers PROVE UnreadQueue(r)' = UnreadQueue(r)
    OBVIOUS
  <2>1. CASE r \in readSequences
    BY <2>1 DEF QueueInv, Run
  <2>2. CASE r \notin readSequences
    BY <2>2 DEF UnreadQueue
  <2> QED
    BY <2>1, <2>2
<1> QED
  BY <1>1 DEF Stream!vars

(* A reader that moves its cursor forward consumes samples.                *)
LEMMA ConsumeStep ==
    ASSUME QueueInv, QueueInv', UNCHANGED <<readSequences, publishCursor>>,
           NEW r \in readSequences, NEW k \in Nat,
           readIndex' = [readIndex EXCEPT ![r] = readIndex[r] + k]
    PROVE  [Stream!Next]_Stream!vars
<1>1. /\ r \in Readers /\ readIndex[r] \in Nat /\ publishCursor \in Nat /\ readIndex'[r] = readIndex[r] + k
      /\ readIndex[r] + k <= publishCursor
      /\ reserveCursor <= readIndex[r] + Size
  BY DEF QueueInv
<1>2. CASE k = 0
  <2>1. readIndex' = readIndex
    BY <1>1, <1>2 DEF QueueInv
  <2> QED
    BY <2>1, StutterStep
<1>3. CASE k > 0
  <2> DEFINE n == publishCursor - readIndex[r]
  <2>1. /\ n \in Nat /\ k \in 0 .. n /\ n - k = publishCursor' - readIndex'[r]
        /\ n <= Size
    BY <1>1, RingAssumption DEF QueueInv
  <2> HIDE DEF n
  <2>2. UnreadQueue(r) = Run(readIndex[r], n) /\ Len(UnreadQueue(r)) = n
    BY <1>1, <2>1, RunIsSequence DEF QueueInv, n
  <2>3. UnreadQueue(r)' = SubSeq(UnreadQueue(r), k + 1, Len(UnreadQueue(r)))
    <3>1. PICK a \in Nat, m \in Nat : a = readIndex[r] + k /\ m = n - k
      BY <1>1, <2>1
    <3>2. a = readIndex'[r] /\ m = publishCursor' - readIndex'[r]
      BY <1>1, <2>1, <3>1
    <3>3. UnreadQueue(r)' = [i \in 1 .. m |-> a + i - 1]
      BY <3>2 DEF QueueInv, Run
    <3>4. UnreadQueue(r)' = Run(a, m)
      BY <3>3 DEF Run
    <3>5. SubSeq(Run(readIndex[r], n), k + 1, Len(Run(readIndex[r], n))) = Run(readIndex[r] + k, n - k)
      BY <1>1, <2>1, RunRest
    <3> QED
      BY <2>2, <3>1, <3>4, <3>5
  <2>4. \A q \in Readers \ {r} : UnreadQueue(q)' = UnreadQueue(q)
    <3> SUFFICES ASSUME NEW q \in Readers \ {r} PROVE UnreadQueue(q)' = UnreadQueue(q)
      OBVIOUS
    <3>1. readIndex'[q] = readIndex[q]
      BY DEF QueueInv
    <3>2. CASE q \in readSequences
      <4>1. UnreadQueue(q) = Run(readIndex[q], publishCursor - readIndex[q])
        BY <3>2, Zenon DEF QueueInv
      <4>2. UnreadQueue(q)' = Run(readIndex'[q], publishCursor' - readIndex'[q])
        BY <3>2, Zenon DEF QueueInv
      <4> QED
        BY <3>1, <4>1, <4>2, Zenon
    <3>3. CASE q \notin readSequences
      BY <3>3 DEF UnreadQueue
    <3> QED
      BY <3>2, <3>3
  <2>5. Queues' = [Queues EXCEPT ![r] = SubSeq(@, k + 1, Len(@))]
    BY <1>1, <2>3, <2>4 DEF Queues
  <2>6. k <= Len(Queues[r])
    BY <1>1, <2>1, <2>2 DEF Queues
  <2>7. Stream!Consume(r, k)
    BY <2>5, <2>6 DEF Stream!Consume, Queues
  <2>8. k \in 1 .. Size
    BY <1>3, <2>1, RingAssumption
  <2> QED
    BY <1>1, <2>7, <2>8 DEF Stream!Next
<1> QED
  BY <1>2, <1>3

(* Publishing appends the same run of samples to every queue, and there is *)
(* room for it because the reservation respected the slowest reader.       *)
LEMMA PublishStep ==
    ASSUME QueueInv, QueueInv', UNCHANGED <<readSequences, readIndex>>,
           NEW k \in 0 .. Size, publishCursor' = publishCursor + k,
           publishCursor + k <= reserveCursor
    PROVE  [Stream!Next]_Stream!vars
<1>1. publishCursor \in Nat /\ k \in Nat
  BY RingAssumption DEF QueueInv
<1>2. CASE k = 0
  <2>1. publishCursor' = publishCursor
    BY <1>1, <1>2
  <2> QED
    BY <2>1, StutterStep
<1>3. CASE k # 0
  <2>1. Stream!Fresh(k) = Run(publishCursor, k)
    BY DEF Stream!Fresh, Run
  <2>2. ASSUME NEW r \in readSequences
        PROVE  /\ r \in Readers
               /\ UnreadQueue(r)' = UnreadQueue(r) \o Stream!Fresh(k)
               /\ Len(UnreadQueue(r)) + k <= Size
    <3>1. /\ r \in Readers /\ readIndex[r] \in Nat /\ readIndex[r] <= publishCursor
          /\ reserveCursor <= readIndex[r] + Size /\ reserveCursor \in Nat
          /\ UnreadQueue(r) = Run(readIndex[r], publishCursor - readIndex[r])
      BY DEF QueueInv
    <3>2. PICK a \in Nat, n \in Nat : a = readIndex[r] /\ n = publishCursor - readIndex[r]
      BY <1>1, <3>1
    <3>3. UnreadQueue(r) = Run(a, n) /\ Len(Run(a, n)) = n
      BY <3>1, <3>2, RunIsSequence
    <3>4. a = readIndex'[r] /\ n + k = publishCursor' - readIndex'[r]
      BY <1>1, <3>1, <3>2
    <3>5. UnreadQueue(r)' = Run(a, n + k)
      BY <3>4 DEF QueueInv, Run
    <3>6. publishCursor = a + n
      BY <1>1, <3>1, <3>2
    <3>7. Run(a, n) \o Run(a + n, k) = Run(a, n + k)
      BY <1>1, RunAppend
    <3>8. UnreadQueue(r)' = UnreadQueue(r) \o Stream!Fresh(k)
      BY <2>1, <3>3, <3>5, <3>6, <3>7
    <3>9. n + k <= Size
      BY <1>1, <3>1, <3>2, RingAssumption
    <3> QED
      BY <3>1, <3>3, <3>8, <3>9
  <2>3. ASSUME NEW r \in Readers, r \notin readSequences
        PROVE  UnreadQueue(r)' = UnreadQueue(r)
    BY <2>3 DEF UnreadQueue
  <2>4. Queues' = [r \in Readers |-> IF r \in readSequences THEN Queues[r] \o Stream!Fresh(k)
                                     ELSE Queues[r]]
    BY <2>2, <2>3 DEF Queues
  <2>5. \A r \in readSequences : Len(Queues[r]) + k <= Size
    BY <2>2 DEF Queues
  <2>6. Stream!Publish(k)
    BY <2>4, <2>5 DEF Stream!Publish, Queues
  <2>7. k \in 1 .. Size
    BY <1>1, <1>3, RingAssumption
  <2> QED
    BY <2>6, <2>7 DEF Stream!Next
<1> QED
  BY <1>2, <1>3

(* A reader that is listed starts with an empty queue: its cursor is the   *)
(* publish cursor.                                                         *)
LEMMA AttachStep ==
    ASSUME QueueInv, QueueInv', UNCHANGED publishCursor,
           NEW r \in Readers, r \notin readSequences,
           readSequences' = readSequences \cup {r},
           readIndex' = [readIndex EXCEPT ![r] = publishCursor]
    PROVE  Stream!Next
<1>1. UnreadQueue(r)' = <<>>
  <2>1. PICK a \in Nat : a = publishCursor
    BY DEF QueueInv
  <2>2. readIndex'[r] = a /\ publishCursor' - readIndex'[r] = 0 /\ r \in readSequences'
    BY <2>1 DEF QueueInv
  <2>3. UnreadQueue(r)' = Run(a, 0)
    BY <2>2 DEF QueueInv, Run
  <2> QED
    BY <2>3, RunEmpty
<1>2. ASSUME NEW q \in Readers \ {r} PROVE UnreadQueue(q)' = UnreadQueue(q)
  <2>1. readIndex'[q] = readIndex[q] /\ (q \in readSequences' <=> q \in readSequences)
    BY DEF QueueInv
  <2>2. CASE q \in readSequences
    <3>1. UnreadQueue(q) = Run(readIndex[q], publishCursor - readIndex[q])
      BY <2>2, Zenon DEF QueueInv
    <3>2. UnreadQueue(q)' = Run(readIndex'[q], publishCursor' - readIndex'[q])
      BY <2>1, <2>2, Zenon DEF QueueInv
    <3> QED
      BY <2>1, <3>1, <3>2, Zenon
  <2>3. CASE q \notin readSequences
    BY <2>1, <2>3 DEF UnreadQueue
  <2> QED
    BY <2>2, <2>3
<1>3. Queues' = [Queues EXCEPT ![r] = <<>>]
  BY <1>1, <1>2 DEF Queues
<1>4. Stream!Attach(r)
  BY <1>3 DEF Stream!Attach, Queues
<1> QED
  BY <1>4 DEF Stream!Next

(* A reader that leaves the list takes its queue with it.                  *)
LEMMA DetachStep ==
    ASSUME QueueInv, QueueInv', UNCHANGED <<publishCursor, readIndex>>,
           NEW r \in readSequences, readSequences' = readSequences \ {r}
    PROVE  Stream!Next
<1>1. UnreadQueue(r)' = <<>>
  BY DEF UnreadQueue
<1>2. ASSUME NEW q \in Readers \ {r} PROVE UnreadQueue(q)' = UnreadQueue(q)
  <2>1. q \in readSequences' <=> q \in readSequences
    OBVIOUS
  <2>2. CASE q \in readSequences
    <3>1. UnreadQueue(q) = Run(readIndex[q], publishCursor - readIndex[q])
      BY <2>2, Zenon DEF QueueInv
    <3>2. UnreadQueue(q)' = Run(readIndex'[q], publishCursor' - readIndex'[q])
      BY <2>1, <2>2, Zenon DEF QueueInv
    <3> QED
      BY <2>1, <3>1, <3>2, Zenon
  <2>3. CASE q \notin readSequences
    BY <2>1, <2>3 DEF UnreadQueue
  <2> QED
    BY <2>2, <2>3
<1>3. r \in Readers
  BY DEF QueueInv
<1>4. Queues' = [Queues EXCEPT ![r] = <<>>]
  BY <1>1, <1>2, <1>3 DEF Queues
<1>5. Stream!Detach(r)
  BY <1>4 DEF Stream!Detach, Queues
<1> QED
  BY <1>3, <1>5 DEF Stream!Next

(* Initially nobody is attached and every queue is empty.                  *)
LEMMA StreamInit == Init => Stream!Init
BY DEF Init, Stream!Init, UnreadQueue

(* Each step of the ring is a step of the stream or leaves it alone: only  *)
(* the release of a span and the ends of a reader's life are steps of it.  *)
LEMMA StreamStep ==
    ASSUME IInv, QueueInv, QueueInv', [Next]_vars
    PROVE  [Stream!Next]_Stream!vars
<1> USE DEF strategyVars, listVars, storeVars, callVars, scanVars, spanVars, readerVars, writerVars
<1> DEFINE Implemented == [Stream!Next]_Stream!vars
<1> HIDE DEF Implemented
<1>1. ASSUME UNCHANGED <<readSequences, readIndex, publishCursor>> PROVE Implemented
  BY <1>1, StutterStep DEF Implemented
<1>2. ASSUME NEW n \in 0..Size, NEW blocking \in BOOLEAN, BeginReserve(n, blocking) PROVE Implemented
  BY <1>1, <1>2 DEF BeginReserve
<1>3. ASSUME HouseKeeping PROVE Implemented
  BY <1>1, <1>3 DEF HouseKeeping
<1>4. ASSUME LoadGeneration PROVE Implemented
  BY <1>1, <1>4 DEF LoadGeneration
<1>5. ASSUME LoadList PROVE Implemented
  BY <1>1, <1>5 DEF LoadList
<1>6. ASSUME NEW r \in Readers, ScanReader(r) PROVE Implemented
  BY <1>1, <1>6 DEF ScanReader
<1>7. ASSUME CheckPressure PROVE Implemented
  BY <1>1, <1>7 DEF CheckPressure
<1>8. ASSUME ReclaimBehindReader PROVE Implemented
  BY <1>1, <1>8 DEF ReclaimBehindReader
<1>9. ASSUME Claim PROVE Implemented
  BY <1>1, <1>9 DEF Claim
<1>10. ASSUME NoRoom PROVE Implemented
  BY <1>1, <1>10 DEF NoRoom
<1>11. ASSUME WriteSamples PROVE Implemented
  BY <1>1, <1>11 DEF WriteSamples
<1>12. ASSUME NEW k \in 0..Size, ReleaseWriterSpan(k) PROVE Implemented
  <2>1. /\ publishCursor' = publishCursor + k /\ publishCursor + k <= reserveCursor
        /\ UNCHANGED <<readSequences, readIndex>>
    BY <1>12 DEF ReleaseWriterSpan, IInv, TypeOK, WriterInv
  <2> QED
    BY <2>1, PublishStep DEF Implemented
<1>13. ASSUME NEW r \in Readers, AddSequence(r) PROVE Implemented
  <2>1. /\ readSequences' = readSequences \cup {r} /\ r \notin readSequences
        /\ readIndex' = [readIndex EXCEPT ![r] = publishCursor] /\ UNCHANGED publishCursor
    BY <1>13 DEF AddSequence, ReaderStep, IInv, TypeOK, ReaderInv, Listed
  <2> QED
    BY <2>1, AttachStep DEF Implemented
<1>14. ASSUME NEW r \in Readers, RereadCursor(r) PROVE Implemented
  BY <1>1, <1>14 DEF RereadCursor, ReaderStep
<1>15. ASSUME NEW r \in Readers, SetReadIndex(r) PROVE Implemented
  <2>1. /\ r \in readSequences /\ readIndexCached[r] - readIndex[r] \in Nat
        /\ readIndex[r] + (readIndexCached[r] - readIndex[r]) = readIndexCached[r]
    BY <1>15 DEF SetReadIndex, ReaderStep, IInv, TypeOK, ReaderInv, Listed
  <2>2. PICK k \in Nat : readIndex[r] + k = readIndexCached[r]
    BY <2>1
  <2>3. readIndex' = [readIndex EXCEPT ![r] = readIndex[r] + k] /\ UNCHANGED <<readSequences, publishCursor>>
    BY <1>15, <2>2 DEF SetReadIndex
  <2> QED
    BY <2>1, <2>3, ConsumeStep DEF Implemented
<1>16. ASSUME NEW r \in Readers, InvalidateReaderCache(r) PROVE Implemented
  BY <1>1, <1>16 DEF InvalidateReaderCache, ReaderStep
<1>17. ASSUME NEW r \in Readers, NEW n \in 0..Size, Get(r, n) PROVE Implemented
  BY <1>1, <1>17 DEF Get
<1>18. ASSUME NEW r \in Readers, NEW n \in 0..Size, TryConsume(r, n) PROVE Implemented
  BY <1>1, <1>18 DEF TryConsume
<1>19. ASSUME NEW r \in Readers, NEW policy \in ReleasePolicies, ReleaseReaderSpan(r, policy) PROVE Implemented
  <2>1. r \in readSequences /\ readIndexCached[r] = readIndex[r] /\ consumeReq[r] \in Nat /\ firstGet[r] \in Nat
    BY <1>19 DEF ReleaseReaderSpan, IInv, TypeOK, ReaderInv, Listed
  <2>2. CASE spans[r] > 1
    BY <1>1, <1>19, <2>2 DEF ReleaseReaderSpan
  <2>3. CASE ~ (spans[r] > 1)
    <3>1. PICK k \in Nat : k = IF consumeReq[r] # SizeMax THEN consumeReq[r]
                               ELSE IF policy = "ProcessAll" THEN firstGet[r] ELSE 0
      BY <2>1
    <3>2. /\ readIndex' = [readIndex EXCEPT ![r] = readIndex[r] + k]
          /\ UNCHANGED <<readSequences, publishCursor>>
      BY <1>19, <2>1, <2>3, <3>1 DEF ReleaseReaderSpan
    <3> QED
      BY <2>1, <3>2, ConsumeStep DEF Implemented
  <2> QED
    BY <2>2, <2>3
<1>20. ASSUME NEW r \in Readers, RemoveSequence(r) PROVE Implemented
  <2>1. /\ r \in readSequences /\ readSequences' = readSequences \ {r}
        /\ UNCHANGED <<publishCursor, readIndex>>
    BY <1>20 DEF RemoveSequence, ReaderStep, IInv, TypeOK, ReaderInv, Listed
  <2> QED
    BY <2>1, DetachStep DEF Implemented
<1>21. ASSUME NEW r \in Readers, InvalidateAfterRemove(r) PROVE Implemented
  BY <1>1, <1>21 DEF InvalidateAfterRemove, ReaderStep
<1>22. ASSUME UNCHANGED vars PROVE Implemented
  BY <1>1, <1>22 DEF vars
<1>23. Implemented
  BY <1>2, <1>3, <1>4, <1>5, <1>6, <1>7, <1>8, <1>9, <1>10, <1>11, <1>12, <1>13, <1>14, <1>15, <1>16, <1>17, <1>18, <1>19, <1>20, <1>21, <1>22 DEF Next, Writer, WriterCall, Reader, Construct
<1> QED
  BY <1>23 DEF Implemented

(* What the ring promises its readers: in memory whose slots are never     *)
(* reclaimed, each reader sees the whole stream in order, from the sample  *)
(* published after it was listed, and a slow reader holds the writer back  *)
(* (qa_buffer.cpp's single-producer tests), provided that readers are      *)
(* constructed only between the calls of the writer.                       *)
THEOREM ImplementsBroadcast ==
    ASSUME Quiesced, ~Clearable PROVE Spec => ImplementsStream
<1>1. Spec => Stream!Init
  BY StreamInit DEF Spec
<1>2. IInv /\ DataInv => QueueInv
  BY QueueIsRun
<1>3. IInv /\ QueueInv /\ QueueInv' /\ [Next]_vars => [Stream!Next]_Stream!vars
  BY StreamStep
<1>4. Spec => [](IInv /\ DataInv)
  BY InductiveData
<1>5. Spec => [][Next]_vars
  BY DEF Spec
<1> QED
  BY <1>1, <1>2, <1>3, <1>4, <1>5, PTL DEF ImplementsStream, Stream!Spec
=============================================================================
