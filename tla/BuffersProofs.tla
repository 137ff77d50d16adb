---------------------------- MODULE BuffersProofs ----------------------------
(***************************************************************************)
(* What is proved of the three buffers of MCBuffers, for every number of   *)
(* writers and readers and every capacity.                                 *)
(* Ring: writers never share a slot and never write one that is to be      *)
(* read, readers find what was written, and no mark is lost, with stores   *)
(* that other cores see late, as long as positions do not come near 2^w    *)
(* (NoWrap), where the arithmetic of the capacity check would wrap around. *)
(* Chunks: a waiting blob lies in the head, which was last written for it  *)
(* or a later one, or in a sealed chunk whose threshold is beyond it; the  *)
(* housekeeper releases neither below the minimum that it has read, and    *)
(* what it releases is nobody else's.                                      *)
(* History: the first half of the memory is right everywhere, the mirror   *)
(* from the dirty count on.                                                *)
(***************************************************************************)
EXTENDS MCBuffers, SequenceTheorems, FiniteSetTheorems, WellFoundedInduction, TLAPS

-----------------------------------------------------------------------------
(***************************************************************************)
(* The ring of several writers                                             *)
(*                                                                         *)
(* Everything the writers and readers still need lies in one window of     *)
(* Size positions, from the slowest reader's to the reserve cursor; within *)
(* it a slot stands for one position.  The invariant says of each position *)
(* from the publish cursor to the reserve cursor that it is either open in *)
(* one writer's span, or written and marked, and that a mark is visible to *)
(* everyone or in one store buffer, never overtaken by the publish cursor  *)
(* while it is there.                                                      *)
(***************************************************************************)
(* Positions are well below 2^w.                                           *)
NoWrap == reserveCursor + Size < WordMod

Scanning == {"advance", "casPublish"}

(* The cursors are in order, and the hint is never ahead of a reader.      *)
CursorInv ==
    /\ publishCursor <= reserveCursor
    /\ \A r \in Readers :
        /\ readIndex[r] <= publishCursor
        /\ reserveCursor <= readIndex[r] + Size
        /\ cachedMin <= readIndex[r]

(* What a writer has found out about the readers stays true of them.       *)
ClaimInv ==
    \A p \in Producers :
        /\ toScan[p] \subseteq Readers
        /\ pc[p] = "scan" => \A r \in Readers \ toScan[p] : freshMin[p] <= readIndex[r]
        /\ pc[p] = "cas" => \A r \in Readers : current[p] + need[p] <= readIndex[r] + Size

(* Open positions lie between the cursors, each in one span; those a       *)
(* writer is about to mark are written.                                    *)
SpanInv ==
    \A p \in Producers :
        /\ pc[p] = "mark" => ahead[p] <= offset[p] + span[p]
        /\ \A j \in Reserved(p) :
            /\ publishCursor <= j /\ j < reserveCursor
            /\ pc[p] = "mark" => data[Index(j)] = j
            /\ \A q \in Producers : q # p => j \notin Reserved(q)

(* A mark of a position that is not published yet says the truth.          *)
Complete(seq) ==
    /\ seq < reserveCursor
    /\ publishCursor <= seq =>
        /\ data[Index(seq)] = seq
        /\ \A p \in Producers : seq \notin Reserved(p)

MarkInv ==
    /\ \A i \in Slots : available[i] = SizeMax \/ (Index(available[i]) = i /\ Complete(available[i]))
    /\ \A p \in Producers : \A k \in DOMAIN pending[p] :
        /\ publishCursor <= pending[p][k]
        /\ Complete(pending[p][k])
        /\ available[Index(pending[p][k])] # pending[p][k]
        /\ \A q \in Producers : \A l \in DOMAIN pending[q] :
                pending[p][k] = pending[q][l] => p = q /\ k = l

(* What a writer has scanned is marked, if the cursor has not moved.       *)
ScanInv ==
    \A p \in Producers : pc[p] \in Scanning =>
        /\ current[p] <= publishCursor
        /\ current[p] <= ahead[p] /\ ahead[p] <= current[p] + Size
        /\ current[p] = publishCursor => \A j \in current[p] .. ahead[p] - 1 : SeenBy(p, j)

(* What the readers have not consumed is as it was written.                *)
ReadInv == \A r \in Readers : \A j \in readIndex[r] .. publishCursor - 1 : data[Index(j)] = j

(* Nothing between the cursors is forgotten.                               *)
NoneForgotten ==
    \A j \in publishCursor .. reserveCursor - 1 :
        \/ \E p \in Producers : j \in Reserved(p) \/ \E k \in DOMAIN pending[p] : pending[p][k] = j
        \/ available[Index(j)] = j

IInv == TypeOK /\ CursorInv /\ ClaimInv /\ SpanInv /\ MarkInv /\ ScanInv /\ ReadInv /\ NoneForgotten
-----------------------------------------------------------------------------
(* Slots and positions *)

(* calculateIndex() yields a slot.                                         *)
LEMMA IndexType == \A j \in Nat : Index(j) \in Slots
BY MultiRingAssumption DEF Index, Slots

(* Every position is some number of turns around the ring and a slot.      *)
LEMMA Division ==
    ASSUME NEW a \in Nat
    PROVE  \E q \in Nat : a = Size * q + Index(a)
<1>1. a \div Size \in Nat /\ a = Size * (a \div Size) + Index(a)
  BY MultiRingAssumption, SMTT(30) DEF Index
<1> QED
  BY <1>1, Zenon

(* One turn more is at least Size positions more.                          *)
LEMMA Products ==
    ASSUME NEW n \in Nat \ {0}, NEW p \in Nat, NEW q \in Nat
    PROVE  /\ n * p \in Nat /\ n * q \in Nat
           /\ p < q => n * q >= n * p + n
OBVIOUS

(* Positions less than Size apart have slots of their own.                 *)
LEMMA SlotsDiffer ==
    ASSUME NEW a \in Nat, NEW b \in Nat, a < b, b < a + Size
    PROVE  Index(a) # Index(b)
<1>1. PICK p \in Nat : a = Size * p + Index(a)
  BY Division
<1>2. PICK q \in Nat : b = Size * q + Index(b)
  BY Division
<1>3. Size \in Nat \ {0} /\ Index(a) \in 0 .. Size - 1 /\ Index(b) \in 0 .. Size - 1
  BY IndexType, MultiRingAssumption DEF Slots
<1>4. Size * p \in Nat /\ Size * q \in Nat
  BY <1>3, Products
<1>5. p = q \/ Size * q >= Size * p + Size \/ Size * p >= Size * q + Size
  BY <1>3, Products
<1> QED
  BY <1>1, <1>2, <1>3, <1>4, <1>5

(* Within a window of Size positions a slot stands for one position.       *)
LEMMA OneSlotEach ==
    ASSUME NEW low \in Nat, NEW a \in Nat, NEW b \in Nat,
           low <= a, a < low + Size, low <= b, b < low + Size, Index(a) = Index(b)
    PROVE  a = b
<1>1. Size \in Nat
  BY MultiRingAssumption
<1>2. ~ (a < b) /\ ~ (b < a)
  BY <1>1, SlotsDiffer
<1> QED
  BY <1>2

(* The last position of the word is behind all that are scanned.           *)
LEMMA SizeMaxType == SizeMax \in Nat /\ (NoWrap /\ reserveCursor \in Nat => reserveCursor + Size <= SizeMax)
BY MultiRingAssumption DEF SizeMax, NoWrap
-----------------------------------------------------------------------------
(* Types, cursors and claims *)

(* Every step keeps the types.                                             *)
LEMMA TypeOKStep == ASSUME IInv, [Next]_vars PROVE TypeOK'
<1> USE MultiRingAssumption, SizeMaxType DEF TypeOK, IInv, claimVars, spanVars, slotVars, Goto, Branch
<1>1. ASSUME NEW p \in Producers, NEW n \in 1 .. Size, NEW b \in BOOLEAN, BeginReserve(p, n, b) PROVE TypeOK'
  BY <1>1 DEF BeginReserve
<1>2. ASSUME NEW p \in Producers, LoadReserve(p) PROVE TypeOK'
  BY <1>2 DEF LoadReserve
<1>3. ASSUME NEW p \in Producers, CheckCached(p) PROVE TypeOK'
  BY <1>3 DEF CheckCached
<1>4. ASSUME NEW p \in Producers, NEW r \in Readers, ScanReader(p, r) PROVE TypeOK'
  BY <1>4 DEF ScanReader, Min2
<1>5. ASSUME NEW p \in Producers, StoreCached(p) PROVE TypeOK'
  BY <1>5 DEF StoreCached
<1>6. ASSUME NEW p \in Producers, CasReserve(p) PROVE TypeOK'
  <2>1. CASE reserveCursor = current[p]
    <3>1. /\ pc' = [pc EXCEPT ![p] = "span"] /\ reserveCursor' = current[p] + need[p]
          /\ offset' = [offset EXCEPT ![p] = current[p]] /\ span' = [span EXCEPT ![p] = need[p]]
      BY <1>6, <2>1 DEF CasReserve
    <3>2. UNCHANGED <<publishCursor, cachedMin, available, pending, data, readIndex, current, ahead,
                      need, blocking, toScan, freshMin>>
      BY <1>6, <2>1 DEF CasReserve
    <3>3. current[p] \in Nat /\ need[p] \in Nat /\ current[p] + need[p] \in Nat
      OBVIOUS
    <3>4. /\ reserveCursor' \in Nat /\ offset' \in [Producers -> Nat] /\ span' \in [Producers -> Nat]
      BY <3>1, <3>3
    <3>5. pc' \in [Producers -> {"idle", "load", "check", "scan", "cas", "span", "mark",
                                "reload", "advance", "casPublish"}]
      BY <3>1
    <3> QED
      BY <3>2, <3>4, <3>5
  <2>2. CASE reserveCursor # current[p]
    BY <1>6, <2>2 DEF CasReserve
  <2> QED
    BY <2>1, <2>2
<1>7. ASSUME NEW p \in Producers, WriteSamples(p) PROVE TypeOK'
  BY <1>7, SMTT(60) DEF WriteSamples
<1>8. ASSUME NEW p \in Producers, MarkSlot(p) PROVE TypeOK'
  <2>1. ahead[p] \in Nat /\ pending[p] \in Seq(Nat)
    OBVIOUS
  <2>2. Append(pending[p], ahead[p]) \in Seq(Nat)
    BY <2>1, AppendProperties
  <2>3. CASE StoreBuffers
    <3>1. /\ pending' = [pending EXCEPT ![p] = Append(pending[p], ahead[p])]
          /\ ahead' = [ahead EXCEPT ![p] = ahead[p] + 1]
      BY <1>8, <2>3 DEF MarkSlot
    <3>2. UNCHANGED <<reserveCursor, publishCursor, cachedMin, available, data, readIndex, pc,
                      current, need, blocking, toScan, freshMin, offset, span>>
      BY <1>8, <2>3 DEF MarkSlot
    <3>3. pending' \in [Producers -> Seq(Nat)] /\ ahead' \in [Producers -> Nat]
      BY <2>1, <2>2, <3>1
    <3> QED
      BY <3>2, <3>3
  <2>4. CASE ~StoreBuffers
    <3>1. /\ available' = [available EXCEPT ![Index(ahead[p])] = ahead[p]]
          /\ ahead' = [ahead EXCEPT ![p] = ahead[p] + 1]
      BY <1>8, <2>4 DEF MarkSlot
    <3>2. UNCHANGED <<reserveCursor, publishCursor, cachedMin, pending, data, readIndex, pc,
                      current, need, blocking, toScan, freshMin, offset, span>>
      BY <1>8, <2>4 DEF MarkSlot
    <3>3. available' \in [Slots -> Nat]
      BY <2>1, <3>1
    <3>4. ahead' \in [Producers -> Nat]
      BY <2>1, <3>1
    <3> QED
      BY <3>2, <3>3, <3>4
  <2> QED
    BY <2>3, <2>4
<1>9. ASSUME NEW p \in Producers, DrainMark(p) PROVE TypeOK'
  <2>1. pending[p] \in Seq(Nat) /\ pending[p] # <<>>
    BY <1>9 DEF DrainMark
  <2>2. Head(pending[p]) \in Nat /\ Tail(pending[p]) \in Seq(Nat)
    BY <2>1, HeadTailProperties
  <2>3. /\ available' = [available EXCEPT ![Index(Head(pending[p]))] = Head(pending[p])]
        /\ pending' = [pending EXCEPT ![p] = Tail(pending[p])]
    BY <1>9 DEF DrainMark
  <2>4. UNCHANGED <<reserveCursor, publishCursor, cachedMin, data, readIndex, pc, current, ahead,
                    need, blocking, toScan, freshMin, offset, span>>
    BY <1>9 DEF DrainMark
  <2> QED
    BY <2>2, <2>3, <2>4
<1>10. ASSUME NEW p \in Producers, LoadPublish(p) PROVE TypeOK'
  BY <1>10 DEF LoadPublish
<1>11. ASSUME NEW p \in Producers, ScanAvailable(p) PROVE TypeOK'
  BY <1>11, SMTT(60) DEF ScanAvailable
<1>12. ASSUME NEW p \in Producers, LeaveToOthers(p) PROVE TypeOK'
  BY <1>12 DEF LeaveToOthers
<1>13. ASSUME NEW p \in Producers, EndRun(p) PROVE TypeOK'
  BY <1>13 DEF EndRun
<1>14. ASSUME NEW p \in Producers, CasPublish(p) PROVE TypeOK'
  <2>1. CASE publishCursor = current[p]
    <3>1. /\ pc' = [pc EXCEPT ![p] = "idle"] /\ publishCursor' = ahead[p]
          /\ span' = [span EXCEPT ![p] = 0]
      BY <1>14, <2>1 DEF CasPublish
    <3>2. UNCHANGED <<reserveCursor, cachedMin, available, pending, data, readIndex, current, ahead,
                      need, blocking, toScan, freshMin, offset>>
      BY <1>14, <2>1 DEF CasPublish
    <3> QED
      BY <3>1, <3>2
  <2>2. CASE publishCursor # current[p]
    BY <1>14, <2>2 DEF CasPublish
  <2> QED
    BY <2>1, <2>2
<1>15. ASSUME NEW r \in Readers, NEW n \in 1 .. Size, Consume(r, n) PROVE TypeOK'
  BY <1>15 DEF Consume
<1>16. CASE UNCHANGED vars
  BY <1>16 DEF vars
<1> QED
  BY <1>1, <1>2, <1>3, <1>4, <1>5, <1>6, <1>7, <1>8, <1>9, <1>10, <1>11, <1>12, <1>13, <1>14, <1>15, <1>16
  DEF Next, Producer, Reserving, Publishing

(* Room is room: without a wrap-around, the check against a lower bound of *)
(* the readers' cursors says that the reservation fits.                    *)
LEMMA RoomIsRoom ==
    ASSUME TypeOK, CursorInv, NoWrap, NEW p \in Producers, NEW r \in Readers,
           NEW low \in Nat, low <= readIndex[r], ~NoRoomFor(p, low)
    PROVE  current[p] + need[p] <= readIndex[r] + Size
<1>1. /\ current[p] \in Nat /\ need[p] \in Nat /\ readIndex[r] \in Nat /\ reserveCursor \in Nat
      /\ publishCursor \in Nat
      /\ Size \in Nat \ {0} /\ WordMod \in Nat
  BY MultiRingAssumption DEF TypeOK
<1>2. readIndex[r] <= publishCursor /\ publishCursor <= reserveCursor /\ reserveCursor + Size < WordMod
  BY DEF CursorInv, NoWrap
<1>3. PICK a \in Nat : a = current[p] + need[p]
  BY <1>1
<1>4. (IF a >= low THEN a - low ELSE a - low + WordMod) <= Size
  BY <1>1, <1>3 DEF NoRoomFor, SubWord
<1> QED
  BY <1>1, <1>2, <1>3, <1>4

(* What a writer sees marked, at the publish cursor or after, is complete. *)
LEMMA SeenIsComplete ==
    ASSUME TypeOK, CursorInv, MarkInv, NoWrap, NEW p \in Producers, NEW j \in Nat,
           publishCursor <= j, j < publishCursor + Size, SeenBy(p, j)
    PROVE  Complete(j)
<1>1. j # SizeMax
  BY MultiRingAssumption DEF TypeOK, CursorInv, SizeMax, NoWrap
<1>2. Index(j) \in Slots
  BY IndexType
<1> QED
  BY <1>1, <1>2 DEF SeenBy, MarkInv

(* The compare-and-set on the publish cursor moves it past complete        *)
(* positions that everyone sees marked.                                    *)
LEMMA PublishedIsComplete ==
    ASSUME TypeOK, CursorInv, MarkInv, ScanInv, NoWrap, NEW p \in Producers,
           CasPublish(p), publishCursor = current[p]
    PROVE  /\ publishCursor' = ahead[p] /\ publishCursor <= ahead[p] /\ ahead[p] <= reserveCursor
           /\ \A j \in publishCursor .. ahead[p] - 1 : available[Index(j)] = j /\ Complete(j)
<1>1. /\ pc[p] = "casPublish" /\ publishCursor' = ahead[p] /\ pending[p] = <<>>
  BY DEF CasPublish, Branch, Goto
<1>2. /\ current[p] \in Nat /\ ahead[p] \in Nat /\ publishCursor \in Nat /\ reserveCursor \in Nat
      /\ Size \in Nat
      /\ publishCursor <= ahead[p] /\ ahead[p] <= publishCursor + Size
      /\ publishCursor <= reserveCursor
  BY <1>1, MultiRingAssumption DEF TypeOK, ScanInv, Scanning, CursorInv
<1>3. ASSUME NEW j \in publishCursor .. ahead[p] - 1
      PROVE  available[Index(j)] = j /\ Complete(j)
  <2>1. SeenBy(p, j)
    BY <1>1 DEF ScanInv, Scanning
  <2>2. j \in Nat /\ publishCursor <= j /\ j < publishCursor + Size
    BY <1>2
  <2>3. Complete(j)
    BY <2>1, <2>2, SeenIsComplete
  <2> QED
    BY <1>1, <2>1, <2>3 DEF SeenBy
<1>4. ahead[p] <= reserveCursor
  <2>1. CASE ahead[p] = publishCursor
    BY <1>2, <2>1
  <2>2. CASE ahead[p] # publishCursor
    <3>1. ahead[p] - 1 \in publishCursor .. ahead[p] - 1
      BY <1>2, <2>2
    <3>2. ahead[p] - 1 < reserveCursor
      BY <1>3, <3>1 DEF Complete
    <3> QED
      BY <1>2, <3>2
  <2> QED
    BY <2>1, <2>2
<1> QED
  BY <1>1, <1>2, <1>3, <1>4

(* The cursors stay in order.                                              *)
LEMMA CursorStep == ASSUME IInv, NoWrap, [Next]_vars PROVE CursorInv'
<1> USE MultiRingAssumption DEF TypeOK, IInv, CursorInv, claimVars, spanVars, slotVars
<1>1. ASSUME NEW p \in Producers,
             \/ \E n \in 1 .. Size, b \in BOOLEAN : BeginReserve(p, n, b)
             \/ LoadReserve(p) \/ CheckCached(p) \/ \E r \in Readers : ScanReader(p, r)
             \/ WriteSamples(p) \/ MarkSlot(p) \/ DrainMark(p) \/ LoadPublish(p) \/ ScanAvailable(p)
             \/ LeaveToOthers(p) \/ EndRun(p)
      PROVE  CursorInv'
  <2>1. UNCHANGED <<reserveCursor, publishCursor, cachedMin, readIndex>>
    BY <1>1 DEF BeginReserve, LoadReserve, CheckCached, ScanReader, WriteSamples, MarkSlot, DrainMark,
       LoadPublish, ScanAvailable, LeaveToOthers, EndRun
  <2> QED
    BY <2>1
<1>2. ASSUME NEW p \in Producers, StoreCached(p) PROVE CursorInv'
  <2>1. \A r \in Readers : freshMin[p] <= readIndex[r]
    BY <1>2 DEF StoreCached, Branch, Goto, ClaimInv
  <2> QED
    BY <1>2, <2>1 DEF StoreCached
<1>3. ASSUME NEW p \in Producers, CasReserve(p) PROVE CursorInv'
  <2>1. UNCHANGED <<publishCursor, cachedMin, readIndex>>
    BY <1>3 DEF CasReserve
  <2>2. CASE reserveCursor = current[p]
    <3>1. \A r \in Readers : current[p] + need[p] <= readIndex[r] + Size
      BY <1>3 DEF CasReserve, Branch, Goto, ClaimInv
    <3>2. reserveCursor' = reserveCursor + need[p] /\ need[p] \in Nat /\ reserveCursor \in Nat
      BY <1>3, <2>2 DEF CasReserve
    <3> QED
      BY <2>1, <2>2, <3>1, <3>2
  <2>3. CASE reserveCursor # current[p]
    BY <1>3, <2>1, <2>3 DEF CasReserve
  <2> QED
    BY <2>2, <2>3
<1>4. ASSUME NEW p \in Producers, CasPublish(p) PROVE CursorInv'
  <2>1. UNCHANGED <<reserveCursor, cachedMin, readIndex>>
    BY <1>4 DEF CasPublish
  <2>2. CASE publishCursor = current[p]
    <3>1. publishCursor' = ahead[p] /\ publishCursor <= ahead[p] /\ ahead[p] <= reserveCursor
      BY <1>4, <2>2, PublishedIsComplete
    <3> QED
      BY <2>1, <3>1
  <2>3. CASE publishCursor # current[p]
    BY <1>4, <2>1, <2>3 DEF CasPublish
  <2> QED
    BY <2>2, <2>3
<1>5. ASSUME NEW r \in Readers, NEW n \in 1 .. Size, Consume(r, n) PROVE CursorInv'
  BY <1>5 DEF Consume
<1>6. CASE UNCHANGED vars
  BY <1>6 DEF vars
<1> QED
  BY <1>1, <1>2, <1>3, <1>4, <1>5, <1>6 DEF Next, Producer, Reserving, Publishing

(* What is known of the readers stays true, since their cursors only grow. *)
LEMMA ClaimStep == ASSUME IInv, NoWrap, [Next]_vars PROVE ClaimInv'
<1> USE MultiRingAssumption DEF TypeOK, IInv, ClaimInv, claimVars, spanVars, slotVars, Goto, Branch
<1>1. ASSUME NEW p \in Producers, NEW n \in 1 .. Size, NEW b \in BOOLEAN, BeginReserve(p, n, b) PROVE ClaimInv'
  BY <1>1 DEF BeginReserve
<1>2. ASSUME NEW p \in Producers, LoadReserve(p) PROVE ClaimInv'
  BY <1>2 DEF LoadReserve
<1>3. ASSUME NEW p \in Producers, CheckCached(p) PROVE ClaimInv'
  <2>1. pc'[p] = "cas" => \A r \in Readers : current[p] + need[p] <= readIndex[r] + Size
    <3> SUFFICES ASSUME pc'[p] = "cas", NEW r \in Readers
                 PROVE  current[p] + need[p] <= readIndex[r] + Size
      OBVIOUS
    <3>1. ~NoRoomFor(p, cachedMin)
      BY <1>3 DEF CheckCached
    <3>2. cachedMin \in Nat /\ cachedMin <= readIndex[r]
      BY DEF CursorInv
    <3> QED
      BY <3>1, <3>2, RoomIsRoom
  <2> QED
    BY <1>3, <2>1 DEF CheckCached
<1>4. ASSUME NEW p \in Producers, NEW r \in Readers, ScanReader(p, r) PROVE ClaimInv'
  BY <1>4, SMTT(60) DEF ScanReader, Min2
<1>5. ASSUME NEW p \in Producers, StoreCached(p) PROVE ClaimInv'
  <2>1. pc'[p] = "cas" => \A r \in Readers : current[p] + need[p] <= readIndex[r] + Size
    <3> SUFFICES ASSUME pc'[p] = "cas", NEW r \in Readers
                 PROVE  current[p] + need[p] <= readIndex[r] + Size
      OBVIOUS
    <3>1. ~NoRoomFor(p, freshMin[p]) /\ pc[p] = "scan" /\ toScan[p] = {}
      BY <1>5 DEF StoreCached
    <3>2. freshMin[p] \in Nat /\ freshMin[p] <= readIndex[r]
      BY <3>1
    <3> QED
      BY <3>1, <3>2, RoomIsRoom
  <2> QED
    BY <1>5, <2>1 DEF StoreCached
<1>6. ASSUME NEW p \in Producers, CasReserve(p) PROVE ClaimInv'
  BY <1>6 DEF CasReserve
<1>7. ASSUME NEW p \in Producers,
             \/ WriteSamples(p) \/ MarkSlot(p) \/ DrainMark(p) \/ EndRun(p) \/ CasPublish(p)
             \/ ScanAvailable(p) \/ LeaveToOthers(p)
      PROVE  ClaimInv'
  <2>1. /\ UNCHANGED <<toScan, freshMin, current, need, readIndex>>
        /\ \A q \in Producers : pc'[q] \in {"scan", "cas"} => pc'[q] = pc[q]
    BY <1>7 DEF WriteSamples, MarkSlot, DrainMark, EndRun, CasPublish, ScanAvailable, LeaveToOthers
  <2> QED
    BY <2>1
<1>8. ASSUME NEW p \in Producers, LoadPublish(p) PROVE ClaimInv'
  BY <1>8 DEF LoadPublish
<1>9. ASSUME NEW r \in Readers, NEW n \in 1 .. Size, Consume(r, n) PROVE ClaimInv'
  <2>1. \A q \in Readers : readIndex'[q] \in Nat /\ readIndex[q] <= readIndex'[q]
    BY <1>9 DEF Consume
  <2>2. UNCHANGED <<toScan, freshMin, current, need, pc>>
    BY <1>9 DEF Consume
  <2> QED
    BY <2>1, <2>2, SMTT(60)
<1>10. CASE UNCHANGED vars
  BY <1>10 DEF vars
<1> QED
  BY <1>1, <1>2, <1>3, <1>4, <1>5, <1>6, <1>7, <1>8, <1>9, <1>10 DEF Next, Producer, Reserving, Publishing
-----------------------------------------------------------------------------
(* Spans, marks and memory *)

(* What spans and memory hold together.                                    *)
MemoryInv == SpanInv /\ MarkInv /\ ReadInv /\ NoneForgotten

(* Steps between which no span, mark, sample or cursor changes.            *)
Quiet ==
    /\ UNCHANGED <<reserveCursor, publishCursor, available, pending, data, readIndex>>
    /\ \A q \in Producers :
        /\ Reserved(q)' = Reserved(q)
        /\ pc'[q] = "mark" => pc[q] = "mark" /\ ahead'[q] = ahead[q]
                              /\ offset'[q] = offset[q] /\ span'[q] = span[q]

(* Calls that reserve, scan or give up are quiet.                          *)
LEMMA QuietSteps ==
    ASSUME IInv, NEW p \in Producers,
           \/ \E n \in 1 .. Size, b \in BOOLEAN : BeginReserve(p, n, b)
           \/ LoadReserve(p) \/ CheckCached(p) \/ (\E r \in Readers : ScanReader(p, r)) \/ StoreCached(p)
           \/ CasReserve(p) /\ reserveCursor # current[p]
           \/ LoadPublish(p) \/ ScanAvailable(p) \/ LeaveToOthers(p) \/ EndRun(p)
           \/ CasPublish(p) /\ publishCursor # current[p]
    PROVE  Quiet
<1> USE DEF IInv, TypeOK, Quiet, Reserved, Goto, Branch, claimVars, spanVars, slotVars
<1>1. ASSUME NEW n \in 1 .. Size, NEW b \in BOOLEAN, BeginReserve(p, n, b) PROVE Quiet
  BY <1>1 DEF BeginReserve
<1>2. CASE LoadReserve(p)
  BY <1>2 DEF LoadReserve
<1>3. CASE CheckCached(p)
  BY <1>3 DEF CheckCached
<1>4. ASSUME NEW r \in Readers, ScanReader(p, r) PROVE Quiet
  BY <1>4 DEF ScanReader
<1>5. CASE StoreCached(p)
  BY <1>5 DEF StoreCached
<1>6. CASE CasReserve(p) /\ reserveCursor # current[p]
  BY <1>6 DEF CasReserve
<1>7. CASE LoadPublish(p)
  <2>1. Reserved(p) = {}
    BY <1>7 DEF LoadPublish
  <2>2. Reserved(p)' = {}
    BY <1>7 DEF LoadPublish
  <2>3. \A q \in Producers : q # p => Reserved(q)' = Reserved(q) /\ pc'[q] = pc[q] /\ ahead'[q] = ahead[q]
    BY <1>7 DEF LoadPublish
  <2>4. /\ UNCHANGED <<reserveCursor, publishCursor, available, pending, data, readIndex, offset, span>>
        /\ pc'[p] = "advance"
    BY <1>7 DEF LoadPublish
  <2> QED
    BY <2>1, <2>2, <2>3, <2>4
<1>8. CASE ScanAvailable(p)
  BY <1>8 DEF ScanAvailable
<1>9. CASE LeaveToOthers(p)
  BY <1>9 DEF LeaveToOthers
<1>10. CASE EndRun(p)
  BY <1>10 DEF EndRun
<1>11. CASE CasPublish(p) /\ publishCursor # current[p]
  BY <1>11 DEF CasPublish
<1> QED
  BY <1>1, <1>2, <1>3, <1>4, <1>5, <1>6, <1>7, <1>8, <1>9, <1>10, <1>11

(* Quiet steps keep what spans and memory hold together.                   *)
LEMMA QuietKeeps == ASSUME MemoryInv, Quiet PROVE MemoryInv'
<1> USE DEF Quiet
<1>1. \A j : Complete(j)' <=> Complete(j)
  BY DEF Complete
<1>2. SpanInv'
  BY DEF MemoryInv, SpanInv, Index
<1>3. MarkInv'
  BY <1>1 DEF MemoryInv, MarkInv, Index, Slots
<1>4. ReadInv'
  BY DEF MemoryInv, ReadInv, Index
<1>5. NoneForgotten'
  BY DEF MemoryInv, NoneForgotten, Index
<1> QED
  BY <1>2, <1>3, <1>4, <1>5 DEF MemoryInv

(* Open positions and marks are positions.                                 *)
LEMMA Positions ==
    ASSUME TypeOK, NEW p \in Producers
    PROVE  Reserved(p) \subseteq Nat /\ \A k \in DOMAIN pending[p] : pending[p][k] \in Nat
<1>1. Reserved(p) \subseteq Nat
  <2>1. offset[p] \in Nat /\ span[p] \in Nat /\ ahead[p] \in Nat
    BY DEF TypeOK
  <2> QED
    BY <2>1 DEF Reserved
<1>2. pending[p] \in Seq(Nat)
  BY DEF TypeOK
<1>3. \A k \in DOMAIN pending[p] : pending[p][k] \in Nat
  BY <1>2, ElementOfSeq, LenProperties
<1> QED
  BY <1>1, <1>3

(* Marks stay true as long as what they speak of does.                     *)
LEMMA MarksKept ==
    ASSUME TypeOK, MarkInv, UNCHANGED <<available, pending, publishCursor>>,
           \A j \in Nat : Complete(j) => Complete(j)'
    PROVE  MarkInv'
<1>1. \A i \in Slots : available[i] = SizeMax \/ (Index(available[i]) = i /\ Complete(available[i])')
  BY DEF TypeOK, MarkInv
<1>2. \A p \in Producers : \A k \in DOMAIN pending[p] : Complete(pending[p][k])'
  BY Positions DEF MarkInv
<1> QED
  BY <1>1, <1>2 DEF MarkInv, Index, Slots, SizeMax

(* A reservation opens the positions behind the reserve cursor.            *)
LEMMA ReserveKeeps ==
    ASSUME IInv, NoWrap, NEW p \in Producers, CasReserve(p), reserveCursor = current[p]
    PROVE  MemoryInv'
<1> USE MultiRingAssumption
<1>1. /\ UNCHANGED <<publishCursor, available, pending, data, readIndex, ahead>>
      /\ reserveCursor' = reserveCursor + need[p]
      /\ offset' = [offset EXCEPT ![p] = reserveCursor] /\ span' = [span EXCEPT ![p] = need[p]]
      /\ pc[p] = "cas" /\ pc' = [pc EXCEPT ![p] = "span"]
  BY DEF CasReserve, Branch, Goto, claimVars, slotVars
<1>2. /\ reserveCursor \in Nat /\ publishCursor \in Nat /\ need[p] \in Nat
      /\ publishCursor <= reserveCursor
  BY DEF IInv, TypeOK, CursorInv
<1>3. Reserved(p) = {} /\ Reserved(p)' = reserveCursor .. reserveCursor + need[p] - 1
  BY <1>1 DEF Reserved, IInv, TypeOK
<1>4. \A q \in Producers : q # p => Reserved(q)' = Reserved(q)
  BY <1>1 DEF Reserved, IInv, TypeOK
<1>5. \A q \in Producers : \A j \in Reserved(q) : j < reserveCursor
  BY DEF IInv, SpanInv
<1>6. \A q \in Producers : q # p => pc'[q] = pc[q] /\ offset'[q] = offset[q] /\ span'[q] = span[q]
  BY <1>1 DEF IInv, TypeOK
<1>7. SpanInv'
  <2> SUFFICES ASSUME NEW q \in Producers
               PROVE  /\ pc'[q] = "mark" => ahead'[q] <= offset'[q] + span'[q]
                      /\ \A j \in Reserved(q)' :
                            /\ publishCursor <= j /\ j < reserveCursor'
                            /\ pc'[q] = "mark" => data[Index(j)] = j
                            /\ \A o \in Producers : o # q => j \notin Reserved(o)'
    BY <1>1 DEF SpanInv, Index
  <2>1. CASE q = p
    <3>1. pc'[q] = "span"
      BY <1>1, <2>1 DEF IInv, TypeOK
    <3>2. ASSUME NEW j \in Reserved(q)', NEW o \in Producers, o # q PROVE j \notin Reserved(o)'
      <4>1. j >= reserveCursor /\ j \in Nat
        BY <1>2, <1>3, <2>1, <3>2
      <4>2. \A i \in Reserved(o)' : i \in Nat /\ i < reserveCursor
        BY <1>4, <1>5, <2>1, <3>2, Positions DEF IInv
      <4> QED
        BY <1>2, <4>1, <4>2
    <3>3. \A j \in Reserved(q)' : publishCursor <= j /\ j < reserveCursor'
      BY <1>1, <1>2, <1>3, <2>1
    <3> QED
      BY <3>1, <3>2, <3>3
  <2>2. CASE q # p
    <3>1. SpanInv
      BY DEF IInv
    <3>2. ASSUME NEW j \in Reserved(q) PROVE j \notin Reserved(p)' /\ j < reserveCursor'
      <4>1. j < reserveCursor /\ publishCursor <= j /\ j \in Int
        BY <3>1, <3>2, Positions DEF SpanInv, IInv
      <4> QED
        BY <1>1, <1>2, <1>3, <4>1
    <3> QED
      BY <1>1, <1>4, <1>6, <2>2, <3>1, <3>2 DEF SpanInv
  <2> QED
    BY <2>1, <2>2
<1>8. \A j \in Nat : Complete(j) => Complete(j)'
  <2> SUFFICES ASSUME NEW j \in Nat, Complete(j) PROVE Complete(j)'
    OBVIOUS
  <2>1. j < reserveCursor /\ j < reserveCursor' /\ j \notin Reserved(p)'
    BY <1>1, <1>2, <1>3 DEF Complete
  <2> QED
    BY <1>1, <1>4, <2>1 DEF Complete, Index
<1>9. MarkInv'
  BY <1>1, <1>8, MarksKept DEF IInv
<1>10. ReadInv'
  BY <1>1 DEF IInv, ReadInv, Index
<1>11. NoneForgotten'
  <2> SUFFICES ASSUME NEW j \in publishCursor .. reserveCursor' - 1
               PROVE  \/ \E q \in Producers : j \in Reserved(q)' \/ \E k \in DOMAIN pending[q] : pending[q][k] = j
                      \/ available[Index(j)] = j
    BY <1>1 DEF NoneForgotten, Index
  <2>1. CASE j < reserveCursor
    BY <1>1, <1>2, <1>3, <1>4, <2>1 DEF IInv, NoneForgotten
  <2>2. CASE j >= reserveCursor
    <3>1. j \in Reserved(p)'
      BY <1>1, <1>2, <1>3, <2>2
    <3> QED
      BY <3>1
  <2> QED
    BY <1>2, <2>1, <2>2
<1> QED
  BY <1>7, <1>9, <1>10, <1>11 DEF MemoryInv

(* Positions between the slowest reader and the reserve cursor have slots  *)
(* of their own.                                                           *)
LEMMA SpansApart ==
    ASSUME TypeOK, CursorInv, NEW r \in Readers, NEW a \in Nat, NEW b \in Nat, a # b,
           readIndex[r] <= a, a < reserveCursor, readIndex[r] <= b, b < reserveCursor
    PROVE  Index(a) # Index(b)
<1>1. readIndex[r] \in Nat /\ reserveCursor \in Nat /\ reserveCursor <= readIndex[r] + Size /\ Size \in Nat
  BY MultiRingAssumption DEF TypeOK, CursorInv
<1>2. a < readIndex[r] + Size /\ b < readIndex[r] + Size
  BY <1>1
<1> QED
  BY <1>1, <1>2, OneSlotEach

(* What is not published yet is behind no reader.                          *)
LEMMA ApartUnpublished ==
    ASSUME TypeOK, CursorInv, NEW a \in Nat, NEW b \in Nat, a # b,
           publishCursor <= a, a < reserveCursor, publishCursor <= b, b < reserveCursor
    PROVE  Index(a) # Index(b)
<1>1. PICK r \in Readers : TRUE
  BY MultiRingAssumption
<1>2. readIndex[r] \in Nat /\ publishCursor \in Nat /\ readIndex[r] <= publishCursor
  BY DEF TypeOK, CursorInv
<1>3. readIndex[r] <= a /\ readIndex[r] <= b
  BY <1>2
<1> QED
  BY <1>3, SpansApart

(* Filling a span writes its positions and harms no other.                 *)
LEMMA WriteEffect ==
    ASSUME IInv, NEW p \in Producers, WriteSamples(p)
    PROVE  /\ \A j \in Reserved(p) : data'[Index(j)] = j
           /\ \A r \in Readers : \A j \in Nat :
                readIndex[r] <= j /\ j < reserveCursor /\ j \notin Reserved(p) =>
                    data'[Index(j)] = data[Index(j)]
<1> USE DEF IInv
<1>1. /\ Reserved(p) = offset[p] .. offset[p] + span[p] - 1
      /\ data' = [i \in Slots |-> IF \E j \in Reserved(p) : Index(j) = i
                                    THEN CHOOSE j \in Reserved(p) : Index(j) = i
                                    ELSE data[i]]
  BY DEF WriteSamples, Goto, Reserved
<1>2. \A j \in Reserved(p) : j \in Nat /\ publishCursor <= j /\ j < reserveCursor
  BY Positions DEF SpanInv
<1>3. ASSUME NEW j \in Reserved(p) PROVE data'[Index(j)] = j
  <2>1. \A i \in Reserved(p) : Index(i) = Index(j) => i = j
    BY <1>2, ApartUnpublished
  <2>2. Index(j) \in Slots
    BY <1>2, IndexType
  <2>3. data'[Index(j)] = CHOOSE i \in Reserved(p) : Index(i) = Index(j)
    BY <1>1, <2>2
  <2> HIDE DEF IInv
  <2> QED
    BY <2>1, <2>3
<1>4. ASSUME NEW r \in Readers, NEW j \in Nat, readIndex[r] <= j, j < reserveCursor, j \notin Reserved(p)
      PROVE  data'[Index(j)] = data[Index(j)]
  <2>1. ASSUME NEW i \in Reserved(p) PROVE Index(i) # Index(j)
    <3>1. readIndex[r] \in Nat /\ publishCursor \in Nat /\ readIndex[r] <= publishCursor
      BY DEF TypeOK, CursorInv
    <3>2. i \in Nat /\ i # j /\ readIndex[r] <= i /\ i < reserveCursor
      BY <1>2, <1>4, <2>1, <3>1
    <3> QED
      BY <1>4, <3>2, SpansApart
  <2>2. Index(j) \in Slots
    BY IndexType
  <2> HIDE DEF IInv
  <2> QED
    BY <1>1, <2>1, <2>2
<1> QED
  BY <1>3, <1>4

(* Filling a span keeps everything else as it is.                          *)
LEMMA WriteKeeps == ASSUME IInv, NoWrap, NEW p \in Producers, WriteSamples(p) PROVE MemoryInv'
<1>1. /\ UNCHANGED <<reserveCursor, publishCursor, available, pending, readIndex, offset, span>>
      /\ pc[p] = "span" /\ pc' = [pc EXCEPT ![p] = "mark"] /\ ahead' = [ahead EXCEPT ![p] = offset[p]]
  BY DEF WriteSamples, Goto, claimVars, slotVars, spanVars
<1>2. \A q \in Producers : Reserved(q)' = Reserved(q)
  BY <1>1 DEF IInv, TypeOK, Reserved
<1>3. PICK r \in Readers : TRUE
  BY MultiRingAssumption
<1>4. ASSUME NEW j \in Nat, publishCursor <= j, j < reserveCursor, j \notin Reserved(p)
      PROVE  data'[Index(j)] = data[Index(j)]
  <2>1. readIndex[r] \in Nat /\ publishCursor \in Nat /\ readIndex[r] <= publishCursor
    BY DEF IInv, TypeOK, CursorInv
  <2> QED
    BY <1>4, <2>1, WriteEffect
<1>5. SpanInv'
  <2> SUFFICES ASSUME NEW q \in Producers
               PROVE  /\ pc'[q] = "mark" => ahead'[q] <= offset[q] + span[q]
                      /\ \A j \in Reserved(q) :
                            /\ publishCursor <= j /\ j < reserveCursor
                            /\ pc'[q] = "mark" => data'[Index(j)] = j
                            /\ \A o \in Producers : o # q => j \notin Reserved(o)
    BY <1>1, <1>2 DEF SpanInv, Index
  <2>1. \A j \in Reserved(q) :
            /\ publishCursor <= j /\ j < reserveCursor
            /\ pc[q] = "mark" => data[Index(j)] = j
            /\ \A o \in Producers : o # q => j \notin Reserved(o)
    BY DEF IInv, SpanInv
  <2>2. CASE q = p
    <3>1. ahead'[q] = offset[q] /\ offset[q] \in Nat /\ span[q] \in Nat
      BY <1>1, <2>2 DEF IInv, TypeOK
    <3> QED
      BY <2>1, <2>2, <3>1, WriteEffect
  <2>3. CASE q # p
    <3>1. ASSUME NEW j \in Reserved(q) PROVE data'[Index(j)] = data[Index(j)]
      BY <1>4, <2>1, <2>3, <3>1, Positions DEF IInv
    <3>2. pc'[q] = pc[q] /\ ahead'[q] = ahead[q]
      BY <1>1, <2>3 DEF IInv, TypeOK
    <3> QED
      BY <2>1, <3>1, <3>2 DEF IInv, SpanInv
  <2> QED
    BY <2>2, <2>3
<1>6. ASSUME NEW j \in Nat, Complete(j) PROVE Complete(j)'
  <2>1. publishCursor <= j => data'[Index(j)] = data[Index(j)]
    BY <1>4, <1>6 DEF Complete
  <2> QED
    BY <1>1, <1>2, <1>6, <2>1 DEF Complete, Index
<1>7. MarkInv'
  BY <1>1, <1>6, MarksKept DEF IInv
<1>8. ReadInv'
  <2> SUFFICES ASSUME NEW q \in Readers, NEW j \in readIndex[q] .. publishCursor - 1
               PROVE  data'[Index(j)] = j
    BY <1>1 DEF ReadInv, Index
  <2>1. /\ readIndex[q] \in Nat /\ publishCursor \in Nat /\ reserveCursor \in Nat
        /\ publishCursor <= reserveCursor
    BY DEF IInv, TypeOK, CursorInv
  <2>2. j \in Nat /\ readIndex[q] <= j /\ j < publishCursor /\ j < reserveCursor
    BY <2>1
  <2>3. j \notin Reserved(p)
    BY <2>1, <2>2 DEF IInv, SpanInv
  <2>4. data'[Index(j)] = data[Index(j)]
    BY <2>2, <2>3, WriteEffect
  <2> QED
    BY <2>4 DEF IInv, ReadInv
<1>9. NoneForgotten'
  BY <1>1, <1>2 DEF IInv, NoneForgotten, Index
<1> QED
  BY <1>5, <1>7, <1>8, <1>9 DEF MemoryInv

(* A reader that goes on has less to be kept for it.                       *)
LEMMA ConsumeKeeps ==
    ASSUME IInv, NEW r \in Readers, NEW n \in 1 .. Size, Consume(r, n) PROVE MemoryInv'
<1>1. /\ UNCHANGED <<reserveCursor, publishCursor, available, pending, data, pc, ahead, offset, span>>
      /\ readIndex' = [readIndex EXCEPT ![r] = @ + n]
  BY DEF Consume, claimVars, slotVars, spanVars
<1>2. \A q \in Producers : Reserved(q)' = Reserved(q)
  BY <1>1 DEF Reserved
<1>3. SpanInv'
  BY <1>1, <1>2 DEF IInv, SpanInv, Index
<1>4. MarkInv'
  <2>1. \A j \in Nat : Complete(j) => Complete(j)'
    BY <1>1, <1>2 DEF Complete, Index
  <2> QED
    BY <1>1, <2>1, MarksKept DEF IInv
<1>5. ReadInv'
  <2>1. \A q \in Readers : readIndex[q] \in Nat /\ readIndex'[q] \in Nat /\ readIndex[q] <= readIndex'[q]
    BY <1>1, MultiRingAssumption DEF IInv, TypeOK
  <2> QED
    BY <1>1, <2>1 DEF IInv, TypeOK, ReadInv, Index
<1>6. NoneForgotten'
  BY <1>1, <1>2 DEF IInv, NoneForgotten, Index
<1> QED
  BY <1>3, <1>4, <1>5, <1>6 DEF MemoryInv

(* Moving the publish cursor opens to the readers what is complete.        *)
LEMMA PublishKeeps ==
    ASSUME IInv, NoWrap, NEW p \in Producers, CasPublish(p), publishCursor = current[p]
    PROVE  MemoryInv'
<1>1. /\ UNCHANGED <<reserveCursor, available, pending, data, readIndex, ahead, offset>>
      /\ pc[p] = "casPublish" /\ pc' = [pc EXCEPT ![p] = "idle"] /\ span' = [span EXCEPT ![p] = 0]
  BY DEF CasPublish, Branch, Goto, claimVars, slotVars
<1>2. /\ publishCursor' = ahead[p] /\ publishCursor <= ahead[p] /\ ahead[p] <= reserveCursor
      /\ \A j \in publishCursor .. ahead[p] - 1 : available[Index(j)] = j /\ Complete(j)
  BY PublishedIsComplete DEF IInv
<1>3. publishCursor \in Nat /\ ahead[p] \in Nat /\ reserveCursor \in Nat
  BY DEF IInv, TypeOK
<1>4. \A q \in Producers : Reserved(q)' = Reserved(q)
  BY <1>1 DEF Reserved, IInv, TypeOK
<1>5. \A q \in Producers : pc'[q] = "mark" => pc[q] = "mark" /\ span'[q] = span[q]
  BY <1>1 DEF IInv, TypeOK
<1>6. SpanInv'
  <2>1. ASSUME NEW q \in Producers, NEW j \in Reserved(q) PROVE ahead[p] <= j
    <3>1. j \in Nat /\ publishCursor <= j
      BY <2>1, Positions DEF IInv, SpanInv
    <3>2. j \notin publishCursor .. ahead[p] - 1
      BY <1>2, <2>1, <3>1 DEF Complete
    <3> QED
      BY <1>3, <3>1, <3>2
  <2> QED
    BY <1>1, <1>2, <1>4, <1>5, <2>1 DEF IInv, SpanInv, Index
<1>7. \A j \in Nat : Complete(j) => Complete(j)'
  BY <1>1, <1>2, <1>3, <1>4 DEF Complete, Index
<1>8. MarkInv'
  <2>1. \A i \in Slots : available[i] = SizeMax \/ (Index(available[i]) = i /\ Complete(available[i])')
    BY <1>1, <1>7 DEF IInv, TypeOK, MarkInv
  <2>2. ASSUME NEW q \in Producers, NEW k \in DOMAIN pending[q]
        PROVE  Complete(pending[q][k])' /\ ahead[p] <= pending[q][k]
    <3>1. pending[q][k] \in Nat
      BY <2>2, Positions DEF IInv
    <3>2. /\ Complete(pending[q][k]) /\ publishCursor <= pending[q][k]
          /\ available[Index(pending[q][k])] # pending[q][k]
      BY <2>2 DEF IInv, MarkInv
    <3>3. pending[q][k] \notin publishCursor .. ahead[p] - 1
      BY <1>2, <3>2
    <3>4. PICK x \in Nat : x = pending[q][k]
      BY <3>1
    <3>5. Complete(x)' /\ ahead[p] <= x
      BY <1>3, <1>7, <3>2, <3>3, <3>4
    <3> QED
      BY <1>1, <3>4, <3>5
  <2> QED
    BY <1>1, <1>2, <2>1, <2>2 DEF IInv, MarkInv, Index, Slots, SizeMax
<1>9. ReadInv'
  <2> SUFFICES ASSUME NEW r \in Readers, NEW j \in readIndex[r] .. ahead[p] - 1 PROVE data[Index(j)] = j
    BY <1>1, <1>2 DEF ReadInv, Index
  <2>1. readIndex[r] \in Nat
    BY DEF IInv, TypeOK
  <2>2. CASE j < publishCursor
    BY <1>3, <2>1, <2>2 DEF IInv, ReadInv
  <2>3. CASE j >= publishCursor
    BY <1>2, <1>3, <2>1, <2>3 DEF Complete
  <2> QED
    BY <1>3, <2>1, <2>2, <2>3
<1>10. NoneForgotten'
  <2>1. \A j \in ahead[p] .. reserveCursor - 1 : j \in publishCursor .. reserveCursor - 1
    BY <1>2, <1>3
  <2> QED
    BY <1>1, <1>2, <1>4, <2>1 DEF IInv, NoneForgotten, Index
<1> QED
  BY <1>6, <1>8, <1>9, <1>10 DEF MemoryInv

(* What Tail leaves of a sequence.                                         *)
LEMMA TailFacts ==
    ASSUME NEW s \in Seq(Nat), s # <<>>
    PROVE  /\ 1 \in DOMAIN s /\ Head(s) = s[1]
           /\ DOMAIN Tail(s) \subseteq Nat \ {0} /\ DOMAIN s \subseteq Nat
           /\ \A k \in DOMAIN Tail(s) : k + 1 \in DOMAIN s /\ Tail(s)[k] = s[k + 1]
           /\ \A k \in DOMAIN s : k # 1 => k - 1 \in DOMAIN Tail(s)
<1>1. Len(s) \in Nat \ {0} /\ DOMAIN s = 1 .. Len(s)
  BY EmptySeq, LenProperties
<1>2. /\ Head(s) = s[1] /\ Tail(s) \in Seq(Nat) /\ Len(Tail(s)) = Len(s) - 1
      /\ \A i \in 1 .. Len(Tail(s)) : Tail(s)[i] = s[i + 1]
  BY HeadTailProperties
<1>3. DOMAIN Tail(s) = 1 .. Len(s) - 1
  BY <1>2, LenProperties
<1> QED
  BY <1>1, <1>2, <1>3

(* A mark that becomes visible was the only one of its position.           *)
LEMMA DrainKeeps == ASSUME IInv, NoWrap, NEW p \in Producers, DrainMark(p) PROVE MemoryInv'
<1>1. PICK s : s = Head(pending[p])
  OBVIOUS
<1>2. /\ UNCHANGED <<reserveCursor, publishCursor, data, readIndex, pc, ahead, offset, span>>
      /\ pending[p] # <<>>
      /\ available' = [available EXCEPT ![Index(s)] = s]
      /\ pending' = [pending EXCEPT ![p] = Tail(pending[p])]
  BY <1>1 DEF DrainMark, claimVars, spanVars
<1>3. /\ pending[p] \in Seq(Nat) /\ 1 \in DOMAIN pending[p] /\ s = pending[p][1]
      /\ \A k \in DOMAIN Tail(pending[p]) : k + 1 \in DOMAIN pending[p] /\ Tail(pending[p])[k] = pending[p][k + 1]
      /\ \A k \in DOMAIN pending[p] : k # 1 => k - 1 \in DOMAIN Tail(pending[p]) /\ k \in Nat
      /\ DOMAIN Tail(pending[p]) \subseteq Nat \ {0}
  <2>1. pending[p] \in Seq(Nat)
    BY DEF IInv, TypeOK
  <2> QED
    BY <1>1, <1>2, <2>1, TailFacts
<1>4. s \in Nat /\ publishCursor <= s /\ s < reserveCursor /\ Complete(s) /\ Index(s) \in Slots
  BY <1>3, Positions, IndexType DEF IInv, MarkInv, Complete
<1>5. \A q \in Producers : Reserved(q)' = Reserved(q)
  BY <1>2 DEF Reserved
<1>6. \A j : Complete(j)' <=> Complete(j)
  BY <1>2, <1>5 DEF Complete, Index
<1>7. SpanInv'
  BY <1>2, <1>5 DEF IInv, SpanInv, Index
<1>8. ReadInv'
  BY <1>2 DEF IInv, ReadInv, Index
(* Where a pending mark was before the step.                               *)
<1>9. ASSUME NEW q \in Producers, NEW k \in DOMAIN pending'[q]
      PROVE  \E i \in DOMAIN pending[q] : /\ pending'[q][k] = pending[q][i]
                                          /\ i = IF q = p THEN k + 1 ELSE k
                                          /\ k \in Nat \/ q # p
  BY <1>2, <1>3, <1>9 DEF IInv, TypeOK
<1>10. ASSUME NEW q \in Producers, NEW k \in DOMAIN pending'[q] PROVE pending'[q][k] # s
  <2>1. PICK i \in DOMAIN pending[q] : /\ pending'[q][k] = pending[q][i]
                                       /\ i = (IF q = p THEN k + 1 ELSE k)
                                       /\ k \in Nat \/ q # p
    BY <1>9, <1>10
  <2>2. q = p => i # 1
    <3>1. ASSUME q = p PROVE k \in Nat \ {0}
      <4>1. pending'[q] = Tail(pending[p])
        BY <1>2, <3>1 DEF IInv, TypeOK
      <4> QED
        BY <1>3, <1>10, <4>1
    <3> QED
      BY <2>1, <3>1
  <2>3. MarkInv
    BY DEF IInv
  <2> QED
    BY <1>3, <2>1, <2>2, <2>3 DEF MarkInv
<1>11. MarkInv'
  <2>1. ASSUME NEW i \in Slots, available'[i] # SizeMax
        PROVE  Index(available'[i]) = i /\ Complete(available'[i])
    <3>1. CASE i = Index(s)
      BY <1>2, <1>4, <3>1 DEF IInv, TypeOK
    <3>2. CASE i # Index(s)
      BY <1>2, <2>1, <3>2 DEF IInv, TypeOK, MarkInv
    <3> QED
      BY <3>1, <3>2
  <2>2. ASSUME NEW q \in Producers, NEW k \in DOMAIN pending'[q]
        PROVE  /\ publishCursor <= pending'[q][k] /\ Complete(pending'[q][k])
               /\ available'[Index(pending'[q][k])] # pending'[q][k]
    <3>1. PICK i \in DOMAIN pending[q] : pending'[q][k] = pending[q][i]
      BY <1>9
    <3>2. PICK x \in Nat : x = pending[q][i]
      BY <3>1, Positions DEF IInv
    <3>3. publishCursor <= x /\ Complete(x) /\ available[Index(x)] # x /\ Index(x) \in Slots
      BY <3>1, <3>2, IndexType DEF IInv, MarkInv
    <3>4. x # s
      BY <1>10, <3>1, <3>2
    <3>5. available'[Index(x)] # x
      BY <1>2, <3>3, <3>4 DEF IInv, TypeOK
    <3> QED
      BY <3>1, <3>2, <3>3, <3>5
  <2>3. ASSUME NEW q \in Producers, NEW k \in DOMAIN pending'[q],
               NEW o \in Producers, NEW l \in DOMAIN pending'[o], pending'[q][k] = pending'[o][l]
        PROVE  q = o /\ k = l
    <3>1. PICK i \in DOMAIN pending[q] : pending'[q][k] = pending[q][i] /\ i = (IF q = p THEN k + 1 ELSE k)
                                         /\ (k \in Nat \/ q # p)
      BY <1>9
    <3>2. PICK j \in DOMAIN pending[o] : pending'[o][l] = pending[o][j] /\ j = (IF o = p THEN l + 1 ELSE l)
                                         /\ (l \in Nat \/ o # p)
      BY <1>9
    <3>3. q = o /\ i = j
      <4>1. MarkInv
        BY DEF IInv
      <4>2. pending[q][i] = pending[o][j]
        BY <2>3, <3>1, <3>2
      <4> QED
        BY <4>1, <4>2 DEF MarkInv
    <3> QED
      BY <3>1, <3>2, <3>3
  <2>4. ASSUME NEW i \in Slots, available'[i] # SizeMax PROVE Complete(available[i])'
    BY <1>6, <2>1, <2>4
  <2>5. ASSUME NEW q \in Producers, NEW k \in DOMAIN pending'[q] PROVE Complete(pending[q][k])'
    BY <1>6, <2>2, <2>5
  <2>6. ASSUME NEW i \in Slots PROVE (available[i] = SizeMax \/ (Index(available[i]) = i /\ Complete(available[i])))'
    BY <2>1, <2>4 DEF Index, SizeMax
  <2>7. ASSUME NEW q \in Producers, NEW k \in DOMAIN pending'[q]
        PROVE  (/\ publishCursor <= pending[q][k]
                /\ Complete(pending[q][k])
                /\ available[Index(pending[q][k])] # pending[q][k]
                /\ \A o \in Producers : \A l \in DOMAIN pending[o] :
                        pending[q][k] = pending[o][l] => q = o /\ k = l)'
    BY <1>2, <2>2, <2>3, <2>5 DEF Index
  <2> QED
    BY <2>6, <2>7 DEF MarkInv, Slots
<1>12. NoneForgotten'
  <2> SUFFICES ASSUME NEW j \in publishCursor .. reserveCursor - 1
               PROVE  \/ \E q \in Producers : j \in Reserved(q) \/ \E k \in DOMAIN pending'[q] : pending'[q][k] = j
                      \/ available'[Index(j)] = j
    BY <1>2, <1>5 DEF NoneForgotten, Index
  <2>1. /\ j \in Nat /\ publishCursor <= j /\ j < reserveCursor
    BY DEF IInv, TypeOK
  <2>2. CASE \E q \in Producers : j \in Reserved(q)
    BY <2>2
  <2>3. ASSUME NEW q \in Producers, NEW k \in DOMAIN pending[q], pending[q][k] = j, q # p \/ k # 1
        PROVE  \E i \in DOMAIN pending'[q] : pending'[q][i] = j
    <3>1. CASE q # p
      BY <1>2, <2>3, <3>1 DEF IInv, TypeOK
    <3>2. CASE q = p
      <4>1. k - 1 \in DOMAIN Tail(pending[p]) /\ k \in Nat
        BY <1>3, <2>3, <3>2
      <4>2. Tail(pending[p])[k - 1] = pending[p][k]
        BY <1>3, <4>1
      <4>3. pending'[p] = Tail(pending[p])
        BY <1>2 DEF IInv, TypeOK
      <4> QED
        BY <2>3, <3>2, <4>1, <4>2, <4>3
    <3> QED
      BY <3>1, <3>2
  <2>4. CASE j = s
    BY <1>2, <1>4, <2>4 DEF IInv, TypeOK
  <2>5. CASE available[Index(j)] = j
    <3>1. j = s \/ Index(j) # Index(s)
      BY <1>4, <2>1, ApartUnpublished DEF IInv
    <3> QED
      BY <1>2, <2>4, <2>5, <3>1, IndexType, <2>1 DEF IInv, TypeOK
  <2> QED
    BY <1>3, <2>2, <2>3, <2>4, <2>5 DEF IInv, NoneForgotten
<1> QED
  BY <1>7, <1>8, <1>11, <1>12 DEF MemoryInv

(* A new mark speaks of a position that had none.                          *)
LEMMA MarkKeeps == ASSUME IInv, NoWrap, NEW p \in Producers, MarkSlot(p) PROVE MemoryInv'
<1>1. PICK s : s = ahead[p]
  OBVIOUS
<1>2. /\ UNCHANGED <<reserveCursor, publishCursor, data, readIndex, pc, offset, span>>
      /\ pc[p] = "mark" /\ s < offset[p] + span[p]
      /\ ahead' = [ahead EXCEPT ![p] = s + 1]
  BY <1>1 DEF MarkSlot, claimVars, spanVars
<1>3. \/ pending' = [pending EXCEPT ![p] = Append(pending[p], s)] /\ available' = available
      \/ available' = [available EXCEPT ![Index(s)] = s] /\ pending' = pending
  BY <1>1 DEF MarkSlot
<1>4. /\ s \in Nat /\ offset[p] \in Nat /\ span[p] \in Nat
      /\ Reserved(p) = s .. offset[p] + span[p] - 1
      /\ Reserved(p)' = s + 1 .. offset[p] + span[p] - 1
  BY <1>1, <1>2 DEF IInv, TypeOK, Reserved
<1>5. s \in Reserved(p) /\ Reserved(p)' = Reserved(p) \ {s}
  BY <1>4, <1>2
<1>6. \A q \in Producers : q # p => Reserved(q)' = Reserved(q) /\ ahead'[q] = ahead[q]
  BY <1>2 DEF IInv, TypeOK, Reserved
<1>7. /\ publishCursor <= s /\ s < reserveCursor /\ data[Index(s)] = s
      /\ \A q \in Producers : q # p => s \notin Reserved(q)
      /\ Index(s) \in Slots
  BY <1>2, <1>4, <1>5, IndexType DEF IInv, SpanInv
<1>8. Complete(s)' /\ ~Complete(s)
  BY <1>2, <1>5, <1>6, <1>7 DEF Complete, Index
<1>9. \A j : Complete(j) => Complete(j)'
  BY <1>2, <1>5, <1>6 DEF Complete, Index
<1>10. /\ \A i \in Slots : available[i] # s
       /\ \A q \in Producers : \A k \in DOMAIN pending[q] : pending[q][k] # s
  <2>1. s # SizeMax
    <3>1. reserveCursor + Size <= SizeMax /\ reserveCursor \in Nat /\ Size \in Nat
      BY SizeMaxType, MultiRingAssumption DEF IInv, TypeOK
    <3> QED
      BY <1>4, <1>7, <3>1, SizeMaxType
  <2> QED
    BY <1>8, <2>1 DEF IInv, MarkInv
<1>11. SpanInv'
  <2> SUFFICES ASSUME NEW q \in Producers
               PROVE  /\ pc[q] = "mark" => ahead'[q] <= offset[q] + span[q]
                      /\ \A j \in Reserved(q)' :
                            /\ publishCursor <= j /\ j < reserveCursor
                            /\ pc[q] = "mark" => data[Index(j)] = j
                            /\ \A o \in Producers : o # q => j \notin Reserved(o)'
    BY <1>2 DEF SpanInv, Index
  <2>1. \A o \in Producers : Reserved(o)' \subseteq Reserved(o)
    BY <1>5, <1>6
  <2>2. ahead'[p] = s + 1
    BY <1>2 DEF IInv, TypeOK
  <2>3. pc[q] = "mark" => ahead'[q] <= offset[q] + span[q]
    BY <1>2, <1>4, <1>6, <2>2 DEF IInv, SpanInv
  <2> QED
    BY <2>1, <2>3 DEF IInv, SpanInv
<1>12. ReadInv'
  BY <1>2 DEF IInv, ReadInv, Index
<1>13. \A i \in Slots : available'[i] = available[i] \/ (i = Index(s) /\ available'[i] = s)
  BY <1>3 DEF IInv, TypeOK
<1>14. ASSUME NEW q \in Producers, NEW k \in DOMAIN pending'[q]
       PROVE  \/ k \in DOMAIN pending[q] /\ pending'[q][k] = pending[q][k]
              \/ /\ q = p /\ k = Len(pending[p]) + 1 /\ pending'[q][k] = s
                 /\ available' = available
  <2>1. CASE pending' = pending
    BY <2>1, <1>14
  <2>2. CASE pending' = [pending EXCEPT ![p] = Append(pending[p], s)] /\ available' = available
    <3>1. CASE q # p
      BY <2>2, <3>1, <1>14 DEF IInv, TypeOK
    <3>2. CASE q = p
      <4>1. pending[p] \in Seq(Nat) /\ pending'[q] = Append(pending[p], s)
        BY <2>2, <3>2 DEF IInv, TypeOK
      <4>2. /\ Len(Append(pending[p], s)) = Len(pending[p]) + 1
            /\ \A i \in 1 .. Len(pending[p]) : Append(pending[p], s)[i] = pending[p][i]
            /\ Append(pending[p], s)[Len(pending[p]) + 1] = s
            /\ Append(pending[p], s) \in Seq(Nat)
        BY <1>4, <4>1, AppendProperties
      <4>3. Len(pending[p]) \in Nat /\ DOMAIN pending[p] = 1 .. Len(pending[p])
            /\ DOMAIN pending'[q] = 1 .. Len(pending[p]) + 1
        BY <4>1, <4>2, LenProperties
      <4> QED
        BY <1>14, <2>2, <3>2, <4>1, <4>2, <4>3
    <3> QED
      BY <3>1, <3>2
  <2> QED
    BY <1>3, <2>1, <2>2
<1>15. MarkInv'
  <2>1. ASSUME NEW i \in Slots PROVE (available[i] = SizeMax \/ (Index(available[i]) = i /\ Complete(available[i])))'
    <3>1. PICK x : x = available'[i]
      OBVIOUS
    <3>2. x = SizeMax \/ (Index(x) = i /\ Complete(x)')
      BY <1>8, <1>9, <1>13, <3>1 DEF IInv, MarkInv
    <3> QED
      BY <3>1, <3>2 DEF SizeMax, Index
  <2>2. ASSUME NEW q \in Producers, NEW k \in DOMAIN pending'[q]
        PROVE  (/\ publishCursor <= pending[q][k]
                /\ Complete(pending[q][k])
                /\ available[Index(pending[q][k])] # pending[q][k])'
    <3>1. PICK x : x = pending'[q][k]
      OBVIOUS
    <3>2. publishCursor <= x /\ Complete(x)' /\ Index(x) \in Slots /\ available'[Index(x)] # x
      <4>1. CASE k \in DOMAIN pending[q] /\ x = pending[q][k]
        <5>1. /\ publishCursor <= x /\ Complete(x) /\ available[Index(x)] # x /\ x # s
          BY <1>10, <2>2, <4>1 DEF IInv, MarkInv
        <5>2. x \in Nat
          BY <4>1, Positions DEF IInv
        <5> QED
          BY <1>9, <1>13, <5>1, <5>2, IndexType
      <4>2. CASE x = s /\ available' = available
        BY <1>7, <1>8, <1>10, <4>2
      <4> QED
        BY <1>14, <2>2, <3>1, <4>1, <4>2
    <3> QED
      BY <1>2, <3>1, <3>2 DEF Index
  <2>3. ASSUME NEW q \in Producers, NEW k \in DOMAIN pending'[q],
               NEW o \in Producers, NEW l \in DOMAIN pending'[o], pending'[q][k] = pending'[o][l]
        PROVE  q = o /\ k = l
    <3>1. CASE pending'[q][k] = s
      <4>1. q = p /\ k = Len(pending[p]) + 1
        BY <1>10, <1>14, <2>3, <3>1
      <4>2. o = p /\ l = Len(pending[p]) + 1
        BY <1>10, <1>14, <2>3, <3>1
      <4> QED
        BY <4>1, <4>2
    <3>2. CASE pending'[q][k] # s
      <4>1. /\ k \in DOMAIN pending[q] /\ pending'[q][k] = pending[q][k]
            /\ l \in DOMAIN pending[o] /\ pending'[o][l] = pending[o][l]
        BY <1>14, <2>3, <3>2
      <4>2. MarkInv
        BY DEF IInv
      <4>3. pending[q][k] = pending[o][l]
        BY <2>3, <4>1
      <4> QED
        BY <4>1, <4>2, <4>3 DEF MarkInv
    <3> QED
      BY <3>1, <3>2
  <2>4. ASSUME NEW q \in Producers, NEW k \in DOMAIN pending'[q]
        PROVE  (\A o \in Producers : \A l \in DOMAIN pending[o] :
                        pending[q][k] = pending[o][l] => q = o /\ k = l)'
    BY <2>3, <2>4
  <2> QED
    BY <2>1, <2>2, <2>4 DEF MarkInv, Slots
<1>16. NoneForgotten'
  <2> SUFFICES ASSUME NEW j \in publishCursor .. reserveCursor - 1
               PROVE  \/ \E q \in Producers : j \in Reserved(q)' \/ \E k \in DOMAIN pending'[q] : pending'[q][k] = j
                      \/ available'[Index(j)] = j
    BY <1>2 DEF NoneForgotten, Index
  <2>1. j \in Nat /\ publishCursor <= j /\ j < reserveCursor /\ Index(j) \in Slots
    BY IndexType DEF IInv, TypeOK
  <2>2. CASE j = s
    <3>1. CASE available' = [available EXCEPT ![Index(s)] = s]
      BY <1>7, <2>2, <3>1 DEF IInv, TypeOK
    <3>2. CASE pending' = [pending EXCEPT ![p] = Append(pending[p], s)]
      <4>1. pending[p] \in Seq(Nat) /\ pending'[p] = Append(pending[p], s)
        BY <3>2 DEF IInv, TypeOK
      <4>2. /\ Len(Append(pending[p], s)) = Len(pending[p]) + 1
            /\ Append(pending[p], s)[Len(pending[p]) + 1] = s
            /\ Append(pending[p], s) \in Seq(Nat) /\ Len(pending[p]) \in Nat
        BY <1>4, <4>1, AppendProperties, LenProperties
      <4>3. Len(pending[p]) + 1 \in DOMAIN pending'[p]
        BY <4>1, <4>2, LenProperties
      <4> QED
        BY <2>2, <4>1, <4>2, <4>3
    <3> QED
      BY <1>3, <3>1, <3>2
  <2>3. CASE j # s
    <3>1. ASSUME NEW q \in Producers, j \in Reserved(q) PROVE j \in Reserved(q)'
      BY <1>5, <1>6, <2>3, <3>1
    <3>2. ASSUME NEW q \in Producers, NEW k \in DOMAIN pending[q], pending[q][k] = j
          PROVE  k \in DOMAIN pending'[q] /\ pending'[q][k] = j
      <4>1. CASE pending' = pending
        BY <3>2, <4>1
      <4>2. CASE pending' = [pending EXCEPT ![p] = Append(pending[p], s)]
        <5>1. CASE q # p
          BY <3>2, <4>2, <5>1 DEF IInv, TypeOK
        <5>2. CASE q = p
          <6>1. pending[p] \in Seq(Nat) /\ pending'[q] = Append(pending[p], s)
            BY <4>2, <5>2 DEF IInv, TypeOK
          <6>2. /\ Len(Append(pending[p], s)) = Len(pending[p]) + 1
                /\ \A i \in 1 .. Len(pending[p]) : Append(pending[p], s)[i] = pending[p][i]
                /\ Append(pending[p], s) \in Seq(Nat)
            BY <1>4, <6>1, AppendProperties
          <6>3. Len(pending[p]) \in Nat /\ DOMAIN pending[p] = 1 .. Len(pending[p])
                /\ DOMAIN pending'[q] = 1 .. Len(pending[p]) + 1
            BY <6>1, <6>2, LenProperties
          <6> QED
            BY <3>2, <5>2, <6>1, <6>2, <6>3
        <5> QED
          BY <5>1, <5>2
      <4> QED
        BY <1>3, <4>1, <4>2
    <3>3. ASSUME available[Index(j)] = j PROVE available'[Index(j)] = j
      <4>1. Index(j) # Index(s)
        BY <1>4, <1>7, <2>1, <2>3, ApartUnpublished DEF IInv
      <4> QED
        BY <1>13, <2>1, <3>3, <4>1
    <3> QED
      BY <3>1, <3>2, <3>3 DEF IInv, NoneForgotten
  <2> QED
    BY <2>2, <2>3
<1> QED
  BY <1>11, <1>12, <1>15, <1>16 DEF MemoryInv

(* Every step keeps what spans and memory hold together.                   *)
LEMMA MemoryStep == ASSUME IInv, NoWrap, [Next]_vars PROVE MemoryInv'
<1>1. MemoryInv
  BY DEF IInv, MemoryInv
<1>2. CASE Quiet
  BY <1>1, <1>2, QuietKeeps
<1>3. ASSUME NEW p \in Producers, Producer(p) \/ DrainMark(p) PROVE MemoryInv'
  <2>1. CASE \/ \E n \in 1 .. Size, b \in BOOLEAN : BeginReserve(p, n, b)
             \/ LoadReserve(p) \/ CheckCached(p) \/ (\E r \in Readers : ScanReader(p, r)) \/ StoreCached(p)
             \/ CasReserve(p) /\ reserveCursor # current[p]
             \/ LoadPublish(p) \/ ScanAvailable(p) \/ LeaveToOthers(p) \/ EndRun(p)
             \/ CasPublish(p) /\ publishCursor # current[p]
    BY <1>2, <2>1, QuietSteps
  <2>2. CASE CasReserve(p) /\ reserveCursor = current[p]
    BY <2>2, ReserveKeeps
  <2>3. CASE CasPublish(p) /\ publishCursor = current[p]
    BY <2>3, PublishKeeps
  <2>4. CASE WriteSamples(p) \/ MarkSlot(p) \/ DrainMark(p)
    BY <2>4, WriteKeeps, MarkKeeps, DrainKeeps
  <2>5. \/ \E n \in 1 .. Size, b \in BOOLEAN : BeginReserve(p, n, b)
        \/ LoadReserve(p) \/ CheckCached(p) \/ (\E r \in Readers : ScanReader(p, r)) \/ StoreCached(p)
        \/ CasReserve(p) \/ WriteSamples(p) \/ MarkSlot(p) \/ LoadPublish(p) \/ ScanAvailable(p)
        \/ LeaveToOthers(p) \/ EndRun(p) \/ CasPublish(p) \/ DrainMark(p)
    BY <1>3, Zenon DEF Producer, Reserving, Publishing
  <2> QED
    BY <2>1, <2>2, <2>3, <2>4, <2>5, Zenon
<1>4. ASSUME NEW r \in Readers, NEW n \in 1 .. Size, Consume(r, n) PROVE MemoryInv'
  BY <1>4, ConsumeKeeps
<1>5. CASE UNCHANGED vars
  BY <1>2, <1>5 DEF Quiet, Reserved, vars, claimVars, spanVars, slotVars
<1> QED
  BY <1>3, <1>4, <1>5 DEF Next

-----------------------------------------------------------------------------
(* The scan for complete positions, and the theorems *)

(* What a writer sees marked, others may come to see, but no one unmarks   *)
(* it before it is published.                                              *)
LEMMA SeenStays ==
    ASSUME IInv, NoWrap, [Next]_vars, NEW p \in Producers, NEW j \in Nat, SeenBy(p, j),
           publishCursor <= j, j < publishCursor + Size
    PROVE  SeenBy(p, j)'
<1>1. Complete(j) /\ j < reserveCursor /\ Index(j) \in Slots
  BY SeenIsComplete, IndexType DEF IInv, Complete
<1>2. ASSUME NEW q \in Producers, DrainMark(q) PROVE SeenBy(p, j)'
  <2>1. PICK s : s = Head(pending[q])
    OBVIOUS
  <2>2. /\ pending[q] \in Seq(Nat) /\ pending[q] # <<>>
        /\ available' = [available EXCEPT ![Index(s)] = s]
        /\ pending' = [pending EXCEPT ![q] = Tail(pending[q])]
    BY <1>2, <2>1 DEF DrainMark, IInv, TypeOK
  <2>3. /\ 1 \in DOMAIN pending[q] /\ s = pending[q][1]
        /\ \A k \in DOMAIN pending[q] : k # 1 => k - 1 \in DOMAIN Tail(pending[q]) /\ k \in Nat
        /\ \A k \in DOMAIN Tail(pending[q]) : Tail(pending[q])[k] = pending[q][k + 1]
    BY <2>1, <2>2, TailFacts
  <2>4. s \in Nat /\ publishCursor <= s /\ s < reserveCursor
    BY <2>3, Positions DEF IInv, MarkInv, Complete
  <2>5. j = s \/ Index(j) # Index(s)
    BY <1>1, <2>4, ApartUnpublished DEF IInv
  <2>6. CASE j = s
    BY <1>1, <2>2, <2>6 DEF SeenBy, IInv, TypeOK, Index
  <2>7. CASE available[Index(j)] = j
    BY <1>1, <2>2, <2>5, <2>6, <2>7 DEF SeenBy, IInv, TypeOK, Index
  <2>8. ASSUME NEW k \in DOMAIN pending[p], pending[p][k] = j, j # s
        PROVE  \E i \in DOMAIN pending'[p] : pending'[p][i] = j
    <3>1. CASE q # p
      BY <2>2, <2>8, <3>1 DEF IInv, TypeOK
    <3>2. CASE q = p
      <4>1. k # 1 /\ pending'[p] = Tail(pending[p])
        BY <2>2, <2>3, <2>8, <3>2 DEF IInv, TypeOK
      <4>2. k - 1 \in DOMAIN Tail(pending[p]) /\ k \in Nat
        BY <2>3, <2>8, <3>2, <4>1
      <4>3. Tail(pending[p])[k - 1] = pending[p][k]
        BY <2>3, <3>2, <4>2
      <4> QED
        BY <2>8, <4>1, <4>2, <4>3
    <3> QED
      BY <3>1, <3>2
  <2> QED
    BY <2>6, <2>7, <2>8 DEF SeenBy
<1>3. ASSUME NEW q \in Producers, MarkSlot(q) PROVE SeenBy(p, j)'
  <2>1. PICK s : s = ahead[q]
    OBVIOUS
  <2>2. \/ pending' = [pending EXCEPT ![q] = Append(pending[q], s)] /\ available' = available
        \/ available' = [available EXCEPT ![Index(s)] = s] /\ pending' = pending
    BY <1>3, <2>1 DEF MarkSlot
  <2>3. CASE available' = [available EXCEPT ![Index(s)] = s] /\ pending' = pending
    <3>1. s \in Reserved(q)
      <4>1. pc[q] = "mark" /\ s < offset[q] + span[q] /\ s \in Nat /\ offset[q] \in Nat /\ span[q] \in Nat
        BY <1>3, <2>1 DEF MarkSlot, IInv, TypeOK
      <4> QED
        BY <2>1, <4>1 DEF Reserved
    <3>2. s \in Nat /\ publishCursor <= s /\ s < reserveCursor
      BY <3>1, Positions DEF IInv, SpanInv
    <3>3. j = s \/ Index(j) # Index(s)
      BY <1>1, <3>2, ApartUnpublished DEF IInv
    <3> QED
      BY <1>1, <2>3, <3>3 DEF SeenBy, IInv, TypeOK, Index
  <2>4. CASE pending' = [pending EXCEPT ![q] = Append(pending[q], s)] /\ available' = available
    <3>1. CASE available[Index(j)] = j \/ q # p
      BY <2>4, <3>1 DEF SeenBy, IInv, TypeOK, Index
    <3>2. ASSUME q = p, NEW k \in DOMAIN pending[p], pending[p][k] = j
          PROVE  k \in DOMAIN pending'[p] /\ pending'[p][k] = j
      <4>1. pending[p] \in Seq(Nat) /\ pending'[p] = Append(pending[p], s) /\ s \in Nat
        BY <2>1, <2>4, <3>2 DEF IInv, TypeOK
      <4>2. /\ Len(Append(pending[p], s)) = Len(pending[p]) + 1
            /\ \A i \in 1 .. Len(pending[p]) : Append(pending[p], s)[i] = pending[p][i]
            /\ Append(pending[p], s) \in Seq(Nat)
        BY <4>1, AppendProperties
      <4>3. Len(pending[p]) \in Nat /\ DOMAIN pending[p] = 1 .. Len(pending[p])
            /\ DOMAIN pending'[p] = 1 .. Len(pending[p]) + 1
        BY <4>1, <4>2, LenProperties
      <4> QED
        BY <3>2, <4>1, <4>2, <4>3
    <3> QED
      BY <3>1, <3>2 DEF SeenBy
  <2> QED
    BY <2>2, <2>3, <2>4
<1>4. CASE UNCHANGED <<available, pending>>
  BY <1>4 DEF SeenBy, Index
<1>5. ASSUME NEW q \in Producers, Producer(q), ~MarkSlot(q) PROVE UNCHANGED <<available, pending>>
  BY <1>5 DEF Producer, Reserving, Publishing, slotVars, BeginReserve, LoadReserve, CheckCached, ScanReader,
     StoreCached, CasReserve, WriteSamples, LoadPublish, ScanAvailable, LeaveToOthers, EndRun, CasPublish
<1>6. ASSUME NEW r \in Readers, NEW n \in 1 .. Size, Consume(r, n) PROVE UNCHANGED <<available, pending>>
  BY <1>6 DEF Consume, slotVars
<1> QED
  BY <1>2, <1>3, <1>4, <1>5, <1>6 DEF Next, vars, slotVars

(* The run a writer has scanned stays marked until the cursor passes it.   *)
LEMMA ScanStep == ASSUME IInv, NoWrap, [Next]_vars PROVE ScanInv'
<1>1. publishCursor \in Nat /\ publishCursor' \in Nat /\ publishCursor <= publishCursor' /\ Size \in Nat
  <2>1. TypeOK /\ TypeOK' /\ Size \in Nat
    BY TypeOKStep, MultiRingAssumption DEF IInv
  <2>2. ASSUME NEW p \in Producers, CasPublish(p), publishCursor = current[p]
        PROVE  publishCursor <= publishCursor'
    BY <2>2, PublishedIsComplete DEF IInv
  <2>3. \/ publishCursor' = publishCursor
        \/ \E p \in Producers : CasPublish(p) /\ publishCursor = current[p]
    BY DEF Next, Producer, Reserving, Publishing, vars, BeginReserve, LoadReserve, CheckCached, ScanReader,
       StoreCached, CasReserve, WriteSamples, MarkSlot, DrainMark, LoadPublish, ScanAvailable, LeaveToOthers,
       EndRun, CasPublish, Consume
  <2> QED
    BY <2>1, <2>2, <2>3 DEF TypeOK
<1>2. ASSUME NEW q \in Producers, pc'[q] \in Scanning, ~LoadPublish(q), ~ScanAvailable(q)
      PROVE  pc[q] \in Scanning /\ current'[q] = current[q] /\ ahead'[q] = ahead[q]
  <2> USE DEF IInv, TypeOK, Goto, Branch, Scanning, claimVars, spanVars, slotVars
  <2>1. ASSUME NEW p \in Producers, Reserving(p) \/ \E n \in 1 .. Size, b \in BOOLEAN : BeginReserve(p, n, b)
        PROVE  pc[q] \in Scanning /\ current'[q] = current[q] /\ ahead'[q] = ahead[q]
    BY <1>2, <2>1 DEF Reserving, BeginReserve, LoadReserve, CheckCached, ScanReader, StoreCached, CasReserve
  <2>2. ASSUME NEW p \in Producers, WriteSamples(p) \/ MarkSlot(p) \/ DrainMark(p)
        PROVE  pc[q] \in Scanning /\ current'[q] = current[q] /\ ahead'[q] = ahead[q]
    BY <1>2, <2>2 DEF WriteSamples, MarkSlot, DrainMark
  <2>3. ASSUME NEW p \in Producers, LoadPublish(p) \/ ScanAvailable(p)
        PROVE  pc[q] \in Scanning /\ current'[q] = current[q] /\ ahead'[q] = ahead[q]
    <3>1. p # q
      BY <1>2, <2>3
    <3> QED
      BY <1>2, <2>3, <3>1 DEF LoadPublish, ScanAvailable
  <2>4. ASSUME NEW p \in Producers, LeaveToOthers(p) \/ EndRun(p) \/ CasPublish(p)
        PROVE  pc[q] \in Scanning /\ current'[q] = current[q] /\ ahead'[q] = ahead[q]
    BY <1>2, <2>4 DEF LeaveToOthers, EndRun, CasPublish
  <2>5. CASE (\E r \in Readers, n \in 1 .. Size : Consume(r, n)) \/ UNCHANGED vars
    BY <1>2, <2>5 DEF Consume, vars
  <2> QED
    BY <2>1, <2>2, <2>3, <2>4, <2>5 DEF Next, Producer, Publishing
<1> SUFFICES ASSUME NEW q \in Producers, pc'[q] \in Scanning
             PROVE  /\ current'[q] <= publishCursor'
                    /\ current'[q] <= ahead'[q] /\ ahead'[q] <= current'[q] + Size
                    /\ current'[q] = publishCursor' =>
                          \A j \in current'[q] .. ahead'[q] - 1 : SeenBy(q, j)'
  BY DEF ScanInv, Scanning
<1>3. CASE LoadPublish(q)
  BY <1>1, <1>3 DEF LoadPublish, IInv, TypeOK
<1>4. CASE ScanAvailable(q)
  <2>1. /\ pc[q] \in Scanning /\ UNCHANGED <<publishCursor, current, available, pending>>
        /\ ahead' = [ahead EXCEPT ![q] = ahead[q] + 1]
        /\ ahead[q] - current[q] < Size /\ SeenBy(q, ahead[q])
    BY <1>4 DEF ScanAvailable, Scanning, RunGoesOn, slotVars
  <2>2. /\ current[q] <= publishCursor /\ current[q] <= ahead[q]
        /\ current[q] = publishCursor => \A j \in current[q] .. ahead[q] - 1 : SeenBy(q, j)
    BY <2>1 DEF IInv, ScanInv
  <2>3. current[q] \in Nat /\ ahead[q] \in Nat /\ ahead'[q] = ahead[q] + 1
    BY <2>1 DEF IInv, TypeOK
  <2>4. ASSUME current[q] = publishCursor, NEW j \in current[q] .. ahead[q] PROVE SeenBy(q, j)'
    <3>1. SeenBy(q, j)
      BY <2>1, <2>2, <2>3, <2>4
    <3> QED
      BY <2>1, <3>1 DEF SeenBy, Index
  <2> QED
    BY <1>1, <2>1, <2>2, <2>3, <2>4
<1>5. CASE ~LoadPublish(q) /\ ~ScanAvailable(q)
  <2>1. pc[q] \in Scanning /\ current'[q] = current[q] /\ ahead'[q] = ahead[q]
    BY <1>2, <1>5
  <2>2. /\ current[q] <= publishCursor /\ current[q] <= ahead[q] /\ ahead[q] <= current[q] + Size
        /\ current[q] = publishCursor => \A j \in current[q] .. ahead[q] - 1 : SeenBy(q, j)
    BY <2>1 DEF IInv, ScanInv
  <2>3. current[q] \in Nat /\ ahead[q] \in Nat
    BY DEF IInv, TypeOK
  <2>4. ASSUME current[q] = publishCursor', NEW j \in current[q] .. ahead[q] - 1 PROVE SeenBy(q, j)'
    <3>1. current[q] = publishCursor
      BY <1>1, <2>2, <2>3, <2>4
    <3>2. SeenBy(q, j) /\ j \in Nat /\ publishCursor <= j /\ j < publishCursor + Size
      BY <1>1, <2>2, <2>3, <2>4, <3>1
    <3> QED
      BY <3>2, SeenStays
  <2> QED
    BY <1>1, <2>1, <2>2, <2>3, <2>4
<1> QED
  BY <1>3, <1>4, <1>5

(* The invariant holds at the start.                                       *)
LEMMA InitIInv == Init => IInv
<1> SUFFICES ASSUME Init PROVE IInv
  OBVIOUS
<1>1. TypeOK
  BY SizeMaxType, EmptySeq DEF Init, TypeOK
<1>2. CursorInv /\ ReadInv /\ NoneForgotten
  BY MultiRingAssumption DEF Init, CursorInv, ReadInv, NoneForgotten
<1>3. ClaimInv /\ ScanInv
  BY DEF Init, ClaimInv, ScanInv, Scanning
<1>4. \A p \in Producers : Reserved(p) = {}
  BY DEF Init, Reserved
<1>5. \A p \in Producers : DOMAIN pending[p] = {}
  BY DEF Init
<1>6. SpanInv /\ MarkInv
  BY <1>4, <1>5 DEF Init, SpanInv, MarkInv
<1> QED
  BY <1>1, <1>2, <1>3, <1>6 DEF IInv

(* Every step from a position below the end of the word keeps it.          *)
LEMMA Inductive == ASSUME IInv, NoWrap, [Next]_vars PROVE IInv'
BY TypeOKStep, CursorStep, ClaimStep, MemoryStep, ScanStep DEF IInv, MemoryInv

(* It holds for ever as long as positions do not come near 2^w.            *)
LEMMA Reachable == Spec /\ []NoWrap => []IInv
BY InitIInv, Inductive, PTL DEF Spec

(***************************************************************************)
(* Writers never share a slot, no slot is written before the last reader   *)
(* has consumed it, and a reader finds every position up to the publish    *)
(* cursor as its writer left it, in whatever order the writers reserve,    *)
(* write, mark and publish, however long a core keeps its marks to itself, *)
(* and whichever writer last set the hint about the readers.               *)
(***************************************************************************)
THEOREM ReadersSeeWhatWasWritten == Spec /\ []NoWrap => []UnreadIntact
<1>1. ASSUME IInv PROVE UnreadIntact
  <2>1. ASSUME NEW p \in Producers, NEW q \in Producers, p # q, NEW i \in Reserved(p), NEW j \in Reserved(q)
        PROVE  Index(i) # Index(j)
    <3>1. i \in Nat /\ j \in Nat
      BY <2>1, <1>1, Positions DEF IInv
    <3>2. /\ publishCursor <= i /\ i < reserveCursor /\ j \notin Reserved(p)
          /\ publishCursor <= j /\ j < reserveCursor
      BY <2>1, <1>1 DEF IInv, SpanInv
    <3>3. i # j
      BY <3>2
    <3> QED
      BY <1>1, <3>1, <3>2, <3>3, ApartUnpublished DEF IInv
  <2>2. \A p, q \in Producers : p # q =>
            {Index(j) : j \in Reserved(p)} \cap {Index(j) : j \in Reserved(q)} = {}
    BY <2>1
  <2> QED
    BY <1>1, <2>2 DEF UnreadIntact, ReservationsExclusive, IInv, CursorInv, ReadInv
<1> QED
  BY <1>1, Reachable, PTL

(***************************************************************************)
(* No published sample is lost for good: when publish() has returned in    *)
(* every writer and the marks have become visible, every position between  *)
(* the cursors is marked, so that the next publish() moves the cursor past *)
(* them, even though the writer that left them there is gone.              *)
(***************************************************************************)
THEOREM MarksSurvive == Spec /\ []NoWrap => []NothingLost
<1>1. ASSUME IInv PROVE NothingLost
  <2> SUFFICES ASSUME \A p \in Producers : pc[p] = "idle" /\ pending[p] = <<>>,
                      NEW seq \in publishCursor .. reserveCursor - 1
               PROVE  available[Index(seq)] = seq
    BY DEF NothingLost
  <2>1. \A p \in Producers : Reserved(p) = {} /\ DOMAIN pending[p] = {}
    BY DEF Reserved
  <2> QED
    BY <1>1, <2>1 DEF IInv, NoneForgotten
<1> QED
  BY <1>1, Reachable, PTL

-----------------------------------------------------------------------------
(* The chunk buffer *)

(* The chunks of a pool, and the descriptors of blobs in them              *)
None == Chunks!None
Ids  == Chunks!Chunks
Descriptor == [chunk : Ids, from : Nat, to : Nat, id : Nat]

(* Types; every chunk has room for a standard blob, and the pool knows of  *)
(* at least as many chunks as there are.                                   *)
ChunkTyped ==
    /\ pub \in Nat /\ read \in [ChunkReaders -> Nat] /\ \A r \in ChunkReaders : read[r] <= pub
    /\ desc \in Seq(Descriptor) /\ Len(desc) = pub
    /\ blobs \in Seq(Descriptor) /\ slots \in Nat
    /\ DOMAIN memory \subseteq Ids /\ memory = [c \in DOMAIN memory |-> memory[c]]
    /\ \A c \in DOMAIN memory : memory[c] \in Seq(Nat) /\ Len(memory[c]) >= Fit
    /\ head \in Ids \cup {None} /\ headOffset \in Nat /\ headLastWritten \in Nat
    /\ sealed \in Seq([chunk : Ids, threshold : Nat])
    /\ free \in Seq(Ids)
    /\ resident \in Nat /\ Cardinality(DOMAIN memory) <= resident
    /\ blob \in Nat \ {0} /\ unread \subseteq ChunkReaders /\ minPos \in Nat /\ stores \in Nat

(* The guard excludes the producer and the housekeeper from each other.    *)
Locked ==
    /\ guard \in {"nobody", "producer", "housekeeper"}
    /\ wpc \in {"idle", "place", "copy"} /\ hpc \in {"idle", "scan", "sealed", "head", "reclaim"}
    /\ guard = "producer" <=> wpc # "idle"
    /\ guard = "housekeeper" <=> hpc # "idle"

(* The housekeeper's minimum is not ahead of the readers it has looked at. *)
Scanned ==
    /\ hpc \in {"sealed", "head", "reclaim"} => unread = {}
    /\ hpc = "scan" => unread # {}
    /\ hpc # "idle" => \A r \in ChunkReaders \ unread : minPos <= read[r]

(* A chunk is the head, or is sealed once, or is free once.                *)
Apart ==
    /\ head # None => head \in DOMAIN memory
    /\ \A i \in DOMAIN sealed : sealed[i].chunk \in DOMAIN memory /\ sealed[i].chunk # head
    /\ \A k \in DOMAIN free : free[k] \in DOMAIN memory /\ free[k] # head
    /\ \A i, j \in DOMAIN sealed : sealed[i].chunk = sealed[j].chunk => i = j
    /\ \A k, l \in DOMAIN free : free[k] = free[l] => k = l
    /\ \A i \in DOMAIN sealed, k \in DOMAIN free : sealed[i].chunk # free[k]

(* The blob that is about to be copied fits into the head.                 *)
Placed == wpc = "copy" => head # None /\ headOffset + blob <= Len(memory[head])

(* The blob of a descriptor at a position lies in a chunk that goes only   *)
(* when all readers are behind that position: the head, which was written  *)
(* for this or a later one, or a sealed chunk with a greater threshold.    *)
Lies(d, x) ==
    /\ d.chunk \in DOMAIN memory
    /\ \A i \in d.from..d.to : i \in DOMAIN memory[d.chunk] /\ memory[d.chunk][i] = d.id
    /\ \/ d.chunk = head /\ x <= headLastWritten /\ d.to <= headOffset
       \/ \E i \in DOMAIN sealed : d.chunk = sealed[i].chunk /\ x < sealed[i].threshold

(* Every blob that waits lies where its descriptor says, at the position   *)
(* that the descriptor has or will have.                                   *)
Kept ==
    /\ \A q \in 1..pub : (\E r \in ChunkReaders : read[r] < q) => Lies(desc[q], q - 1)
    /\ \A i \in DOMAIN blobs : Lies(blobs[i], pub + i - 1)

(* The inductive invariant of a chunk buffer.                              *)
ChunkInv == ChunkTyped /\ Locked /\ Scanned /\ Apart /\ Placed /\ Kept

(* A buffer without chunks.                                                *)
LEMMA ChunkInvInit == Chunks!Init => ChunkInv
<1> SUFFICES ASSUME Chunks!Init PROVE ChunkInv
  OBVIOUS
<1> USE DEF Chunks!Init
<1>1. DOMAIN memory = {} /\ memory = [c \in DOMAIN memory |-> memory[c]]
  OBVIOUS
<1>2. ChunkTyped
  BY <1>1, FS_EmptySet DEF ChunkTyped, None
<1>3. Locked /\ Scanned
  BY DEF Locked, Scanned
<1>4. Apart /\ Placed /\ Kept
  BY <1>1 DEF Apart, Placed, Kept, None
<1> QED
  BY <1>2, <1>3, <1>4 DEF ChunkInv

(* Steps that touch neither chunks nor descriptors.                        *)
LEMMA ChunksLie ==
    ASSUME Kept, Apart, UNCHANGED <<pub, read, desc, memory, head, headOffset, headLastWritten, sealed, free>>,
           UNCHANGED blobs \/ blobs' = <<>>
    PROVE  Kept' /\ Apart'
BY DEF Kept, Apart, Lies

(* tryReserve()                                                            *)
LEMMA ReserveKeepsChunks == ASSUME ChunkInv, NEW n \in 1..Capacity, Chunks!Reserve(n) PROVE ChunkInv'
<1>1. /\ slots' = n /\ blobs' = <<>>
      /\ UNCHANGED <<pub, read, desc, memory, head, headOffset, headLastWritten, sealed, free, resident,
                     guard, wpc, blob, hpc, unread, minPos, stores>>
  BY DEF Chunks!Reserve, Chunks!ring, Chunks!pool, Chunks!chain
<1>2. n \in Nat
  BY ChunkAssumption DEF Chunks!ChunkConstants
<1>3. Kept' /\ Apart'
  BY <1>1, ChunksLie DEF ChunkInv
<1>4. ChunkTyped'
  BY <1>1, <1>2 DEF ChunkInv, ChunkTyped
<1>5. Locked' /\ Scanned' /\ Placed'
  BY <1>1 DEF ChunkInv, Locked, Scanned, Placed
<1> QED
  BY <1>3, <1>4, <1>5 DEF ChunkInv

(* storeBlob() takes the guard.                                            *)
LEMMA GuardKeepsChunks == ASSUME ChunkInv, NEW n \in Chunks!Lengths, Chunks!Guard(n) PROVE ChunkInv'
<1>1. /\ guard = "nobody" /\ guard' = "producer" /\ wpc' = "place" /\ blob' = n /\ stores' = stores + 1
      /\ UNCHANGED <<pub, read, desc, blobs, slots, memory, head, headOffset, headLastWritten, sealed, free, resident,
                     hpc, unread, minPos>>
  BY DEF Chunks!Guard, Chunks!ring, Chunks!pool, Chunks!chain
<1>2. n \in Nat \ {0}
  BY ChunkAssumption DEF Chunks!ChunkConstants, Chunks!Lengths
<1>3. Kept' /\ Apart'
  BY <1>1, ChunksLie DEF ChunkInv
<1>4. ChunkTyped'
  BY <1>1, <1>2 DEF ChunkInv, ChunkTyped
<1>5. Locked' /\ Scanned' /\ Placed'
  BY <1>1 DEF ChunkInv, Locked, Scanned, Placed
<1> QED
  BY <1>3, <1>4, <1>5 DEF ChunkInv

(* houseKeeping() takes the guard.                                         *)
LEMMA TryGuardKeepsChunks == ASSUME ChunkInv, NEW d, Chunks!TryGuard(d) PROVE ChunkInv'
<1>1. /\ guard = "nobody" /\ guard' = "housekeeper" /\ hpc = "idle" /\ hpc' = "scan"
      /\ unread' = ChunkReaders /\ minPos' = pub
      /\ UNCHANGED <<pub, read, desc, blobs, slots, memory, head, headOffset, headLastWritten, sealed, free, resident,
                     wpc, blob, stores>>
  BY DEF Chunks!TryGuard, Chunks!house, Chunks!ring, Chunks!pool, Chunks!chain
<1>2. ChunkReaders # {}
  BY ChunkAssumption DEF Chunks!ChunkConstants
<1>3. Kept' /\ Apart'
  BY <1>1, ChunksLie DEF ChunkInv
<1>4. ChunkTyped'
  BY <1>1 DEF ChunkInv, ChunkTyped
<1>5. Locked' /\ Scanned' /\ Placed'
  BY <1>1, <1>2 DEF ChunkInv, Locked, Scanned, Placed
<1> QED
  BY <1>3, <1>4, <1>5 DEF ChunkInv

(* The scan of the readers' cursors.                                       *)
LEMMA ScanKeepsChunks == ASSUME ChunkInv, NEW r \in ChunkReaders, Chunks!Scan(r) PROVE ChunkInv'
<1>1. /\ hpc = "scan" /\ r \in unread /\ unread' = unread \ {r}
      /\ minPos' = IF read[r] < minPos \/ unread = ChunkReaders THEN read[r] ELSE minPos
      /\ hpc' = IF unread' = {} THEN "sealed" ELSE hpc
      /\ UNCHANGED <<pub, read, desc, blobs, slots, memory, head, headOffset, headLastWritten, sealed, free, resident,
                     guard, wpc, blob, stores>>
  BY DEF Chunks!Scan, Chunks!house, Chunks!ring, Chunks!pool, Chunks!chain
<1>2. \A q \in ChunkReaders : read[q] \in Nat /\ minPos \in Nat
  BY DEF ChunkInv, ChunkTyped
<1>3. Kept' /\ Apart'
  BY <1>1, ChunksLie DEF ChunkInv
<1>4. ChunkTyped'
  <2>1. minPos' \in Nat /\ unread' \subseteq ChunkReaders
    BY <1>1, <1>2 DEF ChunkInv, ChunkTyped
  <2> QED
    BY <1>1, <2>1 DEF ChunkInv, ChunkTyped
<1>5. Scanned'
  <2>1. \A q \in ChunkReaders \ unread' : minPos' <= read[q]
    <3>1. \A q \in ChunkReaders \ unread : minPos <= read[q]
      BY <1>1 DEF ChunkInv, Scanned
    <3> QED
      BY <1>1, <1>2, <3>1
  <2> QED
    BY <1>1, <2>1 DEF Scanned
<1>6. Locked' /\ Placed'
  BY <1>1 DEF ChunkInv, Locked, Placed
<1> QED
  BY <1>3, <1>4, <1>5, <1>6 DEF ChunkInv

(* A reader that moves on pins less.                                       *)
LEMMA ConsumeKeepsChunks == ASSUME ChunkInv, NEW r \in ChunkReaders, Chunks!Consume(r) PROVE ChunkInv'
<1>1. /\ read[r] < pub /\ read' = [read EXCEPT ![r] = @ + 1]
      /\ UNCHANGED <<pub, desc, blobs, slots, memory, head, headOffset, headLastWritten, sealed, free, resident,
                     guard, wpc, blob, hpc, unread, minPos, stores>>
  BY DEF Chunks!Consume, Chunks!pool, Chunks!chain
<1>2. /\ \A q \in ChunkReaders : read[q] \in Nat /\ read'[q] \in Nat /\ read[q] <= read'[q] /\ read'[q] <= pub
      /\ read' \in [ChunkReaders -> Nat] /\ pub \in Nat /\ minPos \in Nat
  BY <1>1, SMTT(60) DEF ChunkInv, ChunkTyped
<1>3. ChunkTyped'
  BY <1>1, <1>2 DEF ChunkInv, ChunkTyped
<1>4. Scanned'
  BY <1>1, <1>2 DEF ChunkInv, Scanned
<1>5. Kept'
  <2>1. \A d, x : Lies(d, x) => Lies(d, x)'
    BY <1>1 DEF Lies
  <2>2. ASSUME NEW q \in 1..pub, NEW p \in ChunkReaders, read'[p] < q PROVE read[p] < q
    BY <1>2, <2>2
  <2> QED
    BY <1>1, <2>1, <2>2 DEF ChunkInv, Kept
<1>6. Locked' /\ Apart' /\ Placed'
  BY <1>1 DEF ChunkInv, Locked, Apart, Placed
<1> QED
  BY <1>3, <1>4, <1>5, <1>6 DEF ChunkInv

(* Published descriptors keep the positions they were stored for.          *)
LEMMA PublishKeepsChunks == ASSUME ChunkInv, NEW n \in 0..Len(blobs), Chunks!Publish(n) PROVE ChunkInv'
<1>1. /\ wpc = "idle" /\ n <= Len(blobs) /\ pub' = pub + n /\ desc' = desc \o SubSeq(blobs, 1, n)
      /\ slots' = 0 /\ blobs' = <<>>
      /\ UNCHANGED <<read, memory, head, headOffset, headLastWritten, sealed, free, resident,
                     guard, wpc, blob, hpc, unread, minPos, stores>>
  BY DEF Chunks!Publish, Chunks!pool, Chunks!chain
<1>2. /\ pub \in Nat /\ desc \in Seq(Descriptor) /\ Len(desc) = pub /\ blobs \in Seq(Descriptor) /\ n \in Nat
      /\ \A r \in ChunkReaders : read[r] \in Nat /\ read[r] <= pub
  BY DEF ChunkInv, ChunkTyped
<1>3. PICK few : few = SubSeq(blobs, 1, n)
  OBVIOUS
<1>4. few \in Seq(Descriptor) /\ Len(few) = n /\ \A i \in 1..n : few[i] = blobs[i]
  BY <1>1, <1>2, <1>3
<1>5. /\ desc' \in Seq(Descriptor) /\ Len(desc') = pub + n
      /\ \A q \in 1..pub : desc'[q] = desc[q]
      /\ \A q \in pub + 1..pub + n : desc'[q] = blobs[q - pub]
  <2>1. desc' = desc \o few
    BY <1>1, <1>3
  <2>2. desc \o few \in Seq(Descriptor) /\ Len(desc \o few) = pub + n
    BY <1>2, <1>4
  <2>3. \A q \in 1..pub : desc'[q] = desc[q]
    BY <1>2, <1>4, <2>1
  <2>4. \A q \in pub + 1..pub + n : q - pub \in 1..n /\ desc'[q] = few[q - pub]
    BY <1>2, <1>4, <2>1
  <2> QED
    BY <1>4, <2>1, <2>2, <2>3, <2>4
<1>6. ChunkTyped'
  <2>1. pub' \in Nat /\ \A r \in ChunkReaders : read'[r] <= pub'
    BY <1>1, <1>2
  <2>2. desc' \in Seq(Descriptor) /\ Len(desc') = pub' /\ blobs' \in Seq(Descriptor) /\ slots' \in Nat
    BY <1>1, <1>5
  <2> QED
    BY <1>1, <2>1, <2>2 DEF ChunkInv, ChunkTyped
<1>7. Kept'
  <2>1. \A d, x : Lies(d, x) => Lies(d, x)'
    BY <1>1 DEF Lies
  <2>2. ASSUME NEW q \in 1..pub', \E r \in ChunkReaders : read'[r] < q PROVE Lies(desc'[q], q - 1)
    <3>1. CASE q \in 1..pub
      BY <1>1, <1>5, <2>2, <3>1 DEF ChunkInv, Kept
    <3>2. CASE q \notin 1..pub
      <4>1. q \in pub + 1..pub + n /\ q - pub \in DOMAIN blobs
        BY <1>1, <1>2, <3>2
      <4>2. Lies(blobs[q - pub], pub + (q - pub) - 1)
        BY <4>1 DEF ChunkInv, Kept
      <4>3. pub + (q - pub) - 1 = q - 1
        BY <1>2, <4>1
      <4> QED
        BY <1>5, <4>1, <4>2, <4>3
    <3> QED
      BY <3>1, <3>2
  <2>3. DOMAIN blobs' = {}
    BY <1>1
  <2> QED
    BY <2>1, <2>2, <2>3 DEF Kept
<1>8. Locked' /\ Scanned' /\ Apart' /\ Placed'
  BY <1>1 DEF ChunkInv, Locked, Scanned, Apart, Placed
<1> QED
  BY <1>6, <1>7, <1>8 DEF ChunkInv

(* memcpy() writes behind the blobs that are in the head.                  *)
LEMMA CopyKeepsChunks == ASSUME ChunkInv, Chunks!Copy PROVE ChunkInv'
<1>1. PICK last, new :
         /\ last = pub + Len(blobs)
         /\ new = [chunk |-> head, from |-> headOffset + 1, to |-> headOffset + blob, id |-> stores]
  OBVIOUS
<1> DEFINE bytes == [i \in DOMAIN memory[head] |->
                        IF i \in headOffset + 1..headOffset + blob THEN stores ELSE memory[head][i]]
<1>2. /\ wpc = "copy" /\ wpc' = "idle" /\ guard' = "nobody"
      /\ memory' = [memory EXCEPT ![head] = bytes]
      /\ blobs' = Append(blobs, new)
      /\ headOffset' = headOffset + blob
      /\ headLastWritten' = last
      /\ UNCHANGED <<pub, read, desc, slots, head, sealed, free, resident, blob, hpc, unread, minPos, stores>>
  BY <1>1 DEF Chunks!Copy, Chunks!ring, Chunks!DescAbsPos
<1>3. /\ head \in DOMAIN memory /\ headOffset + blob <= Len(memory[head]) /\ head \in Ids
      /\ headOffset \in Nat /\ blob \in Nat \ {0} /\ stores \in Nat /\ pub \in Nat /\ blobs \in Seq(Descriptor)
      /\ memory[head] \in Seq(Nat) /\ DOMAIN memory \subseteq Ids /\ headLastWritten \in Nat
  BY <1>2 DEF ChunkInv, Placed, Apart, ChunkTyped
<1>4. new \in Descriptor
  BY <1>1, <1>3 DEF Descriptor
<1>5. /\ Len(bytes) = Len(memory[head]) /\ bytes \in Seq(Nat) /\ DOMAIN bytes = DOMAIN memory[head]
      /\ \A i \in DOMAIN memory[head] : i <= headOffset => bytes[i] = memory[head][i]
      /\ \A i \in headOffset + 1..headOffset + blob : i \in DOMAIN bytes /\ bytes[i] = stores
  <2>1. DOMAIN memory[head] = 1..Len(memory[head]) /\ Len(memory[head]) \in Nat
    BY <1>3
  <2>2. \A i \in 1..Len(memory[head]) : memory[head][i] \in Nat
    BY <1>3
  <2>3. bytes \in [1..Len(memory[head]) -> Nat]
    BY <1>3, <2>1, <2>2
  <2>4. Len(bytes) = Len(memory[head]) /\ bytes \in Seq(Nat) /\ DOMAIN bytes = DOMAIN memory[head]
    <3> HIDE DEF bytes
    <3> QED
      BY <2>1, <2>3
  <2>5. \A i \in DOMAIN memory[head] : i <= headOffset => bytes[i] = memory[head][i]
    BY <1>3, <2>1
  <2>6. \A i \in headOffset + 1..headOffset + blob : i \in DOMAIN bytes /\ bytes[i] = stores
    BY <1>3, <2>1
  <2> HIDE DEF bytes
  <2> QED
    BY <2>4, <2>5, <2>6
<1> HIDE DEF bytes
<1>6. /\ DOMAIN memory' = DOMAIN memory /\ memory'[head] = bytes
      /\ \A c \in DOMAIN memory : c # head => memory'[c] = memory[c]
      /\ memory' = [c \in DOMAIN memory' |-> memory'[c]]
  <2>1. memory = [c \in DOMAIN memory |-> memory[c]]
    BY DEF ChunkInv, ChunkTyped
  <2> QED
    BY <1>2, <1>3, <2>1
<1>7. /\ blobs' \in Seq(Descriptor) /\ Len(blobs') = Len(blobs) + 1 /\ blobs'[Len(blobs) + 1] = new
      /\ \A i \in DOMAIN blobs : blobs'[i] = blobs[i]
  BY <1>2, <1>3, <1>4
<1>8. ChunkTyped'
  <2>1. \A c \in DOMAIN memory' : memory'[c] \in Seq(Nat) /\ Len(memory'[c]) >= Fit
    BY <1>5, <1>6 DEF ChunkInv, ChunkTyped
  <2>2. headOffset' \in Nat /\ headLastWritten' \in Nat
    BY <1>1, <1>2, <1>3
  <2> QED
    BY <1>2, <1>6, <1>7, <2>1, <2>2 DEF ChunkInv, ChunkTyped
<1>9. Apart'
  BY <1>2, <1>6 DEF ChunkInv, Apart
<1>10. ASSUME NEW d \in Descriptor, NEW x \in Int, Lies(d, x), x < last PROVE Lies(d, x)'
  <2>1. d.chunk \in DOMAIN memory' /\ d.from \in Nat /\ d.to \in Nat
    BY <1>6, <1>10 DEF Lies, Descriptor
  <2>2. d.chunk = head => d.to <= headOffset
    BY <1>10 DEF Lies, ChunkInv, Apart
  <2>3. \A i \in d.from..d.to : i \in DOMAIN memory'[d.chunk] /\ memory'[d.chunk][i] = d.id
    <3>1. CASE d.chunk = head
      <4>1. ASSUME NEW i \in d.from..d.to PROVE i \in DOMAIN memory'[d.chunk] /\ memory'[d.chunk][i] = d.id
        <5>1. i \in DOMAIN memory[head] /\ memory[head][i] = d.id
          BY <1>10, <3>1 DEF Lies
        <5>2. i <= headOffset
          BY <1>3, <2>1, <2>2, <3>1
        <5>3. memory'[d.chunk] = bytes
          BY <1>6, <3>1
        <5> QED
          BY <1>5, <5>1, <5>2, <5>3
      <4> QED
        BY <4>1
    <3>2. CASE d.chunk # head
      BY <1>6, <1>10, <2>1, <3>2 DEF Lies
    <3> QED
      BY <3>1, <3>2
  <2>4. \/ d.chunk = head' /\ x <= headLastWritten' /\ d.to <= headOffset'
        \/ \E i \in DOMAIN sealed' : d.chunk = sealed'[i].chunk /\ x < sealed'[i].threshold
    <3>1. CASE d.chunk = head
      <4>1. last \in Int /\ headLastWritten' = last /\ headOffset' = headOffset + blob /\ head' = head
        BY <1>1, <1>2, <1>3
      <4>2. x <= last /\ d.to <= headOffset + blob
        BY <1>3, <1>10, <2>1, <2>2, <3>1, <4>1
      <4> QED
        BY <3>1, <4>1, <4>2
    <3>2. CASE d.chunk # head
      BY <1>2, <1>10, <3>2 DEF Lies
    <3> QED
      BY <3>1, <3>2
  <2> QED
    BY <2>1, <2>3, <2>4 DEF Lies
<1>11. Lies(new, last)'
  <2>1. \A i \in headOffset + 1..headOffset + blob : i \in DOMAIN memory'[head] /\ memory'[head][i] = stores
    BY <1>5, <1>6
  <2>2. new.chunk = head /\ new.from = headOffset + 1 /\ new.to = headOffset + blob /\ new.id = stores
    BY <1>1
  <2>3. last \in Nat /\ last <= headLastWritten' /\ head' = head /\ headOffset' = headOffset + blob
    BY <1>1, <1>2, <1>3
  <2>4. new.to <= headOffset'
    BY <1>3, <2>2, <2>3
  <2> QED
    BY <1>3, <1>6, <2>1, <2>2, <2>3, <2>4 DEF Lies
<1>12. Kept'
  <2>1. \A d \in Descriptor, x \in Int : Lies(d, x) /\ x < last => Lies(d, x)'
    BY <1>10
  <2>2. ASSUME NEW q \in 1..pub', \E r \in ChunkReaders : read'[r] < q PROVE Lies(desc[q], q - 1)'
    <3>1. PICK d \in Descriptor, x \in Int : d = desc[q] /\ x = q - 1
      BY <1>2, <2>2, SMTT(60) DEF ChunkInv, ChunkTyped
    <3>2. Lies(d, x)
      BY <1>2, <2>2, <3>1 DEF ChunkInv, Kept
    <3>3. x < last
      BY <1>1, <1>2, <1>3, <3>1
    <3>4. Lies(d, x)' /\ desc'[q] = d
      BY <1>2, <2>1, <3>1, <3>2, <3>3
    <3> QED
      BY <3>1, <3>4
  <2>3. ASSUME NEW i \in DOMAIN blobs' PROVE Lies(blobs[i], pub + i - 1)'
    <3>1. PICK d \in Descriptor, x \in Int : d = blobs'[i] /\ x = pub + i - 1
      BY <1>3, <1>7
    <3>2. Lies(d, x)'
      <4>1. CASE i \in DOMAIN blobs
        <5>1. Lies(d, x)
          BY <1>7, <3>1, <4>1 DEF ChunkInv, Kept
        <5>2. x < last
          BY <1>1, <1>3, <3>1, <4>1
        <5> QED
          BY <2>1, <5>1, <5>2
      <4>2. CASE i \notin DOMAIN blobs
        <5>1. i = Len(blobs) + 1
          BY <1>3, <1>7, <4>2
        <5>2. d = new /\ x = last
          BY <1>1, <1>3, <1>7, <3>1, <5>1
        <5> QED
          BY <1>11, <5>2
      <4> QED
        BY <4>1, <4>2
    <3>3. pub' = pub
      BY <1>2
    <3> QED
      BY <3>1, <3>2, <3>3
  <2> QED
    BY <2>2, <2>3 DEF Kept
<1>13. Locked' /\ Scanned' /\ Placed'
  BY <1>2 DEF ChunkInv, Locked, Scanned, Placed
<1> QED
  BY <1>8, <1>9, <1>12, <1>13 DEF ChunkInv

(* acquire() and acquireOversized(): the new head is a chunk that was free *)
(* or not there, big enough for the blob.                                  *)
LEMMA AcquireHeadGives ==
    ASSUME ChunkInv, NEW n \in Nat \ {0}, Chunks!AcquireHead(n)
    PROVE  /\ DOMAIN memory \subseteq DOMAIN memory' /\ \A c \in DOMAIN memory : memory'[c] = memory[c]
           /\ DOMAIN memory' \subseteq Ids /\ memory' = [c \in DOMAIN memory' |-> memory'[c]]
           /\ \A c \in DOMAIN memory' : memory'[c] \in Seq(Nat) /\ Len(memory'[c]) >= Fit
           /\ resident' \in Nat /\ Cardinality(DOMAIN memory') <= resident'
           /\ head' \in Ids \cup {None} /\ (head' # None => head' \in DOMAIN memory' /\ n <= Len(memory'[head']))
           /\ head' # None => head' # head /\ \A i \in DOMAIN sealed : sealed[i].chunk # head'
           /\ free' \in Seq(Ids)
           /\ \A k \in DOMAIN free' : free'[k] # head' /\ \E l \in DOMAIN free : free'[k] = free[l]
           /\ \A k, l \in DOMAIN free' : free'[k] = free'[l] => k = l
<1>1. Fit \in Nat /\ MaxChunks \in Nat
  BY ChunkAssumption DEF Chunks!ChunkConstants
<1>2. /\ DOMAIN memory \subseteq Ids /\ memory = [c \in DOMAIN memory |-> memory[c]]
      /\ \A c \in DOMAIN memory : memory[c] \in Seq(Nat) /\ Len(memory[c]) >= Fit
      /\ resident \in Nat /\ Cardinality(DOMAIN memory) <= resident /\ free \in Seq(Ids)
      /\ head \in Ids \cup {None} /\ (head # None => head \in DOMAIN memory)
      /\ \A i \in DOMAIN sealed : sealed[i].chunk \in DOMAIN memory
  BY DEF ChunkInv, ChunkTyped, Apart
<1>3. None \notin Ids /\ Ids = 1..MaxChunks
  BY <1>1 DEF None, Ids, Chunks!None, Chunks!Chunks
<1>4. CASE n <= Fit /\ free # <<>>
  <2>1. head' = Head(free) /\ free' = Tail(free) /\ UNCHANGED <<memory, resident>>
    BY <1>4 DEF Chunks!AcquireHead
  <2>2. 1 \in DOMAIN free /\ Head(free) = free[1] /\ free' \in Seq(Ids)
    BY <1>2, <1>4, <2>1
  <2>3. \A k \in DOMAIN free' : k + 1 \in DOMAIN free /\ k + 1 # 1 /\ free'[k] = free[k + 1]
    BY <1>2, <1>4, <2>1
  <2>4. DOMAIN free' \subseteq Nat
    BY <2>2
  <2>5. /\ \A k \in DOMAIN free : free[k] \in DOMAIN memory /\ free[k] # head
        /\ \A k, l \in DOMAIN free : free[k] = free[l] => k = l
        /\ \A i \in DOMAIN sealed, k \in DOMAIN free : sealed[i].chunk # free[k]
    BY DEF ChunkInv, Apart
  <2>6. head' = free[1] /\ head' \in DOMAIN memory /\ head' # head /\ head' \in Ids
        /\ \A i \in DOMAIN sealed : sealed[i].chunk # head'
    BY <1>2, <2>1, <2>2, <2>5
  <2>7. n <= Len(memory'[head'])
    <3>1. Len(memory[head']) >= Fit /\ Len(memory[head']) \in Nat
      BY <1>2, <2>6
    <3> QED
      BY <1>1, <1>4, <2>1, <3>1
  <2>8. \A k, l \in DOMAIN free' : free'[k] = free'[l] => k = l
    <3>1. \A k, l \in DOMAIN free' : free'[k] = free'[l] => k + 1 = l + 1
      BY <2>3, <2>5
    <3> QED
      BY <2>4, <3>1
  <2>9. \A k \in DOMAIN free' : free'[k] # head' /\ \E l \in DOMAIN free : free'[k] = free[l]
    BY <2>2, <2>3, <2>5, <2>6
  <2> QED
    BY <1>2, <2>1, <2>2, <2>6, <2>7, <2>8, <2>9
<1>5. CASE ~(n <= Fit /\ free # <<>>) /\ resident >= MaxChunks
  <2>1. head' = None /\ UNCHANGED <<memory, free, resident>>
    BY <1>5 DEF Chunks!AcquireHead, Chunks!Exhausted, Chunks!pool, None
  <2>2. /\ \A k, l \in DOMAIN free : free[k] = free[l] => k = l
        /\ \A k \in DOMAIN free : free[k] \in Ids
    BY <1>2 DEF ChunkInv, Apart
  <2> QED
    BY <1>2, <1>3, <2>1, <2>2
<1>6. CASE ~(n <= Fit /\ free # <<>>) /\ ~(resident >= MaxChunks)
  <2>1. PICK u, bytes : u = Chunks!Unused /\ bytes = [i \in 1..(IF n <= Fit THEN Fit ELSE n) |-> None]
    OBVIOUS
  <2>2. u \in Ids /\ u \notin DOMAIN memory
    <3>1. IsFiniteSet(Ids) /\ Cardinality(Ids) = MaxChunks
      BY <1>1, <1>3, FS_Interval
    <3>2. DOMAIN memory # Ids
      BY <1>1, <1>2, <1>6, <3>1
    <3>3. \E c \in Ids : c \notin DOMAIN memory
      BY <1>2, <3>2
    <3> QED
      BY <2>1, <3>3 DEF Chunks!Unused, Ids
  <2>3. /\ head' = u /\ resident' = resident + 1 /\ free' = free
        /\ memory' = [c \in DOMAIN memory \cup {u} |-> IF c = u THEN bytes ELSE memory[c]]
    BY <1>6, <2>1 DEF Chunks!AcquireHead, Chunks!Exhausted, Chunks!Fresh, None
  <2>4. bytes \in Seq(Nat) /\ Len(bytes) >= Fit /\ Len(bytes) >= n
    <3>1. PICK k \in Nat : k = (IF n <= Fit THEN Fit ELSE n) /\ k >= Fit /\ k >= n
      BY <1>1
    <3>2. bytes = [i \in 1..k |-> 0]
      BY <2>1, <3>1 DEF None, Chunks!None
    <3>3. bytes \in [1..k -> Nat]
      BY <3>2
    <3> QED
      BY <1>1, <3>1, <3>3
  <2>5. /\ DOMAIN memory' = DOMAIN memory \cup {u} /\ memory'[u] = bytes
        /\ \A c \in DOMAIN memory : memory'[c] = memory[c]
        /\ memory' = [c \in DOMAIN memory' |-> memory'[c]]
    BY <2>2, <2>3
  <2>6. resident' \in Nat /\ Cardinality(DOMAIN memory') <= resident'
    <3>1. IsFiniteSet(Ids)
      BY <1>1, <1>3, FS_Interval
    <3>2. IsFiniteSet(DOMAIN memory)
      BY <1>2, <3>1, FS_Subset
    <3>3. Cardinality(DOMAIN memory \cup {u}) = Cardinality(DOMAIN memory) + 1
      BY <2>2, <3>2, FS_AddElement
    <3>4. Cardinality(DOMAIN memory) \in Nat
      BY <3>2, FS_CardinalityType
    <3> QED
      BY <1>2, <2>3, <2>5, <3>3, <3>4
  <2>7. \A k \in DOMAIN free' : free'[k] # head' /\ \E l \in DOMAIN free : free'[k] = free[l]
    BY <2>2, <2>3 DEF ChunkInv, Apart
  <2>8. \A k, l \in DOMAIN free' : free'[k] = free'[l] => k = l
    BY <2>3 DEF ChunkInv, Apart
  <2>9. head' # head /\ \A i \in DOMAIN sealed : sealed[i].chunk # head'
    BY <1>2, <1>3, <2>2, <2>3
  <2>10. \A c \in DOMAIN memory' : memory'[c] \in Seq(Nat) /\ Len(memory'[c]) >= Fit
    BY <1>2, <2>4, <2>5
  <2>11. free' \in Seq(Ids) /\ DOMAIN memory' \subseteq Ids /\ head' \in DOMAIN memory' /\ n <= Len(memory'[head'])
    BY <1>2, <2>2, <2>3, <2>4, <2>5
  <2> QED
    BY <2>2, <2>3, <2>5, <2>6, <2>7, <2>8, <2>9, <2>10, <2>11
<1> QED
  BY <1>4, <1>5, <1>6

(* storeBlob() finds room in the head, or seals it and takes another.      *)
LEMMA PlaceKeepsChunks == ASSUME ChunkInv, Chunks!Place PROVE ChunkInv'
<1>1. /\ wpc = "place" /\ UNCHANGED <<pub, read, desc, blobs, slots, blob, hpc, unread, minPos, stores>>
  BY DEF Chunks!Place, Chunks!ring
<1>2. guard = "producer" /\ hpc = "idle"
  BY <1>1 DEF ChunkInv, Locked
<1>3. CASE head # None /\ headOffset + blob <= Len(memory[head])
  <2>1. /\ wpc' = "copy"
        /\ UNCHANGED <<memory, free, resident, head, headOffset, headLastWritten, sealed, guard>>
    BY <1>3 DEF Chunks!Place, Chunks!pool, Chunks!chain, Chunks!Bytes, None
  <2>2. Kept' /\ Apart'
    BY <1>1, <2>1, ChunksLie DEF ChunkInv
  <2>3. ChunkTyped'
    BY <1>1, <2>1 DEF ChunkInv, ChunkTyped
  <2>4. Locked' /\ Scanned' /\ Placed'
    BY <1>1, <1>2, <1>3, <2>1 DEF ChunkInv, Locked, Scanned, Placed
  <2> QED
    BY <2>2, <2>3, <2>4 DEF ChunkInv
<1>4. CASE ~(head # None /\ headOffset + blob <= Len(memory[head]))
  <2>1. PICK last : last = pub + Len(blobs)
    OBVIOUS
  <2>2. /\ sealed' = IF head = None THEN sealed ELSE Append(sealed, [chunk |-> head, threshold |-> last])
        /\ Chunks!AcquireHead(blob)
        /\ headOffset' = 0
        /\ wpc' = IF head' = None THEN "idle" ELSE "copy"
        /\ guard' = IF head' = None THEN "nobody" ELSE guard
        /\ headLastWritten' = headLastWritten
    BY <1>4, <2>1 DEF Chunks!Place, Chunks!DescAbsPos, Chunks!Bytes, None
  <2>3. /\ pub \in Nat /\ blobs \in Seq(Descriptor) /\ blob \in Nat \ {0} /\ last \in Nat
        /\ sealed \in Seq([chunk : Ids, threshold : Nat]) /\ head \in Ids \cup {None} /\ headLastWritten \in Nat
    BY <2>1 DEF ChunkInv, ChunkTyped
  <2>4. /\ DOMAIN memory \subseteq DOMAIN memory' /\ \A c \in DOMAIN memory : memory'[c] = memory[c]
        /\ DOMAIN memory' \subseteq Ids /\ memory' = [c \in DOMAIN memory' |-> memory'[c]]
        /\ \A c \in DOMAIN memory' : memory'[c] \in Seq(Nat) /\ Len(memory'[c]) >= Fit
        /\ resident' \in Nat /\ Cardinality(DOMAIN memory') <= resident'
        /\ head' \in Ids \cup {None} /\ (head' # None => head' \in DOMAIN memory' /\ blob <= Len(memory'[head']))
        /\ head' # None => head' # head /\ \A i \in DOMAIN sealed : sealed[i].chunk # head'
        /\ free' \in Seq(Ids)
        /\ \A k \in DOMAIN free' : free'[k] # head' /\ \E l \in DOMAIN free : free'[k] = free[l]
        /\ \A k, l \in DOMAIN free' : free'[k] = free'[l] => k = l
    BY <2>2, <2>3, AcquireHeadGives
  <2>5. /\ sealed' \in Seq([chunk : Ids, threshold : Nat])
        /\ \A i \in DOMAIN sealed : i \in DOMAIN sealed' /\ sealed'[i] = sealed[i]
        /\ \A i \in DOMAIN sealed' \ DOMAIN sealed :
              head # None /\ i = Len(sealed) + 1 /\ sealed'[i] = [chunk |-> head, threshold |-> last]
        /\ head # None => Len(sealed) + 1 \in DOMAIN sealed' \ DOMAIN sealed
    <3>1. CASE head = None
      BY <2>2, <2>3, <3>1
    <3>2. CASE head # None
      <4>1. PICK seal : seal = [chunk |-> head, threshold |-> last]
        OBVIOUS
      <4>2. seal \in [chunk : Ids, threshold : Nat]
        BY <2>3, <3>2, <4>1
      <4>3. sealed' = Append(sealed, seal)
        BY <2>2, <3>2, <4>1
      <4>4. sealed' \in Seq([chunk : Ids, threshold : Nat]) /\ Len(sealed') = Len(sealed) + 1
            /\ Len(sealed) \in Nat /\ DOMAIN sealed = 1..Len(sealed) /\ DOMAIN sealed' = 1..Len(sealed) + 1
        BY <2>3, <4>2, <4>3
      <4>5. \A i \in DOMAIN sealed : i \in DOMAIN sealed' /\ sealed'[i] = sealed[i]
        BY <2>3, <4>2, <4>3, <4>4
      <4>6. sealed'[Len(sealed) + 1] = seal
        BY <2>3, <4>2, <4>3, <4>4
      <4>7. \A i \in DOMAIN sealed' \ DOMAIN sealed : i = Len(sealed) + 1
        BY <4>4
      <4>8. Len(sealed) + 1 \in DOMAIN sealed' \ DOMAIN sealed
        BY <4>4
      <4> QED
        BY <3>2, <4>1, <4>4, <4>5, <4>6, <4>7, <4>8
    <3> QED
      BY <3>1, <3>2
  <2>6. ChunkTyped'
    BY <1>1, <2>2, <2>4, <2>5 DEF ChunkInv, ChunkTyped
  <2>7. Apart'
    <3>1. \A i \in DOMAIN sealed' : sealed'[i].chunk \in DOMAIN memory' /\ sealed'[i].chunk # head'
      <4>1. ASSUME NEW i \in DOMAIN sealed' PROVE sealed'[i].chunk \in DOMAIN memory /\ sealed'[i].chunk # head'
        <5>1. None \notin DOMAIN memory
          BY ChunkAssumption DEF ChunkInv, ChunkTyped, None, Ids, Chunks!None, Chunks!Chunks, Chunks!ChunkConstants
        <5>2. CASE i \in DOMAIN sealed
          BY <2>4, <2>5, <5>1, <5>2 DEF ChunkInv, Apart
        <5>3. CASE i \notin DOMAIN sealed
          BY <2>4, <2>5, <5>1, <5>3 DEF ChunkInv, Apart
        <5> QED
          BY <5>2, <5>3
      <4> QED
        BY <2>4, <4>1
    <3>2. \A i, j \in DOMAIN sealed' : sealed'[i].chunk = sealed'[j].chunk => i = j
      <4>1. ASSUME NEW i \in DOMAIN sealed', NEW j \in DOMAIN sealed', sealed'[i].chunk = sealed'[j].chunk PROVE i = j
        <5>1. CASE i \in DOMAIN sealed /\ j \in DOMAIN sealed
          BY <2>5, <4>1, <5>1 DEF ChunkInv, Apart
        <5>2. CASE i \in DOMAIN sealed /\ j \notin DOMAIN sealed
          BY <2>5, <4>1, <5>2 DEF ChunkInv, Apart
        <5>3. CASE i \notin DOMAIN sealed /\ j \in DOMAIN sealed
          BY <2>5, <4>1, <5>3 DEF ChunkInv, Apart
        <5>4. CASE i \notin DOMAIN sealed /\ j \notin DOMAIN sealed
          BY <2>5, <5>4
        <5> QED
          BY <5>1, <5>2, <5>3, <5>4
      <4> QED
        BY <4>1
    <3>3. \A k \in DOMAIN free' : free'[k] \in DOMAIN memory' /\ free'[k] # head'
      BY <2>4 DEF ChunkInv, Apart
    <3>4. \A i \in DOMAIN sealed', k \in DOMAIN free' : sealed'[i].chunk # free'[k]
      <4>1. ASSUME NEW i \in DOMAIN sealed', NEW k \in DOMAIN free' PROVE sealed'[i].chunk # free'[k]
        <5>1. PICK l \in DOMAIN free : free'[k] = free[l]
          BY <2>4
        <5>2. CASE i \in DOMAIN sealed
          BY <2>5, <5>1, <5>2 DEF ChunkInv, Apart
        <5>3. CASE i \notin DOMAIN sealed
          BY <2>5, <5>1, <5>3 DEF ChunkInv, Apart
        <5> QED
          BY <5>2, <5>3
      <4> QED
        BY <4>1
    <3> QED
      BY <2>4, <3>1, <3>2, <3>3, <3>4 DEF Apart
  <2>8. ASSUME NEW d \in Descriptor, NEW x \in Int, Lies(d, x), x < last PROVE Lies(d, x)'
    <3>1. /\ d.chunk \in DOMAIN memory' /\ memory'[d.chunk] = memory[d.chunk]
          /\ \A i \in d.from..d.to : i \in DOMAIN memory[d.chunk] /\ memory[d.chunk][i] = d.id
      BY <2>4, <2>8 DEF Lies
    <3>2. \E i \in DOMAIN sealed' : d.chunk = sealed'[i].chunk /\ x < sealed'[i].threshold
      <4>1. CASE d.chunk = head
        <5>1. head # None
          BY <4>1, ChunkAssumption DEF Descriptor, None, Ids, Chunks!None, Chunks!Chunks, Chunks!ChunkConstants
        <5> QED
          BY <2>5, <2>8, <4>1, <5>1
      <4>2. CASE d.chunk # head
        BY <2>5, <2>8, <4>2 DEF Lies
      <4> QED
        BY <4>1, <4>2
    <3> QED
      BY <3>1, <3>2 DEF Lies
  <2>9. Kept'
    <3>1. \A d \in Descriptor, x \in Int : Lies(d, x) /\ x < last => Lies(d, x)'
      BY <2>8
    <3>2. ASSUME NEW q \in 1..pub', \E r \in ChunkReaders : read'[r] < q PROVE Lies(desc[q], q - 1)'
      <4>1. PICK d \in Descriptor, x \in Int : d = desc[q] /\ x = q - 1
        BY <1>1, <3>2 DEF ChunkInv, ChunkTyped
      <4>2. Lies(d, x)
        BY <1>1, <3>2, <4>1 DEF ChunkInv, Kept
      <4>3. x < last
        BY <1>1, <2>1, <2>3, <4>1
      <4>4. Lies(d, x)' /\ desc'[q] = d
        BY <1>1, <3>1, <4>1, <4>2, <4>3
      <4> QED
        BY <4>1, <4>4
    <3>3. ASSUME NEW i \in DOMAIN blobs' PROVE Lies(blobs[i], pub + i - 1)'
      <4>1. PICK d \in Descriptor, x \in Int : d = blobs[i] /\ x = pub + i - 1
        BY <1>1, <2>3, <3>3
      <4>2. Lies(d, x)
        BY <1>1, <3>3, <4>1 DEF ChunkInv, Kept
      <4>3. x < last
        BY <1>1, <2>1, <2>3, <3>3, <4>1
      <4>4. Lies(d, x)' /\ blobs'[i] = d /\ pub' = pub
        BY <1>1, <3>1, <4>1, <4>2, <4>3
      <4> QED
        BY <4>1, <4>4
    <3> QED
      BY <3>2, <3>3 DEF Kept
  <2>10. Locked' /\ Scanned'
    BY <1>1, <1>2, <2>2 DEF ChunkInv, Locked, Scanned
  <2>11. Placed'
    BY <1>1, <2>2, <2>3, <2>4 DEF Placed
  <2> QED
    BY <2>6, <2>7, <2>9, <2>10, <2>11 DEF ChunkInv
<1> QED
  BY <1>3, <1>4

(* releaseChunk(): the chunk goes to the free list or back to upstream, and *)
(* every other one stays as it is.                                          *)
LEMMA ReleaseChunkGives ==
    ASSUME ChunkInv, NEW c \in DOMAIN memory, \A k \in DOMAIN free : free[k] # c, Chunks!ReleaseChunk(c)
    PROVE  /\ DOMAIN memory' \subseteq DOMAIN memory /\ memory' = [e \in DOMAIN memory' |-> memory'[e]]
           /\ \A e \in DOMAIN memory' : memory'[e] = memory[e]
           /\ \A e \in DOMAIN memory : e # c => e \in DOMAIN memory'
           /\ resident' \in Nat /\ Cardinality(DOMAIN memory') <= resident'
           /\ free' \in Seq(Ids)
           /\ \A k \in DOMAIN free' : free'[k] \in DOMAIN memory'
           /\ \A k \in DOMAIN free' : free'[k] = c \/ \E l \in DOMAIN free : free'[k] = free[l]
           /\ \A k, l \in DOMAIN free' : free'[k] = free'[l] => k = l
<1>1. /\ DOMAIN memory \subseteq Ids /\ memory = [e \in DOMAIN memory |-> memory[e]]
      /\ resident \in Nat /\ Cardinality(DOMAIN memory) <= resident /\ free \in Seq(Ids)
      /\ \A k \in DOMAIN free : free[k] \in DOMAIN memory
      /\ \A k, l \in DOMAIN free : free[k] = free[l] => k = l
  BY DEF ChunkInv, ChunkTyped, Apart
<1>2. CASE Chunks!Bytes(c) > Fit
  <2>1. memory' = [e \in DOMAIN memory \ {c} |-> memory[e]] /\ resident' = resident - 1 /\ free' = free
    BY <1>2 DEF Chunks!ReleaseChunk, Chunks!Without
  <2>2. /\ DOMAIN memory' = DOMAIN memory \ {c} /\ memory' = [e \in DOMAIN memory' |-> memory'[e]]
        /\ \A e \in DOMAIN memory' : memory'[e] = memory[e]
    BY <2>1
  <2>3. resident' \in Nat /\ Cardinality(DOMAIN memory') <= resident'
    <3>1. MaxChunks \in Nat
      BY ChunkAssumption DEF Chunks!ChunkConstants
    <3>2. IsFiniteSet(Ids)
      BY <3>1, FS_Interval DEF Ids, Chunks!Chunks
    <3>3. IsFiniteSet(DOMAIN memory)
      BY <1>1, <3>2, FS_Subset
    <3>4. Cardinality(DOMAIN memory \ {c}) = Cardinality(DOMAIN memory) - 1 /\ IsFiniteSet(DOMAIN memory \ {c})
      BY <3>3, FS_RemoveElement
    <3>5. Cardinality(DOMAIN memory \ {c}) \in Nat /\ Cardinality(DOMAIN memory) \in Nat
      BY <3>3, <3>4, FS_CardinalityType
    <3> QED
      BY <1>1, <2>1, <2>2, <3>4, <3>5
  <2> QED
    BY <1>1, <2>1, <2>2, <2>3
<1>3. CASE ~(Chunks!Bytes(c) > Fit)
  <2>1. free' = <<c>> \o free /\ UNCHANGED <<memory, resident>>
    BY <1>3 DEF Chunks!ReleaseChunk
  <2>2. <<c>> \in Seq(Ids) /\ Len(<<c>>) = 1 /\ free \in Seq(Ids)
    BY <1>1
  <2>3. free' \in Seq(Ids) /\ Len(free') = Len(free) + 1 /\ Len(free) \in Nat
    BY <2>1, <2>2
  <2>4. free'[1] = c /\ \A k \in 2..Len(free) + 1 : k - 1 \in DOMAIN free /\ free'[k] = free[k - 1]
    BY <2>1, <2>2, <2>3
  <2>5. \A k \in DOMAIN free' : k = 1 \/ k \in 2..Len(free) + 1
    BY <2>3
  <2>6. \A k, l \in DOMAIN free' : free'[k] = free'[l] => k = l
    <3>1. ASSUME NEW k \in DOMAIN free', NEW l \in DOMAIN free', free'[k] = free'[l] PROVE k = l
      <4>1. CASE k = 1 /\ l = 1
        BY <4>1
      <4>2. CASE k = 1 /\ l \in 2..Len(free) + 1
        BY <2>4, <3>1, <4>2
      <4>3. CASE k \in 2..Len(free) + 1 /\ l = 1
        BY <2>4, <3>1, <4>3
      <4>4. CASE k \in 2..Len(free) + 1 /\ l \in 2..Len(free) + 1
        <5>1. k - 1 = l - 1
          BY <1>1, <2>4, <3>1, <4>4
        <5> QED
          BY <2>3, <4>4, <5>1
      <4> QED
        BY <2>5, <4>1, <4>2, <4>3, <4>4
    <3> QED
      BY <3>1
  <2>7. \A k \in DOMAIN free' : free'[k] = c \/ \E l \in DOMAIN free : free'[k] = free[l]
    BY <2>4, <2>5
  <2> QED
    BY <1>1, <2>1, <2>3, <2>6, <2>7
<1> QED
  BY <1>2, <1>3

(* A descriptor that some reader has not consumed is not behind the         *)
(* housekeeper's minimum, so that what lies ahead of the minimum is kept.   *)
LEMMA KeptFromMinimum ==
    ASSUME ChunkInv, hpc \in {"sealed", "head", "reclaim"},
           UNCHANGED <<pub, read, desc, blobs>>,
           \A d \in Descriptor, x \in Nat : Lies(d, x) /\ minPos <= x => Lies(d, x)'
    PROVE  Kept'
<1>1. \A r \in ChunkReaders : minPos <= read[r] /\ read[r] <= pub /\ read[r] \in Nat
  BY DEF ChunkInv, Scanned, ChunkTyped
<1>2. ChunkReaders # {} /\ pub \in Nat /\ minPos \in Nat /\ desc \in Seq(Descriptor) /\ Len(desc) = pub /\ blobs \in Seq(Descriptor)
  BY ChunkAssumption DEF ChunkInv, ChunkTyped, Chunks!ChunkConstants
<1>3. ASSUME NEW q \in 1..pub', \E r \in ChunkReaders : read'[r] < q PROVE Lies(desc[q], q - 1)'
  <2>1. PICK d \in Descriptor, x \in Nat : d = desc[q] /\ x = q - 1
    BY <1>2
  <2>2. Lies(d, x)
    BY <1>3, <2>1 DEF ChunkInv, Kept
  <2>3. minPos <= x
    BY <1>1, <1>2, <1>3, <2>1
  <2>4. Lies(d, x)' /\ desc'[q] = d
    BY <2>1, <2>2, <2>3
  <2> QED
    BY <2>1, <2>4
<1>4. ASSUME NEW i \in DOMAIN blobs' PROVE Lies(blobs[i], pub + i - 1)'
  <2>1. PICK d \in Descriptor, x \in Nat : d = blobs[i] /\ x = pub + i - 1
    BY <1>2
  <2>2. Lies(d, x)
    BY <2>1 DEF ChunkInv, Kept
  <2>3. minPos <= x
    BY <1>1, <1>2, <2>1
  <2>4. Lies(d, x)' /\ blobs'[i] = d /\ pub' = pub
    BY <2>1, <2>2, <2>3
  <2> QED
    BY <2>1, <2>4
<1> QED
  BY <1>3, <1>4 DEF Kept

(* One turn of the loop over the sealed chunks                              *)
LEMMA ReleaseSealedKeepsChunks == ASSUME ChunkInv, Chunks!ReleaseSealed PROVE ChunkInv'
<1>1. /\ hpc = "sealed"
      /\ UNCHANGED <<pub, read, desc, blobs, slots, wpc, blob, stores, head, headOffset, headLastWritten, guard, unread, minPos>>
  BY DEF Chunks!ReleaseSealed, Chunks!house, Chunks!ring
<1>2. guard = "housekeeper" /\ wpc = "idle" /\ unread = {}
  BY <1>1 DEF ChunkInv, Locked, Scanned
<1>3. CASE sealed = <<>> \/ Chunks!Pinned
  <2>1. hpc' = "head" /\ UNCHANGED <<memory, free, resident, sealed>>
    BY <1>3 DEF Chunks!ReleaseSealed, Chunks!pool
  <2>2. Kept' /\ Apart'
    BY <1>1, <2>1, ChunksLie DEF ChunkInv
  <2>3. ChunkTyped'
    BY <1>1, <2>1 DEF ChunkInv, ChunkTyped
  <2>4. Locked' /\ Scanned' /\ Placed'
    BY <1>1, <1>2, <2>1 DEF ChunkInv, Locked, Scanned, Placed
  <2> QED
    BY <2>2, <2>3, <2>4 DEF ChunkInv
<1>4. CASE ~(sealed = <<>> \/ Chunks!Pinned)
  <2>1. PICK c : c = sealed[1].chunk
    OBVIOUS
  <2>2. sealed \in Seq([chunk : Ids, threshold : Nat]) /\ minPos \in Nat
    BY DEF ChunkInv, ChunkTyped
  <2>3. 1 \in DOMAIN sealed /\ Head(sealed) = sealed[1] /\ sealed[1].threshold \in Nat
    <3>1. Len(sealed) \in Nat /\ Len(sealed) > 0 /\ DOMAIN sealed = 1..Len(sealed)
      BY <1>4, <2>2
    <3>2. \A S : sealed \in Seq(S) => sealed[1] \in S
      BY <3>1
    <3>3. sealed[1] \in [chunk : Ids, threshold : Nat]
      BY <2>2, <3>2
    <3> QED
      BY <2>2, <3>1, <3>3
  <2>4. Chunks!ReleaseChunk(c) /\ sealed' = Tail(sealed) /\ hpc' = hpc
    BY <1>4, <2>1, <2>3 DEF Chunks!ReleaseSealed
  <2>5. sealed[1].threshold <= minPos
    BY <1>4, <2>2, <2>3 DEF Chunks!Pinned
  <2>6. c \in DOMAIN memory /\ c # head /\ (\A k \in DOMAIN free : free[k] # c)
    BY <2>1, <2>3 DEF ChunkInv, Apart
  <2>7. /\ DOMAIN memory' \subseteq DOMAIN memory /\ memory' = [e \in DOMAIN memory' |-> memory'[e]]
        /\ \A e \in DOMAIN memory' : memory'[e] = memory[e]
        /\ \A e \in DOMAIN memory : e # c => e \in DOMAIN memory'
        /\ resident' \in Nat /\ Cardinality(DOMAIN memory') <= resident'
        /\ free' \in Seq(Ids)
        /\ \A k \in DOMAIN free' : free'[k] \in DOMAIN memory'
        /\ \A k \in DOMAIN free' : free'[k] = c \/ \E l \in DOMAIN free : free'[k] = free[l]
        /\ \A k, l \in DOMAIN free' : free'[k] = free'[l] => k = l
    BY <2>4, <2>6, ReleaseChunkGives
  <2>8. /\ sealed' \in Seq([chunk : Ids, threshold : Nat])
        /\ \A i \in DOMAIN sealed' : i \in Nat /\ i + 1 \in DOMAIN sealed /\ i + 1 # 1 /\ sealed'[i] = sealed[i + 1]
        /\ \A i \in DOMAIN sealed : i # 1 => i - 1 \in DOMAIN sealed' /\ sealed'[i - 1] = sealed[i]
    <3>1. /\ sealed' \in Seq([chunk : Ids, threshold : Nat]) /\ Len(sealed') = Len(sealed) - 1
          /\ DOMAIN sealed' = 1..Len(sealed) - 1 /\ DOMAIN sealed = 1..Len(sealed) /\ Len(sealed) \in Nat
      BY <1>4, <2>2, <2>4
    <3>2. \A i \in DOMAIN sealed' : i \in Nat /\ i + 1 \in DOMAIN sealed /\ i + 1 # 1 /\ sealed'[i] = sealed[i + 1]
      BY <1>4, <2>2, <2>4, <3>1
    <3>3. \A i \in DOMAIN sealed : i # 1 => i - 1 \in DOMAIN sealed' /\ i - 1 + 1 = i
      BY <3>1
    <3> QED
      BY <3>1, <3>2, <3>3
  <2>9. ChunkTyped'
    <3>1. \A e \in DOMAIN memory' : memory'[e] \in Seq(Nat) /\ Len(memory'[e]) >= Fit
      BY <2>7 DEF ChunkInv, ChunkTyped
    <3>2. DOMAIN memory' \subseteq Ids
      BY <2>7 DEF ChunkInv, ChunkTyped
    <3> QED
      BY <1>1, <2>7, <2>8, <3>1, <3>2 DEF ChunkInv, ChunkTyped
  <2>10. Apart'
    <3>1. \A i, j \in DOMAIN sealed : sealed[i].chunk = sealed[j].chunk => i = j
      BY DEF ChunkInv, Apart
    <3>2. \A i \in DOMAIN sealed' : sealed'[i].chunk # c
      BY <2>1, <2>3, <2>8, <3>1
    <3>3. head' # None => head' \in DOMAIN memory'
      BY <1>1, <2>6, <2>7 DEF ChunkInv, Apart
    <3>4. \A i \in DOMAIN sealed' : sealed'[i].chunk \in DOMAIN memory' /\ sealed'[i].chunk # head'
      BY <1>1, <2>7, <2>8, <3>2 DEF ChunkInv, Apart
    <3>5. \A i, j \in DOMAIN sealed' : sealed'[i].chunk = sealed'[j].chunk => i = j
      <4>1. \A i, j \in DOMAIN sealed' : sealed'[i].chunk = sealed'[j].chunk => i + 1 = j + 1
        BY <2>8, <3>1
      <4> QED
        BY <2>8, <4>1
    <3>6. \A k \in DOMAIN free' : free'[k] \in DOMAIN memory' /\ free'[k] # head'
      BY <1>1, <2>6, <2>7 DEF ChunkInv, Apart
    <3>7. \A i \in DOMAIN sealed', k \in DOMAIN free' : sealed'[i].chunk # free'[k]
      BY <2>7, <2>8, <3>2 DEF ChunkInv, Apart
    <3> QED
      BY <2>7, <3>3, <3>4, <3>5, <3>6, <3>7 DEF Apart
  <2>11. Kept'
    <3>1. ASSUME NEW d \in Descriptor, NEW x \in Nat, Lies(d, x), minPos <= x PROVE Lies(d, x)'
      <4>1. d.chunk # c
        <5>1. \A i \in DOMAIN sealed : d.chunk = sealed[i].chunk /\ x < sealed[i].threshold => i # 1
          BY <2>2, <2>3, <2>5, <3>1
        <5>2. \A i, j \in DOMAIN sealed : sealed[i].chunk = sealed[j].chunk => i = j
          BY DEF ChunkInv, Apart
        <5> QED
          BY <2>1, <2>3, <2>6, <3>1, <5>1, <5>2 DEF Lies
      <4>2. /\ d.chunk \in DOMAIN memory' /\ memory'[d.chunk] = memory[d.chunk]
            /\ \A i \in d.from..d.to : i \in DOMAIN memory[d.chunk] /\ memory[d.chunk][i] = d.id
        BY <2>7, <3>1, <4>1 DEF Lies
      <4>3. \/ d.chunk = head' /\ x <= headLastWritten' /\ d.to <= headOffset'
            \/ \E i \in DOMAIN sealed' : d.chunk = sealed'[i].chunk /\ x < sealed'[i].threshold
        <5>1. CASE d.chunk = head /\ x <= headLastWritten /\ d.to <= headOffset
          BY <1>1, <5>1
        <5>2. ASSUME NEW i \in DOMAIN sealed, d.chunk = sealed[i].chunk, x < sealed[i].threshold
              PROVE  i - 1 \in DOMAIN sealed' /\ d.chunk = sealed'[i - 1].chunk /\ x < sealed'[i - 1].threshold
          BY <2>1, <2>8, <4>1, <5>2
        <5> QED
          BY <3>1, <5>1, <5>2 DEF Lies
      <4> QED
        BY <4>2, <4>3 DEF Lies
    <3>2. \A d \in Descriptor, x \in Nat : Lies(d, x) /\ minPos <= x => Lies(d, x)'
      BY <3>1
    <3> QED
      BY <1>1, <3>2, KeptFromMinimum
  <2>12. Locked' /\ Scanned' /\ Placed'
    BY <1>1, <1>2, <2>4 DEF ChunkInv, Locked, Scanned, Placed
  <2> QED
    BY <2>9, <2>10, <2>11, <2>12 DEF ChunkInv
<1> QED
  BY <1>3, <1>4

(* The head goes only when nothing that waits was written to it.            *)
LEMMA ReleaseHeadKeepsChunks == ASSUME ChunkInv, Chunks!ReleaseHead PROVE ChunkInv'
<1>1. /\ hpc = "head" /\ hpc' = "reclaim"
      /\ UNCHANGED <<pub, read, desc, blobs, slots, wpc, blob, stores, headLastWritten, sealed, guard, unread, minPos>>
  BY DEF Chunks!ReleaseHead, Chunks!house, Chunks!ring
<1>2. guard = "housekeeper" /\ wpc = "idle" /\ unread = {}
  BY <1>1 DEF ChunkInv, Locked, Scanned
<1>3. CASE ~(sealed = <<>> /\ head # None /\ minPos > headLastWritten)
  <2>1. UNCHANGED <<memory, free, resident, head, headOffset>>
    BY <1>3 DEF Chunks!ReleaseHead, Chunks!pool, None
  <2>2. Kept' /\ Apart'
    BY <1>1, <2>1, ChunksLie DEF ChunkInv
  <2>3. ChunkTyped'
    BY <1>1, <2>1 DEF ChunkInv, ChunkTyped
  <2>4. Locked' /\ Scanned' /\ Placed'
    BY <1>1, <1>2, <2>1 DEF ChunkInv, Locked, Scanned, Placed
  <2> QED
    BY <2>2, <2>3, <2>4 DEF ChunkInv
<1>4. CASE sealed = <<>> /\ head # None /\ minPos > headLastWritten
  <2>1. Chunks!ReleaseChunk(head) /\ head' = None /\ headOffset' = 0
    BY <1>4 DEF Chunks!ReleaseHead, None
  <2>2. head \in DOMAIN memory /\ (\A k \in DOMAIN free : free[k] # head)
    BY <1>4 DEF ChunkInv, Apart
  <2>3. /\ DOMAIN memory' \subseteq DOMAIN memory /\ memory' = [e \in DOMAIN memory' |-> memory'[e]]
        /\ \A e \in DOMAIN memory' : memory'[e] = memory[e]
        /\ \A e \in DOMAIN memory : e # head => e \in DOMAIN memory'
        /\ resident' \in Nat /\ Cardinality(DOMAIN memory') <= resident'
        /\ free' \in Seq(Ids)
        /\ \A k \in DOMAIN free' : free'[k] \in DOMAIN memory'
        /\ \A k \in DOMAIN free' : free'[k] = head \/ \E l \in DOMAIN free : free'[k] = free[l]
        /\ \A k, l \in DOMAIN free' : free'[k] = free'[l] => k = l
    BY <2>1, <2>2, ReleaseChunkGives
  <2>4. DOMAIN sealed = {} /\ minPos \in Nat /\ headLastWritten \in Nat
    BY <1>4 DEF ChunkInv, ChunkTyped
  <2>5. ChunkTyped'
    <3>1. \A e \in DOMAIN memory' : memory'[e] \in Seq(Nat) /\ Len(memory'[e]) >= Fit
      BY <2>3 DEF ChunkInv, ChunkTyped
    <3>2. DOMAIN memory' \subseteq Ids
      BY <2>3 DEF ChunkInv, ChunkTyped
    <3> QED
      BY <1>1, <2>1, <2>3, <3>1, <3>2 DEF ChunkInv, ChunkTyped
  <2>6. Apart'
    <3>1. None \notin DOMAIN memory
      BY ChunkAssumption DEF ChunkInv, ChunkTyped, None, Ids, Chunks!None, Chunks!Chunks, Chunks!ChunkConstants
    <3>2. \A k \in DOMAIN free' : free'[k] \in DOMAIN memory' /\ free'[k] # head'
      BY <2>1, <2>3, <3>1
    <3> QED
      BY <1>1, <2>1, <2>3, <2>4, <3>2 DEF Apart
  <2>7. Kept'
    <3>1. ASSUME NEW d \in Descriptor, NEW x \in Nat, Lies(d, x), minPos <= x PROVE FALSE
      BY <1>4, <2>4, <3>1 DEF Lies
    <3>2. \A d \in Descriptor, x \in Nat : Lies(d, x) /\ minPos <= x => Lies(d, x)'
      BY <3>1
    <3> QED
      BY <1>1, <3>2, KeptFromMinimum
  <2>8. Locked' /\ Scanned' /\ Placed'
    BY <1>1, <1>2, <2>4 DEF ChunkInv, Locked, Scanned, Placed
  <2> QED
    BY <2>5, <2>6, <2>7, <2>8 DEF ChunkInv
<1> QED
  BY <1>3, <1>4

(* A deep pass gives free chunks back to upstream; nothing waits in them.   *)
LEMMA ReclaimKeepsChunks == ASSUME ChunkInv, Chunks!Reclaim PROVE ChunkInv'
<1>1. /\ hpc = "reclaim" /\ hpc' = "idle" /\ guard' = "nobody"
      /\ UNCHANGED <<pub, read, desc, blobs, slots, wpc, blob, stores, head, headOffset, headLastWritten, sealed, unread, minPos>>
  BY DEF Chunks!Reclaim, Chunks!house, Chunks!ring, Chunks!chain
<1>2. guard = "housekeeper" /\ wpc = "idle" /\ unread = {}
  BY <1>1 DEF ChunkInv, Locked, Scanned
<1>3. Locked' /\ Scanned' /\ Placed'
  BY <1>1, <1>2 DEF ChunkInv, Locked, Scanned, Placed
<1>4. CASE depth # "deep"
  <2>1. UNCHANGED <<memory, free, resident>>
    BY <1>4 DEF Chunks!Reclaim, Chunks!pool
  <2>2. Kept' /\ Apart'
    BY <1>1, <2>1, ChunksLie DEF ChunkInv
  <2>3. ChunkTyped'
    BY <1>1, <2>1 DEF ChunkInv, ChunkTyped
  <2> QED
    BY <1>3, <2>2, <2>3 DEF ChunkInv
<1>5. CASE depth = "deep"
  <2>1. PICK n, gone :
           /\ n = IF Len(free) > KeepResident THEN Len(free) - KeepResident ELSE 0
           /\ gone = Chunks!ToSet(SubSeq(free, 1, n))
    OBVIOUS
  <2>2. /\ free' = SubSeq(free, n + 1, Len(free))
        /\ memory' = [c \in DOMAIN memory \ gone |-> memory[c]]
        /\ resident' = resident - n
    BY <1>5, <2>1 DEF Chunks!Reclaim, Chunks!ReclaimToUpstream, Chunks!Without
  <2>3. /\ DOMAIN memory \subseteq Ids /\ resident \in Nat /\ Cardinality(DOMAIN memory) <= resident
        /\ free \in Seq(Ids)
        /\ \A k \in DOMAIN free : free[k] \in DOMAIN memory /\ free[k] # head
        /\ \A k, l \in DOMAIN free : free[k] = free[l] => k = l
        /\ \A i \in DOMAIN sealed, k \in DOMAIN free : sealed[i].chunk # free[k]
    BY DEF ChunkInv, ChunkTyped, Apart
  <2>4. n \in Nat /\ n <= Len(free) /\ Len(free) \in Nat /\ DOMAIN free = 1..Len(free)
    BY <2>1, <2>3, ChunkAssumption DEF Chunks!ChunkConstants
  <2>5. gone = {free[i] : i \in 1..n}
    <3>1. PICK few : few = SubSeq(free, 1, n)
      OBVIOUS
    <3>2. Len(few) = n /\ DOMAIN few = 1..n /\ \A i \in 1..n : few[i] = free[i]
      BY <2>3, <2>4, <3>1
    <3>3. gone = {few[i] : i \in DOMAIN few}
      BY <2>1, <3>1 DEF Chunks!ToSet
    <3> QED
      BY <3>2, <3>3
  <2>6. gone \subseteq DOMAIN memory
    BY <2>3, <2>4, <2>5
  <2>7. IsFiniteSet(gone) /\ Cardinality(gone) = n
    <3> DEFINE f == [i \in 1..n |-> free[i]]
    <3>1. f \in [1..n -> gone] /\ (\A i, j \in 1..n : f[i] = f[j] => i = j) /\ \A c \in gone : \E i \in 1..n : f[i] = c
      BY <2>3, <2>4, <2>5
    <3> HIDE DEF f
    <3>2. f \in Bijection(1..n, gone)
      BY <3>1 DEF Bijection, Injection, Surjection, IsInjective
    <3>3. IsFiniteSet(1..n) /\ Cardinality(1..n) = n
      BY <2>4, FS_Interval
    <3> QED
      BY <3>2, <3>3, FS_Bijection DEF ExistsBijection
  <2>8. resident' \in Nat /\ Cardinality(DOMAIN memory \ gone) <= resident'
    <3>1. MaxChunks \in Nat
      BY ChunkAssumption DEF Chunks!ChunkConstants
    <3>2. IsFiniteSet(Ids)
      BY <3>1, FS_Interval DEF Ids, Chunks!Chunks
    <3>3. IsFiniteSet(DOMAIN memory)
      BY <2>3, <3>2, FS_Subset
    <3>4. IsFiniteSet(DOMAIN memory \ gone)
          /\ Cardinality(DOMAIN memory \ gone) = Cardinality(DOMAIN memory) - Cardinality(DOMAIN memory \cap gone)
      BY <3>3, FS_Difference
    <3>5. DOMAIN memory \cap gone = gone
      BY <2>6
    <3>6. Cardinality(DOMAIN memory \ gone) \in Nat /\ Cardinality(DOMAIN memory) \in Nat
      BY <3>3, <3>4, FS_CardinalityType
    <3>7. Cardinality(DOMAIN memory \ gone) = Cardinality(DOMAIN memory) - n
      BY <2>7, <3>4, <3>5
    <3> QED
      BY <2>2, <2>3, <2>4, <3>6, <3>7
  <2>9. /\ DOMAIN memory' = DOMAIN memory \ gone /\ memory' = [c \in DOMAIN memory' |-> memory'[c]]
        /\ \A c \in DOMAIN memory' : memory'[c] = memory[c]
    BY <2>2
  <2>10. /\ free' \in Seq(Ids)
         /\ \A k \in DOMAIN free' : k \in Nat /\ n + k \in DOMAIN free /\ n + k \notin 1..n /\ free'[k] = free[n + k]
    <3>1. n + 1 \in 1..Len(free) + 1
      BY <2>4
    <3>2. free' \in Seq(Ids) /\ Len(free') = Len(free) - n /\ DOMAIN free' = 1..Len(free) - n
      <4>1. free' \in Seq(Ids)
        BY <2>2, <2>3, <2>4, <3>1
      <4>2. \A s \in Seq(Ids), L, m \in Nat : Len(s) = L /\ m <= L => Len(SubSeq(s, m + 1, L)) = L - m
        OBVIOUS
      <4>3. Len(free') = Len(free) - n
        BY <2>2, <2>3, <2>4, <4>2
      <4> QED
        BY <2>4, <4>1, <4>3
    <3>3. \A k \in 1..Len(free) - n : k \in Nat /\ n + k \in DOMAIN free /\ n + k \notin 1..n
      BY <2>4
    <3>4. \A k \in 1..Len(free) - n : free'[k] = free[n + k]
      BY <2>2, <2>3, <2>4
    <3> QED
      BY <3>2, <3>3, <3>4
  <2>11. \A k \in DOMAIN free' : free'[k] \notin gone
    <3>1. \A l \in DOMAIN free : l \notin 1..n => free[l] \notin gone
      BY <2>3, <2>4, <2>5
    <3> QED
      BY <2>10, <3>1
  <2>12. ChunkTyped'
    <3>1. \A e \in DOMAIN memory' : memory'[e] \in Seq(Nat) /\ Len(memory'[e]) >= Fit
      BY <2>9 DEF ChunkInv, ChunkTyped
    <3>2. DOMAIN memory' \subseteq Ids
      BY <2>3, <2>9
    <3> QED
      BY <1>1, <2>8, <2>9, <2>10, <3>1, <3>2 DEF ChunkInv, ChunkTyped
  <2>13. (head # None => head \notin gone) /\ \A i \in DOMAIN sealed : sealed[i].chunk \notin gone
    BY <2>3, <2>4, <2>5
  <2>14. Apart'
    <3>1. \A k, l \in DOMAIN free' : free'[k] = free'[l] => k = l
      <4>1. \A k, l \in DOMAIN free' : free'[k] = free'[l] => n + k = n + l
        BY <2>3, <2>10
      <4> QED
        BY <2>4, <2>10, <4>1
    <3>2. \A k \in DOMAIN free' : free'[k] \in DOMAIN memory' /\ free'[k] # head'
      BY <1>1, <2>3, <2>9, <2>10, <2>11
    <3>3. \A i \in DOMAIN sealed', k \in DOMAIN free' : sealed'[i].chunk # free'[k]
      BY <1>1, <2>3, <2>10
    <3>4. head' # None => head' \in DOMAIN memory'
      BY <1>1, <2>9, <2>13 DEF ChunkInv, Apart
    <3>5. /\ \A i \in DOMAIN sealed' : sealed'[i].chunk \in DOMAIN memory' /\ sealed'[i].chunk # head'
          /\ \A i, j \in DOMAIN sealed' : sealed'[i].chunk = sealed'[j].chunk => i = j
      BY <1>1, <2>9, <2>13 DEF ChunkInv, Apart
    <3> QED
      BY <3>1, <3>2, <3>3, <3>4, <3>5 DEF Apart
  <2>15. Kept'
    <3>1. ASSUME NEW d \in Descriptor, NEW x \in Nat, Lies(d, x), minPos <= x PROVE Lies(d, x)'
      <4>1. None \notin DOMAIN memory
        BY ChunkAssumption DEF ChunkInv, ChunkTyped, None, Ids, Chunks!None, Chunks!Chunks, Chunks!ChunkConstants
      <4>2. d.chunk \notin gone
        BY <2>13, <3>1, <4>1 DEF Lies
      <4> QED
        BY <1>1, <2>9, <3>1, <4>2 DEF Lies
    <3>2. \A d \in Descriptor, x \in Nat : Lies(d, x) /\ minPos <= x => Lies(d, x)'
      BY <3>1
    <3> QED
      BY <1>1, <3>2, KeptFromMinimum
  <2> QED
    BY <1>3, <2>12, <2>14, <2>15 DEF ChunkInv
<1> QED
  BY <1>4, <1>5

(* Every step of a chunk buffer                                             *)
LEMMA ChunkStep == ChunkInv /\ Chunks!Next => ChunkInv'
<1> SUFFICES ASSUME ChunkInv, Chunks!Next PROVE ChunkInv'
  OBVIOUS
<1>1. ASSUME NEW n \in 1..Capacity, Chunks!Reserve(n) PROVE ChunkInv'
  BY <1>1, ReserveKeepsChunks
<1>2. ASSUME NEW n \in Chunks!Lengths, Chunks!Guard(n) PROVE ChunkInv'
  BY <1>2, GuardKeepsChunks
<1>3. CASE Chunks!Place
  BY <1>3, PlaceKeepsChunks
<1>4. CASE Chunks!Copy
  BY <1>4, CopyKeepsChunks
<1>5. ASSUME NEW n \in 0..Len(blobs), Chunks!Publish(n) PROVE ChunkInv'
  BY <1>5, PublishKeepsChunks
<1>6. ASSUME NEW r \in ChunkReaders, Chunks!Consume(r) PROVE ChunkInv'
  BY <1>6, ConsumeKeepsChunks
<1>7. ASSUME NEW r \in ChunkReaders, Chunks!Scan(r) PROVE ChunkInv'
  BY <1>7, ScanKeepsChunks
<1>8. ASSUME NEW d \in {"shallow", "deep"}, Chunks!TryGuard(d) PROVE ChunkInv'
  BY <1>8, TryGuardKeepsChunks
<1>9. CASE Chunks!ReleaseSealed
  BY <1>9, ReleaseSealedKeepsChunks
<1>10. CASE Chunks!ReleaseHead
  BY <1>10, ReleaseHeadKeepsChunks
<1>11. CASE Chunks!Reclaim
  BY <1>11, ReclaimKeepsChunks
<1> QED
  BY <1>1, <1>2, <1>3, <1>4, <1>5, <1>6, <1>7, <1>8, <1>9, <1>10, <1>11 DEF Chunks!Next

(* The invariant speaks of the variables of the chunk buffer alone.         *)
LEMMA ChunkStutter == ChunkInv /\ UNCHANGED chunkVars => ChunkInv'
<1> SUFFICES ASSUME ChunkInv, UNCHANGED chunkVars PROVE ChunkInv'
  OBVIOUS
<1> USE DEF chunkVars
<1>1. Kept' /\ Apart'
  BY ChunksLie DEF ChunkInv
<1>2. ChunkTyped'
  BY DEF ChunkInv, ChunkTyped
<1>3. Locked' /\ Scanned' /\ Placed'
  BY DEF ChunkInv, Locked, Scanned, Placed
<1> QED
  BY <1>1, <1>2, <1>3 DEF ChunkInv

(* Some reader is the slowest.                                              *)
LEMMA SlowestReads == ChunkInv => \E r \in ChunkReaders : Chunks!Slowest = read[r]
<1> SUFFICES ASSUME ChunkInv PROVE \E r \in ChunkReaders : Chunks!Slowest = read[r]
  OBVIOUS
<1>1. PICK cursors : cursors = {read[r] : r \in ChunkReaders}
  OBVIOUS
<1>2. cursors \subseteq Nat /\ cursors # {}
  BY <1>1, ChunkAssumption DEF ChunkInv, ChunkTyped, Chunks!ChunkConstants
<1>3. PICK p \in cursors : \A q \in cursors : ~(<<q, p>> \in {ss \in Nat \X Nat : ss[1] < ss[2]})
  <2>1. IsWellFoundedOn({ss \in Nat \X Nat : ss[1] < ss[2]}, Nat)
    BY NatLessThanWellFounded DEF OpToRel
  <2> QED
    BY WFMin, <1>2, <2>1, Zenon
<1>4. ASSUME NEW q \in cursors PROVE p <= q
  <2>1. q \in Nat /\ p \in Nat
    BY <1>2
  <2>2. ASSUME q < p PROVE <<q, p>> \in {ss \in Nat \X Nat : ss[1] < ss[2]}
    BY <2>1, <2>2
  <2> QED
    BY <1>3, <2>1, <2>2
<1>5. Chunks!Slowest \in cursors
  <2>1. Chunks!Slowest = CHOOSE x \in cursors : \A q \in cursors : x <= q
    BY <1>1 DEF Chunks!Slowest, Chunks!SlowestOf
  <2> QED
    BY <1>3, <1>4, <2>1
<1> QED
  BY <1>1, <1>5

(* The invariant puts every waiting blob where its descriptor says.         *)
LEMMA ChunksHold == ChunkInv => BlobIntact
<1> SUFFICES ASSUME ChunkInv, NEW d \in Chunks!Pending
             PROVE  /\ d.chunk \in DOMAIN memory /\ ~Chunks!Contains(free, d.chunk)
                    /\ \A i \in d.from..d.to : i \in DOMAIN memory[d.chunk] /\ memory[d.chunk][i] = d.id
  BY DEF BlobIntact, Chunks!BlobIntact
<1>1. \E x : Lies(d, x)
  <2>1. CASE \E q \in Chunks!Slowest + 1..pub : d = desc[q]
    <3>1. PICK q \in Chunks!Slowest + 1..pub : d = desc[q]
      BY <2>1
    <3>2. PICK r \in ChunkReaders : Chunks!Slowest = read[r] /\ read[r] \in Nat /\ pub \in Nat
      BY SlowestReads DEF ChunkInv, ChunkTyped
    <3>3. q \in 1..pub /\ read[r] < q
      BY <3>2
    <3> QED
      BY <3>1, <3>3 DEF ChunkInv, Kept
  <2>2. CASE \E i \in DOMAIN blobs : d = blobs[i]
    BY <2>2 DEF ChunkInv, Kept
  <2> QED
    BY <2>1, <2>2 DEF Chunks!Pending, Chunks!ToSet
<1>2. PICK x : Lies(d, x)
  BY <1>1
<1>3. ~Chunks!Contains(free, d.chunk)
  <2>1. \A k \in DOMAIN free : free[k] # d.chunk
    BY <1>2 DEF Lies, ChunkInv, Apart
  <2>2. DOMAIN free = 1..Len(free)
    BY DEF ChunkInv, ChunkTyped
  <2> QED
    BY <2>1, <2>2 DEF Chunks!Contains
<1> QED
  BY <1>2, <1>3 DEF Lies

(* Whatever houseKeeping() releases and storeBlob() takes again, of the head, *)
(* the sealed chunks, the free list and upstream, the blob of a descriptor  *)
(* stays in its chunk, out of the free list, until every reader has         *)
(* consumed the descriptor.                                                 *)
THEOREM BlobsStay == BuffersSpec => []BlobIntact
<1>1. BuffersInit => ChunkInv
  BY ChunkInvInit DEF BuffersInit
<1>2. ChunkInv /\ [BuffersNext]_allVars => ChunkInv'
  <2>1. ASSUME ChunkInv, Only("chunks"), Chunks!Next PROVE ChunkInv'
    BY <2>1, ChunkStep
  <2>2. ASSUME ChunkInv, UNCHANGED chunkVars PROVE ChunkInv'
    BY <2>2, ChunkStutter
  <2>3. BuffersNext \/ UNCHANGED allVars => (Only("chunks") /\ Chunks!Next) \/ UNCHANGED chunkVars
    BY DEF BuffersNext, Only, allVars
  <2> QED
    BY <2>1, <2>2, <2>3
<1> QED
  BY <1>1, <1>2, ChunksHold, PTL DEF BuffersSpec

-----------------------------------------------------------------------------
(* The history buffer *)

(* An index of the ring that is less than two turns ahead.                  *)
Turn(R, x) == IF x < R THEN x ELSE x - R

(* Types; the ring is not smaller than the capacity.                        *)
HistoryTyped ==
    /\ capacity \in Capacities \cup {FirstCapacity}
    /\ capacity \in Nat \ {0} /\ History!Ring \in Nat /\ capacity <= History!Ring
    /\ writePosition \in 0..History!Ring - 1 /\ size \in 0..capacity /\ dirty \in 0..History!Ring
    /\ DOMAIN buffer = 0..2 * History!Ring - 1 /\ buffer = [p \in DOMAIN buffer |-> buffer[p]]
    /\ history \in Seq(Values) /\ Len(history) = size

(* The first half of the memory holds every element, the mirror all but the *)
(* leading ones that it has missed.                                         *)
Mirrored ==
    LET at(i) == Turn(History!Ring, writePosition + i)
    IN  /\ \A i \in 0..size - 1 : buffer[at(i)] = history[i + 1]
        /\ \A i \in dirty..size - 1 : buffer[at(i) + History!Ring] = history[i + 1]

(* The inductive invariant of a history buffer.                             *)
HistoryInv == HistoryTyped /\ Mirrored

(* The remainder of what is less than four turns ahead.                     *)
LEMMA Wraps ==
    \A R \in Nat \ {0} : \A x \in 0..R - 1 :
        x % R = x /\ (x + R) % R = x /\ (x + 2 * R) % R = x /\ (x + 3 * R) % R = x
<1> TAKE R \in Nat \ {0}
<1> TAKE x \in 0..R - 1
<1>1. x % R = x
  OBVIOUS
<1>2. (x + R) % R = x
  OBVIOUS
<1>3. (x + 2 * R) % R = x
  OBVIOUS
<1>4. (x + 3 * R) % R = x
  OBVIOUS
<1> QED
  BY <1>1, <1>2, <1>3, <1>4

(* map_index() as one subtraction.                                          *)
LEMMA TurnIsRemainder == \A R \in Nat \ {0} : \A x \in 0..2 * R - 1 : x % R = Turn(R, x) /\ Turn(R, x) \in 0..R - 1
<1> SUFFICES ASSUME NEW R \in Nat \ {0}, NEW x \in 0..2 * R - 1 PROVE x % R = Turn(R, x) /\ Turn(R, x) \in 0..R - 1
  OBVIOUS
<1>1. CASE x < R
  BY <1>1, Wraps DEF Turn
<1>2. CASE ~(x < R)
  <2>1. x - R \in 0..R - 1 /\ (x - R) + R = x
    BY <1>2
  <2>2. ((x - R) + R) % R = x - R
    BY <2>1, Wraps
  <2> QED
    BY <1>2, <2>1, <2>2 DEF Turn
<1> QED
  BY <1>1, <1>2

(* map_index() in a buffer of the right types.                              *)
LEMMA MapsTo ==
    ASSUME HistoryTyped
    PROVE  \A i \in 0..History!Ring : /\ History!MapIndex(i) = Turn(History!Ring, writePosition + i)
                                      /\ History!MapIndex(i) \in 0..History!Ring - 1
<1>1. PICK R \in Nat \ {0} : R = History!Ring
  BY DEF HistoryTyped
<1>2. writePosition \in 0..R - 1
  BY <1>1 DEF HistoryTyped
<1>3. \A i \in 0..R : writePosition + i \in 0..2 * R - 1
  BY <1>2
<1> QED
  BY <1>1, <1>3, TurnIsRemainder DEF History!MapIndex

(* After syncMirror() both halves hold every element.                       *)
LEMMA SyncedHolds ==
    ASSUME HistoryInv
    PROVE  /\ DOMAIN History!Synced = DOMAIN buffer
           /\ History!Synced = [p \in DOMAIN buffer |-> History!Synced[p]]
           /\ \A k \in 0..size - 1 :
                /\ History!Synced[Turn(History!Ring, writePosition + k)] = history[k + 1]
                /\ History!Synced[Turn(History!Ring, writePosition + k) + History!Ring] = history[k + 1]
<1>1. PICK R \in Nat \ {0} : R = History!Ring
  BY DEF HistoryInv, HistoryTyped
<1>2. /\ writePosition \in 0..R - 1 /\ size \in Nat /\ size <= R /\ dirty \in 0..R
      /\ DOMAIN buffer = 0..2 * R - 1
  BY <1>1 DEF HistoryInv, HistoryTyped
<1>3. PICK missed : missed = {History!MapIndex(i) : i \in 0..dirty - 1}
  OBVIOUS
<1>4. History!Synced = [p \in DOMAIN buffer |-> IF p >= R /\ p - R \in missed THEN buffer[p - R] ELSE buffer[p]]
  BY <1>1, <1>3 DEF History!Synced
<1>5. missed = {Turn(R, writePosition + i) : i \in 0..dirty - 1}
  <2>1. \A i \in 0..dirty - 1 : i \in 0..R
    BY <1>2
  <2>2. \A i \in 0..dirty - 1 : History!MapIndex(i) = Turn(R, writePosition + i)
    BY <1>1, <2>1, MapsTo DEF HistoryInv
  <2> QED
    BY <1>3, <2>2
<1>6. ASSUME NEW k \in 0..size - 1
      PROVE  /\ History!Synced[Turn(R, writePosition + k)] = history[k + 1]
             /\ History!Synced[Turn(R, writePosition + k) + R] = history[k + 1]
  <2>1. Turn(R, writePosition + k) \in 0..R - 1
    BY <1>2 DEF Turn
  <2>2. PICK p \in 0..R - 1 : p = Turn(R, writePosition + k)
    BY <2>1
  <2>3. p \in DOMAIN buffer /\ p + R \in DOMAIN buffer /\ ~(p >= R) /\ p + R >= R /\ (p + R) - R = p
    BY <1>2, <2>2
  <2>4. buffer[p] = history[k + 1]
    BY <1>1, <2>2 DEF HistoryInv, Mirrored
  <2>5. History!Synced[p] = buffer[p]
    BY <1>4, <2>3
  <2>6. p \notin missed => buffer[p + R] = history[k + 1]
    <3>1. p \notin missed => k \in dirty..size - 1
      BY <1>2, <1>5, <2>2
    <3> QED
      BY <1>1, <2>2, <3>1 DEF HistoryInv, Mirrored
  <2>7. History!Synced[p + R] = IF p \in missed THEN buffer[p] ELSE buffer[p + R]
    BY <1>4, <2>3
  <2> QED
    BY <2>2, <2>4, <2>5, <2>6, <2>7
<1>7. DOMAIN History!Synced = DOMAIN buffer /\ History!Synced = [p \in DOMAIN buffer |-> History!Synced[p]]
  BY <1>4
<1> QED
  BY <1>1, <1>6, <1>7

(* The invariant gives every span what belongs there.                       *)
LEMMA SpansHold == HistoryInv => SpansHoldHistory
<1> SUFFICES ASSUME HistoryInv PROVE SpansHoldHistory
  OBVIOUS
<1>1. PICK R \in Nat \ {0} : R = History!Ring
  BY DEF HistoryInv, HistoryTyped
<1>2. writePosition \in 0..R - 1 /\ size \in Nat /\ size <= R /\ size = Len(history)
  BY <1>1 DEF HistoryInv, HistoryTyped
<1>3. ASSUME NEW i \in 0..size - 1, NEW n \in 1..size - i, NEW j \in 0..n - 1
      PROVE  History!Synced[History!MapIndex(i) + j] = history[i + j + 1]
  <2>1. PICK k \in 0..size - 1 : k = i + j
    BY <1>2
  <2>2. History!MapIndex(i) = Turn(R, writePosition + i)
    BY <1>1, <1>2, MapsTo DEF HistoryInv
  <2>3. \/ History!MapIndex(i) + j = Turn(R, writePosition + k)
        \/ History!MapIndex(i) + j = Turn(R, writePosition + k) + R
    BY <1>2, <2>1, <2>2 DEF Turn
  <2>4. /\ History!Synced[Turn(R, writePosition + k)] = history[k + 1]
        /\ History!Synced[Turn(R, writePosition + k) + R] = history[k + 1]
    BY <1>1, SyncedHolds
  <2> QED
    BY <2>1, <2>3, <2>4
<1> QED
  BY <1>2, <1>3 DEF SpansHoldHistory, History!SpansHoldHistory

(* Types after a step that leaves the capacity.                             *)
LEMMA SameCapacity ==
    ASSUME HistoryTyped, capacity' = capacity, writePosition' \in 0..History!Ring - 1,
           size' \in 0..capacity, dirty' \in 0..History!Ring,
           DOMAIN buffer' = DOMAIN buffer, buffer' = [p \in DOMAIN buffer' |-> buffer'[p]],
           history' \in Seq(Values), Len(history') = size'
    PROVE  HistoryTyped' /\ History!Ring' = History!Ring
<1>1. History!Ring' = History!Ring
  BY DEF History!Ring
<1> QED
  BY <1>1 DEF HistoryTyped

(* The leading elements of a sequence, counted as the memory counts them    *)
LEMMA LeadingElements ==
    \A s \in Seq(Values), m \in Nat :
        m <= Len(s) => /\ SubSeq(s, 1, m) \in Seq(Values) /\ Len(SubSeq(s, 1, m)) = m
                       /\ \A i \in 0..m - 1 : SubSeq(s, 1, m)[i + 1] = s[i + 1]
<1> SUFFICES ASSUME NEW s \in Seq(Values), NEW m \in Nat, m <= Len(s)
             PROVE  /\ SubSeq(s, 1, m) \in Seq(Values) /\ Len(SubSeq(s, 1, m)) = m
                    /\ \A i \in 0..m - 1 : SubSeq(s, 1, m)[i + 1] = s[i + 1]
  OBVIOUS
<1>1. SubSeq(s, 1, m) \in Seq(Values) /\ Len(SubSeq(s, 1, m)) = m
  OBVIOUS
<1>2. \A k \in 1..m : SubSeq(s, 1, m)[k] = s[k]
  OBVIOUS
<1>3. \A i \in 0..m - 1 : i + 1 \in 1..m
  OBVIOUS
<1> QED
  BY <1>1, <1>2, <1>3

(* The trailing elements of a sequence, likewise                            *)
LEMMA TrailingElements ==
    \A s \in Seq(Values), L, m \in Nat :
        L = Len(s) /\ m <= L =>
            /\ SubSeq(s, L - m + 1, L) \in Seq(Values) /\ Len(SubSeq(s, L - m + 1, L)) = m
            /\ \A i \in 0..m - 1 : SubSeq(s, L - m + 1, L)[i + 1] = s[L - m + i + 1]
<1> SUFFICES ASSUME NEW s \in Seq(Values), NEW L \in Nat, NEW m \in Nat, L = Len(s), m <= L
             PROVE  /\ SubSeq(s, L - m + 1, L) \in Seq(Values) /\ Len(SubSeq(s, L - m + 1, L)) = m
                    /\ \A i \in 0..m - 1 : SubSeq(s, L - m + 1, L)[i + 1] = s[L - m + i + 1]
  OBVIOUS
<1>1. PICK f \in 1..L + 1 : f = L - m + 1
  OBVIOUS
<1>2. SubSeq(s, f, L) \in Seq(Values) /\ Len(SubSeq(s, f, L)) = m
  <2>1. SubSeq(s, f, L) \in Seq(Values)
    OBVIOUS
  <2>2. Len(SubSeq(s, f, L)) = m
    BY <1>1
  <2> QED
    BY <2>1, <2>2
<1>3. \A k \in 1..m : SubSeq(s, f, L)[k] = s[f + k - 1]
  BY <1>1
<1>4. \A i \in 0..m - 1 : i + 1 \in 1..m /\ f + (i + 1) - 1 = L - m + i + 1
  BY <1>1
<1> QED
  BY <1>1, <1>2, <1>3, <1>4

(* Empty, with blank memory.                                                *)
LEMMA HistoryInvInit == History!Init => HistoryInv
<1> SUFFICES ASSUME History!Init PROVE HistoryInv
  OBVIOUS
<1> USE DEF History!Init
<1>1. FirstCapacity \in Nat \ {0} /\ History!Ring \in Nat /\ capacity <= History!Ring
  BY HistoryAssumption DEF History!HistoryConstants, History!Ring
<1>2. DOMAIN buffer = 0..2 * History!Ring - 1 /\ buffer = [p \in DOMAIN buffer |-> buffer[p]]
  BY DEF History!Blank, History!Ring
<1>3. HistoryTyped
  BY <1>1, <1>2 DEF HistoryTyped
<1> QED
  BY <1>3 DEF HistoryInv, Mirrored

(* reset()                                                                  *)
LEMMA ResetKeepsHistory == ASSUME HistoryInv, NEW v, History!Reset(v) PROVE HistoryInv'
<1>1. /\ size' = 0 /\ writePosition' = 0 /\ dirty' = 0 /\ capacity' = capacity /\ history' = <<>>
      /\ buffer' = [p \in DOMAIN buffer |-> v]
  BY DEF History!Reset
<1>2. capacity \in Nat \ {0} /\ History!Ring \in Nat /\ capacity <= History!Ring
  BY DEF HistoryInv, HistoryTyped
<1>3. /\ writePosition' \in 0..History!Ring - 1 /\ size' \in 0..capacity /\ dirty' \in 0..History!Ring
      /\ DOMAIN buffer' = DOMAIN buffer /\ buffer' = [p \in DOMAIN buffer' |-> buffer'[p]]
      /\ history' \in Seq(Values) /\ Len(history') = size'
  BY <1>1, <1>2
<1>4. HistoryTyped'
  BY <1>1, <1>3, SameCapacity DEF HistoryInv
<1>5. Mirrored'
  BY <1>1 DEF Mirrored
<1> QED
  BY <1>4, <1>5 DEF HistoryInv

(* syncMirror()                                                             *)
LEMMA SyncKeepsHistory == ASSUME HistoryInv, History!Sync PROVE HistoryInv'
<1>1. buffer' = History!Synced /\ dirty' = 0 /\ UNCHANGED <<capacity, writePosition, size, history>>
  BY DEF History!Sync
<1>2. /\ DOMAIN buffer' = DOMAIN buffer /\ buffer' = [p \in DOMAIN buffer' |-> buffer'[p]]
      /\ \A k \in 0..size - 1 :
           /\ buffer'[Turn(History!Ring, writePosition + k)] = history[k + 1]
           /\ buffer'[Turn(History!Ring, writePosition + k) + History!Ring] = history[k + 1]
  BY <1>1, SyncedHolds
<1>3. /\ writePosition' \in 0..History!Ring - 1 /\ size' \in 0..capacity /\ dirty' \in 0..History!Ring
      /\ history' \in Seq(Values) /\ Len(history') = size'
  BY <1>1 DEF HistoryInv, HistoryTyped
<1>4. HistoryTyped' /\ History!Ring' = History!Ring
  BY <1>1, <1>2, <1>3, SameCapacity DEF HistoryInv
<1>5. Mirrored'
  BY <1>1, <1>2, <1>4 DEF Mirrored
<1> QED
  BY <1>4, <1>5 DEF HistoryInv

(* pop_front()                                                              *)
LEMMA PopFrontKeepsHistory == ASSUME HistoryInv, History!PopFront PROVE HistoryInv'
<1>1. PICK R \in Nat \ {0} : R = History!Ring
  BY DEF HistoryInv, HistoryTyped
<1>2. /\ writePosition \in 0..R - 1 /\ size \in Nat /\ size <= capacity /\ capacity \in Nat /\ size <= R /\ dirty \in 0..R
      /\ history \in Seq(Values) /\ Len(history) = size
  BY <1>1 DEF HistoryInv, HistoryTyped
<1>3. /\ size > 0 /\ size' = size - 1 /\ dirty' = (IF dirty > 0 THEN dirty - 1 ELSE 0)
      /\ UNCHANGED <<buffer, capacity>> /\ history' = Tail(history)
      /\ writePosition' = Turn(R, writePosition + 1)
  <2>1. History!MapIndex(1) = Turn(R, writePosition + 1)
    BY <1>1, MapsTo DEF HistoryInv
  <2> QED
    BY <2>1 DEF History!PopFront
<1>4. writePosition' \in 0..R - 1 /\ size' \in 0..capacity /\ dirty' \in 0..R
  BY <1>2, <1>3 DEF Turn
<1>5. history' \in Seq(Values) /\ Len(history') = size' /\ \A i \in 0..size' - 1 : history'[i + 1] = history[i + 2]
  <2>1. history # <<>>
    BY <1>2, <1>3
  <2>2. history' \in Seq(Values) /\ Len(history') = size'
    BY <1>2, <1>3, <2>1
  <2>3. \A k \in 1..Len(history) - 1 : history'[k] = history[k + 1]
    BY <1>2, <1>3, <2>1
  <2>4. \A i \in 0..size' - 1 : i + 1 \in 1..Len(history) - 1 /\ (i + 1) + 1 = i + 2
    BY <1>2, <1>3
  <2> QED
    BY <2>2, <2>3, <2>4
<1>6. HistoryTyped' /\ History!Ring' = R
  <2>1. DOMAIN buffer' = DOMAIN buffer /\ buffer' = [p \in DOMAIN buffer' |-> buffer'[p]]
    BY <1>3 DEF HistoryInv, HistoryTyped
  <2> QED
    BY <1>1, <1>3, <1>4, <1>5, <2>1, SameCapacity DEF HistoryInv
<1>7. \A i \in 0..size' - 1 : Turn(R, writePosition' + i) = Turn(R, writePosition + (i + 1))
  BY <1>2, <1>3 DEF Turn
<1>8. ASSUME NEW i \in 0..size' - 1 PROVE buffer'[Turn(R, writePosition' + i)] = history'[i + 1]
  <2>1. PICK k \in 0..size - 1 : k = i + 1 /\ k + 1 = i + 2
    BY <1>2, <1>3
  <2>2. buffer[Turn(R, writePosition + k)] = history[k + 1]
    BY <1>1 DEF HistoryInv, Mirrored
  <2> QED
    BY <1>3, <1>5, <1>7, <2>1, <2>2
<1>9. ASSUME NEW i \in dirty'..size' - 1 PROVE buffer'[Turn(R, writePosition' + i) + R] = history'[i + 1]
  <2>1. PICK k \in dirty..size - 1 : k = i + 1 /\ k + 1 = i + 2 /\ i \in 0..size' - 1
    BY <1>2, <1>3
  <2>2. buffer[Turn(R, writePosition + k) + R] = history[k + 1]
    BY <1>1 DEF HistoryInv, Mirrored
  <2> QED
    BY <1>3, <1>5, <1>7, <2>1, <2>2
<1> QED
  BY <1>6, <1>8, <1>9 DEF HistoryInv, Mirrored

(* pop_back()                                                               *)
LEMMA PopBackKeepsHistory == ASSUME HistoryInv, History!PopBack PROVE HistoryInv'
<1>1. size > 0 /\ size' = size - 1 /\ UNCHANGED <<buffer, capacity, writePosition, dirty>>
      /\ history' = SubSeq(history, 1, Len(history) - 1)
  BY DEF History!PopBack, History!Front
<1>2. /\ size \in Nat /\ size <= capacity /\ capacity \in Nat /\ dirty \in Nat
      /\ history \in Seq(Values) /\ Len(history) = size
  BY DEF HistoryInv, HistoryTyped
<1>3. PICK m \in Nat : m = size' /\ m = Len(history) - 1 /\ m <= Len(history)
  BY <1>1, <1>2
<1>4. history' \in Seq(Values) /\ Len(history') = size' /\ \A i \in 0..size' - 1 : history'[i + 1] = history[i + 1]
  BY <1>1, <1>2, <1>3, LeadingElements
<1>5. HistoryTyped' /\ History!Ring' = History!Ring
  <2>1. DOMAIN buffer' = DOMAIN buffer /\ buffer' = [p \in DOMAIN buffer' |-> buffer'[p]]
    BY <1>1 DEF HistoryInv, HistoryTyped
  <2>2. writePosition' \in 0..History!Ring - 1 /\ size' \in 0..capacity /\ dirty' \in 0..History!Ring
    BY <1>1, <1>2 DEF HistoryInv, HistoryTyped
  <2> QED
    BY <1>1, <1>4, <2>1, <2>2, SameCapacity DEF HistoryInv
<1>6. (\A i \in 0..size' - 1 : i \in 0..size - 1) /\ (\A i \in dirty..size' - 1 : i \in dirty..size - 1 /\ i \in 0..size' - 1)
  BY <1>1, <1>2
<1> QED
  BY <1>1, <1>4, <1>5, <1>6 DEF HistoryInv, Mirrored

(* push_front() of an element moves every index by one.                     *)
LEMMA PushFrontKeepsHistory == ASSUME HistoryInv, NEW v \in Values, History!PushFront(v) PROVE HistoryInv'
<1>1. PICK R \in Nat \ {0} : R = History!Ring
  BY DEF HistoryInv, HistoryTyped
<1>2. /\ writePosition \in 0..R - 1 /\ size \in Nat /\ size <= capacity /\ capacity \in Nat \ {0} /\ capacity <= R
      /\ dirty \in 0..R /\ history \in Seq(Values) /\ Len(history) = size /\ DOMAIN buffer = 0..2 * R - 1
  BY <1>1 DEF HistoryInv, HistoryTyped
<1>3. PICK w : w = Turn(R, writePosition + (R - 1))
  OBVIOUS
<1>4. w \in 0..R - 1
  BY <1>2, <1>3 DEF Turn
<1>5. /\ size' = (IF size + 1 < capacity THEN size + 1 ELSE capacity)
      /\ writePosition' = w /\ buffer' = [buffer EXCEPT ![w] = v]
      /\ dirty' = (IF dirty + 1 < R THEN dirty + 1 ELSE R) /\ capacity' = capacity
      /\ history' = History!Leading(<<v>> \o history)
  <2>1. R - 1 \in 0..R
    OBVIOUS
  <2>2. History!MapIndex(R - 1) = w
    BY <1>1, <1>3, <2>1, MapsTo DEF HistoryInv
  <2> QED
    BY <1>1, <2>2 DEF History!PushFront, History!Least
<1>6. size' \in Nat /\ dirty' \in Nat /\ size' \in 0..capacity /\ dirty' \in 0..R /\ size' <= size + 1 /\ dirty' <= dirty + 1 /\ dirty' # 0
  BY <1>2, <1>5
<1>7. \A i \in 0..size' - 1 : i = 0 \/ i \in 1..size' - 1
  <2>1. \A n \in Nat : \A i \in 0..n - 1 : i = 0 \/ i \in 1..n - 1
    OBVIOUS
  <2> QED
    BY <1>6, <2>1
<1>8. \A i \in 1..size' - 1 : i \in 1..size
  <2>1. \A n, m \in Nat : n <= m + 1 => \A i \in 1..n - 1 : i \in 1..m
    OBVIOUS
  <2> QED
    BY <1>2, <1>6, <2>1
<1>9. \A i \in dirty'..size' - 1 : i \in 0..size' - 1 /\ i \in 1..size' - 1 /\ i # 0
  <2>1. \A d, n \in Nat : d # 0 => \A i \in d..n - 1 : i \in 0..n - 1 /\ i \in 1..n - 1 /\ i # 0
    OBVIOUS
  <2> QED
    BY <1>6, <2>1
<1>10. /\ history' \in Seq(Values) /\ Len(history') = size'
      /\ \A i \in 0..size' - 1 : history'[i + 1] = IF i = 0 THEN v ELSE history[i]
  <2>1. PICK s : s = <<v>> \o history
    OBVIOUS
  <2>2. s \in Seq(Values) /\ Len(s) = size + 1 /\ s[1] = v
    <3>1. <<v>> \in Seq(Values) /\ Len(<<v>>) = 1
      OBVIOUS
    <3> QED
      BY <1>2, <2>1, <3>1
  <2>3. \A k \in 1..size : s[k + 1] = history[k]
    <3>1. <<v>> \in Seq(Values) /\ Len(<<v>>) = 1
      OBVIOUS
    <3> QED
      BY <1>2, <2>1, <3>1
  <2>4. history' = SubSeq(s, 1, size')
    <3>1. History!Least(capacity', Len(s)) = size'
      BY <1>2, <1>5, <2>2 DEF History!Least
    <3> QED
      BY <1>5, <2>1, <3>1 DEF History!Leading
  <2>5. size' \in Nat /\ size' <= Len(s)
    BY <1>2, <1>6, <2>2
  <2>6. history' \in Seq(Values) /\ Len(history') = size' /\ \A i \in 0..size' - 1 : history'[i + 1] = s[i + 1]
    BY <2>2, <2>4, <2>5, LeadingElements
  <2>7. \A i \in 0..size' - 1 : i = 0 \/ i \in 1..size
    BY <1>7, <1>8
  <2> QED
    BY <2>2, <2>3, <2>6, <2>7
<1>11. HistoryTyped' /\ History!Ring' = R
  <2>1. DOMAIN buffer' = DOMAIN buffer /\ buffer' = [p \in DOMAIN buffer' |-> buffer'[p]]
    BY <1>5 DEF HistoryInv, HistoryTyped
  <2> QED
    BY <1>1, <1>4, <1>5, <1>6, <1>10, <2>1, SameCapacity DEF HistoryInv
<1>12. /\ Turn(R, w + 0) = w
      /\ \A i \in 1..size' - 1 : /\ i - 1 \in 0..size - 1
                                 /\ Turn(R, w + i) = Turn(R, writePosition + (i - 1))
                                 /\ Turn(R, w + i) # w /\ Turn(R, w + i) \in 0..R - 1
  <2>1. Turn(R, w + 0) = w
    BY <1>4 DEF Turn
  <2>2. ASSUME NEW i \in 1..size' - 1
        PROVE  /\ i - 1 \in 0..size - 1
               /\ Turn(R, w + i) = Turn(R, writePosition + (i - 1))
               /\ Turn(R, w + i) # w /\ Turn(R, w + i) \in 0..R - 1
    <3>1. i - 1 \in 0..size - 1 /\ i \in 1..R - 1
      BY <1>2, <1>6
    <3> QED
      BY <1>2, <1>3, <1>4, <3>1 DEF Turn
  <2> QED
    BY <2>1, <2>2
<1>13. /\ buffer'[w] = v /\ \A p \in DOMAIN buffer : p # w => buffer'[p] = buffer[p]
       /\ \A p \in 0..R - 1 : p \in DOMAIN buffer /\ p + R \in DOMAIN buffer /\ p + R # w
  BY <1>2, <1>4, <1>5
<1>14. ASSUME NEW i \in 0..size' - 1 PROVE buffer'[Turn(R, w + i)] = history'[i + 1]
  <2>1. CASE i = 0
    BY <1>10, <1>12, <1>13, <2>1
  <2>2. CASE i # 0
    <3>1. i \in 1..size' - 1
      BY <1>7, <2>2
    <3>2. PICK k \in 0..size - 1 : k = i - 1 /\ k + 1 = i
      BY <1>12, <3>1
    <3>3. buffer[Turn(R, writePosition + k)] = history[k + 1]
      BY <1>1 DEF HistoryInv, Mirrored
    <3> QED
      BY <1>10, <1>12, <1>13, <2>2, <3>1, <3>2, <3>3
  <2> QED
    BY <2>1, <2>2
<1>15. ASSUME NEW i \in dirty'..size' - 1 PROVE buffer'[Turn(R, w + i) + R] = history'[i + 1]
  <2>1. i \in 1..size' - 1 /\ i # 0 /\ i \in 0..size' - 1
    BY <1>9
  <2>2. PICK k \in dirty..size - 1 : k = i - 1 /\ k + 1 = i
    BY <1>2, <1>5, <1>6, <2>1
  <2>3. buffer[Turn(R, writePosition + k) + R] = history[k + 1]
    BY <1>1 DEF HistoryInv, Mirrored
  <2> QED
    BY <1>10, <1>12, <1>13, <2>1, <2>2, <2>3
<1> QED
  BY <1>5, <1>11, <1>14, <1>15 DEF HistoryInv, Mirrored

(* The arguments of the pushes are sequences of elements.                   *)
LEMMA RangesAreSequences == History!Ranges \subseteq Seq(Values)
<1>1. ASSUME NEW s \in History!Ranges PROVE s \in Seq(Values)
  <2>1. PICK m \in 0..capacity + 1 : s \in [1..m -> Values]
    BY DEF History!Ranges, History!BoundedSeq, History!SeqOf
  <2> QED
    BY <2>1
<1> QED
  BY <1>1

(* An index counted from another one of the ring                            *)
LEMMA TurnBack ==
    \A R \in Nat \ {0} : \A f, i \in 0..R - 1 :
        /\ Turn(R, f + i) \in 0..R - 1
        /\ (Turn(R, f + i) - f + R) % R = i
        /\ (Turn(R, f + i) - f + 2 * R) % R = i
        /\ ((Turn(R, f + i) + R) - f + 2 * R) % R = i
<1> SUFFICES ASSUME NEW R \in Nat \ {0}, NEW f \in 0..R - 1, NEW i \in 0..R - 1
             PROVE  /\ Turn(R, f + i) \in 0..R - 1
                    /\ (Turn(R, f + i) - f + R) % R = i
                    /\ (Turn(R, f + i) - f + 2 * R) % R = i
                    /\ ((Turn(R, f + i) + R) - f + 2 * R) % R = i
  OBVIOUS
<1>1. i % R = i /\ (i + R) % R = i /\ (i + 2 * R) % R = i /\ (i + 3 * R) % R = i
  BY Wraps
<1>2. CASE f + i < R
  <2>1. /\ Turn(R, f + i) - f + R = i + R
        /\ Turn(R, f + i) - f + 2 * R = i + 2 * R
        /\ (Turn(R, f + i) + R) - f + 2 * R = i + 3 * R
        /\ Turn(R, f + i) \in 0..R - 1
    BY <1>2 DEF Turn
  <2> QED
    BY <1>1, <2>1
<1>3. CASE ~(f + i < R)
  <2>1. /\ Turn(R, f + i) - f + R = i
        /\ Turn(R, f + i) - f + 2 * R = i + R
        /\ (Turn(R, f + i) + R) - f + 2 * R = i + 2 * R
        /\ Turn(R, f + i) \in 0..R - 1
    BY <1>3 DEF Turn
  <2> QED
    BY <1>1, <2>1
<1> QED
  BY <1>2, <1>3

(* What the memory holds after push_front() of a range                      *)
LEMMA PrependedAt ==
    ASSUME NEW kept, NEW first
    PROVE  /\ DOMAIN History!Prepended(kept, first) = DOMAIN buffer
           /\ History!Prepended(kept, first) = [p \in DOMAIN buffer |-> History!Prepended(kept, first)[p]]
           /\ \A p \in DOMAIN buffer : \A i :
                i = (p - first + History!Ring) % History!Ring =>
                  History!Prepended(kept, first)[p] =
                    IF p < History!Ring /\ i < Len(kept) THEN kept[Len(kept) - i] ELSE buffer[p]
<1> DEFINE R == History!Ring
           at(p, i) == IF p < R /\ i < Len(kept) THEN kept[Len(kept) - i] ELSE buffer[p]
<1>1. History!Prepended(kept, first) = [p \in DOMAIN buffer |-> at(p, (p - first + R) % R)]
  BY DEF History!Prepended
<1> HIDE DEF R, at
<1>2. \A p \in DOMAIN buffer : \A i : i = (p - first + R) % R => History!Prepended(kept, first)[p] = at(p, i)
  BY <1>1
<1> QED
  BY <1>1, <1>2 DEF R, at

(* The same for push_back(), which writes both halves                      *)
LEMMA AppendedAt ==
    ASSUME NEW kept, NEW start
    PROVE  /\ DOMAIN History!Appended(kept, start) = DOMAIN buffer
           /\ History!Appended(kept, start) = [p \in DOMAIN buffer |-> History!Appended(kept, start)[p]]
           /\ \A p \in DOMAIN buffer : \A i :
                i = (p - start + 2 * History!Ring) % History!Ring =>
                  History!Appended(kept, start)[p] = IF i < Len(kept) THEN kept[i + 1] ELSE buffer[p]
<1> DEFINE R == History!Ring
           at(p, i) == IF i < Len(kept) THEN kept[i + 1] ELSE buffer[p]
<1>1. History!Appended(kept, start) = [p \in DOMAIN buffer |-> at(p, (p - start + 2 * R) % R)]
  BY DEF History!Appended
<1> HIDE DEF R, at
<1>2. \A p \in DOMAIN buffer : \A i : i = (p - start + 2 * R) % R => History!Appended(kept, start)[p] = at(p, i)
  BY <1>1
<1> QED
  BY <1>1, <1>2 DEF R, at

(* push_front() of a range moves every index by what is kept of it.         *)
LEMMA PushFrontRangeKeepsHistory ==
    ASSUME HistoryInv, NEW values \in Seq(Values), History!PushFrontRange(values) PROVE HistoryInv'
<1>1. PICK R, c \in Nat \ {0} : R = History!Ring /\ c = capacity
  BY DEF HistoryInv, HistoryTyped
<1>2. PICK w, sz, d \in Nat :
         /\ w = writePosition /\ sz = size /\ d = dirty
         /\ w < R /\ sz <= c /\ d <= R
  <2>1. writePosition \in Nat /\ size \in Nat /\ dirty \in Nat /\ writePosition < R /\ size <= c /\ dirty <= R
    BY <1>1 DEF HistoryInv, HistoryTyped
  <2> QED
    BY <2>1
<1>3. w < R /\ sz <= c /\ d <= R
  BY <1>2
<1>4. c <= R /\ history \in Seq(Values) /\ Len(history) = sz /\ DOMAIN buffer = 0..2 * R - 1
  BY <1>1, <1>2 DEF HistoryInv, HistoryTyped
<1>5. PICK L, n \in Nat :
         L = Len(values) /\ n = (IF L < c THEN L ELSE c) /\ n <= c /\ n <= R /\ n <= L
  <2>1. Len(values) \in Nat
    OBVIOUS
  <2> QED
    BY <1>4, <2>1
<1>6. c <= R
  BY <1>4
<1>7. n <= c /\ n <= R /\ n <= L /\ (n < c => n = L)
  BY <1>5
<1>8. PICK kept : kept = SubSeq(values, L - n + 1, L)
  OBVIOUS
<1>9. PICK f \in Nat : (w < n => f = w + R - n) /\ (n <= w => f = w - n) /\ f < R
  <2>1. CASE w < n
    BY <1>3, <1>7, <2>1
  <2>2. CASE ~(w < n)
    BY <1>3, <1>7, <2>2
  <2> QED
    BY <2>1, <2>2
<1>10. PICK newSize, newDirty \in Nat :
         /\ newSize = (IF sz + n < c THEN sz + n ELSE c) /\ newDirty = (IF d + n < R THEN d + n ELSE R)
  OBVIOUS
<1>11. newSize <= c /\ newSize <= R /\ newSize <= sz + n /\ newDirty <= R /\ (newDirty < R => newDirty = d + n)
  BY <1>3, <1>6, <1>7, <1>10
<1>12. /\ size' = newSize /\ writePosition' = f /\ dirty' = newDirty /\ capacity' = capacity
      /\ buffer' = History!Prepended(kept, f)
      /\ history' = History!Leading(History!Reverse(values) \o history)
  <2>1. R - (n % R) \in 0..R /\ History!MapIndex(R - (n % R)) = f
    <3>1. CASE n < R
      <4>1. n \in 0..R - 1
        BY <3>1
      <4>2. n % R = n
        BY <4>1, Wraps
      <4>3. R - n \in 0..R
        BY <3>1
      <4>4. History!MapIndex(R - n) = Turn(R, w + (R - n))
        BY <1>1, <1>2, <4>3, MapsTo DEF HistoryInv
      <4>5. Turn(R, w + (R - n)) = f
        BY <1>3, <1>9, <3>1 DEF Turn
      <4> QED
        BY <4>2, <4>3, <4>4, <4>5
    <3>2. CASE ~(n < R)
      <4>1. n = R /\ (0 + R) % R = 0
        BY <1>4, <1>5, <3>2, Wraps
      <4>2. n % R = 0 /\ R - 0 = R /\ R \in 0..R
        BY <4>1
      <4>3. History!MapIndex(R) = Turn(R, w + R)
        BY <1>1, <1>2, <4>2, MapsTo DEF HistoryInv
      <4>4. Turn(R, w + R) = f
        BY <1>3, <1>9, <4>1 DEF Turn
      <4> QED
        BY <4>2, <4>3, <4>4
    <3> QED
      BY <3>1, <3>2
  <2>2. History!Least(Len(values), capacity) = n
    BY <1>1, <1>5 DEF History!Least
  <2>3. SubSeq(values, Len(values) - n + 1, Len(values)) = kept
    BY <1>5, <1>8
  <2>4. newSize = History!Least(size + n, capacity) /\ newDirty = History!Least(dirty + n, History!Ring)
    BY <1>1, <1>2, <1>10 DEF History!Least
  <2> QED
    BY <1>1, <2>1, <2>2, <2>3, <2>4 DEF History!PushFrontRange
<1>13. Len(kept) = n
  <2>1. L = Len(values)
    BY <1>5
  <2> QED
    BY <1>7, <1>8, <2>1, TrailingElements
<1>14. /\ DOMAIN buffer' = DOMAIN buffer /\ buffer' = [p \in DOMAIN buffer' |-> buffer'[p]]
       /\ \A p \in DOMAIN buffer : ~(p < R) => buffer'[p] = buffer[p]
       /\ \A p \in DOMAIN buffer, i \in Nat :
             p < R /\ (p - f + R) % R = i => buffer'[p] = IF i < n THEN kept[n - i] ELSE buffer[p]
  <2>1. /\ DOMAIN buffer' = DOMAIN buffer /\ buffer' = [p \in DOMAIN buffer' |-> buffer'[p]]
        /\ \A p \in DOMAIN buffer : \A i :
              i = (p - f + R) % R => buffer'[p] = IF p < R /\ i < Len(kept) THEN kept[Len(kept) - i] ELSE buffer[p]
    BY <1>1, <1>12, PrependedAt
  <2>2. ASSUME NEW p \in DOMAIN buffer, ~(p < R) PROVE buffer'[p] = buffer[p]
    BY <2>1, <2>2
  <2>3. ASSUME NEW p \in DOMAIN buffer, NEW i \in Nat, p < R, (p - f + R) % R = i
        PROVE  buffer'[p] = IF i < n THEN kept[n - i] ELSE buffer[p]
    BY <1>13, <2>1, <2>3
  <2> QED
    BY <2>1, <2>2, <2>3
<1>15. \A i \in 0..n - 1 : kept[n - i] = values[L - i]
  <2>1. \A j \in 0..n - 1 : kept[j + 1] = values[L - n + j + 1]
    <3>1. L = Len(values)
      BY <1>5
    <3> QED
      BY <1>7, <1>8, <3>1, TrailingElements
  <2>2. \A i \in 0..n - 1 : n - 1 - i \in 0..n - 1 /\ (n - 1 - i) + 1 = n - i /\ L - n + (n - 1 - i) + 1 = L - i
    BY <1>7
  <2> QED
    BY <2>1, <2>2
<1>16. /\ history' \in Seq(Values) /\ Len(history') = newSize
       /\ \A i \in 0..newSize - 1 : history'[i + 1] = IF i < n THEN values[L - i] ELSE history[(i - n) + 1]
  <2>1. PICK back : back = History!Reverse(values)
    OBVIOUS
  <2>2. back \in Seq(Values) /\ Len(back) = L /\ \A k \in 1..L : back[k] = values[L - k + 1]
    <3>1. back = [k \in 1..L |-> values[(L - k) + 1]]
      BY <1>5, <2>1 DEF History!Reverse
    <3>2. \A k \in 1..L : (L - k) + 1 \in 1..L /\ values[(L - k) + 1] \in Values
      BY <1>5
    <3>3. back \in [1..L -> Values]
      BY <3>1, <3>2
    <3> QED
      BY <3>1, <3>3
  <2>3. PICK s : s = back \o history
    OBVIOUS
  <2>4. s \in Seq(Values) /\ Len(s) = L + sz
    <3>1. s \in Seq(Values)
      BY <1>4, <2>2, <2>3
    <3>2. \A a, b \in Seq(Values) : Len(a \o b) = Len(a) + Len(b)
      OBVIOUS
    <3>3. Len(s) = Len(back) + Len(history)
      BY <1>4, <2>2, <2>3, <3>2
    <3> QED
      BY <1>4, <2>2, <3>1, <3>3
  <2>5. (\A k \in 1..L : s[k] = back[k]) /\ \A k \in L + 1..L + sz : s[k] = history[k - L]
    <3>1. \A k \in 1..L : s[k] = back[k]
      BY <1>4, <2>2, <2>3
    <3>2. \A k \in L + 1..L + sz : s[k] = history[k - L]
      BY <1>4, <2>2, <2>3
    <3> QED
      BY <3>1, <3>2
  <2>6. newSize \in Nat /\ newSize <= Len(s) /\ history' = SubSeq(s, 1, newSize)
    <3>1. History!Least(capacity', Len(s)) = newSize
      BY <1>1, <1>5, <1>10, <1>12, <2>4 DEF History!Least
    <3>2. newSize \in Nat /\ newSize <= L + sz
      BY <1>7, <1>11
    <3> QED
      BY <1>12, <2>1, <2>3, <2>4, <3>1, <3>2 DEF History!Leading
  <2>7. history' \in Seq(Values) /\ Len(history') = newSize /\ \A i \in 0..newSize - 1 : history'[i + 1] = s[i + 1]
    BY <2>4, <2>6, LeadingElements
  <2>8. ASSUME NEW i \in 0..newSize - 1 PROVE s[i + 1] = IF i < n THEN values[L - i] ELSE history[(i - n) + 1]
    <3>1. CASE i < n
      <4>1. i + 1 \in 1..L /\ L - (i + 1) + 1 = L - i
        BY <1>7, <3>1
      <4> QED
        BY <2>2, <2>5, <3>1, <4>1
    <3>2. CASE ~(i < n)
      <4>1. n = L /\ i + 1 \in L + 1..L + sz /\ (i + 1) - L = (i - n) + 1
        <5>1. n < c /\ n = L
          BY <1>7, <1>11, <3>2
        <5> QED
          BY <1>11, <3>2, <5>1
      <4> QED
        BY <2>5, <3>2, <4>1
    <3> QED
      BY <3>1, <3>2
  <2> QED
    BY <2>7, <2>8
<1>17. HistoryTyped' /\ History!Ring' = R
  <2>1. DOMAIN buffer' = DOMAIN buffer /\ buffer' = [p \in DOMAIN buffer' |-> buffer'[p]]
    BY <1>14
  <2> QED
    BY <1>1, <1>9, <1>10, <1>12, <1>16, <2>1, SameCapacity DEF HistoryInv
<1>18. ASSUME NEW i \in 0..newSize - 1
       PROVE  LET p == Turn(R, f + i)
              IN  /\ buffer'[p] = IF i < n THEN values[L - i] ELSE buffer[p]
                  /\ buffer'[p + R] = buffer[p + R]
                  /\ i >= n => i - n \in 0..sz - 1 /\ p = Turn(R, w + (i - n))
  <2>1. i \in 0..R - 1 /\ i \in Nat
    BY <1>11
  <2>2. f \in 0..R - 1
    BY <1>9
  <2>3. PICK p \in 0..R - 1 : p = Turn(R, f + i) /\ (p - f + R) % R = i
    <3>1. Turn(R, f + i) \in 0..R - 1 /\ (Turn(R, f + i) - f + R) % R = i
      BY <2>2, <2>1, TurnBack
    <3> QED
      BY <3>1
  <2>4. p \in DOMAIN buffer /\ p + R \in DOMAIN buffer /\ p < R /\ ~(p + R < R)
    BY <1>4, <2>3, SMTT(60)
  <2>5. buffer'[p] = IF i < n THEN kept[n - i] ELSE buffer[p]
    BY <1>14, <2>1, <2>3, <2>4
  <2>6. buffer'[p + R] = buffer[p + R]
    BY <1>14, <2>4
  <2>7. i < n => i \in 0..n - 1
    BY <2>1
  <2>8. i >= n => i - n \in 0..sz - 1 /\ Turn(R, f + i) = Turn(R, w + (i - n))
    <3>1. i >= n => i - n \in 0..sz - 1
      BY <1>11, <2>1
    <3>2. i >= n => Turn(R, f + i) = Turn(R, w + (i - n))
      <4>1. CASE w < n
        BY <1>3, <1>7, <1>9, <2>1, <4>1 DEF Turn
      <4>2. CASE ~(w < n)
        BY <1>3, <1>7, <1>9, <2>1, <4>2 DEF Turn
      <4> QED
        BY <4>1, <4>2
    <3> QED
      BY <3>1, <3>2
  <2> QED
    BY <1>15, <2>3, <2>5, <2>6, <2>7, <2>8
<1>19. ASSUME NEW i \in 0..newSize - 1 PROVE buffer'[Turn(R, f + i)] = history'[i + 1]
  <2>1. CASE i < n
    BY <1>16, <1>18, <2>1
  <2>2. CASE ~(i < n)
    <3>1. PICK k \in 0..sz - 1 : k = i - n
      <4>1. i >= n
        BY <2>2
      <4> QED
        BY <1>18, <4>1
    <3>2. buffer[Turn(R, w + k)] = history[k + 1]
      BY <1>1, <1>2 DEF HistoryInv, Mirrored
    <3>3. i >= n
      BY <2>2
    <3> QED
      BY <1>16, <1>18, <2>2, <3>1, <3>2, <3>3
  <2> QED
    BY <2>1, <2>2
<1>20. ASSUME NEW i \in newDirty..newSize - 1 PROVE buffer'[Turn(R, f + i) + R] = history'[i + 1]
  <2>1. i \in 0..newSize - 1 /\ i >= n /\ ~(i < n) /\ i - n >= d
    BY <1>11
  <2>2. i - n \in 0..sz - 1
    BY <1>18, <2>1
  <2>3. PICK k \in d..sz - 1 : k = i - n
    BY <2>1, <2>2
  <2>4. buffer[Turn(R, w + k) + R] = history[k + 1]
    BY <1>1, <1>2 DEF HistoryInv, Mirrored
  <2> QED
    BY <1>16, <1>18, <2>1, <2>3, <2>4
<1> QED
  BY <1>12, <1>17, <1>19, <1>20 DEF HistoryInv, Mirrored

(* push_back() of an element or a range: the leading elements expire.       *)
LEMMA PushBackKeepsHistory ==
    ASSUME HistoryInv, NEW values \in Seq(Values), History!PushBack(values) PROVE HistoryInv'
<1>1. PICK R, c \in Nat \ {0} : R = History!Ring /\ c = capacity
  BY DEF HistoryInv, HistoryTyped
<1>2. PICK w, sz, d \in Nat :
         /\ w = writePosition /\ sz = size /\ d = dirty
         /\ w < R /\ sz <= c /\ d <= R
  <2>1. writePosition \in Nat /\ size \in Nat /\ dirty \in Nat /\ writePosition < R /\ size <= c /\ dirty <= R
    BY <1>1 DEF HistoryInv, HistoryTyped
  <2> QED
    BY <2>1
<1>3. w < R /\ sz <= c /\ d <= R
  BY <1>2
<1>4. c <= R /\ history \in Seq(Values) /\ Len(history) = sz /\ DOMAIN buffer = 0..2 * R - 1
  BY <1>1, <1>2 DEF HistoryInv, HistoryTyped
<1>5. c <= R
  BY <1>4
<1>6. \A p \in 0..R - 1 : p \in DOMAIN buffer /\ p + R \in DOMAIN buffer
  <2>1. DOMAIN buffer = 0..2 * R - 1
    BY <1>4
  <2> QED
    BY <2>1
<1>7. PICK L, n \in Nat :
         L = Len(values) /\ n = (IF L < c THEN L ELSE c) /\ n <= c /\ n <= R /\ n <= L
  <2>1. Len(values) \in Nat
    OBVIOUS
  <2> QED
    BY <1>4, <2>1
<1>8. n <= c /\ n <= R /\ n <= L /\ (n < c => n = L)
  BY <1>7
<1>9. PICK kept : kept = SubSeq(values, L - n + 1, L)
  OBVIOUS
<1>10. PICK gone \in Nat : gone = (IF sz + n > c THEN sz + n - c ELSE 0)
  <2>1. (IF sz + n > c THEN sz + n - c ELSE 0) \in Nat
    OBVIOUS
  <2> QED
    BY <2>1
<1>11. gone <= sz /\ sz + n - gone <= c /\ (n = c => gone = sz) /\ (gone # 0 => sz + n - gone = c)
  BY <1>3, <1>8, <1>10
<1>12. PICK newSize, newDirty, f, start \in Nat :
         /\ newSize = sz + n - gone
         /\ newDirty = d - (IF d < gone THEN d ELSE gone)
         /\ f = Turn(R, w + gone)
         /\ start = Turn(R, w + sz)
  <2>1. sz + n - gone \in Nat
    BY <1>11
  <2>2. d - (IF d < gone THEN d ELSE gone) \in Nat
    OBVIOUS
  <2>3. Turn(R, w + gone) \in Nat /\ Turn(R, w + sz) \in Nat
    BY DEF Turn
  <2> QED
    BY <2>1, <2>2, <2>3
<1>13. /\ newSize = sz + n - gone /\ newSize <= c /\ newSize <= R /\ newDirty <= d /\ newDirty <= R
       /\ d <= newDirty + gone
       /\ (w + gone < R => f = w + gone) /\ (w + gone >= R => f = w + gone - R)
       /\ (w + sz < R => start = w + sz) /\ (w + sz >= R => start = w + sz - R)
       /\ f < R /\ start < R
  <2>1. newSize = sz + n - gone /\ newSize <= c /\ newSize <= R
    BY <1>5, <1>11, <1>12
  <2>2. newDirty <= d /\ newDirty <= R /\ d <= newDirty + gone
    BY <1>3, <1>12
  <2>3. /\ (w + gone < R => f = w + gone) /\ (w + gone >= R => f = w + gone - R)
        /\ (w + sz < R => start = w + sz) /\ (w + sz >= R => start = w + sz - R)
    BY <1>12 DEF Turn
  <2>4. f < R /\ start < R
    BY <1>3, <1>5, <1>11, <2>3
  <2> QED
    BY <2>1, <2>2, <2>3, <2>4
<1>14. /\ size' = newSize /\ writePosition' = f /\ dirty' = newDirty /\ capacity' = capacity
      /\ buffer' = History!Appended(kept, start)
      /\ history' = History!Trailing(history \o values)
  <2>1. History!MapIndex(gone) = f
    <3>1. gone \in 0..R
      BY <1>3, <1>5, <1>11
    <3> QED
      BY <1>1, <1>2, <1>12, <3>1, MapsTo DEF HistoryInv
  <2>2. (writePosition + size) % History!Ring = start
    <3>1. sz \in 0..R
      BY <1>3, <1>5
    <3>2. History!MapIndex(sz) = start
      BY <1>1, <1>2, <1>12, <3>1, MapsTo DEF HistoryInv
    <3> QED
      BY <1>2, <3>2 DEF History!MapIndex
  <2>3. History!Least(Len(values), capacity) = n
    BY <1>1, <1>7 DEF History!Least
  <2>4. SubSeq(values, Len(values) - n + 1, Len(values)) = kept
    BY <1>7, <1>9
  <2>5. (IF size + n > capacity THEN size + n - capacity ELSE 0) = gone
    BY <1>1, <1>2, <1>10
  <2>6. newDirty = dirty - History!Least(dirty, gone) /\ newSize = size + n - gone
    BY <1>2, <1>12 DEF History!Least
  <2> QED
    BY <2>1, <2>2, <2>3, <2>4, <2>5, <2>6 DEF History!PushBack
<1>15. Len(kept) = n /\ \A m \in 0..n - 1 : kept[m + 1] = values[L - n + m + 1]
  <2>1. L = Len(values)
    BY <1>7
  <2>2. n <= L
    BY <1>8
  <2>3. Len(kept) = n
    BY <1>9, <2>1, <2>2, TrailingElements
  <2>4. \A m \in 0..n - 1 : kept[m + 1] = values[L - n + m + 1]
    BY <1>9, <2>1, <2>2, TrailingElements
  <2> QED
    BY <2>3, <2>4
<1>16. /\ DOMAIN buffer' = DOMAIN buffer /\ buffer' = [p \in DOMAIN buffer' |-> buffer'[p]]
       /\ \A p \in DOMAIN buffer, m \in Nat :
             (p - start + 2 * R) % R = m => buffer'[p] = IF m < n THEN kept[m + 1] ELSE buffer[p]
  <2>1. /\ DOMAIN buffer' = DOMAIN buffer /\ buffer' = [p \in DOMAIN buffer' |-> buffer'[p]]
        /\ \A p \in DOMAIN buffer : \A m :
              m = (p - start + 2 * R) % R => buffer'[p] = IF m < Len(kept) THEN kept[m + 1] ELSE buffer[p]
    BY <1>1, <1>14, AppendedAt
  <2>2. ASSUME NEW p \in DOMAIN buffer, NEW m \in Nat, (p - start + 2 * R) % R = m
        PROVE  buffer'[p] = IF m < n THEN kept[m + 1] ELSE buffer[p]
    BY <1>15, <2>1, <2>2
  <2> QED
    BY <2>1, <2>2
<1>17. /\ history' \in Seq(Values) /\ Len(history') = newSize
      /\ \A i \in 0..newSize - 1 : \A k \in Nat :
            k = i + gone => history'[i + 1] = IF k < sz THEN history[k + 1] ELSE values[L - n + (k - sz) + 1]
  <2>1. PICK s : s = history \o values
    OBVIOUS
  <2>2. PICK T \in Nat : T = sz + L
    OBVIOUS
  <2>3. s \in Seq(Values) /\ Len(s) = T
    <3>1. \A a, b \in Seq(Values) : a \o b \in Seq(Values) /\ Len(a \o b) = Len(a) + Len(b)
      OBVIOUS
    <3> QED
      BY <1>4, <1>7, <2>1, <2>2, <3>1
  <2>4. (\A j \in 1..sz : s[j] = history[j]) /\ \A j \in sz + 1..sz + L : s[j] = values[j - sz]
    <3>1. \A j \in 1..sz : s[j] = history[j]
      BY <1>4, <1>7, <2>1
    <3>2. \A j \in sz + 1..sz + L : s[j] = values[j - sz]
      BY <1>4, <1>7, <2>1
    <3> QED
      BY <3>1, <3>2
  <2>5. newSize <= T /\ history' = SubSeq(s, T - newSize + 1, T)
    <3>1. newSize <= T
      BY <1>8, <1>13, <2>2
    <3>2. newSize = IF c < T THEN c ELSE T
      BY <1>3, <1>8, <1>10, <1>13, <2>2
    <3>3. History!Least(capacity', Len(s)) = newSize
      BY <1>1, <1>14, <2>3, <3>2 DEF History!Least
    <3> QED
      BY <1>14, <2>1, <2>3, <3>1, <3>3 DEF History!Trailing
  <2>6. /\ history' \in Seq(Values) /\ Len(history') = newSize
        /\ \A i \in 0..newSize - 1 : history'[i + 1] = s[T - newSize + i + 1]
    BY <2>3, <2>5, TrailingElements
  <2>7. ASSUME NEW i \in 0..newSize - 1, NEW k \in Nat, k = i + gone
        PROVE  s[T - newSize + i + 1] = IF k < sz THEN history[k + 1] ELSE values[L - n + (k - sz) + 1]
    <3>1. CASE k < sz
      <4>1. n # c
        BY <1>11, <2>7, <3>1
      <4>2. n = L
        BY <1>8, <4>1
      <4>3. T - newSize + i + 1 = k + 1 /\ k + 1 \in 1..sz
        BY <1>13, <2>2, <2>7, <3>1, <4>2
      <4> QED
        BY <2>4, <3>1, <4>3
    <3>2. CASE ~(k < sz)
      <4>1. PICK j \in sz + 1..sz + L : j = T - newSize + i + 1 /\ j - sz = L - n + (k - sz) + 1
        <5>1. T - newSize + i + 1 \in sz + 1..sz + L /\ (T - newSize + i + 1) - sz = L - n + (k - sz) + 1
          BY <1>8, <1>13, <2>2, <2>7, <3>2
        <5> QED
          BY <5>1
      <4> QED
        BY <2>4, <3>2, <4>1
    <3> QED
      BY <3>1, <3>2
  <2>8. ASSUME NEW i \in 0..newSize - 1, NEW k \in Nat, k = i + gone
        PROVE  history'[i + 1] = IF k < sz THEN history[k + 1] ELSE values[L - n + (k - sz) + 1]
    <3>1. history'[i + 1] = s[T - newSize + i + 1]
      BY <2>6
    <3>2. s[T - newSize + i + 1] = IF k < sz THEN history[k + 1] ELSE values[L - n + (k - sz) + 1]
      BY <2>7, <2>8
    <3> QED
      BY <3>1, <3>2
  <2> QED
    BY <2>6, <2>8
<1>18. HistoryTyped' /\ History!Ring' = R
  <2>1. f \in 0..R - 1 /\ newSize \in 0..c /\ newDirty \in 0..R
    BY <1>13
  <2> QED
    BY <1>1, <1>14, <1>16, <1>17, <2>1, SameCapacity DEF HistoryInv
<1>19. ASSUME NEW i \in 0..newSize - 1, NEW k \in Nat, k = i + gone, k < sz
       PROVE  LET p == Turn(R, w + k)
              IN  Turn(R, f + i) = p /\ buffer'[p] = buffer[p] /\ buffer'[p + R] = buffer[p + R]
  <2>1. PICK m \in Nat : m = R - sz + k
    BY <1>3, <1>5
  <2>2. m < R /\ m >= n
    BY <1>13, <1>19, <2>1
  <2>3. start \in 0..R - 1 /\ m \in 0..R - 1
    BY <1>13, <2>2
  <2>4. Turn(R, f + i) = Turn(R, w + k) /\ Turn(R, w + k) = Turn(R, start + m)
    <3>1. Turn(R, f + i) = Turn(R, w + k)
      BY <1>3, <1>5, <1>13, <1>19 DEF Turn
    <3>2. Turn(R, w + k) = Turn(R, start + m)
      BY <1>3, <1>5, <1>13, <1>19, <2>1 DEF Turn
    <3> QED
      BY <3>1, <3>2
  <2>5. PICK p \in 0..R - 1 : p = Turn(R, start + m) /\ (p - start + 2 * R) % R = m /\ ((p + R) - start + 2 * R) % R = m
    <3>1. /\ Turn(R, start + m) \in 0..R - 1
          /\ (Turn(R, start + m) - start + 2 * R) % R = m
          /\ ((Turn(R, start + m) + R) - start + 2 * R) % R = m
      BY <2>3, TurnBack
    <3> QED
      BY <3>1
  <2>6. p \in DOMAIN buffer /\ p + R \in DOMAIN buffer
    BY <1>6
  <2>7. ~(m < n)
    BY <2>2
  <2>8. buffer'[p] = buffer[p] /\ buffer'[p + R] = buffer[p + R]
    BY <1>16, <2>5, <2>6, <2>7
  <2> QED
    BY <2>4, <2>5, <2>8
<1>20. ASSUME NEW i \in 0..newSize - 1, NEW k \in Nat, k = i + gone, ~(k < sz)
       PROVE  LET p == Turn(R, f + i)
              IN  buffer'[p] = values[L - n + (k - sz) + 1] /\ buffer'[p + R] = values[L - n + (k - sz) + 1]
  <2>1. PICK m \in Nat : m = k - sz
    BY <1>20
  <2>2. m < R /\ m < n
    BY <1>8, <1>13, <1>20, <2>1
  <2>3. start \in 0..R - 1 /\ m \in 0..R - 1 /\ m \in 0..n - 1
    BY <1>13, <2>2
  <2>4. Turn(R, f + i) = Turn(R, start + m)
    BY <1>3, <1>5, <1>11, <1>13, <1>20, <2>1 DEF Turn
  <2>5. PICK p \in 0..R - 1 : p = Turn(R, start + m) /\ (p - start + 2 * R) % R = m /\ ((p + R) - start + 2 * R) % R = m
    <3>1. /\ Turn(R, start + m) \in 0..R - 1
          /\ (Turn(R, start + m) - start + 2 * R) % R = m
          /\ ((Turn(R, start + m) + R) - start + 2 * R) % R = m
      BY <2>3, TurnBack
    <3> QED
      BY <3>1
  <2>6. p \in DOMAIN buffer /\ p + R \in DOMAIN buffer
    BY <1>6
  <2>7. buffer'[p] = kept[m + 1] /\ buffer'[p + R] = kept[m + 1]
    BY <1>16, <2>2, <2>5, <2>6
  <2>8. kept[m + 1] = values[L - n + m + 1]
    BY <1>15, <2>3
  <2> QED
    BY <2>1, <2>4, <2>5, <2>7, <2>8
<1>21. ASSUME NEW i \in 0..newSize - 1 PROVE buffer'[Turn(R, f + i)] = history'[i + 1]
  <2>1. PICK k \in Nat : k = i + gone
    OBVIOUS
  <2>2. CASE k < sz
    <3>1. k \in 0..sz - 1
      BY <2>2
    <3>2. buffer[Turn(R, w + k)] = history[k + 1]
      BY <1>1, <1>2, <3>1 DEF HistoryInv, Mirrored
    <3>3. history'[i + 1] = history[k + 1]
      BY <1>17, <2>1, <2>2
    <3>4. Turn(R, f + i) = Turn(R, w + k) /\ buffer'[Turn(R, w + k)] = buffer[Turn(R, w + k)]
      BY <1>19, <2>1, <2>2
    <3> QED
      BY <3>2, <3>3, <3>4
  <2>3. CASE ~(k < sz)
    <3>1. history'[i + 1] = values[L - n + (k - sz) + 1]
      BY <1>17, <2>1, <2>3
    <3>2. buffer'[Turn(R, f + i)] = values[L - n + (k - sz) + 1]
      BY <1>20, <2>1, <2>3
    <3> QED
      BY <3>1, <3>2
  <2> QED
    BY <2>2, <2>3
<1>22. ASSUME NEW i \in newDirty..newSize - 1 PROVE buffer'[Turn(R, f + i) + R] = history'[i + 1]
  <2>1. PICK k \in Nat : k = i + gone /\ i \in 0..newSize - 1
    OBVIOUS
  <2>2. CASE k < sz
    <3>1. k \in d..sz - 1
      BY <1>13, <2>1, <2>2
    <3>2. buffer[Turn(R, w + k) + R] = history[k + 1]
      BY <1>1, <1>2, <3>1 DEF HistoryInv, Mirrored
    <3>3. history'[i + 1] = history[k + 1]
      BY <1>17, <2>1, <2>2
    <3>4. Turn(R, f + i) = Turn(R, w + k) /\ buffer'[Turn(R, w + k) + R] = buffer[Turn(R, w + k) + R]
      BY <1>19, <2>1, <2>2
    <3> QED
      BY <3>2, <3>3, <3>4
  <2>3. CASE ~(k < sz)
    <3>1. history'[i + 1] = values[L - n + (k - sz) + 1]
      BY <1>17, <2>1, <2>3
    <3>2. buffer'[Turn(R, f + i) + R] = values[L - n + (k - sz) + 1]
      BY <1>20, <2>1, <2>3
    <3> QED
      BY <3>1, <3>2
  <2> QED
    BY <2>2, <2>3
<1> QED
  BY <1>14, <1>18, <1>21, <1>22 DEF HistoryInv, Mirrored

(* resize() fills both halves of new memory from a span.                    *)
LEMMA ResizeKeepsHistory == ASSUME HistoryInv, NEW n \in Capacities, History!Resize(n) PROVE HistoryInv'
<1>1. PICK R, c \in Nat \ {0} : R = History!Ring /\ c = capacity
  BY DEF HistoryInv, HistoryTyped
<1>2. n \in Nat \ {0} /\ History!RingOf(n) \in Nat /\ n <= History!RingOf(n)
  BY HistoryAssumption DEF History!HistoryConstants
<1>3. PICK Q \in Nat \ {0} : Q = History!RingOf(n) /\ n <= Q
  BY <1>2
<1>4. PICK w, sz \in Nat : w = writePosition /\ sz = size /\ w < R /\ sz <= c /\ c <= R
  BY <1>1 DEF HistoryInv, HistoryTyped
<1>5. PICK m \in Nat : m = (IF sz < n THEN sz ELSE n) /\ m <= sz /\ m <= n
  BY <1>2
<1>6. /\ capacity' = n /\ size' = m /\ writePosition' = 0 /\ dirty' = 0
      /\ history' = History!Leading(history)
      /\ buffer' = [p \in 0..2 * Q - 1 |-> LET i == p % Q IN IF i < m THEN History!Synced[w + i] ELSE Zero]
  <2>1. History!Least(size, n) = m
    BY <1>4, <1>5 DEF History!Least
  <2> QED
    BY <1>3, <1>4, <2>1 DEF History!Resize
<1>7. history' \in Seq(Values) /\ Len(history') = m /\ \A i \in 0..m - 1 : history'[i + 1] = history[i + 1]
  <2>1. history \in Seq(Values) /\ Len(history) = sz
    BY <1>4 DEF HistoryInv, HistoryTyped
  <2>2. History!Least(capacity', Len(history)) = m
    BY <1>2, <1>5, <1>6, <2>1 DEF History!Least
  <2>3. history' = SubSeq(history, 1, m)
    BY <1>6, <2>2 DEF History!Leading
  <2>4. m <= Len(history)
    BY <1>5, <2>1
  <2> QED
    BY <2>1, <2>3, <2>4, LeadingElements
<1>8. /\ DOMAIN buffer' = 0..2 * Q - 1 /\ buffer' = [p \in DOMAIN buffer' |-> buffer'[p]]
      /\ \A p \in 0..2 * Q - 1 : \A i : i = p % Q /\ i < m => buffer'[p] = History!Synced[w + i]
  BY <1>6
<1>9. HistoryTyped' /\ History!Ring' = Q
  <2>1. History!Ring' = Q
    BY <1>3, <1>6 DEF History!Ring
  <2>2. m \in 0..n /\ 0 \in 0..Q - 1 /\ 0 \in 0..Q
    BY <1>5
  <2> QED
    BY <1>2, <1>3, <1>6, <1>7, <1>8, <2>1, <2>2 DEF HistoryTyped
<1>10. ASSUME NEW i \in 0..m - 1
       PROVE  buffer'[Turn(Q, 0 + i)] = history'[i + 1] /\ buffer'[Turn(Q, 0 + i) + Q] = history'[i + 1]
  <2>1. i \in 0..Q - 1 /\ Turn(Q, 0 + i) = i
    <3>1. n <= Q /\ m <= n
      BY <1>3, <1>5
    <3>2. i \in Nat /\ i < Q
      BY <1>2, <3>1
    <3> QED
      BY <3>2 DEF Turn
  <2>2. i % Q = i /\ (i + Q) % Q = i
    BY <2>1, Wraps
  <2>3. i \in 0..2 * Q - 1 /\ i + Q \in 0..2 * Q - 1 /\ i < m
    BY <2>1
  <2>4. buffer'[i] = History!Synced[w + i] /\ buffer'[i + Q] = History!Synced[w + i]
    BY <1>8, <2>2, <2>3
  <2>5. History!Synced[w + i] = history[i + 1]
    <3>1. 0 \in 0..sz - 1 /\ sz \in 1..sz - 0 /\ i \in 0..sz - 1 /\ 0 + i + 1 = i + 1
      BY <1>5
    <3>2. History!Synced[History!MapIndex(0) + i] = history[0 + i + 1]
      BY <1>4, <3>1, SpansHold DEF SpansHoldHistory, History!SpansHoldHistory
    <3>3. History!MapIndex(0) = Turn(R, w + 0)
      BY <1>1, <1>4, MapsTo DEF HistoryInv
    <3>4. Turn(R, w + 0) = w
      BY <1>4 DEF Turn
    <3> QED
      BY <3>1, <3>2, <3>3, <3>4
  <2> QED
    BY <1>7, <2>1, <2>4, <2>5
<1>11. Mirrored'
  BY <1>6, <1>9, <1>10 DEF Mirrored
<1> QED
  BY <1>9, <1>11 DEF HistoryInv

(* Every step of a history buffer                                           *)
LEMMA HistoryStep == HistoryInv /\ History!Next => HistoryInv'
<1> SUFFICES ASSUME HistoryInv, History!Next PROVE HistoryInv'
  OBVIOUS
<1>1. ASSUME NEW v \in Values, History!PushFront(v) PROVE HistoryInv'
  BY <1>1, PushFrontKeepsHistory
<1>2. ASSUME NEW v \in Values, History!Reset(v) PROVE HistoryInv'
  BY <1>2, ResetKeepsHistory
<1>3. ASSUME NEW s \in History!Ranges, History!PushFrontRange(s) PROVE HistoryInv'
  BY <1>3, RangesAreSequences, PushFrontRangeKeepsHistory
<1>4. ASSUME NEW s \in History!Ranges, History!PushBack(s) PROVE HistoryInv'
  BY <1>4, RangesAreSequences, PushBackKeepsHistory
<1>5. CASE History!PopFront
  BY <1>5, PopFrontKeepsHistory
<1>6. CASE History!PopBack
  BY <1>6, PopBackKeepsHistory
<1>7. CASE History!Sync
  BY <1>7, SyncKeepsHistory
<1>8. ASSUME NEW n \in Capacities, History!Resize(n) PROVE HistoryInv'
  BY <1>8, ResizeKeepsHistory
<1> QED
  BY <1>1, <1>2, <1>3, <1>4, <1>5, <1>6, <1>7, <1>8 DEF History!Next

(* The invariant speaks of the variables of the history buffer alone.       *)
LEMMA HistoryStutter == HistoryInv /\ UNCHANGED historyVars => HistoryInv'
<1> SUFFICES ASSUME HistoryInv, UNCHANGED historyVars PROVE HistoryInv'
  OBVIOUS
<1> USE DEF historyVars
<1>1. HistoryTyped' /\ History!Ring' = History!Ring
  BY DEF HistoryInv, HistoryTyped, History!Ring
<1>2. Mirrored'
  BY <1>1 DEF HistoryInv, Mirrored
<1> QED
  BY <1>1, <1>2 DEF HistoryInv

(* Whatever is pushed and popped at either end, a range longer than the     *)
(* capacity included, and however often the buffer is resized or reset,     *)
(* every span that get_span() hands out, across the wrap too, holds the     *)
(* elements that belong there, for every capacity.                          *)
THEOREM SpansStay == BuffersSpec => []SpansHoldHistory
<1>1. BuffersInit => HistoryInv
  BY HistoryInvInit DEF BuffersInit
<1>2. HistoryInv /\ [BuffersNext]_allVars => HistoryInv'
  <2>1. ASSUME HistoryInv, Only("history"), History!Next PROVE HistoryInv'
    BY <2>1, HistoryStep
  <2>2. ASSUME HistoryInv, UNCHANGED historyVars PROVE HistoryInv'
    BY <2>2, HistoryStutter
  <2>3. BuffersNext \/ UNCHANGED allVars => (Only("history") /\ History!Next) \/ UNCHANGED historyVars
    BY DEF BuffersNext, Only, allVars
  <2> QED
    BY <2>1, <2>2, <2>3
<1> QED
  BY <1>1, <1>2, SpansHold, PTL DEF BuffersSpec
=============================================================================
