-------------------------- MODULE MultiProducerRing --------------------------
(***************************************************************************)
(* MultiProducerStrategy: several writers claim slots of one ring buffer   *)
(* by compare-and-set on the reserve cursor, mark each filled slot with    *)
(* its sequence number, and whoever finds a contiguous run of marked slots *)
(* after the publish cursor moves the cursor past it.  Used wherever many  *)
(* blocks write into one buffer, message ports above all.                  *)
(*                                                                         *)
(* Every access to a shared atomic is a step of its own.  With             *)
(* StoreBuffers, a mark (a release store, no fence after it) first enters  *)
(* the store buffer of the writer's core, and the writer's later loads may *)
(* overtake it, as the build for x86 and ARM lets them; without it, the    *)
(* marks are sequentially consistent.                                      *)
(***************************************************************************)
EXTENDS Integers, Sequences, FiniteSets

CONSTANTS
    Producers,      \* the writers' threads
    Readers,        \* the attached readers
    Size,           \* _size
    MaxCursor,      \* bound: no call begins whose slots would reach beyond this position
    WordMod,        \* 2^w of std::size_t
    StoreBuffers

ASSUME MultiRingAssumption ==
    /\ Size \in Nat \ {0} /\ MaxCursor \in Nat
    /\ WordMod \in Nat /\ WordMod > MaxCursor + Size
    /\ Readers # {}
    /\ StoreBuffers \in BOOLEAN

VARIABLES
    reserveCursor, publishCursor,
    cachedMin,      \* _cachedMinReaderCursor, a hint shared by the writers
    available,      \* _availableBuffer: the last completed sequence per slot
    pending,        \* pending[p]: marks of p other cores cannot see yet
    data,           \* data[i]: the sample slot i holds
    readIndex,      \* the readers' cursors
    pc,             \* where each writer is in its call
    need, blocking, \* nSlotsToClaim; next() or tryNext()
    current,        \* currentReserveCursor / currentPublishCursor
    ahead,          \* the next slot to mark, or nextPublishCursor
    toScan, freshMin,
    offset, span    \* the writer's reservation

claimVars == <<need, blocking, toScan, freshMin>>
spanVars  == <<offset, span>>
slotVars  == <<available, pending>>
vars == <<reserveCursor, publishCursor, cachedMin, slotVars, data, readIndex, pc,
          current, ahead, claimVars, spanVars>>

SizeMax == WordMod - 1
SubWord(a, b) == IF a >= b THEN a - b ELSE a - b + WordMod
Min2(a, b) == IF a < b THEN a ELSE b
Index(seq) == seq % Size                        \* calculateIndex
Slots == 0 .. Size - 1

Init ==
    /\ reserveCursor = 0 /\ publishCursor = 0 /\ cachedMin = 0
    /\ available = [i \in Slots |-> SizeMax]
    /\ pending = [p \in Producers |-> <<>>]
    /\ data = [i \in Slots |-> SizeMax]
    /\ readIndex = [r \in Readers |-> 0]
    /\ pc = [p \in Producers |-> "idle"]
    /\ need = [p \in Producers |-> 0]
    /\ blocking = [p \in Producers |-> FALSE]
    /\ current = [p \in Producers |-> 0]
    /\ ahead = [p \in Producers |-> 0]
    /\ toScan = [p \in Producers |-> {}]
    /\ freshMin = [p \in Producers |-> SizeMax]
    /\ offset = [p \in Producers |-> 0]
    /\ span = [p \in Producers |-> 0]

Goto(p, from, to) == pc[p] = from /\ pc' = [pc EXCEPT ![p] = to]

Branch(p, from, cond, yes, no) == Goto(p, from, IF cond THEN yes ELSE no)

-----------------------------------------------------------------------------
(* next() and tryNext() *)

BeginReserve(p, n, b) ==
    /\ Goto(p, "idle", "load")
    /\ reserveCursor + n <= MaxCursor
    /\ need' = [need EXCEPT ![p] = n]
    /\ blocking' = [blocking EXCEPT ![p] = b]
    /\ UNCHANGED <<reserveCursor, publishCursor, cachedMin, slotVars, data, readIndex,
                   current, ahead, toScan, freshMin, spanVars>>

LoadReserve(p) ==
    /\ Goto(p, "load", "check")
    /\ current' = [current EXCEPT ![p] = reserveCursor]
    /\ UNCHANGED <<reserveCursor, publishCursor, cachedMin, slotVars, data, readIndex,
                   ahead, claimVars, spanVars>>

NoRoomFor(p, minimum) == SubWord(current[p] + need[p], minimum) > Size

CheckCached(p) ==
    /\ Branch(p, "check", NoRoomFor(p, cachedMin), "scan", "cas")
    /\ toScan' = [toScan EXCEPT ![p] = Readers]
    /\ freshMin' = [freshMin EXCEPT ![p] = SizeMax]
    /\ UNCHANGED <<reserveCursor, publishCursor, cachedMin, slotVars, data, readIndex,
                   current, ahead, need, blocking, spanVars>>

ScanReader(p, r) ==
    /\ pc[p] = "scan"
    /\ r \in toScan[p]
    /\ toScan' = [toScan EXCEPT ![p] = @ \ {r}]
    /\ freshMin' = [freshMin EXCEPT ![p] = Min2(@, readIndex[r])]
    /\ UNCHANGED <<reserveCursor, publishCursor, cachedMin, slotVars, data, readIndex, pc,
                   current, ahead, need, blocking, spanVars>>

(* Faulty: the fresh minimum is checked, through a hint never refreshed.   *)
StoreCachedForgotten(p) ==
    /\ toScan[p] = {}
    /\ Branch(p, "scan", NoRoomFor(p, freshMin[p]),
              IF blocking[p] THEN "load" ELSE "idle", "check")
    /\ UNCHANGED <<reserveCursor, publishCursor, cachedMin, slotVars, data, readIndex,
                   current, ahead, claimVars, spanVars>>

(* The hint is overwritten even by an older minimum.  Without room, next() *)
(* starts over and tryNext() returns nothing.                              *)
StoreCached(p) ==
    /\ toScan[p] = {}
    /\ Branch(p, "scan", NoRoomFor(p, freshMin[p]),
              IF blocking[p] THEN "load" ELSE "idle", "cas")
    /\ cachedMin' = freshMin[p]
    /\ UNCHANGED <<reserveCursor, publishCursor, slotVars, data, readIndex,
                   current, ahead, claimVars, spanVars>>

(* compareAndSet on the reserve cursor; the loser starts over.             *)
CasReserve(p) ==
    /\ Branch(p, "cas", reserveCursor = current[p], "span", "load")
    /\ IF reserveCursor = current[p]
         THEN /\ reserveCursor' = current[p] + need[p]
              /\ offset' = [offset EXCEPT ![p] = current[p]]
              /\ span' = [span EXCEPT ![p] = need[p]]
         ELSE UNCHANGED <<reserveCursor, spanVars>>
    /\ UNCHANGED <<publishCursor, cachedMin, slotVars, data, readIndex,
                   current, ahead, claimVars>>

-----------------------------------------------------------------------------
(* Filling the span, and publish(offset, n) from ~WriterSpan() *)

WriteSamples(p) ==
    /\ Goto(p, "span", "mark")
    /\ data' = [i \in Slots |->
                  IF \E j \in offset[p] .. offset[p] + span[p] - 1 : Index(j) = i
                    THEN CHOOSE j \in offset[p] .. offset[p] + span[p] - 1 : Index(j) = i
                    ELSE data[i]]
    /\ ahead' = [ahead EXCEPT ![p] = offset[p]]
    /\ UNCHANGED <<reserveCursor, publishCursor, cachedMin, slotVars, readIndex,
                   current, claimVars, spanVars>>

(* Faulty: the last slot of the span is not marked.                        *)
MarkSlotButLast(p) ==
    /\ ahead[p] < offset[p] + span[p]
    /\ pc[p] = "mark"
    /\ IF ahead[p] + 1 < offset[p] + span[p]
         THEN pending' = [pending EXCEPT ![p] = Append(@, ahead[p])]
         ELSE UNCHANGED pending
    /\ ahead' = [ahead EXCEPT ![p] = @ + 1]
    /\ UNCHANGED <<reserveCursor, publishCursor, cachedMin, available, data, readIndex, pc,
                   current, claimVars, spanVars>>

(* One release store per slot.                                             *)
MarkSlot(p) ==
    /\ ahead[p] < offset[p] + span[p]
    /\ pc[p] = "mark"
    /\ IF StoreBuffers
         THEN pending' = [pending EXCEPT ![p] = Append(@, ahead[p])] /\ UNCHANGED available
         ELSE available' = [available EXCEPT ![Index(ahead[p])] = ahead[p]] /\ UNCHANGED pending
    /\ ahead' = [ahead EXCEPT ![p] = @ + 1]
    /\ UNCHANGED <<reserveCursor, publishCursor, cachedMin, data, readIndex, pc,
                   current, claimVars, spanVars>>

(* The oldest pending mark of p becomes visible to everyone.               *)
DrainMark(p) ==
    /\ pending[p] # <<>>
    /\ available' = [available EXCEPT ![Index(Head(pending[p]))] = Head(pending[p])]
    /\ pending' = [pending EXCEPT ![p] = Tail(@)]
    /\ UNCHANGED <<reserveCursor, publishCursor, cachedMin, data, readIndex, pc,
                   current, ahead, claimVars, spanVars>>

(* A thread sees its own marks before others do.                           *)
SeenBy(p, seq) ==
    \/ available[Index(seq)] = seq
    \/ \E i \in DOMAIN pending[p] : pending[p][i] = seq

LoadPublish(p) ==
    /\ \/ pc[p] = "mark" /\ ahead[p] = offset[p] + span[p]
       \/ pc[p] = "reload"
    /\ pc' = [pc EXCEPT ![p] = "advance"]
    /\ current' = [current EXCEPT ![p] = publishCursor]
    /\ ahead' = [ahead EXCEPT ![p] = publishCursor]
    /\ UNCHANGED <<reserveCursor, publishCursor, cachedMin, slotVars, data, readIndex,
                   claimVars, spanVars>>

(* Faulty: a slot counts as complete whatever its mark says.               *)
RunGoesOnUnmarked(p) == ahead[p] - current[p] < Size /\ ahead[p] < reserveCursor

RunGoesOn(p) == ahead[p] - current[p] < Size /\ SeenBy(p, ahead[p])

ScanAvailable(p) ==
    /\ pc[p] = "advance"
    /\ RunGoesOn(p)
    /\ ahead' = [ahead EXCEPT ![p] = @ + 1]
    /\ UNCHANGED <<reserveCursor, publishCursor, cachedMin, slotVars, data, readIndex, pc,
                   current, claimVars, spanVars>>

(* The slot after the publish cursor is not complete: someone else's       *)
(* publish will move the cursor.                                           *)
LeaveToOthers(p) ==
    /\ Goto(p, "advance", "idle")
    /\ ~RunGoesOn(p) /\ ahead[p] = current[p]
    /\ span' = [span EXCEPT ![p] = 0]
    /\ UNCHANGED <<reserveCursor, publishCursor, cachedMin, slotVars, data, readIndex,
                   current, ahead, claimVars, offset>>

EndRun(p) ==
    /\ Goto(p, "advance", "casPublish")
    /\ ~RunGoesOn(p) /\ ahead[p] # current[p]
    /\ UNCHANGED <<reserveCursor, publishCursor, cachedMin, slotVars, data, readIndex,
                   current, ahead, claimVars, spanVars>>

(* compareAndSet on the publish cursor, which also drains the marks.       *)
CasPublish(p) ==
    /\ Branch(p, "casPublish", publishCursor = current[p], "idle", "reload")
    /\ pending[p] = <<>>
    /\ IF publishCursor = current[p]
         THEN publishCursor' = ahead[p] /\ span' = [span EXCEPT ![p] = 0]
         ELSE UNCHANGED <<publishCursor, span>>
    /\ UNCHANGED <<reserveCursor, cachedMin, slotVars, data, readIndex,
                   current, ahead, claimVars, offset>>

-----------------------------------------------------------------------------
(* get() and consume() of one reader, as in SingleProducerRing.            *)
Consume(r, n) ==
    /\ readIndex[r] + n <= publishCursor
    /\ readIndex' = [readIndex EXCEPT ![r] = @ + n]
    /\ UNCHANGED <<reserveCursor, publishCursor, cachedMin, slotVars, data, pc,
                   current, ahead, claimVars, spanVars>>

Reserving(p) ==
    \/ LoadReserve(p)
    \/ CheckCached(p)
    \/ \E r \in Readers : ScanReader(p, r)
    \/ StoreCached(p)
    \/ CasReserve(p)

Publishing(p) ==
    \/ WriteSamples(p)
    \/ MarkSlot(p)
    \/ LoadPublish(p)
    \/ ScanAvailable(p)
    \/ LeaveToOthers(p)
    \/ EndRun(p)
    \/ CasPublish(p)

Producer(p) ==
    \/ \E n \in 1..Size, b \in BOOLEAN : BeginReserve(p, n, b)
    \/ Reserving(p)
    \/ Publishing(p)

Next ==
    \/ \E p \in Producers : Producer(p) \/ DrainMark(p)
    \/ \E r \in Readers, n \in 1..Size : Consume(r, n)

Spec == Init /\ [][Next]_vars

(* A thread in a call keeps running, a store buffer drains by itself, and  *)
(* a reader that finds samples consumes some.                              *)
Fairness ==
    /\ \A p \in Producers : WF_vars(Reserving(p) \/ Publishing(p)) /\ WF_vars(DrainMark(p))
    /\ \A r \in Readers : WF_vars(\E n \in 1..Size : Consume(r, n))

FairSpec == Spec /\ Fairness

-----------------------------------------------------------------------------
(* Properties *)

TypeOK ==
    /\ reserveCursor \in Nat /\ publishCursor \in Nat /\ cachedMin \in Nat
    /\ available \in [Slots -> Nat]
    /\ pending \in [Producers -> Seq(Nat)]
    /\ data \in [Slots -> Nat]
    /\ readIndex \in [Readers -> Nat]
    /\ pc \in [Producers -> {"idle", "load", "check", "scan", "cas", "span", "mark",
                             "reload", "advance", "casPublish"}]
    /\ need \in [Producers -> Nat] /\ blocking \in [Producers -> BOOLEAN]
    /\ current \in [Producers -> Nat] /\ ahead \in [Producers -> Nat]
    /\ toScan \in [Producers -> SUBSET Readers] /\ freshMin \in [Producers -> Nat]
    /\ offset \in [Producers -> Nat] /\ span \in [Producers -> Nat]

(* The part of p's reservation it has not marked as complete yet.          *)
Reserved(p) ==
    CASE pc[p] = "span" -> offset[p] .. offset[p] + span[p] - 1
      [] pc[p] = "mark" -> ahead[p] .. offset[p] + span[p] - 1
      [] OTHER          -> {}

(***************************************************************************)
(* Writers never share a slot, and none writes a slot a reader still has   *)
(* to read, although the capacity check uses a cached minimum that any     *)
(* writer may set back and a reserve cursor that is stale by the time of   *)
(* the compare-and-set.                                                    *)
(***************************************************************************)
ReservationsExclusive ==
    /\ \A p, q \in Producers : p # q =>
            {Index(j) : j \in Reserved(p)} \cap {Index(j) : j \in Reserved(q)} = {}
    /\ \A r \in Readers : reserveCursor <= readIndex[r] + Size

(***************************************************************************)
(* The publish cursor only passes slots that were completely written: what *)
(* a reader may see, it sees in order and unharmed, across wrap-arounds,   *)
(* and nobody has it open for writing.                                     *)
(***************************************************************************)
UnreadIntact ==
    /\ ReservationsExclusive
    /\ \A r \in Readers : \A j \in readIndex[r] .. publishCursor - 1 : data[Index(j)] = j

(***************************************************************************)
(* publish() "advances the publish cursor past all contiguously completed  *)
(* slots" (ClaimStrategy.hpp:122): once every writer has returned and its  *)
(* marks are visible, nothing that was published is behind the cursor.     *)
(***************************************************************************)
NothingLeftBehind ==
    (\A p \in Producers : pc[p] = "idle" /\ pending[p] = <<>>)
        => publishCursor = reserveCursor

(***************************************************************************)
(* What publish() left behind the cursor is not lost: once every writer    *)
(* has returned, all slots up to the reserve cursor are marked, so that    *)
(* the next call to publish() moves the cursor past them too.              *)
(***************************************************************************)
NothingLost ==
    (\A p \in Producers : pc[p] = "idle" /\ pending[p] = <<>>)
        => \A seq \in publishCursor .. reserveCursor - 1 : available[Index(seq)] = seq

(* The next slot to publish is marked for all to see, and nobody is left   *)
(* to publish it.                                                          *)
LeftBehind ==
    /\ available[Index(publishCursor)] = publishCursor
    /\ \A p \in Producers : pc[p] \notin {"mark", "reload", "advance", "casPublish"}

(***************************************************************************)
(* A call to next() or publish() returns while the readers consume,        *)
(* whatever the other writers do, unless slots are left behind: those are  *)
(* never consumed, and writers wait for them.                              *)
(***************************************************************************)
CallsReturn == \A p \in Producers : pc[p] # "idle" ~> pc[p] = "idle" \/ LeftBehind
=============================================================================
