---------------------------- MODULE ThreadsProofs ----------------------------
(***************************************************************************)
(* The parts that threads are made of and meet at: the reader-writer lock, *)
(* the pool and the timer task of a block, each proved for every number of *)
(* threads.  Each part has an inductive invariant of its own.              *)
(***************************************************************************)
EXTENDS MCThreads, FiniteSetTheorems, TLAPS

-----------------------------------------------------------------------------
(* The reader-writer lock.  The counter is the number of readers less the  *)
(* number of writers; as long as only one kind is inside, its sign tells   *)
(* which, and an exchange succeeds only from a value of the same sign.     *)

(* Values, and what a thread before its exchange expects to find.          *)
LockTyped ==
    /\ count \in Int
    /\ held \in [Holders -> {"none", "READ", "WRITE"}]
    /\ at \in [Holders -> {"out", "lock", "tryLock"}]
    /\ kind \in [Holders -> {"READ", "WRITE"}]
    /\ expected \in [Holders -> Int]
    /\ \A t \in Holders :
        at[t] # "out" => /\ held[t] = "none"
                         /\ kind[t] = "READ" => expected[t] >= 0
                         /\ kind[t] = "WRITE" => expected[t] <= 0

(* The counter counts, and the two kinds are not inside together.          *)
LockCounted ==
    /\ count = Cardinality(Lock!Holding("READ")) - Cardinality(Lock!Holding("WRITE"))
    /\ Lock!Holding("READ") = {} \/ Lock!Holding("WRITE") = {}

LockInv == LockTyped /\ LockCounted

(* Any set of holders is finite, and empty when it has no elements.        *)
LEMMA HoldingFinite ==
    ASSUME NEW S \in SUBSET Holders
    PROVE  IsFiniteSet(S) /\ Cardinality(S) \in Nat /\ (Cardinality(S) = 0 <=> S = {})
BY PartsAssumption, FS_Subset, FS_CardinalityType, FS_EmptySet

(* The counter is zero, positive or negative as the lock is free, read or  *)
(* written.                                                                *)
LEMMA CountIsKind ==
    ASSUME LockInv
    PROVE  /\ count > 0 <=> Lock!Holding("READ") # {}
           /\ count < 0 <=> Lock!Holding("WRITE") # {}
<1> DEFINE R == Lock!Holding("READ")
           W == Lock!Holding("WRITE")
<1>1. R \in SUBSET Holders /\ W \in SUBSET Holders
  BY DEF Lock!Holding
<1> HIDE DEF R, W
<1>2. /\ Cardinality(R) \in Nat /\ (Cardinality(R) = 0 <=> R = {})
      /\ Cardinality(W) \in Nat /\ (Cardinality(W) = 0 <=> W = {})
  BY <1>1, HoldingFinite
<1>3. count = Cardinality(R) - Cardinality(W) /\ (R = {} \/ W = {})
  BY DEF LockInv, LockCounted, R, W
<1> QED
  BY <1>2, <1>3 DEF R, W

(* A thread that comes in or goes out changes its set by one element.      *)
LEMMA HoldingMoves ==
    ASSUME LockInv, NEW t \in Holders, NEW k \in {"READ", "WRITE"}
    PROVE  /\ held[t] = "none" /\ held' = [held EXCEPT ![t] = k] =>
              /\ Lock!Holding(k)' = Lock!Holding(k) \cup {t}
              /\ Cardinality(Lock!Holding(k)') = Cardinality(Lock!Holding(k)) + 1
           /\ held[t] = k /\ held' = [held EXCEPT ![t] = "none"] =>
              /\ Lock!Holding(k)' = Lock!Holding(k) \ {t}
              /\ Cardinality(Lock!Holding(k)') = Cardinality(Lock!Holding(k)) - 1
           /\ held[t] \in {"none", k} /\ held' \in {[held EXCEPT ![t] = k], [held EXCEPT ![t] = "none"]} =>
              \A other \in {"READ", "WRITE"} \ {k} : Lock!Holding(other)' = Lock!Holding(other)
<1> USE DEF LockInv, LockTyped, Lock!Holding
<1>1. IsFiniteSet(Lock!Holding(k))
  BY HoldingFinite
<1>2. ASSUME held[t] = "none", held' = [held EXCEPT ![t] = k]
      PROVE  /\ Lock!Holding(k)' = Lock!Holding(k) \cup {t}
             /\ Cardinality(Lock!Holding(k)') = Cardinality(Lock!Holding(k)) + 1
  <2>1. Lock!Holding(k)' = Lock!Holding(k) \cup {t} /\ t \notin Lock!Holding(k)
    BY <1>2
  <2> QED
    BY <1>1, <2>1, FS_AddElement DEF Lock!Holding
<1>3. ASSUME held[t] = k, held' = [held EXCEPT ![t] = "none"]
      PROVE  /\ Lock!Holding(k)' = Lock!Holding(k) \ {t}
             /\ Cardinality(Lock!Holding(k)') = Cardinality(Lock!Holding(k)) - 1
  <2>1. Lock!Holding(k)' = Lock!Holding(k) \ {t} /\ t \in Lock!Holding(k)
    BY <1>3
  <2> QED
    BY <1>1, <2>1, FS_RemoveElement, SMTT(60) DEF Lock!Holding
<1>4. ASSUME held[t] \in {"none", k}, held' \in {[held EXCEPT ![t] = k], [held EXCEPT ![t] = "none"]}
      PROVE  \A other \in {"READ", "WRITE"} \ {k} : Lock!Holding(other)' = Lock!Holding(other)
  BY <1>4
<1> QED
  BY <1>2, <1>3, <1>4

(* Looking at the counter, and failing to exchange it, change no holder.   *)
LEMMA LockStutters ==
    ASSUME LockInv, UNCHANGED <<count, held>> PROVE LockCounted'
BY DEF LockInv, LockCounted, Lock!Holding

(* The expected value is never on the other side of zero.                  *)
LEMMA LockInvLoad ==
    ASSUME LockInv, NEW t \in Holders, NEW k \in {"READ", "WRITE"}, NEW call \in {"lock", "tryLock"},
           Lock!Load(t, k, call)
    PROVE  LockInv'
<1>1. LockTyped'
  BY DEF LockInv, LockTyped, Lock!Load, Lock!FreeOfOther
<1> QED
  BY <1>1, LockStutters DEF LockInv, Lock!Load

(* Nor is the value that a failed exchange brings.                         *)
LEMMA LockInvExchangeFails ==
    ASSUME LockInv, NEW t \in Holders, Lock!ExchangeFails(t) PROVE LockInv'
<1>1. LockTyped'
  BY DEF LockInv, LockTyped, Lock!ExchangeFails, Lock!FreeOfOther
<1> QED
  BY <1>1, LockStutters DEF LockInv, Lock!ExchangeFails

(* A thread that gets in found nobody of the other kind inside.            *)
LEMMA LockInvExchange ==
    ASSUME LockInv, NEW t \in Holders, Lock!Exchange(t) PROVE LockInv'
<1>1. LockTyped'
  BY DEF LockInv, LockTyped, Lock!Exchange, Lock!Step
<1> PICK k \in {"READ", "WRITE"}, other \in {"READ", "WRITE"} : k = kind[t] /\ other # k
  BY DEF LockInv, LockTyped
<1>2. /\ other \in {"READ", "WRITE"} \ {k} /\ held[t] = "none"
      /\ k = "READ" => count >= 0
      /\ k = "WRITE" => count <= 0
      /\ held' = [held EXCEPT ![t] = k]
      /\ count' = count + (IF k = "READ" THEN 1 ELSE -1)
  BY DEF LockInv, LockTyped, Lock!Exchange, Lock!Step
<1>3. Lock!Holding(other) = {}
  BY <1>2, CountIsKind DEF LockInv, LockTyped
<1>4. /\ Cardinality(Lock!Holding(k)') = Cardinality(Lock!Holding(k)) + 1
      /\ Lock!Holding(other)' = Lock!Holding(other)
  BY <1>2, HoldingMoves
<1>5. /\ Lock!Holding(k) \in SUBSET Holders
      /\ Lock!Holding(other) \in SUBSET Holders
  BY DEF Lock!Holding
<1>6. Cardinality(Lock!Holding(k)) \in Nat /\ Cardinality(Lock!Holding(other)) \in Nat
  BY <1>5, HoldingFinite
<1>7. LockCounted'
  <2>1. CASE k = "READ"
    BY <1>2, <1>3, <1>4, <1>6, <2>1 DEF LockInv, LockTyped, LockCounted
  <2>2. CASE k = "WRITE"
    BY <1>2, <1>3, <1>4, <1>6, <2>2 DEF LockInv, LockTyped, LockCounted
  <2> QED
    BY <1>2, <2>1, <2>2
<1> QED
  BY <1>1, <1>7 DEF LockInv

(* A thread that leaves leaves nobody of the other kind behind.            *)
LEMMA LockInvUnlock ==
    ASSUME LockInv, NEW t \in Holders, Lock!Unlock(t) PROVE LockInv'
<1>1. LockTyped'
  BY DEF LockInv, LockTyped, Lock!Unlock, Lock!Step
<1> PICK k \in {"READ", "WRITE"}, other \in {"READ", "WRITE"} : k = held[t] /\ other # k
  BY DEF LockInv, LockTyped, Lock!Unlock
<1>2. /\ other \in {"READ", "WRITE"} \ {k} /\ held[t] = k
      /\ held' = [held EXCEPT ![t] = "none"]
      /\ count' = count - (IF k = "READ" THEN 1 ELSE -1)
  BY DEF LockInv, LockTyped, Lock!Unlock, Lock!Step
<1>3. t \in Lock!Holding(k)
  BY <1>2 DEF Lock!Holding
<1>4. /\ Cardinality(Lock!Holding(k)') = Cardinality(Lock!Holding(k)) - 1
      /\ Lock!Holding(other)' = Lock!Holding(other)
  BY <1>2, HoldingMoves
<1>5. Lock!Holding(other) = {}
  BY <1>2, <1>3 DEF LockInv, LockCounted
<1>6. /\ Lock!Holding(k) \in SUBSET Holders
      /\ Lock!Holding(other) \in SUBSET Holders
  BY DEF Lock!Holding
<1>7. Cardinality(Lock!Holding(k)) \in Nat /\ Cardinality(Lock!Holding(other)) = 0
  BY <1>5, <1>6, HoldingFinite
<1>8. LockCounted'
  <2>1. CASE k = "READ"
    <3>1. other = "WRITE"
      BY <1>2, <2>1
    <3> QED
      BY <1>2, <3>1, <1>4, <1>5, <1>7, <2>1 DEF LockInv, LockTyped, LockCounted
  <2>2. CASE k = "WRITE"
    <3>1. other = "READ"
      BY <1>2, <2>2
    <3> QED
      BY <1>2, <3>1, <1>4, <1>5, <1>7, <2>2 DEF LockInv, LockTyped, LockCounted
  <2> QED
    BY <1>2, <2>1, <2>2
<1> QED
  BY <1>1, <1>8 DEF LockInv

(* However the exchanges of any number of threads interleave, readers and  *)
(* writers exclude each other, and the counter of reader_writer_lock.hpp   *)
(* is zero exactly when nobody holds the lock.                             *)
THEOREM LockExcludes == Lock!Spec => []ReadersExcludeWriters
<1>1. Lock!Init => LockInv
  <2> SUFFICES ASSUME Lock!Init PROVE LockInv
    OBVIOUS
  <2>1. Lock!Holding("READ") = {} /\ Lock!Holding("WRITE") = {}
    BY DEF Lock!Init, Lock!Holding
  <2> QED
    BY <2>1, FS_EmptySet DEF LockInv, LockTyped, LockCounted, Lock!Init
<1>2. LockInv /\ [Lock!Next]_Lock!vars => LockInv'
  <2> SUFFICES ASSUME LockInv, [Lock!Next]_Lock!vars PROVE LockInv'
    OBVIOUS
  <2>1. CASE UNCHANGED Lock!vars
    <3>1. LockTyped'
      BY <2>1 DEF Lock!vars, LockInv, LockTyped
    <3> QED
      BY <2>1, <3>1, LockStutters DEF Lock!vars, LockInv
  <2>2. CASE Lock!Next
    BY <2>2, LockInvLoad, LockInvExchange, LockInvExchangeFails, LockInvUnlock DEF Lock!Next, Lock!Kinds
  <2> QED
    BY <2>1, <2>2
<1>3. LockInv => ReadersExcludeWriters
  <2> SUFFICES ASSUME LockInv PROVE ReadersExcludeWriters
    OBVIOUS
  <2>1. count \in Int
    BY DEF LockInv, LockTyped
  <2> QED
    BY <2>1, CountIsKind DEF LockInv, LockCounted, ReadersExcludeWriters, Lock!ReadersExcludeWriters
<1> QED
  BY <1>1, <1>2, <1>3, PTL DEF Lock!Spec

-----------------------------------------------------------------------------
(* The pool.  A call to execute() that has seen room creates at most one   *)
(* thread before it looks again, so what must be bounded is the number of  *)
(* threads together with the calls that are on their way to create one.    *)

(* Where a call to execute() may be, and where it is about to create one.  *)
Places == {"out", "push", "notify", "size", "room", "load", "compare", "create"}
OnTheWay == {"load", "compare", "create"}
Growers == {s \in Submitters : spc[s] \in OnTheWay}

(* Threads and calls on their way to create one stay within the bound.     *)
PoolInv ==
    /\ minThreads \in Int /\ numThreads \in Int
    /\ spc \in [Submitters -> Places]
    /\ numThreads + Cardinality(Growers) < MaxThreads + Cardinality(Submitters)
    /\ ~shutdown => numThreads >= minThreads

(* Any set of submitters is finite.                                        *)
LEMMA GrowersFinite ==
    ASSUME NEW S \in SUBSET Submitters
    PROVE  /\ IsFiniteSet(S) /\ Cardinality(S) \in Nat
           /\ Cardinality(S) <= Cardinality(Submitters) /\ Cardinality(Submitters) \in Nat
BY PoolAssumption, FS_Subset, FS_CardinalityType

(* What a call that goes on to "to" does to the number of calls on their   *)
(* way: only one that passes the check for room (CanGrow) adds to it.      *)
CallMoves(s, to) ==
    /\ spc' \in [Submitters -> Places]
    /\ Cardinality(Growers) \in Nat /\ Cardinality(Growers') \in Nat
    /\ Cardinality(Growers') <= Cardinality(Submitters) /\ Cardinality(Submitters) \in Nat
    /\ to \notin OnTheWay =>
          /\ Cardinality(Growers') <= Cardinality(Growers)
          /\ s \in Growers => Cardinality(Growers') = Cardinality(Growers) - 1
    /\ s \in Growers /\ to \in OnTheWay => Cardinality(Growers') = Cardinality(Growers)

(* A call of execute() that goes on moves so.                              *)
LEMMA GrowersMove ==
    ASSUME PoolInv, NEW s \in Submitters, NEW to \in Places, spc' = [spc EXCEPT ![s] = to]
    PROVE  CallMoves(s, to)
<1> USE DEF Places, OnTheWay
<1>1. spc' \in [Submitters -> Places]
  BY DEF PoolInv
<1>2. Growers \in SUBSET Submitters /\ Growers' \in SUBSET Submitters
  BY DEF Growers
<1>3. to \notin OnTheWay => Growers' = Growers \ {s}
  BY DEF Growers, PoolInv
<1>4. s \in Growers /\ to \in OnTheWay => Growers' = Growers
  BY DEF Growers, PoolInv
<1>5. IsFiniteSet(Growers)
  BY <1>2, GrowersFinite
<1>6. Cardinality(Growers \ {s}) = IF s \in Growers THEN Cardinality(Growers) - 1
                                   ELSE Cardinality(Growers)
  BY <1>5, FS_RemoveElement
<1>7. /\ Cardinality(Growers) \in Nat /\ Cardinality(Growers') \in Nat
      /\ Cardinality(Growers') <= Cardinality(Submitters) /\ Cardinality(Submitters) \in Nat
  BY <1>2, GrowersFinite
<1> QED
  BY <1>1, <1>3, <1>4, <1>6, <1>7 DEF CallMoves

(* Steps that leave the pool's size and the submitters' places alone.      *)
LEMMA PoolStutters ==
    ASSUME PoolInv, UNCHANGED <<minThreads, numThreads, spc>>, shutdown => shutdown' PROVE PoolInv'
<1>1. Growers' = Growers
  BY DEF Growers
<1> QED
  BY <1>1 DEF PoolInv

(* A thread that leaves makes the pool smaller, but not too small.         *)
LEMMA PoolLeave ==
    ASSUME PoolInv, NEW w \in Threads, LeaveOnShutdown(w) \/ Retire(w) PROVE PoolInv'
<1>1. Growers' = Growers /\ numThreads' = numThreads - 1 /\ UNCHANGED <<minThreads, spc, shutdown>>
  BY DEF LeaveOnShutdown, Retire, Leave, submitterVars, Growers
<1>2. ~shutdown => numThreads > minThreads
  BY DEF LeaveOnShutdown, Retire, MayRetire
<1>3. Cardinality(Growers) \in Nat /\ Cardinality(Submitters) \in Nat /\ MaxThreads \in Nat
  BY GrowersFinite, PoolAssumption DEF Growers
<1> QED
  BY <1>1, <1>2, <1>3 DEF PoolInv

(* Any number of concurrent calls overshoots the maximum by less than      *)
(* their number, and the pool keeps its minimum until it is shut down.     *)
LEMMA PoolInvStep == ASSUME PoolInv, [Next]_vars PROVE PoolInv'
<1> USE DEF submitterVars, queueVars, threadVars, Goto, Places, OnTheWay
<1>1. MaxThreads \in Nat
  BY PoolAssumption
<1>2. ASSUME NEW s \in Submitters, Execute(s) \/ Push(s) \/ NotifyOne(s) PROVE PoolInv'
  <2>1. /\ \E to \in {"push", "notify", "size"} : spc' = [spc EXCEPT ![s] = to]
        /\ UNCHANGED <<minThreads, numThreads, shutdown>>
    BY <1>2 DEF Execute, Push, NotifyOne
  <2>2. PICK to \in {"push", "notify", "size"} : spc' = [spc EXCEPT ![s] = to]
    BY <2>1
  <2>3. CallMoves(s, to)
    BY <2>2, GrowersMove
  <2> QED
    BY <1>1, <2>1, <2>3 DEF PoolInv, CallMoves
<1>3. ASSUME NEW s \in Submitters, PendingTasks(s) PROVE PoolInv'
  <2>1. /\ \E to \in {"room", "out"} : spc' = [spc EXCEPT ![s] = to]
        /\ UNCHANGED <<minThreads, numThreads, shutdown>>
    BY <1>3 DEF PendingTasks
  <2>2. PICK to \in {"room", "out"} : spc' = [spc EXCEPT ![s] = to]
    BY <2>1
  <2>3. CallMoves(s, to)
    BY <2>2, GrowersMove
  <2> QED
    BY <1>1, <2>1, <2>3 DEF PoolInv, CallMoves
<1>4. ASSUME NEW s \in Submitters, CanGrow(s) PROVE PoolInv'
  <2>1. UNCHANGED <<minThreads, numThreads, shutdown>>
    BY <1>4 DEF CanGrow
  <2>2. CASE numThreads < MaxThreads
    <3>1. spc' = [spc EXCEPT ![s] = "load"]
      BY <1>4, <2>2 DEF CanGrow
    <3>2. CallMoves(s, "load")
      BY <3>1, GrowersMove
    <3> QED
      BY <1>1, <2>1, <2>2, <3>2 DEF PoolInv, CallMoves
  <2>3. CASE ~ (numThreads < MaxThreads)
    <3>1. spc' = [spc EXCEPT ![s] = "out"]
      BY <1>4, <2>3 DEF CanGrow
    <3>2. CallMoves(s, "out")
      BY <3>1, GrowersMove
    <3> QED
      BY <1>1, <2>1, <3>2 DEF PoolInv, CallMoves
  <2> QED
    BY <2>2, <2>3
<1>5. ASSUME NEW s \in Submitters, LoadThreads(s) \/ Compare(s) PROVE PoolInv'
  <2>1. /\ s \in Growers
        /\ \E to \in {"compare", "create", "notify"} : spc' = [spc EXCEPT ![s] = to]
        /\ UNCHANGED <<minThreads, numThreads, shutdown>>
    BY <1>5 DEF LoadThreads, Compare, Growers
  <2>2. PICK to \in {"compare", "create", "notify"} : spc' = [spc EXCEPT ![s] = to]
    BY <2>1
  <2>3. CallMoves(s, to)
    BY <2>2, GrowersMove
  <2> QED
    BY <1>1, <2>1, <2>2, <2>3 DEF PoolInv, CallMoves
<1>6. ASSUME NEW s \in Submitters, CreateWorkerThread(s) PROVE PoolInv'
  <2>1. /\ s \in Growers /\ spc' = [spc EXCEPT ![s] = "notify"] /\ numThreads' = numThreads + 1
        /\ UNCHANGED <<minThreads, shutdown>>
    BY <1>6 DEF CreateWorkerThread, Growers
  <2>2. CallMoves(s, "notify")
    BY <2>1, GrowersMove
  <2> QED
    BY <1>1, <2>1, <2>2 DEF PoolInv, CallMoves
<1>7. ASSUME NEW w \in Threads, Taking(w) \/ Stay(w) \/ EndTask(w) \/ Timeout(w) PROVE PoolInv'
  <2>1. UNCHANGED <<minThreads, numThreads, spc, shutdown>>
    BY <1>7 DEF Taking, Pop, Uncount, BeginTask, FindNone, WaitPredicate, FallAsleep,
                Stay, EndTask, Timeout
  <2> QED
    BY <2>1, PoolStutters
<1>8. ASSUME NEW w \in Threads, LeaveOnShutdown(w) \/ Retire(w) PROVE PoolInv'
  BY <1>8, PoolLeave
<1>9. CASE RequestShutdown
  BY <1>9, PoolStutters DEF RequestShutdown
<1>10. CASE UNCHANGED vars
  BY <1>10, PoolStutters DEF vars
<1> QED
  BY <1>2, <1>3, <1>4, <1>5, <1>6, <1>7, <1>8, <1>9, <1>10 DEF Next, Growing, Checking

(* The size of the pool stays between its minimum and what its maximum,    *)
(* checked without a lock by calls to execute(), still guarantees          *)
(* (BasicThreadPool; qa_thread_pool.cpp:101).                              *)
THEOREM PoolSize == Spec => []SizeBounded
<1>1. Init => PoolInv
  <2> SUFFICES ASSUME NEW n \in 1 .. MaxThreads, InitWith(n) PROVE PoolInv
    BY DEF Init
  <2>1. Growers = {}
    BY DEF InitWith, Growers, OnTheWay
  <2>2. Cardinality(Growers) = 0 /\ Cardinality(Submitters) \in Nat \ {0}
    BY <2>1, FS_EmptySet, FS_CardinalityType, PoolAssumption
  <2> QED
    BY <2>2, PoolAssumption DEF InitWith, PoolInv, Places
<1>2. PoolInv /\ [Next]_vars => PoolInv'
  BY PoolInvStep
<1>3. PoolInv => SizeBounded
  <2>1. Cardinality(Growers) \in Nat /\ Cardinality(Submitters) \in Nat /\ MaxThreads \in Nat
    BY GrowersFinite, PoolAssumption DEF Growers
  <2> QED
    BY <2>1 DEF PoolInv, SizeBounded
<1> QED
  BY <1>1, <1>2, <1>3, PTL DEF Spec

-----------------------------------------------------------------------------
(* The timer task of a block (BlockingSync) and the hooks of the block's   *)
(* life cycle, which its owner alone changes.                              *)

SyncPcs == {"out", "validate", "hook"}
HookPlaces == {"begin", "execute", "wait", "end"}
TimerPlaces == {"queued", "loop", "sleep"}

SyncTyped ==
    /\ state \in Sync!States /\ lastHook \in Sync!Hooks \cup {"none"}
    /\ lifePc \in [{Owner} -> SyncPcs]
    /\ seen \in [{Owner} -> Sync!States] /\ target \in [{Owner} -> Sync!States]
    /\ timerRunning \in BOOLEAN /\ timerDone \in BOOLEAN
    /\ timers \in [TimerPlaces -> Nat]
    /\ hookPc \in HookPlaces

InHook(h, p) == lifePc[Owner] = "hook" /\ Sync!Hook = h /\ hookPc = p

(* The state whose hook ran last: a new state counts once its hook is done. *)
Effective == IF lifePc[Owner] = "hook" THEN seen[Owner] ELSE state

(* Where the owner is.                                                     *)
SyncPlaced ==
    /\ lifePc[Owner] = "validate" => seen[Owner] = state
    /\ lifePc[Owner] = "hook" => /\ state = target[Owner] /\ seen[Owner] # target[Owner]
                                 /\ Sync!isValidTransition(seen[Owner], target[Owner])
    /\ hookPc # "begin" => \/ InHook("start", "execute") \/ InHook("start", "end")
                           \/ InHook("stop", "wait") \/ InHook("stop", "end")

(* What the last hook says of the state.                                   *)
HookMemory ==
    /\ Effective = "INITIALISED" => lastHook \in {"init", "reset"}
    /\ Effective \in {"REQUESTED_PAUSE", "PAUSED"} => lastHook = "pause"
    /\ lastHook = "stop" => Effective \in {"REQUESTED_STOP", "STOPPED", "ERROR"}

(* At most one task, which timerDone_ follows; and no task once the stop() *)
(* hook, which cleared timerRunning_, has waited for it.                   *)
TimerInv ==
    /\ \A p, q \in DOMAIN timers : timers[p] > 0 /\ timers[q] > 0 => p = q /\ timers[p] = 1
    /\ timerDone <=> Sync!NoTimer
    /\ ~timerRunning => Sync!NoTimer \/ InHook("stop", "wait")
    /\ InHook("start", "execute") => Sync!NoTimer /\ timerRunning
    /\ InHook("stop", "end") => Sync!NoTimer
    /\ lastHook = "stop" /\ Sync!isShuttingDown(Effective) => Sync!NoTimer

SyncInv == SyncTyped /\ SyncPlaced /\ HookMemory /\ TimerInv

(* The steps of changeStateTo() and the hook's end keep the memory of the  *)
(* last hook right.                                                        *)
LEMMA ChangeStateStep == ASSUME SyncInv, Sync!ChangeState PROVE SyncInv'
<1> USE DEF Sync!vars
<1>1. UNCHANGED <<timerRunning, timerDone, timers>>
      /\ hookPc' = IF lifePc[Owner] = "hook" THEN "begin" ELSE hookPc
  BY DEF Sync!ChangeState, Sync!timer
<1>2. ASSUME NEW to \in Sync!States, Sync!LoadState(Owner, to) PROVE SyncInv'
  <2>1. SyncTyped'
    BY <1>1, <1>2 DEF SyncInv, SyncTyped, SyncPcs, HookPlaces, Sync!LoadState
  <2>2. SyncPlaced' /\ Effective' = Effective
    BY <1>1, <1>2 DEF SyncInv, SyncTyped, SyncPlaced, SyncPcs, Sync!LoadState, InHook, Effective
  <2>3. HookMemory'
    BY <1>2, <2>2 DEF SyncInv, HookMemory, Sync!LoadState
  <2>4. TimerInv'
    BY <1>1, <1>2, <2>2 DEF SyncInv, SyncTyped, SyncPcs, TimerInv, InHook, Sync!NoTimer, Sync!LoadState
  <2> QED
    BY <2>1, <2>2, <2>3, <2>4 DEF SyncInv
<1>3. ASSUME Sync!AlreadyThere(Owner) \/ Sync!Reject(Owner) PROVE SyncInv'
  <2>1. /\ lifePc[Owner] = "validate" /\ lifePc' = [lifePc EXCEPT ![Owner] = "out"]
        /\ UNCHANGED <<state, lastHook, seen, target>>
    BY <1>3 DEF Sync!AlreadyThere, Sync!Reject, Sync!Return
  <2>2. SyncTyped'
    BY <1>1, <2>1 DEF SyncInv, SyncTyped, SyncPcs, HookPlaces
  <2>3. SyncPlaced' /\ Effective' = Effective
    BY <1>1, <2>1 DEF SyncInv, SyncTyped, SyncPlaced, SyncPcs, InHook, Effective
  <2>4. HookMemory'
    BY <2>1, <2>3 DEF SyncInv, HookMemory
  <2>5. TimerInv'
    BY <1>1, <2>1, <2>3 DEF SyncInv, SyncTyped, SyncPcs, TimerInv, InHook, Sync!NoTimer
  <2> QED
    BY <2>2, <2>3, <2>4, <2>5 DEF SyncInv
<1>4. ASSUME Sync!SetState(Owner) PROVE SyncInv'
  <2>1. /\ lifePc[Owner] = "validate" /\ lifePc' = [lifePc EXCEPT ![Owner] = "hook"]
        /\ state' = target[Owner] /\ seen[Owner] = state /\ seen[Owner] # target[Owner]
        /\ Sync!isValidTransition(seen[Owner], target[Owner])
        /\ UNCHANGED <<lastHook, seen, target>>
    BY <1>4 DEF SyncInv, SyncPlaced, Sync!SetState, Sync!Satisfied
  <2>2. SyncTyped'
    BY <1>1, <2>1 DEF SyncInv, SyncTyped, SyncPcs, HookPlaces
  <2>3. SyncPlaced' /\ Effective' = Effective
    BY <1>1, <2>1 DEF SyncInv, SyncTyped, SyncPlaced, SyncPcs, InHook, Effective, Sync!isValidTransition, Sync!Successors
  <2>4. HookMemory'
    BY <2>1, <2>3 DEF SyncInv, HookMemory
  <2>5. hookPc' = "begin"
    BY <1>1, <2>1 DEF SyncInv, SyncPlaced, InHook
  <2>6. TimerInv'
    BY <1>1, <2>1, <2>3, <2>5 DEF SyncInv, SyncTyped, SyncPcs, TimerInv, InHook, Sync!NoTimer
  <2> QED
    BY <2>2, <2>3, <2>4, <2>6 DEF SyncInv
<1>5. ASSUME Sync!RunHook(Owner), hookPc = "end" \/ Sync!Hook \notin {"start", "stop"} PROVE SyncInv'
  <2>1. /\ lifePc[Owner] = "hook" /\ lifePc' = [lifePc EXCEPT ![Owner] = "out"]
        /\ lastHook' = (IF Sync!Hook = "none" THEN lastHook ELSE Sync!Hook)
        /\ UNCHANGED <<state, seen, target>>
    BY <1>5 DEF Sync!RunHook, Sync!Return, Sync!Hook
  <2>2. SyncTyped'
    BY <1>1, <2>1 DEF SyncInv, SyncTyped, SyncPcs, HookPlaces, Sync!Hook, Sync!HookOf, Sync!Hooks
  <2>3. SyncPlaced'
    BY <1>1, <2>1 DEF SyncInv, SyncTyped, SyncPlaced, SyncPcs, InHook
  <2>4. /\ Effective = seen[Owner] /\ Effective' = target[Owner]
        /\ seen[Owner] \in Sync!States /\ target[Owner] \in Sync!States
        /\ seen[Owner] # target[Owner] /\ Sync!isValidTransition(seen[Owner], target[Owner])
    BY <2>1 DEF SyncInv, SyncTyped, SyncPlaced, Effective
  <2>5. HookMemory'
    BY <2>1, <2>4 DEF SyncInv, HookMemory, Sync!Hook, Sync!HookOf, Sync!isValidTransition, Sync!Successors, Sync!States
  <2>6. lastHook' = "stop" /\ Sync!isShuttingDown(Effective') => Sync!NoTimer
    <3>1. CASE Sync!Hook = "stop"
      BY <1>5, <2>1, <3>1 DEF SyncInv, TimerInv, InHook
    <3>2. CASE Sync!Hook # "stop"
      BY <2>1, <2>4, <3>2 DEF SyncInv, TimerInv, HookMemory, Sync!Hook, Sync!HookOf, Sync!isValidTransition,
         Sync!Successors, Sync!States, Sync!isShuttingDown
    <3> QED
      BY <3>1, <3>2
  <2>7. TimerInv'
    BY <1>1, <1>5, <2>1, <2>6 DEF SyncInv, SyncTyped, SyncPlaced, SyncPcs, TimerInv, InHook, Sync!NoTimer, Sync!isShuttingDown
  <2> QED
    BY <2>2, <2>3, <2>5, <2>7 DEF SyncInv
<1>6. ASSUME Sync!HookThrows(Owner), hookPc \in {"begin", "end"} PROVE SyncInv'
  <2>1. /\ lifePc[Owner] = "hook" /\ lifePc' = [lifePc EXCEPT ![Owner] = "out"]
        /\ lastHook' = Sync!Hook /\ Sync!Hook # "none" /\ state' = "ERROR"
        /\ UNCHANGED <<seen, target>>
    BY <1>6 DEF Sync!HookThrows, Sync!Return, Sync!Hook
  <2>2. SyncTyped'
    BY <1>1, <2>1 DEF SyncInv, SyncTyped, SyncPcs, HookPlaces, Sync!Hook, Sync!HookOf, Sync!Hooks, Sync!States
  <2>3. SyncPlaced' /\ Effective' = "ERROR"
    BY <1>1, <2>1 DEF SyncInv, SyncTyped, SyncPlaced, SyncPcs, InHook, Effective
  <2>4. HookMemory'
    BY <2>3 DEF HookMemory
  <2>5. TimerInv'
    BY <1>1, <1>6, <2>1, <2>3 DEF SyncInv, SyncTyped, SyncPlaced, SyncPcs, TimerInv, InHook, Sync!NoTimer, Sync!isShuttingDown
  <2> QED
    BY <2>2, <2>3, <2>4, <2>5 DEF SyncInv
<1> QED
  BY <1>2, <1>3, <1>4, <1>5, <1>6 DEF Sync!ChangeState

(* The owner's steps inside the start() and the stop() hook: a task is     *)
(* started when there is none, and stop() ends only when there is none.    *)
LEMMA HookStepStep == ASSUME SyncInv, Sync!HookStep PROVE SyncInv'
<1> USE DEF Sync!InHook, InHook
<1>1. UNCHANGED <<state, lastHook, lifePc, seen, target>> /\ Effective' = Effective
  BY DEF Sync!HookStep, Sync!StartSync, Sync!ExecuteTimer, Sync!ClearRunning, Sync!AwaitTimer,
         Sync!block, Effective
<1>2. HookMemory'
  BY <1>1 DEF SyncInv, HookMemory
<1>3. UNCHANGED Sync!Hook
  BY <1>1 DEF Sync!Hook
<1>4. ASSUME Sync!StartSync PROVE SyncInv'
  <2>1. SyncTyped' /\ SyncPlaced'
    BY <1>1, <1>3, <1>4 DEF SyncInv, SyncTyped, SyncPlaced, HookPlaces, Sync!StartSync
  <2>2. TimerInv'
    BY <1>1, <1>3, <1>4 DEF SyncInv, SyncTyped, TimerInv, Sync!StartSync, Sync!NoTimer
  <2> QED
    BY <1>2, <2>1, <2>2 DEF SyncInv
<1>5. ASSUME Sync!ExecuteTimer PROVE SyncInv'
  <2>1. /\ \A p \in TimerPlaces : timers[p] = 0
        /\ timers' = [timers EXCEPT !["queued"] = 1] /\ timers' \in [TimerPlaces -> Nat]
    <3>1. \A p \in TimerPlaces : timers[p] = 0
      BY <1>5 DEF SyncInv, SyncTyped, TimerInv, Sync!ExecuteTimer, Sync!NoTimer
    <3>2. timers["queued"] + 1 = 1
      BY <3>1 DEF TimerPlaces
    <3>3. timers' = [timers EXCEPT !["queued"] = 1]
      BY <1>5, <3>2 DEF Sync!ExecuteTimer
    <3>4. timers' \in [TimerPlaces -> Nat]
      BY <3>3 DEF SyncInv, SyncTyped
    <3> QED
      BY <3>1, <3>3, <3>4
  <2>2. SyncTyped' /\ SyncPlaced'
    <3>1. SyncTyped'
      BY <1>1, <1>5, <2>1 DEF SyncInv, SyncTyped, HookPlaces, Sync!ExecuteTimer
    <3>2. SyncPlaced'
      BY <1>1, <1>3, <1>5 DEF SyncInv, SyncPlaced, Sync!ExecuteTimer
    <3> QED
      BY <3>1, <3>2
  <2>3. Effective = "INITIALISED" /\ timerRunning
    BY <1>1, <1>5 DEF SyncInv, SyncTyped, SyncPlaced, TimerInv, Effective, Sync!ExecuteTimer, Sync!Hook, Sync!HookOf
  <2>4. TimerInv'
    <3>1. timers'["queued"] = 1 /\ \A p \in TimerPlaces \ {"queued"} : timers'[p] = 0
      BY <2>1 DEF TimerPlaces
    <3>2. ~Sync!NoTimer'
      BY <2>1, <3>1 DEF Sync!NoTimer, TimerPlaces
    <3> QED
      BY <1>1, <1>3, <1>5, <2>1, <2>3, <3>1, <3>2 DEF SyncInv, TimerInv, HookMemory, Sync!ExecuteTimer,
         Sync!isShuttingDown
  <2> QED
    BY <1>2, <2>2, <2>4 DEF SyncInv
<1>6. ASSUME Sync!ClearRunning PROVE SyncInv'
  <2>1. SyncTyped' /\ SyncPlaced'
    BY <1>1, <1>3, <1>6 DEF SyncInv, SyncTyped, SyncPlaced, HookPlaces, Sync!ClearRunning
  <2>2. TimerInv'
    BY <1>1, <1>3, <1>6 DEF SyncInv, SyncTyped, TimerInv, Sync!ClearRunning, Sync!NoTimer
  <2> QED
    BY <1>2, <2>1, <2>2 DEF SyncInv
<1>7. ASSUME Sync!AwaitTimer PROVE SyncInv'
  <2>1. SyncTyped' /\ SyncPlaced'
    BY <1>1, <1>3, <1>7 DEF SyncInv, SyncTyped, SyncPlaced, HookPlaces, Sync!AwaitTimer, Sync!timer
  <2>2. TimerInv'
    BY <1>1, <1>3, <1>7 DEF SyncInv, SyncTyped, TimerInv, Sync!AwaitTimer, Sync!NoTimer, Sync!timer
  <2> QED
    BY <1>2, <2>1, <2>2 DEF SyncInv
<1> QED
  BY <1>4, <1>5, <1>6, <1>7 DEF Sync!HookStep

(* The steps of the task: it goes around its loop, or ends and says so.    *)
LEMMA TimerStepStep == ASSUME SyncInv, Sync!TimerStep PROVE SyncInv'
<1>1. /\ UNCHANGED <<state, lastHook, lifePc, seen, target, timerRunning, hookPc>>
      /\ Effective' = Effective
  BY DEF Sync!TimerStep, Sync!BeginTask, Sync!Loop, Sync!WakeUp, Sync!block, Effective
<1>2. HookMemory' /\ SyncPlaced'
  BY <1>1 DEF SyncInv, HookMemory, SyncPlaced, InHook, Sync!Hook
<1>3. \E from \in TimerPlaces :
        /\ timers[from] > 0
        /\ \/ \E to \in TimerPlaces \ {from} : timers' = Sync!Moved(from, to) /\ timerDone' = timerDone
           \/ timers' = Sync!Ended(from) /\ timerDone' = TRUE
  BY DEF Sync!TimerStep, Sync!BeginTask, Sync!Loop, Sync!WakeUp, TimerPlaces
<1>4. PICK from \in TimerPlaces :
        /\ timers[from] > 0
        /\ \/ \E to \in TimerPlaces \ {from} : timers' = Sync!Moved(from, to) /\ timerDone' = timerDone
           \/ timers' = Sync!Ended(from) /\ timerDone' = TRUE
  BY <1>3
<1>5. timers[from] = 1 /\ \A p \in TimerPlaces \ {from} : timers[p] = 0
  BY <1>4 DEF SyncInv, SyncTyped, TimerInv
<1>6. ~Sync!NoTimer /\ timers \in [TimerPlaces -> Nat]
  BY <1>4, <1>5 DEF SyncInv, SyncTyped, Sync!NoTimer
<1>7. CASE timers' = Sync!Ended(from) /\ timerDone' = TRUE
  <2>1. timers' \in [TimerPlaces -> Nat] /\ \A p \in TimerPlaces : timers'[p] = 0
    BY <1>5, <1>6, <1>7 DEF Sync!Ended
  <2>2. Sync!NoTimer'
    BY <2>1 DEF Sync!NoTimer
  <2>3. \A p \in DOMAIN timers' : ~(timers'[p] > 0)
    BY <2>1
  <2>4. TimerInv'
    BY <1>1, <1>7, <2>2, <2>3 DEF SyncInv, TimerInv, InHook, Sync!Hook
  <2> QED
    BY <1>1, <1>2, <1>7, <2>1, <2>4 DEF SyncInv, SyncTyped
<1>8. ASSUME NEW to \in TimerPlaces \ {from}, timers' = Sync!Moved(from, to), timerDone' = timerDone
      PROVE  SyncInv'
  <2>1. /\ timers' \in [TimerPlaces -> Nat] /\ timers'[to] = 1
        /\ \A p \in TimerPlaces \ {to} : timers'[p] = 0
    BY <1>5, <1>6, <1>8 DEF Sync!Moved
  <2>2. ~Sync!NoTimer'
    BY <2>1 DEF Sync!NoTimer
  <2>3. TimerInv'
    BY <1>1, <1>6, <1>8, <2>1, <2>2 DEF SyncInv, TimerInv, InHook, Sync!Hook
  <2> QED
    BY <1>1, <1>2, <1>8, <2>1, <2>3 DEF SyncInv, SyncTyped
<1> QED
  BY <1>4, <1>7, <1>8

(* Nothing has happened to a new block.                                    *)
LEMMA SyncInvInit == Sync!SyncInit => SyncInv
<1> SUFFICES ASSUME Sync!SyncInit PROVE SyncInv
  OBVIOUS
<1>1. SyncTyped /\ SyncPlaced
  BY DEF Sync!SyncInit, Sync!Init, SyncTyped, SyncPlaced, SyncPcs, HookPlaces, TimerPlaces,
         Sync!States
<1>2. Effective = "IDLE" /\ lastHook = "none"
  BY DEF Sync!SyncInit, Sync!Init, Effective
<1>3. HookMemory /\ TimerInv
  BY <1>2 DEF Sync!SyncInit, Sync!Init, HookMemory, TimerInv, InHook, Sync!NoTimer, TimerPlaces
<1> QED
  BY <1>1, <1>3 DEF SyncInv

(* Every step of the owner and of the task keeps the invariant.            *)
LEMMA SyncInvStep == SyncInv /\ [Sync!SyncNext]_Sync!syncVars => SyncInv'
<1> SUFFICES ASSUME SyncInv, [Sync!SyncNext]_Sync!syncVars PROVE SyncInv'
  OBVIOUS
<1>1. CASE Sync!SetRate \/ UNCHANGED Sync!syncVars
  <2>1. UNCHANGED <<state, lastHook, lifePc, seen, target, timerRunning, timerDone, timers, hookPc>>
    BY <1>1 DEF Sync!SetRate, Sync!syncVars, Sync!block, Sync!timer
  <2> QED
    BY <2>1 DEF SyncInv, SyncTyped, SyncPlaced, HookMemory, TimerInv, InHook, Sync!Hook, Effective,
                Sync!NoTimer
<1> QED
  BY <1>1, ChangeStateStep, HookStepStep, TimerStepStep DEF Sync!SyncNext

(* When the stop() hook has returned, no timer task is left to touch the   *)
(* block, and there are never two (BlockingSync, startTimer/stopTimer()).  *)
THEOREM TimerEndsWithStop == Sync!SyncSpec => []StopEndsTimer
<1>1. SyncInv => StopEndsTimer
  BY DEF SyncInv, SyncTyped, TimerInv, StopEndsTimer, Sync!StopEndsTimer, Effective
<1> QED
  BY <1>1, SyncInvInit, SyncInvStep, PTL DEF Sync!SyncSpec

(* A block whose owner alone changes its state is started only after an    *)
(* init() or a reset(), and resumed only after a pause(), also when hooks  *)
(* throw (lifecycle::StateMachine).                                        *)
THEOREM HooksComeInOrder == Sync!SyncSpec => HooksInOrder
<1> DEFINE InOrder == \A c \in {Owner} :
        lifePc[c] = "hook" /\ lifePc'[c] = "out" =>
            /\ Sync!HookOf(seen[c], target[c]) = "start" => lastHook \in {"init", "reset"}
            /\ Sync!HookOf(seen[c], target[c]) = "resume" => lastHook = "pause"
<1>1. SyncInv /\ [Sync!SyncNext]_Sync!syncVars => [InOrder]_Sync!vars
  <2> SUFFICES ASSUME SyncInv, lifePc[Owner] = "hook"
               PROVE  /\ Sync!HookOf(seen[Owner], target[Owner]) = "start" => lastHook \in {"init", "reset"}
                      /\ Sync!HookOf(seen[Owner], target[Owner]) = "resume" => lastHook = "pause"
    OBVIOUS
  <2> QED
    BY DEF SyncInv, SyncTyped, SyncPlaced, HookMemory, Effective, Sync!HookOf
<1> QED
  BY <1>1, SyncInvInit, SyncInvStep, PTL DEF Sync!SyncSpec, HooksInOrder, Sync!HooksInOrder
=============================================================================
