--------------------------- MODULE SchedulerProofs ---------------------------
(***************************************************************************)
(* Three protocols of a scheduler, for every number of workers and blocks. *)
(*                                                                         *)
(* Work quiescence excludes the workers, for any hierarchy of schedulers,  *)
(* as long as no two requesting threads cover the same scheduler: the flag *)
(* is a Boolean, not a count.  The argument follows Dekker's.  Once the    *)
(* flag of s is visible and the requester has then read a zero counter, no *)
(* worker is between Register and Deregister; one that registers later     *)
(* looks at the flag again.  The invariant says so of every scheduler a    *)
(* request has already acquired, and that no earlier store of the          *)
(* requester can still clear the flag.  The threads that start nested      *)
(* schedulers pass no WorkGuard.  A request waits for them                 *)
(* (blockUntilWorking()), which is sound as long as the flag it looks at   *)
(* is not left over from an earlier start, and no other start begins below *)
(* a request.                                                              *)
(*                                                                         *)
(* The hand-over of blocks between the workers while messages rearrange    *)
(* the graph (BlockAdoption), and the end of a run with one worker         *)
(* (SchedulerRun), are not inductive either.  The first rests on a block   *)
(* being in one list at most, and on the worker's own copy of its list     *)
(* following the shared one; the second on what the counter of running     *)
(* jobs says in each place of the client.                                  *)
(***************************************************************************)
EXTENDS MCScheduler, FiniteSetTheorems, TLAPS

-----------------------------------------------------------------------------
(* Work quiescence *)

(* The workers the counter of s counts.                                    *)
Registered(s) ==
    {w \in Workers : Home[w] = s /\ wpc[w] \in {"registered", "working", "leaving"}}

(* The schedulers q has acquired so far.                                   *)
Acquired(q) ==
    IF qpc[q] \in {"await", "store", "fence", "spin"}
      THEN Scope(q) \ (toRequest[q] \cup {scheduler[q]})
    ELSE IF qpc[q] \in {"next", "holding"} THEN Scope(q) \ toRequest[q] ELSE {}

(* The flag is no count: no two requesters may request one scheduler.      *)
DisjointScopes == \A p, q \in Requesters : p # q => Scope(p) \cap Scope(q) = {}

(* The counter counts the workers between Register and Deregister.         *)
CountInv == \A s \in Schedulers : inWork[s] = Cardinality(Registered(s))

(* A request stays within its scope.                                       *)
ScopeInv ==
    \A q \in Requesters :
        /\ scheduler[q] \in Scope(q)
        /\ toRequest[q] \subseteq Descendants[Top[q]]
        /\ toRelease[q] \subseteq Scope(q)
        /\ qpc[q] = "holding" => toRequest[q] = {}
        /\ \A s \in Schedulers : pending[q][s] # "none" => s \in Scope(q)

(* After the fence the flag is visible.                                    *)
FlagInv ==
    \A q \in Requesters :
        /\ qpc[q] = "fence" => \/ pending[q][scheduler[q]] = "set"
                               \/ pending[q][scheduler[q]] = "none" /\ requested[scheduler[q]]
        /\ qpc[q] = "spin" => pending[q][scheduler[q]] = "none" /\ requested[scheduler[q]]

(* Nobody works for an acquired scheduler, and its flag stays up.          *)
HeldInv ==
    \A q \in Requesters : \A s \in Acquired(q) :
        /\ requested[s]
        /\ pending[q][s] = "none"
        /\ \A w \in Workers : Home[w] = s => wpc[w] # "working"

QuiescenceInv == TypeOK /\ CountInv /\ ScopeInv /\ FlagInv /\ HeldInv
-----------------------------------------------------------------------------
(* Finitely many workers are between Register and Deregister.              *)
LEMMA RegisteredFinite == ASSUME NEW s PROVE IsFiniteSet(Registered(s))
BY FS_Subset, HierarchyAssumption DEF Registered

(* What Deregister takes from the set it takes from the counter.           *)
LEMMA RemoveOne ==
    ASSUME NEW S, IsFiniteSet(S), NEW x \in S
    PROVE  Cardinality(S \ {x}) = Cardinality(S) - 1
BY FS_RemoveElement

(* The counter counts finitely many workers, and a worker inside its guard *)
(* is one of them.                                                         *)
LEMMA RegisteredFacts ==
    ASSUME TypeOK, CountInv, NEW s \in Schedulers
    PROVE  /\ IsFiniteSet(Registered(s))
           /\ Registered(s) # {} => inWork[s] \in Nat \ {0}
           /\ inWork[s] = 0 => \A w \in Workers : Home[w] = s => wpc[w] # "working"
<1>1. IsFiniteSet(Registered(s))
  BY RegisteredFinite
<1>2. inWork[s] \in Nat /\ (inWork[s] = 0 <=> Registered(s) = {})
  BY <1>1, FS_EmptySet DEF TypeOK, CountInv
<1> QED
  BY <1>1, <1>2 DEF Registered

(* Every step keeps the types; the counter is positive when a worker       *)
(* deregisters.                                                            *)
LEMMA TypeOKStep ==
    ASSUME TypeOK, CountInv, [Next]_vars
    PROVE  TypeOK'
<1> USE HierarchyAssumption DEF TypeOK, WorkerStep, RequesterStep,
        requestVars, startVars
<1>1. ASSUME NEW w \in Workers, LoadFlag(w) PROVE TypeOK'
  BY <1>1 DEF LoadFlag
<1>2. ASSUME NEW w \in Workers, Register(w) PROVE TypeOK'
  BY <1>2 DEF Register
<1>3. ASSUME NEW w \in Workers, LoadFlagAgain(w) PROVE TypeOK'
  BY <1>3 DEF LoadFlagAgain
<1>4. ASSUME NEW w \in Workers, FinishWork(w) PROVE TypeOK'
  BY <1>4 DEF FinishWork
<1>5. ASSUME NEW w \in Workers, Deregister(w) PROVE TypeOK'
  <2>1. w \in Registered(Home[w])
    BY <1>5 DEF Deregister, Registered
  <2>2. Home[w] \in Schedulers /\ inWork[Home[w]] - 1 \in Nat
    BY <2>1, RegisteredFacts
  <2> QED
    BY <1>5, <2>2 DEF Deregister
<1>6. ASSUME NEW q \in Requesters, Request(q) PROVE TypeOK'
  BY <1>6 DEF Request, Scope
<1>7. ASSUME NEW q \in Requesters, StoreFlag(q) PROVE TypeOK'
  BY <1>7 DEF StoreFlag
<1>8. ASSUME NEW q \in Requesters, NEW s \in Schedulers, Drain(q, s) PROVE TypeOK'
  BY <1>8 DEF Drain
<1>9. ASSUME NEW q \in Requesters, Fence(q) PROVE TypeOK'
  BY <1>9 DEF Fence
<1>10. ASSUME NEW q \in Requesters, Quiescent(q) PROVE TypeOK'
  BY <1>10 DEF Quiescent
<1>11. ASSUME NEW q \in Requesters, NEW s \in Schedulers, NextScheduler(q, s) PROVE TypeOK'
  BY <1>11 DEF NextScheduler
<1>12. ASSUME NEW q \in Requesters, BlockUntilWorking(q) PROVE TypeOK'
  BY <1>12 DEF BlockUntilWorking
<1>13. ASSUME NEW q \in Requesters, Granted(q) PROVE TypeOK'
  BY <1>13 DEF Granted
<1>14. ASSUME NEW q \in Requesters, NEW s \in Schedulers, Release(q, s) PROVE TypeOK'
  BY <1>14 DEF Release
<1>15. ASSUME NEW s \in Schedulers, Spawn(s) PROVE TypeOK'
  BY <1>15 DEF Spawn
<1>16. ASSUME NEW s \in Schedulers, EnterRunning(s) PROVE TypeOK'
  BY <1>16 DEF EnterRunning
<1>17. ASSUME NEW s \in Schedulers, BeginRewiring(s) PROVE TypeOK'
  BY <1>17 DEF BeginRewiring
<1>18. ASSUME NEW s \in Schedulers, EndRewiring(s) PROVE TypeOK'
  BY <1>18 DEF EndRewiring
<1>19. ASSUME NEW s \in Schedulers, Stop(s) PROVE TypeOK'
  BY <1>19 DEF Stop
<1>20. ASSUME UNCHANGED vars PROVE TypeOK'
  BY <1>20 DEF vars
<1> QED
  BY <1>1, <1>2, <1>3, <1>4, <1>5, <1>6, <1>7, <1>8, <1>9, <1>10, <1>11, <1>12, <1>13, <1>14, <1>15, <1>16, <1>17, <1>18, <1>19, <1>20 DEF Next, Worker, Requesting, Starting

(* _nWorkersInWork counts the workers between Register and Deregister.     *)
LEMMA CountInvStep ==
    ASSUME TypeOK, CountInv, [Next]_vars
    PROVE  CountInv'
<1> USE HierarchyAssumption DEF TypeOK, CountInv, Registered, WorkerStep, RequesterStep,
        requestVars, startVars
<1>1. ASSUME NEW w \in Workers, LoadFlag(w) PROVE CountInv'
  <2>1. \A s \in Schedulers : Registered(s)' = Registered(s)
    BY <1>1 DEF LoadFlag
  <2> QED
    BY <1>1, <2>1 DEF LoadFlag
<1>2. ASSUME NEW w \in Workers, Register(w) PROVE CountInv'
  <2>1. w \notin Registered(Home[w]) /\ Home[w] \in Schedulers
    BY <1>2 DEF Register
  <2>2. \A s \in Schedulers :
            Registered(s)' = IF s = Home[w] THEN Registered(s) \cup {w} ELSE Registered(s)
    BY <1>2 DEF Register
  <2>3. Cardinality(Registered(Home[w]) \cup {w}) = Cardinality(Registered(Home[w])) + 1
    BY <2>1, RegisteredFacts, FS_AddElement, ZenonT(60)
  <2>4. inWork' = [inWork EXCEPT ![Home[w]] = @ + 1]
    BY <1>2 DEF Register
  <2>5. \A s \in Schedulers : inWork'[s] = Cardinality(Registered(s)')
    <3> HIDE DEF Registered
    <3> QED BY <2>1, <2>2, <2>3, <2>4
  <2> QED
    BY <2>5
<1>3. ASSUME NEW w \in Workers, LoadFlagAgain(w) PROVE CountInv'
  BY <1>3 DEF LoadFlagAgain
<1>4. ASSUME NEW w \in Workers, FinishWork(w) PROVE CountInv'
  BY <1>4 DEF FinishWork
<1>5. ASSUME NEW w \in Workers, Deregister(w) PROVE CountInv'
  <2>1. w \in Registered(Home[w]) /\ Home[w] \in Schedulers
    BY <1>5 DEF Deregister
  <2>2. \A s \in Schedulers :
            Registered(s)' = IF s = Home[w] THEN Registered(s) \ {w} ELSE Registered(s)
    BY <1>5 DEF Deregister
  <2>3. Cardinality(Registered(Home[w]) \ {w}) = Cardinality(Registered(Home[w])) - 1
    <3> HIDE DEF Registered
    <3>1. IsFiniteSet(Registered(Home[w]))
      BY RegisteredFinite
    <3> QED
      BY <2>1, <3>1, RemoveOne, Zenon
  <2>4. inWork' = [inWork EXCEPT ![Home[w]] = @ - 1]
    BY <1>5 DEF Deregister
  <2>5. \A s \in Schedulers : inWork'[s] = Cardinality(Registered(s)')
    <3> HIDE DEF Registered
    <3> QED BY <2>1, <2>2, <2>3, <2>4
  <2> QED
    BY <2>5
<1>6. ASSUME NEW q \in Requesters, Request(q) PROVE CountInv'
  BY <1>6 DEF Request
<1>7. ASSUME NEW q \in Requesters, StoreFlag(q) PROVE CountInv'
  BY <1>7 DEF StoreFlag
<1>8. ASSUME NEW q \in Requesters, NEW s \in Schedulers, Drain(q, s) PROVE CountInv'
  BY <1>8 DEF Drain
<1>9. ASSUME NEW q \in Requesters, Fence(q) PROVE CountInv'
  BY <1>9 DEF Fence
<1>10. ASSUME NEW q \in Requesters, Quiescent(q) PROVE CountInv'
  BY <1>10 DEF Quiescent
<1>11. ASSUME NEW q \in Requesters, NEW s \in Schedulers, NextScheduler(q, s) PROVE CountInv'
  BY <1>11 DEF NextScheduler
<1>12. ASSUME NEW q \in Requesters, BlockUntilWorking(q) PROVE CountInv'
  BY <1>12 DEF BlockUntilWorking
<1>13. ASSUME NEW q \in Requesters, Granted(q) PROVE CountInv'
  BY <1>13 DEF Granted
<1>14. ASSUME NEW q \in Requesters, NEW s \in Schedulers, Release(q, s) PROVE CountInv'
  BY <1>14 DEF Release
<1>15. ASSUME NEW s \in Schedulers, Spawn(s) PROVE CountInv'
  BY <1>15 DEF Spawn
<1>16. ASSUME NEW s \in Schedulers, EnterRunning(s) PROVE CountInv'
  BY <1>16 DEF EnterRunning
<1>17. ASSUME NEW s \in Schedulers, BeginRewiring(s) PROVE CountInv'
  BY <1>17 DEF BeginRewiring
<1>18. ASSUME NEW s \in Schedulers, EndRewiring(s) PROVE CountInv'
  BY <1>18 DEF EndRewiring
<1>19. ASSUME NEW s \in Schedulers, Stop(s) PROVE CountInv'
  BY <1>19 DEF Stop
<1>20. ASSUME UNCHANGED vars PROVE CountInv'
  BY <1>20 DEF vars
<1> QED
  BY <1>1, <1>2, <1>3, <1>4, <1>5, <1>6, <1>7, <1>8, <1>9, <1>10, <1>11, <1>12, <1>13, <1>14, <1>15, <1>16, <1>17, <1>18, <1>19, <1>20 DEF Next, Worker, Requesting, Starting

(* A request stays within the schedulers of its scope, and so do its       *)
(* pending stores.                                                         *)
LEMMA ScopeInvStep ==
    ASSUME TypeOK, ScopeInv, [Next]_vars
    PROVE  ScopeInv'
<1> USE HierarchyAssumption DEF TypeOK, ScopeInv, Scope, WorkerStep, RequesterStep,
        requestVars, startVars
<1>1. ASSUME NEW w \in Workers, LoadFlag(w) PROVE ScopeInv'
  BY <1>1 DEF LoadFlag
<1>2. ASSUME NEW w \in Workers, Register(w) PROVE ScopeInv'
  BY <1>2 DEF Register
<1>3. ASSUME NEW w \in Workers, LoadFlagAgain(w) PROVE ScopeInv'
  BY <1>3 DEF LoadFlagAgain
<1>4. ASSUME NEW w \in Workers, FinishWork(w) PROVE ScopeInv'
  BY <1>4 DEF FinishWork
<1>5. ASSUME NEW w \in Workers, Deregister(w) PROVE ScopeInv'
  BY <1>5 DEF Deregister
<1>6. ASSUME NEW q \in Requesters, Request(q) PROVE ScopeInv'
  BY <1>6 DEF Request
<1>7. ASSUME NEW q \in Requesters, StoreFlag(q) PROVE ScopeInv'
  BY <1>7 DEF StoreFlag
<1>8. ASSUME NEW q \in Requesters, NEW s \in Schedulers, Drain(q, s) PROVE ScopeInv'
  BY <1>8 DEF Drain
<1>9. ASSUME NEW q \in Requesters, Fence(q) PROVE ScopeInv'
  BY <1>9 DEF Fence
<1>10. ASSUME NEW q \in Requesters, Quiescent(q) PROVE ScopeInv'
  BY <1>10 DEF Quiescent
<1>11. ASSUME NEW q \in Requesters, NEW s \in Schedulers, NextScheduler(q, s) PROVE ScopeInv'
  BY <1>11 DEF NextScheduler
<1>12. ASSUME NEW q \in Requesters, BlockUntilWorking(q) PROVE ScopeInv'
  BY <1>12 DEF BlockUntilWorking
<1>13. ASSUME NEW q \in Requesters, Granted(q) PROVE ScopeInv'
  BY <1>13 DEF Granted
<1>14. ASSUME NEW q \in Requesters, NEW s \in Schedulers, Release(q, s) PROVE ScopeInv'
  BY <1>14 DEF Release
<1>15. ASSUME NEW s \in Schedulers, Spawn(s) PROVE ScopeInv'
  BY <1>15 DEF Spawn
<1>16. ASSUME NEW s \in Schedulers, EnterRunning(s) PROVE ScopeInv'
  BY <1>16 DEF EnterRunning
<1>17. ASSUME NEW s \in Schedulers, BeginRewiring(s) PROVE ScopeInv'
  BY <1>17 DEF BeginRewiring
<1>18. ASSUME NEW s \in Schedulers, EndRewiring(s) PROVE ScopeInv'
  BY <1>18 DEF EndRewiring
<1>19. ASSUME NEW s \in Schedulers, Stop(s) PROVE ScopeInv'
  BY <1>19 DEF Stop
<1>20. ASSUME UNCHANGED vars PROVE ScopeInv'
  BY <1>20 DEF vars
<1> QED
  BY <1>1, <1>2, <1>3, <1>4, <1>5, <1>6, <1>7, <1>8, <1>9, <1>10, <1>11, <1>12, <1>13, <1>14, <1>15, <1>16, <1>17, <1>18, <1>19, <1>20 DEF Next, Worker, Requesting, Starting

(* After the fence the flag is up, and stays up while the requester waits  *)
(* for the counter.                                                        *)
LEMMA FlagInvStep ==
    ASSUME TypeOK, ScopeInv, FlagInv, [Next]_vars, DisjointScopes
    PROVE  FlagInv'
<1> USE HierarchyAssumption DEF TypeOK, ScopeInv, FlagInv, DisjointScopes, WorkerStep, RequesterStep,
        requestVars, startVars
<1>1. ASSUME NEW w \in Workers, LoadFlag(w) PROVE FlagInv'
  BY <1>1 DEF LoadFlag
<1>2. ASSUME NEW w \in Workers, Register(w) PROVE FlagInv'
  BY <1>2 DEF Register
<1>3. ASSUME NEW w \in Workers, LoadFlagAgain(w) PROVE FlagInv'
  BY <1>3 DEF LoadFlagAgain
<1>4. ASSUME NEW w \in Workers, FinishWork(w) PROVE FlagInv'
  BY <1>4 DEF FinishWork
<1>5. ASSUME NEW w \in Workers, Deregister(w) PROVE FlagInv'
  BY <1>5 DEF Deregister
<1>6. ASSUME NEW q \in Requesters, Request(q) PROVE FlagInv'
  BY <1>6 DEF Request
<1>7. ASSUME NEW q \in Requesters, StoreFlag(q) PROVE FlagInv'
  BY <1>7 DEF StoreFlag
<1>8. ASSUME NEW q \in Requesters, NEW s \in Schedulers, Drain(q, s) PROVE FlagInv'
  <2>1. s \in Scope(q)
    BY <1>8 DEF Drain
  <2>2. ASSUME NEW p \in Requesters, p # q PROVE scheduler[p] # s
    <3>1. Scope(p) \cap Scope(q) = {}
      BY <2>2, Zenon
    <3>2. scheduler[p] \in Scope(p)
      BY <2>2
    <3> QED
      BY <2>1, <3>1, <3>2
  <2>3. /\ requested' = [requested EXCEPT ![s] = (pending[q][s] = "set")]
        /\ pending' = [pending EXCEPT ![q][s] = "none"]
        /\ qpc' = qpc /\ scheduler' = scheduler /\ pending[q][s] # "none"
    BY <1>8 DEF Drain
  <2> SUFFICES ASSUME NEW p \in Requesters
               PROVE  /\ qpc[p] = "fence" =>
                            \/ pending'[p][scheduler[p]] = "set"
                            \/ pending'[p][scheduler[p]] = "none" /\ requested'[scheduler[p]]
                      /\ qpc[p] = "spin" => pending'[p][scheduler[p]] = "none" /\ requested'[scheduler[p]]
    BY <2>3
  <2>4. CASE p = q
    <3>1. CASE s # scheduler[q]
      BY <2>3, <2>4, <3>1
    <3>2. CASE s = scheduler[q]
      <4>1. qpc[q] # "spin" /\ (qpc[q] = "fence" => pending[q][s] = "set")
        BY <2>3, <3>2
      <4>2. pending'[q][s] = "none"
        BY <2>3
      <4>3. requested'[s] = (pending[q][s] = "set")
        BY <2>3
      <4> QED
        BY <2>3, <2>4, <3>2, <4>1, <4>2, <4>3
    <3> QED
      BY <3>1, <3>2
  <2>5. CASE p # q
    BY <2>2, <2>3, <2>5
  <2> QED
    BY <2>4, <2>5
<1>9. ASSUME NEW q \in Requesters, Fence(q) PROVE FlagInv'
  BY <1>9 DEF Fence
<1>10. ASSUME NEW q \in Requesters, Quiescent(q) PROVE FlagInv'
  BY <1>10 DEF Quiescent
<1>11. ASSUME NEW q \in Requesters, NEW s \in Schedulers, NextScheduler(q, s) PROVE FlagInv'
  BY <1>11 DEF NextScheduler
<1>12. ASSUME NEW q \in Requesters, BlockUntilWorking(q) PROVE FlagInv'
  BY <1>12 DEF BlockUntilWorking
<1>13. ASSUME NEW q \in Requesters, Granted(q) PROVE FlagInv'
  BY <1>13 DEF Granted
<1>14. ASSUME NEW q \in Requesters, NEW s \in Schedulers, Release(q, s) PROVE FlagInv'
  BY <1>14 DEF Release
<1>15. ASSUME NEW s \in Schedulers, Spawn(s) PROVE FlagInv'
  BY <1>15 DEF Spawn
<1>16. ASSUME NEW s \in Schedulers, EnterRunning(s) PROVE FlagInv'
  BY <1>16 DEF EnterRunning
<1>17. ASSUME NEW s \in Schedulers, BeginRewiring(s) PROVE FlagInv'
  BY <1>17 DEF BeginRewiring
<1>18. ASSUME NEW s \in Schedulers, EndRewiring(s) PROVE FlagInv'
  BY <1>18 DEF EndRewiring
<1>19. ASSUME NEW s \in Schedulers, Stop(s) PROVE FlagInv'
  BY <1>19 DEF Stop
<1>20. ASSUME UNCHANGED vars PROVE FlagInv'
  BY <1>20 DEF vars
<1> QED
  BY <1>1, <1>2, <1>3, <1>4, <1>5, <1>6, <1>7, <1>8, <1>9, <1>10, <1>11, <1>12, <1>13, <1>14, <1>15, <1>16, <1>17, <1>18, <1>19, <1>20 DEF Next, Worker, Requesting, Starting

(* An acquired scheduler keeps its flag up and has no worker inside its    *)
(* WorkGuard.                                                              *)
LEMMA HeldInvStep ==
    ASSUME TypeOK, CountInv, ScopeInv, FlagInv, HeldInv, [Next]_vars, DisjointScopes
    PROVE  HeldInv'
<1> USE HierarchyAssumption DEF TypeOK, ScopeInv, FlagInv, HeldInv, Acquired, DisjointScopes, WorkerStep, RequesterStep,
        requestVars, startVars
<1>1. ASSUME NEW w \in Workers, LoadFlag(w) PROVE HeldInv'
  BY <1>1 DEF LoadFlag
<1>2. ASSUME NEW w \in Workers, Register(w) PROVE HeldInv'
  BY <1>2 DEF Register
<1>3. ASSUME NEW w \in Workers, LoadFlagAgain(w) PROVE HeldInv'
  BY <1>3 DEF LoadFlagAgain
<1>4. ASSUME NEW w \in Workers, FinishWork(w) PROVE HeldInv'
  BY <1>4 DEF FinishWork
<1>5. ASSUME NEW w \in Workers, Deregister(w) PROVE HeldInv'
  BY <1>5 DEF Deregister
<1>6. ASSUME NEW q \in Requesters, Request(q) PROVE HeldInv'
  <2>1. Acquired(q)' = {}
    BY <1>6 DEF Request, Scope
  <2>2. \A p \in Requesters \ {q} : Acquired(p)' = Acquired(p)
    BY <1>6 DEF Request
  <2> QED
    BY <1>6, <2>1, <2>2 DEF Request
<1>7. ASSUME NEW q \in Requesters, StoreFlag(q) PROVE HeldInv'
  BY <1>7 DEF StoreFlag
<1>8. ASSUME NEW q \in Requesters, NEW s \in Schedulers, Drain(q, s) PROVE HeldInv'
  BY <1>8 DEF Drain
<1>9. ASSUME NEW q \in Requesters, Fence(q) PROVE HeldInv'
  BY <1>9 DEF Fence
<1>10. ASSUME NEW q \in Requesters, Quiescent(q) PROVE HeldInv'
  <2>1. Acquired(q)' \subseteq Acquired(q) \cup {scheduler[q]}
    BY <1>10 DEF Quiescent
  <2>2. \A p \in Requesters \ {q} : Acquired(p)' = Acquired(p)
    BY <1>10 DEF Quiescent
  <2>3. \A w \in Workers : Home[w] = scheduler[q] => wpc[w] # "working"
    BY <1>10, RegisteredFacts DEF Quiescent
  <2> QED
    BY <1>10, <2>1, <2>2, <2>3 DEF Quiescent
<1>11. ASSUME NEW q \in Requesters, NEW s \in Schedulers, NextScheduler(q, s) PROVE HeldInv'
  BY <1>11 DEF NextScheduler
<1>12. ASSUME NEW q \in Requesters, BlockUntilWorking(q) PROVE HeldInv'
  BY <1>12 DEF BlockUntilWorking
<1>13. ASSUME NEW q \in Requesters, Granted(q) PROVE HeldInv'
  BY <1>13 DEF Granted
<1>14. ASSUME NEW q \in Requesters, NEW s \in Schedulers, Release(q, s) PROVE HeldInv'
  BY <1>14 DEF Release
<1>15. ASSUME NEW s \in Schedulers, Spawn(s) PROVE HeldInv'
  BY <1>15 DEF Spawn
<1>16. ASSUME NEW s \in Schedulers, EnterRunning(s) PROVE HeldInv'
  BY <1>16 DEF EnterRunning
<1>17. ASSUME NEW s \in Schedulers, BeginRewiring(s) PROVE HeldInv'
  BY <1>17 DEF BeginRewiring
<1>18. ASSUME NEW s \in Schedulers, EndRewiring(s) PROVE HeldInv'
  BY <1>18 DEF EndRewiring
<1>19. ASSUME NEW s \in Schedulers, Stop(s) PROVE HeldInv'
  BY <1>19 DEF Stop
<1>20. ASSUME UNCHANGED vars PROVE HeldInv'
  BY <1>20 DEF vars
<1> QED
  BY <1>1, <1>2, <1>3, <1>4, <1>5, <1>6, <1>7, <1>8, <1>9, <1>10, <1>11, <1>12, <1>13, <1>14, <1>15, <1>16, <1>17, <1>18, <1>19, <1>20 DEF Next, Worker, Requesting, Starting

(* Nothing is requested and nobody works in the initial state.             *)
LEMMA QuiescenceInit == Init => QuiescenceInv
<1> SUFFICES ASSUME Init PROVE QuiescenceInv
  OBVIOUS
<1>1. \A s \in Schedulers : Registered(s) = {}
  BY DEF Init, Registered
<1>2. CountInv
  BY <1>1, FS_EmptySet DEF Init, CountInv
<1> QED
  BY <1>2, HierarchyAssumption
  DEF Init, QuiescenceInv, TypeOK, ScopeInv, FlagInv, HeldInv, Acquired, Scope

(***************************************************************************)
(* The invariant is preserved by every step.                               *)
(***************************************************************************)
LEMMA QuiescenceInductive == ASSUME QuiescenceInv, [Next]_vars, DisjointScopes PROVE QuiescenceInv'
BY TypeOKStep, CountInvStep, ScopeInvStep, FlagInvStep, HeldInvStep DEF QuiescenceInv

(***************************************************************************)
(* While a thread holds the guard, no worker of any scheduler in its scope *)
(* is at work, for every hierarchy in which no two requesters overlap      *)
(* (requestWorkQuiescenceAll() against WorkGuard).                         *)
(***************************************************************************)
THEOREM QuiescenceExcludesWork ==
    ASSUME DisjointScopes PROVE Spec => []NoWorkWhileHeld
<1>1. ASSUME QuiescenceInv PROVE NoWorkWhileHeld
  <2> SUFFICES ASSUME NEW q \in Requesters, qpc[q] = "holding",
                      NEW w \in Workers, Home[w] \in Scope(q)
               PROVE  wpc[w] # "working"
    BY DEF NoWorkWhileHeld
  <2>1. Home[w] \in Acquired(q)
    BY <1>1 DEF QuiescenceInv, ScopeInv, Acquired
  <2> QED
    BY <1>1, <2>1 DEF QuiescenceInv, HeldInv
<1> QED
  BY <1>1, QuiescenceInit, QuiescenceInductive, PTL DEF Spec

-----------------------------------------------------------------------------
(* Starting nested schedulers *)

(* The schedulers q has seen idle or working since it requested them.      *)
Seen(q) ==
    CASE qpc[q] \in {"out", "releasing"} -> {}
      [] qpc[q] = "await" -> Scope(q) \ (toRequest[q] \cup {scheduler[q]})
      [] OTHER -> Scope(q) \ toRequest[q]

(* With one start each, the flag of a scheduler is up only once it has     *)
(* been rewired, and its state tells that it is being started.             *)
StartInv ==
    \A s \in Schedulers :
        /\ starts[s] = 0 => starter[s] = "none" /\ ~reconnected[s]
        /\ starter[s] \in {"spawned", "entered", "rewiring"} =>
                ~reconnected[s] /\ state[s] \in {"INITIALISED", "RUNNING"}

SeenInv ==
    \A q \in Requesters : \A s \in Seen(q) : starter[s] \in {"none", "working"}

(* The flag is not left over from an earlier start when there is only one. *)
LEMMA StartInvStep ==
    ASSUME MaxStarts <= 1, TypeOK, StartInv, [Next]_vars PROVE StartInv'
<1> USE HierarchyAssumption DEF TypeOK, StartInv, requestVars, startVars
<1>1. ASSUME NEW w \in Workers, Worker(w) PROVE StartInv'
  BY <1>1 DEF LoadFlag, Register, LoadFlagAgain, FinishWork, Deregister, WorkerStep, Worker
<1>2. ASSUME NEW q \in Requesters, Request(q) PROVE StartInv'
  BY <1>2 DEF Request, RequesterStep
<1>3. ASSUME NEW q \in Requesters, StoreFlag(q) \/ Fence(q) \/ Quiescent(q) \/ Granted(q) PROVE StartInv'
  BY <1>3 DEF StoreFlag, Fence, Quiescent, Granted, RequesterStep
<1>4. ASSUME NEW q \in Requesters, BlockUntilWorking(q) PROVE StartInv'
  BY <1>4 DEF BlockUntilWorking, RequesterStep
<1>5. ASSUME NEW q \in Requesters, NEW s \in Schedulers, NextScheduler(q, s) PROVE StartInv'
  BY <1>5 DEF NextScheduler, RequesterStep
<1>6. ASSUME NEW q \in Requesters, NEW s \in Schedulers, Release(q, s) PROVE StartInv'
  BY <1>6 DEF Release
<1>7. ASSUME NEW q \in Requesters, NEW s \in Schedulers, Drain(q, s) PROVE StartInv'
  BY <1>7 DEF Drain
<1>8. ASSUME NEW s \in Schedulers, Spawn(s) PROVE StartInv'
  <2>1. starts[s] = 0
    <3>1. starts[s] \in Nat /\ MaxStarts \in Nat
      OBVIOUS
    <3>2. starts[s] < MaxStarts
      BY <1>8 DEF Spawn
    <3>3. \A m, n \in Nat : n < m /\ m <= 1 => n = 0
      OBVIOUS
    <3> QED
      BY <3>1, <3>2, <3>3
  <2> QED
    BY <1>8, <2>1 DEF Spawn
<1>9. ASSUME NEW s \in Schedulers, Starting(s) PROVE StartInv'
  BY <1>9 DEF Starting, EnterRunning, BeginRewiring, EndRewiring
<1>10. ASSUME NEW s \in Schedulers, Stop(s) PROVE StartInv'
  BY <1>10 DEF Stop
<1>11. ASSUME UNCHANGED vars PROVE StartInv'
  BY <1>11 DEF vars
<1> QED
  BY <1>1, <1>2, <1>3, <1>4, <1>5, <1>6, <1>7, <1>8, <1>9, <1>10, <1>11
  DEF Next, Worker, Requesting

(* What a requester has seen does not change: no start begins below it.    *)
LEMMA SeenInvStep ==
    ASSUME TypeOK, ScopeInv, StartInv, SeenInv, [Next]_vars PROVE SeenInv'
<1> USE HierarchyAssumption DEF TypeOK, ScopeInv, SeenInv, Seen, requestVars, startVars
<1>1. ASSUME NEW w \in Workers, Worker(w) PROVE SeenInv'
  BY <1>1 DEF LoadFlag, Register, LoadFlagAgain, FinishWork, Deregister, WorkerStep, Worker
<1>2. ASSUME NEW q \in Requesters, Request(q) PROVE SeenInv'
  BY <1>2 DEF Request, RequesterStep, Scope
<1>3. ASSUME NEW q \in Requesters, StoreFlag(q) \/ Fence(q) \/ Quiescent(q) \/ Granted(q) PROVE SeenInv'
  <2>1. /\ qpc[q] \in {"store", "fence", "spin", "next"}
        /\ qpc' \in [Requesters -> {"out", "store", "fence", "spin", "next", "await", "holding", "releasing"}]
        /\ qpc'[q] \in {"fence", "spin", "next", "holding"}
        /\ \A p \in Requesters : p # q => qpc'[p] = qpc[p]
    <3>1. PICK from, to :
            /\ from \in {"store", "fence", "spin", "next"}
            /\ to \in {"fence", "spin", "next", "holding"}
            /\ qpc[q] = from /\ qpc' = [qpc EXCEPT ![q] = to]
      BY <1>3 DEF StoreFlag, Fence, Quiescent, Granted, RequesterStep
    <3> QED
      BY <3>1
  <2>2. scheduler' = scheduler /\ toRequest' = toRequest /\ starter' = starter
    BY <1>3 DEF StoreFlag, Fence, Quiescent, Granted
  <2>3. \A p \in Requesters : Seen(p)' = Seen(p)
    BY <2>1, <2>2
  <2> QED
    BY <2>2, <2>3
<1>4. ASSUME NEW q \in Requesters, BlockUntilWorking(q) PROVE SeenInv'
  BY <1>4 DEF BlockUntilWorking, RequesterStep, StartInv
<1>5. ASSUME NEW q \in Requesters, NEW s \in Schedulers, NextScheduler(q, s) PROVE SeenInv'
  BY <1>5 DEF NextScheduler, RequesterStep
<1>6. ASSUME NEW q \in Requesters, NEW s \in Schedulers, Release(q, s) PROVE SeenInv'
  BY <1>6 DEF Release
<1>7. ASSUME NEW q \in Requesters, NEW s \in Schedulers, Drain(q, s) PROVE SeenInv'
  BY <1>7 DEF Drain
<1>8. ASSUME NEW s \in Schedulers, Spawn(s) PROVE SeenInv'
  BY <1>8 DEF Spawn, Unclaimed
<1>9. ASSUME NEW s \in Schedulers, Starting(s) PROVE SeenInv'
  <2>1. starter[s] \notin {"none", "working"} /\ starter' = [starter EXCEPT ![s] = starter'[s]]
    BY <1>9 DEF Starting, EnterRunning, BeginRewiring, EndRewiring
  <2>2. \A q \in Requesters : Seen(q)' = Seen(q)
    BY <1>9 DEF Starting, EnterRunning, BeginRewiring, EndRewiring
  <2>3. \A t \in Schedulers : t # s => starter'[t] = starter[t]
    BY <2>1
  <2>4. \A q \in Requesters : s \notin Seen(q) /\ Seen(q) \subseteq Schedulers
    BY <2>1 DEF Scope
  <2> HIDE DEF Seen
  <2>5. ASSUME NEW q \in Requesters, NEW t \in Seen(q)' PROVE starter'[t] \in {"none", "working"}
    <3>1. t \in Seen(q) /\ t # s /\ t \in Schedulers
      BY <2>2, <2>4, <2>5
    <3>2. starter[t] \in {"none", "working"}
      BY <3>1
    <3> QED
      BY <2>3, <3>1, <3>2
  <2> QED
    BY <2>5
<1>10. ASSUME NEW s \in Schedulers, Stop(s) PROVE SeenInv'
  <2>1. \A t \in Schedulers : starter'[t] \in {"none", starter[t]}
    BY <1>10 DEF Stop
  <2>2. \A q \in Requesters : Seen(q)' = Seen(q)
    BY <1>10 DEF Stop
  <2>3. \A q \in Requesters : Seen(q) \subseteq Schedulers
    BY DEF Scope
  <2> QED
    BY <2>1, <2>2, <2>3
<1>11. ASSUME UNCHANGED vars PROVE SeenInv'
  BY <1>11 DEF vars
<1> QED
  BY <1>1, <1>2, <1>3, <1>4, <1>5, <1>6, <1>7, <1>8, <1>9, <1>10, <1>11
  DEF Next, Worker, Requesting

(* While a thread holds the guard, no nested scheduler in its scope is in  *)
(* the part of start() that rewires ports, for every hierarchy, overlapping*)
(* requests included, if every scheduler is started once: after a restart  *)
(* blockUntilWorking() may see the flag of the start before.               *)
THEOREM QuiescenceExcludesRewiring ==
    ASSUME MaxStarts <= 1 PROVE Spec => []NoRewiringWhileHeld
<1> DEFINE Inv == TypeOK /\ CountInv /\ ScopeInv /\ StartInv /\ SeenInv
<1>1. Init => Inv
  <2>1. Init => StartInv /\ SeenInv
    BY DEF Init, StartInv, SeenInv, Seen
  <2> QED
    BY <2>1, QuiescenceInit DEF QuiescenceInv
<1>2. Inv /\ [Next]_vars => Inv'
  <2> SUFFICES ASSUME Inv, [Next]_vars PROVE Inv'
    OBVIOUS
  <2>1. TypeOK' /\ CountInv' /\ ScopeInv'
    BY TypeOKStep, CountInvStep, ScopeInvStep
  <2>2. StartInv' /\ SeenInv'
    BY StartInvStep, SeenInvStep
  <2> QED
    BY <2>1, <2>2
<1>3. Inv => NoRewiringWhileHeld
  BY DEF ScopeInv, SeenInv, Seen, Scope, NoRewiringWhileHeld
<1> QED
  BY <1>1, <1>2, <1>3, PTL DEF Spec

-----------------------------------------------------------------------------
(* Block adoption *)

Runners == Adoption!Runners
Guarded == Adoption!Guarded

(* Types.                                                                  *)
AdoptionTyped ==
    /\ place \in [Blocks -> {"none", "graph", "nested", "removed"}]
    /\ executionOrder \in [Runners -> SUBSET Blocks]
    /\ adoptionBlocks \in [Runners -> SUBSET Blocks]
    /\ movedBlocks \in [Runners -> SUBSET Blocks]
    /\ local \in [Runners -> SUBSET Blocks]
    /\ pc \in [Runners -> {"queued", "top", "exited"} \cup Guarded]
    /\ toAdopt \in SUBSET Blocks

(* A block is in one list at most, and in none before it is in the graph   *)
(* or while it belongs to a nested scheduler.                              *)
Unique ==
    /\ \A b \in Blocks, r, q \in Runners :
        /\ b \in executionOrder[r] /\ b \in executionOrder[q] => r = q
        /\ b \in adoptionBlocks[r] /\ b \in adoptionBlocks[q] => r = q
        /\ ~ (b \in executionOrder[r] /\ b \in adoptionBlocks[q])
        /\ b \in toAdopt \/ place[b] \in {"none", "nested"} =>
                b \notin executionOrder[r] /\ b \notin adoptionBlocks[r]
    /\ \A b \in toAdopt : place[b] = "graph"

(* What a worker has copied is its list, up to blocks that moved away; and *)
(* none has moved away as long as it is inside its WorkGuard.              *)
Follows ==
    \A r \in Runners :
        /\ pc[r] # "queued" => local[r] \ movedBlocks[r] \subseteq executionOrder[r]
        /\ pc[r] \in Guarded => local[r] \subseteq executionOrder[r]

AdoptionInv == AdoptionTyped /\ Unique /\ Follows

(* Types.                                                                  *)
LEMMA AdoptionTypedStep ==
    ASSUME AdoptionTyped, [Adoption!Next]_Adoption!vars PROVE AdoptionTyped'
<1> USE AdoptionAssumption DEF Adoption!vars, Adoption!blockVars, Adoption!sharedVars, Adoption!handlerVars, Adoption!AdoptionConstants
<1> USE DEF AdoptionTyped, Runners, Guarded, Adoption!Guarded
<1>1. ASSUME NEW r \in Runners, Adoption!StartWorker(r) PROVE AdoptionTyped'
  BY <1>1 DEF Adoption!StartWorker, Adoption!Goto
<1>2. ASSUME NEW r \in Runners, Adoption!BeginMaintenance(r) \/ Adoption!BeginWork(r) PROVE AdoptionTyped'
  BY <1>2 DEF Adoption!BeginMaintenance, Adoption!BeginWork, Adoption!Goto, Adoption!CleanupRemovedBlocks
<1>3. ASSUME NEW r \in Runners, Adoption!CleanupZombieBlocks(r) PROVE AdoptionTyped'
  BY <1>3 DEF Adoption!CleanupZombieBlocks, Adoption!Goto, Adoption!Deletable
<1>4. ASSUME NEW r \in Runners, Adoption!AdoptBlocks(r) PROVE AdoptionTyped'
  BY <1>4 DEF Adoption!AdoptBlocks, Adoption!Goto
<1>5. ASSUME NEW r \in Runners, Adoption!EndMaintenance(r) \/ Adoption!Work(r) \/ Adoption!FinishWorker(r) PROVE AdoptionTyped'
  BY <1>5 DEF Adoption!EndMaintenance, Adoption!Work, Adoption!FinishWorker, Adoption!Goto
<1>6. ASSUME NEW b \in Blocks, Adoption!EmplaceBlock(b) PROVE AdoptionTyped'
  BY <1>6 DEF Adoption!EmplaceBlock, Adoption!Handling
<1>7. ASSUME NEW b \in Blocks, Adoption!AdoptBlock(b) PROVE AdoptionTyped'
  BY <1>7 DEF Adoption!AdoptBlock
<1>8. ASSUME NEW b \in Blocks, Adoption!RemoveBlock(b) PROVE AdoptionTyped'
  BY <1>8 DEF Adoption!RemoveBlock, Adoption!Handling
<1>9. ASSUME NEW b \in Blocks, NEW c \in Blocks, Adoption!ReplaceBlock(b, c) PROVE AdoptionTyped'
  BY <1>9 DEF Adoption!ReplaceBlock, Adoption!Handling
<1>10. ASSUME NEW b \in Blocks, Adoption!MakeZombie(b) PROVE AdoptionTyped'
  BY <1>10 DEF Adoption!MakeZombie
<1>11. ASSUME NEW b \in Blocks, Adoption!GroupBlock(b) PROVE AdoptionTyped'
  BY <1>11 DEF Adoption!GroupBlock, Adoption!Handling, Adoption!Quiescent
<1>12. ASSUME NEW b \in Blocks, Adoption!UngroupBlock(b) PROVE AdoptionTyped'
  BY <1>12 DEF Adoption!UngroupBlock, Adoption!Handling
<1>13. ASSUME UNCHANGED Adoption!vars PROVE AdoptionTyped'
  BY <1>13 DEF Adoption!vars
<1> QED
  BY <1>1, <1>2, <1>3, <1>4, <1>5, <1>6, <1>7, <1>8, <1>9, <1>10, <1>11, <1>12, <1>13
     DEF Adoption!Next, Adoption!Maintaining, Adoption!Working, Adoption!Message

(* No step puts a block into a second list.                               *)
LEMMA UniqueStep ==
    ASSUME AdoptionInv, [Adoption!Next]_Adoption!vars PROVE Unique'
<1> USE AdoptionAssumption DEF Adoption!vars, Adoption!blockVars, Adoption!sharedVars, Adoption!handlerVars, Adoption!AdoptionConstants
<1> USE DEF AdoptionInv, AdoptionTyped, Unique, Runners
<1>1. ASSUME NEW r \in Runners, Adoption!StartWorker(r) PROVE Unique'
  BY <1>1 DEF Adoption!StartWorker, Adoption!Goto
<1>2. ASSUME NEW r \in Runners, Adoption!BeginMaintenance(r) \/ Adoption!BeginWork(r) PROVE Unique'
  BY <1>2 DEF Adoption!BeginMaintenance, Adoption!BeginWork, Adoption!Goto, Adoption!CleanupRemovedBlocks
<1>3. ASSUME NEW r \in Runners, Adoption!CleanupZombieBlocks(r) PROVE Unique'
  BY <1>3 DEF Adoption!CleanupZombieBlocks, Adoption!Goto, Adoption!Deletable
<1>4. ASSUME NEW r \in Runners, Adoption!AdoptBlocks(r) PROVE Unique'
  BY <1>4 DEF Adoption!AdoptBlocks, Adoption!Goto
<1>5. ASSUME NEW r \in Runners, Adoption!EndMaintenance(r) \/ Adoption!Work(r) \/ Adoption!FinishWorker(r) PROVE Unique'
  BY <1>5 DEF Adoption!EndMaintenance, Adoption!Work, Adoption!FinishWorker, Adoption!Goto
<1>6. ASSUME NEW b \in Blocks, Adoption!EmplaceBlock(b) PROVE Unique'
  BY <1>6 DEF Adoption!EmplaceBlock, Adoption!Handling
<1>7. ASSUME NEW b \in Blocks, Adoption!AdoptBlock(b) PROVE Unique'
  BY <1>7 DEF Adoption!AdoptBlock
<1>8. ASSUME NEW b \in Blocks, Adoption!RemoveBlock(b) PROVE Unique'
  BY <1>8 DEF Adoption!RemoveBlock, Adoption!Handling
<1>9. ASSUME NEW b \in Blocks, NEW c \in Blocks, Adoption!ReplaceBlock(b, c) PROVE Unique'
  BY <1>9 DEF Adoption!ReplaceBlock, Adoption!Handling
<1>10. ASSUME NEW b \in Blocks, Adoption!MakeZombie(b) PROVE Unique'
  BY <1>10 DEF Adoption!MakeZombie
<1>11. ASSUME NEW b \in Blocks, Adoption!GroupBlock(b) PROVE Unique'
  BY <1>11 DEF Adoption!GroupBlock, Adoption!Handling, Adoption!Quiescent
<1>12. ASSUME NEW b \in Blocks, Adoption!UngroupBlock(b) PROVE Unique'
  BY <1>12 DEF Adoption!UngroupBlock, Adoption!Handling
<1>13. ASSUME UNCHANGED Adoption!vars PROVE Unique'
  BY <1>13 DEF Adoption!vars
<1> QED
  BY <1>1, <1>2, <1>3, <1>4, <1>5, <1>6, <1>7, <1>8, <1>9, <1>10, <1>11, <1>12, <1>13
     DEF Adoption!Next, Adoption!Maintaining, Adoption!Working, Adoption!Message

(* Every worker keeps to its list.                                         *)
LEMMA FollowsStep ==
    ASSUME AdoptionInv, [Adoption!Next]_Adoption!vars PROVE Follows'
<1> USE AdoptionAssumption DEF Adoption!vars, Adoption!blockVars, Adoption!sharedVars, Adoption!handlerVars, Adoption!AdoptionConstants
<1> USE DEF AdoptionInv, AdoptionTyped, Follows, Runners, Guarded, Adoption!Guarded
<1>1. ASSUME NEW r \in Runners, Adoption!StartWorker(r) PROVE Follows'
  BY <1>1 DEF Adoption!StartWorker, Adoption!Goto
<1>2. ASSUME NEW r \in Runners, Adoption!BeginMaintenance(r) \/ Adoption!BeginWork(r) PROVE Follows'
  BY <1>2 DEF Adoption!BeginMaintenance, Adoption!BeginWork, Adoption!Goto, Adoption!CleanupRemovedBlocks
<1>3. ASSUME NEW r \in Runners, Adoption!CleanupZombieBlocks(r) PROVE Follows'
  <2>1. /\ pc[r] \in Guarded
        /\ \A q \in Runners : executionOrder'[q] = executionOrder[q] \ Adoption!Deletable(r)
        /\ local' = [local EXCEPT ![r] = @ \ Adoption!Deletable(r)]
        /\ pc' = [pc EXCEPT ![r] = "buried"] /\ UNCHANGED movedBlocks
    BY <1>3 DEF Adoption!CleanupZombieBlocks, Adoption!Goto
  <2>2. Adoption!Deletable(r) \subseteq local[r] /\ local[r] \subseteq executionOrder[r]
    BY <2>1 DEF Adoption!Deletable
  <2>3. ASSUME NEW q \in Runners \ {r} PROVE executionOrder'[q] = executionOrder[q]
    <3>1. ASSUME NEW b \in Adoption!Deletable(r) PROVE b \notin executionOrder[q]
      <4>1. b \in Blocks /\ b \in executionOrder[r]
        BY <2>2
      <4> QED
        BY <4>1 DEF Unique
    <3> QED
      BY <2>1, <3>1
  <2> QED
    BY <2>1, <2>2, <2>3
<1>4. ASSUME NEW r \in Runners, Adoption!AdoptBlocks(r) PROVE Follows'
  BY <1>4 DEF Adoption!AdoptBlocks, Adoption!Goto
<1>5. ASSUME NEW r \in Runners, Adoption!EndMaintenance(r) \/ Adoption!Work(r) \/ Adoption!FinishWorker(r) PROVE Follows'
  BY <1>5 DEF Adoption!EndMaintenance, Adoption!Work, Adoption!FinishWorker, Adoption!Goto
<1>6. ASSUME NEW b \in Blocks, Adoption!EmplaceBlock(b) PROVE Follows'
  BY <1>6 DEF Adoption!EmplaceBlock, Adoption!Handling
<1>7. ASSUME NEW b \in Blocks, Adoption!AdoptBlock(b) PROVE Follows'
  BY <1>7 DEF Adoption!AdoptBlock
<1>8. ASSUME NEW b \in Blocks, Adoption!RemoveBlock(b) PROVE Follows'
  BY <1>8 DEF Adoption!RemoveBlock, Adoption!Handling
<1>9. ASSUME NEW b \in Blocks, NEW c \in Blocks, Adoption!ReplaceBlock(b, c) PROVE Follows'
  BY <1>9 DEF Adoption!ReplaceBlock, Adoption!Handling
<1>10. ASSUME NEW b \in Blocks, Adoption!MakeZombie(b) PROVE Follows'
  BY <1>10 DEF Adoption!MakeZombie
<1>11. ASSUME NEW b \in Blocks, Adoption!GroupBlock(b) PROVE Follows'
  BY <1>11 DEF Adoption!GroupBlock, Adoption!Handling, Adoption!Quiescent
<1>12. ASSUME NEW b \in Blocks, Adoption!UngroupBlock(b) PROVE Follows'
  BY <1>12 DEF Adoption!UngroupBlock, Adoption!Handling
<1>13. ASSUME UNCHANGED Adoption!vars PROVE Follows'
  BY <1>13 DEF Adoption!vars
<1> QED
  BY <1>1, <1>2, <1>3, <1>4, <1>5, <1>6, <1>7, <1>8, <1>9, <1>10, <1>11, <1>12, <1>13
     DEF Adoption!Next, Adoption!Maintaining, Adoption!Working, Adoption!Message

(* The scheduler starts with every block dealt to one runner.              *)
LEMMA AdoptionInvInit == Adoption!Init => AdoptionInv
<1> SUFFICES ASSUME Adoption!Init PROVE AdoptionInv
  OBVIOUS
<1> USE AdoptionAssumption DEF Adoption!AdoptionConstants, Adoption!Init, Adoption!StartAt, Runners
<1>1. AdoptionTyped
  BY DEF AdoptionTyped
<1>2. Unique
  BY DEF Unique
<1>3. Follows
  BY DEF Follows, Guarded, Adoption!Guarded
<1> QED
  BY <1>1, <1>2, <1>3 DEF AdoptionInv

(* The invariant holds whatever the handler and the workers do.            *)
LEMMA AdoptionInvInductive == Adoption!Spec => []AdoptionInv
<1>1. AdoptionInv /\ [Adoption!Next]_Adoption!vars => AdoptionInv'
  BY AdoptionTypedStep, UniqueStep, FollowsStep DEF AdoptionInv
<1> QED
  BY <1>1, AdoptionInvInit, PTL DEF Adoption!Spec

(* No block is run by two workers at once, and none by a worker of this    *)
(* scheduler once it has been grouped into another (Scheduler.hpp:208),    *)
(* whatever messages come in whatever order, and also while workers are    *)
(* still waiting for a thread of the pool.                                 *)
THEOREM BlocksHaveOneUser == Adoption!Spec => []OneUser
<1>1. AdoptionInv => OneUser
  <2> SUFFICES ASSUME AdoptionInv, NEW b \in Blocks
               PROVE  /\ \A r, q \in Adoption!Using(b) : r = q
                      /\ place[b] = "nested" => Adoption!Using(b) = {}
    BY DEF OneUser, Adoption!OneUser
  <2>1. \A r \in Adoption!Using(b) : r \in Runners /\ b \in executionOrder[r]
    BY DEF Adoption!Using, Adoption!Touching, AdoptionInv, Follows, Guarded, Adoption!Guarded, Runners
  <2> QED
    BY <2>1 DEF AdoptionInv, Unique
<1> QED
  BY <1>1, AdoptionInvInductive, PTL

(* When messages are handled only after every worker has started, the      *)
(* copies are exact: what a worker has lost is what has moved away.        *)
Punctual ==
    \A r \in Runners :
        /\ pc[r] \in {"queued"} \cup Guarded => movedBlocks[r] = {}
        /\ pc[r] # "queued" => /\ executionOrder[r] \subseteq local[r] \ movedBlocks[r]
                               /\ movedBlocks[r] \subseteq local[r]

(* A block that runs in the graph is in some list.                         *)
OnSomeList(b) ==
    b \in toAdopt \/ \E r \in Runners : b \in adoptionBlocks[r] \/ b \in executionOrder[r]

(* The state of each block, and that none that runs is forgotten.          *)
Remembered ==
    /\ blockState \in [Blocks -> {"IDLE", "RUNNING", "REQUESTED_STOP", "STOPPED"}]
    /\ toBury \in SUBSET Blocks
    /\ \A b \in Blocks :
        /\ b \in toBury => place[b] = "removed"
        /\ place[b] = "none" => blockState[b] = "IDLE"
        /\ place[b] = "graph" /\ blockState[b] = "RUNNING" => OnSomeList(b)

(* The copies stay exact.                                                  *)
LEMMA PunctualStep ==
    ASSUME AdoptionInv, Punctual, ~LateStart, [Adoption!Next]_Adoption!vars PROVE Punctual'
<1> USE AdoptionAssumption DEF Adoption!vars, Adoption!blockVars, Adoption!sharedVars, Adoption!handlerVars, Adoption!AdoptionConstants
<1> USE DEF AdoptionInv, AdoptionTyped, Punctual, Runners, Guarded, Adoption!Guarded
<1>1. ASSUME NEW r \in Runners, Adoption!StartWorker(r) PROVE Punctual'
  BY <1>1 DEF Adoption!StartWorker, Adoption!Goto
<1>2. ASSUME NEW r \in Runners, Adoption!BeginMaintenance(r) \/ Adoption!BeginWork(r) PROVE Punctual'
  BY <1>2 DEF Adoption!BeginMaintenance, Adoption!BeginWork, Adoption!Goto, Adoption!CleanupRemovedBlocks
<1>3. ASSUME NEW r \in Runners, Adoption!CleanupZombieBlocks(r) PROVE Punctual'
  BY <1>3 DEF Adoption!CleanupZombieBlocks, Adoption!Goto, Adoption!Deletable
<1>4. ASSUME NEW r \in Runners, Adoption!AdoptBlocks(r) PROVE Punctual'
  BY <1>4 DEF Adoption!AdoptBlocks, Adoption!Goto
<1>5. ASSUME NEW r \in Runners, Adoption!EndMaintenance(r) \/ Adoption!Work(r) \/ Adoption!FinishWorker(r) PROVE Punctual'
  BY <1>5 DEF Adoption!EndMaintenance, Adoption!Work, Adoption!FinishWorker, Adoption!Goto
<1>6. ASSUME NEW b \in Blocks, Adoption!EmplaceBlock(b) PROVE Punctual'
  BY <1>6 DEF Adoption!EmplaceBlock, Adoption!Handling
<1>7. ASSUME NEW b \in Blocks, Adoption!AdoptBlock(b) PROVE Punctual'
  BY <1>7 DEF Adoption!AdoptBlock
<1>8. ASSUME NEW b \in Blocks, Adoption!RemoveBlock(b) PROVE Punctual'
  BY <1>8 DEF Adoption!RemoveBlock, Adoption!Handling
<1>9. ASSUME NEW b \in Blocks, NEW c \in Blocks, Adoption!ReplaceBlock(b, c) PROVE Punctual'
  BY <1>9 DEF Adoption!ReplaceBlock, Adoption!Handling
<1>10. ASSUME NEW b \in Blocks, Adoption!MakeZombie(b) PROVE Punctual'
  BY <1>10 DEF Adoption!MakeZombie
<1>11. ASSUME NEW b \in Blocks, Adoption!GroupBlock(b) PROVE Punctual'
  BY <1>11 DEF Adoption!GroupBlock, Adoption!Handling, Adoption!Quiescent
<1>12. ASSUME NEW b \in Blocks, Adoption!UngroupBlock(b) PROVE Punctual'
  BY <1>12 DEF Adoption!UngroupBlock, Adoption!Handling
<1>13. ASSUME UNCHANGED Adoption!vars PROVE Punctual'
  BY <1>13 DEF Adoption!vars
<1> QED
  BY <1>1, <1>2, <1>3, <1>4, <1>5, <1>6, <1>7, <1>8, <1>9, <1>10, <1>11, <1>12, <1>13
     DEF Adoption!Next, Adoption!Maintaining, Adoption!Working, Adoption!Message

(* Nothing takes a running block off the last list that it is on.          *)
LEMMA RememberedStep ==
    ASSUME AdoptionInv, Remembered, [Adoption!Next]_Adoption!vars PROVE Remembered'
<1> USE AdoptionAssumption DEF Adoption!vars, Adoption!blockVars, Adoption!sharedVars, Adoption!handlerVars, Adoption!AdoptionConstants
<1> USE DEF AdoptionInv, AdoptionTyped, Remembered, Runners, OnSomeList
<1>1. ASSUME NEW r \in Runners, Adoption!StartWorker(r) PROVE Remembered'
  BY <1>1 DEF Adoption!StartWorker, Adoption!Goto
<1>2. ASSUME NEW r \in Runners, Adoption!BeginMaintenance(r) \/ Adoption!BeginWork(r) PROVE Remembered'
  BY <1>2 DEF Adoption!BeginMaintenance, Adoption!BeginWork, Adoption!Goto, Adoption!CleanupRemovedBlocks
<1>3. ASSUME NEW r \in Runners, Adoption!CleanupZombieBlocks(r) PROVE Remembered'
  BY <1>3 DEF Adoption!CleanupZombieBlocks, Adoption!Goto, Adoption!Deletable, Adoption!Dead
<1>4. ASSUME NEW r \in Runners, Adoption!AdoptBlocks(r) PROVE Remembered'
  BY <1>4 DEF Adoption!AdoptBlocks, Adoption!Goto
<1>5. ASSUME NEW r \in Runners, Adoption!EndMaintenance(r) \/ Adoption!Work(r) \/ Adoption!FinishWorker(r) PROVE Remembered'
  BY <1>5 DEF Adoption!EndMaintenance, Adoption!Work, Adoption!FinishWorker, Adoption!Goto
<1>6. ASSUME NEW b \in Blocks, Adoption!EmplaceBlock(b) PROVE Remembered'
  BY <1>6 DEF Adoption!EmplaceBlock, Adoption!Handling
<1>7. ASSUME NEW b \in Blocks, Adoption!AdoptBlock(b) PROVE Remembered'
  <2>1. /\ b \in toAdopt /\ place[b] = "graph" /\ Hash[b] \in Runners
        /\ UNCHANGED <<place, toBury, executionOrder>> /\ toAdopt' = toAdopt \ {b}
        /\ adoptionBlocks' = [adoptionBlocks EXCEPT ![Hash[b]] = @ \cup {b}]
        /\ blockState' = [blockState EXCEPT ![b] = IF @ \in {"IDLE", "STOPPED"} THEN "RUNNING" ELSE @]
    BY <1>7 DEF Adoption!AdoptBlock, Unique
  <2>2. b \in adoptionBlocks'[Hash[b]]
    BY <2>1
  <2>3. ASSUME NEW c \in Blocks \ {b} PROVE blockState'[c] = blockState[c] /\ (OnSomeList(c) => OnSomeList(c)')
    BY <2>1
  <2> QED
    BY <2>1, <2>2, <2>3
<1>8. ASSUME NEW b \in Blocks, Adoption!RemoveBlock(b) PROVE Remembered'
  BY <1>8 DEF Adoption!RemoveBlock, Adoption!Handling
<1>9. ASSUME NEW b \in Blocks, NEW c \in Blocks, Adoption!ReplaceBlock(b, c) PROVE Remembered'
  BY <1>9 DEF Adoption!ReplaceBlock, Adoption!Handling
<1>10. ASSUME NEW b \in Blocks, Adoption!MakeZombie(b) PROVE Remembered'
  BY <1>10 DEF Adoption!MakeZombie
<1>11. ASSUME NEW b \in Blocks, Adoption!GroupBlock(b) PROVE Remembered'
  BY <1>11 DEF Adoption!GroupBlock, Adoption!Handling, Adoption!Quiescent
<1>12. ASSUME NEW b \in Blocks, Adoption!UngroupBlock(b) PROVE Remembered'
  BY <1>12 DEF Adoption!UngroupBlock, Adoption!Handling
<1>13. ASSUME UNCHANGED Adoption!vars PROVE Remembered'
  BY <1>13 DEF Adoption!vars
<1> QED
  BY <1>1, <1>2, <1>3, <1>4, <1>5, <1>6, <1>7, <1>8, <1>9, <1>10, <1>11, <1>12, <1>13
     DEF Adoption!Next, Adoption!Maintaining, Adoption!Working, Adoption!Message

(* With messages handled only once every worker runs, no block that runs   *)
(* in the graph is left without a worker that will run it, across adding,  *)
(* replacing, removing, grouping and ungrouping (adoptBlocks(),            *)
(* removeBlocksWhileRunning()).                                            *)
THEOREM BlocksAreServed ==
    ASSUME ~LateStart PROVE Adoption!Spec => []NoBlockForgotten
<1>1. Adoption!Init => Punctual /\ Remembered
  BY AdoptionAssumption DEF Adoption!AdoptionConstants, Adoption!Init, Adoption!StartAt, Runners, Guarded,
     Adoption!Guarded, Punctual, Remembered, OnSomeList
<1>2. AdoptionInv /\ Punctual /\ Remembered /\ [Adoption!Next]_Adoption!vars => Punctual' /\ Remembered'
  BY PunctualStep, RememberedStep
<1>3. AdoptionInv /\ Punctual /\ Remembered => NoBlockForgotten
  <2> SUFFICES ASSUME AdoptionInv, Punctual, Remembered,
                      NEW b \in Blocks, place[b] = "graph", blockState[b] = "RUNNING"
               PROVE  Adoption!Served(b)
    BY DEF NoBlockForgotten, Adoption!NoBlockForgotten
  <2>1. OnSomeList(b)
    BY DEF Remembered
  <2>2. ASSUME NEW r \in Runners, b \in executionOrder[r] PROVE Adoption!Served(b)
    BY <2>2 DEF Punctual, Adoption!Served, Runners
  <2> QED
    BY <2>1, <2>2 DEF OnSomeList, Adoption!Served, Runners
<1> QED
  BY <1>1, <1>2, <1>3, AdoptionInvInductive, PTL DEF Adoption!Spec

-----------------------------------------------------------------------------
(* The end of a run with one worker *)

(* Where a worker may be, and where the counter of workers counts it.      *)
Places == {"none", "queued", "first", "top", "decide", "work", "leaving"}
Counted == {"first", "top", "decide", "work", "leaving"}

(* Where the worker of the latest run is.                                  *)
Sole == IF runs = 0 THEN "none" ELSE job[<<runs, 0>>]

(* Types.                                                                  *)
RunTyped ==
    /\ setup \in Run!Setups
    /\ runs \in Nat
    /\ job \in [Run!Jobs -> Places]

(* Only the worker of the latest run can be anywhere; the counter says     *)
(* whether it works, and the client's place whether it may still be in the *)
(* pool's queue, where the counter does not see it.                        *)
SoleFollows ==
    /\ runs <= MaxJobs
    /\ \A w \in Run!Jobs : w # <<runs, 0>> => job[w] = "none"
    /\ nRunningJobs = IF Sole \in Counted THEN 1 ELSE 0
    /\ client = "dispatch" => nextRunner = 0
    /\ client = "wait" => Sole # "queued"
    /\ client \notin {"wait", "awaitStart", "inline"} => Sole = "none"

RunInv == RunTyped /\ (setup.runners = 1 /\ setup.waits => SoleFollows)

(* The set-up does not change during a behaviour.                          *)
LEMMA SetupIsFixed == [Run!Next]_Run!vars => setup' = setup
BY DEF Run!Next, Run!Client, Run!Worker, Run!vars, Run!clientVars, Run!controlVars, Run!workerVars,
   Run!CallRun, Run!Initialise, Run!EnterRunning, Run!Rewire, Run!StraysDone, Run!Dispatch,
   Run!AwaitStart, Run!InlineDone, Run!Detach, Run!WaitDone, Run!Finish, Run!ClientStopHook,
   Run!RequestStop, Run!RequestPause, Run!Resume, Run!StopHook, Run!PauseHook, Run!Control, Run!Hook,
   Run!Count, Run!ReadState, Run!KeepState, Run!Decide, Run!WorkOK, Run!WorkDone, Run!WorkError,
   Run!Uncount

(* The first worker of a run is one of the jobs.                           *)
LEMMA FirstIsJob ==
    ASSUME runs \in Nat, runs <= MaxJobs, runs # 0 PROVE <<runs, 0>> \in Run!Jobs
BY RunAssumption DEF Run!Jobs, Run!Runners

(* Types.                                                                  *)
LEMMA RunTypedStep ==
    ASSUME RunTyped, [Run!Next]_Run!vars PROVE RunTyped'
<1> USE DEF RunTyped, Places, Run!workerVars, Run!controlVars, Run!clientVars, Run!vars
<1>1. setup' = setup
  BY SetupIsFixed
<1>2. CASE Run!CallRun
  BY <1>1, <1>2 DEF Run!CallRun, Run!ClientStep
<1>3. CASE Run!Initialise \/ Run!EnterRunning \/ Run!Rewire \/ Run!AwaitStart \/ Run!InlineDone
           \/ Run!Detach \/ Run!WaitDone \/ Run!Finish \/ Run!ClientStopHook
  BY <1>1, <1>3 DEF Run!Initialise, Run!EnterRunning, Run!Rewire, Run!AwaitStart, Run!InlineDone,
     Run!Detach, Run!WaitDone, Run!Finish, Run!ClientStopHook
<1>4. CASE Run!StraysDone
  BY <1>1, <1>4 DEF Run!StraysDone
<1>5. CASE Run!Dispatch
  BY <1>1, <1>5 DEF Run!Dispatch
<1>6. CASE Run!RequestStop \/ Run!RequestPause \/ Run!Resume \/ Run!StopHook \/ Run!PauseHook
  BY <1>1, <1>6 DEF Run!RequestStop, Run!RequestPause, Run!Resume, Run!StopHook, Run!PauseHook,
     Run!Control, Run!Hook
<1>7. ASSUME NEW w \in Run!Jobs, Run!Worker(w) PROVE RunTyped'
  BY <1>1, <1>7 DEF Run!Worker, Run!WorkerStep, Run!Count, Run!ReadState, Run!KeepState, Run!Decide,
     Run!WorkOK, Run!WorkDone, Run!WorkError, Run!Uncount
<1>8. CASE UNCHANGED Run!vars
  BY <1>8
<1> QED
  BY <1>2, <1>3, <1>4, <1>5, <1>6, <1>7, <1>8 DEF Run!Next, Run!Client

(* The counter and the client's place keep telling where the worker is.    *)
LEMMA SoleFollowsStep ==
    ASSUME RunTyped, setup.runners = 1, setup.waits, SoleFollows, [Run!Next]_Run!vars
    PROVE  SoleFollows'
<1> USE DEF Counted, Sole, Run!workerVars, Run!controlVars, Run!clientVars, Run!vars
<1>1. /\ setup' = setup
      /\ runs # 0 => <<runs, 0>> \in Run!Jobs
  BY SetupIsFixed, FirstIsJob DEF RunTyped, SoleFollows
<1>2. CASE Run!CallRun
  <2>1. /\ runs' = runs + 1 /\ runs + 1 <= MaxJobs /\ client' = "prepare"
        /\ job' = job /\ nRunningJobs' = nRunningJobs
    BY <1>2, RunAssumption DEF Run!CallRun, Run!ClientStep, RunTyped
  <2>2. Sole = "none"
    BY <1>2 DEF Run!CallRun, Run!ClientStep, SoleFollows
  <2>3. \A w \in Run!Jobs : job[w] = "none"
    BY <2>2, <1>1 DEF SoleFollows, RunTyped, Run!Jobs, Run!Runners
  <2>4. <<runs + 1, 0>> \in Run!Jobs
    BY <2>1, RunAssumption DEF RunTyped, Run!Jobs, Run!Runners
  <2>5. Sole' = "none"
    BY <2>1, <2>3, <2>4 DEF RunTyped
  <2> QED
    BY <2>1, <2>2, <2>3, <2>5 DEF SoleFollows
<1>3. CASE Run!Initialise \/ Run!Rewire \/ Run!Detach \/ Run!Finish \/ Run!ClientStopHook
  BY <1>1, <1>3 DEF Run!Initialise, Run!Rewire, Run!Detach, Run!Finish, Run!ClientStopHook,
     Run!ClientStep, SoleFollows
<1>4. CASE Run!EnterRunning
  BY <1>4 DEF Run!EnterRunning, SoleFollows
<1>5. CASE Run!AwaitStart \/ Run!InlineDone \/ Run!WaitDone
  BY <1>1, <1>5 DEF Run!AwaitStart, Run!InlineDone, Run!WaitDone, Run!ClientStep, SoleFollows, RunTyped, Places
<1>6. CASE Run!StraysDone
  BY <1>1, <1>6 DEF Run!StraysDone, Run!ClientStep, SoleFollows, RunTyped
<1>7. CASE Run!Dispatch
  BY <1>1, <1>7 DEF Run!Dispatch, SoleFollows, RunTyped
<1>8. CASE Run!RequestStop \/ Run!RequestPause \/ Run!Resume \/ Run!StopHook \/ Run!PauseHook
  BY <1>8 DEF Run!RequestStop, Run!RequestPause, Run!Resume, Run!StopHook, Run!PauseHook,
     Run!Control, Run!Hook, SoleFollows
<1>9. ASSUME NEW w \in Run!Jobs, Run!Worker(w) PROVE SoleFollows'
  <2>1. /\ client' = client /\ nextRunner' = nextRunner /\ runs' = runs
        /\ job' = [job EXCEPT ![w] = job'[w]]
        /\ job[w] # "none" /\ job'[w] # "queued"
        /\ \/ job[w] = "queued" /\ job'[w] \in Counted /\ nRunningJobs' = nRunningJobs + 1
           \/ job[w] \in Counted /\ job'[w] \in Counted /\ nRunningJobs' = nRunningJobs
           \/ job[w] \in Counted /\ job'[w] = "none" /\ nRunningJobs' = nRunningJobs - 1
    BY <1>9 DEF Run!Worker, Run!WorkerStep, Run!Count, Run!ReadState, Run!KeepState, Run!Decide,
       Run!WorkOK, Run!WorkDone, Run!WorkError, Run!Uncount, RunTyped
  <2>2. w = <<runs, 0>> /\ runs # 0
    BY <2>1, RunAssumption DEF SoleFollows, Run!Jobs, RunTyped
  <2>3. Sole = job[w] /\ Sole' = job'[w]
    BY <2>1, <2>2
  <2>4. \A v \in Run!Jobs : v # w => job'[v] = job[v]
    BY <2>1 DEF RunTyped
  <2> QED
    BY <2>1, <2>2, <2>3, <2>4 DEF SoleFollows
<1>10. CASE UNCHANGED Run!vars
  BY <1>10 DEF SoleFollows
<1> QED
  BY <1>2, <1>3, <1>4, <1>5, <1>6, <1>7, <1>8, <1>9, <1>10 DEF Run!Next, Run!Client

(* "_nRunningJobs == 0 is the only quiescence point" (Scheduler.hpp:629):  *)
(* with one job list, no worker is left when runAndWait() has returned or  *)
(* when start() modifies the ports of the next run, through any sequence   *)
(* of stops, pauses, resumptions, failures and restarts.                   *)
THEOREM ReturnIsQuiet == Run!Spec => []SoleWorkerHasLeft
<1>1. Run!Init => RunInv
  BY RunAssumption DEF Run!Init, RunInv, RunTyped, SoleFollows, Sole, Counted, Places
<1>2. RunInv /\ [Run!Next]_Run!vars => RunInv'
  BY RunTypedStep, SoleFollowsStep, SetupIsFixed DEF RunInv
<1>3. RunInv => SoleWorkerHasLeft
  <2> SUFFICES ASSUME RunInv, setup.runners = 1, setup.waits, client \in {"out", "rewire"},
                      NEW w \in Run!Jobs
               PROVE  job[w] = "none"
    BY DEF SoleWorkerHasLeft, Run!SoleWorkerHasLeft
  <2>1. SoleFollows /\ Sole = "none"
    BY DEF RunInv, SoleFollows
  <2> QED
    BY <2>1 DEF SoleFollows, Sole, Run!Jobs
<1> QED
  BY <1>1, <1>2, <1>3, PTL DEF Run!Spec
=============================================================================
