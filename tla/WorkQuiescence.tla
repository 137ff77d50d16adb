---------------------------- MODULE WorkQuiescence ----------------------------
(***************************************************************************)
(* How a scheduler changes its graph while its workers run.  A thread that *)
(* is about to rewire ports (a message handler, resume()) requests work    *)
(* quiescence of its scheduler and, from the top down, of every scheduler  *)
(* nested in it; the workers pass a WorkGuard before they touch a block.   *)
(* Request and guard are a Dekker handshake between a flag and a counter,  *)
(* each side with a fence between its store and its load.  A nested        *)
(* scheduler is started by a thread of its own, whose start() rewires the  *)
(* nested graph without a WorkGuard: blockUntilWorking() waits for it.     *)
(*                                                                         *)
(* Every access to a shared atomic is a step of its own.  A store of the   *)
(* flag may stay in the store buffer of the requesting thread's core until *)
(* that thread's next fence.                                               *)
(***************************************************************************)
EXTENDS Naturals, FiniteSets

CONSTANTS
    Schedulers,
    Descendants,    \* Descendants[s]: the schedulers nested in s, at any depth
    Workers,        \* the pool workers of all schedulers
    Home,           \* Home[w]: the scheduler w works for
    Requesters,     \* threads that request quiescence
    Top,            \* Top[q]: the scheduler whose graph q changes
    MaxStarts       \* bound: times a scheduler is started

ASSUME HierarchyAssumption ==
    /\ Descendants \in [Schedulers -> SUBSET Schedulers]
    /\ \A s \in Schedulers : s \notin Descendants[s]
    /\ IsFiniteSet(Workers)
    /\ Home \in [Workers -> Schedulers]
    /\ Top \in [Requesters -> Schedulers]
    /\ MaxStarts \in Nat

Scope(q) == {Top[q]} \cup Descendants[Top[q]]
Ancestors(s) == {t \in Schedulers : s \in Descendants[t]}

VARIABLES
    requested,      \* _workQuiescenceRequested of each scheduler
    inWork,         \* _nWorkersInWork
    pending,        \* pending[q][s]: q's store to requested[s] others do not see yet
    wpc,            \* where each worker is: around and inside its WorkGuard
    qpc, scheduler, toRequest, toRelease,   \* the requests under way
    state,          \* life-cycle state of each scheduler
    starter,        \* where the thread is that starts each scheduler
    reconnected,    \* _stateStartPostGraphEdgesReconnected
    starts

requestVars == <<qpc, scheduler, toRequest, toRelease, pending>>
startVars   == <<state, starter, reconnected, starts>>
vars == <<requested, inWork, wpc, requestVars, startVars>>

Init ==
    /\ requested = [s \in Schedulers |-> FALSE]
    /\ inWork = [s \in Schedulers |-> 0]
    /\ pending = [q \in Requesters |-> [s \in Schedulers |-> "none"]]
    /\ wpc = [w \in Workers |-> "out"]
    /\ qpc = [q \in Requesters |-> "out"]
    /\ scheduler = [q \in Requesters |-> Top[q]]
    /\ toRequest = [q \in Requesters |-> {}]
    /\ toRelease = [q \in Requesters |-> {}]
    /\ state = [s \in Schedulers |-> "IDLE"]
    /\ starter = [s \in Schedulers |-> "none"]
    /\ reconnected = [s \in Schedulers |-> FALSE]
    /\ starts = [s \in Schedulers |-> 0]

-----------------------------------------------------------------------------
(* WorkGuard(scheduler) and ~WorkGuard() *)

WorkerStep(w, from, to) == wpc[w] = from /\ wpc' = [wpc EXCEPT ![w] = to]

(* No request seen: the worker will register.  Otherwise it skips the work.*)
LoadFlag(w) ==
    /\ starter[Home[w]] = "working"
    /\ ~requested[Home[w]]
    /\ WorkerStep(w, "out", "loaded")
    /\ UNCHANGED <<requested, inWork, requestVars, startVars>>

Register(w) ==
    /\ WorkerStep(w, "loaded", "registered")
    /\ inWork' = [inWork EXCEPT ![Home[w]] = @ + 1]
    /\ UNCHANGED <<requested, requestVars, startVars>>

(* Faulty: only a guard that may work deregisters.                         *)
LoadFlagAgainKeepsCount(w) ==
    /\ WorkerStep(w, "registered", IF requested[Home[w]] THEN "out" ELSE "working")
    /\ UNCHANGED <<requested, inWork, requestVars, startVars>>

(* The second look, after the fence: a request may have come in between.   *)
LoadFlagAgain(w) ==
    /\ WorkerStep(w, "registered", IF requested[Home[w]] THEN "leaving" ELSE "working")
    /\ UNCHANGED <<requested, inWork, requestVars, startVars>>

FinishWork(w) ==
    /\ WorkerStep(w, "working", "leaving")
    /\ UNCHANGED <<requested, inWork, requestVars, startVars>>

Deregister(w) ==
    /\ WorkerStep(w, "leaving", "out")
    /\ inWork' = [inWork EXCEPT ![Home[w]] = @ - 1]
    /\ UNCHANGED <<requested, requestVars, startVars>>

-----------------------------------------------------------------------------
(* requestWorkQuiescenceAll() and releaseWorkQuiescenceAll() *)

RequesterStep(q, from, to) == qpc[q] = from /\ qpc' = [qpc EXCEPT ![q] = to]

Request(q) ==
    /\ starter[Top[q]] = "working"
    /\ RequesterStep(q, "out", "store")
    /\ scheduler' = [scheduler EXCEPT ![q] = Top[q]]
    /\ toRequest' = [toRequest EXCEPT ![q] = Descendants[Top[q]]]
    /\ toRelease' = [toRelease EXCEPT ![q] = Scope(q)]
    /\ UNCHANGED <<requested, inWork, pending, wpc, startVars>>

StoreFlag(q) ==
    /\ RequesterStep(q, "store", "fence")
    /\ pending' = [pending EXCEPT ![q][scheduler[q]] = "set"]
    /\ UNCHANGED <<requested, inWork, wpc, scheduler, toRequest, toRelease, startVars>>

Drain(q, s) ==
    /\ pending[q][s] # "none"
    /\ requested' = [requested EXCEPT ![s] = (pending[q][s] = "set")]
    /\ pending' = [pending EXCEPT ![q][s] = "none"]
    /\ UNCHANGED <<inWork, wpc, qpc, scheduler, toRequest, toRelease, startVars>>

(* Faulty: the load of the counter may overtake the store of the flag.     *)
NoFence(q) ==
    /\ RequesterStep(q, "fence", "spin")
    /\ UNCHANGED <<requested, inWork, pending, wpc, scheduler, toRequest, toRelease, startVars>>

Fence(q) ==
    /\ RequesterStep(q, "fence", "spin")
    /\ \A s \in Schedulers : pending[q][s] = "none"
    /\ UNCHANGED <<requested, inWork, pending, wpc, scheduler, toRequest, toRelease, startVars>>

(* No worker left: on to a nested scheduler, parents before children.      *)
Quiescent(q) ==
    /\ inWork[scheduler[q]] = 0
    /\ RequesterStep(q, "spin", "next")
    /\ UNCHANGED <<requested, inWork, pending, wpc, scheduler, toRequest, toRelease, startVars>>

NextScheduler(q, s) ==
    /\ RequesterStep(q, "next", "await")
    /\ s \in toRequest[q] /\ Ancestors(s) \cap toRequest[q] = {}
    /\ scheduler' = [scheduler EXCEPT ![q] = s]
    /\ toRequest' = [toRequest EXCEPT ![q] = @ \ {s}]
    /\ UNCHANGED <<requested, inWork, pending, wpc, toRelease, startVars>>

(* Faulty: a nested scheduler that is being started is not waited for.     *)
NoBlockUntilWorking(q) ==
    /\ RequesterStep(q, "await", "store")
    /\ UNCHANGED <<requested, inWork, pending, wpc, scheduler, toRequest, toRelease, startVars>>

(* blockUntilWorking() of SchedulerWrapper and of SchedulerBase.           *)
BlockUntilWorking(q) ==
    /\ \/ starter[scheduler[q]] = "none"
       \/ reconnected[scheduler[q]]
       \/ state[scheduler[q]] \notin {"INITIALISED", "RUNNING"}
    /\ RequesterStep(q, "await", "store")
    /\ UNCHANGED <<requested, inWork, pending, wpc, scheduler, toRequest, toRelease, startVars>>

(* From here until Release the requester changes the graph.                *)
Granted(q) ==
    /\ toRequest[q] = {}
    /\ RequesterStep(q, "next", "holding")
    /\ UNCHANGED <<requested, inWork, pending, wpc, scheduler, toRequest, toRelease, startVars>>

(* Children are released before their parent.                              *)
Release(q, s) ==
    /\ qpc[q] \in {"holding", "releasing"}
    /\ s \in toRelease[q] /\ Descendants[s] \cap toRelease[q] = {}
    /\ toRelease' = [toRelease EXCEPT ![q] = @ \ {s}]
    /\ pending' = [pending EXCEPT ![q][s] = "clear"]
    /\ qpc' = [qpc EXCEPT ![q] = IF toRelease[q] = {s} THEN "out" ELSE "releasing"]
    /\ UNCHANGED <<requested, inWork, wpc, scheduler, toRequest, startVars>>

-----------------------------------------------------------------------------
(* Starting and stopping *)

(* A requester and the handler that starts or adopts a nested scheduler    *)
(* are the same thread.                                                    *)
Unclaimed(s) == \A q \in Requesters : s \in Scope(q) => qpc[q] = "out"

(* SchedulerWrapper::start(): INITIALISED, and a thread to start it.       *)
Spawn(s) ==
    /\ starter[s] = "none" /\ starts[s] < MaxStarts
    /\ Unclaimed(s)
    /\ \A t \in Ancestors(s) : starter[t] \in {"rewiring", "working"}
    /\ state' = [state EXCEPT ![s] = "INITIALISED"]
    /\ starter' = [starter EXCEPT ![s] = "spawned"]
    /\ starts' = [starts EXCEPT ![s] = @ + 1]
    /\ UNCHANGED <<requested, inWork, wpc, requestVars, reconnected>>

(* changeStateTo(RUNNING) stores the state before it calls start().        *)
EnterRunning(s) ==
    /\ starter[s] = "spawned"
    /\ starter' = [starter EXCEPT ![s] = "entered"]
    /\ state' = [state EXCEPT ![s] = "RUNNING"]
    /\ UNCHANGED <<requested, inWork, wpc, requestVars, reconnected, starts>>

BeginRewiring(s) ==
    /\ starter[s] = "entered"
    /\ starter' = [starter EXCEPT ![s] = "rewiring"]
    /\ reconnected' = [reconnected EXCEPT ![s] = FALSE]
    /\ UNCHANGED <<requested, inWork, wpc, requestVars, state, starts>>

EndRewiring(s) ==
    /\ starter[s] = "rewiring"
    /\ starter' = [starter EXCEPT ![s] = "working"]
    /\ reconnected' = [reconnected EXCEPT ![s] = TRUE]
    /\ UNCHANGED <<requested, inWork, wpc, requestVars, state, starts>>

(* stop() stops the nested schedulers first and joins their threads.       *)
Stop(s) ==
    LET all == {s} \cup Descendants[s]
    IN  /\ starter[s] = "working"
        /\ \A t \in all : starter[t] \in {"none", "working"}
        /\ \A w \in Workers : Home[w] \in all => wpc[w] = "out"
        /\ state' = [t \in Schedulers |-> IF t \in all THEN "STOPPED" ELSE state[t]]
        /\ starter' = [t \in Schedulers |-> IF t \in all THEN "none" ELSE starter[t]]
        /\ UNCHANGED <<requested, inWork, wpc, requestVars, reconnected, starts>>

-----------------------------------------------------------------------------
Worker(w) ==
    LoadFlag(w) \/ Register(w) \/ LoadFlagAgain(w) \/ FinishWork(w) \/ Deregister(w)

Requesting(q) ==
    \/ StoreFlag(q) \/ Fence(q) \/ Quiescent(q) \/ BlockUntilWorking(q) \/ Granted(q)
    \/ \E s \in Schedulers : NextScheduler(q, s) \/ Release(q, s)

Starting(s) == EnterRunning(s) \/ BeginRewiring(s) \/ EndRewiring(s)

Next ==
    \/ \E w \in Workers : Worker(w)
    \/ \E q \in Requesters :
        \/ Request(q)
        \/ Requesting(q)
        \/ \E s \in Schedulers : Drain(q, s)
    \/ \E s \in Schedulers : Spawn(s) \/ Starting(s) \/ Stop(s)

Spec == Init /\ [][Next]_vars

(* Threads keep running, and a store does not stay in a buffer for ever.   *)
Fairness ==
    /\ \A w \in Workers : WF_vars(Worker(w))
    /\ \A q \in Requesters :
        /\ WF_vars(Requesting(q))
        /\ \A s \in Schedulers : WF_vars(Drain(q, s))
    /\ \A s \in Schedulers : WF_vars(Starting(s))

FairSpec == Spec /\ Fairness

-----------------------------------------------------------------------------
(* Properties *)

TypeOK ==
    /\ requested \in [Schedulers -> BOOLEAN]
    /\ inWork \in [Schedulers -> Nat]
    /\ pending \in [Requesters -> [Schedulers -> {"none", "set", "clear"}]]
    /\ wpc \in [Workers -> {"out", "loaded", "registered", "working", "leaving"}]
    /\ qpc \in [Requesters -> {"out", "store", "fence", "spin", "next", "await",
                               "holding", "releasing"}]
    /\ scheduler \in [Requesters -> Schedulers]
    /\ toRequest \in [Requesters -> SUBSET Schedulers]
    /\ toRelease \in [Requesters -> SUBSET Schedulers]
    /\ state \in [Schedulers -> {"IDLE", "INITIALISED", "RUNNING", "STOPPED"}]
    /\ starter \in [Schedulers -> {"none", "spawned", "entered", "rewiring", "working"}]
    /\ reconnected \in [Schedulers -> BOOLEAN]
    /\ starts \in [Schedulers -> Nat]

(***************************************************************************)
(* "After this is called, it is guaranteed that this scheduler and all its *)
(* descendants are not reading/writing to their graphs"                    *)
(* (SchedulerModel.hpp, requestWorkQuiescenceAll): while a thread holds    *)
(* the guard, no worker in its scope is inside its WorkGuard.              *)
(***************************************************************************)
NoWorkWhileHeld ==
    \A q \in Requesters : qpc[q] = "holding" =>
        \A w \in Workers : Home[w] \in Scope(q) => wpc[w] # "working"

(***************************************************************************)
(* The same for the thread that starts a nested scheduler: it is not in    *)
(* the part of start() that observes the graph and modifies ports.         *)
(***************************************************************************)
NoRewiringWhileHeld ==
    \A q \in Requesters : qpc[q] = "holding" =>
        \A s \in Descendants[Top[q]] : starter[s] # "rewiring"

(***************************************************************************)
(* A request is granted although the workers go on calling WorkGuard, and  *)
(* though nested schedulers are being started or stopped meanwhile.        *)
(***************************************************************************)
RequestGranted ==
    \A q \in Requesters : (qpc[q] \in {"store", "fence", "spin", "next", "await"}) ~> (qpc[q] = "holding")
=============================================================================
