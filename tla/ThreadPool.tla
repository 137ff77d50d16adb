------------------------------ MODULE ThreadPool ------------------------------
(***************************************************************************)
(* BasicThreadPool, which runs the workers of every scheduler and the      *)
(* tasks of blocks that block.  execute() queues a task, wakes a thread    *)
(* and, while the queue is not empty and the pool may grow, creates        *)
(* threads.  A thread takes tasks from the queue, sleeps when it finds     *)
(* none for a while, and leaves when it has had none for                   *)
(* keepAliveDuration and the pool is larger than its minimum.              *)
(*                                                                         *)
(* Every access to a shared counter is a step of its own.  Each thread     *)
(* waits with a mutex of its own, so a notification between its look at    *)
(* the predicate and its sleep is lost; the wait then ends by its timeout. *)
(* All tasks have the default priority.  Tasks are alike, and so are       *)
(* threads that do not exist yet: which one is next is not left open.      *)
(***************************************************************************)
EXTENDS Naturals, Sequences, FiniteSets

CONSTANTS
    Submitters,     \* threads that call execute()
    Tasks,          \* the tasks they submit, each one once
    Threads,        \* the pool's threads, enough for all that may be alive; one
                    \* that has left may come back
    MaxThreads      \* _maxThreads

ASSUME PoolAssumption ==
    /\ IsFiniteSet(Submitters) /\ Submitters # {}
    /\ MaxThreads \in Nat \ {0}

VARIABLES
    minThreads,
    taskQueue, numTaskedQueued, numTasksRunning, numThreads, shutdown,
    pc, task,       \* per thread: position, its task
    spc, subject, nThreads,     \* per submitter: position, its task, a local
    submitted

queueVars     == <<taskQueue, numTaskedQueued>>
threadVars    == <<pc, task>>
submitterVars == <<spc, subject, nThreads, submitted>>
vars == <<minThreads, queueVars, numTasksRunning, numThreads, shutdown, threadVars, submitterVars>>

NoTask == "none"

(* The constructor creates minThreads threads.                             *)
InitWith(n) ==
    /\ minThreads = n
    /\ taskQueue = <<>> /\ numTaskedQueued = 0
    /\ numTasksRunning = 0
    /\ numThreads = minThreads
    /\ shutdown = FALSE
    /\ LET first == CHOOSE S \in SUBSET Threads : Cardinality(S) = minThreads
       IN  pc = [w \in Threads |-> IF w \in first THEN "loop" ELSE "none"]
    /\ task = [w \in Threads |-> NoTask]
    /\ spc = [s \in Submitters |-> "out"]
    /\ subject = [s \in Submitters |-> NoTask]
    /\ nThreads = [s \in Submitters |-> 0]
    /\ submitted = {}

Init == \E n \in 1 .. MaxThreads : InitWith(n)

-----------------------------------------------------------------------------
(* execute() *)

Goto(s, from, to) == spc[s] = from /\ spc' = [spc EXCEPT ![s] = to]

Execute(s) ==
    /\ Goto(s, "out", "push")
    /\ ~shutdown
    /\ submitted # Tasks
    /\ LET t == CHOOSE t \in Tasks \ submitted : TRUE
       IN  submitted' = submitted \cup {t} /\ subject' = [subject EXCEPT ![s] = t]
    /\ numTaskedQueued' = numTaskedQueued + 1
    /\ UNCHANGED <<minThreads, taskQueue, numTasksRunning, numThreads, shutdown, threadVars, nThreads>>

Push(s) ==
    /\ Goto(s, "push", "notify")
    /\ taskQueue' = Append(taskQueue, subject[s])
    /\ UNCHANGED <<minThreads, numTaskedQueued, numTasksRunning, numThreads, shutdown, threadVars,
                   subject, nThreads, submitted>>

Asleep == {w \in Threads : pc[w] = "asleep"}

(* notify_one(): some sleeping thread wakes up, if there is one.           *)
NotifyOne(s) ==
    /\ Goto(s, "notify", "size")
    /\ IF Asleep = {} THEN UNCHANGED pc
       ELSE \E w \in Asleep : pc' = [pc EXCEPT ![w] = "idle"]
    /\ UNCHANGED <<minThreads, queueVars, numTasksRunning, numThreads, shutdown, task,
                   subject, nThreads, submitted>>

PendingTasks(s) ==
    /\ Goto(s, "size", IF taskQueue # <<>> THEN "room" ELSE "out")
    /\ UNCHANGED <<minThreads, queueVars, numTasksRunning, numThreads, shutdown, threadVars,
                   subject, nThreads, submitted>>

CanGrow(s) ==
    /\ Goto(s, "room", IF numThreads < MaxThreads THEN "load" ELSE "out")
    /\ UNCHANGED <<minThreads, queueVars, numTasksRunning, numThreads, shutdown, threadVars,
                   subject, nThreads, submitted>>

LoadThreads(s) ==
    /\ Goto(s, "load", "compare")
    /\ nThreads' = [nThreads EXCEPT ![s] = numThreads]
    /\ UNCHANGED <<minThreads, queueVars, numTasksRunning, numThreads, shutdown, threadVars,
                   subject, submitted>>

(* Every thread is busy, as far as one can see.                            *)
Compare(s) ==
    /\ Goto(s, "compare", IF nThreads[s] <= numTasksRunning /\ nThreads[s] <= MaxThreads
                            THEN "create" ELSE "notify")
    /\ UNCHANGED <<minThreads, queueVars, numTasksRunning, numThreads, shutdown, threadVars,
                   subject, nThreads, submitted>>

CreateWorkerThread(s) ==
    /\ Goto(s, "create", "notify")
    /\ numThreads' = numThreads + 1
    /\ \E w \in Threads : pc[w] = "none"
    /\ pc' = [pc EXCEPT ![CHOOSE w \in Threads : pc[w] = "none"] = "loop"]
    /\ UNCHANGED <<minThreads, queueVars, numTasksRunning, shutdown, task,
                   subject, nThreads, submitted>>

-----------------------------------------------------------------------------
(* worker() *)

Step(w, from, to) == pc[w] = from /\ pc' = [pc EXCEPT ![w] = to]

Pop(w) ==
    /\ Step(w, "loop", "popped")
    /\ taskQueue # <<>>
    /\ task' = [task EXCEPT ![w] = Head(taskQueue)]
    /\ taskQueue' = Tail(taskQueue)
    /\ UNCHANGED <<minThreads, numTaskedQueued, numTasksRunning, numThreads, shutdown, submitterVars>>

Uncount(w) ==
    /\ Step(w, "popped", "begin")
    /\ numTaskedQueued' = numTaskedQueued - 1
    /\ UNCHANGED <<minThreads, taskQueue, numTasksRunning, numThreads, shutdown, task, submitterVars>>

BeginTask(w) ==
    /\ Step(w, "begin", "running")
    /\ numTasksRunning' = numTasksRunning + 1
    /\ UNCHANGED <<minThreads, queueVars, numThreads, shutdown, task, submitterVars>>

EndTask(w) ==
    /\ Step(w, "running", "fresh")
    /\ numTasksRunning' = numTasksRunning - 1
    /\ task' = [task EXCEPT ![w] = NoTask]
    /\ UNCHANGED <<minThreads, queueVars, numThreads, shutdown, submitterVars>>

(* No task found: spin, or get ready to sleep.                             *)
FindNone(w) ==
    /\ taskQueue = <<>>
    /\ Step(w, "loop", "check") \/ Step(w, "loop", "idle")
    /\ UNCHANGED <<minThreads, queueVars, numTasksRunning, numThreads, shutdown, task, submitterVars>>

(* The predicate of wait_for(), before each sleep.                         *)
WaitPredicate(w) ==
    /\ Step(w, "idle", IF numTaskedQueued > 0 \/ shutdown THEN "check" ELSE "drowsy")
    /\ UNCHANGED <<minThreads, queueVars, numTasksRunning, numThreads, shutdown, task, submitterVars>>

FallAsleep(w) ==
    /\ Step(w, "drowsy", "asleep")
    /\ UNCHANGED <<minThreads, queueVars, numTasksRunning, numThreads, shutdown, task, submitterVars>>

(* Faulty: wait() for the predicate, without a time limit.                 *)
TimeoutOnlyOnShutdown(w) ==
    /\ Step(w, "asleep", "check")
    /\ shutdown
    /\ UNCHANGED <<minThreads, queueVars, numTasksRunning, numThreads, shutdown, task, submitterVars>>

(* keepAliveDuration is over: the wait ends, whatever the predicate says.  *)
Timeout(w) ==
    /\ Step(w, "asleep", "check")
    /\ UNCHANGED <<minThreads, queueVars, numTasksRunning, numThreads, shutdown, task, submitterVars>>

(* The last thread to go empties the queue.                                *)
Leave(w) ==
    /\ pc[w] \in {"check", "fresh"}
    /\ pc' = [pc EXCEPT ![w] = "none"]
    /\ numThreads' = numThreads - 1
    /\ taskQueue' = IF numThreads = 1 THEN <<>> ELSE taskQueue
    /\ UNCHANGED <<minThreads, numTaskedQueued, numTasksRunning, shutdown, task, submitterVars>>

(* Faulty: one thread too many leaves.                                     *)
MayRetireAtMinimum(w) == pc[w] = "check" /\ numThreads >= minThreads

(* The compare-and-swap loop: numThreads is checked and decreased at once. *)
(* keepAliveDuration may be over whenever the thread has found no task.    *)
MayRetire(w) == pc[w] = "check" /\ numThreads > minThreads

(* Faulty: the tasks that are left are not cleared but waited for.         *)
LeaveOnceDrained(w) == shutdown /\ taskQueue = <<>> /\ Leave(w)

LeaveOnShutdown(w) == shutdown /\ Leave(w)

Retire(w) == ~shutdown /\ MayRetire(w) /\ Leave(w)

Stay(w) ==
    /\ ~shutdown
    /\ Step(w, "check", "loop") \/ Step(w, "fresh", "loop")
    /\ UNCHANGED <<minThreads, queueVars, numTasksRunning, numThreads, shutdown, task, submitterVars>>

-----------------------------------------------------------------------------
(* The owner shuts the pool down, or destroys it, when nobody submits.     *)
RequestShutdown ==
    /\ ~shutdown
    /\ \A s \in Submitters : spc[s] = "out"
    /\ shutdown' = TRUE
    /\ pc' = [w \in Threads |-> IF w \in Asleep THEN "idle" ELSE pc[w]]
    /\ UNCHANGED <<minThreads, queueVars, numTasksRunning, numThreads, task, submitterVars>>

Growing(s) ==
    \/ Push(s) \/ NotifyOne(s) \/ PendingTasks(s) \/ CanGrow(s) \/ LoadThreads(s) \/ Compare(s)
    \/ CreateWorkerThread(s)

Taking(w) == Pop(w) \/ Uncount(w) \/ BeginTask(w) \/ FindNone(w) \/ WaitPredicate(w) \/ FallAsleep(w)

Checking(w) == LeaveOnShutdown(w) \/ Retire(w) \/ Stay(w)

Next ==
    \/ \E s \in Submitters : Execute(s) \/ Growing(s)
    \/ \E w \in Threads :
        \/ Taking(w) \/ Checking(w)
        \/ EndTask(w) \/ Timeout(w)
    \/ RequestShutdown

Spec == Init /\ [][Next]_vars

(* Threads keep running and waits end; a task may never end.               *)
Fairness ==
    /\ \A s \in Submitters : WF_vars(Growing(s))
    /\ \A w \in Threads :
        /\ WF_vars(Taking(w) \/ Checking(w))
        /\ WF_vars(Timeout(w))

FairSpec == Spec /\ Fairness

-----------------------------------------------------------------------------
(* Properties *)

TypeOK ==
    /\ minThreads \in 1 .. MaxThreads
    /\ taskQueue \in Seq(Tasks)
    /\ numTaskedQueued \in 0 .. Cardinality(Tasks)
    /\ numTasksRunning \in 0 .. Cardinality(Threads)
    /\ numThreads \in 0 .. Cardinality(Threads)
    /\ shutdown \in BOOLEAN
    /\ pc \in [Threads -> {"none", "loop", "popped", "begin", "running", "fresh",
                           "check", "idle", "drowsy", "asleep"}]
    /\ task \in [Threads -> Tasks \cup {NoTask}]
    /\ spc \in [Submitters -> {"out", "push", "notify", "size", "room", "load", "compare", "create"}]
    /\ subject \in [Submitters -> Tasks \cup {NoTask}]
    /\ nThreads \in [Submitters -> 0 .. Cardinality(Threads)]
    /\ submitted \subseteq Tasks

(***************************************************************************)
(* The maximum "is not a hard limit" (qa_thread_pool.cpp:101), but almost: *)
(* concurrent calls to execute() that all see room overshoot it by less    *)
(* than their number.  The minimum is kept until the pool is shut down,    *)
(* however many threads find at the same time that they are superfluous.   *)
(***************************************************************************)
SizeBounded ==
    /\ numThreads < MaxThreads + Cardinality(Submitters)
    /\ ~shutdown => numThreads >= minThreads

Queued(t) == \E i \in DOMAIN taskQueue : taskQueue[i] = t

Busy == {w \in Threads : pc[w] \in {"popped", "begin", "running"}}

(***************************************************************************)
(* In a pool of fixed size (the CPU pool, which runs the schedulers'       *)
(* workers) a task that waits is started unless every thread is busy,      *)
(* although wake-ups may be lost and other tasks may never end.  (A pool   *)
(* that is shut down drops the tasks in its queue.)                        *)
(***************************************************************************)
TaskStarts ==
    \A t \in Tasks :
        minThreads = MaxThreads /\ Queued(t) ~>
            ~Queued(t) \/ Cardinality(Busy) >= MaxThreads \/ shutdown

(***************************************************************************)
(* After requestShutdown() every thread leaves, unless its task never      *)
(* ends, and the destructor's joins return.                                *)
(***************************************************************************)
ShutdownEnds ==
    \A w \in Threads : shutdown ~> pc[w] \in {"none", "running"}
=============================================================================
