----------------------------- MODULE SchedulerRun -----------------------------
(***************************************************************************)
(* One scheduler through start, work, stop and restart: a client's thread  *)
(* that calls runAndWait(), or only the state changes that start it; the   *)
(* workers it dispatches to the pool; and a second thread that stops,      *)
(* pauses and resumes the scheduler meanwhile.  The client learns that the *)
(* workers have left from the counter _nRunningJobs alone, which a worker  *)
(* increments when the pool runs it, not when it is queued.                *)
(*                                                                         *)
(* A change of the life-cycle state is one step with its validation here   *)
(* (LifeCycle takes it apart); the hook it runs follows as further steps.  *)
(***************************************************************************)
EXTENDS Naturals

CONSTANTS
    MaxRunners,     \* bound: job lists, one worker each
    Ratio,          \* process_stream_to_message_ratio: passes per state check
    MaxJobs,        \* bound: workers dispatched in all calls to runAndWait()
    MaxControls     \* bound: calls of the controlling thread

Runners == 0 .. MaxRunners - 1
Jobs == (1 .. MaxJobs) \X Runners         \* a worker job per runner in each run

(* How a scheduler is set up: with a singleThreaded policy the client is   *)
(* the only worker; the threads free in the pool bound the number of job   *)
(* lists; a client may start the scheduler and not wait for its end.       *)
Setups == {s \in [inline : BOOLEAN, runners : 1 .. MaxRunners, waits : BOOLEAN] :
             s.inline => s.runners = 1}

VARIABLES
    setup,
    state,          \* life-cycle state of the scheduler
    nRunningJobs,
    job,            \* job[w]: where worker w is, "none" before and after
    activeState,    \* the state as worker w last saw it
    kept,           \* passes worker w has made with that value
    client, nextRunner,
    control,        \* the controlling thread, and the hook it is in
    runs, controls

clientVars  == <<setup, client, nextRunner, runs>>
controlVars == <<control, controls>>
workerVars  == <<job, activeState, kept>>
vars == <<state, nRunningJobs, workerVars, clientVars, controlVars>>

isActive(s) == s \in {"RUNNING", "REQUESTED_PAUSE", "PAUSED"}

Init ==
    /\ setup \in Setups
    /\ state = "IDLE"
    /\ nRunningJobs = 0
    /\ job = [w \in Jobs |-> "none"]
    /\ activeState = [w \in Jobs |-> "IDLE"]
    /\ kept = [w \in Jobs |-> 0]
    /\ client = "out" /\ nextRunner = 0
    /\ control = "out"
    /\ runs = 0 /\ controls = 0

-----------------------------------------------------------------------------
(* runAndWait() *)

ClientStep(from, to) == client = from /\ client' = to

CallRun ==
    /\ ClientStep("out", "prepare")
    /\ (runs + 1) * setup.runners <= MaxJobs
    /\ runs' = runs + 1
    /\ UNCHANGED <<setup, state, nRunningJobs, workerVars, nextRunner, controlVars>>

(* init(), or reset(), which disconnects all edges.                        *)
Initialise ==
    /\ ClientStep("prepare", "initialised")
    /\ state \in {"IDLE", "STOPPED", "ERROR"}
    /\ state' = "INITIALISED"
    /\ UNCHANGED <<nRunningJobs, workerVars, nextRunner, setup, runs, controlVars>>

(* changeStateTo(RUNNING): start() follows, unless the scheduler runs      *)
(* already or the transition is invalid.                                   *)
EnterRunning ==
    /\ \/ client = "prepare" /\ state \notin {"IDLE", "STOPPED", "ERROR"}
       \/ client = "initialised"
    /\ client' = IF state = "INITIALISED" THEN "rewire"
                 ELSE IF state \in {"RUNNING", "PAUSED"} THEN "wait" ELSE "out"
    /\ state' = IF state \in {"INITIALISED", "PAUSED"} THEN "RUNNING" ELSE state
    /\ UNCHANGED <<nRunningJobs, workerVars, nextRunner, setup, runs, controlVars>>

(* start(): edges reconnected, blocks set to RUNNING.                      *)
Rewire ==
    /\ ClientStep("rewire", "stray")
    /\ UNCHANGED <<state, nRunningJobs, workerVars, nextRunner, setup, runs, controlVars>>

(* waitDone() for stray workers of an earlier run.                         *)
StraysDone ==
    /\ ClientStep("stray", IF setup.inline THEN "inline" ELSE "dispatch")
    /\ nRunningJobs = 0
    /\ nextRunner' = 0
    /\ job' = IF setup.inline THEN [job EXCEPT ![<<runs, 0>>] = "queued"] ELSE job
    /\ UNCHANGED <<state, nRunningJobs, activeState, kept, setup, runs, controlVars>>

Dispatch ==
    /\ client = "dispatch"
    /\ job' = [job EXCEPT ![<<runs, nextRunner>>] = "queued"]
    /\ nextRunner' = nextRunner + 1
    /\ client' = IF nextRunner' = setup.runners THEN "awaitStart" ELSE "dispatch"
    /\ UNCHANGED <<state, nRunningJobs, activeState, kept, setup, runs, controlVars>>

(* _nRunningJobs->wait(0)                                                  *)
AwaitStart ==
    /\ ClientStep("awaitStart", "wait")
    /\ nRunningJobs # 0
    /\ UNCHANGED <<state, nRunningJobs, workerVars, nextRunner, setup, runs, controlVars>>

(* The client leaves the worker's loop it was in.                          *)
InlineDone ==
    /\ ClientStep("inline", "wait")
    /\ job[<<runs, 0>>] = "none"
    /\ UNCHANGED <<state, nRunningJobs, workerVars, nextRunner, setup, runs, controlVars>>

(* changeStateTo(RUNNING) returned to a client that does not wait.         *)
Detach ==
    /\ ~setup.waits
    /\ ClientStep("wait", "out")
    /\ UNCHANGED <<state, nRunningJobs, workerVars, nextRunner, setup, runs, controlVars>>

(* Faulty: done as soon as one worker is.                                  *)
WaitDoneOneLeft ==
    /\ setup.waits
    /\ ClientStep("wait", "finish")
    /\ nRunningJobs <= 1
    /\ UNCHANGED <<state, nRunningJobs, workerVars, nextRunner, setup, runs, controlVars>>

WaitDone ==
    /\ setup.waits
    /\ ClientStep("wait", "finish")
    /\ nRunningJobs = 0
    /\ UNCHANGED <<state, nRunningJobs, workerVars, nextRunner, setup, runs, controlVars>>

Finish ==
    /\ ClientStep("finish", IF state = "RUNNING" THEN "stopHook" ELSE "out")
    /\ state' = CASE state = "RUNNING" -> "REQUESTED_STOP"
                  [] state = "REQUESTED_STOP" -> "STOPPED"
                  [] OTHER -> state
    /\ UNCHANGED <<nRunningJobs, workerVars, nextRunner, setup, runs, controlVars>>

(* stop() stops the blocks and then moves on to STOPPED.                   *)
ClientStopHook ==
    /\ ClientStep("stopHook", "out")
    /\ state' = IF state = "REQUESTED_STOP" THEN "STOPPED" ELSE state
    /\ UNCHANGED <<nRunningJobs, workerVars, nextRunner, setup, runs, controlVars>>

-----------------------------------------------------------------------------
(* The controlling thread: a request, and the hook that completes it.      *)

Control(from, to, hook) ==
    /\ control = "out" /\ controls < MaxControls
    /\ state \in from
    /\ state' = to
    /\ control' = hook
    /\ controls' = controls + 1
    /\ UNCHANGED <<nRunningJobs, workerVars, clientVars>>

RequestStop  == Control({"IDLE", "INITIALISED", "RUNNING", "PAUSED"}, "REQUESTED_STOP", "stopHook")
RequestPause == Control({"RUNNING"}, "REQUESTED_PAUSE", "pauseHook")
Resume       == Control({"PAUSED"}, "RUNNING", "out")

Hook(hook, from, to) ==
    /\ control = hook
    /\ control' = "out"
    /\ state' = IF state = from THEN to ELSE state
    /\ UNCHANGED <<nRunningJobs, workerVars, clientVars, controls>>

StopHook  == Hook("stopHook", "REQUESTED_STOP", "STOPPED")
PauseHook == Hook("pauseHook", "REQUESTED_PAUSE", "PAUSED")

-----------------------------------------------------------------------------
(* poolWorker(w) *)

WorkerStep(w, from, to) == job[w] = from /\ job' = [job EXCEPT ![w] = to]

Count(w) ==
    /\ WorkerStep(w, "queued", "first")
    /\ nRunningJobs' = nRunningJobs + 1
    /\ UNCHANGED <<state, activeState, kept, clientVars, controlVars>>

(* The pass that handles messages looks at the state again; the first one  *)
(* always does.                                                            *)
ReadState(w) ==
    /\ job[w] \in {"first", "top"}
    /\ job' = [job EXCEPT ![w] = "decide"]
    /\ activeState' = [activeState EXCEPT ![w] = state]
    /\ kept' = [kept EXCEPT ![w] = 0]
    /\ UNCHANGED <<state, nRunningJobs, clientVars, controlVars>>

KeepState(w) ==
    /\ WorkerStep(w, "top", "decide")
    /\ kept[w] < Ratio - 1
    /\ activeState[w] = "RUNNING"
    /\ kept' = [kept EXCEPT ![w] = @ + 1]
    /\ UNCHANGED <<state, nRunningJobs, activeState, clientVars, controlVars>>

(* Faulty: a worker leaves on STOPPED only.                                *)
DecideUntilStopped(w) ==
    /\ WorkerStep(w, "decide", IF activeState[w] = "RUNNING" THEN "work"
                               ELSE IF activeState[w] # "STOPPED" THEN "top" ELSE "leaving")
    /\ UNCHANGED <<state, nRunningJobs, activeState, kept, clientVars, controlVars>>

Decide(w) ==
    /\ WorkerStep(w, "decide", IF activeState[w] = "RUNNING" THEN "work"
                               ELSE IF isActive(activeState[w]) THEN "top" ELSE "leaving")
    /\ UNCHANGED <<state, nRunningJobs, activeState, kept, clientVars, controlVars>>

(* traverseBlockListOnce() returned: blocks left to run, all DONE, ERROR.  *)
WorkOK(w) ==
    /\ WorkerStep(w, "work", "top")
    /\ UNCHANGED <<state, nRunningJobs, activeState, kept, clientVars, controlVars>>

WorkDone(w) ==
    /\ WorkerStep(w, "work", "leaving")
    /\ UNCHANGED <<state, nRunningJobs, activeState, kept, clientVars, controlVars>>

WorkError(w) ==
    /\ WorkerStep(w, "work", "leaving")
    /\ state' = "ERROR"
    /\ UNCHANGED <<nRunningJobs, activeState, kept, clientVars, controlVars>>

(* poolWorker() returns, and its locals are gone.                          *)
Uncount(w) ==
    /\ WorkerStep(w, "leaving", "none")
    /\ nRunningJobs' = nRunningJobs - 1
    /\ activeState' = [activeState EXCEPT ![w] = "IDLE"]
    /\ kept' = [kept EXCEPT ![w] = 0]
    /\ UNCHANGED <<state, clientVars, controlVars>>

-----------------------------------------------------------------------------
Client ==
    \/ Initialise \/ EnterRunning \/ Rewire \/ StraysDone \/ Dispatch \/ AwaitStart
    \/ InlineDone \/ Detach \/ WaitDone \/ Finish \/ ClientStopHook

Worker(w) ==
    \/ Count(w) \/ ReadState(w) \/ KeepState(w) \/ Decide(w)
    \/ WorkOK(w) \/ WorkDone(w) \/ WorkError(w) \/ Uncount(w)

Next ==
    \/ CallRun \/ Client
    \/ RequestStop \/ RequestPause \/ Resume \/ StopHook \/ PauseHook
    \/ \E w \in Jobs : Worker(w)

Spec == Init /\ [][Next]_vars

(* Threads keep running; nothing forces a request, a pause or an end of    *)
(* the data.                                                               *)
Fairness ==
    /\ WF_vars(Client)
    /\ WF_vars(StopHook \/ PauseHook)
    /\ \A w \in Jobs : WF_vars(Worker(w))

FairSpec == Spec /\ Fairness

-----------------------------------------------------------------------------
(* Properties *)

States == {"IDLE", "INITIALISED", "RUNNING", "REQUESTED_PAUSE", "PAUSED",
           "REQUESTED_STOP", "STOPPED", "ERROR"}

TypeOK ==
    /\ state \in States
    /\ setup \in Setups
    /\ nRunningJobs \in 0 .. MaxJobs
    /\ job \in [Jobs -> {"none", "queued", "first", "top", "decide", "work", "leaving"}]
    /\ activeState \in [Jobs -> States]
    /\ kept \in [Jobs -> 0 .. Ratio - 1]
    /\ client \in {"out", "prepare", "initialised", "rewire", "stray", "inline", "dispatch",
                   "awaitStart", "wait", "finish", "stopHook"}
    /\ nextRunner \in 0 .. MaxRunners
    /\ control \in {"out", "stopHook", "pauseHook"}
    /\ runs \in 0 .. MaxJobs /\ controls \in 0 .. MaxControls

(***************************************************************************)
(* "_nRunningJobs == 0 is the only quiescence point shared by the          *)
(* runAndWait / exchange / dtor teardown paths" (Scheduler.hpp:629): once  *)
(* runAndWait() has returned, no worker is left that could touch a block.  *)
(***************************************************************************)
ReturnMeansQuiet ==
    client = "out" /\ setup.waits => \A w \in Jobs : job[w] = "none"

(***************************************************************************)
(* With a single job list the counter tells the truth: when runAndWait()   *)
(* has returned, and when a later start() "observes _graph and modifies    *)
(* ports before it spawns workers" (Scheduler.hpp:311), the worker has     *)
(* left, however the run was stopped, paused or failed.                    *)
(***************************************************************************)
SoleWorkerHasLeft ==
    setup.runners = 1 /\ setup.waits /\ client \in {"out", "rewire"} =>
        \A w \in Jobs : job[w] = "none"

(***************************************************************************)
(* A stopped or failed scheduler loses all its workers, whatever they were *)
(* doing, and however stale their view of the state is; and a client that  *)
(* is itself the worker returns from runAndWait().                         *)
(***************************************************************************)
StopEndsWorkers ==
    state \in {"STOPPED", "ERROR"} ~>
        \/ (\A w \in Jobs : job[w] = "none") /\ (setup.inline => client = "out")
        \/ state \notin {"STOPPED", "ERROR"}

(***************************************************************************)
(* start() "waits until at least one pool worker started"                  *)
(* (Scheduler.hpp:836), and no longer.                                     *)
(***************************************************************************)
StartReturns == client = "awaitStart" ~> client # "awaitStart"
=============================================================================
