---------------------------- MODULE BlockingSync ----------------------------
(***************************************************************************)
(* BlockingSync.hpp: the mixin of blocks that keep pace with a clock.  The *)
(* start() hook of the block puts a task into the I/O pool that wakes the  *)
(* scheduler once per chunk for as long as the block is active; the stop() *)
(* hook and the destructor tell it to leave and wait for it.  The life     *)
(* cycle of the block is LifeCycle's, with these two hooks taken apart     *)
(* into their accesses to the shared flags.  Time is left out.             *)
(***************************************************************************)
EXTENDS LifeCycle, Integers

CONSTANT owner   \* the thread that changes the state of the block

VARIABLES
    timerRunning, timerDone,
    timers,      \* timers[p]: timer tasks that are "queued", in "loop" or in "sleep"
    hookPc,      \* the place of the owner in the start() or stop() hook
    hasRate,     \* getSampleRate() > 0
    wakes,       \* progress, modulo 2
    left         \* ghost: a timer may have left its loop by itself since the last stop()

timer  == <<timerRunning, timerDone, timers>>
block  == <<state, lastHook, pc, seen, target, result, calls>>
syncVars == <<block, timer, hookPc, hasRate, wakes, left>>

Moved(from, to) == [timers EXCEPT ![from] = @ - 1, ![to] = @ + 1]
Ended(from) == [timers EXCEPT ![from] = @ - 1]
NoTimer == \A p \in DOMAIN timers : timers[p] = 0
Hook == HookOf(seen[owner], target[owner])

SyncInit ==
    /\ Init
    /\ timerRunning = FALSE /\ timerDone = TRUE
    /\ timers = [p \in {"queued", "loop", "sleep"} |-> 0]
    /\ hookPc = "begin" /\ hasRate = TRUE /\ wakes = 0 /\ left = FALSE

-----------------------------------------------------------------------------
(* The owner *)

\* A change of state up to its hook, and the hooks that do nothing here; they
\* and the code of the block around the calls of the mixin may throw.
ChangeState ==
    /\ \/ \E to \in States : LoadState(owner, to)
       \/ AlreadyThere(owner) \/ Reject(owner) \/ SetState(owner)
       \/ RunHook(owner) /\ (hookPc = "end" \/ Hook \notin {"start", "stop"})
       \/ HookThrows(owner) /\ hookPc \in {"begin", "end"}
    /\ hookPc' = IF pc[owner] = "hook" THEN "begin" ELSE hookPc
    /\ left' = (left \/ (timerRunning /\ ~isActive(state')))
    /\ UNCHANGED <<timer, hasRate, wakes>>

InHook(hook, place) == pc[owner] = "hook" /\ Hook = hook /\ hookPc = place

\* blockingSyncStart() and the exchange of startTimer(): a timer that is said
\* to run already is not started again.
StartSync ==
    /\ InHook("start", "begin")
    /\ timerRunning' = TRUE
    /\ hookPc' = IF timerRunning THEN "end" ELSE "execute"
    /\ UNCHANGED <<block, timerDone, timers, hasRate, wakes, left>>

\* Faulty: the task itself says that it is not done.
ExecuteTimerUnannounced ==
    /\ InHook("start", "execute")
    /\ timers' = [timers EXCEPT !["queued"] = @ + 1]
    /\ hookPc' = "end"
    /\ UNCHANGED <<block, timerRunning, timerDone, hasRate, wakes, left>>

ExecuteTimer ==
    /\ InHook("start", "execute")
    /\ timerDone' = FALSE
    /\ timers' = [timers EXCEPT !["queued"] = @ + 1]
    /\ hookPc' = "end"
    /\ UNCHANGED <<block, timerRunning, hasRate, wakes, left>>

\* stopTimer()
ClearRunning ==
    /\ InHook("stop", "begin")
    /\ timerRunning' = FALSE /\ hookPc' = "wait"
    /\ left' = FALSE
    /\ UNCHANGED <<block, timerDone, timers, hasRate, wakes>>

AwaitTimer ==
    /\ InHook("stop", "wait")
    /\ timerDone /\ hookPc' = "end"
    /\ UNCHANGED <<block, timer, hasRate, wakes, left>>

\* The sample rate is a setting, which may be zero.
SetRate ==
    /\ hasRate' = ~hasRate
    /\ left' = (left \/ timerRunning)
    /\ UNCHANGED <<block, timer, hookPc, wakes>>

-----------------------------------------------------------------------------
(* The timer task *)

BeginTask ==
    /\ timers["queued"] > 0
    /\ timers' = Moved("queued", "loop")
    /\ UNCHANGED <<block, timerRunning, timerDone, hookPc, hasRate, wakes, left>>

\* Faulty: the timer leaves when the block is paused.
LoopWhileRunning ==
    /\ timers["loop"] > 0
    /\ IF timerRunning /\ hasRate /\ state = "RUNNING"
       THEN timers' = Moved("loop", "sleep") /\ UNCHANGED timerDone
       ELSE timers' = Ended("loop") /\ timerDone' = TRUE
    /\ UNCHANGED <<block, timerRunning, hookPc, hasRate, wakes, left>>

\* The condition of the loop, and the end of the task when it does not hold
Loop ==
    /\ timers["loop"] > 0
    /\ IF timerRunning /\ hasRate /\ isActive(state)
       THEN timers' = Moved("loop", "sleep") /\ UNCHANGED timerDone
       ELSE timers' = Ended("loop") /\ timerDone' = TRUE
    /\ UNCHANGED <<block, timerRunning, hookPc, hasRate, wakes, left>>

\* After the sleep: a stop is obeyed before the block is touched; a paused block
\* is not woken.
WakeUp ==
    /\ timers["sleep"] > 0
    /\ \/ /\ ~timerRunning
          /\ timers' = Ended("sleep") /\ timerDone' = TRUE
          /\ UNCHANGED wakes
       \/ /\ timerRunning /\ timers' = Moved("sleep", "loop")
          /\ wakes' = IF state = "PAUSED" THEN wakes ELSE 1 - wakes
          /\ UNCHANGED timerDone
    /\ UNCHANGED <<block, timerRunning, hookPc, hasRate, left>>

-----------------------------------------------------------------------------

HookStep == StartSync \/ ExecuteTimer \/ ClearRunning \/ AwaitTimer
TimerStep == BeginTask \/ Loop \/ WakeUp

SyncNext ==
    \/ ChangeState \/ SetRate
    \/ HookStep \/ TimerStep

SyncSpec == SyncInit /\ [][SyncNext]_syncVars
\* The pool runs the task, a sleep ends, and hooks do not stop half-way.
SyncFairness == WF_syncVars(HookStep) /\ WF_syncVars(TimerStep)
SyncFairSpec == SyncSpec /\ SyncFairness

-----------------------------------------------------------------------------
(* Properties *)

\* When the stop() hook has returned, no timer task is left that could touch
\* the block, which its owner may destroy now; and there is never a second one.
StopEndsTimer ==
    /\ pc[owner] = "out" /\ lastHook = "stop" /\ isShuttingDown(state) => NoTimer
    /\ \A p, q \in DOMAIN timers : timers[p] > 0 /\ timers[q] > 0 => p = q /\ timers[p] = 1

\* A block that goes on running at a positive rate is woken again and again,
\* across pauses and restarts - unless its timer had reason to leave by itself
\* (an error, or a rate of zero) and no stop() came since.
RunningIsWoken ==
    <>[](state = "RUNNING" /\ pc[owner] = "out" /\ hasRate /\ ~left) => []<><<wakes' # wakes>>_wakes
=============================================================================
