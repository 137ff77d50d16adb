------------------------------ MODULE LifeCycle ------------------------------
(***************************************************************************)
(* lifecycle::StateMachine, the life cycle of every block and scheduler.   *)
(* changeStateTo() reads the state, validates the transition, stores the   *)
(* new state and only then runs the hook of the transition, which may      *)
(* throw.  The state is atomic, the sequence is not: several threads (the  *)
(* worker of a block, the scheduler, a message handler) may be between the *)
(* read and the store at the same time.                                    *)
(***************************************************************************)
EXTENDS Naturals, FiniteSets

CONSTANTS
    Callers,            \* threads that change the state of one object
    MaxCalls            \* bound: calls to changeStateTo per thread

States == {"IDLE", "INITIALISED", "RUNNING", "REQUESTED_PAUSE", "PAUSED",
           "REQUESTED_STOP", "STOPPED", "ERROR"}
Hooks  == {"init", "start", "stop", "pause", "resume", "reset"}

VARIABLES
    state,          \* _state
    lastHook,       \* the hook that ran last, "none" before the first
    pc, seen, target,   \* per caller: position, oldState, newState
    result,         \* per caller: how its last call ended
    calls           \* per caller: calls made

vars == <<state, lastHook, pc, seen, target, result, calls>>

isActive(s) == s \in {"RUNNING", "REQUESTED_PAUSE", "PAUSED"}
isShuttingDown(s) == s \in {"REQUESTED_STOP", "STOPPED"}

Successors(from) ==
    CASE from = "IDLE"            -> {"INITIALISED", "REQUESTED_STOP", "STOPPED"}
      [] from = "INITIALISED"     -> {"RUNNING", "REQUESTED_STOP", "STOPPED"}
      [] from = "RUNNING"         -> {"REQUESTED_PAUSE", "REQUESTED_STOP"}
      [] from = "REQUESTED_PAUSE" -> {"PAUSED"}
      [] from = "PAUSED"          -> {"RUNNING", "REQUESTED_STOP"}
      [] from = "REQUESTED_STOP"  -> {"STOPPED"}
      [] from = "STOPPED"         -> {"INITIALISED"}
      [] from = "ERROR"           -> {"INITIALISED"}

isValidTransition(from, to) == to = "ERROR" \/ from = to \/ to \in Successors(from)

(* Requests that are already satisfied return without doing anything.      *)
Satisfied(from, to) ==
    \/ from = to
    \/ from = "STOPPED" /\ to = "REQUESTED_STOP"
    \/ from = "PAUSED" /\ to = "REQUESTED_PAUSE"

(* Faulty: reset() runs after an error only.                               *)
HookOfResetAfterError(from, to) ==
    IF from = "IDLE" /\ to = "INITIALISED" THEN "init"
    ELSE IF from = "INITIALISED" /\ to = "RUNNING" THEN "start"
    ELSE IF to = "REQUESTED_STOP" THEN "stop"
    ELSE IF to = "REQUESTED_PAUSE" THEN "pause"
    ELSE IF from \in {"REQUESTED_PAUSE", "PAUSED"} /\ to = "RUNNING" THEN "resume"
    ELSE IF from = "ERROR" /\ to = "INITIALISED" THEN "reset"
    ELSE "none"

(* The hook of a transition, looked up in the order of the code.           *)
HookOf(from, to) ==
    IF from = "IDLE" /\ to = "INITIALISED" THEN "init"
    ELSE IF from = "INITIALISED" /\ to = "RUNNING" THEN "start"
    ELSE IF to = "REQUESTED_STOP" THEN "stop"
    ELSE IF to = "REQUESTED_PAUSE" THEN "pause"
    ELSE IF from \in {"REQUESTED_PAUSE", "PAUSED"} /\ to = "RUNNING" THEN "resume"
    ELSE IF from # "IDLE" /\ to = "INITIALISED" THEN "reset"
    ELSE "none"

Init ==
    /\ state = "IDLE"
    /\ lastHook = "none"
    /\ pc = [c \in Callers |-> "out"]
    /\ seen = [c \in Callers |-> "IDLE"]
    /\ target = [c \in Callers |-> "IDLE"]
    /\ result = [c \in Callers |-> "none"]
    /\ calls = [c \in Callers |-> 0]

Return(c, how) ==
    /\ pc' = [pc EXCEPT ![c] = "out"]
    /\ result' = [result EXCEPT ![c] = how]

(* changeStateTo(to) up to the first read of the state.                    *)
LoadState(c, to) ==
    /\ pc[c] = "out"
    /\ calls[c] < MaxCalls
    /\ calls' = [calls EXCEPT ![c] = @ + 1]
    /\ pc' = [pc EXCEPT ![c] = "validate"]
    /\ seen' = [seen EXCEPT ![c] = state]
    /\ target' = [target EXCEPT ![c] = to]
    /\ UNCHANGED <<state, lastHook, result>>

AlreadyThere(c) ==
    /\ pc[c] = "validate"
    /\ Satisfied(seen[c], target[c])
    /\ Return(c, "ok")
    /\ UNCHANGED <<state, lastHook, seen, target, calls>>

Reject(c) ==
    /\ pc[c] = "validate"
    /\ ~Satisfied(seen[c], target[c])
    /\ ~isValidTransition(seen[c], target[c])
    /\ Return(c, "invalid")
    /\ UNCHANGED <<state, lastHook, seen, target, calls>>

(* setAndNotifyState(newState)                                             *)
SetState(c) ==
    /\ pc[c] = "validate"
    /\ ~Satisfied(seen[c], target[c])
    /\ isValidTransition(seen[c], target[c])
    /\ state' = target[c]
    /\ pc' = [pc EXCEPT ![c] = "hook"]
    /\ UNCHANGED <<lastHook, seen, target, result, calls>>

RunHook(c) ==
    /\ pc[c] = "hook"
    /\ lastHook' = IF HookOf(seen[c], target[c]) = "none" THEN lastHook
                   ELSE HookOf(seen[c], target[c])
    /\ Return(c, "ok")
    /\ UNCHANGED <<state, seen, target, calls>>

(* invokeLifecycleMethod(): an exception puts the object into ERROR.       *)
HookThrows(c) ==
    /\ pc[c] = "hook"
    /\ HookOf(seen[c], target[c]) # "none"
    /\ lastHook' = HookOf(seen[c], target[c])
    /\ state' = "ERROR"
    /\ Return(c, "threw")
    /\ UNCHANGED <<seen, target, calls>>

Next ==
    \E c \in Callers :
        \/ \E to \in States : LoadState(c, to)
        \/ AlreadyThere(c)
        \/ Reject(c)
        \/ SetState(c)
        \/ RunHook(c)
        \/ HookThrows(c)

Spec == Init /\ [][Next]_vars

-----------------------------------------------------------------------------
(* Properties *)

TypeOK ==
    /\ state \in States
    /\ lastHook \in Hooks \cup {"none"}
    /\ pc \in [Callers -> {"out", "validate", "hook"}]
    /\ seen \in [Callers -> States]
    /\ target \in [Callers -> States]
    /\ result \in [Callers -> {"none", "ok", "invalid", "threw"}]
    /\ calls \in [Callers -> 0..MaxCalls]

(***************************************************************************)
(* start() runs only right after init() or reset() (a stopped or failed    *)
(* object is never started again as it is), and resume() only on an object *)
(* whose pause() ran last.                                                 *)
(***************************************************************************)
HooksInOrder ==
    [][ \A c \in Callers :
          pc[c] = "hook" /\ pc'[c] = "out" =>
            /\ HookOf(seen[c], target[c]) = "start" => lastHook \in {"init", "reset"}
            /\ HookOf(seen[c], target[c]) = "resume" => lastHook = "pause" ]_vars

=============================================================================
