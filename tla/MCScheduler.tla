----------------------------- MODULE MCScheduler -----------------------------
(***************************************************************************)
(* Three protocols of the scheduler that share nothing, checked in one     *)
(* run: work quiescence (WorkQuiescence), for a parent scheduler with a    *)
(* nested one, the runs of a single scheduler (SchedulerRun), and the      *)
(* hand-over of blocks between its workers (BlockAdoption).  A behaviour   *)
(* is one of the protocol that it picks; in the others nothing happens.    *)
(***************************************************************************)
EXTENDS WorkQuiescence

CONSTANTS
    parent, child, p1, p2, c1, handler, childHandler,
    MaxRunners, Ratio, MaxJobs, MaxControls,                            \* SchedulerRun
    Blocks, First, NRunners, Batch, Hash, MaxMessages, LateStart,       \* BlockAdoption
    b1, b2, b3

Nested  == [s \in Schedulers |-> IF s = parent THEN {child} ELSE {}]
AtHome  == [w \in Workers |-> IF w = c1 THEN child ELSE parent]
Handles == [q \in Requesters |-> IF q = handler THEN parent ELSE child]

\* b1 and b2 start on one runner each; b1 comes back to the other runner.
Dealt  == [b \in Blocks |-> IF b = b1 THEN 0 ELSE 1]
Hashed == [b \in Blocks |-> IF b = b3 THEN 0 ELSE 1]

VARIABLES
    part,
    setup, runState, nRunningJobs, job, activeState, kept, client, nextRunner, control, runs, controls,
    place, blockState, executionOrder, adoptionBlocks, movedBlocks, zombieBlocks, local, pc,
    toAdopt, toBury, messages

Run == INSTANCE SchedulerRun WITH state <- runState
Adoption == INSTANCE BlockAdoption

ASSUME AdoptionAssumption == Adoption!AdoptionConstants
ASSUME RunAssumption == MaxRunners \in Nat \ {0} /\ MaxJobs \in Nat

runVars == <<setup, runState, nRunningJobs, job, activeState, kept, client, nextRunner,
             control, runs, controls>>
adoptionVars == <<place, blockState, executionOrder, adoptionBlocks, movedBlocks, zombieBlocks,
                  local, pc, toAdopt, toBury, messages>>
allVars == <<part, vars, runVars, adoptionVars>>

\* Workers that have left do nothing any more.
PartsInit ==
    /\ part \in {"quiescence", "run", "adoption"}
    /\ Init /\ Run!Init
    /\ part # "run" => setup = CHOOSE s \in Run!Setups : TRUE
    /\ IF part = "adoption" THEN Adoption!Init ELSE Adoption!StartAt("exited")

Only(p) ==
    /\ part = p /\ part' = p
    /\ p # "quiescence" => UNCHANGED vars
    /\ p # "run" => UNCHANGED runVars
    /\ p # "adoption" => UNCHANGED adoptionVars

PartsNext ==
    \/ Only("quiescence") /\ Next
    \/ Only("run") /\ Run!Next
    \/ Only("adoption") /\ Adoption!Next

\* In its initial state no other protocol has a step that is bound to be taken,
\* so the fairness of one does not disturb the behaviours of another.
PartsSpec == PartsInit /\ [][PartsNext]_allVars /\ Fairness /\ Run!Fairness /\ Adoption!Fairness

\* A sole worker has left when runAndWait() returns (SchedulerRun).
SoleWorkerHasLeft == Run!SoleWorkerHasLeft
\* A stopped or failed scheduler loses its workers (SchedulerRun).
StopEndsWorkers == Run!StopEndsWorkers
\* A block has at most one user (BlockAdoption).
OneUser == Adoption!OneUser
\* Every running block of the graph has a worker (BlockAdoption).
NoBlockForgotten == Adoption!NoBlockForgotten
\* A block that waits for a worker is adopted (BlockAdoption).
AddedIsAdopted == Adoption!AddedIsAdopted
\* A removed block is deleted (BlockAdoption).
ZombiesAreDeleted == Adoption!ZombiesAreDeleted
=============================================================================
