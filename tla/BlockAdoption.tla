----------------------------- MODULE BlockAdoption -----------------------------
(***************************************************************************)
(* Which worker runs which block, while messages add, remove, group and    *)
(* ungroup blocks of a running scheduler.  A worker runs the blocks of its *)
(* own local list; the rest of the scheduler talks to it through four      *)
(* shared lists, each under a mutex of its own: the execution order, the   *)
(* blocks it is to adopt, the blocks that moved to another scheduler, and  *)
(* the zombies.  Messages are handled by runner 0 outside its WorkGuard;   *)
(* grouping and ungrouping hold work quiescence, so no worker is inside    *)
(* its WorkGuard then (WorkQuiescence), adding and removing do not.        *)
(*                                                                         *)
(* Grouping a block hands it to a nested scheduler, which runs it at once  *)
(* with workers of its own.                                                *)
(***************************************************************************)
EXTENDS Naturals

CONSTANTS
    Blocks,
    First,          \* the blocks in the graph when the scheduler starts
    NRunners,
    Batch,          \* Batch[b]: the runner b is dealt to at start
    Hash,           \* Hash[b]: the runner that adopts b
    MaxMessages,    \* bound: messages handled
    LateStart       \* messages arrive before every worker has started

Runners == 0 .. NRunners - 1

\* What the constants are; MCScheduler assumes it.
AdoptionConstants ==
    /\ First \subseteq Blocks
    /\ NRunners \in Nat \ {0}
    /\ Batch \in [Blocks -> Runners] /\ Hash \in [Blocks -> Runners]
    /\ MaxMessages \in Nat
    /\ LateStart \in BOOLEAN

VARIABLES
    place,          \* place[b]: no graph yet, this graph, the nested one, removed
    blockState,     \* life-cycle state of each block
    executionOrder, adoptionBlocks, movedBlocks,    \* per runner
    zombieBlocks,
    local,          \* localBlockList of each runner
    pc,             \* where each runner is
    toAdopt,        \* blocks the message handler has yet to hand to a runner
    toBury,         \* a block it has yet to make a zombie
    messages

sharedVars  == <<executionOrder, adoptionBlocks, movedBlocks, zombieBlocks>>
handlerVars == <<toAdopt, toBury, messages>>
blockVars   == <<place, blockState>>
vars == <<blockVars, sharedVars, local, pc, handlerVars>>

Guarded  == {"cleaned", "buried", "adopted", "work"}    \* inside a WorkGuard
Touching == {"adopted", "work"}     \* and using the blocks of the local list

\* All workers at one place: queued in the pool at first, in the end exited.
StartAt(where) ==
    /\ place = [b \in Blocks |-> IF b \in First THEN "graph" ELSE "none"]
    /\ blockState = [b \in Blocks |-> IF b \in First THEN "RUNNING" ELSE "IDLE"]
    /\ executionOrder = [r \in Runners |-> {b \in First : Batch[b] = r}]
    /\ adoptionBlocks = [r \in Runners |-> {}]
    /\ movedBlocks = [r \in Runners |-> {}]
    /\ zombieBlocks = {}
    /\ local = [r \in Runners |-> IF where = "queued" THEN {} ELSE executionOrder[r]]
    /\ pc = [r \in Runners |-> where]
    /\ toAdopt = {} /\ toBury = {}
    /\ messages = 0

Init == StartAt("queued")

-----------------------------------------------------------------------------
(* poolWorker(r) *)

Goto(r, from, to) == pc[r] = from /\ pc' = [pc EXCEPT ![r] = to]

(* A copy of the job list; a worker with nothing to do ends.               *)
StartWorker(r) ==
    /\ Goto(r, "queued", IF executionOrder[r] = {} THEN "exited" ELSE "top")
    /\ local' = [local EXCEPT ![r] = executionOrder[r]]
    /\ UNCHANGED <<blockVars, sharedVars, handlerVars>>

(* Faulty: what was taken out of the local list stays on the moved list.   *)
CleanupRemovedKeepsMoved(r) ==
    /\ local' = [local EXCEPT ![r] = @ \ movedBlocks[r]]
    /\ movedBlocks' = movedBlocks

CleanupRemovedBlocks(r) ==
    /\ local' = [local EXCEPT ![r] = @ \ movedBlocks[r]]
    /\ movedBlocks' = [movedBlocks EXCEPT ![r] = @ \ local[r]]

BeginMaintenance(r) ==
    /\ Goto(r, "top", "cleaned")
    /\ r = 0 => toAdopt = {} /\ toBury = {}
    /\ CleanupRemovedBlocks(r)
    /\ UNCHANGED <<blockVars, executionOrder, adoptionBlocks, zombieBlocks, handlerVars>>

(* Faulty: only a block that never ran counts as stopped.                  *)
DeadIdle(b) == blockState[b] = "IDLE"

(* Zombies of this worker's list go once they have stopped.                *)
Dead(b) == blockState[b] \in {"IDLE", "INITIALISED", "STOPPED", "ERROR"}

Deletable(r) == {b \in zombieBlocks \cap local[r] : Dead(b)}

CleanupZombieBlocks(r) ==
    /\ Goto(r, "cleaned", "buried")
    /\ zombieBlocks' = zombieBlocks \ Deletable(r)
    /\ local' = [local EXCEPT ![r] = @ \ Deletable(r)]
    /\ executionOrder' = [q \in Runners |-> executionOrder[q] \ Deletable(r)]
    /\ UNCHANGED <<blockVars, adoptionBlocks, movedBlocks, handlerVars>>

(* Faulty: the adoption list is copied and not emptied.                    *)
AdoptBlocksCopied(r) ==
    /\ Goto(r, "buried", "adopted")
    /\ executionOrder' = [executionOrder EXCEPT ![r] = @ \cup adoptionBlocks[r]]
    /\ local' = [local EXCEPT ![r] = @ \cup adoptionBlocks[r]]
    /\ UNCHANGED <<blockVars, adoptionBlocks, movedBlocks, zombieBlocks, handlerVars>>

(* Then messages and housekeeping of the local blocks.                     *)
AdoptBlocks(r) ==
    /\ Goto(r, "buried", "adopted")
    /\ executionOrder' = [executionOrder EXCEPT ![r] = @ \cup adoptionBlocks[r]]
    /\ local' = [local EXCEPT ![r] = @ \cup adoptionBlocks[r]]
    /\ adoptionBlocks' = [adoptionBlocks EXCEPT ![r] = {}]
    /\ UNCHANGED <<blockVars, movedBlocks, zombieBlocks, handlerVars>>

EndMaintenance(r) ==
    /\ Goto(r, "adopted", "top")
    /\ UNCHANGED <<blockVars, sharedVars, local, handlerVars>>

(* Faulty: blocks that moved away are not taken out first.                 *)
BeginWorkUncleaned(r) ==
    /\ Goto(r, "top", "work")
    /\ r = 0 => toAdopt = {} /\ toBury = {}
    /\ UNCHANGED <<blockVars, sharedVars, local, handlerVars>>

BeginWork(r) ==
    /\ Goto(r, "top", "work")
    /\ r = 0 => toAdopt = {} /\ toBury = {}
    /\ CleanupRemovedBlocks(r)
    /\ UNCHANGED <<blockVars, executionOrder, adoptionBlocks, zombieBlocks, handlerVars>>

(* A block that was asked to stop does so in its work().                   *)
Work(r) ==
    /\ Goto(r, "work", "top")
    /\ blockState' = [b \in Blocks |->
                        IF b \in local[r] /\ blockState[b] = "REQUESTED_STOP"
                          THEN "STOPPED" ELSE blockState[b]]
    /\ UNCHANGED <<place, sharedVars, local, handlerVars>>

(* traverseBlockListOnce() returned DONE: nothing happened.                *)
FinishWorker(r) ==
    /\ local[r] # {}
    /\ Goto(r, "work", "exited")
    /\ UNCHANGED <<blockVars, sharedVars, local, handlerVars>>

-----------------------------------------------------------------------------
(* Messages, handled one at a time by runner 0 *)

Handling ==
    /\ pc[0] = "top" /\ toAdopt = {} /\ toBury = {}
    /\ messages < MaxMessages
    /\ messages' = messages + 1
    /\ LateStart \/ \A r \in Runners : pc[r] # "queued"

Quiescent == \A r \in Runners : pc[r] \notin Guarded

EmplaceBlock(b) ==
    /\ Handling
    /\ place[b] = "none"
    /\ place' = [place EXCEPT ![b] = "graph"]
    /\ toAdopt' = {b}
    /\ UNCHANGED <<blockState, sharedVars, local, pc, toBury>>

(* adoptBlock(): the state changes under the mutex of the adoption list.   *)
AdoptBlock(b) ==
    /\ b \in toAdopt
    /\ toAdopt' = toAdopt \ {b}
    /\ adoptionBlocks' = [adoptionBlocks EXCEPT ![Hash[b]] = @ \cup {b}]
    /\ blockState' = [blockState EXCEPT ![b] = IF @ \in {"IDLE", "STOPPED"} THEN "RUNNING" ELSE @]
    /\ UNCHANGED <<place, executionOrder, movedBlocks, zombieBlocks, local, pc, toBury, messages>>

(* removeBlockByName(), and makeZombie() up to the block's state.          *)
RemoveBlock(b) ==
    /\ Handling
    /\ place[b] = "graph"
    /\ place' = [place EXCEPT ![b] = "removed"]
    /\ blockState' = [blockState EXCEPT ![b] = IF @ = "RUNNING" THEN "REQUESTED_STOP" ELSE @]
    /\ toBury' = {b}
    /\ UNCHANGED <<sharedVars, local, pc, toAdopt>>

(* Graph::replaceBlock() and makeZombie() for the old block: the new one   *)
(* takes its place in the graph.  No list is told of it.                   *)
ReplaceBlock(b, c) ==
    /\ Handling
    /\ place[b] = "graph" /\ place[c] = "none"
    /\ place' = [place EXCEPT ![b] = "removed", ![c] = "graph"]
    /\ blockState' = [blockState EXCEPT ![b] = IF @ = "RUNNING" THEN "REQUESTED_STOP" ELSE @]
    /\ toBury' = {b}
    /\ UNCHANGED <<sharedVars, local, pc, toAdopt>>

(* A block nobody has adopted yet is only taken off its adoption list.     *)
MakeZombie(b) ==
    /\ b \in toBury
    /\ toBury' = {}
    /\ adoptionBlocks' = [r \in Runners |-> adoptionBlocks[r] \ {b}]
    /\ zombieBlocks' = IF \E r \in Runners : b \in adoptionBlocks[r]
                         THEN zombieBlocks ELSE zombieBlocks \cup {b}
    /\ UNCHANGED <<blockVars, executionOrder, movedBlocks, local, pc, toAdopt, messages>>

(* groupBlocks() into a nested scheduler, and removeBlocksWhileRunning().  *)
GroupBlock(b) ==
    /\ Handling /\ Quiescent
    /\ place[b] = "graph"
    /\ place' = [place EXCEPT ![b] = "nested"]
    /\ LET waiting == \E r \in Runners : b \in adoptionBlocks[r]
           owners  == {r \in Runners : ~waiting /\ b \in executionOrder[r]}
       IN  /\ adoptionBlocks' = [r \in Runners |-> adoptionBlocks[r] \ {b}]
           /\ executionOrder' = [r \in Runners |->
                IF r \in owners THEN executionOrder[r] \ {b} ELSE executionOrder[r]]
           /\ movedBlocks' = [r \in Runners |->
                IF r \in owners THEN movedBlocks[r] \cup {b} ELSE movedBlocks[r]]
    /\ UNCHANGED <<blockState, zombieBlocks, local, pc, toAdopt, toBury>>

(* ungroupBlocks(): the nested scheduler lets go of the block, which is    *)
(* adopted without a change of its state.                                  *)
UngroupBlock(b) ==
    /\ Handling /\ Quiescent
    /\ place[b] = "nested"
    /\ place' = [place EXCEPT ![b] = "graph"]
    /\ toAdopt' = {b}
    /\ UNCHANGED <<blockState, sharedVars, local, pc, toBury>>

-----------------------------------------------------------------------------
Maintaining(r) ==
    BeginMaintenance(r) \/ CleanupZombieBlocks(r) \/ AdoptBlocks(r) \/ EndMaintenance(r)

Working(r) == BeginWork(r) \/ Work(r) \/ FinishWorker(r)

Message(b) ==
    \/ EmplaceBlock(b) \/ RemoveBlock(b) \/ GroupBlock(b) \/ UngroupBlock(b)
    \/ \E c \in Blocks : ReplaceBlock(b, c)

Next ==
    \/ \E r \in Runners : StartWorker(r) \/ Maintaining(r) \/ Working(r)
    \/ \E b \in Blocks : Message(b) \/ AdoptBlock(b) \/ MakeZombie(b)

Spec == Init /\ [][Next]_vars

(* A worker keeps running, and does maintenance and work again and again   *)
(* (process_stream_to_message_ratio); a handler finishes what it began.    *)
Fairness ==
    /\ \A r \in Runners :
        /\ WF_vars(StartWorker(r))
        /\ SF_vars(BeginMaintenance(r)) /\ SF_vars(BeginWork(r))
        /\ WF_vars(CleanupZombieBlocks(r) \/ AdoptBlocks(r) \/ EndMaintenance(r))
        /\ WF_vars(Work(r) \/ FinishWorker(r))
    /\ WF_vars(\E b \in Blocks : AdoptBlock(b) \/ MakeZombie(b))

FairSpec == Spec /\ Fairness

-----------------------------------------------------------------------------
(* Properties *)

TypeOK ==
    /\ place \in [Blocks -> {"none", "graph", "nested", "removed"}]
    /\ blockState \in [Blocks -> {"IDLE", "RUNNING", "REQUESTED_STOP", "STOPPED"}]
    /\ executionOrder \in [Runners -> SUBSET Blocks]
    /\ adoptionBlocks \in [Runners -> SUBSET Blocks]
    /\ movedBlocks \in [Runners -> SUBSET Blocks]
    /\ zombieBlocks \subseteq Blocks
    /\ local \in [Runners -> SUBSET Blocks]
    /\ pc \in [Runners -> {"queued", "top", "exited"} \cup Guarded]
    /\ toAdopt \subseteq Blocks /\ toBury \subseteq Blocks
    /\ messages \in 0 .. MaxMessages

Using(b) == {r \in Runners : pc[r] \in Touching /\ b \in local[r]}

(***************************************************************************)
(* A block is never used by two workers at once, and never by a worker of  *)
(* this scheduler once it has moved to another: blocks on the moved list   *)
(* "are guaranteed to never be referenced/worked on by their worker thread *)
(* again" (Scheduler.hpp:208), not even when they come back to another     *)
(* runner before the first one has noticed.                                *)
(***************************************************************************)
OneUser ==
    \A b \in Blocks :
        /\ \A r, q \in Using(b) : r = q
        /\ place[b] = "nested" => Using(b) = {}

(* b is in the hands of a worker, or on its way there.                     *)
Served(b) ==
    \/ b \in toAdopt
    \/ \E r \in Runners :
        \/ b \in adoptionBlocks[r]
        \/ b \in (IF pc[r] = "queued" THEN executionOrder[r] ELSE local[r]) \ movedBlocks[r]

(***************************************************************************)
(* No block of the graph is forgotten: each one that is RUNNING is in the  *)
(* list of a worker that will run it, or on its way into one, across any   *)
(* sequence of adding, grouping and ungrouping.                            *)
(***************************************************************************)
NoBlockForgotten ==
    \A b \in Blocks : place[b] = "graph" /\ blockState[b] = "RUNNING" => Served(b)

(***************************************************************************)
(* "Blocks that were added while scheduler was running ... need to be      *)
(* adopted by a thread" (Scheduler.hpp:217): every block of the graph is   *)
(* in the hands of a worker, or on its way there, whichever message put it *)
(* into the graph.                                                         *)
(***************************************************************************)
EveryBlockServed == \A b \in Blocks : place[b] = "graph" => Served(b)

NoneExited == \A r \in Runners : pc[r] # "exited"

Waiting(b) == \E r \in Runners : b \in adoptionBlocks[r]

(***************************************************************************)
(* "Blocks that were added while scheduler was running ... need to be      *)
(* adopted by a thread" (Scheduler.hpp:217), and are, unless a worker has  *)
(* left because its blocks had nothing left to do.                         *)
(***************************************************************************)
AddedIsAdopted == \A b \in Blocks : Waiting(b) ~> ~Waiting(b) \/ ~NoneExited

Adopted(b) == \E r \in Runners : b \in executionOrder[r]

(***************************************************************************)
(* A removed block that had a worker is stopped and deleted in the end, as *)
(* long as every worker is there.                                          *)
(***************************************************************************)
ZombiesAreDeleted ==
    \A b \in Blocks :
        b \in zombieBlocks /\ Adopted(b) ~> b \notin zombieBlocks \/ ~NoneExited
=============================================================================
