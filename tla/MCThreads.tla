------------------------------ MODULE MCThreads ------------------------------
(***************************************************************************)
(* The thread pool, the timer task that a block runs in one, with the      *)
(* block's life cycle, and the reader-writer lock, checked in one run      *)
(* since they share nothing: a behaviour is one of the part that it picks, *)
(* and in the other parts nothing ever happens.                            *)
(***************************************************************************)
EXTENDS ThreadPool, Integers

CONSTANTS
    Owner, MaxCalls,    \* BlockingSync and its LifeCycle
    Holders             \* ReaderWriterLock

ASSUME PartsAssumption == IsFiniteSet(Holders)

VARIABLES
    part,
    state, lastHook, lifePc, seen, target, result, calls,
    timerRunning, timerDone, timers, hookPc, hasRate, wakes, left,
    count, held, at, kind, expected

Sync == INSTANCE BlockingSync WITH owner <- Owner, Callers <- {Owner}, pc <- lifePc
Lock == INSTANCE ReaderWriterLock WITH Threads <- Holders

syncVars == <<state, lastHook, lifePc, seen, target, result, calls,
              timerRunning, timerDone, timers, hookPc, hasRate, wakes, left>>
lockVars == <<count, held, at, kind, expected>>
allVars  == <<part, vars, syncVars, lockVars>>

\* A pool without threads does nothing.
PartsInit ==
    /\ part \in {"pool", "sync", "lock"}
    /\ IF part = "pool" THEN Init ELSE InitWith(0)
    /\ Sync!SyncInit /\ Lock!Init

Only(p) ==
    /\ part = p /\ part' = p
    /\ p # "pool" => UNCHANGED vars
    /\ p # "sync" => UNCHANGED syncVars
    /\ p # "lock" => UNCHANGED lockVars

PartsNext ==
    \/ Only("pool") /\ Next
    \/ Only("sync") /\ Sync!SyncNext
    \/ Only("lock") /\ Lock!Next

\* In its initial state no part has a step that is bound to be taken, so the
\* fairness of one does not disturb the behaviours of another.
PartsSpec == PartsInit /\ [][PartsNext]_allVars /\ Fairness /\ Sync!SyncFairness

\* The hooks of a block come in order (LifeCycle).
HooksInOrder == Sync!HooksInOrder
\* The stop() hook leaves no timer task behind (BlockingSync).
StopEndsTimer == Sync!StopEndsTimer
\* A running block is woken (BlockingSync).
RunningIsWoken == Sync!RunningIsWoken
\* Readers and writers exclude each other (ReaderWriterLock).
ReadersExcludeWriters == Lock!ReadersExcludeWriters
=============================================================================
