-------------------------- MODULE ReaderWriterLock --------------------------
(***************************************************************************)
(* reader_writer_lock.hpp: a counter that readers raise and writers lower, *)
(* taken with compare-and-exchange from a value that is never on the other *)
(* side of zero.  Several readers hold it together, and so do several      *)
(* writers.                                                                *)
(***************************************************************************)
EXTENDS Integers, FiniteSets

CONSTANT Threads

Kinds == {"READ", "WRITE"}

VARIABLES
    count,     \* _activeReaderCount
    held,      \* held[t]: the lock that thread t holds, or "none"
    at,        \* at[t]: "out", or in "lock" or "tryLock" before the exchange
    kind,      \* kind[t]: the lock asked for
    expected   \* expected[t]: the value to exchange

vars == <<count, held, at, kind, expected>>

Step(k) == IF k = "READ" THEN 1 ELSE -1

\* Faulty: a reader starts from any value.
FreeOfOtherForWriters(k, n) == IF k = "WRITE" /\ n > 0 THEN 0 ELSE n

\* The value expected by a thread that has seen n: zero when n is of the other kind.
FreeOfOther(k, n) == IF (k = "READ" /\ n < 0) \/ (k = "WRITE" /\ n > 0) THEN 0 ELSE n

Init ==
    /\ count = 0
    /\ held = [t \in Threads |-> "none"]
    /\ at = [t \in Threads |-> "out"]
    /\ kind = [t \in Threads |-> "READ"]
    /\ expected = [t \in Threads |-> 0]

\* lock() and tryLock() up to the first look at the counter
Load(t, k, call) ==
    /\ at[t] = "out" /\ held[t] = "none"
    /\ at' = [at EXCEPT ![t] = call]
    /\ kind' = [kind EXCEPT ![t] = k]
    /\ expected' = [expected EXCEPT ![t] = FreeOfOther(k, count)]
    /\ UNCHANGED <<count, held>>

Exchange(t) ==
    /\ at[t] # "out" /\ count = expected[t]
    /\ count' = expected[t] + Step(kind[t])
    /\ held' = [held EXCEPT ![t] = kind[t]]
    /\ at' = [at EXCEPT ![t] = "out"]
    /\ UNCHANGED <<kind, expected>>

\* An exchange that fails brings the value it found: lock() tries again with
\* it, tryLock() gives up.
ExchangeFails(t) ==
    /\ at[t] # "out" /\ count # expected[t]
    /\ at' = IF at[t] = "tryLock" THEN [at EXCEPT ![t] = "out"] ELSE at
    /\ expected' = [expected EXCEPT ![t] = FreeOfOther(kind[t], count)]
    /\ UNCHANGED <<count, held, kind>>

Unlock(t) ==
    /\ at[t] = "out" /\ held[t] # "none"
    /\ count' = count - Step(held[t])
    /\ held' = [held EXCEPT ![t] = "none"]
    /\ UNCHANGED <<at, kind, expected>>

Next ==
    \E t \in Threads :
        \/ \E k \in Kinds : \E call \in {"lock", "tryLock"} : Load(t, k, call)
        \/ Exchange(t) \/ ExchangeFails(t) \/ Unlock(t)

Spec == Init /\ [][Next]_vars

-----------------------------------------------------------------------------
(* Properties *)

Holding(k) == {t \in Threads : held[t] = k}

\* However the exchanges of several threads interleave, no thread reads while
\* another writes, and the counter is zero exactly when nobody holds the lock,
\* so that it can be taken by either side.
ReadersExcludeWriters ==
    /\ Holding("READ") = {} \/ Holding("WRITE") = {}
    /\ count = 0 <=> Holding("READ") \cup Holding("WRITE") = {}
=============================================================================
