------------------------------ MODULE MCBuffers ------------------------------
(***************************************************************************)
(* Three buffers checked in one run since they share nothing: the ring of  *)
(* several writers, and two that keep their memory themselves, the chunk   *)
(* buffer and the history buffer.  A behaviour is one of the buffer that   *)
(* it picks.                                                               *)
(***************************************************************************)
EXTENDS MultiProducerRing

CONSTANTS
    ChunkReaders, Capacity, Fit, MaxChunks, KeepResident, MaxStores,    \* ChunkBuffer
    Values, Zero, Capacities, FirstCapacity, Rounded                    \* HistoryBuffer

VARIABLES
    part,
    pub, read, desc, blobs, slots, memory, head, headOffset, headLastWritten, sealed,
    free, resident, guard, wpc, blob, hpc, depth, unread, minPos, stores,
    buffer, capacity, writePosition, size, dirty, history

Chunks == INSTANCE ChunkBuffer WITH Readers <- ChunkReaders, span <- blobs
History == INSTANCE HistoryBuffer

ASSUME ChunkAssumption == Chunks!ChunkConstants
ASSUME HistoryAssumption == History!HistoryConstants

chunkVars   == <<pub, read, desc, blobs, slots, memory, head, headOffset, headLastWritten, sealed,
                 free, resident, guard, wpc, blob, hpc, depth, unread, minPos, stores>>
historyVars == <<buffer, capacity, writePosition, size, dirty, history>>
allVars     == <<part, vars, chunkVars, historyVars>>

BuffersInit ==
    /\ part \in {"ring", "chunks", "history"}
    /\ Init /\ Chunks!Init /\ History!Init

Only(p) ==
    /\ part = p /\ part' = p
    /\ p # "ring" => UNCHANGED vars
    /\ p # "chunks" => UNCHANGED chunkVars
    /\ p # "history" => UNCHANGED historyVars

BuffersNext ==
    \/ Only("ring") /\ Next
    \/ Only("chunks") /\ Chunks!Next
    \/ Only("history") /\ History!Next

\* In its initial state the ring has no step that is bound to be taken, so its
\* fairness does not disturb the behaviours of the others.
BuffersSpec == BuffersInit /\ [][BuffersNext]_allVars /\ Fairness

\* The blobs of a chunk buffer stay where they are (ChunkBuffer).
BlobIntact == Chunks!BlobIntact
\* The spans of a history buffer hold what was pushed (HistoryBuffer).
SpansHoldHistory == History!SpansHoldHistory
=============================================================================
