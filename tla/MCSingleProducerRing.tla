------------------------ MODULE MCSingleProducerRing ------------------------
(***************************************************************************)
(* The ring of one writer in both kinds of memory, for TLC: mapped twice,  *)
(* and plain memory whose second half is written by hand and whose slots   *)
(* are reclaimed once all readers have released them.  They share nothing; *)
(* a behaviour is one of the ring that it picks.                           *)
(***************************************************************************)
EXTENDS SingleProducerRing

CONSTANTS PlainReaders, PlainSize, PlainCursor, PlainSpans

VARIABLES
    memory,     \* the ring that has its steps: "mapped" or "plain"
    plain_publishCursor, plain_reserveCursor, plain_readSequences, plain_generation,
    plain_cachedGeneration, plain_cachedReaders, plain_cachedMinReader, plain_data,
    plain_wpc, plain_wphase, plain_wneed, plain_wblocking, plain_wgen, plain_wlist,
    plain_wtoScan, plain_wmin, plain_offset, plain_span, plain_rpc, plain_readIndex,
    plain_readIndexCached, plain_firstGet, plain_consumeReq, plain_spans

Plain == INSTANCE SingleProducerRing WITH
    Readers <- PlainReaders, Size <- PlainSize, MaxCursor <- PlainCursor,
    MaxSpans <- PlainSpans, Clearable <- TRUE, DoubleMapped <- FALSE,
    publishCursor <- plain_publishCursor, reserveCursor <- plain_reserveCursor,
    readSequences <- plain_readSequences, generation <- plain_generation,
    cachedGeneration <- plain_cachedGeneration, cachedReaders <- plain_cachedReaders,
    cachedMinReader <- plain_cachedMinReader, data <- plain_data, wpc <- plain_wpc,
    wphase <- plain_wphase, wneed <- plain_wneed, wblocking <- plain_wblocking,
    wgen <- plain_wgen, wlist <- plain_wlist, wtoScan <- plain_wtoScan,
    wmin <- plain_wmin, offset <- plain_offset, span <- plain_span, rpc <- plain_rpc,
    readIndex <- plain_readIndex, readIndexCached <- plain_readIndexCached,
    firstGet <- plain_firstGet, consumeReq <- plain_consumeReq, spans <- plain_spans

plainVars == <<
    plain_publishCursor, plain_reserveCursor, plain_readSequences, plain_generation,
    plain_cachedGeneration, plain_cachedReaders, plain_cachedMinReader, plain_data,
    plain_wpc, plain_wphase, plain_wneed, plain_wblocking, plain_wgen, plain_wlist,
    plain_wtoScan, plain_wmin, plain_offset, plain_span, plain_rpc, plain_readIndex,
    plain_readIndexCached, plain_firstGet, plain_consumeReq, plain_spans>>
allVars == <<memory, vars, plainVars>>

RingsInit == memory \in {"mapped", "plain"} /\ Init /\ Plain!Init

Only(m) ==
    /\ memory = m /\ memory' = m
    /\ m # "mapped" => UNCHANGED vars
    /\ m # "plain" => UNCHANGED plainVars

RingsNext ==
    \/ Only("mapped") /\ Next
    \/ Only("plain") /\ Plain!Next

\* The ring that takes no steps stays in its initial state, where it has none
\* that is bound to be taken: its fairness does not disturb the other.
RingsSpec == RingsInit /\ [][RingsNext]_allVars /\ Fairness

\* No unread sample is replaced by another, in either kind of memory: what the
\* writer copies into the mirrored half and what is reclaimed are done right.
SamplesKept == UnreadNeverOverwritten /\ Plain!UnreadNeverOverwritten
=============================================================================
