----------------------------- MODULE BlockWork -----------------------------
(***************************************************************************)
(* The work loop of a block with one synchronous input and one synchronous *)
(* output that implements processBulk(): Block::workInternal() and what it *)
(* calls (core/include/gnuradio-4.0/Block.hpp).                            *)
(*                                                                         *)
(* Every call of work() decides how many input samples make the next chunk *)
(* (minimum and maximum of the ports, resampling ratio, stride, requested  *)
(* work, tags, end of stream), hands the chunk to processBulk(), and       *)
(* publishes, consumes and forwards tags as its result says.  The block    *)
(* upstream runs on another thread: it publishes tags first and the        *)
(* samples they belong to afterwards, so the two looks of work(), at the   *)
(* available samples and then at the tags, see different moments.          *)
(*                                                                         *)
(* Samples are numbered from 0 in the input stream; a tag is the number of *)
(* the sample it belongs to.                                               *)
(***************************************************************************)
EXTENDS Integers, Sequences, FiniteSets, FiniteSetsExt, Functions

CONSTANTS
    Configs,      \* settings of the block and limits of its ports, see Config
    Length,       \* bound: samples the block upstream can publish
    MaxTags,      \* bound: tags the block upstream can publish
    OutCapacity,  \* capacity of the output buffer
    Unlimited,    \* gr::undefined_size, larger than any number of samples
    MaxRefusals,  \* bound: calls of processBulk() that consume nothing
    Stoppable     \* whether other threads may ask the block to stop

Policies == {"default", "forward", "backward"}

Config == [inChunk : Nat \ {0}, outChunk : Nat \ {0}, stride : Nat,
           minIn : Nat, maxIn : Nat, minOut : Nat, maxOut : Nat,
           policy : Policies]

\* checkBlockParameterConsistency(): the chunks are within the limits of the
\* ports; and the output buffer has room for a chunk.
Consistent(c) ==
    /\ c.minIn <= c.maxIn /\ c.inChunk <= c.maxIn
    /\ c.minOut <= c.maxOut /\ c.outChunk <= c.maxOut
    /\ c.outChunk <= OutCapacity /\ c.minOut <= OutCapacity

ASSUME ConfigsAssumption ==
    /\ Configs \subseteq Config
    /\ \A c \in Configs : Consistent(c)
    /\ {Length, MaxTags, OutCapacity, MaxRefusals} \subseteq Nat
    /\ Unlimited \in Nat /\ Unlimited > 2 * (Length + OutCapacity)
    /\ Stoppable \in BOOLEAN

VARIABLES
    cfg,            \* the configuration of this block
    written,        \* samples published by the block upstream
    tagged,         \* the tags it has published
    eosAt,          \* index of its end-of-stream tag, or Unlimited
    pos,            \* position of the stream reader of the input port
    tags,           \* tags that the tag reader has not consumed
    strideCounter,  \* input samples still to skip before the next chunk
    state,          \* life-cycle state of the block
    pc,             \* where work() is: "idle", "limits" or "process"
    avail,          \* cached samples available at the input
    room,           \* cached room at the output
    skipped,        \* samples skipped before the chunk
    chunk,          \* sizes of the spans handed to processBulk()
    inFlight,       \* published output samples that nobody has consumed
    eosOut,         \* whether the end-of-stream tag is on the output
    outTags,        \* input tags forwarded, in the order of the output
    \* history
    asked,          \* the block was asked to stop, or said it was done
    refusals,       \* calls of processBulk() that consumed nothing
    gap,            \* samples between the last chunk and the next one due
    unforwarded,    \* tags consumed in a skip or with a chunk without output
    repeated        \* tags forwarded while their sample was not consumed

input   == <<written, tagged, eosAt>>
history == <<asked, refusals, gap, unforwarded, repeated>>
vars == <<cfg, input, pos, tags, strideCounter, state, pc, avail, room, skipped, chunk,
          inFlight, eosOut, outTags, history>>

NoChunk == [in |-> 0, out |-> 0]
NoRequest == -1
NoGap   == [from |-> 0, to |-> -1]   \* no start of a next chunk is due

\* work::Status; ERROR and the two INSUFFICIENT ones have the same effect here.
Statuses == {"OK", "INSUFFICIENT", "DONE"}

TypeOK ==
    /\ cfg \in Configs
    /\ written \in 0 .. Length /\ pos \in 0 .. written
    /\ tagged \subseteq 0 .. Length - 1 /\ tags \subseteq tagged
    /\ eosAt \in 0 .. Length \cup {Unlimited}
    /\ strideCounter \in 0 .. cfg.stride
    /\ state \in {"RUNNING", "REQUESTED_STOP", "STOPPED"}
    /\ pc \in {"idle", "limits", "process"}
    /\ avail \in 0 .. Length /\ room \in 0 .. OutCapacity
    /\ skipped \in 0 .. cfg.stride
    /\ chunk \in [in : 0 .. Length, out : 0 .. OutCapacity]
    /\ inFlight \in 0 .. OutCapacity
    /\ eosOut \in BOOLEAN /\ asked \in BOOLEAN
    /\ outTags \in Seq(tagged)
    /\ refusals \in 0 .. MaxRefusals
    /\ gap \in [from : 0 .. Length, to : -1 .. Length + cfg.stride]
    /\ unforwarded \subseteq tagged /\ repeated \subseteq tagged

Init ==
    /\ cfg \in Configs
    /\ written = 0 /\ tagged = {} /\ eosAt = Unlimited
    /\ pos = 0 /\ tags = {}
    /\ strideCounter = 0
    /\ state = "RUNNING" /\ pc = "idle"
    /\ avail = 0 /\ room = 0 /\ skipped = 0 /\ chunk = NoChunk
    /\ inFlight = 0 /\ eosOut = FALSE /\ outTags = <<>>
    /\ asked = FALSE /\ refusals = 0 /\ gap = NoGap
    /\ unforwarded = {} /\ repeated = {}

-----------------------------------------------------------------------------
(***************************************************************************)
(* How many samples the next chunk has                                     *)
(***************************************************************************)

\* Distance to the nearest of the given tags that is at least offset ahead.
UntilTag(S, offset) ==
    LET ahead == {t \in S : t >= pos + offset}
    IN  IF ahead = {} THEN Unlimited ELSE Min(ahead) - pos

EndTags == IF eosAt = Unlimited THEN {} ELSE {eosAt}

\* Faulty: a tag at the first sample ends the chunk.
NextTagFromFirstSample ==
    IF cfg.policy = "forward" THEN Unlimited ELSE UntilTag(tags \cup EndTags, 0)

\* The tag at the first sample belongs to this chunk; the next one limits it.
\* A block that carries tags forward does not break its chunks at tags.
NextTag ==
    IF cfg.policy = "forward" THEN Unlimited ELSE UntilTag(tags \cup EndTags, 1)

NextEos == UntilTag(EndTags, 0)

StrideActive == cfg.stride # 0 /\ cfg.stride # cfg.inChunk

\* inputSamplesToSkipBeforeNextChunk()
ToSkip(available) ==
    IF StrideActive THEN Min({strideCounter, available}) ELSE 0

Monus(a, b) == IF a > b THEN a - b ELSE 0
Clamp(x, lo, hi) == Max({lo, Min({x, hi})})

\* computeResampling(): input and output samples of the next call, or neither.
Resampled(minIn, maxIn, minOut, maxOut, requested) ==
    LET perIn  == cfg.inChunk
        perOut == cfg.outChunk
        fits   == Min({maxIn \div perIn, maxOut \div perOut})
        most   == IF StrideActive THEN Min({fits, 1}) ELSE fits
        fewer  == Min({Clamp(requested, Max({minIn, perIn}), maxIn) \div perIn,
                       maxOut \div perOut})
        Enough(n) == n * perIn >= minIn /\ n * perOut >= minOut
        Chunks(n) == [in |-> n * perIn, out |-> n * perOut]
    IN  IF perIn = 1 /\ perOut = 1
        THEN LET maxSync == Min({maxIn, maxOut})
                 minSync == Max({minIn, minOut})
                 n == Clamp(requested, minSync, maxSync)
             IN  IF maxSync < minSync THEN NoChunk ELSE [in |-> n, out |-> n]
        ELSE CASE ~Enough(most) -> NoChunk
               [] Enough(most) /\ requested < most * perIn /\ Enough(fewer) -> Chunks(fewer)
               [] OTHER -> Chunks(most)

\* Faulty: a tag limits the chunk below what the port requires.
TagLimitBelowMinimum(untilTag) == untilTag

\* nextTagLimit: a tag so near that the port requires more is passed over.
TagLimit(untilTag) == IF untilTag >= cfg.minIn THEN untilTag ELSE Unlimited

\* isEosPresent: the samples until the end of the stream make no chunk.
NoChunkUntil(untilEos) ==
    \/ NextEos = 0
    \/ untilEos < cfg.minIn
    \/ untilEos < cfg.inChunk
    \/ cfg.outChunk * (untilEos \div cfg.inChunk) < cfg.minOut

\* computeSampleLimits(): samples to skip, the chunk, and whether the stream
\* ends before another chunk is complete.
Limits(requested) ==
    LET skip      == ToSkip(Min({avail, NextTag, NextEos}))
        untilTag  == Monus(NextTag, skip)
        untilEos  == Monus(NextEos, skip)
        toProcess == Min({cfg.maxIn, Monus(avail, skip),
                          Max({TagLimit(untilTag), cfg.inChunk}), untilEos})
    IN  [skip  |-> skip,
         chunk |-> Resampled(Min({cfg.minIn, NextEos}), toProcess,
                             cfg.minOut, Min({cfg.maxOut, room}), requested),
         eos   |-> NoChunkUntil(untilEos)]

-----------------------------------------------------------------------------
(***************************************************************************)
(* The neighbours                                                          *)
(***************************************************************************)

\* The block upstream publishes a tag of a sample it is about to publish.
PublishTag(t) ==
    /\ eosAt = Unlimited
    /\ Cardinality(tagged) < MaxTags
    /\ t >= written /\ \A u \in tagged : u < t
    /\ tagged' = tagged \cup {t}
    /\ tags' = tags \cup {t}
    /\ UNCHANGED <<cfg, written, eosAt, pos, strideCounter, state, pc, avail,
                   room, skipped, chunk, inFlight, eosOut, outTags, history>>

\* Its end-of-stream tag follows the last sample it is about to publish.
PublishEnd(e) ==
    /\ eosAt = Unlimited
    /\ e >= written /\ \A u \in tagged : u < e
    /\ eosAt' = e
    /\ UNCHANGED <<cfg, written, tagged, pos, tags, strideCounter, state, pc,
                   avail, room, skipped, chunk, inFlight, eosOut, outTags, history>>

\* Then it publishes the samples of that call of its work().
PublishSamples(upTo) ==
    /\ upTo > written
    /\ \A t \in tagged : t < upTo
    /\ eosAt # Unlimited => upTo = eosAt
    /\ written' = upTo
    /\ UNCHANGED <<cfg, tagged, eosAt, pos, tags, strideCounter, state, pc,
                   avail, room, skipped, chunk, inFlight, eosOut, outTags, history>>

\* The block downstream consumes all there is.
Drain ==
    /\ inFlight > 0
    /\ inFlight' = 0
    /\ UNCHANGED <<cfg, input, pos, tags, strideCounter, state, pc, avail,
                   room, skipped, chunk, eosOut, outTags, history>>

\* A life-cycle message, the scheduler, or the block itself in processBulk().
RequestStop ==
    /\ Stoppable /\ state = "RUNNING"
    /\ state' = "REQUESTED_STOP"
    /\ asked' = TRUE
    /\ UNCHANGED <<cfg, input, pos, tags, strideCounter, pc, avail, room, skipped, chunk,
                   inFlight, eosOut, outTags, refusals, gap, unforwarded, repeated>>

-----------------------------------------------------------------------------
(***************************************************************************)
(* A call of work()                                                        *)
(***************************************************************************)

\* checkLifecycle(): a request to stop is carried out.
FinishStop ==
    /\ pc = "idle" /\ state = "REQUESTED_STOP"
    /\ state' = "STOPPED"
    /\ UNCHANGED <<cfg, input, pos, tags, strideCounter, pc, avail, room, skipped, chunk,
                   inFlight, eosOut, outTags, history>>

\* computeSampleLimits() first asks the port caches for samples and room.
LookAtSamples ==
    /\ pc = "idle" /\ state = "RUNNING"
    /\ pc' = "limits"
    /\ avail' = written - pos
    /\ room' = OutCapacity - inFlight
    /\ UNCHANGED <<cfg, input, pos, tags, strideCounter, state, skipped, chunk, inFlight,
                   eosOut, outTags, history>>

\* Faulty: consumes the tags of all n samples though the first one's were forwarded.
TagsConsumedWithSamples(n) == {t \in tags : t < pos + n}

\* The tags that ~InputSpan consumes with n samples: those up to the first
\* sample of the span, or, moved backward, those of all consumed samples.
TagsConsumed(n) ==
    IF n = 0 THEN {}
    ELSE {t \in tags : t < pos + (IF cfg.policy = "backward" THEN n ELSE 1)}

\* ... and then it looks at the tags.  The samples left of the stride are
\* skipped with their tags, then the end of the stream stops the block, or the
\* spans of the next chunk are prepared, or work() returns.
LookAtTags(requested) ==
    LET limits == Limits(requested)
        ended  == limits.eos \/ state # "RUNNING"
    IN  /\ pc = "limits"
        /\ pos' = pos + limits.skip
        /\ strideCounter' = strideCounter - limits.skip
        /\ tags' = tags \ TagsConsumed(limits.skip)
        /\ unforwarded' = unforwarded \cup TagsConsumed(limits.skip)
        /\ state' = IF ended THEN "STOPPED" ELSE state
        /\ eosOut' = (eosOut \/ ended)
        /\ chunk' = IF ended THEN NoChunk ELSE limits.chunk
        /\ pc' = IF chunk' = NoChunk THEN "idle" ELSE "process"
        /\ skipped' = IF pc' = "process" THEN limits.skip ELSE 0
        /\ avail' = 0 /\ room' = 0
        /\ UNCHANGED <<cfg, input, inFlight, outTags, asked, refusals, gap,
                       repeated>>

\* inputSamplesToConsumeAdjustedWithStride()
StrideConsumes(remaining) ==
    IF StrideActive /\ strideCounter = 0 THEN Min({cfg.stride, remaining}) ELSE 0

\* forwardInputTags(): the tags that the chunk carries to its first output.
Forwarded ==
    {t \in tags : t < pos + (IF cfg.policy = "backward" THEN chunk.in ELSE 1)}

Ordered(S) == CHOOSE f \in [1 .. Cardinality(S) -> S] :
                  \A i, j \in DOMAIN f : i < j => f[i] < f[j]

\* dispatchProcessing(), sanitiseProcessStatus() and finaliseIO().  processBulk()
\* returned status and asked to consume and publish so many samples, or made no
\* request and left it to the block; what it asked for is done in any case.
Process(status, consume, publish) ==
    LET refused      == status = "INSUFFICIENT"
        stopping     == state # "RUNNING"
        done         == stopping \/ status = "DONE"
        processedIn  == CASE refused \/ stopping -> 0
                          [] ~(refused \/ stopping) /\ consume # NoRequest -> consume
                          [] OTHER -> chunk.in
        processedOut == CASE refused -> 0
                          [] ~refused /\ publish # NoRequest -> publish
                          [] OTHER -> chunk.out
        byStride     == IF processedIn = 0 THEN 0 ELSE StrideConsumes(chunk.in)
        consumed     == CASE consume # NoRequest -> consume
                          [] consume = NoRequest /\ byStride > 0 -> byStride
                          [] OTHER -> processedIn
        published    == IF publish # NoRequest THEN publish ELSE processedOut
    IN  /\ pc = "process"
        /\ pc' = "idle"
        /\ chunk' = NoChunk /\ skipped' = 0
        /\ inFlight' = inFlight + published
        /\ outTags' = IF processedOut = 0 THEN outTags ELSE outTags \o Ordered(Forwarded)
        /\ pos' = pos + consumed
        /\ tags' = tags \ TagsConsumed(consumed)
        /\ strideCounter' = IF byStride > 0 THEN cfg.stride - byStride ELSE strideCounter
        /\ state' = IF done THEN "STOPPED" ELSE state
        /\ eosOut' = (eosOut \/ done)
        /\ asked' = (asked \/ done)
        /\ refusals' = IF consumed = 0 /\ ~done THEN refusals + 1 ELSE refusals
        /\ refusals' <= MaxRefusals
        /\ unforwarded' = IF processedOut = 0
                          THEN unforwarded \cup TagsConsumed(consumed)
                          ELSE unforwarded
        /\ repeated' = IF processedOut = 0 THEN repeated
                       ELSE repeated \cup {t \in Forwarded : consumed = 0 \/ t >= pos + consumed}
        /\ gap' = CASE consumed = 0 -> gap
                    [] consumed # 0 /\ byStride > 0 /\ consume = NoRequest ->
                           [from |-> pos + byStride, to |-> pos + cfg.stride]
                    [] OTHER -> NoGap
        /\ UNCHANGED <<cfg, input, avail, room>>

\* bound: processBulk() asks for none or for one sample, if it asks at all
Requests == {NoRequest, 0, 1}

ProcessBulk ==
    \E status \in Statuses, consume, publish \in Requests :
        Process(status, consume, publish)

-----------------------------------------------------------------------------
Upstream ==
    \/ \E t \in 0 .. Length - 1 : PublishTag(t)
    \/ \E e \in 0 .. Length : PublishEnd(e)
    \/ \E n \in 1 .. Length : PublishSamples(n)

Next ==
    \/ Upstream \/ Drain \/ RequestStop
    \/ FinishStop \/ LookAtSamples
    \/ \E requested \in {1, Unlimited} : LookAtTags(requested)
    \/ ProcessBulk

Spec == Init /\ [][Next]_vars

\* The scheduler calls work() again and again, the block downstream keeps
\* reading, and the block upstream publishes the samples it has announced.  A
\* call of work() that is under way goes on: LookAtTags and ProcessBulk are
\* always possible where pc stands, so the fairness speaks of pc alone.
Leaves(place) == pc = place /\ pc' \in {"idle", "limits", "process"} \ {place}

Fairness ==
    /\ WF_vars(\E n \in 1 .. Length : PublishSamples(n))
    /\ WF_vars(Drain)
    /\ WF_vars(FinishStop) /\ WF_vars(LookAtSamples)
    /\ WF_pc(Leaves("limits")) /\ WF_pc(Leaves("process"))

FairSpec == Spec /\ Fairness

-----------------------------------------------------------------------------
(***************************************************************************)
(* What the block owes                                                     *)
(***************************************************************************)

\* Published input up to the end of the stream, and free output.
InsideBuffers ==
    /\ pos + chunk.in <= written /\ pos + chunk.in <= eosAt
    /\ chunk.out <= OutCapacity - inFlight

\* Whole chunks in the resampling ratio, within the limits of both ports.
WholeChunks ==
    /\ chunk.in % cfg.inChunk = 0
    /\ chunk.in * cfg.outChunk = chunk.out * cfg.inChunk
    /\ chunk.in \in cfg.minIn .. cfg.maxIn
    /\ chunk.out \in cfg.minOut .. cfg.maxOut

\* A tag behind the first sample ends the chunk before it, unless that would
\* leave less than one chunk or less than the input port requires, or unless
\* samples were skipped up to a tag, which then hides the tags behind it.
StartsAtTag ==
    \A t \in tagged : pos < t /\ t < pos + chunk.in =>
        \/ cfg.policy = "forward"
        \/ chunk.in = cfg.inChunk
        \/ \E u \in tagged : pos < u /\ u < pos + cfg.minIn
        \/ skipped > 0 /\ pos \in tagged

\* The chunk starts stride samples behind the one before, unless a tag lies in
\* the samples between, where the skipping stops too early.
KeepsStride ==
    gap.to >= 0 => \/ pos = gap.to
                   \/ /\ cfg.policy # "forward"
                      /\ \E t \in tagged : gap.from < t /\ t < gap.to

(***************************************************************************)
(* Whatever the block upstream publishes between the two looks of work(),  *)
(* processBulk() is handed a lawful chunk.                                 *)
(***************************************************************************)
ChunkIsLawful ==
    pc = "process" => InsideBuffers /\ WholeChunks /\ StartsAtTag /\ KeepsStride

(***************************************************************************)
(* A tag that the block has consumed was forwarded, unless it was consumed *)
(* in a skip or with a chunk without output; and it was forwarded once and *)
(* in order, unless processBulk() published without consuming its sample.  *)
(***************************************************************************)
TagsForwardedOnce ==
    /\ tagged \ tags \subseteq Range(outTags) \cup unforwarded
    /\ \A i, j \in DOMAIN outTags :
           i < j => outTags[i] < outTags[j] \/ outTags[j] \in repeated

(***************************************************************************)
(* The end of the input stream becomes the end of the output stream, and   *)
(* less than a chunk of the input is dropped, unless the block was stopped *)
(* before.                                                                 *)
(***************************************************************************)
EndIsPassedOn ==
    (eosAt # Unlimited) ~>
        (asked \/ (eosOut /\ eosAt - pos < Max({cfg.inChunk, cfg.minIn})))
=============================================================================
