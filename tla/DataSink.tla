------------------------------ MODULE DataSink ------------------------------
(***************************************************************************)
(* DataSink.hpp: a block at the end of a flow graph that hands its stream  *)
(* to threads outside of it.  A client asks the registry, or the sink      *)
(* itself, for a poller; the sink keeps a listener for each, serves them   *)
(* one after the other in processBulk(), and waits for the room of those   *)
(* that must not lose anything.  Two mutexes are involved: the registry's, *)
(* held while a poller is made, and that of the listeners, held by the     *)
(* sink while it serves them, its waits included.                          *)
(* A sample is its position in the stream, 1, 2, ...; the rings of a       *)
(* poller are sequences (SingleProducerRing models how such a ring works). *)
(***************************************************************************)
EXTENDS Integers, Sequences, FiniteSets, FiniteSetsExt, SequencesExt

CONSTANTS
    Clients,        \* threads that poll, each with one poller
    Cases,          \* what they ask for, with the bounds, see Case
    MaxChunk,       \* bound: samples in one call of processBulk()
    Room, TagRoom, SetRoom    \* capacities of the rings of a poller

Kinds == {"stream", "trigger", "multiplexed", "snapshot"}

\* before and after: preSamples and postSamples; for "multiplexed" after is the
\* maximumWindowSize, 0 for no limit; for "snapshot" the delay in samples.
Subscription == [kind : Kinds, block : BOOLEAN, before : Nat, after : Nat, direct : BOOLEAN]

\* Such a client does not come.
NoSubscription == [kind |-> "none", block |-> FALSE]

\* bounds: the samples that reach the sink, how many tags and which (those that
\* match, and start something, and those that do not), and whether the settings
\* change meanwhile
Case == [sub : [Clients -> Subscription \cup {NoSubscription}], length : Nat, marks : Nat,
         tags : SUBSET {"start", "end"}, changes : BOOLEAN]

ASSUME CasesAssumption ==
    /\ Cases \subseteq Case
    /\ Room \in Nat /\ MaxChunk \in 1..Room
    /\ TagRoom \in Nat \ {0, 1} /\ SetRoom \in Nat \ {0}

VARIABLES
    registry,    \* who holds DataSinkRegistry::_mutex
    registered,  \* whether the registry knows the sink
    lock,        \* who holds _listener_mutex
    listeners,   \* _listeners, by client
    ended,       \* _listeners_finished
    history,     \* [cap, items]: the latest samples, the newest first
    case,
    lst,         \* lst[c]: the state of its listener
    poller,      \* poller[c]: its poller
    cpc, seen, count,        \* per client: place, finished as it was read, samples to take
    pc, at, n, sets,         \* per thread of the sink: place, listener, how many
                             \* samples and tags to publish, data sets to publish
    chunk,       \* the input of processBulk(): [from, size, mark]
    \* history
    marks,       \* marks[k]: the tag of sample k
    base,        \* base[c]: samples before client c was added
    got,         \* got[c]: what client c has received
    strayStop,   \* stop() was called while the block could still work
    reversed     \* samples of the history have been reversed

listenerVars == <<listeners, ended, history, lst>>
localVars    == <<pc, at, n, sets, chunk>>
clientVars   == <<case, cpc, seen, count>>
ghosts       == <<marks, base, got, strayStop, reversed>>
sinkVars == <<registry, registered, lock, listenerVars, poller, localVars, clientVars, ghosts>>

sub == case.sub
Length == case.length

Nobody == "nobody"
Threads == {"worker", "other"}    \* the block's worker, and one that stops the block
None == "none"
Meta == 0      \* the tag that carries the metadata, instead of a sample's

NoListener == [published |-> 0, pending |-> TRUE, captures |-> <<>>, expired |-> FALSE]
NoPoller == [samples |-> <<>>, tags |-> <<>>, sets |-> <<>>, finished |-> FALSE, read |-> 0, dropped |-> 0]
NoCounts == [samples |-> 0, tags |-> 0]
NoInput == [from |-> 0, size |-> 0, mark |-> None]
NothingGot == [samples |-> <<>>, tags |-> {}, sets |-> {}]

Span(from, size) == [i \in 1..size |-> from + i]
FirstOf(s, k) == SubSeq(s, 1, Min({k, Len(s)}))
Offered == Len(marks)

-----------------------------------------------------------------------------
(* Clients *)

\* The registry stays locked while its sink makes the poller.
AskRegistry(c) ==
    /\ cpc[c] = "out" /\ sub[c] # NoSubscription /\ ~sub[c].direct
    /\ registry = Nobody
    /\ IF registered THEN registry' = c /\ cpc' = [cpc EXCEPT ![c] = "atSink"]
       ELSE UNCHANGED registry /\ cpc' = [cpc EXCEPT ![c] = "refused"]
    /\ UNCHANGED <<registered, lock, listenerVars, poller, localVars, case, seen, count, ghosts>>

\* ensureHistorySize() pushes the newest of the old samples first.
Ensured(h, size) == IF size <= h.cap THEN h ELSE [cap |-> size, items |-> Reverse(h.items)]

\* Faulty: a new poller has not finished.
UnfinishedAtFirst(s) == FALSE

\* A poller that is made after the end learns so at once, but only of two kinds.
FinishedAtFirst(s) == ended /\ s.kind \in {"stream", "trigger"}

\* getStreamingPoller() and the others: a listener that makes the sink wait is
\* served after those that do not.
GetPoller(c) ==
    LET s == sub[c]
        trigger == s.kind = "trigger"
    IN  /\ cpc[c] = "atSink" \/ (cpc[c] = "out" /\ s # NoSubscription /\ s.direct)
        /\ lock = Nobody
        /\ cpc' = [cpc EXCEPT ![c] = "has"]
        /\ registry' = IF registry = c THEN Nobody ELSE registry
        /\ listeners' = IF s.block THEN Append(listeners, c) ELSE <<c>> \o listeners
        /\ lst' = [lst EXCEPT ![c] = NoListener]
        /\ poller' = [poller EXCEPT ![c] =
                         [NoPoller EXCEPT !.finished = FinishedAtFirst(s)]]
        /\ history' = IF trigger THEN Ensured(history, s.before) ELSE history
        /\ reversed' = (reversed \/ (trigger /\ s.before > history.cap /\ Len(history.items) > 1))
        /\ base' = [base EXCEPT ![c] = IF pc["worker"] = "atLock" THEN chunk.from ELSE Offered]
        /\ UNCHANGED <<registered, lock, ended, localVars, case, seen, count, marks, got, strayStop>>

Available(c) == IF sub[c].kind = "stream" THEN Len(poller[c].samples) ELSE Len(poller[c].sets)

\* The client reads "finished" first, and then polls until nothing is left.  (A
\* look that finds nothing new changes nothing.)
LookFinished(c) ==
    /\ cpc[c] = "has" /\ (poller[c].finished \/ Available(c) > 0)
    /\ seen' = [seen EXCEPT ![c] = poller[c].finished]
    /\ cpc' = [cpc EXCEPT ![c] = "polls"]
    /\ UNCHANGED <<registry, registered, lock, listenerVars, poller, localVars, case, count, ghosts>>

\* process(): how much there is, of which the client may ask for less
CountAvailable(c) ==
    /\ cpc[c] = "polls"
    /\ \/ /\ Available(c) = 0
          /\ cpc' = [cpc EXCEPT ![c] = IF seen[c] THEN "done" ELSE "has"]
          /\ UNCHANGED count
       \/ /\ Available(c) > 0
          /\ \E k \in 1..Available(c) : count' = [count EXCEPT ![c] = k]
          /\ cpc' = [cpc EXCEPT ![c] = "takes"]
    /\ UNCHANGED <<registry, registered, lock, listenerVars, poller, localVars, case, seen, ghosts>>

\* Faulty: all tags that are there are taken with the samples.
AllTags(p, k) == Len(p.tags)

\* How many tags belong to the next k samples
Relevant(p, k) ==
    LET later == {i \in DOMAIN p.tags : p.tags[i].at >= p.read + k}
    IN  IF later = {} THEN Len(p.tags) ELSE Min(later) - 1

\* process(): the tags of these samples, found by their positions; then tags
\* and samples are released.
Take(c) ==
    LET p == poller[c]
        k == count[c]
        relevant == Relevant(p, k)
    IN  /\ cpc[c] = "takes" /\ cpc' = [cpc EXCEPT ![c] = "polls"]
        /\ count' = [count EXCEPT ![c] = 0]
        /\ IF sub[c].kind = "stream"
           THEN /\ poller' = [poller EXCEPT ![c] =
                        [p EXCEPT !.samples = SubSeq(@, k + 1, Len(@)), !.read = @ + k,
                                  !.tags = SubSeq(@, relevant + 1, Len(@))]]
                /\ got' = [got EXCEPT ![c] =
                        [got[c] EXCEPT !.samples = @ \o FirstOf(p.samples, k),
                                       !.tags = @ \cup Range(FirstOf(p.tags, relevant))]]
           ELSE /\ poller' = [poller EXCEPT ![c].sets = SubSeq(@, k + 1, Len(@))]
                /\ got' = [got EXCEPT ![c].sets = @ \cup Range(FirstOf(p.sets, k))]
        /\ UNCHANGED <<registry, registered, lock, listenerVars, localVars, case, seen,
                       marks, base, strayStop, reversed>>

\* The client drops its shared pointer; the listener has a weak one.
Release(c) ==
    /\ cpc[c] = "has" /\ cpc' = [cpc EXCEPT ![c] = "gone"]
    /\ UNCHANGED <<registry, registered, lock, listenerVars, poller, localVars, case, seen, count, ghosts>>

-----------------------------------------------------------------------------
(* The sink *)

\* stop() has been called.
Stopping == ~registered \/ \E t \in Threads : pc[t] = "unregister"

\* A call of processBulk(); the input is cut at the tags, so that there is one
\* at its first sample if at all.
ProcessBulk(size, mark) ==
    /\ pc["worker"] = "idle" /\ ~Stopping
    /\ Offered + size <= Length
    /\ mark # None => Cardinality({k \in DOMAIN marks : marks[k] # None}) < case.marks
    /\ chunk' = [from |-> Offered, size |-> size, mark |-> mark]
    /\ marks' = marks \o [i \in 1..size |-> IF i = 1 THEN mark ELSE None]
    /\ pc' = [pc EXCEPT !["worker"] = "atLock"]
    /\ UNCHANGED <<registry, registered, lock, listenerVars, poller, at, n, sets, clientVars,
                   base, got, strayStop, reversed>>

\* The first i listeners without those that have expired, in their order
Live[i \in 0..Len(listeners)] ==
    IF i = 0 THEN <<>>
    ELSE IF lst[listeners[i]].expired THEN Live[i - 1] ELSE Append(Live[i - 1], listeners[i])

\* Expired listeners are removed.
LockForChunk ==
    /\ pc["worker"] = "atLock" /\ lock = Nobody
    /\ lock' = "worker"
    /\ listeners' = Live[Len(listeners)]
    /\ at' = [at EXCEPT !["worker"] = 1]
    /\ pc' = [pc EXCEPT !["worker"] = "serves"]
    /\ UNCHANGED <<registry, registered, ended, history, lst, poller, n, sets, chunk,
                   clientVars, ghosts>>

\* settingsChanged(), in the block's own thread
ChangeSettings ==
    /\ case.changes
    /\ pc["worker"] = "idle" /\ ~Stopping /\ lock = Nobody
    /\ lst' = [c \in Clients |-> IF c \in Range(listeners) THEN [lst[c] EXCEPT !.pending = TRUE] ELSE lst[c]]
    /\ UNCHANGED <<registry, registered, lock, listeners, ended, history, poller, localVars,
                   clientVars, ghosts>>

\* The stop() hook runs in whichever thread changes the state of the block.
CallStop(t) ==
    /\ pc[t] = "idle" /\ ~Stopping
    /\ pc' = [pc EXCEPT ![t] = "unregister"]
    /\ strayStop' = (t = "other" /\ pc["worker"] # "idle")
    /\ UNCHANGED <<registry, registered, lock, listenerVars, poller, at, n, sets, chunk, clientVars,
                   marks, base, got, reversed>>

Unregister(t) ==
    /\ pc[t] = "unregister" /\ registry = Nobody
    /\ registered' = FALSE
    /\ pc' = [pc EXCEPT ![t] = "stopLock"]
    /\ UNCHANGED <<registry, lock, listenerVars, poller, at, n, sets, chunk, clientVars, ghosts>>

LockForStop(t) ==
    /\ pc[t] = "stopLock" /\ lock = Nobody
    /\ lock' = t
    /\ at' = [at EXCEPT ![t] = 1]
    /\ pc' = [pc EXCEPT ![t] = "serves"]
    /\ UNCHANGED <<registry, registered, listenerVars, poller, n, sets, chunk, clientVars, ghosts>>

\* Whether thread t is in stop(), not in processBulk().
InStop(t) == t = "other" \/ chunk = NoInput
Served(t) == listeners[at[t]]
Serving(t) == pc[t] = "serves" /\ at[t] <= Len(listeners)
Gone(c) == cpc[c] = "gone"
Goes(t, place) == pc' = [pc EXCEPT ![t] = place]
NextListener(t) == at' = [at EXCEPT ![t] = @ + 1] /\ Goes(t, "serves")
\* What the steps within processBulk() and stop() leave alone
Within == UNCHANGED <<registry, registered, lock, listeners, ended, history, chunk, clientVars, ghosts>>

\* ContinuousListener::process(): how many samples and tags are published
ServeStream(t) ==
    LET c == Served(t)
        size == IF sub[c].block THEN chunk.size ELSE Min({chunk.size, Room - Len(poller[c].samples)})
        tags == (IF lst[c].pending THEN 1 ELSE 0) + (IF chunk.mark # None THEN 1 ELSE 0)
        room == IF sub[c].block THEN tags ELSE Min({tags, TagRoom - Len(poller[c].tags)})
    IN  /\ Serving(t) /\ ~InStop(t) /\ sub[c].kind = "stream"
        /\ \/ /\ Gone(c)
              /\ lst' = [lst EXCEPT ![c].expired = TRUE]
              /\ NextListener(t) /\ UNCHANGED <<poller, n>>
           \/ /\ ~Gone(c) /\ size = 0
              /\ poller' = [poller EXCEPT ![c].dropped = @ + chunk.size]
              /\ NextListener(t) /\ UNCHANGED <<lst, n>>
           \/ /\ ~Gone(c) /\ size > 0
              /\ n' = [n EXCEPT ![t] = [samples |-> size, tags |-> room]]
              /\ Goes(t, "tags") /\ UNCHANGED <<lst, poller, at>>
        /\ UNCHANGED sets /\ Within

\* The tags come before their samples; the metadata is the first of them.  A
\* poller that may lose tags loses the last ones.
PublishTags(t) ==
    LET c == Served(t)
        l == lst[c]
        here(tag) == <<[at |-> l.published, of |-> tag]>>
        all == (IF l.pending THEN here(Meta) ELSE <<>>)
                 \o (IF chunk.mark # None THEN here(chunk.from + 1) ELSE <<>>)
        out == FirstOf(all, n[t].tags)
    IN  /\ pc[t] = "tags" /\ Len(poller[c].tags) + Len(out) <= TagRoom
        /\ poller' = [poller EXCEPT ![c].tags = @ \o out]
        /\ lst' = [lst EXCEPT ![c].pending = @ /\ out = <<>>]
        /\ Goes(t, "samples")
        /\ UNCHANGED <<at, n, sets>> /\ Within

PublishSamples(t) ==
    LET c == Served(t)
        k == n[t].samples
    IN  /\ pc[t] = "samples" /\ Len(poller[c].samples) + k <= Room
        /\ poller' = [poller EXCEPT ![c].samples = @ \o Span(chunk.from, k),
                                    ![c].dropped = @ + chunk.size - k]
        /\ lst' = [lst EXCEPT ![c].published = @ + k]
        /\ n' = [n EXCEPT ![t] = NoCounts]
        /\ NextListener(t)
        /\ UNCHANGED sets /\ Within

\* What the other listeners make of a chunk: the windows that they keep, and the
\* data sets to publish.  A window has the samples so far, the place of the
\* trigger among them, the trigger, and the samples still to come.
Window(data, left) == [data |-> data, trigger |-> Len(data), of |-> chunk.from + 1, left |-> left]

\* Faulty: a window takes a chunk as a whole.
FedWhole(windows) ==
    [i \in DOMAIN windows |->
        [windows[i] EXCEPT !.data = @ \o Span(chunk.from, chunk.size),
                           !.left = IF @ > chunk.size THEN @ - chunk.size ELSE 0]]

Fed(windows) ==
    [i \in DOMAIN windows |->
        LET k == Min({windows[i].left, chunk.size})
        IN  [windows[i] EXCEPT !.data = @ \o Span(chunk.from, k), !.left = @ - k]]

\* Those that still need so many samples or more are kept.
Parted(windows, least) ==
    [keep |-> SelectSeq(windows, LAMBDA w : w.left >= least),
     out |-> SelectSeq(windows, LAMBDA w : w.left < least)]

\* TriggerListener::process(): windows may overlap.
Triggered(l, s) ==
    LET new == Window(Reverse(FirstOf(history.items, s.before)), s.after)
    IN  Parted(Fed(IF chunk.mark = "start" THEN Append(l.captures, new) ELSE l.captures), 1)

\* MultiplexedListener::process(): any tag ends the window, a matching one
\* starts the next.
Multiplexed(l, s) ==
    LET size == IF s.after = 0 THEN Length + 1 ELSE s.after
        open == CASE chunk.mark = None -> l.captures
                  [] chunk.mark = "start" -> <<Window(<<>>, size)>>
                  [] OTHER -> <<>>
        next == Parted(Fed(open), 1)
    IN  [next EXCEPT !.out = (IF chunk.mark = None THEN <<>> ELSE l.captures) \o @]

\* SnapshotListener::process(): the sample that is a delay behind the tag
Snapped(l, s) ==
    LET new == Window(<<>>, s.after)
        all == IF chunk.mark = "start" THEN Append(l.captures, new) ELSE l.captures
        due == Parted(all, chunk.size)
    IN  [keep |-> [i \in DOMAIN due.keep |-> [due.keep[i] EXCEPT !.left = @ - chunk.size]],
         out |-> [i \in DOMAIN due.out |->
                    [due.out[i] EXCEPT !.data = <<chunk.from + due.out[i].left + 1>>, !.left = 0]]]

Windows(l, s) ==
    CASE s.kind = "trigger" -> Triggered(l, s)
      [] s.kind = "multiplexed" -> Multiplexed(l, s)
      [] s.kind = "snapshot" -> Snapped(l, s)

ServeWindows(t) ==
    LET c == Served(t)
        w == Windows(lst[c], sub[c])
    IN  /\ Serving(t) /\ ~InStop(t) /\ sub[c].kind # "stream"
        /\ lst' = [lst EXCEPT ![c].captures = w.keep]
        /\ sets' = [sets EXCEPT ![t] = w.out]
        /\ Goes(t, "publishes")
        /\ UNCHANGED <<poller, at, n>> /\ Within

\* stop() of a listener: open windows are published, but no snapshots.
ServeStop(t) ==
    LET c == Served(t)
        open == IF sub[c].kind \in {"stream", "snapshot"} THEN <<>>
                ELSE SelectSeq(lst[c].captures, LAMBDA w : w.data # <<>>)
    IN  /\ Serving(t) /\ InStop(t)
        /\ lst' = [lst EXCEPT ![c].captures = <<>>]
        /\ sets' = [sets EXCEPT ![t] = open]
        /\ Goes(t, "publishes")
        /\ UNCHANGED <<poller, at, n>> /\ Within

\* publishDataSet(), for a poller that is gone, has room, or may lose the set;
\* otherwise the sink waits, and keeps the poller alive while it does.
PublishSet(t) ==
    LET c == Served(t)
        room == Len(poller[c].sets) < SetRoom
    IN  /\ pc[t] \in {"publishes", "waits"} /\ sets[t] # <<>>
        /\ \/ /\ Gone(c) /\ pc[t] = "publishes"
              /\ lst' = [lst EXCEPT ![c].expired = TRUE]
              /\ sets' = [sets EXCEPT ![t] = Tail(@)]
              /\ UNCHANGED <<poller, pc>>
           \/ /\ room /\ (Gone(c) => pc[t] = "waits")
              /\ poller' = [poller EXCEPT ![c].sets = Append(@, Head(sets[t]))]
              /\ sets' = [sets EXCEPT ![t] = Tail(@)]
              /\ Goes(t, "publishes") /\ UNCHANGED lst
           \/ /\ ~room /\ ~Gone(c) /\ pc[t] = "publishes" /\ ~sub[c].block
              /\ poller' = [poller EXCEPT ![c].dropped = @ + 1]
              /\ sets' = [sets EXCEPT ![t] = Tail(@)]
              /\ UNCHANGED <<lst, pc>>
           \/ /\ ~room /\ ~Gone(c) /\ pc[t] = "publishes" /\ sub[c].block
              /\ Goes(t, "waits") /\ UNCHANGED <<lst, poller, sets>>
        /\ UNCHANGED <<at, n>> /\ Within

SetsArePublished(t) ==
    LET c == Served(t)
    IN  /\ pc[t] = "publishes" /\ sets[t] = <<>>
        /\ poller' = IF InStop(t) /\ ~Gone(c) THEN [poller EXCEPT ![c].finished = TRUE] ELSE poller
        /\ NextListener(t)
        /\ UNCHANGED <<lst, n, sets>> /\ Within

\* The end of processBulk(), and of stop()
Leave(t) ==
    /\ pc[t] = "serves" /\ at[t] > Len(listeners)
    /\ lock' = Nobody
    /\ at' = [at EXCEPT ![t] = 1]
    /\ IF InStop(t)
       THEN /\ ended' = TRUE /\ Goes(t, "stopped")
            /\ UNCHANGED <<history, chunk>>
       ELSE /\ history' = [history EXCEPT !.items =
                              FirstOf(Reverse(Span(chunk.from, chunk.size)) \o @, history.cap)]
            /\ chunk' = NoInput /\ Goes(t, "idle")
            /\ UNCHANGED ended
    /\ UNCHANGED <<registry, registered, listeners, lst, poller, n, sets, clientVars, ghosts>>

-----------------------------------------------------------------------------
SinkInit ==
    /\ registry = Nobody /\ registered = TRUE /\ lock = Nobody
    /\ listeners = <<>> /\ ended = FALSE /\ history = [cap |-> 0, items |-> <<>>]
    /\ lst = [c \in Clients |-> NoListener]
    /\ poller = [c \in Clients |-> NoPoller]
    /\ case \in Cases
    /\ cpc = [c \in Clients |-> "out"] /\ seen = [c \in Clients |-> FALSE]
    /\ count = [c \in Clients |-> 0]
    /\ pc = [t \in Threads |-> "idle"] /\ at = [t \in Threads |-> 1]
    /\ n = [t \in Threads |-> NoCounts] /\ sets = [t \in Threads |-> <<>>]
    /\ chunk = NoInput
    /\ marks = <<>> /\ base = [c \in Clients |-> 0] /\ got = [c \in Clients |-> NothingGot]
    /\ strayStop = FALSE /\ reversed = FALSE

SinkStep(t) ==
    \/ Unregister(t) \/ LockForStop(t)
    \/ ServeStream(t) \/ PublishTags(t) \/ PublishSamples(t)
    \/ ServeWindows(t) \/ ServeStop(t) \/ PublishSet(t) \/ SetsArePublished(t)
    \/ Leave(t)

ClientStep(c) == LookFinished(c) \/ CountAvailable(c) \/ Take(c)

SinkNext ==
    \/ \E size \in 1..MaxChunk, mark \in {None} \cup case.tags : ProcessBulk(size, mark)
    \/ LockForChunk \/ ChangeSettings
    \/ \E t \in Threads : CallStop(t) \/ SinkStep(t)
    \/ \E c \in Clients : AskRegistry(c) \/ GetPoller(c) \/ ClientStep(c) \/ Release(c)

\* A call of processBulk() or stop() goes on when it can, and a client that has
\* a poller polls again and again until it lets it go.
Fairness ==
    /\ WF_sinkVars(LockForChunk)
    /\ \A t \in Threads : WF_sinkVars(SinkStep(t))
    /\ \A c \in Clients : WF_sinkVars(GetPoller(c) /\ cpc[c] = "atSink") /\ WF_sinkVars(ClientStep(c))

SinkSpec == SinkInit /\ [][SinkNext]_sinkVars
FairSinkSpec == SinkSpec /\ Fairness

-----------------------------------------------------------------------------
(* Properties *)

Polls(c) == cpc[c] \in {"has", "polls", "takes", "done"}
Processed == IF chunk = NoInput THEN Offered ELSE chunk.from
\* All that happened before the end has reached a client that has seen the end.
SeenAll(c) == cpc[c] = "done" /\ ~strayStop

\* A stream reaches a poller without gaps, or with gaps that are counted, until
\* its end; its tags reach it together with their samples, and none comes later.
StreamsAreWhole ==
    \A c \in {d \in Clients : Polls(d) /\ sub[d].kind = "stream"} :
        LET p == poller[c]
            all == got[c].samples \o p.samples
        IN  /\ lock = Nobody \/ SeenAll(c) => Len(all) + p.dropped = Processed - base[c]
            /\ SeenAll(c) => p.samples = <<>>
            /\ \A i, j \in DOMAIN all : i < j => all[i] < all[j]
            /\ sub[c].block => all = Span(base[c], Len(all))
            /\ \A tag \in Range(p.tags) : tag.at >= p.read
            /\ \A tag \in got[c].tags : tag.at < Len(got[c].samples)
            /\ \A tag \in got[c].tags \cup Range(p.tags) :
                  tag.at < Len(all) /\ tag.of # Meta => all[tag.at + 1] = tag.of
            /\ sub[c].block =>
                  \A i \in DOMAIN got[c].samples :
                     /\ marks[got[c].samples[i]] # None => [at |-> i - 1, of |-> got[c].samples[i]] \in got[c].tags
                     /\ i = 1 => [at |-> 0, of |-> Meta] \in got[c].tags

\* Whether a window has the samples that it should
Right(c, w) ==
    LET s == sub[c]
        size == Len(w.data)
    IN  /\ marks[w.of] = "start"
        /\ w.left > 0 /\ s.kind # "multiplexed" => Stopping
        /\ CASE s.kind = "trigger" ->
                  /\ Min({s.before, w.of - 1 - base[c]}) <= w.trigger /\ w.trigger <= s.before
                  /\ size + w.left = w.trigger + s.after
                  /\ reversed \/ w.data = Span(w.of - 1 - w.trigger, size)
             [] s.kind = "multiplexed" ->
                  /\ size > 0 /\ w.data = Span(w.of - 1, size)
                  /\ \A k \in w.of + 1 .. w.of + size - 1 : marks[k] = None
                  /\ w.left = 0 \/ Stopping \/ marks[w.of + size] # None
             [] s.kind = "snapshot" -> w.data = <<w.of + s.after>>

\* However the stream is cut into chunks, a data set has the samples around its
\* trigger that were asked for; and a client that loses none has one for every
\* trigger when it has seen the end.
WindowsAreWhole ==
    \A c \in {d \in Clients : Polls(d) /\ sub[d].kind # "stream"} :
        LET all == got[c].sets \cup Range(poller[c].sets)
        IN  /\ \A w \in all : Right(c, w)
            /\ SeenAll(c) /\ sub[c].block =>
                  \A k \in base[c] + 1 .. Offered :
                     marks[k] = "start" /\ (sub[c].kind = "snapshot" => k + sub[c].after <= Offered)
                        => \E w \in got[c].sets : w.of = k

\* The sink waits for a client that does not poll any more.
Abandoned ==
    \E t \in Threads : pc[t] \in {"tags", "samples", "waits"} /\ cpc[Served(t)] \in {"gone", "done"}

\* A poller that was made when the end was over, and not told.
Late(c) == ended /\ sub[c].kind \in {"multiplexed", "snapshot"} /\ ~poller[c].finished

\* When the sink is stopped every client that goes on polling sees the end of
\* the stream, unless the sink waits for a client that does not.
EndReachesClients ==
    Stopping ~> \/ Abandoned
                \/ \A c \in Clients : cpc[c] \in {"out", "refused", "done", "gone"} \/ Late(c)
=============================================================================
