------------------------------ MODULE Settings ------------------------------
(***************************************************************************)
(* The settings of a block: CtxSettings (core/include/gnuradio-4.0/        *)
(* Settings.hpp, core/src/Settings.cpp) and the places of Block.hpp that   *)
(* apply them.                                                             *)
(*                                                                         *)
(* A client stores parameters for a context (a name and a time), messages  *)
(* and tags make a context the active one or stage single parameters, and  *)
(* work() applies what is staged.  set(), setStaged(), autoUpdate() and    *)
(* the first part of applyStagedParameters() hold the mutex and are steps; *)
(* the rest of applyStagedParameters() runs after it is released.  Tags    *)
(* and the messages of the block are handled by the thread that calls      *)
(* work(); set() and setStaged() may come from any thread.                 *)
(***************************************************************************)
EXTENDS Integers, Sequences, FiniteSets, FiniteSetsExt, Functions, SequencesExt

CONSTANTS
    Params,      \* writable members of the block
    Values,
    Names,       \* names of contexts
    Default,     \* the name of the default context, ""
    Fallbacks,   \* the match predicate: names it tries for a name, in order
    Forwarded,   \* parameters that are passed on to the next block
    Initial,     \* the parameters given to the constructor
    Factory,     \* the value all members have before
    Expiries,    \* the choices of expiry_time
    Never,       \* the largest time, for no expiry
    MaxTime,     \* bound: the clock
    Requests,    \* bound: the parameters that are set, staged and tagged together
    MaxCalls     \* bound: calls of clients, messages and tags

\* Partial functions from A to B.
Partial(A, B) == UNION {[D -> B] : D \in SUBSET A}
Nothing == [p \in {} |-> 0]

\* What the constants are, assumed where they get values.
SettingsConstants ==
    /\ Default \in Names
    /\ Fallbacks \in [Names -> Seq(Names)]
    /\ Forwarded \subseteq Params
    /\ Requests \cup {Initial} \subseteq Partial(Params, Values)
    /\ Factory \in Values
    /\ Expiries \subseteq Nat \cup {Never} /\ Expiries # {}
    /\ MaxTime \in Nat \ {0}

VARIABLES
    now,       \* the system clock
    s,         \* the members of CtxSettingsBase, see Store
    live,      \* the members of the block, mirrored by _activeParameters
    defaults,  \* _defaultParameters
    expiry,    \* expiry_time
    phase,     \* where work() is
    back,      \* where work() goes on after applyChangedSettings()
    pending,   \* pendingForwardParams
    calls,     \* calls, messages and tags so far
    \* history
    ledger,    \* everything ever stored, by context
    byHand,    \* the parameters set by hand for a context
    origin,    \* who staged a parameter last
    raced,     \* parameters staged while work() was applying settings
    target,    \* the parameters of the context that was switched to
    tagged     \* the parameters that the last tag staged

ghostVars == <<ledger, byHand, origin, raced, target, tagged>>
vars == <<now, s, live, defaults, expiry, phase, back, pending, calls, ghostVars>>

Ctx == [name : Names, time : 0..MaxTime]
NoCtx == [name |-> Default, time |-> 0]      \* a default-constructed SettingsCtx
Entry == [time : 1..MaxTime, settings : [Params -> Values]]
Store == [stored  : Partial(Names, Seq(Entry)),     \* _storedParameters
          auto    : Partial(Ctx, SUBSET Params),    \* _autoUpdateParameters
          active  : Ctx,                            \* _activeCtx
          staged  : Partial(Params, Values),        \* _stagedParameters
          changed : BOOLEAN]                        \* _changed
Tag == [ctx : {{}} \cup {{c} : c \in Ctx}, params : Partial(Params, Values)]

Over(f, g) == [x \in DOMAIN f \cup DOMAIN g |-> IF x \in DOMAIN f THEN f[x] ELSE g[x]]

-----------------------------------------------------------------------------
(* Searching.  A result that may be missing is a set with at most one member. *)

\* findBestMatchCtx(): the name itself, or the first the predicate accepts.
BestName(stored, n) ==
    IF n \in DOMAIN stored THEN {n}
    ELSE LET hits == {i \in DOMAIN Fallbacks[n] : Fallbacks[n][i] \in DOMAIN stored}
         IN  IF hits = {} THEN {} ELSE {Fallbacks[n][Min(hits)]}

\* findBestMatchSettingsCtx(): the latest entry that is not after the time.
BestMatch(stored, n, t) ==
    LET Upto(m) == {i \in DOMAIN stored[m] : stored[m][i].time <= t}
    IN  {[name |-> m, time |-> stored[m][Max(Upto(m))].time] :
            m \in {k \in BestName(stored, n) : Upto(k) # {}}}

\* getBestMatchStoredParameters(): the first entry of that context.
ParametersAt(stored, ctx) ==
    LET v == stored[ctx.name]
    IN  v[Min({i \in DOMAIN v : v[i].time = ctx.time})].settings

Lookup(stored, n, t) == {ParametersAt(stored, c) : c \in BestMatch(stored, n, t)}

\* Faulty: not inherited.
AutoOfNew(st, ctx) == IF ctx \in DOMAIN st.auto THEN st.auto[ctx] ELSE Params

\* The entry of _autoUpdateParameters for a context, made when it is missing:
\* inherited from the best match, or all writable members.
AutoOf(st, ctx) ==
    LET known == (IF ctx \in DOMAIN st.auto THEN {ctx}
                  ELSE BestMatch(st.stored, ctx.name, ctx.time)) \cap DOMAIN st.auto
    IN  IF known = {} THEN Params ELSE st.auto[CHOOSE c \in known : TRUE]

\* autoUpdateParameters(): what a reader of the settings is told.
AutoUpdateParameters(st, ctx) ==
    UNION {st.auto[c] : c \in BestMatch(st.stored, ctx.name, ctx.time) \cap DOMAIN st.auto}

-----------------------------------------------------------------------------
(* Storing *)

\* addStoredParameters(): before the first entry that is not earlier.
Inserted(stored, ctx, settings) ==
    LET v == IF ctx.name \in DOMAIN stored THEN stored[ctx.name] ELSE <<>>
        e == [time |-> ctx.time, settings |-> settings]
        i == Cardinality({k \in DOMAIN v : v[k].time < ctx.time}) + 1
    IN  Over([n \in {ctx.name} |-> InsertAt(v, i, e)], stored)

Expired(e, at) == expiry # Never /\ e.time + expiry <= at

\* remove_if() and erase(): the entries of a name are in the order of their
\* times (Sorted), so that those that have expired come first.
Unexpired(v, at) == SubSeq(v, Cardinality({i \in DOMAIN v : Expired(v[i], at)}) + 1, Len(v))

\* The auto-update sets that go with expired entries: those of the tail that
\* remove_if() leaves, whose contexts at this point are in part moved-from.
TailContexts(n, v, at) ==
    LET gaps == Len(v) - Len(Unexpired(v, at))
    IN  {[name |-> IF i > gaps THEN Default ELSE n, time |-> v[i].time] :
            i \in Len(v) - gaps + 1 .. Len(v)}

\* Faulty: removes everything that is past.
FirstKeptFuture(v, at) ==
    LET later == {i \in DOMAIN v : v[i].time >= at}
    IN  IF later = {} THEN Max({1, Len(v)}) ELSE Min(later)

\* The first entry kept: the last that is not in the future.
FirstKept(v, at) ==
    LET later == {i \in DOMAIN v : v[i].time >= at}
    IN  IF later = {} THEN Max({1, Len(v)})
        ELSE IF v[Min(later)].time = at THEN Min(later)
        ELSE Max({1, Min(later) - 1})

\* removeExpiredStoredParameters()
RemoveExpired(st, at) ==
    LET left(n)  == Unexpired(st.stored[n], at)
        first(n) == FirstKept(left(n), at)
        dropped  == UNION {TailContexts(n, st.stored[n], at)
                             \cup {[name |-> n, time |-> left(n)[i].time] : i \in 1..first(n) - 1} :
                           n \in DOMAIN st.stored}
    IN  [st EXCEPT !.stored = [n \in DOMAIN st.stored |-> SubSeq(left(n), first(n), Len(left(n)))],
                   !.auto = Restrict(st.auto, DOMAIN st.auto \ dropped)]

\* set(): the new parameters over those of the best match or the defaults.
SetParameters(st, params, ctx, at) ==
    LET base == Lookup(st.stored, ctx.name, ctx.time)
        settings == Over(params, IF base = {} THEN defaults ELSE CHOOSE x \in base : TRUE)
        auto == [c \in {ctx} |-> AutoOf(st, ctx) \ DOMAIN params]
    IN  RemoveExpired([st EXCEPT !.stored = Inserted(st.stored, ctx, settings),
                                 !.auto = Over(auto, st.auto)], at)

-----------------------------------------------------------------------------
(* Staging *)

\* Faulty: work() is not told.
StageSilently(st, params) == [st EXCEPT !.staged = Over(params, @)]

\* doSetStagedImpl()
Stage(st, params) ==
    LET staged == Over(params, st.staged)
    IN  [st EXCEPT !.staged = staged, !.changed = @ \/ DOMAIN staged # {}]

\* activateContext() when the best match has the name of the active context:
\* the parameters that tags may change stay as they are.
ActivateSameName(st, best) ==
    LET auto == AutoOf(st, best)
        manual == Restrict(ParametersAt(st.stored, best), Params \ auto)
    IN  [Stage(st, manual) EXCEPT !.auto = Over([c \in {best} |-> auto], st.auto),
                                  !.active = best, !.changed = TRUE]

\* Faulty: as for the same name, without what tags may change.
ActivateOtherNameInPart(st, best) ==
    [st EXCEPT !.staged = Over(@, Restrict(ParametersAt(st.stored, best), Params \ AutoOf(st, best))),
               !.active = best, !.changed = TRUE]

\* ... and when it has another: all parameters, below what is staged already.
ActivateOtherName(st, best) ==
    [st EXCEPT !.staged = Over(st.staged, ParametersAt(st.stored, best)),
               !.active = best, !.changed = TRUE]

\* activateContext()
ActivateContext(st, n, t) ==
    LET match == BestMatch(st.stored, n, t)
        best  == CHOOSE c \in match : TRUE
    IN  IF match = {} \/ match = {st.active} THEN st
        ELSE IF best.name = st.active.name THEN ActivateSameName(st, best)
        ELSE ActivateOtherName(st, best)

\* The context a tag is for: that of its best match, else the active one.
TagContext(st, tag) ==
    LET match == UNION {BestMatch(st.stored, c.name, c.time) : c \in tag.ctx}
    IN  IF match = {} THEN st.active ELSE CHOOSE c \in match : TRUE

\* The parameters of a tag that autoUpdate() stages: those that tags may
\* change; a value in use already is passed over unless the context changed.
TagStages(st, tag) ==
    LET ctx == TagContext(st, tag)
    IN  {p \in DOMAIN tag.params \cap AutoOf(st, ctx) :
            st.active # ctx \/ live[p] # tag.params[p]}

\* autoUpdate()
AutoUpdate(st, tag) ==
    LET ctx  == TagContext(st, tag)
        act  == IF tag.ctx = {} THEN st
                ELSE LET c == CHOOSE x \in tag.ctx : TRUE IN ActivateContext(st, c.name, c.time)
        put  == TagStages(st, tag)
        staged == Over(Restrict(tag.params, put), act.staged)
        idle == tag.ctx = {} /\ put = {} /\ DOMAIN staged = {}
    IN  IF tag.ctx = {} /\ DOMAIN tag.params = {}
        THEN [st EXCEPT !.changed = @ /\ DOMAIN st.staged # {}]
        ELSE [act EXCEPT !.staged = staged,
                         !.auto = Over([c \in {ctx} |-> AutoOf(act, ctx)], act.auto),
                         !.changed = ~idle /\ (@ \/ st.active # ctx \/ put # {})]

-----------------------------------------------------------------------------
(* History: what is stored, by whom, without anything ever being removed.  *)

Origins == {"nobody", "client", "context", "tag", "resend"}

\* The latest context of a name, or of its first fallback, up to a time.
LedgerMatch(n, t) ==
    LET known == {c.name : c \in DOMAIN ledger}
        hits  == {i \in DOMAIN Fallbacks[n] : Fallbacks[n][i] \in known}
        names == IF n \in known THEN {n} ELSE IF hits = {} THEN {} ELSE {Fallbacks[n][Min(hits)]}
        past  == {c \in DOMAIN ledger : c.name \in names /\ c.time <= t}
    IN  {c \in past : \A d \in past : d.time <= c.time}

StoredContexts(st) ==
    UNION {{[name |-> n, time |-> e.time] : e \in ToSet(st.stored[n])} : n \in DOMAIN st.stored}

\* Parameters for a time that is past may be based on what was removed already.
RecordSet(params, ctx) ==
    LET match == LedgerMatch(ctx.name, ctx.time) \cap StoredContexts(s)
        base  == IF match = {} THEN defaults ELSE ledger[CHOOSE c \in match : TRUE]
    IN  /\ ledger' = Over([c \in {ctx} |-> Over(params, base)], ledger)
        /\ byHand' = Over([c \in {ctx} |-> DOMAIN params \cup UNION {byHand[d] : d \in match}], byHand)

\* A switch of the context stages all parameters that are not staged yet, a
\* later set of the same context those that were set by hand.
RecordSwitch(old, new, tags) ==
    LET staged == IF old.active = new.active \/ new.active \notin DOMAIN ledger THEN {}
                  ELSE IF old.active.name = new.active.name THEN byHand[new.active]
                  ELSE Params \ DOMAIN old.staged
    IN  /\ origin' = [p \in Params |-> IF p \in tags THEN "tag"
                                       ELSE IF p \in staged THEN "context" ELSE origin[p]]
        /\ target' = [p \in Params |-> IF p \in staged THEN ledger[new.active][p] ELSE target[p]]
        /\ raced'  = raced \ (tags \cup staged)

-----------------------------------------------------------------------------
(* Calls of clients, from any thread *)

Count == calls < MaxCalls /\ calls' = calls + 1

\* set() and the clock touch nothing that the steps of applyChangedSettings()
\* look at: that they may come between those is left out.
Undisturbed == phase \in {"idle", "input", "tagged"}

\* set() for a context of its own, at a given time or now.
Set(params, ctx) ==
    /\ Undisturbed
    /\ Count
    /\ ctx \notin DOMAIN ledger \cup DOMAIN s.auto
    /\ now' \in now .. Min({now + 1, MaxTime})
    /\ s' = SetParameters(s, params, ctx, now')
    /\ RecordSet(params, ctx)
    /\ UNCHANGED <<live, defaults, expiry, phase, back, pending, origin, raced, target, tagged>>

\* While work() applies settings, up to its last setChanged(false), and while
\* it holds parameters that it may stage again, a staging is in a race.
Racing == phase \in {"applied", "cleared", "published"} \/ DOMAIN pending # {}

\* setStaged()
SetStaged(params) ==
    /\ Count
    /\ s' = Stage(s, params)
    /\ origin' = [p \in Params |-> IF p \in DOMAIN params THEN "client" ELSE origin[p]]
    /\ raced' = IF Racing THEN raced \cup DOMAIN params ELSE raced \ DOMAIN params
    /\ UNCHANGED <<now, live, defaults, expiry, phase, back, pending, ledger, byHand, target, tagged>>

-----------------------------------------------------------------------------
(* Messages to the block, handled between two calls of work() *)

Message ==
    /\ phase = "idle"
    /\ Count
    /\ UNCHANGED <<now, expiry, phase, back, pending, tagged>>

\* propertyCallbackActiveContext()
ActivateMessage(ctx) ==
    /\ Message
    /\ s' = ActivateContext(s, ctx.name, ctx.time)
    /\ RecordSwitch(s, s', {})
    /\ UNCHANGED <<live, defaults, ledger, byHand>>

\* removeContext(): one entry of a context that is not the default; when its
\* name is the active one, the default context is activated.  What had been
\* removed before as outdated is forgotten for good.
RemoveContext(ctx) ==
    /\ Message
    /\ ctx.name # Default /\ ctx.name \in DOMAIN s.stored
    /\ \E i \in DOMAIN s.stored[ctx.name] :
          LET v == s.stored[ctx.name]
              w == RemoveAt(v, i)
              st == [s EXCEPT !.stored =
                        IF w = <<>> THEN Restrict(s.stored, DOMAIN s.stored \ {ctx.name})
                        ELSE [s.stored EXCEPT ![ctx.name] = w]]
          IN  /\ v[i].time = ctx.time /\ \A j \in 1..i - 1 : v[j].time # ctx.time
              /\ s' = IF s.active.name = ctx.name THEN ActivateContext(st, Default, now) ELSE st
    /\ ledger' = Restrict(ledger, {c \in DOMAIN ledger : c.name # ctx.name \/ c \in StoredContexts(s')})
    /\ RecordSwitch(s, s', {})
    /\ UNCHANGED <<live, defaults, byHand>>

\* storeDefaults()
StoreDefaults ==
    /\ Message
    /\ defaults' = live
    /\ UNCHANGED <<s, live, ledger, byHand, origin, raced, target>>

\* resetDefaults(): stores the defaults, activates what is right now, applies.
ResetDefaults ==
    LET ctx == [name |-> Default, time |-> now]
        st  == ActivateContext([s EXCEPT !.stored = Inserted(s.stored, ctx, defaults),
                                         !.auto = Over([c \in {ctx} |-> AutoOf(s, ctx)], s.auto)],
                               Default, now)
    IN  /\ ctx \notin DOMAIN ledger \cup DOMAIN s.auto
        /\ Message
        /\ live' = Over(st.staged, live)
        /\ s' = RemoveExpired([st EXCEPT !.staged = Nothing, !.changed = FALSE], now)
        /\ ledger' = Over([c \in {ctx} |-> defaults], ledger)
        /\ byHand' = Over([c \in {ctx} |-> UNION {byHand[d] : d \in LedgerMatch(Default, now) \cap StoredContexts(s)}], byHand)
        /\ origin' = [p \in Params |-> "nobody"]
        /\ raced' = {}
        /\ UNCHANGED <<defaults, target>>

-----------------------------------------------------------------------------
(* work() *)

work == <<now, defaults, expiry, calls, ledger, byHand, target, tagged>>

\* The calls of applyChangedSettings(): at the start of workInternal(), before
\* and after the tags of the chunk.
Applies(from, next) ==
    /\ phase = from
    /\ phase' = IF s.changed THEN "apply" ELSE next
    /\ back' = next
    /\ UNCHANGED <<work, s, live, pending, origin, raced>>

BeginWork  == Applies("idle", "decide")
BeginChunk == Applies("chunk", "input")
EndTags    == Applies("tagged", "finish")

\* applyStagedParameters() while it holds the mutex.  What it says is to be
\* forwarded is kept only by the first call of applyChangedSettings().
Apply ==
    /\ phase = "apply" /\ phase' = "applied"
    /\ live' = Over(s.staged, live)
    /\ pending' = IF back = "decide" THEN Restrict(s.staged, DOMAIN s.staged \cap Forwarded) ELSE pending
    /\ UNCHANGED <<work, s, back, origin, raced>>

\* _stagedParameters.clear()
Clear ==
    /\ phase = "applied" /\ phase' = "cleared"
    /\ s' = [s EXCEPT !.staged = Nothing]
    /\ UNCHANGED <<work, live, back, pending, origin, raced>>

\* _changed.store_release(false)
Unset ==
    /\ phase = "cleared" /\ phase' = "published"
    /\ s' = [s EXCEPT !.changed = FALSE]
    /\ UNCHANGED <<work, live, back, pending, origin, raced>>

\* setChanged(false) in applyChangedSettings(), after forwarding
UnsetAgain ==
    /\ phase = "published" /\ phase' = back
    /\ s' = [s EXCEPT !.changed = FALSE]
    /\ UNCHANGED <<work, live, back, pending, origin, raced>>

\* No chunk: what was to be forwarded is staged again for the next call.
NoChunk ==
    /\ phase = "decide" /\ phase' = "idle"
    /\ s' = IF DOMAIN pending = {} THEN s ELSE Stage(s, pending)
    /\ origin' = [p \in Params |-> IF p \in DOMAIN pending THEN "resend" ELSE origin[p]]
    /\ pending' = Nothing
    /\ UNCHANGED <<work, live, back, raced>>

Chunk ==
    /\ phase = "decide" /\ phase' = "chunk"
    /\ UNCHANGED <<work, s, live, back, pending, origin, raced>>

\* One tag of the chunk in applyInputTagsFromPorts()
ReceiveTag(tag) ==
    /\ phase \in {"input", "tagged"} /\ phase' = "tagged"
    /\ Count
    /\ s' = AutoUpdate(s, tag)
    /\ tagged' = TagStages(s, tag)
    /\ RecordSwitch(s, s', TagStages(s, tag))
    /\ UNCHANGED <<now, live, defaults, expiry, back, pending, ledger, byHand>>

\* The samples and what is to be forwarded are published.
Finish ==
    /\ phase \in {"input", "finish"} /\ phase' = "idle"
    /\ pending' = Nothing
    /\ UNCHANGED <<work, s, live, back, origin, raced>>

Tick ==
    /\ Undisturbed
    /\ now < MaxTime /\ now' = now + 1
    /\ UNCHANGED <<s, live, defaults, expiry, phase, back, pending, calls, ghostVars>>

Times == 1..MaxTime

Work == BeginWork \/ BeginChunk \/ EndTags \/ Apply \/ Clear \/ Unset \/ UnsetAgain
        \/ NoChunk \/ Chunk \/ Finish

Next ==
    \/ Work
    \/ \E tag \in [ctx : {{}} \cup {{c} : c \in [name : Names, time : Times]},
                    params : Requests \cup {Nothing}] : ReceiveTag(tag)
    \/ \E params \in Requests :
          \/ SetStaged(params)
          \/ \E n \in Names, t \in Times : Set(params, [name |-> n, time |-> t])
    \/ \E n \in Names, t \in Times :
          ActivateMessage([name |-> n, time |-> t]) \/ RemoveContext([name |-> n, time |-> t])
    \/ StoreDefaults
    \/ ResetDefaults
    \/ Tick

\* Block::init(): settings().init(), then the first parameters are applied and
\* those to be forwarded staged again.
Init ==
    LET factory == [p \in Params |-> Factory]
        ctx == [name |-> Default, time |-> 1]
        first == [stored |-> [n \in {Default} |-> <<[time |-> 1, settings |-> Over(Initial, factory)]>>],
                  auto |-> [c \in {ctx} |-> Params \ DOMAIN Initial],
                  active |-> ctx, staged |-> Nothing, changed |-> FALSE]
    IN  /\ now = 1
        /\ defaults = factory
        /\ live = Over(Initial, factory)
        /\ s = Stage(first, Restrict(Initial, DOMAIN Initial \cap Forwarded))
        /\ expiry \in Expiries
        /\ phase = "idle" /\ back = "idle" /\ pending = Nothing
        /\ calls = 0
        /\ ledger = [c \in {ctx} |-> Over(Initial, factory)]
        /\ byHand = [c \in {ctx} |-> DOMAIN Initial]
        /\ origin = [p \in Params |-> "nobody"] /\ raced = {}
        /\ target = factory /\ tagged = {}

Spec == Init /\ [][Next]_vars

-----------------------------------------------------------------------------
(* Properties *)

\* Searches take the entries of a name to be in the order of their times.
Sorted(v) == \A i, j \in DOMAIN v : i < j => v[i].time <= v[j].time

TypeOK ==
    /\ now \in 1..MaxTime
    /\ \A n \in DOMAIN s.stored : n \in Names /\ s.stored[n] \in Seq(Entry) /\ Sorted(s.stored[n])
    /\ DOMAIN s.auto \subseteq Ctx /\ \A c \in DOMAIN s.auto : s.auto[c] \subseteq Params
    /\ s.active \in Ctx /\ s.changed \in BOOLEAN
    /\ {s.staged, pending} \subseteq Partial(Params, Values)
    /\ {live, defaults, target} \subseteq [Params -> Values]
    /\ phase \in {"idle", "decide", "chunk", "input", "tagged", "finish", "apply",
                  "applied", "cleared", "published"}
    /\ origin \in [Params -> Origins]

\* Whatever set() removes as outdated, a look-up for now or for later finds
\* what it would find had nothing ever been removed: the latest settings of
\* the context that are not in the future, unless those have expired.
LookupsSurviveRemoval ==
    \A n \in Names, t \in now..MaxTime :
        LET right == LedgerMatch(n, t)
            found == BestMatch(s.stored, n, t)
        IN  /\ found \subseteq right
            /\ \A c \in right \ found : Expired(c, now)
            /\ expiry = Never => \A c \in found : ParametersAt(s.stored, c) = ledger[c]

\* A tag does not stage a parameter that was set by hand for the context in
\* force or for one that it has inherited from: while the entry of that
\* context is stored, and if entries do not expire.
ManualIsKept ==
    [][phase' = "tagged" /\ calls' # calls /\ expiry = Never /\ s'.active \in StoredContexts(s')
         => tagged' \cap byHand[s'.active] = {}]_vars

\* What a client has staged leaves the staged parameters only by becoming the
\* value of the block, or because something else is staged for the parameter
\* later, unless it was staged while work() was applying the ones before; and as
\* long as it waits the next call of work() is told so.
NothingDropped ==
    [][\A p \in Params \ raced :
         origin[p] = "client" /\ p \in DOMAIN s.staged =>
            \/ /\ p \in DOMAIN s'.staged /\ s'.staged[p] = s.staged[p]
               /\ phase' = "idle" /\ p \notin raced' => s'.changed
            \/ p \notin DOMAIN s'.staged /\ live'[p] = s.staged[p]
            \/ origin'[p] # "client"
            \/ calls' # calls /\ phase' = phase /\ s'.active = s.active]_vars

\* When work() is done and nothing is pending, the parameters that the last
\* switch of the context decided have the values stored for that context: a
\* block never runs with half of the settings of a context.
ContextInForce ==
    expiry = Never /\ phase = "idle" /\ ~s.changed =>
        \A p \in Params : origin[p] = "context" => live[p] = target[p]

\* A tag without a context changes only the parameters that the settings say
\* tags may change.
OnlyAutomaticFollowTags ==
    [][phase' = "tagged" /\ calls' # calls /\ s'.active = s.active
         => tagged' \subseteq AutoUpdateParameters(s, [name |-> s.active.name, time |-> now])]_vars
=============================================================================
