--------------------------- MODULE DataSinkProofs ---------------------------
(***************************************************************************)
(* A stream reaches its pollers whole, for every set of clients and every  *)
(* choice of what they ask for, of the length of the stream and of the     *)
(* room in the rings.                                                      *)
(*                                                                         *)
(* What a client has received and what waits for it is, with what was      *)
(* dropped, all that its listener has been given: everything before the    *)
(* input at hand, and that input too once the listener has been served     *)
(* (Reached).  Tags are one step ahead of their samples, in order, and     *)
(* never behind the position of the reader.                                *)
(***************************************************************************)
EXTENDS DataSink, SequenceTheorems, WellFoundedInduction, TLAPS

Tags == {None, "start", "end"}
Tag == [at : Nat, of : Nat]
Streams == {c \in Clients : sub[c].kind = "stream"}

StreamPoller == [samples : Seq(Nat), tags : Seq(Tag), sets : {<<>>}, finished : BOOLEAN,
                 read : Nat, dropped : Nat]
StreamListener == [published : Nat, pending : BOOLEAN, captures : {<<>>}, expired : BOOLEAN]
Received == [samples : Seq(Nat), tags : SUBSET Tag, sets : {{}}]

Out == {"out", "atSink", "refused"}
In == {"has", "polls", "takes", "done", "gone"}
Serves == {"serves", "tags", "samples", "publishes", "waits"}

(* Types, as far as streams depend on them                                 *)
Typed ==
    /\ case \in Cases
    /\ lock \in Threads \cup {Nobody} /\ registered \in BOOLEAN /\ ended \in BOOLEAN
    /\ strayStop \in BOOLEAN
    /\ listeners \in Seq(Clients)
    /\ DOMAIN poller = Clients /\ \A c \in Streams : poller[c] \in StreamPoller
    /\ DOMAIN lst = Clients /\ \A c \in Streams : lst[c] \in StreamListener
    /\ DOMAIN got = Clients /\ \A c \in Streams : got[c] \in Received
    /\ cpc \in [Clients -> Out \cup In]
    /\ DOMAIN seen = Clients /\ \A c \in Streams : seen[c] \in BOOLEAN
    /\ DOMAIN count = Clients
    /\ pc \in [Threads -> {"idle", "atLock", "unregister", "stopLock", "stopped"} \cup Serves]
    /\ at \in [Threads -> Nat \ {0}] /\ n \in [Threads -> [samples : Int, tags : Int]]
    /\ DOMAIN sets = Threads
    /\ chunk \in [from : Nat, size : Nat, mark : Tags]
    /\ marks \in Seq(Tags)
    /\ base \in [Clients -> Nat]

(* Who serves holds the lock; the worker has its input from the call to    *)
(* the end of processBulk(), and once stop() is under way, in order, there *)
(* is no more.                                                             *)
Turns ==
    /\ \A t \in Threads : pc[t] \in Serves <=> lock = t
    /\ chunk # NoInput => pc["worker"] \in {"atLock"} \cup Serves
    /\ pc["worker"] = "atLock" => chunk # NoInput
    /\ pc["other"] # "atLock"
    /\ \A t \in Threads :
        /\ pc[t] \in {"tags", "samples"} => ~InStop(t)
        /\ pc[t] \in {"stopLock", "stopped"} \/ (pc[t] \in Serves /\ InStop(t)) => ~registered
    /\ ended => ~registered
    /\ Stopping /\ ~strayStop => chunk = NoInput
    /\ chunk # NoInput =>
        /\ chunk.size >= 1 /\ chunk.from + chunk.size = Offered
        /\ marks[chunk.from + 1] = chunk.mark
        /\ \A k \in chunk.from + 2 .. Offered : marks[k] = None

(* The listeners are those of the clients that have a poller, once each.   *)
Listed ==
    /\ \A i, j \in DOMAIN listeners : listeners[i] = listeners[j] => i = j
    /\ \A i \in DOMAIN listeners : cpc[listeners[i]] \in In
    /\ \A c \in Streams : cpc[c] \in In \ {"gone"} => c \in Range(listeners)
    /\ \A c \in Streams : lst[c].expired => Gone(c)
    /\ \A t \in Threads :
        /\ pc[t] \in Serves \ {"serves"} => at[t] \in DOMAIN listeners
        /\ pc[t] \in {"tags", "samples"} => Served(t) \in Streams
        /\ pc[t] \in {"publishes", "waits"} /\ ~InStop(t) => Served(t) \notin Streams
        /\ sets[t] # <<>> => pc[t] \in {"publishes", "waits"} /\ Served(t) \notin Streams

NewTags(c) == (IF lst[c].pending THEN 1 ELSE 0) + (IF chunk.mark # None THEN 1 ELSE 0)

(* What is to be published for the listener in turn                        *)
Planned ==
    pc["worker"] \in {"tags", "samples"} =>
        LET c == Served("worker")
        IN  /\ n["worker"].samples \in 1..chunk.size
            /\ sub[c].block => n["worker"].samples = chunk.size
            /\ sub[c].block /\ pc["worker"] = "tags" => n["worker"].tags = NewTags(c)

(* A client sees the end when nothing more can come.                       *)
Ends(c) ==
    /\ cpc[c] \in Out => ~seen[c] /\ got[c] = NothingGot
    /\ cpc[c] = "takes" => count[c] \in 1..Len(poller[c].samples)
    /\ seen[c] => poller[c].finished
    /\ cpc[c] \in In /\ poller[c].finished => ~registered
    /\ cpc[c] = "done" => seen[c] /\ (~strayStop => poller[c].samples = <<>>)

(* What a client has received, and will                                    *)
All(c) == got[c].samples \o poller[c].samples

(* The samples that the listener of c has been given                       *)
Done(c) == lock = "worker" /\ \E i \in DOMAIN listeners : i < at["worker"] /\ listeners[i] = c
Reached(c) == IF chunk = NoInput \/ Done(c) THEN Offered ELSE chunk.from

Whole(c) ==
    /\ poller[c].read = Len(got[c].samples)
    /\ lst[c].published = Len(All(c))
    /\ Len(All(c)) + poller[c].dropped = Reached(c) - base[c]
    /\ \A i \in DOMAIN All(c) : All(c)[i] \in base[c] + 1 .. Reached(c)
    /\ \A i, j \in DOMAIN All(c) : i < j => All(c)[i] < All(c)[j]
    /\ sub[c].block => poller[c].dropped = 0 /\ All(c) = Span(base[c], Len(All(c)))

(* Between the tags and the samples that they belong to                    *)
Between(c) == pc["worker"] = "samples" /\ Served("worker") = c
MetaTag == [at |-> 0, of |-> Meta]
AllTagsOf(c) == got[c].tags \cup Range(poller[c].tags)

Tagged(c) ==
    LET tags == poller[c].tags
    IN  /\ \A i, j \in DOMAIN tags : i < j => tags[i].at <= tags[j].at
        /\ \A i \in DOMAIN tags :
            /\ poller[c].read <= tags[i].at /\ tags[i].at <= Len(All(c))
            /\ tags[i].at = Len(All(c)) => Between(c)
        /\ \A tag \in got[c].tags : tag.at < Len(got[c].samples)
        /\ \A tag \in AllTagsOf(c) :
            tag.of # Meta => tag.of = IF tag.at < Len(All(c)) THEN All(c)[tag.at + 1] ELSE chunk.from + 1

(* A client that must not lose anything loses no tag.                      *)
TagsKept(c) ==
    /\ \A i \in DOMAIN All(c) :
        /\ marks[All(c)[i]] # None => [at |-> i - 1, of |-> All(c)[i]] \in AllTagsOf(c)
        /\ i = 1 => MetaTag \in AllTagsOf(c)
    /\ Between(c) =>
        /\ chunk.mark # None => [at |-> Len(All(c)), of |-> chunk.from + 1] \in Range(poller[c].tags)
        /\ Len(All(c)) = 0 => MetaTag \in Range(poller[c].tags)
    /\ Len(All(c)) = 0 /\ ~Between(c) => lst[c].pending

Feed(c) == Whole(c) /\ Tagged(c) /\ (sub[c].block => TagsKept(c))

IInv ==
    /\ Typed /\ Turns /\ Listed /\ Planned
    /\ \A c \in Streams : Ends(c)
    /\ \A c \in Streams : Polls(c) => Feed(c)

-----------------------------------------------------------------------------
(* Operators *)

(* The least member of a set of naturals                                   *)
LEMMA LeastMember ==
    ASSUME NEW S \in SUBSET Nat, S # {}
    PROVE  Min(S) \in S /\ \A y \in S : Min(S) <= y
<1>1. IsWellFoundedOn({ss \in Nat \X Nat : ss[1] < ss[2]}, Nat)
  BY NatLessThanWellFounded DEF OpToRel
<1>2. PICK x \in S : \A y \in S : ~ (<<y, x>> \in {ss \in Nat \X Nat : ss[1] < ss[2]})
  BY WFMin, <1>1, Zenon
<1>3. ASSUME NEW y \in S PROVE x <= y
  <2>1. y \in Nat /\ x \in Nat
    OBVIOUS
  <2>2. ASSUME y < x PROVE <<y, x>> \in {ss \in Nat \X Nat : ss[1] < ss[2]}
    BY <2>1, <2>2
  <2> QED
    BY <1>2, <2>1, <2>2
<1> QED
  BY <1>3 DEF Min

(* What holds for a function at 0, and at each number if at the one before *)
LEMMA StepsStay ==
    ASSUME NEW S, NEW top \in Nat, NEW f, f[0] \in S, \A i \in 1..top : f[i - 1] \in S => f[i] \in S
    PROVE  \A i \in 0..top : f[i] \in S
<1> DEFINE B == {i \in 0..top : f[i] \notin S}
<1> SUFFICES ASSUME B # {} PROVE FALSE
  OBVIOUS
<1>1. PICK b \in 0..top : f[b] \notin S /\ \A y \in B : b <= y
  <2>1. B \in SUBSET Nat
    OBVIOUS
  <2>2. Min(B) \in B /\ \A y \in B : Min(B) <= y
    BY <2>1, LeastMember
  <2> QED
    BY <2>2
<1>2. b \in 1..top /\ b - 1 \in 0..top /\ ~ (b <= b - 1)
  BY <1>1
<1>3. f[b - 1] \in S
  BY <1>1, <1>2
<1> QED
  BY <1>1, <1>2, <1>3

(* A function that goes on from each number as "step" says                 *)
Steps(S, top, first, step) ==
    \E f \in [0..top -> S] : f[0] = first /\ \A i \in 1..top : f[i] = step[i][f[i - 1]]

LEMMA StepsExist ==
    ASSUME NEW S, NEW top \in Nat, NEW first \in S, NEW step \in [1..top -> [S -> S]]
    PROVE  Steps(S, top, first, step)
<1> DEFINE Upto(k) == \E f \in [0..k -> S] : f[0] = first /\ \A i \in 1..k : f[i] = step[i][f[i - 1]]
           reached == {k \in 0..top : Upto(k)}
           g == [k \in 0..top |-> k]
<1>1. Upto(0)
  <2>1. PICK f \in [0..0 -> S] : f = [i \in 0..0 |-> first]
    OBVIOUS
  <2>2. f[0] = first /\ 1..0 = {}
    BY <2>1
  <2> QED
    BY <2>2
<1>2. ASSUME NEW k \in 1..top, Upto(k - 1) PROVE Upto(k)
  <2>1. PICK f \in [0..k - 1 -> S] : f[0] = first /\ \A i \in 1..k - 1 : f[i] = step[i][f[i - 1]]
    BY <1>2
  <2>2. step[k][f[k - 1]] \in S
    <3>1. k - 1 \in 0..k - 1
      OBVIOUS
    <3>2. f[k - 1] \in S /\ step[k] \in [S -> S]
      BY <3>1
    <3> QED
      BY <3>2
  <2>3. PICK e : e = [i \in 0..k |-> IF i = k THEN step[k][f[k - 1]] ELSE f[i]]
    OBVIOUS
  <2>4. \A i \in 0..k : i # k => i \in 0..k - 1 /\ e[i] = f[i]
    BY <2>3
  <2>5. e[k] = step[k][f[k - 1]]
    BY <2>3
  <2>6. e \in [0..k -> S]
    BY <2>2, <2>3, <2>4
  <2>7. e[0] = first
    BY <2>1, <2>4
  <2>8. ASSUME NEW i \in 1..k PROVE e[i] = step[i][e[i - 1]]
    <3>1. i - 1 \in 0..k /\ i - 1 # k /\ i \in 0..k
      OBVIOUS
    <3>2. e[i - 1] = f[i - 1]
      BY <2>4, <3>1
    <3>3. CASE i = k
      BY <2>5, <3>2, <3>3
    <3>4. CASE i # k
      <4>1. i \in 1..k - 1
        BY <3>4
      <4> QED
        BY <2>1, <2>4, <3>1, <3>2, <3>4, <4>1
    <3> QED
      BY <3>3, <3>4
  <2> QED
    BY <2>6, <2>7, <2>8
<1> HIDE DEF Upto
<1>3. 0 \in 0..top /\ top \in 0..top /\ \A i \in 1..top : i \in 0..top /\ i - 1 \in 0..top
  OBVIOUS
<1>4. \A i \in 0..top : g[i] = i
  OBVIOUS
<1>5. g[0] \in reached
  BY <1>1, <1>3, <1>4
<1>6. \A i \in 1..top : g[i - 1] \in reached => g[i] \in reached
  BY <1>2, <1>3, <1>4
<1>7. g[top] \in reached
  <2> HIDE DEF g, reached
  <2>1. \A i \in 0..top : g[i] \in reached
    BY <1>5, <1>6, StepsStay
  <2> QED
    BY <1>3, <2>1
<1> QED
  BY <1>3, <1>4, <1>7 DEF Upto, Steps

LEMMA MinOfTwo ==
    ASSUME NEW a \in Int, NEW b \in Int
    PROVE  Min({a, b}) = IF a <= b THEN a ELSE b
<1>1. \E x \in {a, b} : \A y \in {a, b} : x <= y
  OBVIOUS
<1>2. Min({a, b}) \in {a, b} /\ \A y \in {a, b} : Min({a, b}) <= y
  BY <1>1, Zenon DEF Min
<1> QED
  BY <1>2

(* The first k elements, or all                                            *)
LEMMA FirstOfIs ==
    ASSUME NEW S, NEW q \in Seq(S), NEW k \in Int,
           NEW m \in Nat, m = IF k < 0 THEN 0 ELSE IF k <= Len(q) THEN k ELSE Len(q)
    PROVE  /\ FirstOf(q, k) \in Seq(S) /\ Len(FirstOf(q, k)) = m /\ m <= Len(q)
           /\ \A i \in 1..m : FirstOf(q, k)[i] = q[i]
<1>1. Len(q) \in Nat /\ \A i \in 1..Len(q) : q[i] \in S
  BY LenProperties, ElementOfSeq
<1>2. PICK e \in Int : e = (IF k <= Len(q) THEN k ELSE Len(q)) /\ FirstOf(q, k) = SubSeq(q, 1, e)
  <2>1. Min({k, Len(q)}) = IF k <= Len(q) THEN k ELSE Len(q)
    BY <1>1, MinOfTwo
  <2>2. FirstOf(q, k) = SubSeq(q, 1, IF k <= Len(q) THEN k ELSE Len(q))
    BY <2>1, Zenon DEF FirstOf
  <2>3. (IF k <= Len(q) THEN k ELSE Len(q)) \in Int
    BY <1>1
  <2> QED
    BY <2>2, <2>3, Zenon
<1>3. /\ SubSeq(q, 1, e) \in Seq(S)
      /\ Len(SubSeq(q, 1, e)) = IF 1 <= e THEN e - 1 + 1 ELSE 0
      /\ \A i \in 1..e - 1 + 1 : SubSeq(q, 1, e)[i] = q[1 + i - 1]
  <2>1. \A i \in 1..e : q[i] \in S
    BY <1>1, <1>2
  <2> QED
    BY <2>1, SubSeqProperties
<1> HIDE DEF FirstOf
<1>4. Len(FirstOf(q, k)) = m /\ m <= Len(q) /\ FirstOf(q, k) \in Seq(S)
  BY <1>1, <1>2, <1>3
<1>5. ASSUME NEW i \in 1..m PROVE FirstOf(q, k)[i] = q[i]
  <2>1. i \in 1..e - 1 + 1 /\ 1 + i - 1 = i
    BY <1>1, <1>2
  <2> QED
    BY <1>2, <1>3, <2>1
<1> QED
  BY <1>4, <1>5

LEMMA FirstOfSome ==
    ASSUME NEW S, NEW q \in Seq(S), NEW k \in 0..Len(q)
    PROVE  /\ FirstOf(q, k) \in Seq(S) /\ Len(FirstOf(q, k)) = k
           /\ \A i \in 1..k : FirstOf(q, k)[i] = q[i]
<1>1. Len(q) \in Nat
  BY LenProperties
<1>2. k \in Int /\ k \in Nat /\ k = IF k < 0 THEN 0 ELSE IF k <= Len(q) THEN k ELSE Len(q)
  BY <1>1
<1> QED
  BY <1>2, FirstOfIs, Zenon

(* What is left of a sequence without its first k elements                 *)
LEMMA RestIs ==
    ASSUME NEW S, NEW q \in Seq(S), NEW k \in 0..Len(q)
    PROVE  /\ SubSeq(q, k + 1, Len(q)) \in Seq(S)
           /\ Len(SubSeq(q, k + 1, Len(q))) = Len(q) - k
           /\ \A i \in 1..Len(q) - k : SubSeq(q, k + 1, Len(q))[i] = q[k + i]
<1>1. Len(q) \in Nat /\ \A i \in 1..Len(q) : q[i] \in S
  BY LenProperties, ElementOfSeq
<1>2. \A i \in k + 1..Len(q) : q[i] \in S
  BY <1>1
<1>3. /\ SubSeq(q, k + 1, Len(q)) \in Seq(S)
      /\ Len(SubSeq(q, k + 1, Len(q))) = IF k + 1 <= Len(q) THEN Len(q) - (k + 1) + 1 ELSE 0
      /\ \A i \in 1..Len(q) - (k + 1) + 1 : SubSeq(q, k + 1, Len(q))[i] = q[k + 1 + i - 1]
  BY <1>1, <1>2, SubSeqProperties
<1>4. ASSUME NEW i \in 1..Len(q) - k PROVE SubSeq(q, k + 1, Len(q))[i] = q[k + i]
  <2>1. i \in 1..Len(q) - (k + 1) + 1 /\ k + 1 + i - 1 = k + i
    BY <1>1
  <2> QED
    BY <1>3, <2>1
<1> QED
  BY <1>1, <1>3, <1>4

LEMMA Joined == \A s, t, u \in Seq(Nat) : (s \o t) \o u = s \o (t \o u)
  BY ConcatAssociative, SMTT(60)

LEMMA SpanIs ==
    ASSUME NEW from \in Nat, NEW size \in Nat
    PROVE  /\ Span(from, size) \in Seq(Nat) /\ Len(Span(from, size)) = size
           /\ \A i \in 1..size : Span(from, size)[i] = from + i
  BY DEF Span

(* What Live has at each number of listeners                               *)
LiveAt(i, live) ==
    /\ live \in Seq(Clients)
    /\ \A a \in 1..Len(live) : \E k \in 1..i : live[a] = listeners[k] /\ ~lst[listeners[k]].expired
    /\ \A k \in 1..i : lst[listeners[k]].expired \/ \E a \in 1..Len(live) : live[a] = listeners[k]
    /\ \A a, b \in 1..Len(live) : live[a] = live[b] => a = b

LEMMA LiveExists ==
    ASSUME listeners \in Seq(Clients)
    PROVE  /\ Live[0] = <<>>
           /\ \A i \in 1..Len(listeners) :
                Live[i] = IF lst[listeners[i]].expired THEN Live[i - 1] ELSE Append(Live[i - 1], listeners[i])
<1> DEFINE len == Len(listeners)
           Next(i, live) == IF lst[listeners[i]].expired THEN live ELSE Append(live, listeners[i])
           Body(f) == [i \in 0..len |-> IF i = 0 THEN <<>> ELSE IF lst[listeners[i]].expired THEN f[i - 1]
                                                       ELSE Append(f[i - 1], listeners[i])]
<1>1. len \in Nat /\ \A i \in 1..len : listeners[i] \in Clients
  BY LenProperties, ElementOfSeq
<1>2. PICK step : step = [i \in 1..len |-> [live \in Seq(Clients) |-> Next(i, live)]]
  OBVIOUS
<1>3. step \in [1..len -> [Seq(Clients) -> Seq(Clients)]]
  <2>1. ASSUME NEW i \in 1..len, NEW live \in Seq(Clients) PROVE Next(i, live) \in Seq(Clients)
    BY <1>1, AppendProperties
  <2> HIDE DEF Next, len
  <2> QED
    BY <1>2, <2>1
<1>4. PICK f \in [0..len -> Seq(Clients)] : f[0] = <<>> /\ \A i \in 1..len : f[i] = step[i][f[i - 1]]
  <2> HIDE DEF len
  <2>1. <<>> \in Seq(Clients)
    BY EmptySeq
  <2>2. Steps(Seq(Clients), len, <<>>, step)
    BY <1>1, <1>3, <2>1, StepsExist, Zenon
  <2> QED
    BY <2>2, Zenon DEF Steps
<1>5. \A i \in 1..len : i - 1 \in 0..len /\ i \in 0..len /\ i # 0
  BY <1>1
<1>6. \A i \in 1..len : f[i] = Next(i, f[i - 1])
  <2> HIDE DEF Next, len
  <2> QED
    BY <1>2, <1>4, <1>5
<1>7. f = Body(f)
  <2>1. \A i \in 0..len : i = 0 \/ i \in 1..len
    BY <1>1
  <2>2. \A i \in 0..len : f[i] = IF i = 0 THEN <<>> ELSE IF lst[listeners[i]].expired THEN f[i - 1]
                                                       ELSE Append(f[i - 1], listeners[i])
    <3> HIDE DEF len
    <3> QED
      BY <1>4, <1>6, <2>1, <1>5, Zenon
  <2> HIDE DEF len
  <2> QED
    BY <1>4, <2>2
<1>8. Live = Body(Live)
  <2>1. Live = CHOOSE g : g = Body(g)
    BY DEF Live
  <2> HIDE DEF Body
  <2> QED
    BY <1>7, <2>1, Zenon
<1>9. 0 \in 0..len
  BY <1>1
<1> HIDE DEF len
<1> QED
  BY <1>5, <1>8, <1>9 DEF len

(* erase_if(): the listeners that have not expired                         *)
LEMMA LiveIs ==
    ASSUME listeners \in Seq(Clients), NEW n1 \in Nat, n1 = Len(listeners),
           \A i, j \in 1..n1 : listeners[i] = listeners[j] => i = j
    PROVE  LiveAt(n1, Live[n1])
<1>1. \A i \in 1..n1 : listeners[i] \in Clients /\ i - 1 \in 0..n1 /\ i \in 0..n1
  BY ElementOfSeq
<1>2. LiveAt(0, Live[0])
  <2>1. Live[0] = <<>>
    BY LiveExists
  <2>2. <<>> \in Seq(Clients) /\ Len(<<>>) = 0 /\ 1..0 = {}
    BY EmptySeq
  <2> QED
    BY <2>1, <2>2 DEF LiveAt
<1>3. ASSUME NEW i \in 1..n1, LiveAt(i - 1, Live[i - 1]) PROVE LiveAt(i, Live[i])
  <2> DEFINE old == Live[i - 1]
  <2>1. Live[i] = IF lst[listeners[i]].expired THEN old ELSE Append(old, listeners[i])
    BY LiveExists
  <2>2. /\ old \in Seq(Clients) /\ Len(old) \in Nat
        /\ \A a \in 1..Len(old) : \E k \in 1..i - 1 : old[a] = listeners[k] /\ ~lst[listeners[k]].expired
        /\ \A k \in 1..i - 1 : lst[listeners[k]].expired \/ \E a \in 1..Len(old) : old[a] = listeners[k]
        /\ \A a, b \in 1..Len(old) : old[a] = old[b] => a = b
    BY <1>3, LenProperties DEF LiveAt
  <2>3. \A k \in 1..i : k \in 1..n1 /\ (k = i \/ k \in 1..i - 1)
    OBVIOUS
  <2>4. \A k \in 1..i - 1 : k \in 1..i /\ k # i
    OBVIOUS
  <2>5. PICK new : new = Live[i]
    OBVIOUS
  <2>6. CASE lst[listeners[i]].expired
    <3>1. new = old
      BY <2>1, <2>5, <2>6
    <3> HIDE DEF old
    <3> QED
      BY <2>2, <2>3, <2>4, <2>5, <2>6, <3>1 DEF LiveAt
  <2>7. CASE ~lst[listeners[i]].expired
    <3>1. new = Append(old, listeners[i])
      BY <2>1, <2>5, <2>7
    <3> HIDE DEF old
    <3>2. /\ new \in Seq(Clients) /\ Len(new) = Len(old) + 1
          /\ \A a \in 1..Len(old) : new[a] = old[a]
          /\ new[Len(old) + 1] = listeners[i]
      BY <1>1, <2>2, <3>1, AppendProperties
    <3>3. /\ \A a \in 1..Len(new) : a = Len(old) + 1 \/ a \in 1..Len(old)
          /\ \A a \in 1..Len(old) : a \in 1..Len(new)
          /\ Len(old) + 1 \in 1..Len(new)
      BY <2>2, <3>2
    <3>4. \A a \in 1..Len(old) : old[a] # listeners[i]
      BY <2>2, <2>3, <2>4
    <3>5. \A a \in 1..Len(new) : \E k \in 1..i : new[a] = listeners[k] /\ ~lst[listeners[k]].expired
      <4> SUFFICES ASSUME NEW a \in 1..Len(new)
                   PROVE  \E k \in 1..i : new[a] = listeners[k] /\ ~lst[listeners[k]].expired
        OBVIOUS
      <4>1. CASE a = Len(old) + 1
        <5>1. i \in 1..i
          OBVIOUS
        <5> QED
          BY <2>7, <3>2, <4>1, <5>1
      <4>2. CASE a \in 1..Len(old)
        BY <2>2, <2>4, <3>2, <4>2
      <4> QED
        BY <3>3, <4>1, <4>2
    <3>6. \A k \in 1..i : lst[listeners[k]].expired \/ \E a \in 1..Len(new) : new[a] = listeners[k]
      BY <2>2, <2>3, <3>2, <3>3
    <3>7. \A a, b \in 1..Len(new) : new[a] = new[b] => a = b
      BY <2>2, <3>2, <3>3, <3>4
    <3> QED
      BY <2>5, <3>2, <3>5, <3>6, <3>7 DEF LiveAt
  <2> QED
    BY <2>6, <2>7
<1> DEFINE g == [k \in 0..n1 |-> k]
           good == {k \in 0..n1 : LiveAt(k, Live[k])}
<1>4. \A i \in 0..n1 : g[i] = i
  OBVIOUS
<1>5. 0 \in 0..n1 /\ n1 \in 0..n1
  OBVIOUS
<1> HIDE DEF g
<1>6. g[0] \in good
  BY <1>2, <1>4, <1>5
<1>7. \A i \in 1..n1 : g[i - 1] \in good => g[i] \in good
  BY <1>1, <1>3, <1>4
<1> HIDE DEF good
<1>8. \A i \in 0..n1 : g[i] \in good
  BY <1>6, <1>7, StepsStay
<1> QED
  BY <1>4, <1>5, <1>8 DEF good

-----------------------------------------------------------------------------
(* Types *)

LEMMA CaseIs ==
    ASSUME case \in Cases
    PROVE  /\ sub \in [Clients -> Subscription \cup {NoSubscription}]
           /\ case.tags \subseteq Tags /\ Length \in Nat
  BY CasesAssumption DEF sub, Length, Case, Tags

LEMMA RoomIs == Room \in Nat /\ TagRoom \in Nat /\ SetRoom \in Nat
  BY CasesAssumption

LEMMA StreamIs ==
    ASSUME Typed, NEW c \in Streams
    PROVE  /\ c \in Clients /\ sub[c].kind = "stream" /\ sub[c].block \in BOOLEAN
           /\ poller[c] \in StreamPoller /\ lst[c] \in StreamListener /\ got[c] \in Received
           /\ poller[c].sets = <<>> /\ lst[c].captures = <<>>
<1>1. c \in Clients /\ sub[c].kind = "stream"
  BY DEF Streams
<1>2. sub[c].block \in BOOLEAN
  <2>1. sub[c] \in Subscription \cup {NoSubscription}
    BY <1>1, CaseIs DEF Typed
  <2>2. ASSUME sub[c] \in Subscription PROVE sub[c].block \in BOOLEAN
    BY <2>2, Zenon DEF Subscription
  <2>3. ASSUME sub[c] = NoSubscription PROVE sub[c].block \in BOOLEAN
    BY <1>1, <2>3 DEF NoSubscription
  <2> QED
    BY <2>1, <2>2, <2>3
<1> QED
  BY <1>1, <1>2 DEF Typed, StreamPoller, StreamListener

LEMMA ServedIs ==
    ASSUME Typed, Listed, NEW t \in Threads, pc[t] \in Serves \ {"serves"} \/ Serving(t)
    PROVE  at[t] \in DOMAIN listeners /\ Served(t) \in Clients /\ cpc[Served(t)] \in In
<1>1. at[t] \in Nat \ {0} /\ Len(listeners) \in Nat /\ DOMAIN listeners = 1..Len(listeners)
  BY LenProperties DEF Typed
<1>2. at[t] \in DOMAIN listeners
  BY <1>1 DEF Listed, Serving
<1> QED
  BY <1>1, <1>2, ElementOfSeq DEF Typed, Listed, Served

(* The tags of the next k samples are the first of those that wait.        *)
LEMMA RelevantIs ==
    ASSUME NEW tags \in Seq(Tag), NEW read \in Nat, NEW k \in Nat,
           NEW p, p.tags = tags, p.read = read,
           NEW r, r = Relevant(p, k)
    PROVE  /\ r \in 0..Len(tags)
           /\ \A i \in 1..r : tags[i].at < read + k
           /\ (\A i, j \in 1..Len(tags) : i < j => tags[i].at <= tags[j].at)
                => \A i \in r + 1..Len(tags) : tags[i].at >= read + k
<1> DEFINE later == {i \in 1..Len(tags) : tags[i].at >= read + k}
<1>1. Len(tags) \in Nat /\ DOMAIN tags = 1..Len(tags) /\ \A i \in 1..Len(tags) : tags[i].at \in Nat
  <2>1. \A i \in 1..Len(tags) : tags[i] \in Tag
    BY ElementOfSeq
  <2>2. \A tag \in Tag : tag.at \in Nat
    BY DEF Tag
  <2> QED
    BY <2>1, <2>2, LenProperties
<1>2. r = IF later = {} THEN Len(tags) ELSE Min(later) - 1
  BY <1>1, Zenon DEF Relevant
<1>3. CASE later = {}
  <2> HIDE DEF later
  <2>1. \A i \in 1..Len(tags) : ~ (tags[i].at >= read + k)
    BY <1>3 DEF later
  <2>2. r = Len(tags)
    BY <1>2, <1>3
  <2> QED
    BY <1>1, <2>1, <2>2
<1>4. CASE later # {}
  <2>1. later \in SUBSET Nat
    OBVIOUS
  <2>2. PICK m \in 1..Len(tags) : m = Min(later) /\ m \in later /\ \A i \in later : m <= i
    <3> HIDE DEF later
    <3>1. Min(later) \in later /\ \A i \in later : Min(later) <= i
      BY <1>4, <2>1, LeastMember
    <3> QED
      BY <3>1 DEF later
  <2>3. r = m - 1
    BY <1>2, <1>4, <2>2
  <2>4. \A i \in 1..r : i \in 1..Len(tags) /\ ~ (m <= i)
    BY <1>1, <2>3
  <2>5. \A i \in 1..r : tags[i].at < read + k
    BY <1>1, <2>2, <2>4
  <2>6. \A i \in r + 1..Len(tags) : i \in 1..Len(tags) /\ (i = m \/ m < i)
    BY <1>1, <2>3
  <2>7. tags[m].at >= read + k
    BY <2>2
  <2> HIDE DEF later
  <2> QED
    BY <1>1, <2>3, <2>5, <2>6, <2>7
<1> QED
  BY <1>3, <1>4

(* What process() of a poller does with the next k samples of a stream     *)
TakenFrom(c, k, r) ==
    LET p == poller[c]
        p1 == poller'[c]
    IN  /\ k \in 1..Len(p.samples) /\ r \in 0..Len(p.tags)
        /\ p1 \in StreamPoller /\ got'[c] \in Received
        /\ p1.samples = SubSeq(p.samples, k + 1, Len(p.samples)) /\ p1.read = p.read + k
        /\ p1.tags = SubSeq(p.tags, r + 1, Len(p.tags)) /\ p1.dropped = p.dropped /\ p1.finished = p.finished
        /\ got'[c].samples = got[c].samples \o FirstOf(p.samples, k)
        /\ got'[c].tags = got[c].tags \cup Range(FirstOf(p.tags, r))

LEMMA TakeIs ==
    ASSUME Typed, NEW c \in Streams, Ends(c), Take(c)
    PROVE  \E k, r \in Nat : TakenFrom(c, k, r) /\ r = Relevant(poller[c], k)
<1> DEFINE p == poller[c]
           k == count[c]
           r == Relevant(p, k)
           samples == SubSeq(p.samples, k + 1, Len(p.samples))
           tags == SubSeq(p.tags, r + 1, Len(p.tags))
           first == FirstOf(p.samples, k)
           some == FirstOf(p.tags, r)
<1>2. c \in Clients /\ sub[c].kind = "stream" /\ p \in StreamPoller /\ got[c] \in Received
  BY StreamIs
<1>3. /\ p.samples \in Seq(Nat) /\ p.tags \in Seq(Tag) /\ p.read \in Nat /\ p.sets = <<>>
      /\ Len(p.samples) \in Nat /\ Len(p.tags) \in Nat
      /\ got[c].samples \in Seq(Nat) /\ got[c].tags \in SUBSET Tag
  BY <1>2, LenProperties DEF StreamPoller, Received
<1>4. k \in Nat /\ k \in 1..Len(p.samples)
  BY <1>3 DEF Ends, Take
<1>5. r \in Nat /\ r \in 0..Len(p.tags)
  <2>1. PICK q : q = p
    OBVIOUS
  <2>2. Relevant(q, k) \in 0..Len(q.tags)
    BY <1>3, <1>4, <2>1, RelevantIs
  <2> QED
    BY <1>3, <2>1, <2>2
<1>7. /\ poller'[c] = [p EXCEPT !.samples = samples, !.read = @ + k, !.tags = tags]
      /\ got'[c] = [got[c] EXCEPT !.samples = @ \o first, !.tags = @ \cup Range(some)]
  <2>0. /\ poller' = [poller EXCEPT ![c] =
              [poller[c] EXCEPT !.samples = SubSeq(@, count[c] + 1, Len(@)), !.read = @ + count[c],
                                !.tags = SubSeq(@, Relevant(poller[c], count[c]) + 1, Len(@))]]
        /\ got' = [got EXCEPT ![c] =
              [got[c] EXCEPT !.samples = @ \o FirstOf(poller[c].samples, count[c]),
                             !.tags = @ \cup Range(FirstOf(poller[c].tags, Relevant(poller[c], count[c])))]]
    BY <1>2, Zenon DEF Take
  <2>1. /\ poller' = [poller EXCEPT ![c] = [p EXCEPT !.samples = samples, !.read = @ + k, !.tags = tags]]
        /\ got' = [got EXCEPT ![c] = [got[c] EXCEPT !.samples = @ \o first, !.tags = @ \cup Range(some)]]
    BY <2>0
  <2>2. DOMAIN poller = Clients /\ DOMAIN got = Clients
    BY DEF Typed
  <2> HIDE DEF samples, tags, first, some, k, p
  <2> QED
    BY <1>2, <2>1, <2>2
<1> HIDE DEF k, r
<1>8. samples \in Seq(Nat) /\ tags \in Seq(Tag)
  <2>1. k \in 0..Len(p.samples)
    BY <1>4
  <2>2. SubSeq(p.samples, k + 1, Len(p.samples)) \in Seq(Nat)
    BY <1>3, <2>1, RestIs
  <2>3. SubSeq(p.tags, r + 1, Len(p.tags)) \in Seq(Tag)
    BY <1>3, <1>5, RestIs
  <2> QED
    BY <2>2, <2>3
<1>9. first \in Seq(Nat) /\ some \in Seq(Tag)
  <2>1. k <= Len(p.samples) /\ r <= Len(p.tags) /\ k \in Int /\ r \in Int
    BY <1>3, <1>4, <1>5
  <2>2. FirstOf(p.samples, k) \in Seq(Nat)
    BY <1>3, <1>4, <2>1, FirstOfIs
  <2>3. FirstOf(p.tags, r) \in Seq(Tag)
    BY <1>3, <1>5, <2>1, FirstOfIs
  <2> QED
    BY <2>2, <2>3
<1> HIDE DEF p, samples, tags, first, some
<1>10. got[c].samples \o first \in Seq(Nat)
  BY <1>3, <1>9, ConcatProperties
<1>11. Range(some) \subseteq Tag
  <2>1. \A i \in DOMAIN some : some[i] \in Tag
    BY <1>9, LenProperties, ElementOfSeq
  <2> QED
    BY <2>1 DEF Range
<1>12. p.read + k \in Nat
  BY <1>3, <1>4
<1>13. poller'[c] \in StreamPoller
  BY <1>2, <1>7, <1>8, <1>12 DEF StreamPoller
<1>14. got'[c] \in Received
  BY <1>2, <1>7, <1>10, <1>11 DEF Received
<1>15. TakenFrom(c, k, r)
  BY <1>2, <1>4, <1>5, <1>7, <1>13, <1>14 DEF TakenFrom, StreamPoller, Received, p, samples, tags, first, some
<1> QED
  BY <1>4, <1>5, <1>15 DEF p, r

(* What PublishTags hands to the listener in turn                          *)
TagsDue(c) ==
    LET here(of) == <<[at |-> lst[c].published, of |-> of]>>
    IN  (IF lst[c].pending THEN here(Meta) ELSE <<>>)
          \o (IF chunk.mark # None THEN here(chunk.from + 1) ELSE <<>>)

LEMMA TagsDueIs ==
    ASSUME Typed, NEW c \in Streams, NEW all, all = TagsDue(c)
    PROVE  /\ all \in Seq(Tag) /\ Len(all) = NewTags(c)
           /\ \A i \in 1..Len(all) : /\ all[i].at = lst[c].published
                                     /\ all[i].of = Meta \/ (chunk.mark # None /\ all[i].of = chunk.from + 1)
           /\ lst[c].pending => \E i \in 1..Len(all) : all[i] = [at |-> lst[c].published, of |-> Meta]
           /\ chunk.mark # None => \E i \in 1..Len(all) : all[i] = [at |-> lst[c].published, of |-> chunk.from + 1]
<1>1. PICK meta, mark : /\ meta = [at |-> lst[c].published, of |-> Meta]
                        /\ mark = [at |-> lst[c].published, of |-> chunk.from + 1]
  OBVIOUS
<1>2. lst[c].published \in Nat /\ lst[c].pending \in BOOLEAN /\ chunk.from + 1 \in Nat
  BY StreamIs DEF StreamListener, Typed
<1>3. /\ meta \in Tag /\ meta.at = lst[c].published /\ meta.of = Meta
      /\ mark \in Tag /\ mark.at = lst[c].published /\ mark.of = chunk.from + 1
  BY <1>1, <1>2 DEF Tag, Meta
<1>4. all = (IF lst[c].pending THEN <<meta>> ELSE <<>>) \o (IF chunk.mark # None THEN <<mark>> ELSE <<>>)
  BY <1>1 DEF TagsDue
<1>5. CASE lst[c].pending /\ chunk.mark # None
  <2>1. all = <<meta>> \o <<mark>>
    BY <1>4, <1>5
  <2>2. <<meta>> \in Seq(Tag) /\ <<mark>> \in Seq(Tag) /\ 1..2 = {1, 2}
    BY <1>3
  <2>3. all \in Seq(Tag) /\ Len(all) = 2 /\ all[1] = meta /\ all[2] = mark
    BY <2>1, <2>2, ConcatProperties
  <2> QED
    BY <1>1, <1>3, <1>5, <2>2, <2>3 DEF NewTags
<1>6. CASE lst[c].pending /\ chunk.mark = None
  <2>1. all = <<meta>>
    BY <1>3, <1>4, <1>6
  <2>2. all \in Seq(Tag) /\ Len(all) = 1 /\ all[1] = meta /\ 1..1 = {1}
    BY <1>3, <2>1
  <2> QED
    BY <1>1, <1>3, <1>6, <2>2 DEF NewTags
<1>7. CASE ~lst[c].pending /\ chunk.mark # None
  <2>1. all = <<mark>>
    BY <1>3, <1>4, <1>7
  <2>2. all \in Seq(Tag) /\ Len(all) = 1 /\ all[1] = mark /\ 1..1 = {1}
    BY <1>3, <2>1
  <2> QED
    BY <1>1, <1>3, <1>7, <2>2 DEF NewTags
<1>8. CASE ~lst[c].pending /\ chunk.mark = None
  <2>1. all = <<>>
    BY <1>3, <1>4, <1>8
  <2>2. all \in Seq(Tag) /\ Len(all) = 0 /\ 1..0 = {}
    BY <2>1, EmptySeq
  <2> QED
    BY <1>1, <1>3, <1>8, <2>2 DEF NewTags
<1> QED
  BY <1>2, <1>5, <1>6, <1>7, <1>8

(* PublishTags: out is what the poller is given                            *)
TagsOut(c, out) ==
    /\ UNCHANGED <<got, at, n, sets>>
    /\ out = FirstOf(TagsDue(c), n["worker"].tags) /\ out \in Seq(Tag)
    /\ poller' = [poller EXCEPT ![c] = [poller[c] EXCEPT !.tags = @ \o out]]
    /\ lst' = [lst EXCEPT ![c] = [lst[c] EXCEPT !.pending = @ /\ out = <<>>]]
    /\ poller'[c] = [poller[c] EXCEPT !.tags = @ \o out]
    /\ lst'[c] = [lst[c] EXCEPT !.pending = @ /\ out = <<>>]
    /\ poller'[c] \in StreamPoller /\ lst'[c] \in StreamListener
    /\ pc' = [pc EXCEPT !["worker"] = "samples"]

LEMMA PublishTagsIs ==
    ASSUME Typed, Turns, Listed, NEW t \in Threads, PublishTags(t)
    PROVE  /\ t = "worker" /\ chunk # NoInput /\ pc["worker"] = "tags" /\ Served("worker") \in Streams
           /\ \E out : TagsOut(Served("worker"), out)
<1>1. t = "worker" /\ chunk # NoInput /\ pc["worker"] = "tags" /\ Served("worker") \in Streams
  BY DEF PublishTags, Turns, Listed, InStop, Threads
<1>2. PICK c \in Streams : c = Served("worker")
  BY <1>1
<1>3. PICK out : out = FirstOf(TagsDue(c), n["worker"].tags)
  OBVIOUS
<1>4. TagsDue(c) \in Seq(Tag) /\ n["worker"].tags \in Int
  BY TagsDueIs DEF Typed, Threads
<1>5. out \in Seq(Tag)
  <2>1. PICK m \in Nat : m = IF n["worker"].tags < 0 THEN 0 ELSE IF n["worker"].tags <= Len(TagsDue(c))
                                                          THEN n["worker"].tags ELSE Len(TagsDue(c))
    BY <1>4, LenProperties
  <2>2. FirstOf(TagsDue(c), n["worker"].tags) \in Seq(Tag)
    BY <1>4, <2>1, FirstOfIs
  <2> QED
    BY <1>3, <2>2
<1>6. /\ UNCHANGED <<got, at, n, sets>> /\ pc' = [pc EXCEPT !["worker"] = "samples"]
      /\ poller' = [poller EXCEPT ![c].tags = @ \o out]
      /\ lst' = [lst EXCEPT ![c].pending = @ /\ out = <<>>]
  BY <1>1, <1>2, <1>3 DEF PublishTags, TagsDue, Within, ghosts, Goes
<1>7. /\ poller[c] \in StreamPoller /\ lst[c] \in StreamListener /\ c \in Clients
      /\ DOMAIN poller = Clients /\ DOMAIN lst = Clients
  BY StreamIs DEF Typed
<1>8. poller[c].tags \o out \in Seq(Tag)
  BY <1>5, <1>7, ConcatProperties DEF StreamPoller
<1>9. PICK pending \in BOOLEAN : pending = (lst[c].pending /\ out = <<>>)
  OBVIOUS
<1>10. /\ poller' = [poller EXCEPT ![c] = [poller[c] EXCEPT !.tags = @ \o out]]
       /\ lst' = [lst EXCEPT ![c] = [lst[c] EXCEPT !.pending = @ /\ out = <<>>]]
  BY <1>6
<1>11. /\ poller'[c] = [poller[c] EXCEPT !.tags = @ \o out]
       /\ lst'[c] = [lst[c] EXCEPT !.pending = @ /\ out = <<>>]
  BY <1>7, <1>10
<1>12. poller'[c] \in StreamPoller
  BY <1>7, <1>8, <1>11 DEF StreamPoller
<1>13. lst'[c] \in StreamListener
  <2>1. lst'[c] = [lst[c] EXCEPT !.pending = pending]
    BY <1>9, <1>11
  <2> QED
    BY <1>7, <2>1 DEF StreamListener
<1> QED
  BY <1>1, <1>2, <1>3, <1>5, <1>6, <1>10, <1>11, <1>12, <1>13 DEF TagsOut

(* PublishSamples                                                          *)
SamplesOut(c, k) ==
    /\ UNCHANGED <<got, sets>>
    /\ k = n["worker"].samples /\ k \in 1..chunk.size
    /\ \A d \in Clients : d # c => poller'[d] = poller[d] /\ lst'[d] = lst[d]
    /\ DOMAIN poller' = Clients /\ DOMAIN lst' = Clients
    /\ poller'[c] = [poller[c] EXCEPT !.samples = @ \o Span(chunk.from, k), !.dropped = @ + chunk.size - k]
    /\ lst'[c] = [lst[c] EXCEPT !.published = @ + k]
    /\ poller'[c] \in StreamPoller /\ lst'[c] \in StreamListener
    /\ n' = [n EXCEPT !["worker"] = NoCounts]
    /\ at' = [at EXCEPT !["worker"] = @ + 1]
    /\ pc' = [pc EXCEPT !["worker"] = "serves"]

LEMMA PublishSamplesIs ==
    ASSUME Typed, Turns, Listed, Planned, NEW t \in Threads, PublishSamples(t)
    PROVE  /\ t = "worker" /\ chunk # NoInput /\ pc["worker"] = "samples" /\ Served("worker") \in Streams
           /\ \E k \in Nat : SamplesOut(Served("worker"), k)
<1>1. t = "worker" /\ chunk # NoInput /\ pc["worker"] = "samples" /\ Served("worker") \in Streams
  BY DEF PublishSamples, Turns, Listed, InStop, Threads
<1>2. PICK c \in Streams : c = Served("worker")
  BY <1>1
<1>3. chunk.from \in Nat /\ chunk.size \in Nat
  BY DEF Typed
<1>4. PICK k \in Nat : k = n["worker"].samples /\ k \in 1..chunk.size
  BY <1>1, <1>3 DEF Planned
<1>5. /\ UNCHANGED <<got, sets>> /\ pc' = [pc EXCEPT !["worker"] = "serves"] /\ n' = [n EXCEPT !["worker"] = NoCounts]
      /\ poller' = [poller EXCEPT ![c].samples = @ \o Span(chunk.from, k), ![c].dropped = @ + chunk.size - k]
      /\ lst' = [lst EXCEPT ![c].published = @ + k]
      /\ at' = [at EXCEPT !["worker"] = @ + 1]
  BY <1>1, <1>2, <1>4 DEF PublishSamples, Within, ghosts, Goes, NextListener
<1>6. /\ poller[c] \in StreamPoller /\ lst[c] \in StreamListener /\ c \in Clients
      /\ DOMAIN poller = Clients /\ DOMAIN lst = Clients
  BY StreamIs DEF Typed
<1>7. poller[c].samples \o Span(chunk.from, k) \in Seq(Nat)
  BY <1>3, <1>6, SpanIs, ConcatProperties DEF StreamPoller
<1>8. /\ poller'[c] = [poller[c] EXCEPT !.samples = @ \o Span(chunk.from, k), !.dropped = @ + chunk.size - k]
      /\ \A d \in Clients : d # c => poller'[d] = poller[d]
      /\ DOMAIN poller' = Clients
  BY <1>5, <1>6
<1>9. /\ lst'[c] = [lst[c] EXCEPT !.published = @ + k]
      /\ \A d \in Clients : d # c => lst'[d] = lst[d]
      /\ DOMAIN lst' = Clients
  BY <1>5, <1>6
<1>10. poller'[c] \in StreamPoller
  <2>1. poller[c].dropped + chunk.size - k \in Nat
    BY <1>3, <1>4, <1>6 DEF StreamPoller
  <2> QED
    BY <1>6, <1>7, <1>8, <2>1 DEF StreamPoller
<1>11. lst'[c] \in StreamListener
  BY <1>6, <1>9 DEF StreamListener
<1> QED
  BY <1>1, <1>2, <1>4, <1>5, <1>8, <1>9, <1>10, <1>11 DEF SamplesOut

(* ServeStream: the poller is gone, or nothing fits, or so much is planned *)
StreamServed(c) ==
    /\ UNCHANGED <<got, sets>>
    /\ DOMAIN poller' = Clients /\ DOMAIN lst' = Clients
    /\ poller'[c] \in StreamPoller /\ lst'[c] \in StreamListener
    /\ \A d \in Clients : d # c => poller'[d] = poller[d] /\ lst'[d] = lst[d]
    /\ \/ /\ Gone(c) /\ UNCHANGED <<poller, n>>
          /\ lst'[c] = [lst[c] EXCEPT !.expired = TRUE]
          /\ at' = [at EXCEPT !["worker"] = @ + 1] /\ pc' = [pc EXCEPT !["worker"] = "serves"]
       \/ /\ ~Gone(c) /\ ~sub[c].block /\ UNCHANGED <<lst, n>>
          /\ poller'[c] = [poller[c] EXCEPT !.dropped = @ + chunk.size]
          /\ at' = [at EXCEPT !["worker"] = @ + 1] /\ pc' = [pc EXCEPT !["worker"] = "serves"]
       \/ /\ ~Gone(c) /\ UNCHANGED <<poller, lst, at>>
          /\ n' \in [Threads -> [samples : Int, tags : Int]]
          /\ n'["worker"].samples \in 1..chunk.size
          /\ sub[c].block => n'["worker"].samples = chunk.size /\ n'["worker"].tags = NewTags(c)
          /\ pc' = [pc EXCEPT !["worker"] = "tags"]

LEMMA ServeStreamIs ==
    ASSUME Typed, Turns, Listed, NEW t \in Threads, ServeStream(t)
    PROVE  /\ t = "worker" /\ chunk # NoInput /\ Serving("worker") /\ Served("worker") \in Streams
           /\ StreamServed(Served("worker"))
<1>1. t = "worker" /\ chunk # NoInput /\ Serving("worker") /\ Served("worker") \in Clients /\ Served("worker") \in Streams
  <2>1. t = "worker" /\ chunk # NoInput /\ Serving("worker") /\ sub[Served("worker")].kind = "stream"
    BY DEF ServeStream, InStop, Threads
  <2>2. Served("worker") \in Clients
    BY <2>1, ServedIs DEF Threads
  <2> QED
    BY <2>1, <2>2 DEF Streams
<1>2. PICK c \in Streams : c = Served("worker")
  BY <1>1
<1>3. /\ chunk.size \in Nat /\ chunk.size >= 1 /\ NewTags(c) \in Nat /\ n \in [Threads -> [samples : Int, tags : Int]]
      /\ "worker" \in Threads
  BY <1>1 DEF Typed, Turns, NewTags, Threads
<1>4. /\ poller[c] \in StreamPoller /\ lst[c] \in StreamListener /\ c \in Clients /\ sub[c].block \in BOOLEAN
      /\ DOMAIN poller = Clients /\ DOMAIN lst = Clients
  BY StreamIs DEF Typed
<1>5. Len(poller[c].samples) \in Nat /\ Len(poller[c].tags) \in Nat /\ poller[c].dropped + chunk.size \in Nat
  BY <1>3, <1>4, LenProperties DEF StreamPoller
<1>6. Room \in Int /\ TagRoom \in Int
  BY RoomIs
<1>7. PICK size \in Int : /\ size = IF sub[c].block THEN chunk.size ELSE Min({chunk.size, Room - Len(poller[c].samples)})
                         /\ size <= chunk.size
  <2>1. PICK left \in Int : left = Room - Len(poller[c].samples)
    <3>1. Room - Len(poller[c].samples) \in Int
      BY <1>5, <1>6
    <3> QED
      BY <3>1, Zenon
  <2>2. Min({chunk.size, left}) \in Int /\ Min({chunk.size, left}) <= chunk.size
    <3>1. PICK all \in Int : all = chunk.size
      BY <1>3
    <3>2. Min({all, left}) = IF all <= left THEN all ELSE left
      BY <3>1, <2>1, MinOfTwo
    <3>3. Min({all, left}) \in Int /\ Min({all, left}) <= all
      BY <3>2
    <3> QED
      BY <3>1, <3>3, Zenon
  <2> QED
    BY <1>3, <2>1, <2>2
<1>8. PICK room \in Int : room = IF sub[c].block THEN NewTags(c) ELSE Min({NewTags(c), TagRoom - Len(poller[c].tags)})
  <2>1. PICK left \in Int : left = TagRoom - Len(poller[c].tags)
    <3>1. TagRoom - Len(poller[c].tags) \in Int
      BY <1>5, <1>6
    <3> QED
      BY <3>1, Zenon
  <2>2. Min({NewTags(c), left}) \in Int
    BY <1>3, <2>1, MinOfTwo
  <2> QED
    BY <1>3, <2>1, <2>2
<1>9. /\ UNCHANGED <<got, sets>>
      /\ \/ /\ Gone(c) /\ UNCHANGED <<poller, n>>
            /\ lst' = [lst EXCEPT ![c].expired = TRUE]
            /\ at' = [at EXCEPT !["worker"] = @ + 1] /\ pc' = [pc EXCEPT !["worker"] = "serves"]
         \/ /\ ~Gone(c) /\ size = 0 /\ UNCHANGED <<lst, n>>
            /\ poller' = [poller EXCEPT ![c].dropped = @ + chunk.size]
            /\ at' = [at EXCEPT !["worker"] = @ + 1] /\ pc' = [pc EXCEPT !["worker"] = "serves"]
         \/ /\ ~Gone(c) /\ size > 0 /\ UNCHANGED <<poller, lst, at>>
            /\ n' = [n EXCEPT !["worker"] = [samples |-> size, tags |-> room]]
            /\ pc' = [pc EXCEPT !["worker"] = "tags"]
  BY <1>1, <1>2, <1>7, <1>8, Zenon DEF ServeStream, Within, ghosts, Goes, NextListener, NewTags
<1>10. CASE Gone(c) /\ UNCHANGED <<poller, n>> /\ lst' = [lst EXCEPT ![c].expired = TRUE]
  <2>1. lst'[c] = [lst[c] EXCEPT !.expired = TRUE] /\ DOMAIN lst' = Clients /\ \A d \in Clients : d # c => lst'[d] = lst[d]
    BY <1>4, <1>10
  <2>2. lst'[c] \in StreamListener
    BY <1>4, <2>1 DEF StreamListener
  <2> QED
    BY <1>1, <1>2, <1>4, <1>9, <1>10, <2>1, <2>2 DEF StreamServed
<1>11. CASE ~Gone(c) /\ size = 0 /\ UNCHANGED <<lst, n>> /\ poller' = [poller EXCEPT ![c].dropped = @ + chunk.size]
  <2>1. /\ poller'[c] = [poller[c] EXCEPT !.dropped = @ + chunk.size] /\ DOMAIN poller' = Clients
        /\ \A d \in Clients : d # c => poller'[d] = poller[d]
    BY <1>4, <1>11
  <2>2. poller'[c] \in StreamPoller
    BY <1>4, <1>5, <2>1 DEF StreamPoller
  <2>3. ~sub[c].block
    BY <1>3, <1>7, <1>11
  <2> QED
    BY <1>1, <1>2, <1>4, <1>9, <1>11, <2>1, <2>2, <2>3 DEF StreamServed
<1>12. CASE /\ ~Gone(c) /\ size > 0 /\ UNCHANGED <<poller, lst, at>>
            /\ n' = [n EXCEPT !["worker"] = [samples |-> size, tags |-> room]]
            /\ pc' = [pc EXCEPT !["worker"] = "tags"]
  <2>1. n' \in [Threads -> [samples : Int, tags : Int]] /\ n'["worker"].samples = size /\ n'["worker"].tags = room
    BY <1>3, <1>7, <1>8, <1>12
  <2>2. size \in 1..chunk.size
    BY <1>3, <1>7, <1>12
  <2>3. sub[c].block => size = chunk.size /\ room = NewTags(c)
    BY <1>7, <1>8
  <2> QED
    BY <1>1, <1>2, <1>4, <1>9, <1>12, <2>1, <2>2, <2>3 DEF StreamServed
<1> QED
  BY <1>9, <1>10, <1>11, <1>12

(* A step that gives a client of a stream nothing but the end              *)
Alike(d) ==
    /\ poller'[d] \in StreamPoller /\ lst'[d] \in StreamListener /\ got'[d] = got[d]
    /\ poller'[d].samples = poller[d].samples /\ poller'[d].tags = poller[d].tags
    /\ poller'[d].read = poller[d].read /\ poller'[d].dropped = poller[d].dropped
    /\ lst'[d].published = lst[d].published /\ lst'[d].pending = lst[d].pending /\ lst'[d].expired = lst[d].expired
    /\ poller[d].finished => poller'[d].finished
    /\ poller'[d].finished => poller[d].finished \/ ~registered

SetStep(t) == ServeWindows(t) \/ ServeStop(t) \/ PublishSet(t) \/ SetsArePublished(t)

LEMMA SetStepIs ==
    ASSUME Typed, Turns, Listed, NEW t \in Threads, SetStep(t)
    PROVE  /\ \A d \in Streams : Alike(d)
           /\ DOMAIN poller' = Clients /\ DOMAIN lst' = Clients /\ DOMAIN sets' = Threads /\ UNCHANGED <<n, got>>
           /\ \/ /\ Serving(t) /\ UNCHANGED at /\ pc' = [pc EXCEPT ![t] = "publishes"]
                 /\ InStop(t) \/ Served(t) \notin Streams
                 /\ \A o \in Threads : sets'[o] = sets[o] \/ (o = t /\ (Served(t) \in Streams => sets'[o] = <<>>))
              \/ /\ pc[t] \in {"publishes", "waits"} /\ Served(t) \notin Streams /\ UNCHANGED at
                 /\ \A o \in Threads : sets'[o] = sets[o] \/ o = t
                 /\ pc' = pc \/ pc' = [pc EXCEPT ![t] = "publishes"] \/ pc' = [pc EXCEPT ![t] = "waits"]
              \/ /\ pc[t] = "publishes" /\ sets[t] = <<>> /\ UNCHANGED sets
                 /\ at' = [at EXCEPT ![t] = @ + 1] /\ pc' = [pc EXCEPT ![t] = "serves"]
<1>0. /\ UNCHANGED <<n, got, registered>> /\ DOMAIN poller = Clients /\ DOMAIN lst = Clients /\ DOMAIN sets = Threads
      /\ Served(t) \in Clients
  <2>1. UNCHANGED <<n, got, registered>>
    BY DEF SetStep, ServeWindows, ServeStop, PublishSet, SetsArePublished, Within, ghosts
  <2>2. pc[t] \in Serves \ {"serves"} \/ Serving(t)
    BY DEF SetStep, ServeWindows, ServeStop, PublishSet, SetsArePublished, Serves
  <2> QED
    BY <2>1, <2>2, ServedIs DEF Typed
<1>1. \A d \in Streams : /\ d \in Clients /\ sub[d].kind = "stream" /\ poller[d] \in StreamPoller
                         /\ lst[d] \in StreamListener /\ lst[d].captures = <<>>
  BY StreamIs
<1>2. ASSUME NEW d \in Streams, poller'[d] = poller[d], lst'[d] = lst[d] PROVE Alike(d)
  BY <1>0, <1>1, <1>2 DEF Alike
<1>3. CASE ServeWindows(t)
  <2>1. PICK w : w = Windows(lst[Served(t)], sub[Served(t)])
    OBVIOUS
  <2>2. /\ UNCHANGED <<poller, at>> /\ Serving(t) /\ sub[Served(t)].kind # "stream"
        /\ pc' = [pc EXCEPT ![t] = "publishes"]
        /\ lst' = [lst EXCEPT ![Served(t)].captures = w.keep] /\ sets' = [sets EXCEPT ![t] = w.out]
    BY <1>3, <2>1 DEF ServeWindows, Goes
  <2>3. Served(t) \notin Streams
    BY <2>2 DEF Streams
  <2>4. \A d \in Streams : lst'[d] = lst[d]
    BY <1>1, <2>2, <2>3
  <2> QED
    BY <1>0, <1>2, <2>2, <2>3, <2>4
<1>4. CASE ServeStop(t)
  <2>1. PICK open : /\ sets' = [sets EXCEPT ![t] = open]
                    /\ sub[Served(t)].kind \in {"stream", "snapshot"} => open = <<>>
    BY <1>4, Zenon DEF ServeStop
  <2>2. /\ UNCHANGED <<poller, at>> /\ Serving(t) /\ InStop(t)
        /\ pc' = [pc EXCEPT ![t] = "publishes"]
        /\ lst' = [lst EXCEPT ![Served(t)].captures = <<>>]
    BY <1>4 DEF ServeStop, Goes
  <2>3. \A d \in Streams : lst'[d] = lst[d]
    <3> SUFFICES ASSUME NEW d \in Streams PROVE lst'[d] = lst[d]
      OBVIOUS
    <3>1. CASE d # Served(t)
      BY <1>0, <1>1, <2>2, <3>1
    <3>2. CASE d = Served(t)
      <4>1. lst'[d] = [lst[d] EXCEPT !.captures = <<>>]
        BY <1>0, <2>2, <3>2
      <4> QED
        BY <1>1, <4>1 DEF StreamListener
    <3> QED
      BY <3>1, <3>2
  <2>4. Served(t) \in Streams => open = <<>>
    BY <1>1, <2>1
  <2> QED
    BY <1>0, <1>2, <2>1, <2>2, <2>3, <2>4
<1>5. CASE PublishSet(t)
  <2>1. PICK c : c = Served(t)
    OBVIOUS
  <2>2. /\ pc[t] \in {"publishes", "waits"} /\ sets[t] # <<>> /\ UNCHANGED at
        /\ pc' = pc \/ pc' = [pc EXCEPT ![t] = "publishes"] \/ pc' = [pc EXCEPT ![t] = "waits"]
        /\ sets' = sets \/ sets' = [sets EXCEPT ![t] = Tail(@)]
        /\ lst' = lst \/ lst' = [lst EXCEPT ![c].expired = TRUE]
        /\ \/ poller' = poller \/ poller' = [poller EXCEPT ![c].dropped = @ + 1]
           \/ poller' = [poller EXCEPT ![c].sets = Append(@, Head(sets[t]))]
    BY <1>5, <2>1, Zenon DEF PublishSet, Goes
  <2>3. c \notin Streams
    BY <2>1, <2>2 DEF Listed
  <2>4. \A d \in Streams : poller'[d] = poller[d] /\ lst'[d] = lst[d]
    BY <1>0, <1>1, <2>2, <2>3
  <2>5. DOMAIN poller' = Clients /\ DOMAIN lst' = Clients /\ DOMAIN sets' = Threads
    BY <1>0, <2>2
  <2>6. \A o \in Threads : sets'[o] = sets[o] \/ o = t
    BY <1>0, <2>2
  <2> QED
    BY <1>0, <1>2, <2>1, <2>2, <2>3, <2>4, <2>5, <2>6
<1>6. CASE SetsArePublished(t)
  <2>1. PICK c \in Clients : c = Served(t)
    BY <1>0
  <2>2. /\ pc[t] = "publishes" /\ sets[t] = <<>> /\ UNCHANGED <<lst, sets>>
        /\ at' = [at EXCEPT ![t] = @ + 1] /\ pc' = [pc EXCEPT ![t] = "serves"]
        /\ \/ poller' = poller
           \/ InStop(t) /\ poller' = [poller EXCEPT ![c].finished = TRUE]
    BY <1>6, <2>1 DEF SetsArePublished, NextListener, Goes
  <2>3. ASSUME NEW d \in Streams PROVE Alike(d)
    <3>1. CASE poller'[d] = poller[d]
      BY <1>0, <1>2, <2>2, <3>1
    <3>2. CASE InStop(t) /\ d = c /\ poller'[d] = [poller[d] EXCEPT !.finished = TRUE]
      <4>1. ~registered
        BY <2>2, <3>2 DEF Turns, Serves
      <4>2. poller'[d] \in StreamPoller
        BY <1>1, <3>2 DEF StreamPoller
      <4> QED
        BY <1>0, <1>1, <2>2, <3>2, <4>1, <4>2 DEF Alike, StreamPoller
    <3> QED
      BY <1>0, <1>1, <2>2, <3>1, <3>2
  <2>4. DOMAIN poller' = Clients
    BY <1>0, <2>2
  <2> QED
    BY <1>0, <2>2, <2>3, <2>4
<1> QED
  BY <1>3, <1>4, <1>5, <1>6 DEF SetStep

LEMMA StepTyped ==
    ASSUME IInv, SinkNext
    PROVE  Typed'
<1> USE DEF IInv
<1>0. Typed /\ Listed /\ Planned /\ Turns
  OBVIOUS
<1>1. ASSUME NEW c \in Clients, AskRegistry(c) \/ CountAvailable(c) \/ LookFinished(c) \/ Release(c) PROVE Typed'
  <2>1. UNCHANGED <<case, registered, lock, listenerVars, poller, localVars, ghosts>> /\ DOMAIN count' = DOMAIN count
    BY <1>1 DEF AskRegistry, CountAvailable, LookFinished, Release, clientVars
  <2>2. cpc' \in [Clients -> Out \cup In] /\ DOMAIN seen' = Clients
        /\ \A d \in Streams : seen'[d] \in BOOLEAN
    <3>1. CASE AskRegistry(c)
      BY <3>1 DEF AskRegistry, Typed, Out, In
    <3>2. CASE CountAvailable(c)
      <4>1. UNCHANGED seen
        BY <3>2 DEF CountAvailable
      <4>2. \/ cpc' = [cpc EXCEPT ![c] = IF seen[c] THEN "done" ELSE "has"]
            \/ cpc' = [cpc EXCEPT ![c] = "takes"]
        BY <3>2 DEF CountAvailable
      <4>3. cpc' \in [Clients -> Out \cup In]
        BY <1>0, <4>2 DEF Typed, In
      <4> QED
        BY <1>0, <4>1, <4>3 DEF Typed
    <3>3. CASE LookFinished(c)
      <4>1. seen' = [seen EXCEPT ![c] = poller[c].finished]
        BY <3>3 DEF LookFinished
      <4>2. \A d \in Streams : seen'[d] \in BOOLEAN
        <5> SUFFICES ASSUME NEW d \in Streams PROVE seen'[d] \in BOOLEAN
          OBVIOUS
        <5>1. d \in Clients /\ poller[d].finished \in BOOLEAN
          BY StreamIs DEF StreamPoller
        <5>2. CASE d = c
          BY <1>0, <4>1, <5>1, <5>2 DEF Typed
        <5>3. CASE d # c
          BY <1>0, <4>1, <5>1, <5>3, Zenon DEF Typed
        <5> QED
          BY <5>2, <5>3
      <4>3. cpc' = [cpc EXCEPT ![c] = "polls"]
        BY <3>3 DEF LookFinished
      <4> QED
        BY <1>0, <4>1, <4>2, <4>3 DEF Typed, Out, In
    <3>4. CASE Release(c)
      BY <3>4 DEF Release, Typed, Out, In
    <3> QED
      BY <1>1, <3>1, <3>2, <3>3, <3>4
  <2> QED
    BY <2>1, <2>2 DEF Typed, listenerVars, localVars, ghosts, Streams, sub
<1>2. ASSUME NEW c \in Clients, GetPoller(c) PROVE Typed'
  <2>1. PICK first \in BOOLEAN : first = FinishedAtFirst(sub[c])
    BY DEF FinishedAtFirst, Typed
  <2>2. /\ UNCHANGED <<case, registered, lock, ended, got, seen, count, pc, at, n, sets, chunk, marks, strayStop>>
        /\ cpc' = [cpc EXCEPT ![c] = "has"]
        /\ listeners' = IF sub[c].block THEN Append(listeners, c) ELSE <<c>> \o listeners
        /\ lst' = [lst EXCEPT ![c] = NoListener]
        /\ poller' = [poller EXCEPT ![c] = [NoPoller EXCEPT !.finished = first]]
        /\ base' = [base EXCEPT ![c] = IF pc["worker"] = "atLock" THEN chunk.from ELSE Offered]
    BY <1>2, <2>1 DEF GetPoller, localVars
  <2>3. listeners' \in Seq(Clients)
    <3>1. <<c>> \in Seq(Clients)
      OBVIOUS
    <3> QED
      BY <2>2, <3>1, AppendProperties, ConcatProperties DEF Typed
  <2>4. base' \in [Clients -> Nat]
    <3>1. Offered \in Nat /\ chunk.from \in Nat
      BY LenProperties DEF Typed, Offered
    <3> QED
      BY <2>2, <3>1 DEF Typed
  <2>5. \A d \in Streams : poller'[d] \in StreamPoller /\ lst'[d] \in StreamListener /\ DOMAIN poller' = Clients /\ DOMAIN lst' = Clients
    <3>1. NoListener \in StreamListener /\ [NoPoller EXCEPT !.finished = first] \in StreamPoller
      BY EmptySeq DEF NoListener, NoPoller, StreamListener, StreamPoller
    <3>2. DOMAIN poller = Clients /\ DOMAIN lst = Clients
      BY DEF Typed
    <3> QED
      BY <2>2, <3>1, <3>2, StreamIs
  <2>6. DOMAIN poller' = Clients /\ DOMAIN lst' = Clients
    BY <2>2 DEF Typed
  <2>7. cpc' \in [Clients -> Out \cup In]
    BY <2>2 DEF Typed, In, Out
  <2> QED
    BY <2>2, <2>3, <2>4, <2>5, <2>6, <2>7 DEF Typed, Streams, sub
<1>3. ASSUME NEW c \in Clients, Take(c) PROVE Typed'
  <2>1. /\ UNCHANGED <<case, registered, lock, ended, strayStop, listeners, lst, seen, pc, at, n, sets, chunk, marks, base>>
        /\ cpc' = [cpc EXCEPT ![c] = "polls"] /\ DOMAIN count' = Clients
        /\ DOMAIN poller' = Clients /\ DOMAIN got' = Clients
        /\ \A d \in Clients : d # c => poller'[d] = poller[d] /\ got'[d] = got[d]
    BY <1>3 DEF Take, listenerVars, localVars, Typed
  <2>2. \A d \in Streams : poller'[d] \in StreamPoller /\ got'[d] \in Received
    <3> SUFFICES ASSUME NEW d \in Streams PROVE poller'[d] \in StreamPoller /\ got'[d] \in Received
      OBVIOUS
    <3>1. CASE d # c
      BY <2>1, <3>1, StreamIs
    <3>2. CASE d = c
      BY <1>3, <3>2, TakeIs DEF TakenFrom
    <3> QED
      BY <3>1, <3>2
  <2>3. cpc' \in [Clients -> Out \cup In]
    BY <2>1 DEF Typed, In, Out
  <2> QED
    BY <2>1, <2>2, <2>3 DEF Typed, Streams, sub
<1>4. ASSUME NEW size \in 1..MaxChunk, NEW mark \in {None} \cup case.tags, ProcessBulk(size, mark) PROVE Typed'
  <2>1. /\ UNCHANGED <<case, registered, lock, ended, strayStop, listeners, lst, poller, got, cpc, seen, count, at, n, sets, base>>
        /\ pc' = [pc EXCEPT !["worker"] = "atLock"] /\ chunk' = [from |-> Offered, size |-> size, mark |-> mark]
        /\ marks' = marks \o [i \in 1..size |-> IF i = 1 THEN mark ELSE None]
    BY <1>4 DEF ProcessBulk, listenerVars, clientVars
  <2>2. mark \in Tags /\ size \in Nat /\ Offered \in Nat
    BY CaseIs, LenProperties DEF Tags, Typed, Offered
  <2>3. marks' \in Seq(Tags)
    <3>1. [i \in 1..size |-> IF i = 1 THEN mark ELSE None] \in Seq(Tags)
      BY <2>2 DEF Tags
    <3> QED
      BY <2>1, <3>1, ConcatProperties DEF Typed
  <2>4. chunk' \in [from : Nat, size : Nat, mark : Tags]
    BY <2>1, <2>2
  <2>5. pc' \in [Threads -> {"idle", "atLock", "unregister", "stopLock", "stopped"} \cup Serves]
    BY <2>1 DEF Typed
  <2> QED
    BY <2>1, <2>3, <2>4, <2>5 DEF Typed, Streams, sub
<1>5. CASE LockForChunk
  <2>1. /\ UNCHANGED <<case, registered, ended, strayStop, lst, poller, got, cpc, seen, count, n, sets, chunk, marks, base>>
        /\ pc' = [pc EXCEPT !["worker"] = "serves"] /\ at' = [at EXCEPT !["worker"] = 1] /\ lock' = "worker"
        /\ listeners' = Live[Len(listeners)]
    BY <1>5 DEF LockForChunk, clientVars, ghosts
  <2>2. listeners' \in Seq(Clients)
    <3>1. PICK len \in Nat : len = Len(listeners)
      BY LenProperties DEF Typed
    <3>2. DOMAIN listeners = 1..len /\ listeners \in Seq(Clients)
      BY <3>1, LenProperties DEF Typed
    <3>3. LiveAt(len, Live[len])
      BY <3>1, <3>2, LiveIs DEF Listed
    <3> QED
      BY <2>1, <3>1, <3>3 DEF LiveAt
  <2>3. pc' \in [Threads -> {"idle", "atLock", "unregister", "stopLock", "stopped"} \cup Serves]
    BY <2>1 DEF Typed, Serves
  <2>4. at' \in [Threads -> Nat \ {0}]
    <3>1. at \in [Threads -> Nat \ {0}]
      BY DEF Typed
    <3>2. at' = [at EXCEPT !["worker"] = 1]
      BY <2>1
    <3>3. at' = [o \in Threads |-> IF o = "worker" THEN 1 ELSE at[o]]
      BY <3>1, <3>2
    <3>4. \A o \in Threads : at[o] \in Nat \ {0}
      BY <3>1
    <3> QED
      BY <3>3, <3>4
  <2> QED
    BY <2>1, <2>2, <2>3, <2>4 DEF Typed, Streams, sub, Threads
<1>6. CASE ChangeSettings
  <2>1. /\ UNCHANGED <<case, registered, lock, ended, strayStop, listeners, poller, got, cpc, seen, count, pc, at, n, sets, chunk, marks, base>>
        /\ lst' = [c \in Clients |-> IF c \in Range(listeners) THEN [lst[c] EXCEPT !.pending = TRUE] ELSE lst[c]]
    BY <1>6 DEF ChangeSettings, clientVars, ghosts, localVars
  <2>2. \A d \in Streams : lst'[d] \in StreamListener
    <3> SUFFICES ASSUME NEW d \in Streams PROVE lst'[d] \in StreamListener
      OBVIOUS
    <3>1. d \in Clients /\ lst[d] \in StreamListener
      BY StreamIs
    <3>2. lst'[d] = [lst[d] EXCEPT !.pending = TRUE] \/ lst'[d] = lst[d]
      BY <2>1, <3>1
    <3> QED
      BY <3>1, <3>2 DEF StreamListener
  <2> QED
    BY <2>1, <2>2 DEF Typed, Streams, sub
<1>7. ASSUME NEW t \in Threads, CallStop(t) \/ Unregister(t) \/ LockForStop(t) PROVE Typed'
  <2>1. /\ UNCHANGED <<case, ended, listeners, lst, poller, got, cpc, seen, count, n, sets, chunk, marks, base>>
        /\ pc' \in [Threads -> {"idle", "atLock", "unregister", "stopLock", "stopped"} \cup Serves]
        /\ at' \in [Threads -> Nat \ {0}] /\ lock' \in Threads \cup {Nobody} /\ registered' \in BOOLEAN
        /\ strayStop' \in BOOLEAN
    <3>1. CASE CallStop(t)
      <4>1. strayStop' \in BOOLEAN
        <5>1. strayStop' = (t = "other" /\ pc["worker"] # "idle")
          BY <3>1 DEF CallStop
        <5> QED
          BY <5>1
      <4> QED
        BY <3>1, <4>1 DEF CallStop, listenerVars, clientVars, Typed
    <3>2. CASE Unregister(t)
      BY <3>2 DEF Unregister, listenerVars, clientVars, ghosts, Typed
    <3>3. CASE LockForStop(t)
      BY <3>3 DEF LockForStop, listenerVars, clientVars, ghosts, Typed, Serves
    <3> QED
      BY <1>7, <3>1, <3>2, <3>3
  <2> QED
    BY <2>1 DEF Typed, Streams, sub
<1>8. ASSUME NEW t \in Threads, ServeStream(t) \/ PublishTags(t) \/ PublishSamples(t) PROVE Typed'
  <2>1. UNCHANGED <<registry, registered, lock, listeners, ended, history, chunk, clientVars, ghosts>>
    BY <1>8 DEF ServeStream, PublishTags, PublishSamples, Within
  <2>2. PICK c \in Streams : c = Served("worker")
    BY <1>8, ServeStreamIs, PublishTagsIs, PublishSamplesIs
  <2>3. /\ sets' = sets /\ got' = got /\ DOMAIN poller' = Clients /\ DOMAIN lst' = Clients
        /\ poller'[c] \in StreamPoller /\ lst'[c] \in StreamListener
        /\ \A d \in Clients : d # c => poller'[d] = poller[d] /\ lst'[d] = lst[d]
        /\ pc' = [pc EXCEPT !["worker"] = "serves"] \/ pc' = [pc EXCEPT !["worker"] = "tags"] \/ pc' = [pc EXCEPT !["worker"] = "samples"]
        /\ at' = at \/ at' = [at EXCEPT !["worker"] = @ + 1]
        /\ n' \in [Threads -> [samples : Int, tags : Int]]
    <3>1. CASE ServeStream(t)
      BY <2>2, <3>1, ServeStreamIs DEF StreamServed, Typed
    <3>2. CASE PublishTags(t)
      <4>1. PICK out : TagsOut(c, out)
        BY <2>2, <3>2, PublishTagsIs
      <4>2. DOMAIN poller = Clients /\ DOMAIN lst = Clients /\ n \in [Threads -> [samples : Int, tags : Int]]
        BY DEF Typed
      <4>3. \A d \in Clients : d # c => poller'[d] = poller[d] /\ lst'[d] = lst[d]
        BY <4>1, <4>2 DEF TagsOut
      <4>4. DOMAIN poller' = Clients /\ DOMAIN lst' = Clients
        BY <4>1, <4>2 DEF TagsOut
      <4> QED
        BY <4>1, <4>2, <4>3, <4>4 DEF TagsOut
    <3>3. CASE PublishSamples(t)
      <4>1. PICK k : SamplesOut(c, k)
        BY <2>2, <3>3, PublishSamplesIs
      <4>2. n' \in [Threads -> [samples : Int, tags : Int]]
        <5>1. n \in [Threads -> [samples : Int, tags : Int]] /\ NoCounts \in [samples : Int, tags : Int]
          BY DEF Typed, NoCounts
        <5> QED
          BY <4>1, <5>1 DEF SamplesOut
      <4> QED
        BY <4>1, <4>2 DEF SamplesOut
    <3> QED
      BY <1>8, <3>1, <3>2, <3>3
  <2>4. \A d \in Streams : poller'[d] \in StreamPoller /\ lst'[d] \in StreamListener
    BY <2>3, StreamIs
  <2>5. pc' \in [Threads -> {"idle", "atLock", "unregister", "stopLock", "stopped"} \cup Serves] /\ at' \in [Threads -> Nat \ {0}]
    <3>1. pc \in [Threads -> {"idle", "atLock", "unregister", "stopLock", "stopped"} \cup Serves] /\ at \in [Threads -> Nat \ {0}]
      BY DEF Typed
    <3> QED
      BY <2>3, <3>1 DEF Serves
  <2> QED
    BY <2>1, <2>3, <2>4, <2>5 DEF Typed, Streams, sub, clientVars, ghosts
<1>9. ASSUME NEW t \in Threads, SetStep(t) PROVE Typed'
  <2>1. UNCHANGED <<registry, registered, lock, listeners, ended, history, chunk, clientVars, ghosts>>
    BY <1>9 DEF SetStep, ServeWindows, ServeStop, PublishSet, SetsArePublished, Within
  <2>2. /\ \A d \in Streams : Alike(d)
        /\ DOMAIN poller' = Clients /\ DOMAIN lst' = Clients /\ DOMAIN sets' = Threads /\ UNCHANGED <<n, got>>
        /\ at' = at \/ at' = [at EXCEPT ![t] = @ + 1]
        /\ \/ pc' = pc \/ pc' = [pc EXCEPT ![t] = "publishes"] \/ pc' = [pc EXCEPT ![t] = "waits"]
           \/ pc' = [pc EXCEPT ![t] = "serves"]
    BY <1>9, SetStepIs, Zenon
  <2>3. pc' \in [Threads -> {"idle", "atLock", "unregister", "stopLock", "stopped"} \cup Serves] /\ at' \in [Threads -> Nat \ {0}]
    <3>1. pc \in [Threads -> {"idle", "atLock", "unregister", "stopLock", "stopped"} \cup Serves] /\ at \in [Threads -> Nat \ {0}]
      BY DEF Typed
    <3> QED
      BY <2>2, <3>1 DEF Serves
  <2> QED
    BY <2>1, <2>2, <2>3 DEF Typed, Streams, sub, clientVars, ghosts, Alike
<1>10. ASSUME NEW t \in Threads, Leave(t) PROVE Typed'
  <2>1. /\ UNCHANGED <<case, registered, listeners, strayStop, lst, poller, got, cpc, seen, count, n, sets, marks, base>>
        /\ lock' = Nobody /\ at' = [at EXCEPT ![t] = 1]
        /\ \/ ended' = TRUE /\ chunk' = chunk /\ pc' = [pc EXCEPT ![t] = "stopped"]
           \/ ended' = ended /\ chunk' = NoInput /\ pc' = [pc EXCEPT ![t] = "idle"]
    BY <1>10 DEF Leave, clientVars, ghosts, Goes
  <2>2. NoInput \in [from : Nat, size : Nat, mark : Tags]
    BY DEF NoInput, Tags
  <2>3. pc' \in [Threads -> {"idle", "atLock", "unregister", "stopLock", "stopped"} \cup Serves]
    BY <2>1 DEF Typed
  <2>4. at' \in [Threads -> Nat \ {0}]
    BY <2>1 DEF Typed
  <2>5. chunk' \in [from : Nat, size : Nat, mark : Tags] /\ ended' \in BOOLEAN
    BY <2>1, <2>2 DEF Typed
  <2> QED
    BY <2>1, <2>3, <2>4, <2>5 DEF Typed, Streams, sub
<1> QED
  BY <1>1, <1>2, <1>3, <1>4, <1>5, <1>6, <1>7, <1>8, <1>9, <1>10 DEF SinkNext, SinkStep, ClientStep, SetStep

-----------------------------------------------------------------------------
(* Turns *)

ServeStep(t) == ServeStream(t) \/ PublishTags(t) \/ PublishSamples(t) \/ SetStep(t)

LEMMA ServeStepIs ==
    ASSUME Typed, Turns, Listed, Planned, NEW t \in Threads, ServeStep(t)
    PROVE  /\ UNCHANGED <<registry, registered, lock, listeners, ended, history, chunk, clientVars, ghosts>>
           /\ pc[t] \in Serves
           /\ \E x \in Serves : pc' = [pc EXCEPT ![t] = x] /\ (x \in {"tags", "samples"} => ~InStop(t))
<1>1. pc = [pc EXCEPT ![t] = pc[t]]
  BY DEF Typed
<1>2. CASE ServeStream(t)
  BY <1>2 DEF ServeStream, Within, Serving, Serves, NextListener, Goes
<1>3. CASE PublishTags(t)
  BY <1>3 DEF PublishTags, Within, Serves, Goes, Turns
<1>4. CASE PublishSamples(t)
  BY <1>4 DEF PublishSamples, Within, Serves, Goes, NextListener
<1>5. CASE SetStep(t)
  <2>1. UNCHANGED <<registry, registered, lock, listeners, ended, history, chunk, clientVars, ghosts>>
    BY <1>5 DEF SetStep, ServeWindows, ServeStop, PublishSet, SetsArePublished, Within
  <2>2. pc[t] \in Serves \ {"tags", "samples"}
    BY <1>5 DEF SetStep, ServeWindows, ServeStop, PublishSet, SetsArePublished, Serving, Serves
  <2>3. \/ pc' = pc \/ pc' = [pc EXCEPT ![t] = "publishes"] \/ pc' = [pc EXCEPT ![t] = "waits"]
        \/ pc' = [pc EXCEPT ![t] = "serves"]
    BY <1>5, SetStepIs, Zenon
  <2> QED
    BY <1>1, <2>1, <2>2, <2>3 DEF Serves
<1> QED
  BY <1>2, <1>3, <1>4, <1>5 DEF ServeStep

LEMMA StepTurns ==
    ASSUME IInv, SinkNext
    PROVE  Turns'
<1> USE DEF IInv
<1>0. Typed /\ Turns /\ Listed /\ Planned
  OBVIOUS
<1>1. ASSUME UNCHANGED <<pc, lock, chunk, registered, ended, strayStop, marks>> PROVE Turns'
  BY <1>0, <1>1 DEF Turns, InStop, Stopping, Offered
<1>2. ASSUME NEW c \in Clients, AskRegistry(c) \/ CountAvailable(c) \/ LookFinished(c) \/ Release(c) \/ GetPoller(c) \/ Take(c)
      PROVE  Turns'
  <2>1. UNCHANGED <<pc, lock, chunk, registered, ended, strayStop, marks>>
    BY <1>2 DEF AskRegistry, CountAvailable, LookFinished, Release, GetPoller, Take, listenerVars, localVars, ghosts
  <2> QED
    BY <1>1, <2>1
<1>3. CASE ChangeSettings
  BY <1>1, <1>3 DEF ChangeSettings, localVars, ghosts
<1>4. ASSUME NEW size \in 1..MaxChunk, NEW mark \in {None} \cup case.tags, ProcessBulk(size, mark) PROVE Turns'
  <2>1. /\ UNCHANGED <<registered, lock, ended, strayStop>> /\ pc["worker"] = "idle" /\ ~Stopping
        /\ pc' = [pc EXCEPT !["worker"] = "atLock"] /\ chunk' = [from |-> Offered, size |-> size, mark |-> mark]
        /\ marks' = marks \o [i \in 1..size |-> IF i = 1 THEN mark ELSE None]
    BY <1>4 DEF ProcessBulk, listenerVars, clientVars
  <2>2. mark \in Tags /\ size \in Nat /\ size >= 1 /\ Offered \in Nat
    BY CaseIs, LenProperties DEF Tags, Typed, Offered
  <2>3. PICK new \in Seq(Tags) : /\ marks' = marks \o new /\ Len(new) = size
                                 /\ \A i \in 1..size : new[i] = IF i = 1 THEN mark ELSE None
    <3>1. PICK new : new = [i \in 1..size |-> IF i = 1 THEN mark ELSE None]
      OBVIOUS
    <3>2. new \in Seq(Tags) /\ Len(new) = size
      BY <2>2, <3>1 DEF Tags
    <3> QED
      BY <2>1, <3>1, <3>2
  <2>4. /\ Len(marks') = Offered + size
        /\ \A i \in 1..Offered + size : marks'[i] = IF i <= Offered THEN marks[i] ELSE new[i - Offered]
    <3>1. marks \in Seq(Tags) /\ Offered = Len(marks)
      BY DEF Typed, Offered
    <3>2. /\ Len(marks \o new) = Len(marks) + Len(new)
          /\ \A i \in 1..Len(marks) + Len(new) :
               (marks \o new)[i] = IF i <= Len(marks) THEN marks[i] ELSE new[i - Len(marks)]
      BY <2>3, <3>1, ConcatProperties
    <3> QED
      BY <2>3, <3>1, <3>2
  <2>5. chunk'.from = Offered /\ chunk'.size = size /\ chunk'.mark = mark
    BY <2>1
  <2>6. /\ chunk'.from + chunk'.size = Offered' /\ marks'[chunk'.from + 1] = chunk'.mark
        /\ \A k \in chunk'.from + 2 .. Offered' : marks'[k] = None
    <3>1. Offered' = Offered + size
      BY <2>4 DEF Offered
    <3>2. Offered + 1 \in 1..Offered + size /\ ~ (Offered + 1 <= Offered) /\ Offered + 1 - Offered = 1 /\ 1 \in 1..size
      BY <2>2
    <3>3. \A k \in Offered + 2 .. Offered + size :
             k \in 1..Offered + size /\ ~ (k <= Offered) /\ k - Offered \in 1..size /\ k - Offered # 1
      BY <2>2
    <3>4. marks'[Offered + 1] = mark
      <4>1. marks'[Offered + 1] = new[1]
        BY <2>2, <2>4, <3>2
      <4>2. new[1] = mark
        BY <2>3, <3>2
      <4> QED
        BY <4>1, <4>2
    <3>5. \A k \in Offered + 2 .. Offered + size : marks'[k] = None
      BY <2>3, <2>4, <3>3
    <3> QED
      BY <2>5, <3>1, <3>4, <3>5
  <2>7. chunk' # NoInput
    BY <2>2, <2>5 DEF NoInput
  <2>8. ~Stopping'
    BY <2>1 DEF Stopping, Typed
  <2>9. pc'["worker"] = "atLock" /\ pc'["other"] = pc["other"] /\ \A t \in Threads : t = "worker" \/ t = "other"
    BY <2>1 DEF Typed, Threads
  <2>10. \A t \in Threads : pc'[t] \in Serves <=> lock' = t
    BY <1>0, <2>1, <2>9 DEF Turns, Serves
  <2>11. \A t \in Threads :
        /\ pc'[t] \in {"tags", "samples"} => ~InStop(t)'
        /\ pc'[t] \in {"stopLock", "stopped"} \/ (pc'[t] \in Serves /\ InStop(t)') => ~registered'
    BY <1>0, <2>1, <2>9 DEF Turns, Serves, InStop, Threads
  <2> QED
    BY <1>0, <2>1, <2>2, <2>5, <2>6, <2>7, <2>8, <2>9, <2>10, <2>11 DEF Turns
<1>5. CASE LockForChunk
  <2>1. /\ UNCHANGED <<chunk, registered, ended, strayStop, marks>> /\ lock = Nobody /\ lock' = "worker"
        /\ pc["worker"] = "atLock" /\ pc' = [pc EXCEPT !["worker"] = "serves"]
    BY <1>5 DEF LockForChunk, ghosts
  <2>2. \A t \in Threads : pc'[t] = IF t = "worker" THEN "serves" ELSE pc[t]
    BY <2>1 DEF Typed
  <2>3. Stopping' <=> Stopping
    BY <2>1, <2>2 DEF Stopping, Threads
  <2> QED
    BY <1>0, <2>1, <2>2, <2>3 DEF Turns, InStop, Serves, Threads, Nobody, Offered
<1>6. ASSUME NEW t \in Threads, CallStop(t) PROVE Turns'
  <2>1. /\ UNCHANGED <<chunk, registered, ended, lock, marks>> /\ pc[t] = "idle" /\ ~Stopping
        /\ pc' = [pc EXCEPT ![t] = "unregister"] /\ strayStop' = (t = "other" /\ pc["worker"] # "idle")
    BY <1>6 DEF CallStop, listenerVars
  <2>2. \A o \in Threads : pc'[o] = IF o = t THEN "unregister" ELSE pc[o]
    BY <2>1 DEF Typed
  <2>3. ~strayStop' => chunk' = NoInput
    BY <1>0, <2>1 DEF Turns, Threads, Serves
  <2> QED
    BY <1>0, <2>1, <2>2, <2>3 DEF Turns, InStop, Serves, Threads, Offered, Nobody
<1>7. ASSUME NEW t \in Threads, Unregister(t) PROVE Turns'
  <2>1. /\ UNCHANGED <<chunk, ended, lock, marks, strayStop>> /\ pc[t] = "unregister" /\ registered' = FALSE
        /\ pc' = [pc EXCEPT ![t] = "stopLock"]
    BY <1>7 DEF Unregister, listenerVars, ghosts
  <2>2. \A o \in Threads : pc'[o] = IF o = t THEN "stopLock" ELSE pc[o]
    BY <2>1 DEF Typed
  <2>3. Stopping
    BY <2>1 DEF Stopping
  <2> QED
    BY <1>0, <2>1, <2>2, <2>3 DEF Turns, InStop, Serves, Threads, Offered
<1>8. ASSUME NEW t \in Threads, LockForStop(t) PROVE Turns'
  <2>1. /\ UNCHANGED <<chunk, ended, registered, marks, strayStop>> /\ pc[t] = "stopLock" /\ lock = Nobody /\ lock' = t
        /\ pc' = [pc EXCEPT ![t] = "serves"]
    BY <1>8 DEF LockForStop, listenerVars, ghosts
  <2>2. \A o \in Threads : pc'[o] = IF o = t THEN "serves" ELSE pc[o]
    BY <2>1 DEF Typed
  <2>3. Stopping' => Stopping
    BY <2>1, <2>2 DEF Stopping, Threads
  <2> QED
    BY <1>0, <2>1, <2>2, <2>3 DEF Turns, InStop, Serves, Threads, Nobody, Offered
<1>9. ASSUME NEW t \in Threads, ServeStep(t) PROVE Turns'
  <2>1. UNCHANGED <<registered, lock, ended, chunk, strayStop, marks>> /\ pc[t] \in Serves
    BY <1>9, ServeStepIs DEF ghosts
  <2>2. PICK x \in Serves : pc' = [pc EXCEPT ![t] = x] /\ (x \in {"tags", "samples"} => ~InStop(t))
    BY <1>9, ServeStepIs
  <2>3. \A o \in Threads : pc'[o] = IF o = t THEN x ELSE pc[o]
    BY <2>2 DEF Typed
  <2>4. Stopping' => Stopping
    BY <2>1, <2>2, <2>3 DEF Stopping, Serves
  <2> QED
    BY <1>0, <2>1, <2>2, <2>3, <2>4 DEF Turns, InStop, Serves, Threads, Offered
<1>10. ASSUME NEW t \in Threads, Leave(t) PROVE Turns'
  <2>1. /\ UNCHANGED <<registered, strayStop, marks>> /\ pc[t] = "serves" /\ lock' = Nobody
        /\ \/ InStop(t) /\ ended' = TRUE /\ chunk' = chunk /\ pc' = [pc EXCEPT ![t] = "stopped"]
           \/ ~InStop(t) /\ ended' = ended /\ chunk' = NoInput /\ pc' = [pc EXCEPT ![t] = "idle"]
    BY <1>10 DEF Leave, clientVars, ghosts, Goes
  <2>2. \A o \in Threads : o # t => pc'[o] = pc[o] /\ pc[o] \notin Serves
    BY <1>0, <2>1 DEF Typed, Turns, Serves
  <2>3. Stopping' => Stopping
    BY <2>1, <2>2 DEF Stopping, Typed
  <2>4. CASE InStop(t)
    <3>1. pc'[t] = "stopped" /\ chunk' = chunk /\ ended' = TRUE
      BY <2>1, <2>4 DEF Typed
    <3>2. ~registered
      BY <1>0, <2>1, <2>4 DEF Turns, Serves
    <3>3. t = "worker" => chunk = NoInput
      BY <2>4 DEF InStop
    <3> QED
      BY <1>0, <2>1, <2>2, <2>3, <3>1, <3>2, <3>3 DEF Turns, InStop, Serves, Threads, Offered, Nobody
  <2>5. CASE ~InStop(t)
    <3>1. pc'[t] = "idle" /\ chunk' = NoInput /\ ended' = ended /\ t = "worker"
      BY <2>1, <2>5 DEF Typed, InStop, Threads
    <3> QED
      BY <1>0, <2>1, <2>2, <2>3, <3>1 DEF Turns, InStop, Serves, Threads, Nobody
  <2> QED
    BY <2>4, <2>5
<1> QED
  BY <1>2, <1>3, <1>4, <1>5, <1>6, <1>7, <1>8, <1>9, <1>10 DEF SinkNext, SinkStep, ClientStep, ServeStep, SetStep

-----------------------------------------------------------------------------
(* Listeners *)

(* A step of the thread that serves keeps the list                         *)
LEMMA ListedServes ==
    ASSUME Typed, Turns, Listed, NEW t \in Threads, pc[t] \in Serves, UNCHANGED <<case, listeners, cpc, chunk>>,
           \A d \in Streams : lst'[d].expired => Gone(d),
           NEW x \in Serves, pc' = [pc EXCEPT ![t] = x],
           \A o \in Threads : o # t => sets'[o] = sets[o],
           x # "serves" => UNCHANGED at /\ at[t] \in DOMAIN listeners,
           x \in {"tags", "samples"} => Served(t) \in Streams,
           x \in {"publishes", "waits"} /\ ~InStop(t) => Served(t) \notin Streams,
           sets'[t] # <<>> => x \in {"publishes", "waits"} /\ Served(t) \notin Streams
    PROVE  Listed'
<1>1. Streams' = Streams /\ \A d \in Streams : Gone(d)' <=> Gone(d)
  BY DEF Streams, sub, Gone
<1>2. \A o \in Threads : pc'[o] = IF o = t THEN x ELSE pc[o]
  BY DEF Typed
<1>3. \A o \in Threads : o # t => pc[o] \notin Serves /\ sets'[o] = <<>>
  BY DEF Turns, Listed, Serves
<1>4. x # "serves" => Served(t)' = Served(t)
  BY DEF Served
<1>5. ASSUME NEW o \in Threads
      PROVE  /\ pc'[o] \in Serves \ {"serves"} => at'[o] \in DOMAIN listeners'
             /\ pc'[o] \in {"tags", "samples"} => Served(o)' \in Streams'
             /\ pc'[o] \in {"publishes", "waits"} /\ ~InStop(o)' => Served(o)' \notin Streams'
             /\ sets'[o] # <<>> => pc'[o] \in {"publishes", "waits"} /\ Served(o)' \notin Streams'
  <2>1. CASE o = t
    BY <1>1, <1>2, <1>4, <2>1 DEF InStop
  <2>2. CASE o # t
    <3>1. pc'[o] \notin Serves
      BY <1>2, <1>3, <2>2
    <3> QED
      BY <1>3, <2>2, <3>1 DEF Serves
  <2> QED
    BY <2>1, <2>2
<1> QED
  BY <1>1, <1>5 DEF Listed

(* So does a step of another thread that has nothing to do with it.        *)
LEMMA ListedStays ==
    ASSUME Typed, Turns, Listed, UNCHANGED <<case, listeners, sets>>,
           chunk' = chunk \/ pc'["worker"] \notin {"publishes", "waits"},
           \A d \in Streams : lst'[d].expired <=> lst[d].expired,
           \A d \in Clients : /\ cpc[d] \in In => cpc'[d] \in In
                              /\ cpc'[d] \in In \ {"gone"} => cpc[d] \in In \ {"gone"}
                              /\ Gone(d) => Gone(d)',
           \A o \in Threads : (pc'[o] = pc[o] /\ at'[o] = at[o]) \/ (sets[o] = <<>> /\ pc'[o] \notin Serves \ {"serves"})
    PROVE  Listed'
<1>1. Streams' = Streams /\ Streams \subseteq Clients
  BY DEF Streams, sub
<1>2. \A i \in DOMAIN listeners : listeners[i] \in Clients
  BY LenProperties, ElementOfSeq DEF Typed
<1>3. ASSUME NEW o \in Threads
      PROVE  /\ pc'[o] \in Serves \ {"serves"} => at'[o] \in DOMAIN listeners'
             /\ pc'[o] \in {"tags", "samples"} => Served(o)' \in Streams'
             /\ pc'[o] \in {"publishes", "waits"} /\ ~InStop(o)' => Served(o)' \notin Streams'
             /\ sets'[o] # <<>> => pc'[o] \in {"publishes", "waits"} /\ Served(o)' \notin Streams'
  <2>1. CASE pc'[o] = pc[o] /\ at'[o] = at[o]
    <3>1. pc'[o] \in {"publishes", "waits"} /\ ~InStop(o)' => ~InStop(o)
      BY DEF InStop, Threads
    <3> QED
      BY <1>1, <2>1, <3>1 DEF Listed, Served
  <2>2. CASE sets[o] = <<>> /\ pc'[o] \notin Serves \ {"serves"}
    BY <2>2 DEF Serves
  <2> QED
    BY <2>1, <2>2
<1>4. \A d \in Streams : lst'[d].expired => Gone(d)'
  BY <1>1 DEF Listed
<1>5. \A i \in DOMAIN listeners' : cpc'[listeners'[i]] \in In
  BY <1>2 DEF Listed
<1>6. \A d \in Streams' : cpc'[d] \in In \ {"gone"} => d \in Range(listeners')
  BY <1>1 DEF Listed
<1>7. \A i, j \in DOMAIN listeners' : listeners'[i] = listeners'[j] => i = j
  BY DEF Listed
<1> QED
  BY <1>1, <1>3, <1>4, <1>5, <1>6, <1>7 DEF Listed

LEMMA StepListed ==
    ASSUME IInv, SinkNext
    PROVE  Listed'
<1> USE DEF IInv
<1>0. Typed /\ Turns /\ Listed /\ Planned /\ (\A t \in Threads : t = "worker" \/ t = "other") /\ "worker" \in Threads
  BY DEF Threads
<1>1. ASSUME NEW c \in Clients, AskRegistry(c) \/ CountAvailable(c) \/ LookFinished(c) \/ Release(c) \/ Take(c) PROVE Listed'
  <2>1. UNCHANGED <<case, listeners, sets, lst, pc, at, chunk>>
    BY <1>1 DEF AskRegistry, CountAvailable, LookFinished, Release, Take, clientVars, listenerVars, localVars
  <2>2. PICK x : /\ cpc' = [cpc EXCEPT ![c] = x]
                 /\ (cpc[c] \in Out /\ x \in Out) \/ (cpc[c] \in In \ {"gone"} /\ x \in In)
    BY <1>1 DEF AskRegistry, CountAvailable, LookFinished, Release, Take, Out, In
  <2>3. \A d \in Clients : cpc'[d] = IF d = c THEN x ELSE cpc[d]
    BY <2>2 DEF Typed
  <2>4. \A d \in Clients : /\ cpc[d] \in In => cpc'[d] \in In
                           /\ cpc'[d] \in In \ {"gone"} => cpc[d] \in In \ {"gone"}
                           /\ Gone(d) => Gone(d)'
    BY <2>2, <2>3 DEF Out, In, Gone
  <2> QED
    BY <1>0, <2>1, <2>4, ListedStays
<1>2. ASSUME NEW c \in Clients, GetPoller(c) PROVE Listed'
  <2>1. /\ UNCHANGED <<case, sets, pc, at>> /\ lock = Nobody
        /\ cpc' = [cpc EXCEPT ![c] = "has"] /\ cpc[c] \in Out
        /\ listeners' = IF sub[c].block THEN Append(listeners, c) ELSE <<c>> \o listeners
        /\ lst' = [lst EXCEPT ![c] = NoListener]
    BY <1>2 DEF GetPoller, localVars, Out
  <2>2. Streams' = Streams /\ Streams \subseteq Clients
    BY <2>1 DEF Streams, sub
  <2>3. \A d \in Clients : cpc'[d] = IF d = c THEN "has" ELSE cpc[d]
    BY <2>1 DEF Typed
  <2>4. \A t \in Threads : pc[t] \notin Serves /\ sets[t] = <<>>
    BY <2>1 DEF Turns, Listed, Serves, Nobody, Threads
  <2>5. \A d \in Streams : lst'[d].expired => Gone(d)'
    <3>1. \A d \in Streams : lst'[d] = IF d = c THEN NoListener ELSE lst[d]
      BY <2>1, <2>2 DEF Typed
    <3> QED
      BY <2>2, <2>3, <3>1 DEF Listed, Gone, NoListener
  <2>6. PICK len \in Nat : len = Len(listeners) /\ DOMAIN listeners = 1..len /\ \A i \in 1..len : listeners[i] \in Clients
    BY LenProperties, ElementOfSeq DEF Typed
  <2>7. \A i \in 1..len : listeners[i] # c
    BY <2>1, <2>6 DEF Listed, In, Out
  <2>8. CASE sub[c].block
    <3>1. /\ listeners' \in Seq(Clients) /\ Len(listeners') = len + 1
          /\ \A i \in 1..len : listeners'[i] = listeners[i]
          /\ listeners'[len + 1] = c
      BY <2>1, <2>6, <2>8, AppendProperties DEF Typed
    <3>2. DOMAIN listeners' = 1..len + 1
      BY <3>1, LenProperties
    <3>3. \A i \in 1..len + 1 : i \in 1..len \/ i = len + 1
      OBVIOUS
    <3>4. \A i, j \in DOMAIN listeners' : listeners'[i] = listeners'[j] => i = j
      BY <2>6, <2>7, <3>1, <3>2, <3>3 DEF Listed
    <3>5. \A i \in DOMAIN listeners' : cpc'[listeners'[i]] \in In
      BY <2>3, <2>6, <3>1, <3>2, <3>3 DEF Listed, In
    <3>6. \A i \in 1..len : i \in 1..len + 1
      OBVIOUS
    <3>7. Range(listeners) \subseteq Range(listeners') /\ c \in Range(listeners')
      <4>1. len + 1 \in 1..len + 1
        OBVIOUS
      <4> QED
        BY <2>6, <3>1, <3>2, <3>6, <4>1 DEF Range
    <3>8. \A d \in Streams' : cpc'[d] \in In \ {"gone"} => d \in Range(listeners')
      BY <2>2, <2>3, <3>7 DEF Listed
    <3> QED
      BY <2>1, <2>2, <2>4, <2>5, <3>4, <3>5, <3>8 DEF Listed, Serves
  <2>9. CASE ~sub[c].block
    <3>0. listeners \in Seq(Clients) /\ <<c>> \in Seq(Clients) /\ Len(<<c>>) = 1 /\ <<c>>[1] = c
      BY DEF Typed
    <3>1. /\ listeners' \in Seq(Clients) /\ Len(listeners') = 1 + len
          /\ \A i \in 1..1 + len : listeners'[i] = IF i <= 1 THEN <<c>>[i] ELSE listeners[i - 1]
      <4>1. listeners' = <<c>> \o listeners
        BY <2>1, <2>9
      <4> HIDE <2>9
      <4> QED
        BY <2>6, <3>0, <4>1, ConcatProperties
    <3>2. DOMAIN listeners' = 1..1 + len
      BY <3>1, LenProperties
    <3>3. \A i \in 1..1 + len : i = 1 \/ (i # 1 /\ ~ (i <= 1) /\ i - 1 \in 1..len)
      OBVIOUS
    <3>4. listeners'[1] = c /\ \A i \in 1..len : i + 1 \in 1..1 + len /\ listeners'[i + 1] = listeners[i]
      <4>1. 1 \in 1..1 + len /\ \A i \in 1..len : i + 1 \in 1..1 + len /\ ~ (i + 1 <= 1) /\ i + 1 - 1 = i
        OBVIOUS
      <4> QED
        BY <3>0, <3>1, <4>1
    <3>5. \A i, j \in DOMAIN listeners' : listeners'[i] = listeners'[j] => i = j
      <4> SUFFICES ASSUME NEW i \in 1..1 + len, NEW j \in 1..1 + len, listeners'[i] = listeners'[j] PROVE i = j
        BY <3>2
      <4>1. CASE i = 1 \/ j = 1
        BY <2>7, <3>1, <3>3, <3>4, <4>1
      <4>2. CASE i # 1 /\ j # 1
        <5>1. i - 1 \in 1..len /\ j - 1 \in 1..len /\ listeners'[i] = listeners[i - 1] /\ listeners'[j] = listeners[j - 1]
          BY <3>1, <3>3, <4>2
        <5>2. PICK a \in DOMAIN listeners, b \in DOMAIN listeners :
                 a = i - 1 /\ b = j - 1 /\ listeners[a] = listeners[b]
          BY <2>6, <5>1
        <5>3. a = b
          BY <5>2 DEF Listed
        <5> QED
          BY <5>2, <5>3
      <4> QED
        BY <4>1, <4>2
    <3>6. \A i \in DOMAIN listeners' : cpc'[listeners'[i]] \in In
      <4> SUFFICES ASSUME NEW i \in 1..1 + len PROVE cpc'[listeners'[i]] \in In
        BY <3>2
      <4>1. CASE i = 1
        BY <2>3, <3>4, <4>1 DEF In
      <4>2. CASE i # 1
        <5>1. i - 1 \in 1..len /\ listeners'[i] = listeners[i - 1]
          BY <3>1, <3>3, <4>2
        <5> QED
          BY <2>3, <2>6, <5>1 DEF Listed, In
      <4> QED
        BY <4>1, <4>2
    <3>7. Range(listeners) \subseteq Range(listeners') /\ c \in Range(listeners')
      <4>1. 1 \in 1..1 + len
        OBVIOUS
      <4> QED
        BY <2>6, <3>2, <3>4, <4>1 DEF Range
    <3>8. \A d \in Streams' : cpc'[d] \in In \ {"gone"} => d \in Range(listeners')
      BY <2>2, <2>3, <3>7 DEF Listed
    <3> QED
      BY <2>1, <2>2, <2>4, <2>5, <3>5, <3>6, <3>8 DEF Listed, Serves
  <2> QED
    BY <2>8, <2>9
<1>3. \A t \in Threads : pc[t] \notin {"publishes", "waits"} => sets[t] = <<>>
  BY DEF Listed
<1>4. CASE ChangeSettings
  <2>1. /\ UNCHANGED <<case, listeners, sets, cpc, pc, at, chunk>>
        /\ lst' = [c \in Clients |-> IF c \in Range(listeners) THEN [lst[c] EXCEPT !.pending = TRUE] ELSE lst[c]]
    BY <1>4 DEF ChangeSettings, clientVars, localVars
  <2>2. \A d \in Streams : lst'[d].expired <=> lst[d].expired
    <3> SUFFICES ASSUME NEW d \in Streams PROVE lst'[d].expired <=> lst[d].expired
      OBVIOUS
    <3>1. d \in Clients /\ lst[d] \in StreamListener
      BY StreamIs
    <3>2. lst'[d] = [lst[d] EXCEPT !.pending = TRUE] \/ lst'[d] = lst[d]
      BY <2>1, <3>1
    <3> QED
      BY <3>1, <3>2 DEF StreamListener
  <2>3. \A d \in Clients : Gone(d) => Gone(d)'
    BY <2>1 DEF Gone
  <2> QED
    BY <1>0, <2>1, <2>2, <2>3, ListedStays
<1>5. ASSUME NEW t \in Threads,
             \/ \E size \in 1..MaxChunk, mark \in {None} \cup case.tags : t = "worker" /\ ProcessBulk(size, mark)
             \/ CallStop(t) \/ Unregister(t) \/ LockForStop(t) \/ Leave(t)
      PROVE  Listed'
  <2>1. UNCHANGED <<case, listeners, sets, cpc, lst>> /\ pc[t] \in {"idle", "unregister", "stopLock", "serves"}
    BY <1>5 DEF ProcessBulk, CallStop, Unregister, LockForStop, Leave, clientVars, listenerVars
  <2>2. PICK x \in {"atLock", "unregister", "stopLock", "serves", "idle", "stopped"} : pc' = [pc EXCEPT ![t] = x]
    BY <1>5 DEF ProcessBulk, CallStop, Unregister, LockForStop, Leave, Goes
  <2>3. \A o \in Threads : o # t => at'[o] = at[o] /\ pc'[o] = pc[o]
    <3>1. at' = at \/ at' = [at EXCEPT ![t] = 1]
      BY <1>5 DEF ProcessBulk, CallStop, Unregister, LockForStop, Leave
    <3> QED
      BY <2>2, <3>1 DEF Typed
  <2>4. sets[t] = <<>> /\ pc'[t] \notin Serves \ {"serves"}
    BY <1>3, <2>1, <2>2 DEF Typed, Serves
  <2>5. \A d \in Clients : Gone(d) => Gone(d)'
    BY <2>1 DEF Gone
  <2>6. chunk' = chunk \/ pc'["worker"] \notin {"publishes", "waits"}
    <3>1. CASE t = "worker"
      BY <2>4, <3>1 DEF Serves
    <3>2. CASE t # "worker"
      <4>1. chunk' = chunk \/ Leave(t)
        BY <1>5, <3>2 DEF CallStop, Unregister, LockForStop
      <4>2. Leave(t) => chunk' = chunk
        BY <1>0, <3>2 DEF Leave, InStop
      <4> QED
        BY <4>1, <4>2
    <3> QED
      BY <3>1, <3>2
  <2> QED
    BY <1>0, <2>1, <2>3, <2>4, <2>5, <2>6, ListedStays
<1>6. CASE LockForChunk
  <2>1. /\ UNCHANGED <<case, sets, cpc, lst>> /\ lock = Nobody
        /\ pc' = [pc EXCEPT !["worker"] = "serves"] /\ listeners' = Live[Len(listeners)]
    BY <1>6 DEF LockForChunk, clientVars
  <2>2. PICK len \in Nat : len = Len(listeners) /\ DOMAIN listeners = 1..len
    BY LenProperties DEF Typed
  <2>3. LiveAt(len, Live[len])
    BY <2>2, LiveIs DEF Typed, Listed
  <2>4. PICK live : live = listeners' /\ LiveAt(len, live)
    BY <2>1, <2>2, <2>3
  <2>5. /\ live \in Seq(Clients) /\ DOMAIN live = 1..Len(live)
        /\ \A a \in 1..Len(live) : \E k \in 1..len : live[a] = listeners[k] /\ ~lst[listeners[k]].expired
        /\ \A k \in 1..len : lst[listeners[k]].expired \/ \E a \in 1..Len(live) : live[a] = listeners[k]
        /\ \A a, b \in 1..Len(live) : live[a] = live[b] => a = b
    BY <2>4, LenProperties DEF LiveAt
  <2>6. Streams' = Streams /\ Streams \subseteq Clients
    BY <2>1 DEF Streams, sub
  <2>7. \A t \in Threads : pc'[t] \notin Serves \ {"serves"} /\ sets'[t] = <<>>
    <3>1. \A t \in Threads : pc[t] \notin Serves
      BY <2>1 DEF Turns, Nobody, Threads
    <3> QED
      BY <1>3, <2>1, <3>1 DEF Typed, Serves
  <2>8. ASSUME NEW i \in DOMAIN live PROVE cpc'[live[i]] \in In
    <3>1. PICK k \in DOMAIN listeners : live[i] = listeners[k]
      BY <2>2, <2>5
    <3> QED
      BY <2>1, <3>1 DEF Listed
  <2>9. ASSUME NEW d \in Streams, cpc[d] \in In \ {"gone"} PROVE d \in Range(live)
    <3>1. d \in Range(listeners) /\ ~lst[d].expired
      BY <2>9 DEF Listed, Gone
    <3>2. PICK k \in 1..len : listeners[k] = d
      BY <2>2, <3>1 DEF Range
    <3>3. PICK a \in 1..Len(live) : live[a] = d
      BY <2>5, <3>1, <3>2
    <3> QED
      BY <2>5, <3>3 DEF Range
  <2>10. \A d \in Streams : lst'[d].expired => Gone(d)'
    BY <2>1 DEF Listed, Gone
  <2> QED
    BY <2>1, <2>4, <2>5, <2>6, <2>7, <2>8, <2>9, <2>10 DEF Listed, Serves
<1>7. ASSUME NEW t \in Threads, ServeStream(t) PROVE Listed'
  <2>1. PICK c \in Streams : c = Served("worker") /\ t = "worker" /\ Serving("worker") /\ StreamServed(c)
    BY <1>7, ServeStreamIs
  <2>2. UNCHANGED <<case, listeners, cpc, sets, chunk>>
    BY <1>7 DEF ServeStream, Within, clientVars
  <2>3. at["worker"] \in DOMAIN listeners /\ sets["worker"] = <<>> /\ pc["worker"] \in Serves
    BY <1>3, <2>1, ServedIs DEF Serving, Serves
  <2>4. \A d \in Streams : lst'[d].expired => Gone(d)
    <3>1. lst[c] \in StreamListener /\ Streams \subseteq Clients
      BY StreamIs DEF Streams
    <3>2. (lst'[c] = [lst[c] EXCEPT !.expired = TRUE] /\ Gone(c)) \/ lst' = lst
      BY <2>1 DEF StreamServed
    <3> QED
      BY <2>1, <3>1, <3>2 DEF Listed, StreamServed
  <2>5. PICK x \in {"serves", "tags"} : pc' = [pc EXCEPT !["worker"] = x] /\ (x # "serves" => UNCHANGED at)
    BY <2>1 DEF StreamServed
  <2>6. x \in Serves
    BY DEF Serves
  <2> QED
    BY <1>0, <2>1, <2>2, <2>3, <2>4, <2>5, <2>6, ListedServes
<1>8. ASSUME NEW t \in Threads, PublishTags(t) PROVE Listed'
  <2>1. /\ UNCHANGED <<case, listeners, cpc, sets, at, chunk>> /\ pc' = [pc EXCEPT ![t] = "samples"] /\ pc[t] = "tags"
    BY <1>8 DEF PublishTags, Within, Goes, clientVars
  <2>2. \A d \in Streams : lst'[d].expired => Gone(d)
    <3>1. PICK c \in Streams : \E out : TagsOut(c, out)
      BY <1>8, PublishTagsIs
    <3>2. PICK out : TagsOut(c, out)
      BY <3>1
    <3>3. lst[c] \in StreamListener /\ \A d \in Streams : lst'[d].expired <=> lst[d].expired
      <4>1. lst[c] \in StreamListener /\ Streams \subseteq Clients
        BY StreamIs DEF Streams
      <4>2. lst' = [lst EXCEPT ![c] = [lst[c] EXCEPT !.pending = @ /\ out = <<>>]]
        BY <3>2 DEF TagsOut
      <4>3. lst'[c].expired <=> lst[c].expired
        BY <4>1, <4>2 DEF StreamListener, Typed
      <4> QED
        BY <4>1, <4>2, <4>3 DEF Typed
    <3> QED
      BY <3>3 DEF Listed
  <2>3. at[t] \in DOMAIN listeners /\ Served(t) \in Streams /\ sets[t] = <<>> /\ "samples" \in Serves /\ pc[t] \in Serves
    BY <1>3, <2>1 DEF Listed, Serves
  <2> QED
    BY <1>0, <2>1, <2>2, <2>3, ListedServes
<1>9. ASSUME NEW t \in Threads, PublishSamples(t) PROVE Listed'
  <2>1. /\ UNCHANGED <<case, listeners, cpc, sets, chunk>> /\ pc' = [pc EXCEPT ![t] = "serves"] /\ pc[t] = "samples"
    BY <1>9 DEF PublishSamples, Within, NextListener, Goes, clientVars
  <2>2. \A d \in Streams : lst'[d].expired => Gone(d)
    <3>1. PICK c \in Streams, k \in Nat : c = Served("worker") /\ SamplesOut(c, k)
      BY <1>9, PublishSamplesIs
    <3>2. lst[c] \in StreamListener /\ Streams \subseteq Clients
      BY StreamIs DEF Streams
    <3>3. \A d \in Streams : lst'[d].expired <=> lst[d].expired
      BY <3>1, <3>2 DEF SamplesOut, StreamListener
    <3> QED
      BY <3>3 DEF Listed
  <2>3. sets[t] = <<>> /\ "serves" \in Serves /\ pc[t] \in Serves
    BY <1>3, <2>1 DEF Serves
  <2> QED
    BY <1>0, <2>1, <2>2, <2>3, ListedServes
<1>10. ASSUME NEW t \in Threads, SetStep(t) PROVE Listed'
  <2>1. UNCHANGED <<case, listeners, cpc, chunk>>
    BY <1>10 DEF SetStep, ServeWindows, ServeStop, PublishSet, SetsArePublished, Within, clientVars
  <2>2. \A d \in Streams : lst'[d].expired => Gone(d)
    BY <1>10, SetStepIs DEF Alike, Listed
  <2>3. \A o \in Threads : o # t => sets'[o] = sets[o]
    BY <1>10, SetStepIs
  <2>4. \/ /\ Serving(t) /\ UNCHANGED at /\ pc' = [pc EXCEPT ![t] = "publishes"]
           /\ InStop(t) \/ Served(t) \notin Streams
           /\ sets'[t] = sets[t] \/ (Served(t) \in Streams => sets'[t] = <<>>)
        \/ /\ pc[t] \in {"publishes", "waits"} /\ Served(t) \notin Streams /\ UNCHANGED at
           /\ pc' = pc \/ pc' = [pc EXCEPT ![t] = "publishes"] \/ pc' = [pc EXCEPT ![t] = "waits"]
        \/ /\ pc[t] = "publishes" /\ sets[t] = <<>> /\ UNCHANGED sets
           /\ at' = [at EXCEPT ![t] = @ + 1] /\ pc' = [pc EXCEPT ![t] = "serves"]
    BY <1>10, SetStepIs
  <2>5. {"publishes", "waits", "serves"} \subseteq Serves
    BY DEF Serves
  <2>6. CASE Serving(t) /\ UNCHANGED at /\ pc' = [pc EXCEPT ![t] = "publishes"] /\ (InStop(t) \/ Served(t) \notin Streams)
             /\ (sets'[t] = sets[t] \/ (Served(t) \in Streams => sets'[t] = <<>>))
    <3>1. at[t] \in DOMAIN listeners /\ sets[t] = <<>> /\ pc[t] \in Serves
      BY <1>3, <2>6, ServedIs DEF Serving, Serves
    <3>2. sets'[t] # <<>> => Served(t) \notin Streams
      BY <2>6, <3>1
    <3> QED
      BY <1>0, <2>1, <2>2, <2>3, <2>5, <2>6, <3>1, <3>2, ListedServes
  <2>7. CASE /\ pc[t] \in {"publishes", "waits"} /\ Served(t) \notin Streams /\ UNCHANGED at
             /\ pc' = pc \/ pc' = [pc EXCEPT ![t] = "publishes"] \/ pc' = [pc EXCEPT ![t] = "waits"]
    <3>1. PICK x \in {"publishes", "waits"} : pc' = [pc EXCEPT ![t] = x]
      BY <2>7 DEF Typed
    <3>2. at[t] \in DOMAIN listeners /\ pc[t] \in Serves
      BY <2>7 DEF Listed, Serves
    <3> QED
      BY <1>0, <2>1, <2>2, <2>3, <2>5, <2>7, <3>1, <3>2, ListedServes
  <2>8. CASE /\ pc[t] = "publishes" /\ sets[t] = <<>> /\ UNCHANGED sets
             /\ at' = [at EXCEPT ![t] = @ + 1] /\ pc' = [pc EXCEPT ![t] = "serves"]
    <3>1. pc[t] \in Serves /\ sets'[t] = <<>>
      BY <2>8 DEF Serves
    <3> QED
      BY <1>0, <2>1, <2>2, <2>3, <2>5, <2>8, <3>1, ListedServes
  <2> QED
    BY <2>4, <2>6, <2>7, <2>8
<1> QED
  BY <1>0, <1>1, <1>2, <1>4, <1>5, <1>6, <1>7, <1>8, <1>9, <1>10 DEF SinkNext, SinkStep, ClientStep, SetStep

LEMMA StepPlanned ==
    ASSUME IInv, SinkNext
    PROVE  Planned'
<1> USE DEF IInv
<1>0. Typed /\ Turns /\ Listed /\ Planned /\ (\A t \in Threads : t = "worker" \/ t = "other") /\ "worker" \in Threads
  BY DEF Threads
<1>1. ASSUME pc'["worker"] \notin {"tags", "samples"} PROVE Planned'
  BY <1>1 DEF Planned
<1>2. ASSUME UNCHANGED <<case, n, chunk, lst, at, listeners>>, pc'["worker"] = pc["worker"] PROVE Planned'
  BY <1>0, <1>2 DEF Planned, Served, NewTags, sub
<1>3. ASSUME NEW c \in Clients, AskRegistry(c) \/ CountAvailable(c) \/ LookFinished(c) \/ Release(c) \/ Take(c) PROVE Planned'
  <2>1. UNCHANGED <<case, n, chunk, lst, at, listeners, pc>>
    BY <1>3 DEF AskRegistry, CountAvailable, LookFinished, Release, Take, clientVars, listenerVars, localVars
  <2> QED
    BY <1>2, <2>1
<1>4. ASSUME NEW c \in Clients, GetPoller(c) PROVE Planned'
  <2>1. pc' = pc /\ lock = Nobody
    BY <1>4 DEF GetPoller, localVars
  <2>2. pc["worker"] \notin Serves
    BY <1>0, <2>1 DEF Turns, Nobody
  <2> QED
    BY <1>1, <2>1, <2>2 DEF Serves
<1>5. ASSUME ChangeSettings PROVE Planned'
  BY <1>1, <1>5 DEF ChangeSettings, localVars
<1>6. ASSUME NEW size \in 1..MaxChunk, NEW mark \in {None} \cup case.tags, ProcessBulk(size, mark) PROVE Planned'
  <2>1. pc'["worker"] = "atLock"
    BY <1>0, <1>6 DEF ProcessBulk, Typed
  <2> QED
    BY <1>1, <2>1
<1>7. ASSUME LockForChunk PROVE Planned'
  <2>1. pc'["worker"] = "serves"
    BY <1>0, <1>7 DEF LockForChunk, Typed
  <2> QED
    BY <1>1, <2>1
<1>8. ASSUME NEW t \in Threads, CallStop(t) \/ Unregister(t) PROVE Planned'
  <2>1. /\ UNCHANGED <<case, n, chunk, lst, at, listeners>>
        /\ pc' = [pc EXCEPT ![t] = "unregister"] \/ pc' = [pc EXCEPT ![t] = "stopLock"]
    BY <1>8 DEF CallStop, Unregister, clientVars, listenerVars
  <2>2. pc'["worker"] \in {"unregister", "stopLock", pc["worker"]}
    BY <1>0, <2>1 DEF Typed
  <2> QED
    BY <1>1, <1>2, <2>1, <2>2
<1>9. ASSUME NEW t \in Threads, LockForStop(t) PROVE Planned'
  <2>1. lock = Nobody /\ pc' = [pc EXCEPT ![t] = "serves"]
    BY <1>9 DEF LockForStop
  <2>2. pc["worker"] \notin Serves
    BY <1>0, <2>1 DEF Turns, Nobody
  <2>3. pc'["worker"] \notin {"tags", "samples"}
    BY <1>0, <2>1, <2>2 DEF Typed, Serves
  <2> QED
    BY <1>1, <2>3
<1>10. ASSUME NEW t \in Threads, Leave(t) PROVE Planned'
  <2>1. pc' = [pc EXCEPT ![t] = "stopped"] \/ pc' = [pc EXCEPT ![t] = "idle"]
    BY <1>10 DEF Leave, Goes
  <2>2. pc[t] = "serves"
    BY <1>10 DEF Leave
  <2>3. t # "worker" => pc["worker"] \notin Serves
    BY <1>0, <2>2 DEF Turns, Serves
  <2>4. pc'["worker"] \notin {"tags", "samples"}
    BY <1>0, <2>1, <2>3 DEF Typed, Serves
  <2> QED
    BY <1>1, <2>4
<1>11. ASSUME NEW t \in Threads, ServeStream(t) PROVE Planned'
  <2>1. PICK c \in Streams : c = Served("worker") /\ StreamServed(c)
    BY <1>11, ServeStreamIs
  <2>2. UNCHANGED <<case, listeners, chunk>>
    BY <1>11 DEF ServeStream, Within, clientVars
  <2>3. CASE pc' = [pc EXCEPT !["worker"] = "serves"]
    <3>1. pc'["worker"] = "serves"
      BY <1>0, <2>3 DEF Typed
    <3> QED
      BY <1>1, <3>1
  <2>4. CASE /\ UNCHANGED <<poller, lst, at>> /\ n'["worker"].samples \in 1..chunk.size
             /\ sub[c].block => n'["worker"].samples = chunk.size /\ n'["worker"].tags = NewTags(c)
    BY <2>1, <2>2, <2>4 DEF Planned, Served, NewTags, sub
  <2> QED
    BY <2>1, <2>3, <2>4 DEF StreamServed
<1>12. ASSUME NEW t \in Threads, PublishTags(t) PROVE Planned'
  <2>1. UNCHANGED <<case, listeners, chunk, n, at>> /\ pc' = [pc EXCEPT !["worker"] = "samples"] /\ pc["worker"] = "tags"
    BY <1>12, PublishTagsIs DEF PublishTags, Within, clientVars, Goes
  <2>2. pc'["worker"] = "samples"
    BY <1>0, <2>1 DEF Typed
  <2> QED
    BY <1>0, <2>1, <2>2 DEF Planned, Served, sub
<1>13. ASSUME NEW t \in Threads, PublishSamples(t) PROVE Planned'
  <2>1. pc' = [pc EXCEPT !["worker"] = "serves"]
    BY <1>0, <1>13, PublishSamplesIs DEF SamplesOut
  <2>2. pc'["worker"] = "serves"
    BY <1>0, <2>1 DEF Typed
  <2> QED
    BY <1>1, <2>2
<1>14. ASSUME NEW t \in Threads, SetStep(t) PROVE Planned'
  <2>1. pc[t] \in Serves \ {"tags", "samples"}
    BY <1>14 DEF SetStep, ServeWindows, ServeStop, PublishSet, SetsArePublished, Serving, Serves
  <2>2. \/ pc' = pc \/ pc' = [pc EXCEPT ![t] = "publishes"] \/ pc' = [pc EXCEPT ![t] = "waits"]
        \/ pc' = [pc EXCEPT ![t] = "serves"]
    BY <1>14, SetStepIs, Zenon
  <2>3. t # "worker" => pc["worker"] \notin Serves
    BY <1>0, <2>1 DEF Turns
  <2>4. pc'["worker"] \notin {"tags", "samples"}
    BY <1>0, <2>1, <2>2, <2>3 DEF Typed, Serves
  <2> QED
    BY <1>1, <2>4
<1> QED
  BY <1>3, <1>4, <1>5, <1>6, <1>7, <1>8, <1>9, <1>10, <1>11, <1>12, <1>13, <1>14
     DEF SinkNext, SinkStep, ClientStep, SetStep

-----------------------------------------------------------------------------
(* The end *)

(* A step of others, which may add samples and tell the end                *)
LEMMA EndsStay ==
    ASSUME Typed, Turns, NEW d \in Streams, Ends(d),
           UNCHANGED <<cpc[d], seen[d], count[d], got[d]>>, registered' => registered,
           Len(poller'[d].samples) >= Len(poller[d].samples), poller'[d] \in StreamPoller,
           poller[d].finished => poller'[d].finished,
           poller'[d].finished => poller[d].finished \/ ~registered,
           registered \/ (strayStop' = strayStop /\ (strayStop \/ poller'[d].samples = poller[d].samples))
    PROVE  Ends(d)'
<1>1. poller[d] \in StreamPoller /\ d \in Clients
  BY StreamIs
<1>2. Len(poller[d].samples) \in Nat /\ Len(poller'[d].samples) \in Nat
  BY <1>1, LenProperties DEF StreamPoller
<1>3. cpc[d] = "takes" => count[d] \in 1..Len(poller'[d].samples)
  BY <1>2 DEF Ends
<1>4. cpc[d] = "done" => ~registered
  BY DEF Ends, In
<1>5. cpc[d] = "done" => seen[d] /\ (~strayStop' => poller'[d].samples = <<>>)
  BY <1>4 DEF Ends
<1>6. seen[d] => poller'[d].finished
  BY DEF Ends
<1>7. cpc[d] \in In /\ poller'[d].finished => ~registered'
  BY DEF Ends
<1>8. cpc[d] \in Out => ~seen[d] /\ got[d] = NothingGot
  BY DEF Ends
<1>9. cpc'[d] = cpc[d] /\ seen'[d] = seen[d] /\ count'[d] = count[d] /\ got'[d] = got[d]
  OBVIOUS
<1> QED
  BY <1>3, <1>5, <1>6, <1>7, <1>8, <1>9 DEF Ends

LEMMA CaseStays ==
    ASSUME SinkNext
    PROVE  UNCHANGED case
<1>1. ASSUME NEW c \in Clients, AskRegistry(c) \/ GetPoller(c) \/ ClientStep(c) \/ Release(c) PROVE UNCHANGED case
  BY <1>1 DEF ClientStep, clientVars, AskRegistry, GetPoller, LookFinished, CountAvailable, Take, Release
<1>2. ASSUME NEW t \in Threads, CallStop(t) \/ Unregister(t) \/ LockForStop(t) \/ Leave(t) PROVE UNCHANGED case
  BY <1>2 DEF clientVars, CallStop, Unregister, LockForStop, Leave
<1>3. ASSUME NEW t \in Threads, ServeStream(t) \/ PublishTags(t) \/ PublishSamples(t) \/ SetStep(t) PROVE UNCHANGED case
  <2>1. Within
    BY <1>3 DEF SetStep, ServeStream, PublishTags, PublishSamples, ServeWindows, ServeStop, PublishSet, SetsArePublished
  <2> QED
    BY <2>1 DEF Within, clientVars
<1>4. ASSUME NEW size, NEW mark, ProcessBulk(size, mark) PROVE UNCHANGED case
  BY <1>4 DEF ProcessBulk, clientVars
<1>5. LockForChunk \/ ChangeSettings => UNCHANGED case
  BY DEF LockForChunk, ChangeSettings, clientVars
<1> QED
  BY <1>1, <1>2, <1>3, <1>4, <1>5 DEF SinkNext, SinkStep, SetStep

LEMMA StepEnds ==
    ASSUME IInv, SinkNext
    PROVE  \A d \in Streams' : Ends(d)'
<1> USE DEF IInv
<1>0. /\ Typed /\ Turns /\ Listed /\ Planned /\ (\A t \in Threads : t = "worker" \/ t = "other") /\ "worker" \in Threads
      /\ UNCHANGED case
  <2>1. UNCHANGED case
    BY CaseStays
  <2> QED
    BY <2>1 DEF Threads
<1> SUFFICES ASSUME NEW d \in Streams PROVE Ends(d)'
  BY <1>0 DEF Streams, sub
<1>1. /\ d \in Clients /\ sub[d].kind = "stream" /\ poller[d] \in StreamPoller /\ lst[d] \in StreamListener
      /\ got[d] \in Received /\ Ends(d)
      /\ poller[d].samples \in Seq(Nat) /\ Len(poller[d].samples) \in Nat
  BY StreamIs, LenProperties DEF StreamPoller
<1>2. ASSUME UNCHANGED <<cpc[d], seen[d], count[d], got[d], poller[d], strayStop>>, registered' => registered PROVE Ends(d)'
  BY <1>0, <1>1, <1>2, EndsStay
<1>3. ASSUME NEW c \in Clients, c # d, AskRegistry(c) \/ GetPoller(c) \/ CountAvailable(c) \/ LookFinished(c) \/ Release(c) \/ Take(c)
      PROVE  Ends(d)'
  <2>1. UNCHANGED <<registered, strayStop>>
    BY <1>3 DEF AskRegistry, GetPoller, CountAvailable, LookFinished, Release, Take, ghosts
  <2>2. \E x : cpc' = [cpc EXCEPT ![c] = x]
    BY <1>3 DEF AskRegistry, GetPoller, CountAvailable, LookFinished, Release, Take
  <2>3. seen' = seen \/ \E x : seen' = [seen EXCEPT ![c] = x]
    BY <1>3 DEF AskRegistry, GetPoller, CountAvailable, LookFinished, Release, Take
  <2>4. count' = count \/ \E x : count' = [count EXCEPT ![c] = x]
    BY <1>3 DEF AskRegistry, GetPoller, CountAvailable, LookFinished, Release, Take
  <2>5. poller'[d] = poller[d] /\ got'[d] = got[d]
    BY <1>0, <1>1, <1>3 DEF AskRegistry, GetPoller, CountAvailable, LookFinished, Release, Take, ghosts, Typed
  <2>6. cpc'[d] = cpc[d] /\ seen'[d] = seen[d] /\ count'[d] = count[d]
    BY <1>0, <1>1, <1>3, <2>2, <2>3, <2>4 DEF Typed
  <2> QED
    BY <1>2, <2>1, <2>5, <2>6
<1>4. CASE AskRegistry(d)
  <2>1. UNCHANGED <<registered, strayStop, poller, got, seen, count>> /\ cpc[d] = "out" /\ cpc'[d] \in {"atSink", "refused"}
    BY <1>0, <1>1, <1>4 DEF AskRegistry, ghosts, Typed
  <2> QED
    BY <1>1, <2>1 DEF Ends, Out, In
<1>5. CASE GetPoller(d)
  <2>1. PICK first \in BOOLEAN : first = FinishedAtFirst(sub[d]) /\ (first => ended)
    BY <1>0 DEF FinishedAtFirst, Typed
  <2>2. /\ UNCHANGED <<registered, strayStop, got, seen, count>> /\ cpc[d] \in Out /\ cpc' = [cpc EXCEPT ![d] = "has"]
        /\ poller' = [poller EXCEPT ![d] = [NoPoller EXCEPT !.finished = first]]
    BY <1>5, <2>1 DEF GetPoller, Out
  <2>3. cpc'[d] = "has"
    BY <1>0, <1>1, <2>2 DEF Typed
  <2>4. poller'[d].finished = first
    <3>1. poller'[d] = [NoPoller EXCEPT !.finished = first]
      BY <1>0, <1>1, <2>2 DEF Typed
    <3> QED
      BY <3>1 DEF NoPoller
  <2>5. first => ~registered
    BY <1>0, <2>1 DEF Turns
  <2> QED
    BY <1>1, <2>2, <2>3, <2>4, <2>5 DEF Ends, Out, In
<1>6. CASE LookFinished(d)
  <2>1. /\ UNCHANGED <<registered, strayStop, poller, got, count>> /\ cpc[d] = "has" /\ cpc' = [cpc EXCEPT ![d] = "polls"]
        /\ seen' = [seen EXCEPT ![d] = poller[d].finished]
    BY <1>6 DEF LookFinished, ghosts
  <2>2. cpc'[d] = "polls"
    BY <1>0, <1>1, <2>1 DEF Typed
  <2>3. seen'[d] = poller[d].finished
    BY <1>0, <1>1, <2>1 DEF Typed
  <2>4. cpc'[d] \notin Out /\ cpc[d] \in In /\ cpc'[d] # "takes" /\ cpc'[d] # "done"
    BY <2>1, <2>2 DEF Out, In
  <2> QED
    BY <1>1, <2>1, <2>3, <2>4, Zenon DEF Ends
<1>7. CASE CountAvailable(d)
  <2>1. /\ UNCHANGED <<registered, strayStop, poller, got, seen>> /\ cpc[d] = "polls"
        /\ \/ /\ Len(poller[d].samples) = 0 /\ cpc' = [cpc EXCEPT ![d] = IF seen[d] THEN "done" ELSE "has"]
           \/ /\ \E k \in 1..Len(poller[d].samples) : count' = [count EXCEPT ![d] = k]
              /\ cpc' = [cpc EXCEPT ![d] = "takes"]
    BY <1>1, <1>7 DEF CountAvailable, ghosts, Available
  <2>2. cpc[d] \in In
    BY <2>1 DEF In
  <2>3. CASE Len(poller[d].samples) = 0 /\ cpc' = [cpc EXCEPT ![d] = IF seen[d] THEN "done" ELSE "has"]
    <3>1. poller[d].samples = <<>>
      BY <1>1, <2>3, EmptySeq
    <3>2. cpc'[d] = (IF seen[d] THEN "done" ELSE "has")
      BY <1>0, <1>1, <2>3 DEF Typed
    <3> QED
      BY <1>1, <2>1, <2>2, <3>1, <3>2 DEF Ends, Out, In
  <2>4. CASE /\ \E k \in 1..Len(poller[d].samples) : count' = [count EXCEPT ![d] = k]
             /\ cpc' = [cpc EXCEPT ![d] = "takes"]
    <3>1. cpc'[d] = "takes" /\ count'[d] \in 1..Len(poller[d].samples)
      BY <1>0, <1>1, <2>4 DEF Typed
    <3> QED
      BY <1>1, <2>1, <2>2, <3>1 DEF Ends, Out, In
  <2> QED
    BY <2>1, <2>3, <2>4
<1>8. CASE Take(d)
  <2>1. UNCHANGED <<registered, strayStop, seen>> /\ cpc[d] = "takes" /\ cpc' = [cpc EXCEPT ![d] = "polls"]
    BY <1>8 DEF Take
  <2>2. poller'[d].finished = poller[d].finished
    BY <1>0, <1>1, <1>8, TakeIs DEF TakenFrom
  <2>3. cpc'[d] = "polls" /\ cpc[d] \in In
    BY <1>0, <1>1, <2>1 DEF Typed, In
  <2> QED
    BY <1>1, <2>1, <2>2, <2>3 DEF Ends, Out
<1>9. CASE Release(d)
  <2>1. UNCHANGED <<registered, strayStop, poller, got, seen, count>> /\ cpc[d] = "has" /\ cpc'[d] = "gone"
    BY <1>0, <1>1, <1>9 DEF Release, ghosts, Typed
  <2> QED
    BY <1>1, <2>1 DEF Ends, Out, In
<1>10. ASSUME ChangeSettings \/ LockForChunk \/ \E size \in 1..MaxChunk, mark \in {None} \cup case.tags : ProcessBulk(size, mark)
       PROVE  Ends(d)'
  <2>1. UNCHANGED <<cpc, seen, count, got, poller, registered, strayStop>>
    BY <1>10 DEF ChangeSettings, LockForChunk, ProcessBulk, ghosts, clientVars
  <2> QED
    BY <1>2, <2>1
<1>11. ASSUME NEW t \in Threads, CallStop(t) PROVE Ends(d)'
  <2>1. UNCHANGED <<cpc, seen, count, got, poller, registered>> /\ registered
    BY <1>11 DEF CallStop, clientVars, Stopping
  <2> QED
    BY <1>0, <1>1, <2>1, EndsStay
<1>12. ASSUME NEW t \in Threads, Unregister(t) \/ LockForStop(t) \/ Leave(t) PROVE Ends(d)'
  <2>1. UNCHANGED <<cpc, seen, count, got, poller, strayStop>> /\ (registered' => registered)
    BY <1>12 DEF Unregister, LockForStop, Leave, clientVars, ghosts
  <2> QED
    BY <1>2, <2>1
<1>13. ASSUME NEW t \in Threads, ServeStream(t) \/ PublishTags(t) \/ PublishSamples(t) \/ SetStep(t) PROVE Ends(d)'
  <2>1. UNCHANGED <<cpc, seen, count, got, strayStop, registered>>
    BY <1>13 DEF ServeStream, PublishTags, PublishSamples, SetStep, ServeWindows, ServeStop, PublishSet,
                 SetsArePublished, Within, clientVars, ghosts
  <2>2. CASE SetStep(t)
    BY <1>0, <1>1, <2>1, <2>2, SetStepIs, EndsStay DEF Alike
  <2>3. CASE ServeStream(t)
    <3>1. PICK c \in Streams : StreamServed(c)
      BY <2>3, ServeStreamIs
    <3>2. /\ poller'[d] \in StreamPoller /\ poller'[d].samples = poller[d].samples
          /\ poller'[d].finished = poller[d].finished
      <4>1. poller'[d] \in StreamPoller /\ (poller'[d] = poller[d] \/ poller'[d] = [poller[d] EXCEPT !.dropped = @ + chunk.size])
        BY <1>1, <3>1, Zenon DEF StreamServed
      <4> QED
        BY <1>1, <4>1 DEF StreamPoller
    <3> QED
      BY <1>0, <1>1, <2>1, <3>2, EndsStay
  <2>4. CASE PublishTags(t)
    <3>1. PICK c \in Streams : \E out : TagsOut(c, out)
      BY <2>4, PublishTagsIs
    <3>2. PICK out : TagsOut(c, out)
      BY <3>1
    <3>3. /\ poller'[d] \in StreamPoller /\ poller'[d].samples = poller[d].samples
          /\ poller'[d].finished = poller[d].finished
      <4>1. CASE d # c
        BY <1>0, <1>1, <3>2, <4>1 DEF TagsOut, Typed
      <4>2. CASE d = c
        <5>1. poller'[d] = [poller[d] EXCEPT !.tags = @ \o out] /\ poller'[d] \in StreamPoller
          BY <3>2, <4>2 DEF TagsOut
        <5> QED
          BY <1>1, <5>1 DEF StreamPoller
      <4> QED
        BY <4>1, <4>2
    <3> QED
      BY <1>0, <1>1, <2>1, <3>3, EndsStay
  <2>5. CASE PublishSamples(t)
    <3>1. PICK c \in Streams, k \in Nat : SamplesOut(c, k) /\ chunk # NoInput
      BY <2>5, PublishSamplesIs
    <3>2. registered \/ strayStop
      BY <1>0, <3>1 DEF Turns, Stopping
    <3>3. /\ poller'[d] \in StreamPoller /\ poller'[d].finished = poller[d].finished
          /\ Len(poller'[d].samples) >= Len(poller[d].samples)
      <4>1. CASE d # c
        BY <1>1, <3>1, <4>1 DEF SamplesOut
      <4>2. CASE d = c
        <5>1. /\ poller'[d] = [poller[d] EXCEPT !.samples = @ \o Span(chunk.from, k), !.dropped = @ + chunk.size - k]
              /\ poller'[d] \in StreamPoller
          BY <3>1, <4>2 DEF SamplesOut
        <5>2. poller'[d].samples = poller[d].samples \o Span(chunk.from, k) /\ poller'[d].finished = poller[d].finished
          BY <1>1, <5>1 DEF StreamPoller
        <5>3. Span(chunk.from, k) \in Seq(Nat) /\ Len(Span(chunk.from, k)) = k
          BY <1>0, SpanIs DEF Typed
        <5>4. Len(poller[d].samples \o Span(chunk.from, k)) = Len(poller[d].samples) + Len(Span(chunk.from, k))
          BY <1>1, <5>3, ConcatProperties
        <5>5. Len(poller'[d].samples) >= Len(poller[d].samples)
          BY <1>1, <5>2, <5>3, <5>4
        <5> QED
          BY <5>1, <5>2, <5>5, Zenon
      <4> QED
        BY <4>1, <4>2
    <3> QED
      BY <1>0, <1>1, <2>1, <3>2, <3>3, EndsStay
  <2> QED
    BY <1>13, <2>2, <2>3, <2>4, <2>5
<1> QED
  BY <1>3, <1>4, <1>5, <1>6, <1>7, <1>8, <1>9, <1>10, <1>11, <1>12, <1>13 DEF SinkNext, SinkStep, ClientStep, SetStep

-----------------------------------------------------------------------------
(* What clients have received *)

LEMMA AllIs ==
    ASSUME Typed, NEW d \in Streams
    PROVE  /\ All(d) \in Seq(Nat) /\ Len(All(d)) = Len(got[d].samples) + Len(poller[d].samples)
           /\ Len(All(d)) \in Nat /\ Len(got[d].samples) \in Nat /\ DOMAIN All(d) = 1..Len(All(d))
           /\ \A i \in 1..Len(All(d)) : All(d)[i] \in Nat
<1>1. got[d].samples \in Seq(Nat) /\ poller[d].samples \in Seq(Nat)
  BY StreamIs DEF StreamPoller, Received
<1>2. All(d) \in Seq(Nat) /\ Len(All(d)) = Len(got[d].samples) + Len(poller[d].samples)
  BY <1>1, ConcatProperties DEF All
<1> QED
  BY <1>1, <1>2, LenProperties, ElementOfSeq

LEMMA TagsAre ==
    ASSUME Typed, NEW d \in Streams
    PROVE  /\ poller[d].tags \in Seq(Tag) /\ Len(poller[d].tags) \in Nat
           /\ DOMAIN poller[d].tags = 1..Len(poller[d].tags)
           /\ \A i \in 1..Len(poller[d].tags) : poller[d].tags[i] \in Tag
           /\ got[d].tags \subseteq Tag /\ AllTagsOf(d) \subseteq Tag
           /\ \A tag \in Tag : tag.at \in Nat /\ tag.of \in Nat
<1>1. poller[d].tags \in Seq(Tag) /\ got[d].tags \subseteq Tag
  BY StreamIs DEF StreamPoller, Received
<1>2. /\ Len(poller[d].tags) \in Nat /\ DOMAIN poller[d].tags = 1..Len(poller[d].tags)
      /\ \A i \in 1..Len(poller[d].tags) : poller[d].tags[i] \in Tag
  BY <1>1, LenProperties, ElementOfSeq
<1>3. AllTagsOf(d) \subseteq Tag
  BY <1>1, <1>2 DEF AllTagsOf, Range
<1> QED
  BY <1>1, <1>2, <1>3 DEF Tag

(* A step that a client of a stream does not notice                        *)
LEMMA FeedStays ==
    ASSUME Typed, NEW d \in Streams, Feed(d), UNCHANGED <<case, base[d], got[d], lst[d].published, Reached(d)>>,
           UNCHANGED <<poller[d].samples, poller[d].tags, poller[d].read, poller[d].dropped>>,
           lst[d].pending => lst'[d].pending,
           Between(d)' <=> Between(d), Between(d) => chunk' = chunk,
           Reached(d) <= Offered, \A k \in 1..Offered : marks'[k] = marks[k]
    PROVE  Feed(d)'
<1>1. sub' = sub /\ All(d)' = All(d) /\ AllTagsOf(d)' = AllTagsOf(d)
  BY DEF sub, All, AllTagsOf
<1>2. Whole(d)'
  BY <1>1 DEF Feed, Whole
<1>3. Tagged(d)'
  <2>1. CASE Between(d)
    BY <1>1, <2>1 DEF Feed, Tagged
  <2>2. CASE ~Between(d)
    <3>1. \A i \in DOMAIN poller[d].tags : poller[d].tags[i].at < Len(All(d))
      <4> SUFFICES ASSUME NEW i \in DOMAIN poller[d].tags PROVE poller[d].tags[i].at < Len(All(d))
        OBVIOUS
      <4>1. poller[d].tags[i].at <= Len(All(d)) /\ poller[d].tags[i].at # Len(All(d))
        BY <2>2 DEF Feed, Tagged
      <4>2. poller[d].tags[i].at \in Nat
        BY TagsAre
      <4> QED
        BY <4>1, <4>2, AllIs
    <3>2. \A tag \in AllTagsOf(d) : tag.at < Len(All(d))
      <4>1. \A tag \in got[d].tags : tag.at < Len(All(d))
        <5> SUFFICES ASSUME NEW tag \in got[d].tags PROVE tag.at < Len(All(d))
          OBVIOUS
        <5>1. tag.at < Len(got[d].samples) /\ tag.at \in Nat
          BY TagsAre DEF Feed, Tagged
        <5>2. PICK a \in Nat, b \in Nat : a = Len(got[d].samples) /\ b = Len(poller[d].samples)
          BY StreamIs, LenProperties DEF StreamPoller, Received
        <5>3. Len(All(d)) = a + b
          BY <5>2, AllIs
        <5>4. PICK x \in Nat : x = tag.at /\ x < a
          BY <5>1, <5>2, Zenon
        <5>5. x < a + b
          BY <5>4
        <5> QED
          BY <5>3, <5>4, <5>5, Zenon
      <4> QED
        BY <3>1, <4>1 DEF AllTagsOf, Range
    <3>3. \A tag \in AllTagsOf(d) : tag.of # Meta => tag.of = All(d)[tag.at + 1]
      BY <3>2 DEF Feed, Tagged
    <3>4. \A tag \in AllTagsOf(d)' :
            tag.of # Meta => tag.of = IF tag.at < Len(All(d)') THEN All(d)'[tag.at + 1] ELSE chunk'.from + 1
      BY <1>1, <3>2, <3>3
    <3> QED
      BY <1>1, <2>2, <3>1, <3>4 DEF Feed, Tagged
  <2> QED
    BY <2>1, <2>2
<1>4. ASSUME sub[d].block PROVE TagsKept(d)'
  <2>1. TagsKept(d)
    BY <1>4 DEF Feed
  <2>2. ASSUME NEW i \in DOMAIN All(d) PROVE marks'[All(d)[i]] = marks[All(d)[i]]
    <3>1. All(d)[i] \in base[d] + 1 .. Reached(d)
      BY DEF Feed, Whole
    <3>2. base[d] \in Nat /\ Offered \in Nat
      BY StreamIs, LenProperties DEF Typed, Offered
    <3>3. Reached(d) \in Nat
      BY <3>2 DEF Reached, Typed
    <3>4. All(d)[i] \in 1..Offered
      BY <3>1, <3>2, <3>3
    <3> QED
      BY <3>4
  <2>3. \A i \in DOMAIN All(d)' :
        /\ marks'[All(d)'[i]] # None => [at |-> i - 1, of |-> All(d)'[i]] \in AllTagsOf(d)'
        /\ i = 1 => MetaTag \in AllTagsOf(d)'
    BY <1>1, <2>1, <2>2 DEF TagsKept
  <2>4. Between(d)' =>
        /\ chunk'.mark # None => [at |-> Len(All(d)'), of |-> chunk'.from + 1] \in Range(poller'[d].tags)
        /\ Len(All(d)') = 0 => MetaTag \in Range(poller'[d].tags)
    BY <1>1, <2>1 DEF TagsKept
  <2>5. Len(All(d)') = 0 /\ ~Between(d)' => lst'[d].pending
    BY <1>1, <2>1 DEF TagsKept
  <2> QED
    BY <2>3, <2>4, <2>5 DEF TagsKept, MetaTag
<1> QED
  BY <1>1, <1>2, <1>3, <1>4 DEF Feed

LEMMA ReachedIs ==
    ASSUME Typed, Turns, NEW d
    PROVE  Offered \in Nat /\ Reached(d) \in Nat /\ Reached(d) <= Offered
<1>1. Offered \in Nat /\ chunk.from \in Nat /\ chunk.size \in Nat
  BY LenProperties DEF Typed, Offered
<1>2. chunk # NoInput => chunk.from <= Offered
  BY <1>1 DEF Turns
<1> QED
  BY <1>1, <1>2 DEF Reached

(* The listener in turn is done when the next one is served, and no other. *)
LEMMA NextReached ==
    ASSUME Typed, Listed, at["worker"] \in DOMAIN listeners, lock = "worker", NEW d,
           UNCHANGED <<lock, listeners, chunk, marks>>, at'["worker"] = at["worker"] + 1
    PROVE  /\ d # Served("worker") => Reached(d)' = Reached(d)
           /\ d = Served("worker") => Done(d)' /\ ~Done(d)
<1>1. PICK k \in Nat : k = at["worker"] /\ at'["worker"] = k + 1
  BY DEF Typed, Threads
<1>2. \A i \in DOMAIN listeners : i \in Nat /\ (i < k + 1 <=> i < k \/ i = k)
  <2>1. PICK len \in Nat : DOMAIN listeners = 1..len
    BY LenProperties DEF Typed
  <2>2. \A i \in 1..len : i \in Nat /\ (i < k + 1 <=> i < k \/ i = k)
    OBVIOUS
  <2> QED
    BY <2>1, <2>2
<1>3. ASSUME d # Served("worker") PROVE Reached(d)' = Reached(d)
  <2>1. Done(d)' <=> Done(d)
    BY <1>1, <1>2, <1>3 DEF Done, Served
  <2> QED
    BY <2>1 DEF Reached, Offered
<1>4. ASSUME d = Served("worker") PROVE Done(d)' /\ ~Done(d)
  <2>1. Done(d)'
    BY <1>1, <1>2, <1>4 DEF Done, Served
  <2>2. ~Done(d)
    <3> SUFFICES ASSUME NEW i \in DOMAIN listeners, i < k, listeners[i] = d PROVE FALSE
      BY <1>1 DEF Done
    <3>1. i = k
      BY <1>1, <1>4 DEF Listed, Served
    <3> QED
      BY <1>2, <3>1
  <2> QED
    BY <2>1, <2>2
<1> QED
  BY <1>3, <1>4

LEMMA SameReached ==
    ASSUME NEW d, UNCHANGED <<chunk, marks>>,
           \/ UNCHANGED <<lock, listeners>> /\ at'["worker"] = at["worker"]
           \/ lock # "worker" /\ lock' # "worker"
    PROVE  Reached(d)' = Reached(d)
  BY DEF Reached, Done, Offered

(* The steps of clients                                                    *)
LEMMA ClientFeed ==
    ASSUME IInv, NEW c \in Clients, NEW d \in Streams, Polls(d)',
           \/ AskRegistry(c) \/ GetPoller(c) \/ CountAvailable(c) \/ LookFinished(c) \/ Release(c) \/ Take(c),
           ~ (c = d /\ (GetPoller(c) \/ Take(c)))
    PROVE  Feed(d)'
<1> USE DEF IInv
<1>1. Typed /\ Turns /\ Listed /\ d \in Clients
  BY DEF Streams
<1>2. UNCHANGED <<case, pc, at, chunk, marks, lock>>
  BY DEF AskRegistry, GetPoller, CountAvailable, LookFinished, Release, Take, localVars, clientVars, ghosts
<1>3. UNCHANGED <<lst, listeners, base>> \/ (lock = Nobody /\ lst'[d] = lst[d] /\ base'[d] = base[d])
  <2>1. CASE GetPoller(c)
    BY <1>1, <2>1 DEF GetPoller, Typed
  <2>2. CASE ~GetPoller(c)
    BY <2>2 DEF AskRegistry, CountAvailable, LookFinished, Release, Take, listenerVars, ghosts
  <2> QED
    BY <2>1, <2>2
<1>4. lst'[d] = lst[d] /\ base'[d] = base[d]
  BY <1>3
<1>5. poller'[d] = poller[d] /\ got'[d] = got[d]
  BY <1>1 DEF AskRegistry, GetPoller, CountAvailable, LookFinished, Release, Take, ghosts, Typed
<1>6. Polls(d)
  <2>1. CASE c = d
    BY <1>1, <2>1 DEF AskRegistry, CountAvailable, LookFinished, Release, Polls, Typed
  <2>2. CASE c # d
    <3>1. \E x : cpc' = [cpc EXCEPT ![c] = x]
      BY DEF AskRegistry, GetPoller, CountAvailable, LookFinished, Release, Take
    <3>2. cpc'[d] = cpc[d]
      BY <1>1, <2>2, <3>1 DEF Typed
    <3> QED
      BY <3>2 DEF Polls
  <2> QED
    BY <2>1, <2>2
<1>7. Feed(d)
  BY <1>6
<1>8. Reached(d)' = Reached(d)
  BY <1>2, <1>3, SameReached DEF Nobody
<1>9. Between(d)' <=> Between(d)
  <2>1. lock = Nobody => pc["worker"] \notin Serves
    BY <1>1 DEF Turns, Threads, Nobody
  <2> QED
    BY <1>2, <1>3, <2>1 DEF Between, Served, Serves
<1> QED
  BY <1>1, <1>2, <1>4, <1>5, <1>7, <1>8, <1>9, FeedStays, ReachedIs

(* A poller that is made has nothing yet.                                  *)
LEMMA NewFeed ==
    ASSUME IInv, NEW d \in Streams, GetPoller(d)
    PROVE  Feed(d)'
<1> USE DEF IInv
<1>1. Typed /\ Turns /\ Listed /\ d \in Clients /\ DOMAIN poller = Clients /\ DOMAIN lst = Clients /\ base \in [Clients -> Nat]
  BY DEF Streams, Typed
<1>2. PICK first : first = FinishedAtFirst(sub[d])
  OBVIOUS
<1>3. /\ UNCHANGED <<case, pc, at, chunk, marks, lock, got>> /\ lock = Nobody /\ cpc[d] \in Out
      /\ lst' = [lst EXCEPT ![d] = NoListener]
      /\ poller' = [poller EXCEPT ![d] = [NoPoller EXCEPT !.finished = first]]
      /\ base' = [base EXCEPT ![d] = IF pc["worker"] = "atLock" THEN chunk.from ELSE Offered]
  BY <1>2 DEF GetPoller, localVars, Out
<1>4. got[d].samples = <<>> /\ got[d].tags = {}
  BY <1>3 DEF Ends, NothingGot
<1>5. /\ poller'[d].samples = <<>> /\ poller'[d].tags = <<>> /\ poller'[d].read = 0 /\ poller'[d].dropped = 0
      /\ lst'[d].published = 0 /\ lst'[d].pending
  <2>1. poller'[d] = [NoPoller EXCEPT !.finished = first] /\ lst'[d] = NoListener
    BY <1>1, <1>3
  <2> QED
    BY <2>1 DEF NoPoller, NoListener
<1>6. All(d)' = <<>> /\ Len(<<>>) = 0 /\ DOMAIN (<<>>) = {} /\ Range(<<>>) = {}
  BY <1>3, <1>4, <1>5 DEF All, Range
<1>7. Reached(d)' = base'[d] /\ base'[d] \in Nat
  <2>1. base'[d] = IF pc["worker"] = "atLock" THEN chunk.from ELSE Offered
    BY <1>1, <1>3
  <2>2. pc["worker"] \notin Serves
    BY <1>1, <1>3 DEF Turns, Threads, Nobody
  <2>3. chunk # NoInput <=> pc["worker"] = "atLock"
    BY <1>1, <2>2 DEF Turns
  <2>4. Reached(d)' = IF chunk = NoInput THEN Offered ELSE chunk.from
    BY <1>3 DEF Reached, Done, Nobody, Offered
  <2>5. Offered \in Nat /\ chunk.from \in Nat
    BY <1>1, LenProperties DEF Typed, Offered
  <2> QED
    BY <2>1, <2>3, <2>4, <2>5
<1>8. ~Between(d)'
  <2>1. pc["worker"] \notin Serves
    BY <1>1, <1>3 DEF Turns, Threads, Nobody
  <2> QED
    BY <1>3, <2>1 DEF Between, Serves
<1>9. Whole(d)'
  <2>1. Span(base'[d], 0) = <<>>
    BY DEF Span
  <2> QED
    BY <1>3, <1>4, <1>5, <1>6, <1>7, <2>1 DEF Whole
<1>10. Tagged(d)'
  BY <1>3, <1>4, <1>5, <1>6 DEF Tagged, AllTagsOf
<1>11. TagsKept(d)'
  BY <1>3, <1>4, <1>5, <1>6, <1>8 DEF TagsKept, AllTagsOf
<1> QED
  BY <1>9, <1>10, <1>11 DEF Feed

(* What is taken is what was there, and its tags with it.                  *)
LEMMA TakeFeed ==
    ASSUME IInv, NEW d \in Streams, Take(d)
    PROVE  Feed(d)'
<1> USE DEF IInv
<1>1. Typed /\ Turns /\ Listed /\ d \in Clients /\ Ends(d) /\ Feed(d)
  BY DEF Streams, Polls, Take
<1>2. /\ UNCHANGED <<case, pc, at, chunk, marks, lock, listeners, lst, base>>
  BY DEF Take, listenerVars, localVars
<1>3. PICK k \in Nat, r \in Nat : TakenFrom(d, k, r) /\ r = Relevant(poller[d], k)
  BY <1>1, TakeIs
<1>4. PICK samples, tags, read : samples = poller[d].samples /\ tags = poller[d].tags /\ read = poller[d].read
  OBVIOUS
<1>5. /\ samples \in Seq(Nat) /\ tags \in Seq(Tag) /\ read \in Nat
      /\ Len(samples) \in Nat /\ Len(tags) \in Nat /\ got[d].samples \in Seq(Nat) /\ got[d].tags \subseteq Tag
  BY <1>1, <1>4, StreamIs, LenProperties DEF StreamPoller, Received
<1>6. /\ k \in 1..Len(samples) /\ r \in 0..Len(tags)
      /\ poller'[d].samples = SubSeq(samples, k + 1, Len(samples)) /\ poller'[d].read = read + k
      /\ poller'[d].tags = SubSeq(tags, r + 1, Len(tags)) /\ poller'[d].dropped = poller[d].dropped
      /\ got'[d].samples = got[d].samples \o FirstOf(samples, k)
      /\ got'[d].tags = got[d].tags \cup Range(FirstOf(tags, r))
  BY <1>3, <1>4 DEF TakenFrom
<1>7. PICK first, rest : first = FirstOf(samples, k) /\ rest = SubSeq(samples, k + 1, Len(samples))
  OBVIOUS
<1>8. first \in Seq(Nat) /\ Len(first) = k /\ rest \in Seq(Nat) /\ first \o rest = samples
  <2>1. k <= Len(samples) /\ k \in Int /\ k \in 0..Len(samples)
    BY <1>5, <1>6
  <2>2. first \in Seq(Nat) /\ Len(first) = k
    <3>1. FirstOf(samples, k) \in Seq(Nat) /\ Len(FirstOf(samples, k)) = k
      BY <1>5, <2>1, FirstOfSome
    <3> QED
      BY <1>7, <3>1
  <2>3. rest \in Seq(Nat)
    BY <1>5, <1>7, <2>1, RestIs
  <2>4. first = SubSeq(samples, 1, k)
    <3>1. Min({k, Len(samples)}) = k
      BY <1>5, <2>1, MinOfTwo
    <3> QED
      BY <1>7, <3>1, Zenon DEF FirstOf
  <2>5. SubSeq(samples, 1, k) \o SubSeq(samples, k + 1, Len(samples)) = SubSeq(samples, 1, Len(samples))
    <3>1. 1 \in 1..Len(samples) + 1 /\ k \in 1 - 1..Len(samples) /\ Len(samples) \in k..Len(samples)
      BY <1>5, <2>1
    <3> QED
      BY <1>5, <3>1, ConcatAdjacentSubSeq
  <2>6. SubSeq(samples, 1, Len(samples)) = samples
    BY <1>5, SubSeqFull
  <2> QED
    BY <1>7, <2>2, <2>3, <2>4, <2>5, <2>6
<1>9. All(d)' = All(d) /\ Len(got'[d].samples) = read + k
  <2>1. (got[d].samples \o first) \o rest = got[d].samples \o (first \o rest)
    <3>1. PICK old \in Seq(Nat) : old = got[d].samples
      BY <1>5
    <3>2. first \in Seq(Nat) /\ rest \in Seq(Nat) /\ old \in Seq(Nat)
      BY <1>8, <3>1
    <3> QED
      BY <3>1, <3>2, Joined, Zenon
  <2>2. Len(got[d].samples \o first) = Len(got[d].samples) + Len(first)
    BY <1>5, <1>8, ConcatProperties
  <2>3. read = Len(got[d].samples)
    BY <1>1, <1>4 DEF Feed, Whole
  <2> QED
    BY <1>4, <1>6, <1>7, <1>8, <2>1, <2>2, <2>3 DEF All
<1>10. PICK some, later : some = FirstOf(tags, r) /\ later = SubSeq(tags, r + 1, Len(tags))
  OBVIOUS
<1>11. /\ some \in Seq(Tag) /\ Len(some) = r /\ \A i \in 1..r : some[i] = tags[i]
       /\ later \in Seq(Tag) /\ Len(later) = Len(tags) - r /\ \A i \in 1..Len(tags) - r : later[i] = tags[r + i]
  <2>1. r <= Len(tags) /\ r \in Int
    BY <1>5, <1>6
  <2>2. some \in Seq(Tag) /\ Len(some) = r /\ \A i \in 1..r : some[i] = tags[i]
    <3>1. /\ FirstOf(tags, r) \in Seq(Tag) /\ Len(FirstOf(tags, r)) = r
          /\ \A i \in 1..r : FirstOf(tags, r)[i] = tags[i]
      BY <1>5, <1>6, FirstOfSome, Zenon
    <3> QED
      BY <1>10, <3>1
  <2>3. later \in Seq(Tag) /\ Len(later) = Len(tags) - r /\ \A i \in 1..Len(tags) - r : later[i] = tags[r + i]
    BY <1>5, <1>6, <1>10, RestIs
  <2> QED
    BY <2>2, <2>3
<1>12. DOMAIN tags = 1..Len(tags) /\ DOMAIN some = 1..r /\ DOMAIN later = 1..Len(tags) - r
  BY <1>5, <1>11, LenProperties
<1>13. /\ \A i \in 1..r : i \in 1..Len(tags) /\ tags[i].at < read + k
       /\ \A i \in 1..Len(tags) - r : r + i \in 1..Len(tags) /\ r + i \in r + 1..Len(tags) /\ tags[r + i].at >= read + k
  <2>1. \A i \in 1..r : tags[i].at < read + k
    BY <1>3, <1>4, <1>5, RelevantIs
  <2>2. \A i, j \in 1..Len(tags) : i < j => tags[i].at <= tags[j].at
    BY <1>1, <1>4, <1>12 DEF Feed, Tagged
  <2>3. \A i \in r + 1..Len(tags) : tags[i].at >= read + k
    BY <1>3, <1>4, <1>5, <2>2, RelevantIs
  <2>4. \A i \in 1..r : i \in 1..Len(tags)
    BY <1>5, <1>6
  <2>5. \A i \in 1..Len(tags) - r : r + i \in 1..Len(tags) /\ r + i \in r + 1..Len(tags)
    BY <1>5, <1>6
  <2> QED
    BY <2>1, <2>3, <2>4, <2>5
<1>14. Range(tags) = Range(some) \cup Range(later)
  <2>1. ASSUME NEW i \in 1..Len(tags) PROVE tags[i] \in Range(some) \cup Range(later)
    <3>1. CASE i <= r
      <4>1. i \in 1..r
        BY <1>6, <3>1
      <4> QED
        BY <1>11, <1>12, <4>1 DEF Range
    <3>2. CASE ~ (i <= r)
      <4>1. i - r \in 1..Len(tags) - r /\ r + (i - r) = i
        BY <1>5, <1>6, <3>2
      <4> QED
        BY <1>11, <1>12, <4>1 DEF Range
    <3> QED
      BY <3>1, <3>2
  <2>2. \A i \in 1..r : some[i] \in Range(tags)
    BY <1>11, <1>12, <1>13 DEF Range
  <2>3. \A i \in 1..Len(tags) - r : later[i] \in Range(tags)
    BY <1>11, <1>12, <1>13 DEF Range
  <2> QED
    BY <1>12, <2>1, <2>2, <2>3 DEF Range
<1>15. AllTagsOf(d)' = AllTagsOf(d)
  BY <1>4, <1>6, <1>10, <1>14 DEF AllTagsOf
<1>16. Reached(d)' = Reached(d) /\ (Between(d)' <=> Between(d)) /\ sub' = sub
  BY <1>2, SameReached DEF Between, Served, sub
<1>17. Whole(d)'
  <2>1. poller'[d].read = Len(got'[d].samples)
    BY <1>6, <1>9
  <2> QED
    BY <1>1, <1>2, <1>6, <1>9, <1>16, <2>1 DEF Feed, Whole
<1>18. Tagged(d)'
  <2>1. \A i, j \in DOMAIN later : i < j => later[i].at <= later[j].at
    <3> SUFFICES ASSUME NEW i \in 1..Len(tags) - r, NEW j \in 1..Len(tags) - r, i < j PROVE later[i].at <= later[j].at
      BY <1>12
    <3>1. r + i \in 1..Len(tags) /\ r + j \in 1..Len(tags) /\ r + i < r + j
      BY <1>13
    <3>2. tags[r + i].at <= tags[r + j].at
      BY <1>1, <1>4, <1>12, <3>1 DEF Feed, Tagged
    <3> QED
      BY <1>11, <3>2
  <2>2. ASSUME NEW i \in DOMAIN later
        PROVE  /\ read + k <= later[i].at /\ later[i].at <= Len(All(d))
               /\ later[i].at = Len(All(d)) => Between(d)
    <3>1. i \in 1..Len(tags) - r /\ r + i \in DOMAIN tags /\ later[i] = tags[r + i]
      BY <1>11, <1>12, <1>13
    <3>2. tags[r + i].at >= read + k
      BY <1>13, <3>1
    <3>3. tags[r + i].at <= Len(All(d)) /\ (tags[r + i].at = Len(All(d)) => Between(d))
      BY <1>1, <1>4, <3>1 DEF Feed, Tagged
    <3> QED
      BY <3>1, <3>2, <3>3
  <2>3. \A tag \in got'[d].tags : tag.at < read + k
    <3> SUFFICES ASSUME NEW tag \in got'[d].tags PROVE tag.at < read + k
      OBVIOUS
    <3>1. CASE tag \in got[d].tags
      <4>1. tag.at < Len(got[d].samples) /\ read = Len(got[d].samples) /\ tag.at \in Nat
        BY <1>1, <1>4, <1>5, <3>1 DEF Feed, Tagged, Whole, Tag
      <4>2. PICK x \in Nat : x = tag.at /\ x < read
        BY <4>1
      <4> QED
        BY <1>5, <1>6, <4>2
    <3>2. CASE tag \in Range(some)
      BY <1>11, <1>12, <1>13, <3>2 DEF Range
    <3> QED
      BY <1>6, <1>10, <3>1, <3>2
  <2>4. \A tag \in AllTagsOf(d)' :
          tag.of # Meta => tag.of = IF tag.at < Len(All(d)') THEN All(d)'[tag.at + 1] ELSE chunk'.from + 1
    BY <1>1, <1>2, <1>9, <1>15 DEF Feed, Tagged
  <2> QED
    BY <1>6, <1>9, <1>10, <1>16, <2>1, <2>2, <2>3, <2>4 DEF Tagged
<1>19. ASSUME sub[d].block PROVE TagsKept(d)'
  <2>1. TagsKept(d)
    BY <1>1, <1>19 DEF Feed
  <2>2. Between(d) =>
        /\ chunk.mark # None => [at |-> Len(All(d)), of |-> chunk.from + 1] \in Range(later)
        /\ Len(All(d)) = 0 => MetaTag \in Range(later)
    <3>1. ASSUME NEW tag \in Range(tags), tag.at >= Len(All(d)) PROVE tag \in Range(later)
      <4>1. ASSUME NEW i \in 1..r PROVE some[i].at < Len(All(d))
        <5>1. tags[i].at < read + k /\ some[i] = tags[i] /\ i \in 1..Len(tags)
          BY <1>11, <1>13
        <5>2. tags[i].at \in Nat
          <6>1. tags[i] \in Tag
            BY <1>5, <5>1, ElementOfSeq
          <6> QED
            BY <6>1 DEF Tag
        <5>3. read + k <= Len(All(d)) /\ Len(All(d)) \in Nat
          <6>1. Len(All(d)) = Len(got[d].samples) + Len(samples) /\ read = Len(got[d].samples) /\ Len(All(d)) \in Nat
            BY <1>1, <1>4, AllIs DEF Feed, Whole
          <6> QED
            BY <1>5, <1>6, <6>1
        <5>4. PICK x \in Nat : x = tags[i].at
          BY <5>2
        <5> QED
          BY <1>5, <5>1, <5>3, <5>4
      <4>2. tag \notin Range(some)
        <5> SUFFICES ASSUME NEW i \in 1..r, some[i] = tag PROVE FALSE
          BY <1>12 DEF Range
        <5>1. tag.at < Len(All(d)) /\ tag.at \in Nat /\ Len(All(d)) \in Nat
          <6>1. tag \in Tag
            BY <1>5, <1>12, ElementOfSeq DEF Range
          <6> QED
            BY <1>1, <4>1, <6>1, AllIs DEF Tag
        <5> QED
          BY <3>1, <5>1
      <4> QED
        BY <1>14, <4>2
    <3>2. PICK x \in Nat : x = Len(All(d))
      BY <1>1, AllIs
    <3>3. PICK mark : mark = [at |-> x, of |-> chunk.from + 1]
      OBVIOUS
    <3>4. MetaTag.at = 0 /\ mark.at = x
      BY <3>3 DEF MetaTag
    <3>5. Between(d) => (chunk.mark # None => mark \in Range(tags)) /\ (x = 0 => MetaTag \in Range(tags))
      BY <1>4, <2>1, <3>2, <3>3 DEF TagsKept
    <3> QED
      BY <3>1, <3>2, <3>3, <3>4, <3>5
  <2>3. \A i \in DOMAIN All(d)' :
        /\ marks'[All(d)'[i]] # None => [at |-> i - 1, of |-> All(d)'[i]] \in AllTagsOf(d)'
        /\ i = 1 => MetaTag \in AllTagsOf(d)'
    BY <1>2, <1>9, <1>15, <2>1 DEF TagsKept
  <2>4. poller'[d].tags = later
    BY <1>6, <1>10
  <2>5. Len(All(d)') = 0 /\ ~Between(d)' => lst'[d].pending
    BY <1>2, <1>9, <1>16, <2>1 DEF TagsKept
  <2> QED
    BY <1>2, <1>9, <1>16, <2>2, <2>3, <2>4, <2>5 DEF TagsKept, MetaTag
<1> QED
  BY <1>16, <1>17, <1>18, <1>19 DEF Feed

(* A chunk that finds no room is dropped as a whole, and counted.          *)
LEMMA ServeStreamFeed ==
    ASSUME IInv, NEW t \in Threads, ServeStream(t), NEW d \in Streams, Polls(d)'
    PROVE  Feed(d)'
<1> USE DEF IInv
<1>1. PICK c \in Streams : c = Served("worker") /\ t = "worker" /\ chunk # NoInput /\ Serving("worker") /\ StreamServed(c)
  BY ServeStreamIs
<1>2. /\ Typed /\ Turns /\ Listed /\ Polls(d) /\ Feed(d) /\ d \in Clients
      /\ UNCHANGED <<case, cpc, chunk, marks, lock, listeners, base, got>>
  BY DEF ServeStream, Within, clientVars, ghosts, Polls, Streams
<1>3. at["worker"] \in DOMAIN listeners /\ lock = "worker" /\ at \in [Threads -> Nat \ {0}] /\ pc["worker"] = "serves"
      /\ "worker" \in Threads
  BY <1>1, <1>2, ServedIs DEF Serving, Turns, Serves, Typed, Threads
<1>4. pc'["worker"] # "samples"
  BY <1>1, <1>2 DEF StreamServed, Typed, Threads
<1>5. ~Between(d) /\ ~Between(d)'
  BY <1>3, <1>4 DEF Between
<1>6. ASSUME Reached(d)' = Reached(d), poller'[d] = poller[d], lst'[d] = lst[d] PROVE Feed(d)'
  BY <1>2, <1>5, <1>6, FeedStays, ReachedIs
<1>7. CASE at' = at
  <2>1. Reached(d)' = Reached(d)
    BY <1>2, <1>7, SameReached
  <2>2. poller' = poller /\ lst' = lst
    BY <1>1, <1>3, <1>7 DEF StreamServed
  <2> QED
    BY <1>6, <2>1, <2>2
<1>8. CASE at' # at
  <2>1. at'["worker"] = at["worker"] + 1
    BY <1>1, <1>3, <1>8 DEF StreamServed
  <2>2. CASE d # c
    <3>1. Reached(d)' = Reached(d)
      BY <1>1, <1>2, <1>3, <2>1, <2>2, NextReached
    <3>2. poller'[d] = poller[d] /\ lst'[d] = lst[d]
      BY <1>1, <1>2, <2>2 DEF StreamServed
    <3> QED
      BY <1>6, <3>1, <3>2
  <2>3. CASE d = c
    <3>1. /\ ~sub[d].block /\ UNCHANGED lst
          /\ poller'[d] = [poller[d] EXCEPT !.dropped = @ + chunk.size]
      BY <1>1, <1>2, <1>8, <2>3 DEF StreamServed, Polls, Gone
    <3>2. Done(d)' /\ ~Done(d)
      BY <1>1, <1>2, <1>3, <2>1, <2>3, NextReached
    <3>3. Reached(d) = chunk.from /\ Reached(d)' = Offered
      BY <1>1, <1>2, <3>2 DEF Reached, Offered
    <3>4. chunk.from \in Nat /\ chunk.size \in Nat /\ Offered = chunk.from + chunk.size /\ base[d] \in Nat
      BY <1>1, <1>2 DEF Turns, Typed
    <3>5. /\ poller'[d].samples = poller[d].samples /\ poller'[d].tags = poller[d].tags
          /\ poller'[d].read = poller[d].read /\ poller'[d].dropped = poller[d].dropped + chunk.size
          /\ poller[d].dropped \in Nat
      BY <1>2, <3>1, StreamIs DEF StreamPoller
    <3>6. sub' = sub /\ All(d)' = All(d) /\ AllTagsOf(d)' = AllTagsOf(d)
      BY <1>2, <3>5 DEF sub, All, AllTagsOf
    <3>7. Whole(d)'
      <4>1. Len(All(d)) + poller[d].dropped = chunk.from - base[d] /\ Len(All(d)) \in Nat
        BY <1>2, <3>3, AllIs DEF Feed, Whole
      <4>2. Len(All(d)) + (poller[d].dropped + chunk.size) = Offered - base[d]
        <5>1. PICK len \in Nat, lost \in Nat : len = Len(All(d)) /\ lost = poller[d].dropped
          BY <3>5, <4>1
        <5>2. PICK from \in Nat, size \in Nat, first \in Nat : from = chunk.from /\ size = chunk.size /\ first = base[d]
          BY <3>4
        <5>3. len + lost = from - first => len + (lost + size) = (from + size) - first
          OBVIOUS
        <5>4. len + lost = from - first /\ Offered = from + size
          BY <3>4, <4>1, <5>1, <5>2, Zenon
        <5>5. len + (lost + size) = Offered - first
          BY <5>3, <5>4, Zenon
        <5> QED
          BY <5>1, <5>2, <5>5, Zenon
      <4>3. \A i \in DOMAIN All(d) : All(d)[i] \in base[d] + 1 .. Offered
        <5> SUFFICES ASSUME NEW i \in DOMAIN All(d) PROVE All(d)[i] \in base[d] + 1 .. Offered
          OBVIOUS
        <5>1. All(d)[i] \in base[d] + 1 .. chunk.from
          BY <1>2, <3>3 DEF Feed, Whole
        <5> QED
          BY <3>4, <5>1
      <4> QED
        BY <1>2, <3>1, <3>3, <3>5, <3>6, <4>2, <4>3 DEF Feed, Whole
    <3>8. Tagged(d)'
      BY <1>2, <1>5, <3>5, <3>6 DEF Feed, Tagged
    <3> QED
      BY <3>1, <3>6, <3>7, <3>8 DEF Feed
  <2> QED
    BY <2>2, <2>3
<1> QED
  BY <1>7, <1>8

(* The tags of a chunk, before its samples                                 *)
LEMMA PublishTagsFeed ==
    ASSUME IInv, NEW t \in Threads, PublishTags(t), NEW d \in Streams, Polls(d)'
    PROVE  Feed(d)'
<1> USE DEF IInv
<1>1. PICK c \in Streams : c = Served("worker") /\ t = "worker" /\ chunk # NoInput /\ pc["worker"] = "tags" /\ \E out : TagsOut(c, out)
  BY PublishTagsIs
<1>2. PICK out : TagsOut(c, out)
  BY <1>1
<1>3. /\ Typed /\ Turns /\ Listed /\ Planned /\ Polls(d) /\ Feed(d) /\ d \in Clients
      /\ UNCHANGED <<case, cpc, chunk, marks, lock, listeners, base, got>>
  BY DEF PublishTags, Within, clientVars, ghosts, Polls, Streams
<1>4. at' = at /\ pc'["worker"] = "samples" /\ out \in Seq(Tag) /\ out = FirstOf(TagsDue(c), n["worker"].tags)
  BY <1>2, <1>3 DEF TagsOut, Typed, Threads
<1>5. Reached(d)' = Reached(d) /\ ~Between(d) /\ (Between(d)' <=> d = c)
  BY <1>1, <1>3, <1>4, SameReached DEF Between, Served
<1>6. CASE d # c
  <2>1. poller'[d] = poller[d] /\ lst'[d] = lst[d]
    BY <1>2, <1>3, <1>6 DEF TagsOut, Typed
  <2> QED
    BY <1>3, <1>5, <1>6, <2>1, FeedStays, ReachedIs
<1>7. CASE d = c
  <2>1. /\ poller'[d] = [poller[d] EXCEPT !.tags = @ \o out]
        /\ lst'[d] = [lst[d] EXCEPT !.pending = @ /\ out = <<>>]
    BY <1>2, <1>7 DEF TagsOut
  <2>2. PICK tags, len : tags = poller[d].tags /\ len = Len(All(d))
    OBVIOUS
  <2>3. /\ poller'[d].samples = poller[d].samples /\ poller'[d].tags = tags \o out
        /\ poller'[d].read = poller[d].read /\ poller'[d].dropped = poller[d].dropped
        /\ lst'[d].published = lst[d].published
    BY <1>3, <2>1, <2>2, StreamIs DEF StreamPoller, StreamListener
  <2>4. sub' = sub /\ All(d)' = All(d)
    BY <1>3, <2>3 DEF sub, All
  <2>5. len \in Nat /\ lst[d].published = len /\ tags \in Seq(Tag) /\ Len(tags) \in Nat /\ poller[d].read \in Nat
        /\ poller[d].read <= len
    <3>1. len \in Nat /\ lst[d].published = len /\ tags \in Seq(Tag) /\ Len(tags) \in Nat /\ poller[d].read \in Nat
      BY <1>3, <2>2, AllIs, TagsAre, StreamIs DEF Feed, Whole, StreamPoller
    <3>2. len = Len(got[d].samples) + Len(poller[d].samples) /\ Len(poller[d].samples) \in Nat /\ poller[d].read = Len(got[d].samples)
      BY <1>3, <2>2, AllIs, StreamIs, LenProperties DEF Feed, Whole, StreamPoller
    <3>3. PICK x \in Nat, y \in Nat : x = Len(got[d].samples) /\ y = Len(poller[d].samples)
      BY <1>3, <3>2, AllIs
    <3>4. x <= x + y
      OBVIOUS
    <3> QED
      BY <3>1, <3>2, <3>3, <3>4
  <2>6. PICK due : /\ due = TagsDue(d) /\ due \in Seq(Tag) /\ Len(due) = NewTags(d) /\ Len(due) \in Nat
                   /\ \A i \in 1..Len(due) : /\ due[i].at = len
                                             /\ due[i].of = Meta \/ (chunk.mark # None /\ due[i].of = chunk.from + 1)
                   /\ lst[d].pending => \E i \in 1..Len(due) : due[i] = [at |-> len, of |-> Meta]
                   /\ chunk.mark # None => \E i \in 1..Len(due) : due[i] = [at |-> len, of |-> chunk.from + 1]
    BY <1>3, <2>5, TagsDueIs, LenProperties
  <2>7. PICK m \in Nat : m = Len(out) /\ m <= Len(due) /\ (\A i \in 1..m : out[i] = due[i])
                         /\ (n["worker"].tags = Len(due) => m = Len(due))
    <3>1. n["worker"].tags \in Int
      BY <1>3 DEF Typed, Threads
    <3>2. PICK k \in Int : k = n["worker"].tags
      BY <3>1
    <3>3. PICK m \in Nat : m = IF k < 0 THEN 0 ELSE IF k <= Len(due) THEN k ELSE Len(due)
      BY <2>6
    <3>4. Len(FirstOf(due, k)) = m /\ m <= Len(due) /\ \A i \in 1..m : FirstOf(due, k)[i] = due[i]
      <4>1. due \in Seq(Tag)
        BY <2>6
      <4> QED
        BY <3>3, <4>1, FirstOfIs
    <3>5. out = FirstOf(due, k)
      BY <1>4, <1>7, <2>6, <3>2
    <3>6. k = Len(due) => m = Len(due)
      BY <2>6, <3>3
    <3> QED
      BY <3>2, <3>4, <3>5, <3>6
  <2>8. PICK new : new = tags \o out
    OBVIOUS
  <2>9. /\ new \in Seq(Tag) /\ Len(new) = Len(tags) + m
        /\ \A i \in 1..Len(tags) + m : new[i] = IF i <= Len(tags) THEN tags[i] ELSE out[i - Len(tags)]
    BY <1>4, <2>5, <2>7, <2>8, ConcatProperties
  <2>10. ASSUME NEW i \in 1..Len(tags) + m
         PROVE  \/ i \in 1..Len(tags) /\ new[i] = tags[i]
                \/ i > Len(tags) /\ \E a \in 1..m : new[i] = due[a]
    <3>1. CASE i <= Len(tags)
      BY <2>5, <2>9, <3>1
    <3>2. CASE ~ (i <= Len(tags))
      <4>1. i - Len(tags) \in 1..m /\ i > Len(tags)
        BY <2>5, <3>2
      <4> QED
        BY <2>7, <2>9, <3>2, <4>1
    <3> QED
      BY <3>1, <3>2
  <2>11. /\ DOMAIN new = 1..Len(tags) + m /\ DOMAIN tags = 1..Len(tags) /\ DOMAIN out = 1..m
         /\ \A i \in 1..m : i \in 1..Len(due)
    BY <1>4, <2>5, <2>6, <2>7, <2>9, LenProperties
  <2>12. Range(new) = Range(tags) \cup Range(out)
    <3>1. \A i \in 1..Len(tags) : i \in 1..Len(tags) + m /\ new[i] = tags[i]
      BY <2>5, <2>9
    <3>2. \A i \in 1..m : Len(tags) + i \in 1..Len(tags) + m /\ new[Len(tags) + i] = out[i]
      <4> SUFFICES ASSUME NEW i \in 1..m PROVE Len(tags) + i \in 1..Len(tags) + m /\ new[Len(tags) + i] = out[i]
        OBVIOUS
      <4>1. Len(tags) + i \in 1..Len(tags) + m /\ ~ (Len(tags) + i <= Len(tags)) /\ Len(tags) + i - Len(tags) = i
        BY <2>5
      <4> QED
        BY <2>9, <4>1
    <3>3. \A i \in 1..Len(tags) + m : new[i] \in Range(tags) \cup Range(out)
      BY <2>7, <2>10, <2>11 DEF Range
    <3>4. Range(new) \subseteq Range(tags) \cup Range(out)
      BY <2>11, <3>3 DEF Range
    <3>5. Range(tags) \subseteq Range(new)
      BY <2>11, <3>1 DEF Range
    <3>6. Range(out) \subseteq Range(new)
      BY <2>11, <3>2 DEF Range
    <3> QED
      BY <3>4, <3>5, <3>6
  <2>13. AllTagsOf(d)' = AllTagsOf(d) \cup Range(out)
    BY <1>3, <2>2, <2>3, <2>8, <2>12 DEF AllTagsOf
  <2>14. \A tag \in Range(out) : tag.at = len /\ (tag.of = Meta \/ tag.of = chunk.from + 1)
    BY <2>6, <2>7, <2>11 DEF Range
  <2>15. \A i \in 1..Len(tags) : poller[d].read <= tags[i].at /\ tags[i].at <= len /\ tags[i].at \in Nat
    BY <1>3, <2>2, <2>11, TagsAre DEF Feed, Tagged
  <2>16. Whole(d)'
    BY <1>3, <1>5, <2>3, <2>4 DEF Feed, Whole
  <2>17. Tagged(d)'
    <3>0. \A i \in 1..Len(tags) + m : poller[d].read <= new[i].at /\ new[i].at <= len
      <4> SUFFICES ASSUME NEW i \in 1..Len(tags) + m PROVE poller[d].read <= new[i].at /\ new[i].at <= len
        OBVIOUS
      <4>1. CASE i \in 1..Len(tags) /\ new[i] = tags[i]
        BY <2>15, <4>1
      <4>2. CASE \E a \in 1..m : new[i] = due[a]
        BY <2>5, <2>6, <2>11, <4>2
      <4> QED
        BY <2>10, <4>1, <4>2
    <3>1. ASSUME NEW i \in 1..Len(tags) + m, NEW j \in 1..Len(tags) + m, i < j PROVE new[i].at <= new[j].at
      <4>1. CASE j \in 1..Len(tags) /\ new[j] = tags[j]
        <5>1. i \in 1..Len(tags) /\ new[i] = tags[i]
          BY <2>5, <2>10, <3>1, <4>1
        <5> QED
          BY <1>3, <2>2, <2>11, <3>1, <4>1, <5>1 DEF Feed, Tagged
      <4>2. CASE \E a \in 1..m : new[j] = due[a]
        <5>1. new[j].at = len
          BY <2>6, <2>11, <4>2
        <5> QED
          BY <3>0, <5>1
      <4> QED
        BY <2>10, <4>1, <4>2
    <3>3. ASSUME NEW tag \in AllTagsOf(d)', tag.of # Meta
          PROVE  tag.of = IF tag.at < Len(All(d)') THEN All(d)'[tag.at + 1] ELSE chunk'.from + 1
      <4>1. CASE tag \in AllTagsOf(d)
        BY <1>3, <2>4, <3>3, <4>1 DEF Feed, Tagged
      <4>2. CASE tag \in Range(out)
        BY <1>3, <2>2, <2>4, <2>5, <2>14, <3>3, <4>2
      <4> QED
        BY <2>13, <4>1, <4>2
    <3>4. Between(d)'
      BY <1>5, <1>7
    <3>5. \A tag \in got'[d].tags : tag.at < Len(got'[d].samples)
      BY <1>3 DEF Feed, Tagged
    <3> QED
      BY <2>2, <2>3, <2>4, <2>8, <2>11, <3>0, <3>1, <3>3, <3>4, <3>5 DEF Tagged
  <2>18. ASSUME sub[d].block PROVE TagsKept(d)'
    <3>1. TagsKept(d) /\ n["worker"].tags = Len(due)
      BY <1>1, <1>3, <1>7, <2>6, <2>18 DEF Feed, Planned
    <3>2. \A a \in 1..Len(due) : due[a] \in Range(new)
      BY <2>7, <2>11, <2>12, <3>1 DEF Range
    <3>3. chunk.mark # None => [at |-> len, of |-> chunk.from + 1] \in Range(new)
      BY <2>6, <3>2
    <3>4. len = 0 => MetaTag \in Range(new)
      BY <1>5, <2>2, <2>6, <3>1, <3>2 DEF TagsKept, MetaTag
    <3>5. \A i \in DOMAIN All(d)' :
          /\ marks'[All(d)'[i]] # None => [at |-> i - 1, of |-> All(d)'[i]] \in AllTagsOf(d)'
          /\ i = 1 => MetaTag \in AllTagsOf(d)'
      BY <1>3, <2>4, <2>13, <3>1 DEF TagsKept
    <3>6. Between(d)' /\ poller'[d].tags = new
      BY <1>5, <1>7, <2>3, <2>8
    <3> QED
      BY <1>3, <2>2, <2>4, <3>3, <3>4, <3>5, <3>6 DEF TagsKept, MetaTag
  <2> QED
    BY <2>4, <2>16, <2>17, <2>18 DEF Feed
<1> QED
  BY <1>6, <1>7

(* The samples of a chunk, after its tags                                  *)
LEMMA PublishSamplesFeed ==
    ASSUME IInv, NEW t \in Threads, PublishSamples(t), NEW d \in Streams, Polls(d)'
    PROVE  Feed(d)'
<1> USE DEF IInv
<1>1. PICK c \in Streams, k \in Nat : /\ c = Served("worker") /\ t = "worker" /\ chunk # NoInput /\ pc["worker"] = "samples"
                                      /\ SamplesOut(c, k)
  BY PublishSamplesIs
<1>2. /\ Typed /\ Turns /\ Listed /\ Planned /\ Polls(d) /\ Feed(d) /\ d \in Clients
      /\ UNCHANGED <<case, cpc, chunk, marks, lock, listeners, base, got>>
  BY DEF PublishSamples, Within, clientVars, ghosts, Polls, Streams
<1>3. at["worker"] \in DOMAIN listeners /\ lock = "worker" /\ "worker" \in Threads
  BY <1>1, <1>2 DEF Listed, Turns, Serves, Threads
<1>4. pc'["worker"] = "serves" /\ at'["worker"] = at["worker"] + 1
  BY <1>1, <1>2, <1>3 DEF SamplesOut, Typed
<1>5. ~Between(d)' /\ (Between(d) <=> d = c)
  BY <1>1, <1>4 DEF Between
<1>6. CASE d # c
  <2>1. Reached(d)' = Reached(d)
    BY <1>1, <1>2, <1>3, <1>4, <1>6, NextReached
  <2>2. poller'[d] = poller[d] /\ lst'[d] = lst[d]
    BY <1>1, <1>2, <1>6 DEF SamplesOut
  <2> QED
    BY <1>2, <1>5, <1>6, <2>1, <2>2, FeedStays, ReachedIs
<1>7. CASE d = c
  <2>1. PICK all, len, span, from, size, first : /\ all = All(d) /\ len = Len(all) /\ from = chunk.from /\ size = chunk.size
                                                 /\ span = Span(from, k) /\ first = base[d]
    OBVIOUS
  <2>2. /\ all \in Seq(Nat) /\ len \in Nat /\ from \in Nat /\ size \in Nat /\ first \in Nat
        /\ span \in Seq(Nat) /\ Len(span) = k /\ \A i \in 1..k : span[i] = from + i
    <3>1. all \in Seq(Nat) /\ len \in Nat /\ from \in Nat /\ size \in Nat /\ first \in Nat
      BY <1>2, <2>1, AllIs DEF Typed
    <3>2. /\ Span(from, k) \in Seq(Nat) /\ Len(Span(from, k)) = k
          /\ \A i \in 1..k : Span(from, k)[i] = from + i
      BY <3>1, SpanIs, Zenon
    <3> QED
      BY <2>1, <3>1, <3>2, Zenon
  <2>3. k \in 1..size /\ Offered = from + size /\ Offered' = from + size
    BY <1>1, <1>2, <2>1 DEF SamplesOut, Turns, Offered
  <2>4. /\ poller'[d] = [poller[d] EXCEPT !.samples = @ \o span, !.dropped = @ + size - k]
        /\ lst'[d] = [lst[d] EXCEPT !.published = @ + k]
    BY <1>1, <1>7, <2>1 DEF SamplesOut
  <2>5. /\ poller'[d].samples = poller[d].samples \o span /\ poller'[d].tags = poller[d].tags
        /\ poller'[d].read = poller[d].read /\ poller'[d].dropped = poller[d].dropped + size - k
        /\ poller[d].dropped \in Nat /\ lst'[d].published = lst[d].published + k
    BY <1>2, <2>4, StreamIs DEF StreamPoller, StreamListener
  <2>6. PICK new : new = all \o span
    OBVIOUS
  <2>7. All(d)' = new
    <3>1. got[d].samples \in Seq(Nat) /\ poller[d].samples \in Seq(Nat)
      BY <1>2, StreamIs DEF Received, StreamPoller
    <3>3. all = got[d].samples \o poller[d].samples /\ got'[d].samples = got[d].samples
      BY <1>2, <2>1 DEF All
    <3>4. (got[d].samples \o poller[d].samples) \o span = got[d].samples \o (poller[d].samples \o span)
      BY <2>2, <3>1, Joined, Zenon
    <3> QED
      BY <2>5, <2>6, <3>3, <3>4, Zenon DEF All
  <2>8. /\ new \in Seq(Nat) /\ Len(new) = len + k
        /\ \A i \in 1..len + k : new[i] = IF i <= len THEN all[i] ELSE span[i - len]
    BY <2>1, <2>2, <2>6, ConcatProperties
  <2>9. /\ DOMAIN new = 1..len + k /\ DOMAIN all = 1..len
        /\ \A i \in 1..len : all[i] \in Nat
    BY <2>1, <2>2, <2>8, LenProperties, ElementOfSeq
  <2>10. ASSUME NEW i \in 1..len + k
         PROVE  \/ i \in 1..len /\ new[i] = all[i]
                \/ i \in len + 1..len + k /\ new[i] = from + (i - len)
    <3>1. CASE i <= len
      BY <2>2, <2>8, <3>1
    <3>2. CASE ~ (i <= len)
      <4>1. i - len \in 1..k /\ i \in len + 1..len + k
        BY <2>2, <3>2
      <4> QED
        BY <2>2, <2>8, <3>2, <4>1
    <3> QED
      BY <3>1, <3>2
  <2>11. Reached(d) = from /\ Reached(d)' = from + size
    <3>1. Done(d)' /\ ~Done(d)
      BY <1>1, <1>2, <1>3, <1>4, <1>7, NextReached
    <3> QED
      BY <1>1, <1>2, <2>1, <2>3, <3>1 DEF Reached
  <2>12. /\ len + poller[d].dropped = from - first /\ lst[d].published = len
         /\ \A i \in 1..len : all[i] \in first + 1 .. from
         /\ \A i, j \in 1..len : i < j => all[i] < all[j]
         /\ sub[d].block => poller[d].dropped = 0 /\ all = Span(first, len)
         /\ poller[d].read = Len(got[d].samples)
    BY <1>2, <2>1, <2>9, <2>11 DEF Feed, Whole
  <2>13. sub' = sub /\ AllTagsOf(d)' = AllTagsOf(d) /\ base'[d] = first
    BY <1>2, <2>1, <2>5 DEF sub, AllTagsOf
  <2>14. first <= from
    BY <2>2, <2>5, <2>12
  <2>15. Whole(d)'
    <3>1. len + k + (poller[d].dropped + size - k) = from + size - first
      <4>1. PICK p \in Nat : p = poller[d].dropped /\ len + p = from - first
        BY <2>5, <2>12
      <4>2. len \in Nat /\ size \in Nat /\ from \in Nat /\ first \in Nat
        BY <2>2
      <4>3. len + k + (p + size - k) = from + size - first
        BY <4>1, <4>2
      <4> QED
        BY <4>1, <4>3
    <3>2. \A i \in 1..len + k : new[i] \in first + 1 .. from + size
      <4> SUFFICES ASSUME NEW i \in 1..len + k PROVE new[i] \in first + 1 .. from + size
        OBVIOUS
      <4>1. CASE i \in 1..len /\ new[i] = all[i]
        BY <2>2, <2>12, <4>1
      <4>2. CASE i \in len + 1..len + k /\ new[i] = from + (i - len)
        BY <2>2, <2>3, <2>14, <4>2
      <4> QED
        BY <2>10, <4>1, <4>2
    <3>3. ASSUME NEW i \in 1..len + k, NEW j \in 1..len + k, i < j PROVE new[i] < new[j]
      <4>1. CASE j \in 1..len /\ new[j] = all[j]
        <5>1. i \in 1..len /\ new[i] = all[i]
          BY <2>2, <2>10, <3>3, <4>1
        <5> QED
          BY <2>12, <3>3, <4>1, <5>1
      <4>2. CASE j \in len + 1..len + k /\ new[j] = from + (j - len)
        <5>1. CASE i \in 1..len /\ new[i] = all[i]
          BY <2>2, <2>9, <2>12, <4>2, <5>1
        <5>2. CASE i \in len + 1..len + k /\ new[i] = from + (i - len)
          BY <2>2, <3>3, <4>2, <5>2
        <5> QED
          BY <2>10, <5>1, <5>2
      <4> QED
        BY <2>10, <4>1, <4>2
    <3>4. ASSUME sub[d].block PROVE poller'[d].dropped = 0 /\ new = Span(first, len + k)
      <4>1. k = size
        BY <1>1, <1>2, <1>7, <2>1, <3>4 DEF Planned, SamplesOut
      <4>2. poller'[d].dropped = 0 /\ from = first + len
        BY <2>2, <2>5, <2>12, <3>4, <4>1
      <4>3. \A i \in 1..len : all[i] = first + i
        <5>1. \A i \in 1..len : Span(first, len)[i] = first + i
          BY <2>2, SpanIs
        <5>2. all = Span(first, len)
          BY <2>12, <3>4
        <5> QED
          BY <5>1, <5>2
      <4>4. /\ Span(first, len + k) \in Seq(Nat) /\ Len(Span(first, len + k)) = len + k
            /\ \A i \in 1..len + k : Span(first, len + k)[i] = first + i
        <5>1. len + k \in Nat
          BY <2>2
        <5> QED
          BY <2>2, <5>1, SpanIs
      <4>5. \A i \in 1..len + k : new[i] = first + i
        <5> SUFFICES ASSUME NEW i \in 1..len + k PROVE new[i] = first + i
          OBVIOUS
        <5>1. CASE i \in 1..len /\ new[i] = all[i]
          BY <4>3, <5>1
        <5>2. CASE i \in len + 1..len + k /\ new[i] = from + (i - len)
          BY <2>2, <4>2, <5>2
        <5> QED
          BY <2>10, <5>1, <5>2
      <4>6. new = Span(first, len + k)
        BY <2>8, <4>4, <4>5, SeqEqual
      <4> QED
        BY <4>2, <4>6
    <3> QED
      <4>1. poller'[d].read = Len(got'[d].samples) /\ lst'[d].published = len + k
        BY <1>2, <2>5, <2>12
      <4>2. Len(new) + poller'[d].dropped = Reached(d)' - base'[d]
        BY <2>2, <2>5, <2>8, <2>11, <2>13, <3>1
      <4>3. \A i \in DOMAIN new : new[i] \in base'[d] + 1 .. Reached(d)'
        BY <2>9, <2>11, <2>13, <3>2
      <4>4. \A i, j \in DOMAIN new : i < j => new[i] < new[j]
        BY <2>9, <3>3
      <4>5. sub'[d].block => poller'[d].dropped = 0 /\ new = Span(base'[d], Len(new))
        BY <2>8, <2>13, <3>4
      <4> QED
        BY <2>7, <2>8, <4>1, <4>2, <4>3, <4>4, <4>5 DEF Whole
  <2>16. /\ 1 \in 1..k /\ len + 1 \in 1..len + k /\ new[len + 1] = from + 1
         /\ \A i \in 1..len : i \in 1..len + k /\ new[i] = all[i]
    <3>1. 1 \in 1..k /\ len + 1 \in 1..len + k /\ ~ (len + 1 <= len) /\ len + 1 - len = 1
      BY <2>2, <2>3
    <3>2. new[len + 1] = span[1]
      BY <2>2, <2>8, <3>1
    <3>3. \A i \in 1..len : i \in 1..len + k /\ i <= len
      BY <2>2
    <3> QED
      BY <2>2, <2>8, <3>1, <3>2, <3>3
  <2>17. Tagged(d)'
    <3>1. \A i \in DOMAIN poller[d].tags : /\ poller[d].read <= poller[d].tags[i].at
                                           /\ poller[d].tags[i].at <= len /\ poller[d].tags[i].at \in Nat
      BY <1>2, <2>1, TagsAre DEF Feed, Tagged
    <3>2. \A i \in DOMAIN poller[d].tags : poller[d].tags[i].at < len + k
      <4> SUFFICES ASSUME NEW i \in DOMAIN poller[d].tags PROVE poller[d].tags[i].at < len + k
        OBVIOUS
      <4>1. PICK x \in Nat : x = poller[d].tags[i].at /\ x <= len
        BY <3>1
      <4> QED
        BY <2>2, <2>3, <4>1
    <3>3. ASSUME NEW tag \in AllTagsOf(d) PROVE tag.at \in Nat /\ tag.at <= len
      <4>1. tag \in Tag /\ tag.at \in Nat
        BY <1>2, TagsAre
      <4>2. CASE tag \in got[d].tags
        <5>1. tag.at < Len(got[d].samples)
          BY <1>2, <4>2 DEF Feed, Tagged
        <5>2. PICK x \in Nat, y \in Nat, z \in Nat : x = tag.at /\ y = Len(got[d].samples) /\ z = Len(poller[d].samples)
          BY <1>2, <4>1, StreamIs, LenProperties DEF StreamPoller, Received
        <5>3. len = y + z
          BY <1>2, <2>1, <5>2, AllIs
        <5>4. x < y
          BY <5>1, <5>2
        <5>5. x <= len
          BY <5>3, <5>4
        <5> QED
          BY <5>2, <5>5
      <4>3. CASE tag \in Range(poller[d].tags)
        BY <3>1, <4>3 DEF Range
      <4> QED
        BY <4>2, <4>3 DEF AllTagsOf
    <3>4. ASSUME NEW tag \in AllTagsOf(d), tag.of # Meta PROVE tag.at < len + k /\ tag.of = new[tag.at + 1]
      <4>1. PICK x \in Nat : x = tag.at /\ x <= len
        BY <3>3
      <4>2. x < len + k
        BY <2>2, <2>3, <4>1
      <4>3. tag.of = IF x < len THEN all[x + 1] ELSE from + 1
        BY <1>2, <2>1, <3>4, <4>1 DEF Feed, Tagged
      <4>4. CASE x < len
        <5>1. x + 1 \in 1..len
          BY <2>2, <4>4
        <5> QED
          BY <2>16, <4>1, <4>2, <4>3, <4>4, <5>1
      <4>5. CASE ~ (x < len)
        <5>1. x + 1 = len + 1
          BY <2>2, <4>1, <4>5
        <5> QED
          BY <2>16, <4>1, <4>2, <4>3, <4>5, <5>1
      <4> QED
        BY <4>4, <4>5
    <3>5. \A i, j \in DOMAIN poller[d].tags : i < j => poller[d].tags[i].at <= poller[d].tags[j].at
      BY <1>2 DEF Feed, Tagged
    <3>6. \A tag \in got'[d].tags : tag.at < Len(got'[d].samples)
      BY <1>2 DEF Feed, Tagged
    <3>7. \A i \in DOMAIN poller[d].tags : poller[d].tags[i].at <= len + k /\ poller[d].tags[i].at # len + k
      <4> SUFFICES ASSUME NEW i \in DOMAIN poller[d].tags
                   PROVE  poller[d].tags[i].at <= len + k /\ poller[d].tags[i].at # len + k
        OBVIOUS
      <4>1. PICK x \in Nat : x = poller[d].tags[i].at /\ x < len + k
        BY <3>1, <3>2
      <4> QED
        BY <2>2, <4>1
    <3> QED
      BY <2>5, <2>7, <2>8, <2>13, <3>1, <3>4, <3>5, <3>6, <3>7 DEF Tagged
  <2>18. ASSUME sub[d].block PROVE TagsKept(d)'
    <3>1. TagsKept(d) /\ Between(d)
      BY <1>2, <1>5, <1>7, <2>18 DEF Feed
    <3>2. /\ chunk.mark # None => [at |-> len, of |-> from + 1] \in AllTagsOf(d)
          /\ len = 0 => MetaTag \in AllTagsOf(d)
      BY <2>1, <3>1 DEF TagsKept, AllTagsOf
    <3>3. ASSUME NEW i \in 1..len + k
          PROVE  /\ marks[new[i]] # None => [at |-> i - 1, of |-> new[i]] \in AllTagsOf(d)
                 /\ i = 1 => MetaTag \in AllTagsOf(d)
      <4>1. CASE i \in 1..len /\ new[i] = all[i]
        BY <2>1, <2>9, <3>1, <4>1 DEF TagsKept
      <4>2. CASE i \in len + 1..len + k /\ new[i] = from + (i - len)
        <5>1. CASE i = len + 1
          <6>1. new[i] = from + 1 /\ i - 1 = len /\ (i = 1 => len = 0)
            BY <2>2, <4>2, <5>1
          <6>2. marks[from + 1] = chunk.mark
            BY <1>1, <1>2, <2>1 DEF Turns
          <6> QED
            BY <3>2, <6>1, <6>2
        <5>2. CASE i # len + 1
          <6>1. new[i] \in from + 2 .. Offered /\ i # 1
            BY <2>2, <2>3, <4>2, <5>2
          <6>2. marks[new[i]] = None
            BY <1>1, <1>2, <2>1, <6>1 DEF Turns
          <6> QED
            BY <6>1, <6>2
        <5> QED
          BY <5>1, <5>2
      <4> QED
        BY <2>10, <4>1, <4>2
    <3>4. len + k # 0
      BY <2>2, <2>3
    <3> QED
      BY <1>2, <1>5, <2>7, <2>8, <2>9, <2>13, <3>3, <3>4 DEF TagsKept, MetaTag
  <2> QED
    BY <2>13, <2>15, <2>17, <2>18 DEF Feed
<1> QED
  BY <1>6, <1>7

(* The other steps of the sink give a client of a stream nothing.          *)
LEMMA SinkFeed ==
    ASSUME IInv, NEW d \in Streams, Polls(d)',
           \/ \E size \in 1..MaxChunk, mark \in {None} \cup case.tags : ProcessBulk(size, mark)
           \/ LockForChunk \/ ChangeSettings
           \/ \E t \in Threads : CallStop(t) \/ Unregister(t) \/ LockForStop(t) \/ SetStep(t) \/ Leave(t)
    PROVE  Feed(d)'
<1> USE DEF IInv
<1>1. UNCHANGED <<case, cpc, base, got>>
  BY DEF ProcessBulk, LockForChunk, ChangeSettings, CallStop, Unregister, LockForStop, SetStep, ServeWindows, ServeStop,
         PublishSet, SetsArePublished, Within, Leave, clientVars, ghosts
<1>2. /\ Typed /\ Turns /\ Listed /\ Polls(d) /\ Feed(d) /\ d \in Clients /\ "worker" \in Threads
      /\ Reached(d) <= Offered /\ Offered \in Nat /\ base'[d] = base[d] /\ got'[d] = got[d]
      /\ \A t \in Threads : t = "worker" \/ t = "other"
  BY <1>1, ReachedIs DEF Polls, Streams, Threads
<1>3. ASSUME poller'[d] = poller[d], lst'[d].published = lst[d].published, lst[d].pending => lst'[d].pending,
             Reached(d)' = Reached(d), Between(d)' <=> Between(d), Between(d) => chunk' = chunk,
             \A k \in 1..Offered : marks'[k] = marks[k]
      PROVE  Feed(d)'
  BY <1>1, <1>2, <1>3, FeedStays
<1>4. lock # "worker" => ~Done(d) /\ ~Between(d) /\ pc["worker"] \notin Serves
  BY <1>2 DEF Done, Between, Turns, Serves
<1>5. ASSUME NEW size \in 1..MaxChunk, NEW mark \in {None} \cup case.tags, ProcessBulk(size, mark) PROVE Feed(d)'
  <2>1. /\ UNCHANGED <<poller, lst, lock, listeners, at>> /\ pc["worker"] = "idle" /\ pc'["worker"] = "atLock"
        /\ chunk' = [from |-> Offered, size |-> size, mark |-> mark]
        /\ marks' = marks \o [i \in 1..size |-> IF i = 1 THEN mark ELSE None]
    BY <1>2, <1>5 DEF ProcessBulk, listenerVars, Typed
  <2>2. lock # "worker" /\ chunk = NoInput
    BY <1>2, <2>1 DEF Turns, Serves
  <2>3. Reached(d) = Offered /\ Reached(d)' = Offered
    <3>1. ~Done(d)'
      BY <2>1, <2>2 DEF Done
    <3>2. chunk'.from = Offered /\ chunk' # NoInput
      <4>1. chunk'.size = size /\ chunk'.from = Offered /\ size # 0
        BY <2>1
      <4> QED
        BY <4>1 DEF NoInput
    <3> QED
      BY <2>2, <3>1, <3>2 DEF Reached
  <2>4. ~Between(d) /\ ~Between(d)'
    BY <2>1 DEF Between
  <2>5. \A k \in 1..Offered : marks'[k] = marks[k]
    <3>1. PICK new : new = [i \in 1..size |-> IF i = 1 THEN mark ELSE None]
      OBVIOUS
    <3>2. new \in Seq(Tags) /\ Len(new) = size /\ size \in Nat /\ marks \in Seq(Tags) /\ Offered = Len(marks)
      BY <1>2, <3>1, CaseIs DEF Typed, Tags, Offered
    <3>3. \A k \in 1..Len(marks) + Len(new) : (marks \o new)[k] = IF k <= Len(marks) THEN marks[k] ELSE new[k - Len(marks)]
      BY <3>2, ConcatProperties
    <3>4. \A k \in 1..Offered : k \in 1..Len(marks) + Len(new) /\ k <= Len(marks)
      BY <1>2, <3>2
    <3> QED
      BY <2>1, <3>1, <3>3, <3>4
  <2> QED
    BY <1>3, <2>1, <2>3, <2>4, <2>5
<1>6. CASE LockForChunk
  <2>1. /\ UNCHANGED <<poller, lst, chunk, marks>> /\ lock = Nobody /\ at'["worker"] = 1
        /\ pc'["worker"] = "serves" /\ listeners' = Live[Len(listeners)]
    BY <1>2, <1>6 DEF LockForChunk, ghosts, Typed
  <2>2. ~Done(d)'
    <3>1. listeners' \in Seq(Clients)
      <4>1. PICK len \in Nat : len = Len(listeners) /\ DOMAIN listeners = 1..len
        BY <1>2, LenProperties DEF Typed
      <4> QED
        BY <1>2, <2>1, <4>1, LiveIs DEF LiveAt, Typed, Listed
    <3>2. \A i \in DOMAIN listeners' : ~ (i < 1)
      BY <3>1, LenProperties
    <3> QED
      BY <2>1, <3>2 DEF Done
  <2>3. Reached(d)' = Reached(d)
    BY <1>4, <2>1, <2>2 DEF Reached, Offered, Nobody
  <2>4. ~Between(d) /\ ~Between(d)'
    BY <1>4, <2>1 DEF Between, Nobody
  <2> QED
    BY <1>3, <2>1, <2>3, <2>4
<1>7. CASE ChangeSettings
  <2>1. /\ UNCHANGED <<poller, chunk, marks, lock, listeners, at, pc>>
        /\ lst' = [c \in Clients |-> IF c \in Range(listeners) THEN [lst[c] EXCEPT !.pending = TRUE] ELSE lst[c]]
    BY <1>7 DEF ChangeSettings, localVars, ghosts
  <2>2. lst'[d].published = lst[d].published /\ (lst[d].pending => lst'[d].pending)
    <3>1. lst'[d] = lst[d] \/ lst'[d] = [lst[d] EXCEPT !.pending = TRUE]
      BY <1>2, <2>1
    <3>2. lst[d] \in StreamListener
      BY <1>2, StreamIs
    <3> QED
      BY <3>1, <3>2 DEF StreamListener
  <2>3. Reached(d)' = Reached(d) /\ (Between(d)' <=> Between(d))
    BY <2>1, SameReached DEF Between, Served
  <2> QED
    BY <1>3, <2>1, <2>2, <2>3
<1>8. ASSUME NEW t \in Threads, CallStop(t) \/ Unregister(t) PROVE Feed(d)'
  <2>1. /\ UNCHANGED <<poller, lst, chunk, marks, lock, listeners, at>> /\ pc[t] \in {"idle", "unregister"}
        /\ pc' = [pc EXCEPT ![t] = "unregister"] \/ pc' = [pc EXCEPT ![t] = "stopLock"]
    BY <1>8 DEF CallStop, Unregister, listenerVars, ghosts
  <2>2. Reached(d)' = Reached(d)
    BY <2>1, SameReached
  <2>3. Between(d)' <=> Between(d)
    BY <1>2, <2>1 DEF Between, Served, Typed
  <2> QED
    BY <1>3, <2>1, <2>2, <2>3
<1>9. ASSUME NEW t \in Threads, LockForStop(t) PROVE Feed(d)'
  <2>1. /\ UNCHANGED <<poller, lst, chunk, marks, listeners>> /\ lock = Nobody /\ lock' = t
        /\ pc' = [pc EXCEPT ![t] = "serves"] /\ at' = [at EXCEPT ![t] = 1]
    BY <1>9 DEF LockForStop, listenerVars, ghosts
  <2>2. ~Done(d)'
    <3>1. lock' = "worker" => at'["worker"] = 1
      BY <1>2, <2>1 DEF Typed
    <3>2. \A i \in DOMAIN listeners : ~ (i < 1)
      BY <1>2, LenProperties DEF Typed
    <3> QED
      BY <2>1, <3>1, <3>2 DEF Done
  <2>3. Reached(d)' = Reached(d)
    BY <1>4, <2>1, <2>2 DEF Reached, Offered, Nobody
  <2>4. ~Between(d) /\ ~Between(d)'
    BY <1>2, <1>4, <2>1 DEF Between, Nobody, Typed, Serves
  <2> QED
    BY <1>3, <2>1, <2>3, <2>4
<1>10. ASSUME NEW t \in Threads, SetStep(t) PROVE Feed(d)'
  <2>1. UNCHANGED <<chunk, marks, lock, listeners>>
    BY <1>10 DEF SetStep, ServeWindows, ServeStop, PublishSet, SetsArePublished, Within, ghosts
  <2>2. Alike(d)
    BY <1>2, <1>10, SetStepIs
  <2>3. pc[t] \in Serves \ {"tags", "samples"} /\ lock = t
    <3>1. pc[t] \in Serves \ {"tags", "samples"}
      BY <1>10 DEF SetStep, ServeWindows, ServeStop, PublishSet, SetsArePublished, Serving, Serves
    <3> QED
      BY <1>2, <3>1 DEF Turns
  <2>4. /\ at' = at \/ (at' = [at EXCEPT ![t] = @ + 1] /\ pc[t] = "publishes")
        /\ \/ pc' = pc \/ pc' = [pc EXCEPT ![t] = "publishes"] \/ pc' = [pc EXCEPT ![t] = "waits"]
           \/ pc' = [pc EXCEPT ![t] = "serves"]
    BY <1>2, <1>10, SetStepIs
  <2>5. ~Between(d) /\ ~Between(d)'
    <3>1. pc["worker"] # "samples" /\ pc'["worker"] # "samples"
      <4>1. CASE t = "worker"
        BY <1>2, <2>3, <2>4, <4>1 DEF Typed
      <4>2. CASE t # "worker"
        BY <1>2, <1>4, <2>3, <2>4, <4>2 DEF Typed, Serves
      <4> QED
        BY <4>1, <4>2
    <3> QED
      BY <3>1 DEF Between
  <2>6. Reached(d)' = Reached(d)
    <3>1. CASE t # "worker" \/ at' = at
      BY <2>1, <2>3, <3>1, SameReached
    <3>2. CASE t = "worker" /\ at' = [at EXCEPT ![t] = @ + 1] /\ pc[t] = "publishes"
      <4>1. at'["worker"] = at["worker"] + 1 /\ at["worker"] \in DOMAIN listeners
        BY <1>2, <3>2 DEF Typed, Listed, Serves
      <4>2. CASE chunk = NoInput
        BY <2>1, <4>2 DEF Reached, Offered
      <4>3. CASE chunk # NoInput
        <5>1. Served("worker") \notin Streams
          BY <1>2, <3>2, <4>3 DEF Listed, InStop
        <5>2. d # Served("worker")
          BY <5>1
        <5> QED
          BY <1>2, <2>1, <2>3, <3>2, <4>1, <5>2, NextReached
      <4> QED
        BY <4>2, <4>3
    <3> QED
      BY <2>4, <3>1, <3>2
  <2> QED
    BY <1>1, <1>2, <2>1, <2>2, <2>5, <2>6, FeedStays DEF Alike
<1>11. ASSUME NEW t \in Threads, Leave(t) PROVE Feed(d)'
  <2>1. /\ UNCHANGED <<poller, lst, marks, listeners>> /\ lock' = Nobody /\ pc[t] = "serves" /\ at[t] > Len(listeners)
        /\ pc' = [pc EXCEPT ![t] = "stopped"] \/ pc' = [pc EXCEPT ![t] = "idle"]
        /\ \/ InStop(t) /\ chunk' = chunk
           \/ ~InStop(t) /\ chunk' = NoInput
    BY <1>11 DEF Leave, clientVars, ghosts, Goes
  <2>2. lock = t
    BY <1>2, <2>1 DEF Turns, Serves
  <2>3. ~Between(d) /\ ~Between(d)'
    <3>1. pc["worker"] # "samples" /\ pc'["worker"] # "samples"
      <4>1. CASE t = "worker"
        BY <1>2, <2>1, <4>1 DEF Typed
      <4>2. CASE t # "worker"
        BY <1>2, <1>4, <2>1, <2>2, <4>2 DEF Typed, Serves
      <4> QED
        BY <4>1, <4>2
    <3> QED
      BY <3>1 DEF Between
  <2>4. ~Done(d)'
    BY <2>1 DEF Done, Nobody
  <2>5. Reached(d)' = Reached(d)
    <3>1. CASE t = "worker" /\ ~InStop(t)
      <4>1. chunk' = NoInput /\ Reached(d)' = Offered
        BY <2>1, <3>1 DEF Reached, Offered
      <4>2. d \in Range(listeners)
        BY <1>2 DEF Listed, Polls, In
      <4>3. Done(d)
        <5>1. PICK len \in Nat : len = Len(listeners) /\ DOMAIN listeners = 1..len
          BY <1>2, LenProperties DEF Typed
        <5>2. PICK k \in Nat : k = at["worker"] /\ k > len
          BY <1>2, <2>1, <3>1, <5>1 DEF Typed
        <5>3. PICK i \in 1..len : listeners[i] = d
          BY <4>2, <5>1 DEF Range
        <5>4. i < k
          BY <5>2
        <5> QED
          BY <2>2, <3>1, <5>1, <5>2, <5>3, <5>4 DEF Done
      <4> QED
        BY <4>1, <4>3 DEF Reached
    <3>2. CASE t = "worker" /\ InStop(t)
      BY <2>1, <3>2 DEF Reached, Offered, InStop
    <3>3. CASE t # "worker"
      <4>1. InStop(t)
        BY <1>2, <3>3 DEF InStop
      <4> QED
        BY <2>1, <2>2, <3>3, <4>1, SameReached DEF Nobody
    <3> QED
      BY <3>1, <3>2, <3>3
  <2> QED
    BY <1>3, <2>1, <2>3, <2>5
<1> QED
  BY <1>5, <1>6, <1>7, <1>8, <1>9, <1>10, <1>11

-----------------------------------------------------------------------------
(* The invariant *)

LEMMA SinkKeeps ==
    ASSUME IInv, [SinkNext]_sinkVars
    PROVE  IInv'
<1>1. CASE UNCHANGED sinkVars
  <2>1. /\ UNCHANGED <<registered, lock, listeners, ended, lst, poller, pc, at, n, sets, chunk, case, cpc, seen, count>>
        /\ UNCHANGED <<marks, base, got, strayStop>>
    BY <1>1 DEF sinkVars, listenerVars, localVars, clientVars, ghosts
  <2>2. Streams' = Streams /\ sub' = sub
    BY <2>1 DEF Streams, sub
  <2>3. Typed' /\ Turns' /\ Listed' /\ Planned'
    BY <2>1, <2>2 DEF IInv, Typed, Turns, Listed, Planned, InStop, Stopping, Offered, Served, NewTags, Gone
  <2>4. \A c \in Streams : Ends(c)'
    BY <2>1 DEF IInv, Ends
  <2>5. ASSUME NEW c \in Streams, Polls(c)' PROVE Feed(c)'
    <3>1. Typed /\ Turns /\ Feed(c)
      BY <2>1, <2>5 DEF IInv, Polls
    <3>2. Reached(c)' = Reached(c)
      BY <2>1, SameReached
    <3>3. Between(c)' <=> Between(c)
      BY <2>1 DEF Between, Served
    <3>4. Reached(c) <= Offered
      BY <3>1, ReachedIs
    <3> QED
      BY <2>1, <3>1, <3>2, <3>3, <3>4, FeedStays
  <2> QED
    BY <2>2, <2>3, <2>4, <2>5 DEF IInv
<1>2. CASE SinkNext
  <2>1. Typed' /\ Turns' /\ Listed' /\ Planned' /\ \A c \in Streams' : Ends(c)'
    BY <1>2, StepTyped, StepTurns, StepListed, StepPlanned, StepEnds
  <2>2. UNCHANGED case
    BY <1>2, CaseStays
  <2>3. ASSUME NEW d \in Streams, Polls(d)' PROVE Feed(d)'
    <3>1. ASSUME NEW c \in Clients,
                 \/ AskRegistry(c) \/ GetPoller(c) \/ CountAvailable(c) \/ LookFinished(c) \/ Release(c) \/ Take(c)
          PROVE  Feed(d)'
      BY <2>3, <3>1, ClientFeed, NewFeed, TakeFeed
    <3>2. ASSUME NEW t \in Threads, ServeStream(t) \/ PublishTags(t) \/ PublishSamples(t) PROVE Feed(d)'
      BY <2>3, <3>2, ServeStreamFeed, PublishTagsFeed, PublishSamplesFeed
    <3>3. ASSUME \/ \E size \in 1..MaxChunk, mark \in {None} \cup case.tags : ProcessBulk(size, mark)
                 \/ LockForChunk \/ ChangeSettings
                 \/ \E t \in Threads : CallStop(t) \/ Unregister(t) \/ LockForStop(t) \/ SetStep(t) \/ Leave(t)
          PROVE  Feed(d)'
      BY <2>3, <3>3, SinkFeed
    <3> QED
      BY <1>2, <3>1, <3>2, <3>3 DEF SinkNext, SinkStep, ClientStep, SetStep
  <2>4. Streams' = Streams
    BY <2>2 DEF Streams, sub
  <2> QED
    BY <2>1, <2>3, <2>4 DEF IInv
<1> QED
  BY <1>1, <1>2

LEMMA SinkStarts == SinkInit => IInv
<1> SUFFICES ASSUME SinkInit PROVE IInv
  OBVIOUS
<1>1. Typed
  <2>1. \A c \in Clients : poller[c] \in StreamPoller /\ lst[c] \in StreamListener /\ got[c] \in Received
    BY EmptySeq DEF SinkInit, NoPoller, NoListener, NothingGot, StreamPoller, StreamListener, Received
  <2>2. listeners \in Seq(Clients) /\ marks \in Seq(Tags)
    BY EmptySeq DEF SinkInit
  <2>3. /\ pc \in [Threads -> {"idle", "atLock", "unregister", "stopLock", "stopped"} \cup Serves]
        /\ at \in [Threads -> Nat \ {0}] /\ n \in [Threads -> [samples : Int, tags : Int]]
        /\ cpc \in [Clients -> Out \cup In] /\ base \in [Clients -> Nat]
    BY DEF SinkInit, NoCounts, Out, In
  <2>4. chunk \in [from : Nat, size : Nat, mark : Tags]
    BY DEF SinkInit, NoInput, Tags
  <2> QED
    BY <2>1, <2>2, <2>3, <2>4 DEF SinkInit, Typed, Streams
<1>2. Turns
  BY DEF SinkInit, Turns, Serves, Stopping, Threads, Nobody
<1>3. Listed
  BY DEF SinkInit, Listed, Serves, Streams, In, NoListener
<1>4. Planned
  BY DEF SinkInit, Planned, Threads
<1>5. \A c \in Streams : Ends(c) /\ ~Polls(c)
  BY DEF SinkInit, Ends, Polls, Streams, Out, In, NoPoller
<1> QED
  BY <1>1, <1>2, <1>3, <1>4, <1>5 DEF IInv

(* When all have been served, and at the end, nothing is between the sink  *)
(* and the rings.                                                          *)
LEMMA AllServed ==
    ASSUME IInv, NEW c \in Streams, lock = Nobody \/ SeenAll(c)
    PROVE  Reached(c) = Processed /\ (SeenAll(c) => poller[c].samples = <<>>)
<1>1. Typed /\ Turns /\ Ends(c) /\ c \in Clients
  BY DEF IInv, Streams
<1>2. ASSUME SeenAll(c) PROVE chunk = NoInput /\ poller[c].samples = <<>>
  <2>1. cpc[c] = "done" /\ ~strayStop
    BY <1>2 DEF SeenAll
  <2>2. seen[c] /\ poller[c].samples = <<>> /\ cpc[c] \in In
    BY <1>1, <2>1 DEF Ends, In
  <2>3. ~registered
    BY <1>1, <2>2 DEF Ends
  <2> QED
    BY <1>1, <2>1, <2>2, <2>3 DEF Turns, Stopping
<1>3. lock = Nobody => ~Done(c)
  BY DEF Done, Nobody
<1> QED
  BY <1>2, <1>3 DEF Reached, Processed

LEMMA SinkIsWhole == IInv => StreamsAreWhole
<1> SUFFICES ASSUME IInv, NEW c \in Streams, Polls(c)
             PROVE  /\ lock = Nobody \/ SeenAll(c) => Len(All(c)) + poller[c].dropped = Processed - base[c]
                    /\ SeenAll(c) => poller[c].samples = <<>>
                    /\ \A i, j \in DOMAIN All(c) : i < j => All(c)[i] < All(c)[j]
                    /\ sub[c].block => All(c) = Span(base[c], Len(All(c)))
                    /\ \A tag \in Range(poller[c].tags) : tag.at >= poller[c].read
                    /\ \A tag \in got[c].tags : tag.at < Len(got[c].samples)
                    /\ \A tag \in AllTagsOf(c) : tag.at < Len(All(c)) /\ tag.of # Meta => All(c)[tag.at + 1] = tag.of
                    /\ sub[c].block =>
                          \A i \in DOMAIN got[c].samples :
                             /\ marks[got[c].samples[i]] # None => [at |-> i - 1, of |-> got[c].samples[i]] \in got[c].tags
                             /\ i = 1 => [at |-> 0, of |-> Meta] \in got[c].tags
  BY DEF StreamsAreWhole, Streams, All, AllTagsOf
<1>1. Typed /\ Feed(c)
  BY DEF IInv
<1>2. lock = Nobody \/ SeenAll(c) => Len(All(c)) + poller[c].dropped = Processed - base[c]
  BY <1>1, AllServed DEF Feed, Whole
<1>3. SeenAll(c) => poller[c].samples = <<>>
  BY AllServed
<1>4. /\ \A i, j \in DOMAIN All(c) : i < j => All(c)[i] < All(c)[j]
      /\ sub[c].block => All(c) = Span(base[c], Len(All(c)))
      /\ \A tag \in got[c].tags : tag.at < Len(got[c].samples)
  BY <1>1 DEF Feed, Whole, Tagged
<1>5. poller[c].read \in Nat /\ poller[c].read = Len(got[c].samples)
  BY <1>1, StreamIs DEF StreamPoller, Feed, Whole
<1>6. ASSUME NEW tag \in Range(poller[c].tags) PROVE tag.at >= poller[c].read
  <2>1. PICK i \in DOMAIN poller[c].tags : tag = poller[c].tags[i]
    BY <1>6 DEF Range
  <2>2. poller[c].read <= poller[c].tags[i].at /\ poller[c].tags[i].at \in Nat
    BY <1>1, TagsAre DEF Feed, Tagged
  <2> QED
    BY <1>5, <2>1, <2>2
<1>7. ASSUME NEW tag \in AllTagsOf(c), tag.at < Len(All(c)), tag.of # Meta PROVE All(c)[tag.at + 1] = tag.of
  BY <1>1, <1>7 DEF Feed, Tagged
<1>8. ASSUME sub[c].block, NEW i \in DOMAIN got[c].samples
      PROVE  /\ marks[got[c].samples[i]] # None => [at |-> i - 1, of |-> got[c].samples[i]] \in got[c].tags
             /\ i = 1 => [at |-> 0, of |-> Meta] \in got[c].tags
  <2>1. PICK len \in Nat : len = Len(got[c].samples) /\ DOMAIN got[c].samples = 1..len
    BY <1>1, StreamIs, LenProperties DEF Received
  <2>2. i \in DOMAIN All(c) /\ All(c)[i] = got[c].samples[i]
    <3>1. got[c].samples \in Seq(Nat) /\ poller[c].samples \in Seq(Nat)
      BY <1>1, StreamIs DEF StreamPoller, Received
    <3>2. PICK more \in Nat : more = Len(poller[c].samples)
      BY <3>1, LenProperties
    <3>3. Len(All(c)) = len + more /\ DOMAIN All(c) = 1..Len(All(c))
      BY <1>1, <2>1, <3>2, AllIs
    <3>4. i \in 1..len
      BY <1>8, <2>1, Zenon
    <3>5. \A k \in 1..Len(got[c].samples) : (got[c].samples \o poller[c].samples)[k] = got[c].samples[k]
      <4>1. \A s, r \in Seq(Nat) : \A k \in 1..Len(s) : (s \o r)[k] = s[k]
        OBVIOUS
      <4> QED
        BY <3>1, <4>1, Zenon
    <3>6. All(c)[i] = got[c].samples[i]
      BY <2>1, <3>4, <3>5 DEF All
    <3>7. i \in 1..(len + more)
      BY <3>4
    <3>8. DOMAIN All(c) = 1..(len + more)
      BY <3>3
    <3> QED
      BY <3>6, <3>7, <3>8, Zenon
  <2>3. ASSUME NEW tag \in AllTagsOf(c), tag.at < len PROVE tag \in got[c].tags
    <3>1. tag.at \in Nat
      BY <1>1, TagsAre
    <3>2. tag \in Range(poller[c].tags) => tag.at >= len
      BY <1>5, <1>6, <2>1
    <3> QED
      BY <2>1, <2>3, <3>1, <3>2 DEF AllTagsOf
  <2>4. TagsKept(c)
    BY <1>1, <1>8 DEF Feed
  <2>5. ASSUME marks[got[c].samples[i]] # None PROVE [at |-> i - 1, of |-> got[c].samples[i]] \in got[c].tags
    <3>1. [at |-> i - 1, of |-> got[c].samples[i]] \in AllTagsOf(c)
      BY <2>2, <2>4, <2>5 DEF TagsKept
    <3>2. i - 1 < len
      BY <2>1
    <3> QED
      BY <2>3, <3>1, <3>2
  <2>6. ASSUME i = 1 PROVE MetaTag \in got[c].tags
    <3>1. MetaTag \in AllTagsOf(c)
      BY <2>2, <2>4, <2>6 DEF TagsKept
    <3>2. MetaTag.at < len
      BY <2>1, <2>6 DEF MetaTag
    <3> QED
      BY <2>3, <3>1, <3>2
  <2> QED
    BY <2>5, <2>6 DEF MetaTag
<1> QED
  BY <1>2, <1>3, <1>4, <1>6, <1>7, <1>8

(***************************************************************************)
(* A stream reaches a poller without gaps, or with gaps that are counted,  *)
(* until its end; its tags reach it together with their samples, and none  *)
(* comes later: DataSink.hpp, ContinuousListener::process() and            *)
(* StreamingPoller::process().                                             *)
(***************************************************************************)
THEOREM StreamsReachPollers == SinkSpec => []StreamsAreWhole
<1>1. SinkInit => IInv
  BY SinkStarts
<1>2. IInv /\ [SinkNext]_sinkVars => IInv'
  BY SinkKeeps
<1>3. IInv => StreamsAreWhole
  BY SinkIsWhole
<1> QED
  BY <1>1, <1>2, <1>3, PTL DEF SinkSpec
=============================================================================
