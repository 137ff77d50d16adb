--------------------------- MODULE SettingsProofs ---------------------------
(***************************************************************************)
(* Theorems about the settings of a block, for all contexts, parameters,   *)
(* fallbacks and expiry times, with their proofs.                          *)
(*                                                                         *)
(* IInv is the inductive invariant.  What removeExpiredStoredParameters()  *)
(* does is right only because of what is stored when it runs (StoreInv):   *)
(* the entries of a name are in the strict order of their times, and of    *)
(* all that was ever stored only what is outdated is missing.  A tag       *)
(* leaves alone what was set by hand only because the auto-update sets     *)
(* of all stored contexts are kept together with the entries (AutoInv).    *)
(* The other parts relate what is staged to the step of work(), of which   *)
(* only the first holds the mutex (SwitchInv, ClientInv).                  *)
(***************************************************************************)
EXTENDS Settings, FiniteSetTheorems, SequenceTheorems, WellFoundedInduction, TLAPS

(* Types, and what the history knows                                       *)
Typed ==
    /\ now \in Times /\ calls \in Nat
    /\ expiry \in Nat \cup {Never}
    /\ s \in Store
    /\ {live, defaults, target} \subseteq [Params -> Values]
    /\ pending \in Partial(Params, Values)
    /\ ledger \in Partial(Ctx, [Params -> Values]) /\ \A c \in DOMAIN ledger : c.time > 0
    /\ byHand \in Partial(Ctx, SUBSET Params)
    /\ DOMAIN ledger \subseteq DOMAIN byHand
    /\ origin \in [Params -> Origins]
    /\ raced \in SUBSET Params /\ tagged \in SUBSET Params
    /\ phase \in {"idle", "decide", "chunk", "input", "tagged", "finish", "apply",
                  "applied", "cleared", "published"}
    /\ back \in {"idle", "decide", "input", "finish"}

(* No two entries of a name have the same time.                            *)
Strict(v) == \A i, j \in DOMAIN v : i < j => v[i].time < v[j].time

(* The context of an entry                                                 *)
At(n, e) == [name |-> n, time |-> e.time]

(* What _storedParameters always is                                        *)
StoredRight(stored) ==
    stored \in Partial(Names, Seq(Entry)) /\ \A m \in DOMAIN stored : Strict(stored[m])

(* There is an entry of context c.                                         *)
Has(stored, c) == c.name \in DOMAIN stored /\ \E e \in ToSet(stored[c.name]) : e.time = c.time

(* What is stored is what the history led knows of it, and no name whose   *)
(* contexts the history knows has lost all of its entries.                 *)
Recorded(stored, led) ==
    /\ DOMAIN led \subseteq Ctx /\ DOMAIN stored = {c.name : c \in DOMAIN led}
    /\ \A m \in DOMAIN stored : \A e \in ToSet(stored[m]) :
          At(m, e) \in DOMAIN led /\ led[At(m, e)] = e.settings

(* Context c is missing rightly at a time: all entries of its name are     *)
(* later, and it has expired or one of them is in force already.           *)
Removed(stored, c, at) ==
    /\ \A e \in ToSet(stored[c.name]) : c.time < e.time
    /\ Expired(c, at) \/ \E e \in ToSet(stored[c.name]) : c.time < e.time /\ e.time <= at

(* Of all that was ever stored only what is outdated is missing.           *)
RightlyKept(stored, led, at) ==
    /\ StoredRight(stored)
    /\ Recorded(stored, led)
    /\ \A c \in DOMAIN led : Has(stored, c) \/ Removed(stored, c, at)

StoreInv == RightlyKept(s.stored, ledger, now)

(* The auto-update set of a stored context, if there is one, leaves out    *)
(* only what was set by hand; and without expiry there is one that leaves  *)
(* out all of that.                                                        *)
AutoRight(stored, auto, hand) ==
    \A c \in Ctx : Has(stored, c) =>
        /\ c \in DOMAIN auto => Params \ auto[c] \subseteq hand[c]
        /\ expiry = Never => c \in DOMAIN auto /\ auto[c] \cap hand[c] = {}

AutoInv == AutoRight(s.stored, s.auto, byHand)

(* The block has the values of the context that was switched to.           *)
InForce == \A p \in Params : origin[p] = "context" => live[p] = target[p]

(* A parameter of the context that was switched to is staged with its value *)
(* or the block has it, and has all of them when work() is not told to     *)
(* apply any or is behind the step that does.                              *)
SwitchInv ==
    expiry = Never =>
        /\ \A p \in Params : origin[p] = "context" =>
              IF p \in DOMAIN s.staged THEN s.staged[p] = target[p] ELSE live[p] = target[p]
        /\ ~s.changed \/ phase \in {"applied", "cleared", "published"} => InForce

(* What a client has staged and nothing else has replaced waits for the    *)
(* next call of work(), which is told so, or is the value of the block in  *)
(* the one step between its being applied and its leaving the staged ones. *)
ClientInv ==
    \A p \in Params \ raced : origin[p] = "client" /\ p \in DOMAIN s.staged =>
        /\ phase \notin {"cleared", "published"}
        /\ s.changed
        /\ phase = "applied" => live[p] = s.staged[p]

(* The first context is never forgotten, without expiry the active context *)
(* is one that was stored, and the last tag has staged nothing of it that  *)
(* was set by hand.                                                        *)
ManualInv ==
    /\ [name |-> Default, time |-> 1] \in DOMAIN ledger
    /\ expiry = Never => s.active \in DOMAIN ledger
    /\ expiry = Never /\ phase = "tagged" /\ s.active \in StoredContexts(s) =>
          tagged \cap byHand[s.active] = {}

(* The inductive invariant                                                 *)
IInv == Typed /\ StoreInv /\ AutoInv /\ SwitchInv /\ ClientInv /\ ManualInv

-----------------------------------------------------------------------------
(* Partial functions and small sets of numbers *)

(* A partial function is a function on a part of the set.                  *)
LEMMA PartialIs ==
    ASSUME NEW A, NEW B, NEW f
    PROVE  f \in Partial(A, B) <=> DOMAIN f \subseteq A /\ f \in [DOMAIN f -> B]
BY Zenon DEF Partial

(* The one laid over the other.                                            *)
LEMMA OverIs ==
    ASSUME NEW A, NEW B, NEW f \in Partial(A, B), NEW g \in Partial(A, B)
    PROVE  Over(f, g) \in Partial(A, B)
<1>1. /\ DOMAIN f \subseteq A /\ f \in [DOMAIN f -> B]
      /\ DOMAIN g \subseteq A /\ g \in [DOMAIN g -> B]
  BY PartialIs
<1>2. DOMAIN Over(f, g) \subseteq A /\ Over(f, g) \in [DOMAIN Over(f, g) -> B]
  BY <1>1 DEF Over
<1> QED
  BY <1>2, PartialIs

(* Over a total function it is a total one.                                *)
LEMMA OverTotal ==
    ASSUME NEW A, NEW B, NEW f \in Partial(A, B), NEW g \in [A -> B]
    PROVE  Over(f, g) \in [A -> B]
<1>1. DOMAIN f \subseteq A /\ f \in [DOMAIN f -> B]
  BY PartialIs
<1> QED
  BY <1>1 DEF Over

(* What is left of a partial function                                      *)
LEMMA RestrictIs ==
    ASSUME NEW A, NEW B, NEW f \in Partial(A, B), NEW D
    PROVE  Restrict(f, DOMAIN f \cap D) \in Partial(A, B)
<1>1. DOMAIN f \subseteq A /\ f \in [DOMAIN f -> B]
  BY PartialIs
<1>2. Restrict(f, DOMAIN f \cap D) \in [DOMAIN f \cap D -> B]
  BY <1>1 DEF Restrict
<1> QED
  BY <1>1, <1>2, PartialIs

(* Any set of naturals has a smallest, a bounded one a largest.            *)
LEMMA MinOfSet ==
    ASSUME NEW S \in SUBSET Nat, S # {}
    PROVE  Min(S) \in S /\ \A y \in S : Min(S) <= y
<1>1. IsWellFoundedOn({ss \in Nat \X Nat : ss[1] < ss[2]}, Nat)
  BY NatLessThanWellFounded DEF OpToRel
<1>2. PICK m \in S : \A y \in S : ~ (<<y, m>> \in {ss \in Nat \X Nat : ss[1] < ss[2]})
  BY WFMin, <1>1, Zenon
<1>3. ASSUME NEW y \in S PROVE m <= y
  <2>1. y \in Nat /\ m \in Nat
    OBVIOUS
  <2>2. ASSUME y < m PROVE <<y, m>> \in {ss \in Nat \X Nat : ss[1] < ss[2]}
    BY <2>1, <2>2
  <2> QED
    BY <1>2, <2>1, <2>2
<1> QED
  BY <1>3 DEF Min

(* The largest number of a set of small ones                               *)
LEMMA MaxOfSet ==
    ASSUME NEW n \in Nat, NEW S \in SUBSET (1..n), S # {}
    PROVE  Max(S) \in S /\ \A y \in S : Max(S) >= y
<1> DEFINE T == {n - x : x \in S}
<1>1. T \in SUBSET Nat /\ T # {}
  <2>1. ASSUME NEW x \in S PROVE n - x \in Nat
    OBVIOUS
  <2> QED
    BY <2>1
<1>2. PICK m : m = Min(T) /\ m \in T /\ \A y \in T : m <= y
  BY <1>1, MinOfSet
<1>3. PICK x \in S : m = n - x
  BY <1>2
<1>4. ASSUME NEW y \in S PROVE x >= y
  <2>1. n - x <= n - y
    BY <1>2, <1>3
  <2> QED
    BY <2>1
<1> QED
  BY <1>4 DEF Max

(* A set of positions that has all the ones before each is a prefix.       *)
LEMMA Prefix ==
    ASSUME NEW n \in Nat, NEW S \in SUBSET (1..n),
           \A i \in S : \A j \in 1..n : j < i => j \in S
    PROVE  Cardinality(S) \in 0..n /\ S = 1..Cardinality(S)
<1>1. CASE S = {}
  BY <1>1, FS_EmptySet
<1>2. CASE S # {}
  <2>1. PICK m : m \in S /\ \A y \in S : m >= y
    BY <1>2, MaxOfSet
  <2>2. S = 1..m
    <3>1. m \in 1..n
      BY <2>1
    <3>2. ASSUME NEW j \in 1..m PROVE j \in S
      <4>1. j \in 1..n /\ (j = m \/ j < m)
        BY <3>1
      <4> QED
        BY <2>1, <4>1
    <3>3. ASSUME NEW j \in S PROVE j \in 1..m
      BY <2>1, <3>1
    <3> QED
      BY <3>2, <3>3
  <2>3. Cardinality(1..m) = m
    BY <2>1, FS_Interval
  <2> QED
    BY <2>1, <2>2, <2>3
<1> QED
  BY <1>1, <1>2

-----------------------------------------------------------------------------
(* The entries of a name *)

(* The elements of a sequence                                              *)
LEMMA Elements ==
    ASSUME NEW S, NEW v \in Seq(S)
    PROVE  /\ Len(v) \in Nat /\ DOMAIN v = 1..Len(v)
           /\ ToSet(v) = {v[i] : i \in 1..Len(v)}
           /\ ToSet(v) \subseteq S
           /\ \A i \in 1..Len(v) : v[i] \in S
<1>1. Len(v) \in Nat /\ DOMAIN v = 1..Len(v) /\ \A i \in 1..Len(v) : v[i] \in S
  BY LenProperties, ElementOfSeq
<1> QED
  BY <1>1 DEF ToSet

(* Two parts of a sequence, and what is put between them                   *)
Joined(v, g, u, h) == SubSeq(v, 1, g) \o u \o SubSeq(v, h, Len(v))

(* A sequence of three parts, element by element                           *)
IsJoined(S, v, g, u, h, w) ==
    /\ w \in Seq(S) /\ Len(w) = g + Len(u) + (Len(v) - h + 1)
    /\ \A j \in 1..g : w[j] = v[j]
    /\ \A j \in 1..Len(u) : w[g + j] = u[j]
    /\ \A j \in h..Len(v) : w[g + Len(u) + (j - h + 1)] = v[j]

(* What InsertAt() and RemoveAt() put together is such a sequence.         *)
LEMMA Parts ==
    ASSUME NEW S, NEW v \in Seq(S), NEW g \in 0..Len(v), NEW h \in 1..Len(v) + 1, NEW u \in Seq(S)
    PROVE  IsJoined(S, v, g, u, h, Joined(v, g, u, h))
<1>1. PICK w : w = Joined(v, g, u, h)
  OBVIOUS
<1>2. Len(v) \in Nat /\ Len(u) \in Nat /\ \A i \in 1..Len(v) : v[i] \in S
  BY Elements
<1>3. PICK n \in Nat, m \in Nat : n = Len(v) /\ m = Len(u)
  BY <1>2
<1>4. PICK a : a = SubSeq(v, 1, g)
  OBVIOUS
<1>5. PICK b : b = SubSeq(v, h, n)
  OBVIOUS
<1>6. a \in Seq(S) /\ Len(a) = g /\ \A i \in 1..g : a[i] = v[i]
  <2>1. \A i \in 1..g : v[i] \in S
    BY <1>2, <1>3
  <2>2. /\ a \in Seq(S) /\ Len(a) = (IF 1 <= g THEN g - 1 + 1 ELSE 0)
        /\ \A i \in 1..g - 1 + 1 : a[i] = v[1 + i - 1]
    BY <2>1, <1>4, <1>3, SubSeqProperties
  <2> QED
    BY <2>2, <1>3
<1>7. b \in Seq(S) /\ Len(b) = n - h + 1 /\ \A i \in 1..n - h + 1 : b[i] = v[h + i - 1]
  <2>1. \A i \in h..n : v[i] \in S
    BY <1>2, <1>3
  <2>2. /\ b \in Seq(S) /\ Len(b) = (IF h <= n THEN n - h + 1 ELSE 0)
        /\ \A i \in 1..n - h + 1 : b[i] = v[h + i - 1]
    BY <2>1, <1>5, <1>3, SubSeqProperties
  <2> QED
    BY <2>2, <1>3
<1>8. PICK c : c = a \o u
  OBVIOUS
<1>9. /\ c \in Seq(S) /\ Len(c) = g + m
      /\ \A i \in 1..g + m : c[i] = IF i <= g THEN a[i] ELSE u[i - g]
  BY <1>3, <1>6, <1>8, ConcatProperties
<1>10. /\ w \in Seq(S) /\ Len(w) = g + m + (n - h + 1)
       /\ \A i \in 1..g + m + (n - h + 1) : w[i] = IF i <= g + m THEN c[i] ELSE b[i - (g + m)]
  <2>1. w = c \o b
    BY <1>1, <1>3, <1>4, <1>5, <1>8 DEF Joined
  <2>2. /\ c \o b \in Seq(S) /\ Len(c \o b) = Len(c) + Len(b)
        /\ \A i \in 1..Len(c) + Len(b) : (c \o b)[i] = IF i <= Len(c) THEN c[i] ELSE b[i - Len(c)]
    BY <1>7, <1>9, ConcatProperties, Zenon
  <2> QED
    BY <2>1, <2>2, <1>7, <1>9
<1>11. ASSUME NEW j \in 1..g PROVE w[j] = v[j]
  <2>1. j \in 1..g + m /\ j \in 1..g + m + (n - h + 1) /\ j <= g + m /\ j <= g
    BY <1>3
  <2> QED
    BY <2>1, <1>6, <1>9, <1>10
<1>12. ASSUME NEW j \in 1..m PROVE w[g + j] = u[j]
  <2>1. g + j \in 1..g + m /\ g + j \in 1..g + m + (n - h + 1) /\ g + j <= g + m /\ ~ (g + j <= g) /\ (g + j) - g = j
    BY <1>3
  <2> QED
    BY <2>1, <1>9, <1>10
<1>13. ASSUME NEW j \in h..n PROVE w[g + m + (j - h + 1)] = v[j]
  <2>1. PICK i \in 1..n - h + 1 : i = j - h + 1 /\ h + i - 1 = j
    BY <1>3
  <2>2. g + m + i \in 1..g + m + (n - h + 1) /\ ~ (g + m + i <= g + m) /\ (g + m + i) - (g + m) = i
    BY <1>3
  <2> QED
    BY <2>1, <2>2, <1>7, <1>10
<1> QED
  BY <1>1, <1>3, <1>10, <1>11, <1>12, <1>13 DEF IsJoined

(* The sequence w is v with e after the first g elements.                  *)
Between(v, w, g, e) ==
    /\ v \in Seq(Entry) /\ w \in Seq(Entry) /\ e \in Entry
    /\ Len(w) = Len(v) + 1 /\ g \in 0..Len(v)
    /\ \A j \in 1..g : w[j] = v[j]
    /\ w[g + 1] = e
    /\ \A j \in g + 1..Len(v) : w[j + 1] = v[j]

(* One element more                                                        *)
LEMMA ElementsBetween ==
    ASSUME NEW v, NEW w, NEW g, NEW e, Between(v, w, g, e)
    PROVE  ToSet(w) = ToSet(v) \cup {e}
<1>1. PICK n \in Nat : n = Len(v) /\ ToSet(v) = {v[i] : i \in 1..n}
  BY Elements DEF Between
<1>2. /\ g \in 0..n
      /\ \A j \in 1..g : w[j] = v[j]
      /\ w[g + 1] = e
      /\ \A j \in g + 1..n : w[j + 1] = v[j]
  BY <1>1 DEF Between
<1>3. ToSet(w) = {w[i] : i \in 1..n + 1}
  BY <1>1, Elements DEF Between
<1>4. ASSUME NEW j \in 1..n + 1 PROVE w[j] \in ToSet(v) \cup {e}
  <2>1. CASE j <= g
    BY <2>1, <1>1, <1>2
  <2>2. CASE j = g + 1
    BY <2>2, <1>2
  <2>3. CASE j > g + 1
    <3>1. PICK k \in g + 1..n : k + 1 = j
      BY <2>3, <1>1, <1>2
    <3>2. k \in 1..n /\ w[j] = v[k]
      BY <3>1, <1>2
    <3> QED
      BY <3>2, <1>1
  <2> QED
    BY <2>1, <2>2, <2>3, <1>2
<1>5. ASSUME NEW k \in 1..n PROVE v[k] \in ToSet(w)
  <2>1. CASE k <= g
    <3>1. k \in 1..g /\ k \in 1..n + 1
      BY <2>1, <1>2
    <3> QED
      BY <3>1, <1>3, <1>2
  <2>2. CASE k > g
    <3>1. k \in g + 1..n /\ k + 1 \in 1..n + 1
      BY <2>2, <1>2
    <3> QED
      BY <3>1, <1>2, <1>3
  <2> QED
    BY <2>1, <2>2, <1>2
<1>6. e \in ToSet(w)
  <2>1. g + 1 \in 1..n + 1
    BY <1>2
  <2> QED
    BY <2>1, <1>3, <1>2
<1> QED
  BY <1>1, <1>3, <1>4, <1>5, <1>6

(* It leaves the order as it was when its place is the right one.          *)
LEMMA OrderBetween ==
    ASSUME NEW v, NEW w, NEW g, NEW e, Between(v, w, g, e),
           MaxTime \in Nat, Strict(v),
           \A k \in 1..g : v[k].time < e.time,
           \A k \in g + 1..Len(v) : e.time < v[k].time
    PROVE  Strict(w)
<1>1. PICK n \in Nat : n = Len(v) /\ DOMAIN v = 1..n /\ \A i \in 1..n : v[i] \in Entry
  BY Elements DEF Between
<1>2. /\ g \in 0..n
      /\ \A j \in 1..g : w[j] = v[j]
      /\ w[g + 1] = e
      /\ \A j \in g + 1..n : w[j + 1] = v[j]
  BY <1>1 DEF Between
<1>3. DOMAIN w = 1..n + 1
  BY <1>1, Elements DEF Between
<1>4. e.time \in Nat /\ \A i \in 1..n : v[i].time \in Nat
  BY <1>1 DEF Entry, Between
<1>5. \A k, l \in 1..n : k < l => v[k].time < v[l].time
  BY <1>1 DEF Strict
<1> SUFFICES ASSUME NEW i \in 1..n + 1, NEW j \in 1..n + 1, i < j
             PROVE  w[i].time < w[j].time
  BY <1>3 DEF Strict
<1>6. j > g + 1 => j - 1 \in g + 1..n /\ (j - 1) + 1 = j /\ j - 1 \in 1..n
  BY <1>2
<1>7. i > g + 1 => i - 1 \in g + 1..n /\ (i - 1) + 1 = i /\ i - 1 \in 1..n
  BY <1>2
<1>8. i <= g => i \in 1..g /\ i \in 1..n
  BY <1>2
<1>9. j <= g => j \in 1..g /\ j \in 1..n
  BY <1>2
<1>10. CASE i <= g /\ j <= g
  BY <1>2, <1>5, <1>8, <1>9, <1>10
<1>11. CASE i <= g /\ j = g + 1
  BY <1>2, <1>8, <1>11
<1>12. CASE i <= g /\ j > g + 1
  <2>1. i < j - 1
    BY <1>12, <1>2
  <2> QED
    BY <2>1, <1>2, <1>5, <1>6, <1>8, <1>12
<1>13. CASE i = g + 1 /\ j > g + 1
  BY <1>2, <1>1, <1>6, <1>13
<1>14. CASE i > g + 1
  <2>1. i - 1 < j - 1 /\ j > g + 1
    BY <1>14, <1>2
  <2> QED
    BY <2>1, <1>2, <1>5, <1>6, <1>7, <1>14
<1> QED
  BY <1>2, <1>10, <1>11, <1>12, <1>13, <1>14

(* addStoredParameters() keeps the order.                                  *)
LEMMA Inserting ==
    ASSUME NEW v \in Seq(Entry), Strict(v), NEW e \in Entry, \A f \in ToSet(v) : f.time # e.time,
           MaxTime \in Nat,
           NEW w, w = InsertAt(v, Cardinality({k \in DOMAIN v : v[k].time < e.time}) + 1, e)
    PROVE  w \in Seq(Entry) /\ Strict(w) /\ ToSet(w) = ToSet(v) \cup {e}
<1> DEFINE S == {k \in DOMAIN v : v[k].time < e.time}
<1>1. PICK n \in Nat : /\ n = Len(v) /\ DOMAIN v = 1..n /\ ToSet(v) = {v[i] : i \in 1..n}
                       /\ \A i \in 1..n : v[i] \in Entry
  BY Elements
<1>2. e.time \in Nat /\ \A i \in 1..n : v[i].time \in Nat
  BY <1>1 DEF Entry
<1>3. \A i \in S : \A j \in 1..n : j < i => j \in S
  BY <1>1, <1>2 DEF Strict
<1>4. PICK g \in 0..n : g = Cardinality(S) /\ S = 1..g
  BY <1>1, <1>3, Prefix
<1>5. /\ \A k \in 1..g : v[k].time < e.time
      /\ \A k \in g + 1..n : e.time < v[k].time
  <2>1. ASSUME NEW k \in 1..g PROVE v[k].time < e.time
    BY <1>4
  <2>2. ASSUME NEW k \in g + 1..n PROVE e.time < v[k].time
    <3>1. k \in 1..n /\ k \notin 1..g
      OBVIOUS
    <3>2. ~ (v[k].time < e.time)
      BY <3>1, <1>1, <1>4
    <3>3. v[k].time # e.time
      BY <3>1, <1>1
    <3> QED
      BY <3>1, <3>2, <3>3, <1>2
  <2> QED
    BY <2>1, <2>2
<1>6. w = Joined(v, g, <<e>>, g + 1)
  <2>1. w = InsertAt(v, g + 1, e)
    BY <1>4
  <2>2. (g + 1) - 1 = g
    OBVIOUS
  <2> QED
    BY <2>1, <2>2, <1>1 DEF InsertAt, Joined
<1>7. Between(v, w, g, e)
  <2>1. PICK u : u = <<e>>
    OBVIOUS
  <2>2. u \in Seq(Entry) /\ Len(u) = 1 /\ u[1] = e
    BY <2>1
  <2>3. PICK h : h = g + 1
    OBVIOUS
  <2>4. h \in 1..Len(v) + 1 /\ g \in 0..Len(v)
    BY <2>3, <1>1
  <2>5. w = Joined(v, g, u, h)
    BY <2>1, <2>3, <1>6
  <2>6. /\ w \in Seq(Entry) /\ Len(w) = g + Len(u) + (Len(v) - h + 1)
        /\ \A j \in 1..g : w[j] = v[j]
        /\ \A j \in 1..Len(u) : w[g + j] = u[j]
        /\ \A j \in h..Len(v) : w[g + Len(u) + (j - h + 1)] = v[j]
    <3>1. IsJoined(Entry, v, g, u, h, Joined(v, g, u, h))
      BY <2>2, <2>4, Parts
    <3> QED
      BY <3>1, <2>5, Zenon DEF IsJoined
  <2>7. Len(w) = n + 1 /\ w[g + 1] = e
    <3>1. 1 \in 1..1 /\ g + 1 + (n - h + 1) = n + 1
      BY <2>3
    <3> QED
      BY <3>1, <2>2, <2>6, <1>1
  <2>8. ASSUME NEW j \in g + 1..n PROVE w[j + 1] = v[j]
    <3>1. g + 1 + (j - h + 1) = j + 1
      BY <2>3
    <3> QED
      BY <3>1, <2>2, <2>3, <2>6, <1>1
  <2> QED
    BY <2>6, <2>7, <2>8, <1>1 DEF Between
<1>8. Strict(w)
  BY <1>1, <1>5, <1>7, OrderBetween
<1>9. ToSet(w) = ToSet(v) \cup {e}
  BY <1>7, ElementsBetween
<1> QED
  BY <1>7, <1>8, <1>9 DEF Between

(* Without one of its elements                                             *)
LEMMA Removing ==
    ASSUME NEW v \in Seq(Entry), Strict(v), NEW i \in 1..Len(v), MaxTime \in Nat,
           NEW w, w = RemoveAt(v, i)
    PROVE  w \in Seq(Entry) /\ Strict(w) /\ ToSet(w) = ToSet(v) \ {v[i]}
<1>1. PICK n \in Nat : /\ n = Len(v) /\ DOMAIN v = 1..n /\ ToSet(v) = {v[j] : j \in 1..n}
                       /\ \A j \in 1..n : v[j] \in Entry
  BY Elements
<1>2. \A j \in 1..n : v[j].time \in Nat
  BY <1>1 DEF Entry
<1>3. PICK g \in 0..n : g + 1 = i
  <2>1. i - 1 \in 0..n /\ (i - 1) + 1 = i
    BY <1>1
  <2> QED
    BY <2>1
<1>4. PICK u : u = <<>>
  OBVIOUS
<1>5. u \in Seq(Entry) /\ Len(u) = 0
  BY <1>4
<1>6. PICK h : h = g + 2
  OBVIOUS
<1>7. w = Joined(v, g, u, h)
  <2>1. w = SubSeq(v, 1, g) \o SubSeq(v, h, Len(v))
    <3>1. i - 1 = g /\ i + 1 = h
      BY <1>3, <1>6
    <3> QED
      BY <3>1 DEF RemoveAt
  <2>2. SubSeq(v, 1, g) \in Seq(Entry)
    <3>1. \A j \in 1..g : v[j] \in Entry
      BY <1>1, <1>3
    <3> QED
      BY <3>1, SubSeqProperties
  <2>3. SubSeq(v, 1, g) \o u = SubSeq(v, 1, g)
    BY <2>2, <1>4, ConcatEmptySeq
  <2> QED
    BY <2>1, <2>3 DEF Joined
<1>8. IsJoined(Entry, v, g, u, h, Joined(v, g, u, h))
  <2>1. h \in 1..Len(v) + 1 /\ g \in 0..Len(v)
    BY <1>1, <1>3, <1>6
  <2> QED
    BY <2>1, <1>5, Parts
<1>9. /\ w \in Seq(Entry) /\ Len(w) + 1 = n
      /\ \A j \in 1..g : w[j] = v[j]
      /\ \A j \in g + 2..n : w[j - 1] = v[j]
  <2>1. /\ w \in Seq(Entry) /\ Len(w) = g + 0 + (n - h + 1)
        /\ \A j \in 1..g : w[j] = v[j]
        /\ \A j \in h..n : w[g + 0 + (j - h + 1)] = v[j]
    BY <1>1, <1>5, <1>7, <1>8 DEF IsJoined
  <2>2. \A j \in h..n : g + 0 + (j - h + 1) = j - 1
    BY <1>6
  <2>3. (g + 0 + (n - h + 1)) + 1 = n
    BY <1>6
  <2> QED
    BY <2>1, <2>2, <2>3, <1>6
<1>10. Len(w) \in Nat /\ DOMAIN w = 1..Len(w) /\ ToSet(w) = {w[j] : j \in 1..Len(w)}
  BY <1>9, Elements
<1>11. Between(w, v, g, v[i])
  <2>1. \A j \in g + 1..Len(w) : v[j + 1] = w[j]
    <3> TAKE j \in g + 1..Len(w)
    <3>1. j + 1 \in g + 2..n /\ (j + 1) - 1 = j
      BY <1>9, <1>10
    <3> QED
      BY <3>1, <1>9
  <2>2. g \in 0..Len(w) /\ v[i] \in Entry /\ Len(v) = Len(w) + 1
    BY <1>1, <1>3, <1>9, <1>10
  <2> QED
    BY <2>1, <2>2, <1>3, <1>9 DEF Between
<1>12. ToSet(v) = ToSet(w) \cup {v[i]}
  BY <1>11, ElementsBetween
<1>13. \A k, l \in 1..n : k < l => v[k].time < v[l].time
  BY <1>1 DEF Strict
<1>14. \A j \in 1..Len(w) : \E k \in 1..n : /\ w[j] = v[k] /\ k # i
                                             /\ (j < i => k = j) /\ (j >= i => k = j + 1)
  <2> TAKE j \in 1..Len(w)
  <2>1. CASE j < i
    <3>1. j \in 1..g /\ j \in 1..n
      BY <2>1, <1>3
    <3> QED
      BY <3>1, <2>1, <1>9, <1>3
  <2>2. CASE j >= i
    <3>1. j + 1 \in g + 2..n /\ (j + 1) - 1 = j /\ j + 1 \in 1..n /\ j + 1 # i
      BY <2>2, <1>3, <1>9, <1>10
    <3> QED
      BY <3>1, <2>2, <1>9, <1>3
  <2> QED
    BY <2>1, <2>2, <1>10
<1>15. v[i] \notin ToSet(w)
  <2>1. ASSUME NEW j \in 1..Len(w) PROVE w[j] # v[i]
    <3>1. PICK k \in 1..n : w[j] = v[k] /\ k # i
      BY <1>14
    <3>2. v[k].time # v[i].time
      <4>1. i \in 1..n /\ (k < i \/ i < k)
        BY <3>1, <1>1
      <4> QED
        BY <4>1, <1>2, <1>13
    <3> QED
      BY <3>1, <3>2
  <2> QED
    BY <2>1, <1>10
<1>16. Strict(w)
  <2> SUFFICES ASSUME NEW j \in 1..Len(w), NEW k \in 1..Len(w), j < k
               PROVE  w[j].time < w[k].time
    BY <1>10 DEF Strict
  <2>1. PICK a \in 1..n : w[j] = v[a] /\ (j < i => a = j) /\ (j >= i => a = j + 1)
    BY <1>14
  <2>2. PICK b \in 1..n : w[k] = v[b] /\ (k < i => b = k) /\ (k >= i => b = k + 1)
    BY <1>14
  <2>3. a < b
    BY <2>1, <2>2, <1>10
  <2> QED
    BY <2>1, <2>2, <2>3, <1>13
<1> QED
  BY <1>9, <1>12, <1>15, <1>16

(* The end of a sequence                                                   *)
LEMMA Ends ==
    ASSUME NEW v \in Seq(Entry), NEW h \in 1..Len(v) + 1
    PROVE  LET w == SubSeq(v, h, Len(v))
           IN  /\ w \in Seq(Entry)
               /\ ToSet(w) = {v[j] : j \in h..Len(v)}
               /\ Strict(v) => Strict(w)
<1> DEFINE w == SubSeq(v, h, Len(v))
<1>1. PICK n \in Nat : n = Len(v) /\ DOMAIN v = 1..n /\ \A j \in 1..n : v[j] \in Entry
  BY Elements
<1>2. /\ w \in Seq(Entry) /\ Len(w) = n - h + 1 /\ \A j \in 1..n - h + 1 : w[j] = v[h + j - 1]
  <2>1. \A j \in h..n : v[j] \in Entry
    BY <1>1
  <2>2. /\ w \in Seq(Entry) /\ Len(w) = (IF h <= n THEN n - h + 1 ELSE 0)
        /\ \A j \in 1..n - h + 1 : w[j] = v[h + j - 1]
    BY <2>1, <1>1, SubSeqProperties
  <2> QED
    BY <2>2, <1>1
<1> HIDE DEF w
<1>3. DOMAIN w = 1..n - h + 1 /\ ToSet(w) = {w[j] : j \in 1..n - h + 1}
  BY <1>2, Elements
<1>4. \A j \in 1..n - h + 1 : h + j - 1 \in h..n /\ h + j - 1 \in 1..n
  BY <1>1
<1>5. ASSUME NEW j \in h..n PROVE v[j] \in ToSet(w)
  <2>1. j - h + 1 \in 1..n - h + 1 /\ h + (j - h + 1) - 1 = j
    BY <1>1
  <2>2. PICK k \in 1..n - h + 1 : h + k - 1 = j
    BY <2>1
  <2> QED
    BY <2>2, <1>2, <1>3
<1>6. ToSet(w) = {v[j] : j \in h..n}
  BY <1>2, <1>3, <1>4, <1>5
<1>7. ASSUME Strict(v) PROVE Strict(w)
  <2> SUFFICES ASSUME NEW j \in 1..n - h + 1, NEW k \in 1..n - h + 1, j < k
               PROVE  w[j].time < w[k].time
    BY <1>3 DEF Strict
  <2>1. PICK a \in 1..n : a = h + j - 1
    BY <1>4
  <2>2. PICK b \in 1..n : b = h + k - 1
    BY <1>4
  <2>3. a < b
    BY <2>1, <2>2, <1>1
  <2>4. v[a].time < v[b].time
    BY <2>3, <1>1, <1>7 DEF Strict
  <2> QED
    BY <2>1, <2>2, <2>4, <1>2
<1> QED
  BY <1>1, <1>2, <1>6, <1>7 DEF w

(* What has expired goes, and nothing else.                                *)
LEMMA Expiring ==
    ASSUME NEW v \in Seq(Entry), Strict(v), MaxTime \in Nat, expiry \in Nat \cup {Never}, NEW at \in Nat
    PROVE  /\ Unexpired(v, at) \in Seq(Entry)
           /\ Strict(Unexpired(v, at))
           /\ ToSet(Unexpired(v, at)) = {e \in ToSet(v) : ~Expired(e, at)}
           /\ expiry = Never => Unexpired(v, at) = v
<1> DEFINE S == {i \in DOMAIN v : Expired(v[i], at)}
<1>1. PICK n \in Nat : /\ n = Len(v) /\ DOMAIN v = 1..n /\ ToSet(v) = {v[j] : j \in 1..n}
                       /\ \A j \in 1..n : v[j] \in Entry
  BY Elements
<1>2. \A j \in 1..n : v[j].time \in Nat
  BY <1>1 DEF Entry
<1>3. \A i \in S : \A j \in 1..n : j < i => j \in S
  <2> SUFFICES ASSUME NEW i \in S, NEW j \in 1..n, j < i
               PROVE  Expired(v[j], at)
    BY <1>1
  <2>1. v[j].time < v[i].time /\ v[j].time \in Nat /\ v[i].time \in Nat
    BY <1>1, <1>2 DEF Strict
  <2>2. expiry # Never /\ v[i].time + expiry <= at
    BY DEF Expired
  <2>3. expiry \in Nat
    BY <2>2
  <2> QED
    BY <2>1, <2>2, <2>3 DEF Expired
<1>4. PICK g \in 0..n : g = Cardinality(S) /\ S = 1..g
  BY <1>1, <1>3, Prefix
<1>5. PICK h \in 1..Len(v) + 1 : h = g + 1
  BY <1>1
<1>6. PICK w : w = SubSeq(v, h, Len(v)) /\ w = Unexpired(v, at)
  BY <1>4, <1>5 DEF Unexpired
<1>7. w \in Seq(Entry) /\ ToSet(w) = {v[j] : j \in h..n} /\ Strict(w)
  BY <1>1, <1>6, Ends
<1>8. ToSet(w) = {e \in ToSet(v) : ~Expired(e, at)}
  <2>1. ASSUME NEW j \in h..n PROVE v[j] \in ToSet(v) /\ ~Expired(v[j], at)
    <3>1. j \in 1..n /\ j \notin 1..g
      BY <1>5
    <3> QED
      BY <3>1, <1>1, <1>4
  <2>2. ASSUME NEW j \in 1..n, ~Expired(v[j], at) PROVE v[j] \in ToSet(w)
    <3>1. j \notin 1..g
      BY <2>2, <1>4
    <3>2. j \in h..n
      BY <3>1, <1>5
    <3> QED
      BY <3>2, <1>7
  <2> QED
    BY <2>1, <2>2, <1>1, <1>7
<1>9. expiry = Never => w = v
  <2> SUFFICES ASSUME expiry = Never PROVE w = v
    OBVIOUS
  <2>1. S = {}
    BY DEF Expired
  <2>2. g = 0
    BY <2>1, <1>4, FS_EmptySet
  <2>3. h = 1
    BY <2>2, <1>5
  <2>4. SubSeq(v, 1, Len(v)) = v
    BY SubSeqFull
  <2> QED
    BY <2>3, <2>4, <1>6
<1> QED
  BY <1>6, <1>7, <1>8, <1>9

(* The largest of two                                                      *)
LEMMA MaxOfTwo ==
    ASSUME NEW a \in Int, NEW b \in Int
    PROVE  Max({a, b}) = IF a >= b THEN a ELSE b
<1>1. PICK m \in {a, b} : m >= a /\ m >= b
  OBVIOUS
<1>2. \A x \in {a, b} : (\A y \in {a, b} : x >= y) => x = m
  BY <1>1
<1> QED
  BY <1>1, <1>2 DEF Max

(* Behind the first entry that is kept all are in the future, and it is    *)
(* not, unless it is the first of all.                                     *)
LEMMA FirstKeptIs ==
    ASSUME NEW v \in Seq(Entry), Strict(v), MaxTime \in Nat, NEW at \in Nat, NEW k, k = FirstKept(v, at)
    PROVE  /\ k \in 1..Len(v) + 1 /\ (v # <<>> => k \in 1..Len(v))
           /\ \A j \in k + 1..Len(v) : v[j].time > at
           /\ k > 1 /\ k \in 1..Len(v) => v[k].time <= at
<1> DEFINE later == {i \in DOMAIN v : v[i].time >= at}
<1>1. PICK n \in Nat : n = Len(v) /\ DOMAIN v = 1..n /\ \A j \in 1..n : v[j] \in Entry
  BY Elements
<1>2. \A j \in 1..n : v[j].time \in Nat
  BY <1>1 DEF Entry
<1>3. v # <<>> => n > 0
  BY <1>1, EmptySeq
<1>4. \A i, j \in 1..n : i < j => v[i].time < v[j].time
  BY <1>1 DEF Strict
<1>5. CASE later = {}
  <2>1. k = Max({1, n})
    BY <1>1, <1>5 DEF FirstKept
  <2>2. k = IF 1 >= n THEN 1 ELSE n
    BY <2>1, MaxOfTwo
  <2>3. k \in 1..n => v[k].time <= at
    <3>1. k \in 1..n => ~ (v[k].time >= at)
      BY <1>1, <1>5
    <3> QED
      BY <3>1, <1>2
  <2>4. k \in 1..n + 1 /\ (n > 0 => k \in 1..n) /\ k + 1 > n
    BY <2>2
  <2> QED
    BY <2>3, <2>4, <1>1, <1>3
<1>6. CASE later # {}
  <2>1. PICK m \in 1..n : m = Min(later) /\ m \in later /\ \A y \in later : m <= y
    <3>1. later \in SUBSET Nat
      BY <1>1
    <3> QED
      BY <3>1, <1>1, <1>6, MinOfSet
  <2>2. v[m].time >= at
    BY <2>1
  <2>3. \A j \in 1..n : j < m => v[j].time < at
    <3> TAKE j \in 1..n
    <3>1. j < m => j \notin later
      <4>1. j \in later => m <= j
        BY <2>1
      <4>2. j < m => ~ (m <= j)
        OBVIOUS
      <4> QED
        BY <4>1, <4>2
    <3>2. j \notin later => ~ (v[j].time >= at)
      BY <1>1
    <3> QED
      BY <3>1, <3>2, <1>2
  <2>4. CASE v[m].time = at
    <3>1. k = m
      BY <2>1, <2>4, <1>6 DEF FirstKept
    <3>2. ASSUME NEW j \in k + 1..n PROVE v[j].time > at
      <4>1. j \in 1..n /\ m < j
        BY <3>1
      <4> QED
        BY <4>1, <2>4, <1>2, <1>4
    <3>3. k \in 1..n + 1 /\ k \in 1..n
      BY <3>1
    <3> QED
      BY <3>1, <3>2, <3>3, <2>4, <1>1
  <2>5. CASE v[m].time # at
    <3>1. k = Max({1, m - 1})
      BY <2>1, <2>5, <1>6 DEF FirstKept
    <3>2. k = IF 1 >= m - 1 THEN 1 ELSE m - 1
      BY <3>1, MaxOfTwo
    <3>3. v[m].time > at
      BY <2>2, <2>5, <1>2
    <3>4. ASSUME NEW j \in k + 1..n PROVE v[j].time > at
      <4>1. j \in 1..n /\ (j = m \/ m < j)
        BY <3>2
      <4> QED
        BY <4>1, <3>3, <1>2, <1>4
    <3>5. k > 1 => k \in 1..n /\ k < m
      BY <3>2
    <3>6. k > 1 => v[k].time <= at
      BY <3>5, <2>3, <1>2
    <3>7. k \in 1..n /\ k \in 1..n + 1
      BY <3>2
    <3> QED
      BY <3>4, <3>6, <3>7, <1>1
  <2> QED
    BY <2>4, <2>5
<1> QED
  BY <1>5, <1>6

(* What is kept of the entries of a name                                   *)
Rest(v, at) == SubSeq(Unexpired(v, at), FirstKept(Unexpired(v, at), at), Len(Unexpired(v, at)))

(* What remains has not expired, no two entries of it are past, and what   *)
(* is missing is earlier than all of it and has expired or been replaced;  *)
(* without expiry something remains.                                       *)
RestRight(v, w, at) ==
    /\ w \in Seq(Entry) /\ Strict(w) /\ ToSet(w) \subseteq ToSet(v)
    /\ \A e \in ToSet(w) : ~Expired(e, at)
    /\ \A e, d \in ToSet(w) : ~ (e.time < d.time /\ d.time <= at)
    /\ \A e \in ToSet(v) \ ToSet(w) : Expired(e, at) \/ \E d \in ToSet(w) : e.time < d.time /\ d.time <= at
    /\ \A e \in ToSet(v) \ ToSet(w) : \A d \in ToSet(w) : e.time < d.time
    /\ expiry = Never /\ v # <<>> => w # <<>>

(* remove_if() and the erase() behind it do just that.                     *)
LEMMA Resting ==
    ASSUME NEW v \in Seq(Entry), Strict(v), MaxTime \in Nat, expiry \in Nat \cup {Never}, NEW at \in Nat
    PROVE  RestRight(v, Rest(v, at), at)
<1>1. PICK u : u = Unexpired(v, at)
  OBVIOUS
<1>2. /\ u \in Seq(Entry) /\ Strict(u)
      /\ ToSet(u) = {e \in ToSet(v) : ~Expired(e, at)}
      /\ expiry = Never => u = v
  BY <1>1, Expiring
<1>3. PICK n \in Nat : /\ n = Len(u) /\ DOMAIN u = 1..n /\ ToSet(u) = {u[j] : j \in 1..n}
                       /\ \A j \in 1..n : u[j] \in Entry
  BY <1>2, Elements
<1>4. \A j \in 1..n : u[j].time \in Nat
  BY <1>3 DEF Entry
<1>5. \A i, j \in 1..n : i < j => u[i].time < u[j].time
  BY <1>2, <1>3 DEF Strict
<1>6. PICK k : k = FirstKept(u, at)
  OBVIOUS
<1>7. /\ k \in 1..n + 1 /\ (u # <<>> => k \in 1..n)
      /\ \A j \in k + 1..n : u[j].time > at
      /\ k > 1 /\ k \in 1..n => u[k].time <= at
  BY <1>2, <1>3, <1>6, FirstKeptIs
<1>8. PICK w : w = SubSeq(u, k, n) /\ w = Rest(v, at)
  BY <1>1, <1>3, <1>6 DEF Rest
<1>9. w \in Seq(Entry) /\ ToSet(w) = {u[j] : j \in k..n} /\ Strict(w)
  BY <1>2, <1>3, <1>7, <1>8, Ends
<1>10. k \in Nat /\ k >= 1
  BY <1>7
<1>11. ToSet(w) \subseteq ToSet(u)
  BY <1>3, <1>9, <1>10
<1>12. \A e, d \in ToSet(w) : ~ (e.time < d.time /\ d.time <= at)
  <2> SUFFICES ASSUME NEW i \in k..n, NEW j \in k..n, u[i].time < u[j].time, u[j].time <= at
               PROVE  FALSE
    BY <1>9
  <2>1. i \in 1..n /\ j \in 1..n /\ u[i].time \in Nat /\ u[j].time \in Nat
    BY <1>4, <1>10
  <2>2. ~ (j \in k + 1..n)
    BY <2>1, <1>7
  <2>3. j = k
    BY <2>2, <1>10
  <2>4. i = j \/ j < i
    BY <2>3, <1>10
  <2> QED
    BY <2>1, <2>4, <1>5
<1>13. ASSUME NEW e \in ToSet(u) \ ToSet(w)
       PROVE  /\ \E d \in ToSet(w) : e.time < d.time /\ d.time <= at
              /\ \A d \in ToSet(w) : e.time < d.time
  <2>1. PICK i \in 1..n : e = u[i]
    BY <1>3
  <2>2. i \notin k..n
    BY <2>1, <1>9
  <2>3. i < k
    BY <2>2, <1>10
  <2>4. k \in 1..n /\ k > 1
    <3>1. u # <<>>
      BY <2>1, <1>3, EmptySeq
    <3> QED
      BY <3>1, <2>3, <1>7
  <2>5. u[i].time < u[k].time /\ u[k].time <= at
    BY <2>3, <2>4, <1>5, <1>7
  <2>6. u[k] \in ToSet(w)
    BY <2>4, <1>9
  <2>7. ASSUME NEW d \in ToSet(w) PROVE e.time < d.time
    <3>1. PICK j \in k..n : d = u[j]
      BY <1>9
    <3>2. j \in 1..n /\ i < j
      BY <2>3, <1>10
    <3> QED
      BY <3>1, <3>2, <2>1, <1>5
  <2> QED
    BY <2>1, <2>5, <2>6, <2>7
<1>14. \A e \in ToSet(v) \ ToSet(w) : Expired(e, at) \/ \E d \in ToSet(w) : e.time < d.time /\ d.time <= at
  BY <1>2, <1>13
<1>15. \A e \in ToSet(v) \ ToSet(w) : \A d \in ToSet(w) : e.time < d.time
  <2> SUFFICES ASSUME NEW e \in ToSet(v) \ ToSet(w), NEW d \in ToSet(w) PROVE e.time < d.time
    OBVIOUS
  <2>1. CASE e \in ToSet(u)
    BY <2>1, <1>13
  <2>2. CASE e \notin ToSet(u)
    <3>1. Expired(e, at) /\ ~Expired(d, at)
      BY <2>2, <1>2, <1>11
    <3>2. e \in Entry /\ d \in Entry
      BY <1>9, Elements
    <3>3. e.time \in Nat /\ d.time \in Nat
      BY <3>2 DEF Entry
    <3>4. expiry # Never /\ e.time + expiry <= at /\ ~ (d.time + expiry <= at)
      BY <3>1 DEF Expired
    <3>5. expiry \in Nat
      BY <3>4
    <3> QED
      BY <3>3, <3>4, <3>5
  <2> QED
    BY <2>1, <2>2
<1>16. expiry = Never /\ v # <<>> => w # <<>>
  <2> SUFFICES ASSUME expiry = Never, v # <<>> PROVE w # <<>>
    OBVIOUS
  <2>1. k \in k..n
    BY <1>2, <1>7
  <2>2. u[k] \in ToSet(w)
    BY <2>1, <1>9
  <2>3. ToSet(<<>>) = {}
    BY DEF ToSet
  <2> QED
    BY <2>2, <2>3
<1>17. \A e \in ToSet(w) : ~Expired(e, at)
  BY <1>2, <1>11
<1>18. ToSet(w) \subseteq ToSet(v)
  BY <1>2, <1>11
<1> QED
  BY <1>8, <1>9, <1>12, <1>14, <1>15, <1>16, <1>17, <1>18 DEF RestRight

-----------------------------------------------------------------------------
(* Searching *)

(* The entries of a name                                                   *)
LEMMA StoredIs ==
    ASSUME NEW stored, StoredRight(stored), NEW m \in DOMAIN stored
    PROVE  m \in Names /\ stored[m] \in Seq(Entry) /\ Strict(stored[m])
<1>1. DOMAIN stored \subseteq Names /\ stored \in [DOMAIN stored -> Seq(Entry)]
  BY PartialIs DEF StoredRight
<1> QED
  BY <1>1 DEF StoredRight

(* No two entries of a name have the same time.                            *)
LEMMA OneEntry ==
    ASSUME NEW v \in Seq(Entry), Strict(v), MaxTime \in Nat, NEW e \in ToSet(v), NEW f \in ToSet(v), e.time = f.time
    PROVE  e = f
<1>1. PICK n \in Nat : /\ DOMAIN v = 1..n /\ ToSet(v) = {v[j] : j \in 1..n}
                       /\ \A j \in 1..n : v[j] \in Entry
  BY Elements
<1>2. PICK i \in 1..n, j \in 1..n : e = v[i] /\ f = v[j]
  BY <1>1
<1>3. v[i].time \in Nat /\ v[j].time \in Nat
  BY <1>1 DEF Entry
<1>4. ~ (i < j) /\ ~ (j < i)
  BY <1>1, <1>2, <1>3 DEF Strict
<1> QED
  BY <1>2, <1>4

(* The parameters of a context are those of its entry.                     *)
LEMMA ParametersIs ==
    ASSUME NEW stored, StoredRight(stored), MaxTime \in Nat, NEW m \in DOMAIN stored, NEW e \in ToSet(stored[m])
    PROVE  ParametersAt(stored, At(m, e)) = e.settings
<1>1. PICK v : v = stored[m] /\ v \in Seq(Entry) /\ Strict(v)
  BY StoredIs
<1>2. PICK n \in Nat : DOMAIN v = 1..n /\ ToSet(v) = {v[j] : j \in 1..n}
  BY <1>1, Elements
<1>3. PICK S : S = {i \in DOMAIN v : v[i].time = e.time}
  OBVIOUS
<1>4. S \in SUBSET Nat /\ S # {}
  <2>1. PICK j \in 1..n : e = v[j]
    BY <1>1, <1>2
  <2> QED
    BY <2>1, <1>2, <1>3
<1>5. Min(S) \in S
  BY <1>4, MinOfSet
<1>6. v[Min(S)] \in ToSet(v) /\ v[Min(S)].time = e.time
  BY <1>2, <1>3, <1>5
<1>7. v[Min(S)] = e
  BY <1>1, <1>6, OneEntry
<1> QED
  BY <1>1, <1>3, <1>7 DEF ParametersAt, At

(* The contexts of a name that are latest up to a time                     *)
IsLatest(stored, m, t, e) ==
    /\ e \in ToSet(stored[m]) /\ e.time <= t
    /\ \A f \in ToSet(stored[m]) : f.time <= t => f.time <= e.time

(* findBestMatchSettingsCtx() finds the latest entry of the name, or of    *)
(* its first fallback, and no other.                                       *)
LEMMA BestMatchIs ==
    ASSUME NEW stored, StoredRight(stored), MaxTime \in Nat, NEW n, BestName(stored, n) \subseteq DOMAIN stored,
           NEW t \in Nat, NEW c
    PROVE  c \in BestMatch(stored, n, t) <=>
              \E m \in BestName(stored, n) : \E e \in ToSet(stored[m]) :
                  c = At(m, e) /\ IsLatest(stored, m, t, e)
<1> DEFINE Upto(m) == {i \in DOMAIN stored[m] : stored[m][i].time <= t}
<1>1. ASSUME NEW m \in BestName(stored, n)
      PROVE  /\ Upto(m) # {} => IsLatest(stored, m, t, stored[m][Max(Upto(m))])
             /\ \A e \in ToSet(stored[m]) : IsLatest(stored, m, t, e)
                    => Upto(m) # {} /\ stored[m][Max(Upto(m))] = e
  <2>1. PICK v : v = stored[m] /\ v \in Seq(Entry) /\ Strict(v)
    BY StoredIs
  <2>2. PICK k \in Nat : /\ DOMAIN v = 1..k /\ ToSet(v) = {v[j] : j \in 1..k}
                         /\ \A j \in 1..k : v[j] \in Entry
    BY <2>1, Elements
  <2>3. \A j \in 1..k : v[j].time \in Nat
    BY <2>2 DEF Entry
  <2>4. PICK U : U = Upto(m) /\ U = {i \in 1..k : v[i].time <= t}
    BY <2>1, <2>2
  <2>5. ASSUME U # {} PROVE IsLatest(stored, m, t, v[Max(U)])
    <3>1. PICK i \in 1..k : i = Max(U) /\ i \in U /\ \A j \in U : i >= j
      BY <2>4, <2>5, MaxOfSet
    <3>2. ASSUME NEW j \in 1..k, v[j].time <= t PROVE v[j].time <= v[i].time
      <4>1. j \in U
        BY <3>2, <2>4
      <4>2. j = i \/ j < i
        BY <4>1, <3>1
      <4> QED
        BY <4>2, <2>1, <2>2, <2>3 DEF Strict
    <3> QED
      BY <3>1, <3>2, <2>1, <2>2, <2>4 DEF IsLatest
  <2>6. ASSUME NEW e \in ToSet(v), IsLatest(stored, m, t, e)
        PROVE  U # {} /\ v[Max(U)] = e
    <3>1. e.time <= t /\ \A f \in ToSet(v) : f.time <= t => f.time <= e.time
      BY <2>1, <2>6 DEF IsLatest
    <3>2. PICK j \in 1..k : e = v[j]
      BY <2>2
    <3>3. j \in U
      BY <3>1, <3>2, <2>4
    <3>4. PICK f : f = v[Max(U)]
      OBVIOUS
    <3>5. IsLatest(stored, m, t, f)
      BY <3>3, <3>4, <2>5
    <3>6. f \in ToSet(v) /\ f.time <= t /\ e.time <= f.time /\ f.time <= e.time
      BY <3>1, <3>5, <2>1 DEF IsLatest
    <3>7. e.time \in Nat /\ f.time \in Nat
      BY <3>6, <2>2, <2>3
    <3>8. e = f
      BY <3>6, <3>7, <2>1, OneEntry
    <3> QED
      BY <3>3, <3>4, <3>8
  <2> QED
    BY <2>1, <2>4, <2>5, <2>6
<1>2. c \in BestMatch(stored, n, t) <=>
        \E m \in BestName(stored, n) : Upto(m) # {} /\ c = [name |-> m, time |-> stored[m][Max(Upto(m))].time]
  BY Zenon DEF BestMatch
<1>3. \A m \in BestName(stored, n) :
          (\E e \in ToSet(stored[m]) : c = At(m, e) /\ IsLatest(stored, m, t, e))
          <=> Upto(m) # {} /\ c = [name |-> m, time |-> stored[m][Max(Upto(m))].time]
  <2> TAKE m \in BestName(stored, n)
  <2> DEFINE top == stored[m][Max(Upto(m))]
  <2>1. Upto(m) # {} => IsLatest(stored, m, t, top) /\ top \in ToSet(stored[m])
    BY <1>1 DEF IsLatest
  <2>2. \A e \in ToSet(stored[m]) : IsLatest(stored, m, t, e) => Upto(m) # {} /\ top = e
    BY <1>1
  <2> HIDE DEF top, Upto
  <2>3. (\E e \in ToSet(stored[m]) : c = At(m, e) /\ IsLatest(stored, m, t, e))
          <=> Upto(m) # {} /\ c = At(m, top)
    BY <2>1, <2>2
  <2> QED
    BY <2>3 DEF top, At
<1> HIDE DEF Upto
<1> QED
  BY <1>2, <1>3

(* A name has one best match at most, and it is stored.                    *)
LEMMA BestNameIs ==
    ASSUME NEW stored, NEW n \in Names, Fallbacks \in [Names -> Seq(Names)]
    PROVE  /\ BestName(stored, n) \subseteq DOMAIN stored
           /\ \A k, m \in BestName(stored, n) : k = m
<1>1. CASE n \in DOMAIN stored
  BY <1>1 DEF BestName
<1>2. CASE n \notin DOMAIN stored
  <2>1. PICK hits : hits = {i \in DOMAIN Fallbacks[n] : Fallbacks[n][i] \in DOMAIN stored}
    OBVIOUS
  <2>2. BestName(stored, n) = IF hits = {} THEN {} ELSE {Fallbacks[n][Min(hits)]}
    BY <2>1, <1>2, Zenon DEF BestName
  <2>3. hits # {} => Fallbacks[n][Min(hits)] \in DOMAIN stored
    <3>1. Fallbacks[n] \in Seq(Names)
      OBVIOUS
    <3>2. hits \in SUBSET Nat
      <4>1. DOMAIN Fallbacks[n] = 1..Len(Fallbacks[n]) /\ Len(Fallbacks[n]) \in Nat
        BY <3>1, Elements
      <4> QED
        BY <4>1, <2>1
    <3> QED
      BY <3>2, <2>1, MinOfSet
  <2> QED
    BY <2>2, <2>3
<1> QED
  BY <1>1, <1>2

(* The contexts of what is stored                                          *)
LEMMA StoredContextsAre ==
    ASSUME NEW st, NEW c
    PROVE  c \in StoredContexts(st) <=> \E m \in DOMAIN st.stored : \E e \in ToSet(st.stored[m]) : c = At(m, e)
<1>1. StoredContexts(st) = UNION {{At(m, e) : e \in ToSet(st.stored[m])} : m \in DOMAIN st.stored}
  BY Zenon DEF StoredContexts, At
<1>2. \A m : c \in {At(m, e) : e \in ToSet(st.stored[m])} <=> \E e \in ToSet(st.stored[m]) : c = At(m, e)
  OBVIOUS
<1> HIDE DEF At
<1>3. c \in UNION {{At(m, e) : e \in ToSet(st.stored[m])} : m \in DOMAIN st.stored}
        <=> \E m \in DOMAIN st.stored : c \in {At(m, e) : e \in ToSet(st.stored[m])}
  BY Zenon
<1> QED
  BY <1>1, <1>2, <1>3, Zenon

(* The contexts of what is stored are those that it has an entry for.      *)
LEMMA HasIs ==
    ASSUME NEW st, NEW c \in Ctx
    PROVE  c \in StoredContexts(st) <=> Has(st.stored, c)
<1>1. \A m, e : c = At(m, e) <=> c.name = m /\ e.time = c.time
  BY DEF Ctx, At
<1> HIDE DEF At
<1>2. c \in StoredContexts(st) <=> \E m \in DOMAIN st.stored : \E e \in ToSet(st.stored[m]) : c = At(m, e)
  BY StoredContextsAre
<1>3. (\E m \in DOMAIN st.stored : \E e \in ToSet(st.stored[m]) : c = At(m, e)) <=> Has(st.stored, c)
  <2>1. ASSUME NEW m \in DOMAIN st.stored, NEW e \in ToSet(st.stored[m]), c = At(m, e) PROVE Has(st.stored, c)
    <3>1. c.name = m /\ e.time = c.time
      BY <2>1, <1>1
    <3> QED
      BY <3>1, Zenon DEF Has
  <2>2. ASSUME Has(st.stored, c) PROVE \E m \in DOMAIN st.stored : \E e \in ToSet(st.stored[m]) : c = At(m, e)
    <3>1. PICK e \in ToSet(st.stored[c.name]) : e.time = c.time
      BY <2>2, Zenon DEF Has
    <3>2. c.name \in DOMAIN st.stored /\ c = At(c.name, e)
      BY <2>2, <3>1, <1>1, Zenon DEF Has
    <3> QED
      BY <3>2, Zenon
  <2> QED
    BY <2>1, <2>2
<1> QED
  BY <1>2, <1>3

(* What an entry of the ledger and one of the store have in common         *)
LEMMA EntryTimes ==
    ASSUME NEW stored, StoredRight(stored), MaxTime \in Nat, NEW m \in DOMAIN stored, NEW e \in ToSet(stored[m])
    PROVE  /\ e \in Entry /\ e.time \in Times /\ e.time \in Nat /\ e.settings \in [Params -> Values]
           /\ At(m, e) \in Ctx /\ At(m, e).name = m /\ At(m, e).time = e.time
<1>1. m \in Names /\ stored[m] \in Seq(Entry)
  BY StoredIs
<1>2. e \in Entry
  BY <1>1, Elements
<1>3. e.time \in Times /\ e.settings \in [Params -> Values]
  BY <1>2 DEF Entry, Times
<1>4. e.time \in 0..MaxTime /\ e.time \in Nat
  BY <1>3 DEF Times
<1> QED
  BY <1>1, <1>2, <1>3, <1>4 DEF At, Ctx

(* What is earlier expires sooner.                                         *)
LEMMA ExpiresSooner ==
    ASSUME expiry \in Nat \cup {Never}, NEW c, NEW d, c.time \in Nat, d.time \in Nat, c.time <= d.time,
           NEW a \in Nat, NEW b \in Nat, a <= b, Expired(d, a)
    PROVE  Expired(c, b)
<1>1. expiry \in Nat /\ expiry # Never /\ d.time + expiry <= a
  BY DEF Expired
<1>2. c.time + expiry <= b
  BY <1>1
<1> QED
  BY <1>1, <1>2 DEF Expired

(* Whatever time it is, a look-up finds what is stored of what it would    *)
(* find in the ledger; it finds less only if that has expired.             *)
LEMMA MatchAgrees ==
    ASSUME SettingsConstants, StoreInv, Typed, NEW n \in Names, NEW t \in Nat
    PROVE  /\ BestMatch(s.stored, n, t) = LedgerMatch(n, t) \cap StoredContexts(s)
           /\ t >= now => \A c \in LedgerMatch(n, t) \ BestMatch(s.stored, n, t) : Expired(c, now)
           /\ \A c \in BestMatch(s.stored, n, t) : ParametersAt(s.stored, c) = ledger[c]
<1>1. PICK stored : stored = s.stored
  OBVIOUS
<1>2. PICK names : names = BestName(stored, n)
  OBVIOUS
<1>3. /\ StoredRight(stored) /\ Recorded(stored, ledger)
      /\ \A c \in DOMAIN ledger : Has(stored, c) \/ Removed(stored, c, now)
  BY <1>1 DEF StoreInv, RightlyKept
<1>4. MaxTime \in Nat /\ Fallbacks \in [Names -> Seq(Names)] /\ now \in Nat
  BY DEF SettingsConstants, Typed, Times
<1>5. names \subseteq DOMAIN stored
  BY <1>2, <1>4, BestNameIs
<1>6. \A c \in DOMAIN ledger : c \in Ctx /\ c.name \in DOMAIN stored /\ c.time \in Nat /\ c.name \in Names
  <2>1. \A c \in Ctx : c.time \in Nat /\ c.name \in Names
    BY <1>4 DEF Ctx
  <2> QED
    BY <1>3, <2>1 DEF Recorded
<1>7. LedgerMatch(n, t) =
        {c \in {d \in DOMAIN ledger : d.name \in names /\ d.time <= t} :
            \A d \in {d \in DOMAIN ledger : d.name \in names /\ d.time <= t} : d.time <= c.time}
  <2>1. {c.name : c \in DOMAIN ledger} = DOMAIN stored
    BY <1>3 DEF Recorded
  <2> QED
    BY <2>1, <1>2, Zenon DEF LedgerMatch, BestName
<1>8. \A c : c \in LedgerMatch(n, t) <=>
        /\ c \in DOMAIN ledger /\ c.name \in names /\ c.time <= t
        /\ \A d \in DOMAIN ledger : d.name \in names /\ d.time <= t => d.time <= c.time
  BY <1>7
<1>9. \A c : c \in BestMatch(stored, n, t) <=>
        \E m \in names : \E e \in ToSet(stored[m]) : c = At(m, e) /\ IsLatest(stored, m, t, e)
  BY <1>2, <1>3, <1>4, <1>5, BestMatchIs
<1>10. \A k, m \in names : k = m
  BY <1>2, <1>4, BestNameIs
<1>11. ASSUME NEW c \in BestMatch(stored, n, t)
       PROVE  c \in LedgerMatch(n, t) /\ c \in StoredContexts(s) /\ ParametersAt(stored, c) = ledger[c]
  <2>1. PICK m \in names : \E e \in ToSet(stored[m]) : c = At(m, e) /\ IsLatest(stored, m, t, e)
    BY <1>9
  <2>2. PICK e \in ToSet(stored[m]) : c = At(m, e) /\ IsLatest(stored, m, t, e)
    BY <2>1
  <2>3. m \in DOMAIN stored
    BY <1>5
  <2>4. c \in Ctx /\ c.name = m /\ c.time = e.time /\ e.time \in Nat
    BY <2>2, <2>3, <1>3, <1>4, EntryTimes
  <2>5. c \in DOMAIN ledger /\ ledger[c] = e.settings
    BY <2>2, <2>3, <1>3 DEF Recorded
  <2>6. e.time <= t /\ \A f \in ToSet(stored[m]) : f.time <= t => f.time <= e.time
    BY <2>2 DEF IsLatest
  <2>7. ASSUME NEW d \in DOMAIN ledger, d.name \in names, d.time <= t PROVE d.time <= c.time
    <3>1. d.name = m /\ d.time \in Nat
      BY <2>7, <1>10, <1>6
    <3>2. CASE Has(stored, d)
      BY <3>1, <3>2, <2>4, <2>6, <2>7 DEF Has
    <3>3. CASE Removed(stored, d, now)
      <4>1. d.time < e.time
        BY <3>1, <3>3 DEF Removed
      <4> QED
        BY <4>1, <3>1, <2>4
    <3> QED
      BY <3>2, <3>3, <1>3
  <2>8. c \in LedgerMatch(n, t)
    BY <2>4, <2>5, <2>6, <2>7, <1>8
  <2>9. c \in StoredContexts(s)
    BY <2>2, <2>3, <1>1, StoredContextsAre
  <2>10. ParametersAt(stored, c) = e.settings
    BY <2>2, <2>3, <1>3, <1>4, ParametersIs
  <2> QED
    BY <2>5, <2>8, <2>9, <2>10
<1>12. ASSUME NEW c \in LedgerMatch(n, t), c \in StoredContexts(s) PROVE c \in BestMatch(stored, n, t)
  <2>1. /\ c \in DOMAIN ledger /\ c.name \in names /\ c.time <= t
        /\ \A d \in DOMAIN ledger : d.name \in names /\ d.time <= t => d.time <= c.time
    BY <1>8
  <2>2. PICK m \in DOMAIN stored : \E e \in ToSet(stored[m]) : c = At(m, e)
    BY <1>12, <1>1, StoredContextsAre
  <2>3. PICK e \in ToSet(stored[m]) : c = At(m, e)
    BY <2>2
  <2>4. c.name = m /\ c.time = e.time /\ e.time \in Nat
    BY <2>3, <1>3, <1>4, EntryTimes
  <2>5. ASSUME NEW f \in ToSet(stored[m]), f.time <= t PROVE f.time <= e.time
    <3>1. At(m, f) \in DOMAIN ledger
      BY <1>3 DEF Recorded
    <3>2. At(m, f).name = m /\ At(m, f).time = f.time
      BY <1>3, <1>4, EntryTimes
    <3> QED
      BY <3>1, <3>2, <2>1, <2>4, <2>5
  <2>6. IsLatest(stored, m, t, e)
    BY <2>1, <2>4, <2>5 DEF IsLatest
  <2> QED
    BY <2>1, <2>3, <2>4, <2>6, <1>9
<1>13. ASSUME t >= now, NEW c \in LedgerMatch(n, t), c \notin StoredContexts(s) PROVE Expired(c, now)
  <2>1. /\ c \in DOMAIN ledger /\ c.name \in names /\ c.time <= t
        /\ \A d \in DOMAIN ledger : d.name \in names /\ d.time <= t => d.time <= c.time
    BY <1>8
  <2>2. c \in Ctx /\ c.name \in DOMAIN stored /\ c.time \in Nat
    BY <2>1, <1>6
  <2>3. ~Has(stored, c)
    BY <2>2, <1>1, <1>13, HasIs
  <2>4. Removed(stored, c, now)
    BY <2>1, <2>3, <1>3
  <2>5. ASSUME NEW e \in ToSet(stored[c.name]), c.time < e.time, e.time <= now PROVE FALSE
    <3>1. PICK m : m = c.name /\ m \in DOMAIN stored
      BY <2>2
    <3>2. At(m, e) \in DOMAIN ledger /\ At(m, e).name = m /\ At(m, e).time = e.time /\ e.time \in Nat
      <4>1. At(m, e) \in DOMAIN ledger
        BY <3>1, <1>3, Zenon DEF Recorded
      <4>2. At(m, e).name = m /\ At(m, e).time = e.time /\ e.time \in Nat
        BY <3>1, <1>3, <1>4, EntryTimes
      <4> QED
        BY <4>1, <4>2
    <3>3. e.time <= t
      BY <2>5, <3>2, <1>4, <1>13
    <3>4. e.time <= c.time
      BY <3>1, <3>2, <3>3, <2>1
    <3> QED
      BY <3>2, <3>4, <2>2, <2>5
  <2> QED
    BY <2>4, <2>5 DEF Removed
<1>14. BestMatch(stored, n, t) = LedgerMatch(n, t) \cap StoredContexts(s)
  BY <1>11, <1>12
<1> QED
  BY <1>1, <1>11, <1>13, <1>14

-----------------------------------------------------------------------------
(* Storing *)

(* As time goes on what is missing is missing rightly still.               *)
LEMMA KeptLater ==
    ASSUME SettingsConstants, expiry \in Nat \cup {Never}, NEW stored, NEW led,
           NEW old \in Nat, NEW at \in Nat, old <= at, RightlyKept(stored, led, old)
    PROVE  RightlyKept(stored, led, at)
<1>1. \A c \in DOMAIN led : Removed(stored, c, old) => Removed(stored, c, at)
  <2> SUFFICES ASSUME NEW c \in DOMAIN led, Removed(stored, c, old) PROVE Removed(stored, c, at)
    OBVIOUS
  <2>1. c \in Ctx /\ c.name \in DOMAIN stored /\ StoredRight(stored)
    BY DEF RightlyKept, Recorded
  <2>2. MaxTime \in Nat
    BY DEF SettingsConstants
  <2>3. c.time \in Nat
    BY <2>1, <2>2 DEF Ctx
  <2>4. Expired(c, old) => Expired(c, at)
    BY <2>3, ExpiresSooner
  <2>5. \A e \in ToSet(stored[c.name]) : e.time \in Nat /\ (e.time <= old => e.time <= at)
    <3>1. \A e \in ToSet(stored[c.name]) : e.time \in Nat
      BY <2>1, <2>2, EntryTimes
    <3> QED
      BY <3>1
  <2>6. PICK S : S = ToSet(stored[c.name])
    OBVIOUS
  <2> QED
    BY <2>4, <2>5, <2>6 DEF Removed
<1> QED
  BY <1>1 DEF RightlyKept

(* What addStoredParameters() makes of the entries                         *)
InsertedRight(stored, ctx, E, new) ==
    /\ StoredRight(new) /\ DOMAIN new = DOMAIN stored \cup {ctx.name}
    /\ \A m \in DOMAIN stored : m # ctx.name => new[m] = stored[m]
    /\ ToSet(new[ctx.name]) = {E} \cup (IF ctx.name \in DOMAIN stored THEN ToSet(stored[ctx.name]) ELSE {})

(* addStoredParameters() adds the entry, in its place.                     *)
LEMMA InsertedIs ==
    ASSUME SettingsConstants, NEW stored, StoredRight(stored), NEW ctx \in Ctx, ctx.time \in Times,
           ~Has(stored, ctx), NEW S \in [Params -> Values], NEW new, new = Inserted(stored, ctx, S),
           NEW E, E = [time |-> ctx.time, settings |-> S]
    PROVE  InsertedRight(stored, ctx, E, new)
<1>1. PICK n \in Names : n = ctx.name
  BY DEF Ctx
<1>2. PICK e \in Entry : e = [time |-> ctx.time, settings |-> S]
  BY DEF Entry, Times
<1>3. PICK v : v = IF n \in DOMAIN stored THEN stored[n] ELSE <<>>
  OBVIOUS
<1>4. v \in Seq(Entry) /\ Strict(v) /\ ToSet(v) = IF n \in DOMAIN stored THEN ToSet(stored[n]) ELSE {}
  <2>1. CASE n \in DOMAIN stored
    BY <1>3, <2>1, StoredIs
  <2>2. CASE n \notin DOMAIN stored
    <3>1. v = <<>>
      BY <1>3, <2>2
    <3> QED
      BY <3>1, <2>2 DEF Strict, ToSet
  <2> QED
    BY <2>1, <2>2
<1>5. PICK w : w = InsertAt(v, Cardinality({k \in DOMAIN v : v[k].time < e.time}) + 1, e)
  OBVIOUS
<1>6. \A f \in ToSet(v) : f.time # e.time
  <2>1. e.time = ctx.time
    BY <1>2
  <2> QED
    BY <2>1, <1>1, <1>4 DEF Has
<1>7. w \in Seq(Entry) /\ Strict(w) /\ ToSet(w) = ToSet(v) \cup {e}
  <2>1. MaxTime \in Nat
    BY DEF SettingsConstants
  <2> QED
    BY <2>1, <1>4, <1>5, <1>6, Inserting
<1>8. new = Over([m \in {n} |-> w], stored)
  <2>1. e.time = ctx.time
    BY <1>2
  <2>2. w = InsertAt(v, Cardinality({k \in DOMAIN v : v[k].time < ctx.time}) + 1, e)
    BY <2>1, <1>5, Zenon
  <2> QED
    BY <2>2, <1>1, <1>2, <1>3, Zenon DEF Inserted
<1>9. /\ DOMAIN new = DOMAIN stored \cup {n} /\ new[n] = w
      /\ \A m \in DOMAIN stored : m # n => new[m] = stored[m]
  BY <1>8 DEF Over
<1>10. StoredRight(new)
  <2>1. /\ DOMAIN stored \subseteq Names /\ \A m \in DOMAIN stored : stored[m] \in Seq(Entry) /\ Strict(stored[m])
    BY StoredIs, PartialIs DEF StoredRight
  <2>2. \A m \in DOMAIN new : new[m] \in Seq(Entry) /\ Strict(new[m])
    BY <2>1, <1>7, <1>9
  <2>3. new = [m \in DOMAIN new |-> new[m]]
    BY <1>8 DEF Over
  <2>4. DOMAIN new \subseteq Names /\ new \in [DOMAIN new -> Seq(Entry)]
    BY <2>1, <2>2, <2>3, <1>9
  <2> QED
    BY <2>2, <2>4, PartialIs DEF StoredRight
<1> QED
  BY <1>1, <1>2, <1>4, <1>7, <1>9, <1>10 DEF InsertedRight

(* One more context                                                        *)
Adding(f, ctx, S) == Over([c \in {ctx} |-> S], f)

(* What removeExpiredStoredParameters() leaves of all names                *)
AllRest(stored, at) == [m \in DOMAIN stored |-> Rest(stored[m], at)]

(* A new entry is stored, and what is outdated then removed: all entries   *)
(* that are missing are missing rightly, the new one, if it is, too.       *)
LEMMA StoringKeeps ==
    ASSUME SettingsConstants, expiry \in Nat \cup {Never}, NEW stored, NEW led,
           NEW old \in Nat, NEW at \in Nat, old <= at, RightlyKept(stored, led, old),
           NEW ctx \in Ctx, ctx.time \in Times, ctx \notin DOMAIN led, NEW S \in [Params -> Values],
           NEW new, new = Inserted(stored, ctx, S), NEW kept, kept = AllRest(new, at),
           NEW led2, led2 = Adding(led, ctx, S)
    PROVE  RightlyKept(kept, led2, at)
<1>1. MaxTime \in Nat
  BY DEF SettingsConstants
<1>2. /\ StoredRight(stored) /\ Recorded(stored, led) /\ DOMAIN led \subseteq Ctx
      /\ DOMAIN stored = {c.name : c \in DOMAIN led}
      /\ \A m \in DOMAIN stored : \A e \in ToSet(stored[m]) :
            At(m, e) \in DOMAIN led /\ led[At(m, e)] = e.settings
      /\ \A c \in DOMAIN led : Has(stored, c) \/ Removed(stored, c, old)
  BY DEF RightlyKept, Recorded
<1>3. \A c \in Ctx : c.time \in Nat
  BY <1>1 DEF Ctx
<1>4. ASSUME Has(stored, ctx) PROVE FALSE
  <2>1. PICK e \in ToSet(stored[ctx.name]) : ctx.name \in DOMAIN stored /\ e.time = ctx.time
    BY <1>4 DEF Has
  <2>2. At(ctx.name, e) \in DOMAIN led
    BY <2>1, <1>2
  <2>3. At(ctx.name, e) = ctx
    BY <2>1 DEF At, Ctx
  <2> QED
    BY <2>2, <2>3
<1>5. PICK E : E = [time |-> ctx.time, settings |-> S]
  OBVIOUS
<1>6. /\ StoredRight(new) /\ DOMAIN new = DOMAIN stored \cup {ctx.name}
      /\ \A m \in DOMAIN stored : m # ctx.name => new[m] = stored[m]
      /\ ToSet(new[ctx.name]) = {E} \cup (IF ctx.name \in DOMAIN stored THEN ToSet(stored[ctx.name]) ELSE {})
  <2>1. ~Has(stored, ctx) /\ StoredRight(stored)
    BY <1>2, <1>4
  <2>2. InsertedRight(stored, ctx, E, new)
    BY <2>1, <1>5, InsertedIs
  <2> QED
    BY <2>2, Zenon DEF InsertedRight
<1>7. ASSUME NEW m \in DOMAIN new, NEW e
      PROVE  e \in ToSet(new[m]) <=>
                (m = ctx.name /\ e = E) \/ (m \in DOMAIN stored /\ e \in ToSet(stored[m]))
  <2>1. CASE m = ctx.name
    BY <2>1, <1>6
  <2>2. CASE m # ctx.name
    BY <2>2, <1>6
  <2> QED
    BY <2>1, <2>2
<1>8. kept = [m \in DOMAIN new |-> Rest(new[m], at)]
  BY DEF AllRest
<1>9. \A m \in DOMAIN new : RestRight(new[m], kept[m], at)
  <2> TAKE m \in DOMAIN new
  <2>1. RestRight(new[m], Rest(new[m], at), at)
    BY <1>1, <1>6, StoredIs, Resting
  <2> QED
    BY <2>1, <1>8
<1>10. DOMAIN kept = DOMAIN new /\ StoredRight(kept)
  <2>1. \A m \in DOMAIN new : kept[m] \in Seq(Entry) /\ Strict(kept[m])
    BY <1>9 DEF RestRight
  <2>2. DOMAIN new \subseteq Names
    BY <1>6, StoredIs
  <2>3. DOMAIN kept = DOMAIN new /\ kept \in [DOMAIN kept -> Seq(Entry)]
    BY <2>1, <1>8
  <2> QED
    BY <2>1, <2>2, <2>3, PartialIs DEF StoredRight
<1>11. led2 = Over([c \in {ctx} |-> S], led)
  BY DEF Adding
<1>12. /\ DOMAIN led2 = DOMAIN led \cup {ctx} /\ led2[ctx] = S
       /\ \A c \in DOMAIN led : led2[c] = led[c]
  BY <1>11 DEF Over
<1>13. \A m \in DOMAIN kept : \A e \in ToSet(kept[m]) : e \in ToSet(new[m])
  BY <1>9, <1>10 DEF RestRight
<1>14. Recorded(kept, led2)
  <2>1. ASSUME NEW m \in DOMAIN new, NEW e \in ToSet(new[m]) PROVE At(m, e) \in DOMAIN led2 /\ led2[At(m, e)] = e.settings
    <3>1. CASE m = ctx.name /\ e = E
      <4>1. At(m, e) = ctx /\ e.settings = S
        BY <3>1, <1>5 DEF At, Ctx
      <4> QED
        BY <4>1, <1>12
    <3>2. CASE m \in DOMAIN stored /\ e \in ToSet(stored[m])
      BY <3>2, <1>2, <1>12
    <3> QED
      BY <3>1, <3>2, <1>7
  <2>2. DOMAIN kept = {c.name : c \in DOMAIN led2}
    BY <1>2, <1>6, <1>10, <1>12
  <2>3. DOMAIN led2 \subseteq Ctx
    BY <1>2, <1>12
  <2> QED
    BY <2>1, <2>2, <2>3, <1>8, <1>10, <1>13 DEF Recorded
<1>15. ASSUME NEW c \in DOMAIN led2, ~Has(kept, c) PROVE Removed(kept, c, at)
  <2>1. PICK m \in DOMAIN new : m = c.name
    BY <1>2, <1>6, <1>12
  <2>2. c \in Ctx /\ c.time \in Nat
    BY <1>2, <1>3, <1>12
  <2>3. PICK v : v = new[m]
    OBVIOUS
  <2>4. PICK w : w = kept[m]
    OBVIOUS
  <2>5. /\ ToSet(w) \subseteq ToSet(v)
        /\ \A e \in ToSet(w) : ~Expired(e, at)
        /\ \A e, d \in ToSet(w) : ~ (e.time < d.time /\ d.time <= at)
        /\ \A e \in ToSet(v) \ ToSet(w) : Expired(e, at) \/ \E d \in ToSet(w) : e.time < d.time /\ d.time <= at
        /\ \A e \in ToSet(v) \ ToSet(w) : \A d \in ToSet(w) : e.time < d.time
    BY <2>3, <2>4, <1>9, Zenon DEF RestRight
  <2>6. \A e \in ToSet(v) : e.time \in Nat
    BY <2>3, <1>1, <1>6, EntryTimes
  <2>7. \A e \in ToSet(w) : e.time # c.time
    BY <2>1, <2>4, <1>10, <1>15 DEF Has
  <2>8. SUFFICES /\ \A d \in ToSet(w) : c.time < d.time
                 /\ Expired(c, at) \/ \E d \in ToSet(w) : c.time < d.time /\ d.time <= at
    BY <2>1, <2>4, Zenon DEF Removed
  <2>9. CASE \E e \in ToSet(v) : e.time = c.time
    <3>1. PICK e \in ToSet(v) : e.time = c.time
      BY <2>9
    <3>2. e \in ToSet(v) \ ToSet(w)
      BY <3>1, <2>7
    <3>3. Expired(e, at) => Expired(c, at)
      BY <3>1, Zenon DEF Expired
    <3>4. \A d \in ToSet(w) : e.time < d.time
      BY <3>2, <2>5, Zenon
    <3>5. Expired(e, at) \/ \E d \in ToSet(w) : e.time < d.time /\ d.time <= at
      BY <3>2, <2>5, Zenon
    <3> QED
      BY <3>1, <3>3, <3>4, <3>5, Zenon
  <2>10. CASE ~ \E e \in ToSet(v) : e.time = c.time
    <3>1. c # ctx
      <4>1. E.time = ctx.time
        BY <1>5
      <4>2. c = ctx => E \in ToSet(v)
        BY <2>1, <2>3, <1>7
      <4> QED
        BY <4>1, <4>2, <2>10
    <3>2. c \in DOMAIN led /\ m \in DOMAIN stored
      BY <3>1, <2>1, <1>2, <1>12
    <3>3. ~Has(stored, c)
      <4>1. \A e \in ToSet(stored[m]) : e \in ToSet(v)
        BY <3>2, <2>3, <1>7
      <4> QED
        BY <4>1, <2>1, <2>10 DEF Has
    <3>4. PICK u : u = ToSet(stored[m])
      OBVIOUS
    <3>5. /\ \A e \in u : c.time < e.time
          /\ Expired(c, old) \/ \E e \in u : c.time < e.time /\ e.time <= old
      <4>1. Removed(stored, c, old)
        BY <3>2, <3>3, <1>2
      <4> QED
        BY <4>1, <3>4, <2>1, Zenon DEF Removed
    <3>6. u \subseteq ToSet(v) /\ \A d \in ToSet(v) : d \in u \/ (m = ctx.name /\ d = E)
      BY <3>2, <3>4, <2>3, <1>7
    <3>7. Expired(c, old) => Expired(c, at)
      BY <2>2, ExpiresSooner
    <3>8. ASSUME NEW d \in ToSet(w) PROVE c.time < d.time
      <4>1. CASE d \in u
        BY <4>1, <3>5
      <4>2. CASE m = ctx.name /\ d = E
        <5> SUFFICES ASSUME d.time < c.time PROVE FALSE
          BY <2>5, <2>6, <2>2, <2>7
        <5>1. d.time \in Nat
          BY <2>5, <2>6
        <5>2. CASE Expired(c, old)
          <6>1. Expired(d, at)
            BY <5>1, <5>2, <2>2, ExpiresSooner
          <6> QED
            BY <6>1, <2>5
        <5>3. CASE \E e \in u : c.time < e.time /\ e.time <= old
          <6>1. PICK e \in u : c.time < e.time /\ e.time <= old
            BY <5>3
          <6>2. e \in ToSet(v) /\ e.time \in Nat
            BY <3>6, <2>6
          <6>3. d.time < e.time /\ e.time <= at /\ ~ (e.time < d.time)
            BY <6>1, <6>2, <5>1, <2>2
          <6>4. e \notin ToSet(w)
            BY <6>3, <2>5
          <6>5. e.time < d.time
            BY <6>2, <6>4, <2>5
          <6> QED
            BY <6>3, <6>5
        <5> QED
          BY <5>2, <5>3, <3>5
      <4> QED
        BY <4>1, <4>2, <3>6, <2>5
    <3>9. Expired(c, at) \/ \E d \in ToSet(w) : c.time < d.time /\ d.time <= at
      <4>1. CASE Expired(c, old)
        BY <4>1, <3>7
      <4>2. CASE \E e \in u : c.time < e.time /\ e.time <= old
        <5>1. PICK e \in u : c.time < e.time /\ e.time <= old
          BY <4>2
        <5>2. e \in ToSet(v) /\ e.time \in Nat /\ e.time <= at
          <6>1. e \in ToSet(v) /\ e.time \in Nat
            BY <3>6, <2>6
          <6> QED
            BY <6>1, <5>1
        <5>3. CASE e \in ToSet(w)
          BY <5>1, <5>2, <5>3
        <5>4. CASE Expired(e, at)
          <6>1. Expired(c, at)
            BY <5>1, <5>2, <5>4, <2>2, ExpiresSooner
          <6> QED
            BY <6>1
        <5>5. CASE \E d \in ToSet(w) : e.time < d.time /\ d.time <= at
          <6>1. PICK d \in ToSet(w) : e.time < d.time /\ d.time <= at
            BY <5>5
          <6>2. d.time \in Nat
            BY <2>5, <2>6
          <6>3. c.time < d.time
            BY <6>1, <6>2, <5>1, <5>2, <2>2
          <6> QED
            BY <6>1, <6>3
        <5> QED
          BY <5>2, <5>3, <5>4, <5>5, <2>5
      <4> QED
        BY <4>1, <4>2, <3>5
    <3> QED
      BY <3>8, <3>9
  <2> QED
    BY <2>9, <2>10
<1> QED
  BY <1>10, <1>11, <1>14, <1>15 DEF RightlyKept

(* One entry of a name is removed, and what had been removed of that name  *)
(* before is forgotten.                                                    *)
Without(stored, led, at, n, K, new) ==
    /\ RightlyKept(new, Restrict(led, {c \in DOMAIN led : c \in K}), at)
    /\ DOMAIN new \subseteq DOMAIN stored /\ DOMAIN stored \ {n} \subseteq DOMAIN new
    /\ \A m \in DOMAIN new : ToSet(new[m]) \subseteq ToSet(stored[m])
    /\ \A m \in DOMAIN new : m # n => new[m] = stored[m]

(* removeContext(): the name goes with its last entry.                     *)
LEMMA RemovingKeeps ==
    ASSUME SettingsConstants, NEW stored, NEW led, NEW at \in Nat, RightlyKept(stored, led, at),
           NEW n \in DOMAIN stored, NEW i \in DOMAIN stored[n], NEW w, w = RemoveAt(stored[n], i),
           NEW new, new = IF w = <<>> THEN Restrict(stored, DOMAIN stored \ {n}) ELSE [stored EXCEPT ![n] = w],
           NEW K, \A c \in DOMAIN led : c \in K <=> c.name # n \/ Has(new, c)
    PROVE  Without(stored, led, at, n, K, new)
<1>1. MaxTime \in Nat
  BY DEF SettingsConstants
<1>2. /\ StoredRight(stored) /\ DOMAIN led \subseteq Ctx
      /\ DOMAIN stored = {c.name : c \in DOMAIN led}
      /\ \A m \in DOMAIN stored : \A e \in ToSet(stored[m]) :
            At(m, e) \in DOMAIN led /\ led[At(m, e)] = e.settings
      /\ \A c \in DOMAIN led : Has(stored, c) \/ Removed(stored, c, at)
  BY DEF RightlyKept, Recorded
<1>3. \A m \in DOMAIN stored : m \in Names /\ stored[m] \in Seq(Entry) /\ Strict(stored[m])
  BY <1>2, StoredIs
<1>4. w \in Seq(Entry) /\ Strict(w) /\ ToSet(w) = ToSet(stored[n]) \ {stored[n][i]}
  <2>1. PICK v : v = stored[n] /\ v \in Seq(Entry) /\ Strict(v)
    BY <1>3
  <2>2. i \in 1..Len(v)
    BY <2>1, Elements
  <2>3. w = RemoveAt(v, i)
    BY <2>1
  <2> QED
    BY <2>1, <2>2, <2>3, <1>1, Removing
<1>5. /\ DOMAIN new = IF w = <<>> THEN DOMAIN stored \ {n} ELSE DOMAIN stored
      /\ \A m \in DOMAIN new : new[m] = IF m = n THEN w ELSE stored[m]
      /\ new = [m \in DOMAIN new |-> new[m]]
  <2>1. CASE w = <<>>
    BY <2>1 DEF Restrict
  <2>2. CASE w # <<>>
    BY <2>2
  <2> QED
    BY <2>1, <2>2
<1>6. \A m \in DOMAIN new : m \in DOMAIN stored /\ ToSet(new[m]) \subseteq ToSet(stored[m])
  BY <1>4, <1>5
<1>7. StoredRight(new)
  <2>1. \A m \in DOMAIN new : m \in Names /\ new[m] \in Seq(Entry) /\ Strict(new[m])
    BY <1>3, <1>4, <1>5
  <2>2. DOMAIN new \subseteq Names /\ new \in [DOMAIN new -> Seq(Entry)]
    BY <2>1, <1>5
  <2> QED
    BY <2>1, <2>2, PartialIs DEF StoredRight
<1>8. PICK led2 : led2 = Restrict(led, {c \in DOMAIN led : c \in K})
  OBVIOUS
<1>9. /\ \A c : c \in DOMAIN led2 <=> c \in DOMAIN led /\ (c.name # n \/ Has(new, c))
      /\ \A c \in DOMAIN led2 : led2[c] = led[c]
  BY <1>8 DEF Restrict
<1>10. \A m \in DOMAIN new : \A e \in ToSet(new[m]) : At(m, e) \in DOMAIN led2 /\ led2[At(m, e)] = e.settings
  <2> TAKE m \in DOMAIN new
  <2> TAKE e \in ToSet(new[m])
  <2>1. At(m, e) \in DOMAIN led /\ led[At(m, e)] = e.settings
    BY <1>2, <1>6
  <2>2. At(m, e).name = m /\ At(m, e).time = e.time
    BY DEF At
  <2>3. Has(new, At(m, e))
    BY <2>2, Zenon DEF Has
  <2> QED
    BY <2>1, <2>3, <1>9
<1>11. DOMAIN new = {c.name : c \in DOMAIN led2}
  <2>1. ASSUME NEW m \in DOMAIN new PROVE \E c \in DOMAIN led2 : c.name = m
    <3>1. CASE m # n
      BY <3>1, <1>2, <1>6, <1>9
    <3>2. CASE m = n
      <4>1. w # <<>> /\ new[m] = w
        BY <3>2, <1>5
      <4>2. w[1] \in ToSet(new[m])
        <5>1. Len(w) # 0 /\ Len(w) \in Nat
          BY <4>1, <1>4, EmptySeq, LenProperties
        <5>2. 1 \in 1..Len(w)
          BY <5>1
        <5> QED
          BY <5>2, <4>1, <1>4, Elements
      <4>3. At(m, w[1]) \in DOMAIN led2 /\ At(m, w[1]).name = m
        BY <4>2, <1>10 DEF At
      <4> QED
        BY <4>3
    <3> QED
      BY <3>1, <3>2
  <2>2. ASSUME NEW c \in DOMAIN led2 PROVE c.name \in DOMAIN new
    <3>1. CASE Has(new, c)
      BY <3>1 DEF Has
    <3>2. CASE c.name # n
      <4>1. c \in DOMAIN led
        BY <1>9
      <4>2. c.name \in DOMAIN stored \ {n}
        BY <4>1, <3>2, <1>2
      <4> QED
        BY <4>2, <1>5
    <3> QED
      BY <3>1, <3>2, <1>9
  <2> QED
    BY <2>1, <2>2
<1>12. \A c \in DOMAIN led2 : Has(new, c) \/ Removed(new, c, at)
  <2> SUFFICES ASSUME NEW c \in DOMAIN led2, c.name # n PROVE Has(new, c) \/ Removed(new, c, at)
    BY <1>9
  <2>1. c \in DOMAIN led /\ c.name \in DOMAIN new /\ new[c.name] = stored[c.name]
    BY <1>2, <1>5, <1>9
  <2>2. Has(stored, c) => Has(new, c)
    BY <2>1, Zenon DEF Has
  <2>3. Removed(stored, c, at) => Removed(new, c, at)
    BY <2>1, Zenon DEF Removed
  <2> QED
    BY <2>1, <2>2, <2>3, <1>2
<1>13. Recorded(new, led2)
  <2>1. DOMAIN led2 \subseteq Ctx
    BY <1>2, <1>9
  <2> QED
    BY <2>1, <1>10, <1>11 DEF Recorded
<1> QED
  BY <1>4, <1>5, <1>6, <1>7, <1>8, <1>12, <1>13 DEF RightlyKept, Without

(* There is one best match at most, and it is stored.                      *)
LEMMA MatchOne ==
    ASSUME SettingsConstants, NEW stored, StoredRight(stored), NEW n \in Names, NEW t \in Nat
    PROVE  /\ \A c \in BestMatch(stored, n, t) : c \in Ctx /\ c.time \in Times /\ c.time <= t /\ Has(stored, c)
           /\ \A c, d \in BestMatch(stored, n, t) : c = d
           /\ n \in DOMAIN stored => \A c \in BestMatch(stored, n, t) : c.name = n
<1>1. MaxTime \in Nat /\ Fallbacks \in [Names -> Seq(Names)]
  BY DEF SettingsConstants
<1>2. PICK names : names = BestName(stored, n) /\ names \subseteq DOMAIN stored /\ \A k, m \in names : k = m
  BY <1>1, BestNameIs
<1>3. \A c : c \in BestMatch(stored, n, t) <=>
        \E m \in names : \E e \in ToSet(stored[m]) : c = At(m, e) /\ IsLatest(stored, m, t, e)
  BY <1>1, <1>2, BestMatchIs
<1>4. ASSUME NEW c \in BestMatch(stored, n, t)
      PROVE  c \in Ctx /\ c.time \in Times /\ c.time <= t /\ Has(stored, c)
  <2>1. PICK m \in names : \E e \in ToSet(stored[m]) : c = At(m, e) /\ IsLatest(stored, m, t, e)
    BY <1>3
  <2>2. PICK e \in ToSet(stored[m]) : c = At(m, e) /\ IsLatest(stored, m, t, e)
    BY <2>1
  <2>3. m \in DOMAIN stored
    BY <1>2
  <2>4. c \in Ctx /\ c.name = m /\ c.time = e.time /\ e.time \in Times
    BY <2>2, <2>3, <1>1, EntryTimes
  <2>5. e.time <= t
    BY <2>2 DEF IsLatest
  <2>6. Has(stored, c)
    BY <2>3, <2>4, Zenon DEF Has
  <2> QED
    BY <2>4, <2>5, <2>6
<1>5. ASSUME NEW c \in BestMatch(stored, n, t), NEW d \in BestMatch(stored, n, t) PROVE c = d
  <2>1. PICK m \in names : \E e \in ToSet(stored[m]) : c = At(m, e) /\ IsLatest(stored, m, t, e)
    BY <1>3
  <2>2. PICK e \in ToSet(stored[m]) : c = At(m, e) /\ IsLatest(stored, m, t, e)
    BY <2>1
  <2>3. PICK k \in names : \E f \in ToSet(stored[k]) : d = At(k, f) /\ IsLatest(stored, k, t, f)
    BY <1>3
  <2>4. PICK f \in ToSet(stored[k]) : d = At(k, f) /\ IsLatest(stored, k, t, f)
    BY <2>3
  <2>5. k = m /\ m \in DOMAIN stored
    BY <1>2
  <2>6. e.time \in Nat /\ f.time \in Nat
    BY <2>2, <2>4, <2>5, <1>1, EntryTimes
  <2>7. e.time <= f.time /\ f.time <= e.time
    BY <2>2, <2>4, <2>5 DEF IsLatest
  <2>8. e.time = f.time
    BY <2>6, <2>7
  <2> QED
    BY <2>2, <2>4, <2>5, <2>8 DEF At
<1>6. ASSUME n \in DOMAIN stored, NEW c \in BestMatch(stored, n, t) PROVE c.name = n
  <2>1. names = {n}
    BY <1>2, <1>6, Zenon DEF BestName
  <2>2. PICK m \in names : \E e \in ToSet(stored[m]) : c = At(m, e)
    BY <1>3
  <2> QED
    BY <2>1, <2>2 DEF At
<1> QED
  BY <1>4, <1>5, <1>6

(* A context that is stored is its own best match.                         *)
LEMMA MatchOfStored ==
    ASSUME SettingsConstants, NEW stored, StoredRight(stored), NEW c \in Ctx, Has(stored, c)
    PROVE  BestMatch(stored, c.name, c.time) = {c}
<1>1. MaxTime \in Nat /\ Fallbacks \in [Names -> Seq(Names)] /\ c.name \in Names
  BY DEF SettingsConstants, Ctx
<1>2. c.time \in Nat
  BY <1>1 DEF Ctx
<1>3. PICK e \in ToSet(stored[c.name]) : e.time = c.time
  BY Zenon DEF Has
<1>4. c.name \in DOMAIN stored /\ c = At(c.name, e)
  BY <1>3 DEF Has, At, Ctx
<1>5. BestName(stored, c.name) = {c.name}
  BY <1>4, Zenon DEF BestName
<1>6. IsLatest(stored, c.name, c.time, e)
  <2>1. \A f \in ToSet(stored[c.name]) : f.time <= c.time => f.time <= e.time
    BY <1>3
  <2>2. e.time <= c.time
    BY <1>2, <1>3
  <2> QED
    BY <2>1, <2>2, Zenon DEF IsLatest
<1>7. c \in BestMatch(stored, c.name, c.time)
  <2>1. BestName(stored, c.name) \subseteq DOMAIN stored
    BY <1>4, <1>5
  <2> QED
    BY <2>1, <1>1, <1>2, <1>4, <1>5, <1>6, BestMatchIs
<1> QED
  BY <1>1, <1>2, <1>7, MatchOne

(* The fields of CtxSettingsBase                                           *)
LEMMA StoreIs ==
    ASSUME NEW st
    PROVE  st \in Store <=>
             /\ st = [stored |-> st.stored, auto |-> st.auto, active |-> st.active,
                      staged |-> st.staged, changed |-> st.changed]
             /\ st.stored \in Partial(Names, Seq(Entry)) /\ st.auto \in Partial(Ctx, SUBSET Params)
             /\ st.active \in Ctx /\ st.staged \in Partial(Params, Values) /\ st.changed \in BOOLEAN
<1>1. PICK A, B, C, D : /\ A = Partial(Names, Seq(Entry)) /\ B = Partial(Ctx, SUBSET Params)
                        /\ C = Ctx /\ D = Partial(Params, Values)
  OBVIOUS
<1>2. Store = [stored : A, auto : B, active : C, staged : D, changed : BOOLEAN]
  BY <1>1, Zenon DEF Store
<1>3. st \in [stored : A, auto : B, active : C, staged : D, changed : BOOLEAN] <=>
        /\ st = [stored |-> st.stored, auto |-> st.auto, active |-> st.active,
                 staged |-> st.staged, changed |-> st.changed]
        /\ st.stored \in A /\ st.auto \in B /\ st.active \in C /\ st.staged \in D /\ st.changed \in BOOLEAN
  OBVIOUS
<1> QED
  BY <1>1, <1>2, <1>3, Zenon

(* removeExpiredStoredParameters() keeps what is kept of each name, and    *)
(* with what is kept its auto-update sets, unless entries expire.          *)
ExpiredRight(st, at, new) ==
    /\ new.stored = [m \in DOMAIN st.stored |-> Rest(st.stored[m], at)]
    /\ new.auto \in Partial(Ctx, SUBSET Params)
    /\ DOMAIN new.auto \subseteq DOMAIN st.auto /\ \A c \in DOMAIN new.auto : new.auto[c] = st.auto[c]
    /\ expiry = Never => \A c \in DOMAIN st.auto : Has(new.stored, c) => c \in DOMAIN new.auto
    /\ new.active = st.active /\ new.staged = st.staged /\ new.changed = st.changed
    /\ new = [stored |-> new.stored, auto |-> new.auto, active |-> new.active,
              staged |-> new.staged, changed |-> new.changed]

(* What removeExpiredStoredParameters() does to all of the settings        *)
LEMMA RemoveExpiredIs ==
    ASSUME SettingsConstants, expiry \in Nat \cup {Never}, NEW st \in Store, StoredRight(st.stored),
           NEW at \in Nat, NEW new, new = RemoveExpired(st, at)
    PROVE  ExpiredRight(st, at, new)
<1>1. MaxTime \in Nat
  BY DEF SettingsConstants
<1> DEFINE left(m)  == Unexpired(st.stored[m], at)
           first(m) == FirstKept(left(m), at)
           gone(m)  == TailContexts(m, st.stored[m], at)
                         \cup {[name |-> m, time |-> left(m)[i].time] : i \in 1..first(m) - 1}
<1>2. PICK dropped : dropped = UNION {gone(m) : m \in DOMAIN st.stored}
  OBVIOUS
<1>3. PICK kept : kept = [m \in DOMAIN st.stored |-> Rest(st.stored[m], at)]
  OBVIOUS
<1>4. PICK auto : auto = Restrict(st.auto, DOMAIN st.auto \ dropped)
  OBVIOUS
<1>5. new = [st EXCEPT !.stored = kept, !.auto = auto]
  BY <1>2, <1>3, <1>4, Zenon DEF RemoveExpired, Rest
<1>6. /\ st = [stored |-> st.stored, auto |-> st.auto, active |-> st.active,
               staged |-> st.staged, changed |-> st.changed]
      /\ st.auto \in Partial(Ctx, SUBSET Params)
  BY StoreIs
<1> HIDE DEF gone
<1>7. /\ new.stored = kept /\ new.auto = auto /\ new.active = st.active /\ new.staged = st.staged
      /\ new.changed = st.changed
      /\ new = [stored |-> new.stored, auto |-> new.auto, active |-> new.active,
                staged |-> new.staged, changed |-> new.changed]
  BY <1>5, <1>6
<1>8. /\ DOMAIN auto = DOMAIN st.auto \ dropped /\ \A c \in DOMAIN auto : auto[c] = st.auto[c]
      /\ auto = [c \in DOMAIN auto |-> auto[c]]
  BY <1>4 DEF Restrict
<1>9. auto \in Partial(Ctx, SUBSET Params)
  <2>1. DOMAIN st.auto \subseteq Ctx /\ st.auto \in [DOMAIN st.auto -> SUBSET Params]
    BY <1>6, PartialIs
  <2>2. DOMAIN auto \subseteq Ctx /\ auto \in [DOMAIN auto -> SUBSET Params]
    BY <2>1, <1>8
  <2> QED
    BY <2>2, PartialIs
<1>10. ASSUME expiry = Never, NEW c \in DOMAIN st.auto, Has(kept, c) PROVE c \notin dropped
  <2> SUFFICES ASSUME NEW m \in DOMAIN st.stored, c \in gone(m) PROVE FALSE
    BY <1>2
  <2>1. PICK v : v = st.stored[m] /\ v \in Seq(Entry) /\ Strict(v)
    BY StoredIs
  <2>2. PICK n \in Nat : n = Len(v) /\ DOMAIN v = 1..n /\ \A j \in 1..n : v[j] \in Entry
    BY <2>1, Elements
  <2>3. left(m) = v
    BY <2>1, <1>1, <1>10, Expiring
  <2>4. TailContexts(m, v, at) = {}
    <3>1. Len(v) - Len(Unexpired(v, at)) = 0
      BY <2>1, <2>2, <2>3
    <3>2. Len(v) - 0 + 1 .. Len(v) = {}
      BY <2>2
    <3> QED
      BY <3>1, <3>2 DEF TailContexts
  <2>5. PICK k : k = FirstKept(v, at)
    OBVIOUS
  <2>6. k \in 1..n + 1
    BY <2>1, <2>2, <2>5, <1>1, FirstKeptIs
  <2>7. PICK i \in 1..k - 1 : c = [name |-> m, time |-> v[i].time]
    BY <2>1, <2>3, <2>4, <2>5 DEF gone
  <2>8. ToSet(kept[m]) = {v[j] : j \in k..n}
    <3>1. kept[m] = SubSeq(v, k, n)
      BY <2>1, <2>2, <2>3, <2>5, <1>3 DEF Rest
    <3> QED
      BY <3>1, <2>1, <2>2, <2>6, Ends
  <2>9. c.name = m /\ c.time = v[i].time
    BY <2>7
  <2>10. PICK j \in k..n : v[j].time = v[i].time
    BY <2>8, <2>9, <1>10 DEF Has
  <2>11. i \in 1..n /\ j \in 1..n /\ i < j
    BY <2>6
  <2>12. v[i].time < v[j].time /\ v[i].time \in Nat /\ v[j].time \in Nat
    <3>1. v[i].time < v[j].time
      BY <2>1, <2>2, <2>11 DEF Strict
    <3>2. \A e \in Entry : e.time \in Nat
      BY <1>1 DEF Entry
    <3> QED
      BY <3>1, <3>2, <2>2, <2>11
  <2> QED
    BY <2>10, <2>12
<1> QED
  BY <1>3, <1>7, <1>8, <1>9, <1>10 DEF ExpiredRight

-----------------------------------------------------------------------------
(* What tags may change *)

(* The set of a context that is stored is its own, or all parameters.      *)
LEMMA AutoOfStored ==
    ASSUME SettingsConstants, NEW st, StoredRight(st.stored), NEW c \in Ctx,
           c \in DOMAIN st.auto \/ Has(st.stored, c)
    PROVE  AutoOf(st, c) = IF c \in DOMAIN st.auto THEN st.auto[c] ELSE Params
<1> DEFINE known == (IF c \in DOMAIN st.auto THEN {c} ELSE BestMatch(st.stored, c.name, c.time)) \cap DOMAIN st.auto
<1>1. AutoOf(st, c) = IF known = {} THEN Params ELSE st.auto[CHOOSE x \in known : TRUE]
  BY Zenon DEF AutoOf
<1>2. CASE c \in DOMAIN st.auto
  <2>1. known = {c}
    BY <1>2
  <2>2. (CHOOSE x \in {c} : TRUE) = c
    OBVIOUS
  <2> QED
    BY <2>1, <2>2, <1>1, <1>2
<1>3. CASE c \notin DOMAIN st.auto
  <2>1. BestMatch(st.stored, c.name, c.time) = {c}
    BY <1>3, MatchOfStored
  <2>2. known = {}
    BY <2>1, <1>3
  <2> QED
    BY <2>2, <1>1, <1>3
<1> QED
  BY <1>2, <1>3

(* Whatever the context, it is a set of parameters.                        *)
LEMMA AutoOfType ==
    ASSUME SettingsConstants, NEW st, st.auto \in Partial(Ctx, SUBSET Params), NEW c
    PROVE  AutoOf(st, c) \subseteq Params
<1> DEFINE known == (IF c \in DOMAIN st.auto THEN {c} ELSE BestMatch(st.stored, c.name, c.time)) \cap DOMAIN st.auto
<1>1. AutoOf(st, c) = IF known = {} THEN Params ELSE st.auto[CHOOSE x \in known : TRUE]
  BY Zenon DEF AutoOf
<1>2. known # {} => (CHOOSE x \in known : TRUE) \in DOMAIN st.auto
  <2>1. known # {} => (CHOOSE x \in known : TRUE) \in known
    BY Zenon
  <2> QED
    BY <2>1
<1>3. \A x \in DOMAIN st.auto : st.auto[x] \subseteq Params
  BY PartialIs
<1> QED
  BY <1>1, <1>2, <1>3

(* A context that has no set yet inherits that of its best match: without  *)
(* what was set by hand for that.                                          *)
Inherits(st, c, hand, match) ==
    /\ Params \ AutoOf(st, c) \subseteq UNION {hand[d] : d \in match}
    /\ expiry = Never => AutoOf(st, c) \cap UNION {hand[d] : d \in match} = {}

(* The auto-update set of a context that has none: that of its best match  *)
LEMMA AutoOfNewContext ==
    ASSUME SettingsConstants, NEW st, StoredRight(st.stored), st.auto \in Partial(Ctx, SUBSET Params), NEW hand,
           AutoRight(st.stored, st.auto, hand), NEW c \in Ctx, c \notin DOMAIN st.auto,
           NEW match, match = BestMatch(st.stored, c.name, c.time)
    PROVE  Inherits(st, c, hand, match)
<1> DEFINE known == (IF c \in DOMAIN st.auto THEN {c} ELSE BestMatch(st.stored, c.name, c.time)) \cap DOMAIN st.auto
<1>1. AutoOf(st, c) = IF known = {} THEN Params ELSE st.auto[CHOOSE x \in known : TRUE]
  BY Zenon DEF AutoOf
<1>2. known = match \cap DOMAIN st.auto
  OBVIOUS
<1> HIDE DEF known
<1>3. c.name \in Names /\ c.time \in Nat
  BY DEF Ctx, SettingsConstants
<1>4. \A d \in match : d \in Ctx /\ Has(st.stored, d) /\ \A e \in match : d = e
  BY <1>3, MatchOne
<1>5. CASE match = {}
  BY <1>2, <1>1, <1>5 DEF Inherits
<1>6. CASE match # {}
  <2>1. PICK d \in match : match = {d}
    BY <1>4, <1>6
  <2>2. UNION {hand[x] : x \in match} = hand[d]
    BY <2>1
  <2>3. /\ d \in DOMAIN st.auto => Params \ st.auto[d] \subseteq hand[d]
        /\ expiry = Never => d \in DOMAIN st.auto /\ st.auto[d] \cap hand[d] = {}
    BY <1>4 DEF AutoRight
  <2>4. CASE d \in DOMAIN st.auto
    <3>1. known = {d}
      BY <2>1, <2>4, <1>2
    <3>2. (CHOOSE x \in {d} : TRUE) = d
      OBVIOUS
    <3>3. AutoOf(st, c) = st.auto[d]
      BY <3>1, <3>2, <1>1
    <3> QED
      BY <3>3, <2>2, <2>3, <2>4 DEF Inherits
  <2>5. CASE d \notin DOMAIN st.auto
    <3>1. known = {}
      BY <2>1, <2>5, <1>2
    <3>2. AutoOf(st, c) = Params
      BY <3>1, <1>1
    <3> QED
      BY <3>2, <2>3, <2>5 DEF Inherits
  <2> QED
    BY <2>4, <2>5
<1> QED
  BY <1>5, <1>6

(* An entry that is made for a context changes nothing, but makes a set    *)
(* that was dropped one of all parameters.                                 *)
LEMMA AutoStays ==
    ASSUME SettingsConstants, NEW st, StoredRight(st.stored), st.auto \in Partial(Ctx, SUBSET Params), NEW hand,
           AutoRight(st.stored, st.auto, hand), NEW c \in Ctx, NEW auto, auto = Over([x \in {c} |-> AutoOf(st, c)], st.auto)
    PROVE  auto \in Partial(Ctx, SUBSET Params) /\ AutoRight(st.stored, auto, hand)
<1>1. DOMAIN st.auto \subseteq Ctx /\ st.auto \in [DOMAIN st.auto -> SUBSET Params]
  BY PartialIs
<1>2. PICK A \in SUBSET Params : A = AutoOf(st, c)
  BY AutoOfType
<1>3. /\ DOMAIN auto = DOMAIN st.auto \cup {c} /\ auto[c] = A
      /\ \A d \in DOMAIN st.auto : d # c => auto[d] = st.auto[d]
      /\ auto = [d \in DOMAIN auto |-> auto[d]]
  BY <1>2 DEF Over
<1>4. auto \in Partial(Ctx, SUBSET Params)
  <2>1. DOMAIN auto \subseteq Ctx /\ auto \in [DOMAIN auto -> SUBSET Params]
    BY <1>1, <1>2, <1>3
  <2> QED
    BY <2>1, PartialIs
<1>5. ASSUME NEW d \in Ctx, Has(st.stored, d)
      PROVE  /\ d \in DOMAIN auto => Params \ auto[d] \subseteq hand[d]
             /\ expiry = Never => d \in DOMAIN auto /\ auto[d] \cap hand[d] = {}
  <2>1. /\ d \in DOMAIN st.auto => Params \ st.auto[d] \subseteq hand[d]
        /\ expiry = Never => d \in DOMAIN st.auto /\ st.auto[d] \cap hand[d] = {}
    BY <1>5, Zenon DEF AutoRight
  <2>2. d = c => A = IF d \in DOMAIN st.auto THEN st.auto[d] ELSE Params
    BY <1>2, <1>5, AutoOfStored
  <2>3. d \in DOMAIN st.auto => d \in DOMAIN auto /\ auto[d] = st.auto[d]
    BY <2>2, <1>3
  <2>4. d \notin DOMAIN st.auto /\ d \in DOMAIN auto => Params \ auto[d] = {}
    BY <2>2, <1>3
  <2> QED
    BY <2>1, <2>3, <2>4, <1>3
<1> QED
  BY <1>4, <1>5 DEF AutoRight

(* What is stored no longer needs no set.                                  *)
LEMMA AutoOfLess ==
    ASSUME NEW stored, NEW new, NEW auto, NEW hand, AutoRight(stored, auto, hand),
           \A m \in DOMAIN new : m \in DOMAIN stored /\ ToSet(new[m]) \subseteq ToSet(stored[m])
    PROVE  AutoRight(new, auto, hand)
<1>1. \A c : Has(new, c) => Has(stored, c)
  <2> SUFFICES ASSUME NEW c, Has(new, c) PROVE Has(stored, c)
    OBVIOUS
  <2>1. PICK e \in ToSet(new[c.name]) : e.time = c.time
    BY DEF Has
  <2>2. c.name \in DOMAIN new
    BY DEF Has
  <2>3. c.name \in DOMAIN stored /\ e \in ToSet(stored[c.name])
    BY <2>1, <2>2
  <2> QED
    BY <2>1, <2>3, Zenon DEF Has
<1> QED
  BY <1>1, Zenon DEF AutoRight

-----------------------------------------------------------------------------
(* Staging *)

(* What is stored has the parameters that the ledger says.                 *)
Known(stored, led) ==
    \A m \in DOMAIN stored : \A e \in ToSet(stored[m]) : At(m, e) \in DOMAIN led /\ led[At(m, e)] = e.settings

(* The parameters of a stored context are those the history knows.         *)
LEMMA ParametersKnown ==
    ASSUME SettingsConstants, NEW stored, StoredRight(stored), NEW led, Known(stored, led),
           NEW c \in Ctx, Has(stored, c)
    PROVE  c \in DOMAIN led /\ ParametersAt(stored, c) = led[c] /\ led[c] \in [Params -> Values]
<1>1. MaxTime \in Nat
  BY DEF SettingsConstants
<1>2. PICK m : m = c.name /\ m \in DOMAIN stored
  BY DEF Has
<1>3. PICK e \in ToSet(stored[m]) : e.time = c.time
  BY <1>2 DEF Has
<1>4. c = At(m, e)
  BY <1>2, <1>3 DEF At, Ctx
<1>5. c \in DOMAIN led /\ led[c] = e.settings
  BY <1>2, <1>4 DEF Known
<1>6. ParametersAt(stored, c) = e.settings
  BY <1>1, <1>2, <1>4, ParametersIs
<1>7. e.settings \in [Params -> Values]
  BY <1>1, <1>2, EntryTimes
<1> QED
  BY <1>5, <1>6, <1>7

(* doSetStagedImpl()                                                       *)
LEMMA StageIs ==
    ASSUME NEW st \in Store, NEW params \in Partial(Params, Values), NEW new, new = Stage(st, params)
    PROVE  /\ new \in Store /\ new.stored = st.stored /\ new.auto = st.auto /\ new.active = st.active
           /\ new.staged = Over(params, st.staged)
           /\ new.changed = (st.changed \/ DOMAIN new.staged # {})
<1>1. PICK staged : staged = Over(params, st.staged)
  OBVIOUS
<1>2. new = [st EXCEPT !.staged = staged, !.changed = @ \/ DOMAIN staged # {}]
  BY <1>1, Zenon DEF Stage
<1>3. staged \in Partial(Params, Values)
  BY <1>1, StoreIs, OverIs
<1>4. /\ st = [stored |-> st.stored, auto |-> st.auto, active |-> st.active,
               staged |-> st.staged, changed |-> st.changed]
      /\ st.changed \in BOOLEAN
  BY StoreIs
<1>5. PICK b \in BOOLEAN : b = (st.changed \/ DOMAIN staged # {})
  OBVIOUS
<1>6. /\ new.stored = st.stored /\ new.auto = st.auto /\ new.active = st.active
      /\ new.staged = staged /\ new.changed = b
      /\ new = [stored |-> new.stored, auto |-> new.auto, active |-> new.active,
                staged |-> new.staged, changed |-> new.changed]
  <2>1. new = [st EXCEPT !.staged = staged, !.changed = b]
    BY <1>2, <1>5
  <2> QED
    BY <2>1, <1>4
<1>7. new \in Store
  <2>1. /\ st.stored \in Partial(Names, Seq(Entry)) /\ st.auto \in Partial(Ctx, SUBSET Params) /\ st.active \in Ctx
    BY StoreIs
  <2> QED
    BY <2>1, <1>3, <1>6, StoreIs, Zenon
<1> QED
  BY <1>1, <1>5, <1>6, <1>7

(* The parameters that a switch of the context stages, see RecordSwitch    *)
SwitchStages(old, active, led, hand) ==
    IF old.active = active \/ active \notin DOMAIN led THEN {}
    ELSE IF old.active.name = active.name THEN hand[active]
    ELSE Params \ DOMAIN old.staged

(* What activateContext() makes of the settings st: it leaves alone what is *)
(* stored and what it does not stage, and tells work() when it switches.   *)
Switched(st, new, led, hand) ==
    LET stages == SwitchStages(st, new.active, led, hand)
    IN  /\ new \in Store /\ new.stored = st.stored
        /\ AutoRight(new.stored, new.auto, hand)
        /\ new.active = st.active => new = st
        /\ new.active # st.active => new.changed = TRUE /\ new.active \in DOMAIN led
        /\ stages \subseteq Params
        /\ \A p \in Params \ stages : /\ p \in DOMAIN new.staged <=> p \in DOMAIN st.staged
                                      /\ p \in DOMAIN st.staged => new.staged[p] = st.staged[p]
        /\ expiry = Never =>
              \A p \in stages : p \in DOMAIN new.staged /\ new.staged[p] = led[new.active][p]

(* It does nothing when nothing matches.                                   *)
Activated(st, new, match) == (match = {} => new = st) /\ \A c \in match : new.active = c

(* activateContext() makes the best match the active context and stages    *)
(* what it decides: all parameters, or those that were set by hand.        *)
LEMMA Switching ==
    ASSUME SettingsConstants, NEW led, NEW hand, NEW st \in Store, StoredRight(st.stored), Known(st.stored, led),
           AutoRight(st.stored, st.auto, hand),
           hand \in Partial(Ctx, SUBSET Params), DOMAIN led \subseteq DOMAIN hand,
           NEW n \in Names, NEW t \in Nat, NEW new, new = ActivateContext(st, n, t)
    PROVE  Switched(st, new, led, hand) /\ Activated(st, new, BestMatch(st.stored, n, t))
<1> DEFINE match == BestMatch(st.stored, n, t)
           best == CHOOSE c \in match : TRUE
<1>1. match = BestMatch(st.stored, n, t)
  OBVIOUS
<1>2. best = CHOOSE c \in match : TRUE
  OBVIOUS
<1>3. new = IF match = {} \/ match = {st.active} THEN st
            ELSE IF best.name = st.active.name THEN ActivateSameName(st, best)
            ELSE ActivateOtherName(st, best)
  BY Zenon DEF ActivateContext
<1> HIDE DEF match, best
<1>4. /\ \A c \in match : c \in Ctx /\ Has(st.stored, c)
      /\ \A c, d \in match : c = d
  BY <1>1, MatchOne
<1>5. /\ st = [stored |-> st.stored, auto |-> st.auto, active |-> st.active,
               staged |-> st.staged, changed |-> st.changed]
      /\ st.stored \in Partial(Names, Seq(Entry)) /\ st.auto \in Partial(Ctx, SUBSET Params)
      /\ st.active \in Ctx /\ st.staged \in Partial(Params, Values) /\ st.changed \in BOOLEAN
  BY StoreIs
<1>6. DOMAIN st.staged \subseteq Params /\ st.staged \in [DOMAIN st.staged -> Values]
  BY <1>5, PartialIs
<1>7. ASSUME new = st PROVE Switched(st, new, led, hand)
  <2>1. SwitchStages(st, new.active, led, hand) = {}
    BY <1>7 DEF SwitchStages
  <2> QED
    BY <2>1, <1>7 DEF Switched
<1>8. CASE match = {} \/ match = {st.active}
  <2>1. new = st
    BY <1>3, <1>8
  <2> QED
    BY <2>1, <1>1, <1>7, <1>8 DEF Activated
<1>9. CASE ~ (match = {} \/ match = {st.active})
  <2>1. best \in match /\ match = {best} /\ best # st.active
    <3>1. best \in match
      BY <1>2, <1>9, Zenon
    <3>2. match = {best}
      BY <3>1, <1>4
    <3> QED
      BY <3>1, <3>2, <1>9
  <2>2. best \in Ctx /\ Has(st.stored, best)
    BY <2>1, <1>4
  <2>3. PICK P : P = ParametersAt(st.stored, best)
    OBVIOUS
  <2>4. best \in DOMAIN led /\ P = led[best] /\ P \in [Params -> Values]
    BY <2>2, <2>3, ParametersKnown
  <2>5. hand[best] \subseteq Params
    BY <2>4, PartialIs
  <2>6. PICK A \in SUBSET Params : A = AutoOf(st, best)
    BY <1>5, AutoOfType
  <2>7. /\ Params \ A \subseteq hand[best]
        /\ expiry = Never => A \cap hand[best] = {}
    <3>1. A = IF best \in DOMAIN st.auto THEN st.auto[best] ELSE Params
      BY <2>2, <2>6, AutoOfStored
    <3>2. /\ best \in DOMAIN st.auto => Params \ st.auto[best] \subseteq hand[best]
          /\ expiry = Never => best \in DOMAIN st.auto /\ st.auto[best] \cap hand[best] = {}
      BY <2>2, Zenon DEF AutoRight
    <3> QED
      BY <3>1, <3>2
  <2>8. CASE best.name = st.active.name
    <3>1. new = ActivateSameName(st, best)
      BY <2>8, <1>3, <1>9
    <3>2. PICK manual : manual = Restrict(P, Params \ A)
      OBVIOUS
    <3>3. PICK auto : auto = Over([c \in {best} |-> A], st.auto)
      OBVIOUS
    <3>4. PICK mid : mid = Stage(st, manual)
      OBVIOUS
    <3>5. new = [mid EXCEPT !.auto = auto, !.active = best, !.changed = TRUE]
      BY <3>1, <3>2, <3>3, <3>4, <2>3, <2>6, Zenon DEF ActivateSameName
    <3>6. DOMAIN manual = Params \ A /\ \A p \in Params \ A : manual[p] = led[best][p]
      BY <3>2, <2>4 DEF Restrict
    <3>7. manual \in Partial(Params, Values)
      <4>1. manual = [p \in Params \ A |-> P[p]]
        BY <3>2 DEF Restrict
      <4>2. DOMAIN manual \subseteq Params /\ manual \in [DOMAIN manual -> Values]
        BY <4>1, <2>4
      <4> QED
        BY <4>2, PartialIs
    <3>8. /\ mid \in Store /\ mid.stored = st.stored /\ mid.staged = Over(manual, st.staged)
      BY <3>4, <3>7, StageIs
    <3>9. /\ mid = [stored |-> mid.stored, auto |-> mid.auto, active |-> mid.active,
                    staged |-> mid.staged, changed |-> mid.changed]
          /\ mid.staged \in Partial(Params, Values)
      BY <3>8, StoreIs
    <3>10. /\ new.stored = st.stored /\ new.auto = auto /\ new.active = best
           /\ new.staged = Over(manual, st.staged) /\ new.changed = TRUE
           /\ new = [stored |-> new.stored, auto |-> new.auto, active |-> new.active,
                     staged |-> new.staged, changed |-> new.changed]
      BY <3>5, <3>8, <3>9
    <3>11. auto \in Partial(Ctx, SUBSET Params) /\ AutoRight(st.stored, auto, hand)
      BY <3>3, <2>2, <2>6, <1>5, AutoStays
    <3>12. new \in Store
      <4>1. new.staged \in Partial(Params, Values)
        BY <3>8, <3>9, <3>10
      <4> QED
        BY <4>1, <3>10, <3>11, <2>2, <1>5, StoreIs, Zenon
    <3>13. SwitchStages(st, new.active, led, hand) = hand[best]
      BY <3>10, <2>1, <2>4, <2>8 DEF SwitchStages
    <3>14. /\ DOMAIN new.staged = (Params \ A) \cup DOMAIN st.staged
           /\ \A p \in DOMAIN new.staged : new.staged[p] = IF p \in Params \ A THEN led[best][p] ELSE st.staged[p]
      BY <3>6, <3>10 DEF Over
    <3>15. ASSUME NEW p \in Params \ hand[best]
           PROVE  /\ p \in DOMAIN new.staged <=> p \in DOMAIN st.staged
                  /\ p \in DOMAIN st.staged => new.staged[p] = st.staged[p]
      <4>1. p \notin Params \ A
        BY <2>7
      <4> QED
        BY <4>1, <3>14
    <3>16. expiry = Never => \A p \in hand[best] : p \in DOMAIN new.staged /\ new.staged[p] = led[best][p]
      BY <3>14, <2>5, <2>7
    <3>17. Switched(st, new, led, hand)
      BY <3>10, <3>11, <3>12, <3>13, <3>15, <3>16, <2>1, <2>4, <2>5 DEF Switched
    <3> QED
      BY <3>10, <3>17, <2>1, <1>1 DEF Activated
  <2>9. CASE best.name # st.active.name
    <3>1. new = ActivateOtherName(st, best)
      BY <2>9, <1>3, <1>9
    <3>2. PICK staged : staged = Over(st.staged, P)
      OBVIOUS
    <3>3. new = [st EXCEPT !.staged = staged, !.active = best, !.changed = TRUE]
      BY <3>1, <3>2, <2>3, Zenon DEF ActivateOtherName
    <3>4. /\ new.stored = st.stored /\ new.auto = st.auto /\ new.active = best
          /\ new.staged = staged /\ new.changed = TRUE
          /\ new = [stored |-> new.stored, auto |-> new.auto, active |-> new.active,
                    staged |-> new.staged, changed |-> new.changed]
      BY <3>3, <1>5
    <3>5. staged \in Partial(Params, Values)
      <4>1. P \in Partial(Params, Values)
        BY <2>4, PartialIs
      <4> QED
        BY <4>1, <3>2, <1>5, OverIs
    <3>6. new \in Store
      BY <3>4, <3>5, <2>2, <1>5, StoreIs, Zenon
    <3>7. SwitchStages(st, new.active, led, hand) = Params \ DOMAIN st.staged
      BY <3>4, <2>1, <2>4, <2>9 DEF SwitchStages
    <3>8. /\ DOMAIN new.staged = Params
          /\ \A p \in Params : new.staged[p] = IF p \in DOMAIN st.staged THEN st.staged[p] ELSE led[best][p]
      BY <3>2, <3>4, <2>4, <1>6 DEF Over
    <3>9. Switched(st, new, led, hand)
      BY <3>4, <3>6, <3>7, <3>8, <2>1, <2>4 DEF Switched
    <3> QED
      BY <3>4, <3>9, <2>1, <1>1 DEF Activated
  <2> QED
    BY <2>8, <2>9
<1> QED
  BY <1>8, <1>9

-----------------------------------------------------------------------------
(* Steps *)

(* What is staged for a client goes on: it stays, becomes the value of the *)
(* block, or is staged again by somebody.                                  *)
Carried ==
    \A p \in Params \ raced : origin[p] = "client" /\ p \in DOMAIN s.staged =>
        \/ p \in DOMAIN s'.staged /\ s'.staged[p] = s.staged[p]
        \/ p \notin DOMAIN s'.staged /\ live'[p] = s.staged[p]
        \/ origin'[p] # "client"
        \/ calls' # calls /\ phase' = phase /\ s'.active = s.active

(* What was set by hand for the active context is not forgotten.           *)
HandStays == expiry = Never /\ phase' = "tagged" => byHand'[s'.active] = byHand[s'.active]

(* What is proved of every step                                            *)
StepRight == IInv' /\ Carried /\ HandStays

(* Whether an entry has expired depends on expiry_time, which stays.       *)
LEMMA KeptNext ==
    ASSUME expiry' = expiry, RightlyKept(s'.stored, ledger', now')
    PROVE  StoreInv'
<1>1. \A c : Expired(c, now)' <=> Expired(c, now')
  BY DEF Expired
<1>2. \A c : Removed(s.stored, c, now)' <=> Removed(s'.stored, c, now')
  BY <1>1, Zenon DEF Removed
<1> QED
  BY <1>2, Zenon DEF StoreInv, RightlyKept

(* And so does whether an auto-update set has to be there.                 *)
LEMMA AutoNext ==
    ASSUME expiry' = expiry, AutoRight(s'.stored, s'.auto, byHand')
    PROVE  AutoInv'
BY Zenon DEF AutoInv, AutoRight

(* A step that leaves what is stored alone                                 *)
LEMMA StoreUnchanged ==
    ASSUME StoreInv, AutoInv, s'.stored = s.stored, s'.auto = s.auto, UNCHANGED <<now, expiry, ledger, byHand>>
    PROVE  StoreInv' /\ AutoInv' /\ StoredContexts(s)' = StoredContexts(s)
<1>1. StoreInv'
  BY KeptNext DEF StoreInv
<1>2. AutoInv'
  BY AutoNext DEF AutoInv
<1>3. StoredContexts(s)' = StoredContexts(s)
  BY DEF StoredContexts
<1> QED
  BY <1>1, <1>2, <1>3

(* A step of work() that changes only where work() is                      *)
LEMMA PhaseStep ==
    ASSUME SettingsConstants, IInv, UNCHANGED <<work, s, live, origin, raced>>,
           phase' \in {"idle", "decide", "chunk", "input", "finish", "apply"},
           back' \in {"idle", "decide", "input", "finish"}, pending' \in Partial(Params, Values)
    PROVE  StepRight
<1>1. UNCHANGED <<now, defaults, expiry, calls, ledger, byHand, target, tagged, s, live, origin, raced>>
  BY DEF work
<1>2. Typed'
  BY <1>1 DEF IInv, Typed
<1>3. StoreInv' /\ AutoInv' /\ StoredContexts(s)' = StoredContexts(s)
  BY <1>1, StoreUnchanged DEF IInv
<1>4. SwitchInv'
  BY <1>1 DEF IInv, SwitchInv, InForce
<1>5. ClientInv'
  BY <1>1 DEF IInv, ClientInv
<1>6. ManualInv'
  BY <1>1 DEF IInv, ManualInv
<1>7. Carried /\ HandStays
  BY <1>1 DEF Carried, HandStays
<1> QED
  BY <1>2, <1>3, <1>4, <1>5, <1>6, <1>7 DEF StepRight, IInv

(* A step of applyStagedParameters(), which may change what is staged      *)
LEMMA Unsetting ==
    ASSUME IInv, NEW st \in Store, UNCHANGED <<work, live, back, pending, origin, raced>>, s' = st,
           st.stored = s.stored, st.auto = s.auto, st.active = s.active,
           phase' \in {"idle", "decide", "input", "finish", "applied", "cleared", "published"}
    PROVE  Typed' /\ StoreInv' /\ AutoInv' /\ ManualInv' /\ HandStays
<1>1. UNCHANGED <<now, defaults, expiry, calls, ledger, byHand, target, tagged, live, back, pending, origin, raced>>
  BY DEF work
<1>2. Typed'
  BY <1>1 DEF IInv, Typed
<1>3. StoreInv' /\ AutoInv'
  BY <1>1, StoreUnchanged DEF IInv
<1>4. ManualInv'
  BY <1>1 DEF IInv, ManualInv
<1>5. HandStays
  BY <1>1 DEF HandStays
<1> QED
  BY <1>2, <1>3, <1>4, <1>5

(* Fields of a record that is changed                                      *)
Staging(st, staged, changed) == [st EXCEPT !.staged = staged, !.changed = changed]

(* The types, when only what is staged changes                             *)
LEMMA WithStaged ==
    ASSUME NEW st \in Store, NEW staged \in Partial(Params, Values), NEW changed \in BOOLEAN,
           NEW new, new = Staging(st, staged, changed)
    PROVE  /\ new \in Store /\ new.stored = st.stored /\ new.auto = st.auto /\ new.active = st.active
           /\ new.staged = staged /\ new.changed = changed
<1>1. /\ st = [stored |-> st.stored, auto |-> st.auto, active |-> st.active,
               staged |-> st.staged, changed |-> st.changed]
      /\ st.stored \in Partial(Names, Seq(Entry)) /\ st.auto \in Partial(Ctx, SUBSET Params)
      /\ st.active \in Ctx
  BY StoreIs
<1>2. /\ new.stored = st.stored /\ new.auto = st.auto /\ new.active = st.active
      /\ new.staged = staged /\ new.changed = changed
      /\ new = [stored |-> new.stored, auto |-> new.auto, active |-> new.active,
                staged |-> new.staged, changed |-> new.changed]
  BY <1>1 DEF Staging
<1> QED
  BY <1>1, <1>2, StoreIs, Zenon

(* Nothing is staged when nothing is.                                      *)
LEMMA NothingIs == Nothing \in Partial(Params, Values) /\ DOMAIN Nothing = {}
<1>1. DOMAIN Nothing \subseteq Params /\ Nothing \in [DOMAIN Nothing -> Values]
  BY DEF Nothing
<1> QED
  BY <1>1, PartialIs DEF Nothing

(* applyStagedParameters() while it holds the mutex                        *)
LEMMA ApplyStep ==
    ASSUME SettingsConstants, IInv, Apply
    PROVE  StepRight
<1>1. /\ UNCHANGED <<now, defaults, expiry, calls, ledger, byHand, target, tagged, s, back, origin, raced>>
      /\ phase = "apply" /\ phase' = "applied"
      /\ live' = Over(s.staged, live)
      /\ pending' = IF back = "decide" THEN Restrict(s.staged, DOMAIN s.staged \cap Forwarded) ELSE pending
  BY DEF Apply, work
<1>2. s.staged \in Partial(Params, Values) /\ live \in [Params -> Values] /\ pending \in Partial(Params, Values)
  BY StoreIs DEF IInv, Typed
<1>3. /\ live' \in [Params -> Values]
      /\ \A p \in Params : live'[p] = IF p \in DOMAIN s.staged THEN s.staged[p] ELSE live[p]
  <2>1. DOMAIN s.staged \subseteq Params
    BY <1>2, PartialIs
  <2> QED
    BY <2>1, <1>1, <1>2, OverTotal DEF Over
<1>4. pending' \in Partial(Params, Values)
  BY <1>1, <1>2, RestrictIs
<1>5. Typed'
  BY <1>1, <1>3, <1>4 DEF IInv, Typed
<1>6. StoreInv' /\ AutoInv'
  BY <1>1, StoreUnchanged DEF IInv
<1>7. SwitchInv'
  BY <1>1, <1>3 DEF IInv, SwitchInv, InForce
<1>8. ClientInv'
  BY <1>1, <1>3 DEF IInv, ClientInv
<1>9. ManualInv' /\ HandStays /\ Carried
  BY <1>1 DEF IInv, ManualInv, HandStays, Carried
<1> QED
  BY <1>5, <1>6, <1>7, <1>8, <1>9 DEF StepRight, IInv

(* _stagedParameters.clear(), when all of it is applied                    *)
LEMMA ClearStep ==
    ASSUME SettingsConstants, IInv, Clear
    PROVE  StepRight
<1>1. /\ UNCHANGED <<now, defaults, expiry, calls, ledger, byHand, target, tagged, live, back, pending, origin, raced>>
      /\ phase = "applied" /\ phase' = "cleared"
      /\ s' = [s EXCEPT !.staged = Nothing]
  BY DEF Clear, work
<1>2. s \in Store /\ s.changed \in BOOLEAN
  BY StoreIs DEF IInv, Typed
<1>3. s' = Staging(s, Nothing, s.changed)
  BY <1>1, <1>2, StoreIs DEF Staging
<1>4. /\ s' \in Store /\ s'.stored = s.stored /\ s'.auto = s.auto /\ s'.active = s.active
      /\ DOMAIN s'.staged = {} /\ s'.changed = s.changed
  BY <1>2, <1>3, NothingIs, WithStaged
<1>5. Typed' /\ StoreInv' /\ AutoInv' /\ ManualInv' /\ HandStays
  BY <1>1, <1>4, Unsetting DEF Clear
<1>6. SwitchInv'
  BY <1>1, <1>4 DEF IInv, SwitchInv, InForce
<1>7. ClientInv' /\ Carried
  BY <1>1, <1>4 DEF IInv, ClientInv, Carried
<1> QED
  BY <1>5, <1>6, <1>7 DEF StepRight, IInv

(* _changed becomes false, when nothing that a client waits for is staged. *)
LEMMA UnsetStep ==
    ASSUME SettingsConstants, IInv, Unset \/ UnsetAgain
    PROVE  StepRight
<1>1. /\ UNCHANGED <<now, defaults, expiry, calls, ledger, byHand, target, tagged, live, back, pending, origin, raced>>
      /\ UNCHANGED <<work, live, back, pending, origin, raced>>
      /\ phase \in {"cleared", "published"}
      /\ phase' \in {"idle", "decide", "input", "finish", "published"}
      /\ s' = [s EXCEPT !.changed = FALSE]
  BY DEF Unset, UnsetAgain, work, IInv, Typed
<1>2. s \in Store /\ s.staged \in Partial(Params, Values)
  BY StoreIs DEF IInv, Typed
<1>3. PICK b \in BOOLEAN : b = FALSE /\ s' = Staging(s, s.staged, b)
  BY <1>1, <1>2, StoreIs DEF Staging
<1>4. /\ s' \in Store /\ s'.stored = s.stored /\ s'.auto = s.auto /\ s'.active = s.active
      /\ s'.staged = s.staged /\ s'.changed = FALSE
  BY <1>2, <1>3, WithStaged
<1>5. Typed' /\ StoreInv' /\ AutoInv' /\ ManualInv' /\ HandStays
  BY <1>1, <1>4, Unsetting
<1>6. SwitchInv'
  BY <1>1, <1>4 DEF IInv, SwitchInv, InForce
<1>7. ClientInv' /\ Carried
  BY <1>1, <1>4 DEF IInv, ClientInv, Carried
<1> QED
  BY <1>5, <1>6, <1>7 DEF StepRight, IInv

(* The other steps of work() look only at whether anything is staged.      *)
LEMMA BeginStep ==
    ASSUME SettingsConstants, IInv, BeginWork \/ BeginChunk \/ EndTags \/ Chunk \/ Finish
    PROVE  StepRight
<1>1. pending \in Partial(Params, Values) /\ back \in {"idle", "decide", "input", "finish"}
  BY DEF IInv, Typed
<1>2. CASE BeginWork \/ BeginChunk \/ EndTags
  <2>1. /\ UNCHANGED <<work, s, live, origin, raced>> /\ pending' = pending
        /\ phase' \in {"idle", "decide", "chunk", "input", "finish", "apply"}
        /\ back' \in {"idle", "decide", "input", "finish"}
    BY <1>2 DEF BeginWork, BeginChunk, EndTags, Applies
  <2> QED
    BY <2>1, <1>1, PhaseStep
<1>3. CASE Chunk
  <2>1. /\ UNCHANGED <<work, s, live, origin, raced>> /\ pending' = pending /\ back' = back
        /\ phase' \in {"idle", "decide", "chunk", "input", "finish", "apply"}
    BY <1>3 DEF Chunk
  <2> QED
    BY <2>1, <1>1, PhaseStep
<1>4. CASE Finish
  <2>1. /\ UNCHANGED <<work, s, live, origin, raced>> /\ pending' = Nothing /\ back' = back
        /\ phase' \in {"idle", "decide", "chunk", "input", "finish", "apply"}
    BY <1>4 DEF Finish
  <2> QED
    BY <2>1, <1>1, NothingIs, PhaseStep
<1> QED
  BY <1>2, <1>3, <1>4

(* Staging again what a call of work() without a chunk holds               *)
LEMMA NoChunkStep ==
    ASSUME SettingsConstants, IInv, NoChunk
    PROVE  StepRight
<1>1. /\ UNCHANGED <<now, defaults, expiry, calls, ledger, byHand, target, tagged, live, back, raced>>
      /\ phase = "decide" /\ phase' = "idle" /\ pending' = Nothing
      /\ s' = IF DOMAIN pending = {} THEN s ELSE Stage(s, pending)
      /\ origin' = [p \in Params |-> IF p \in DOMAIN pending THEN "resend" ELSE origin[p]]
  BY DEF NoChunk, work
<1>2. /\ s \in Store /\ s.staged \in Partial(Params, Values) /\ s.changed \in BOOLEAN
      /\ pending \in Partial(Params, Values) /\ DOMAIN pending \subseteq Params
  BY StoreIs, PartialIs DEF IInv, Typed
<1>3. /\ s' \in Store /\ s'.stored = s.stored /\ s'.auto = s.auto /\ s'.active = s.active
      /\ \A p : p \in DOMAIN s'.staged <=> p \in DOMAIN pending \/ p \in DOMAIN s.staged
      /\ \A p \in DOMAIN s.staged : p \notin DOMAIN pending => s'.staged[p] = s.staged[p]
      /\ s.changed => s'.changed
      /\ ~s'.changed => s' = s
  <2>1. CASE DOMAIN pending = {}
    BY <2>1, <1>1, <1>2
  <2>2. CASE DOMAIN pending # {}
    <3>1. PICK new : new = Stage(s, pending)
      OBVIOUS
    <3>2. /\ new \in Store /\ new.stored = s.stored /\ new.auto = s.auto /\ new.active = s.active
          /\ new.staged = Over(pending, s.staged)
          /\ new.changed = (s.changed \/ DOMAIN new.staged # {})
      BY <3>1, <1>2, StageIs
    <3>3. /\ DOMAIN new.staged = DOMAIN pending \cup DOMAIN s.staged
          /\ \A p \in DOMAIN s.staged : p \notin DOMAIN pending => new.staged[p] = s.staged[p]
      BY <3>2 DEF Over
    <3>4. new.changed
      BY <3>2, <3>3, <2>2
    <3>5. s' = new
      BY <3>1, <2>2, <1>1
    <3> QED
      BY <3>2, <3>3, <3>4, <3>5
  <2> QED
    BY <2>1, <2>2
<1>4. /\ origin' \in [Params -> Origins]
      /\ \A p \in Params : p \notin DOMAIN pending => origin'[p] = origin[p]
      /\ \A p \in DOMAIN pending : origin'[p] = "resend"
  BY <1>1, <1>2 DEF IInv, Typed, Origins
<1>5. Typed'
  BY <1>1, <1>3, <1>4, NothingIs DEF IInv, Typed
<1>6. StoreInv' /\ AutoInv'
  BY <1>1, <1>3, StoreUnchanged DEF IInv
<1>7. SwitchInv'
  <2>1. \A p \in Params : origin'[p] = "context" => origin[p] = "context" /\ p \notin DOMAIN pending
    BY <1>2, <1>4
  <2>2. ~s'.changed => ~s.changed
    BY <1>3
  <2> QED
    BY <2>1, <2>2, <1>1, <1>3, <1>4 DEF IInv, SwitchInv, InForce
<1>8. ClientInv' /\ Carried
  <2>1. \A p \in Params : origin'[p] = "client" => origin[p] = "client" /\ p \notin DOMAIN pending
    BY <1>2, <1>4
  <2> QED
    BY <2>1, <1>1, <1>3, <1>4 DEF IInv, ClientInv, Carried
<1>9. ManualInv' /\ HandStays
  BY <1>1, <1>3 DEF IInv, ManualInv, HandStays
<1> QED
  BY <1>5, <1>6, <1>7, <1>8, <1>9 DEF StepRight, IInv

(* setStaged()                                                             *)
LEMMA SetStagedStep ==
    ASSUME SettingsConstants, IInv, NEW params \in Requests, SetStaged(params)
    PROVE  StepRight
<1>1. /\ UNCHANGED <<now, live, defaults, expiry, phase, back, pending, ledger, byHand, target, tagged>>
      /\ s' = Stage(s, params) /\ calls' = calls + 1
      /\ origin' = [p \in Params |-> IF p \in DOMAIN params THEN "client" ELSE origin[p]]
      /\ raced' = IF Racing THEN raced \cup DOMAIN params ELSE raced \ DOMAIN params
  BY DEF SetStaged, Count
<1>2. /\ s \in Store /\ s.staged \in Partial(Params, Values)
      /\ params \in Partial(Params, Values) /\ DOMAIN params \subseteq Params
  BY StoreIs, PartialIs DEF IInv, Typed, SettingsConstants
<1>3. PICK new : new = Stage(s, params)
  OBVIOUS
<1>4. /\ new \in Store /\ new.stored = s.stored /\ new.auto = s.auto /\ new.active = s.active
      /\ new.staged = Over(params, s.staged)
      /\ new.changed = (s.changed \/ DOMAIN new.staged # {})
  BY <1>2, <1>3, StageIs
<1>5. /\ DOMAIN new.staged = DOMAIN params \cup DOMAIN s.staged
      /\ \A p \in DOMAIN s.staged : p \notin DOMAIN params => new.staged[p] = s.staged[p]
  BY <1>4 DEF Over
<1>6. s' = new
  BY <1>1, <1>3
<1>7. /\ origin' \in [Params -> Origins]
      /\ \A p \in Params : p \notin DOMAIN params => origin'[p] = origin[p]
      /\ \A p \in DOMAIN params : origin'[p] = "client"
  BY <1>1, <1>2 DEF IInv, Typed, Origins
<1>8. Typed'
  <2>1. raced' \in SUBSET Params
    BY <1>1, <1>2 DEF IInv, Typed
  <2> QED
    BY <2>1, <1>1, <1>4, <1>6, <1>7 DEF IInv, Typed
<1>9. StoreInv' /\ AutoInv'
  BY <1>1, <1>4, <1>6, StoreUnchanged DEF IInv
<1>10. SwitchInv'
  <2>1. \A p \in Params : origin'[p] = "context" => origin[p] = "context" /\ p \notin DOMAIN params
    BY <1>2, <1>7
  <2>2. ~new.changed => ~s.changed
    BY <1>4
  <2>3. expiry = Never => \A p \in Params : origin'[p] = "context" =>
              IF p \in DOMAIN new.staged THEN new.staged[p] = target[p] ELSE live[p] = target[p]
    BY <2>1, <1>5 DEF IInv, SwitchInv
  <2>4. expiry = Never /\ (~new.changed \/ phase \in {"applied", "cleared", "published"}) =>
           \A p \in Params : origin'[p] = "context" => live[p] = target[p]
    BY <2>1, <2>2 DEF IInv, SwitchInv, InForce
  <2> QED
    BY <2>3, <2>4, <1>1, <1>6 DEF SwitchInv, InForce
<1>11. ClientInv'
  <2> SUFFICES ASSUME NEW p \in Params, p \notin raced', origin'[p] = "client", p \in DOMAIN new.staged
               PROVE  /\ phase \notin {"cleared", "published"} /\ new.changed
                      /\ phase = "applied" => live[p] = new.staged[p]
    BY <1>1, <1>6 DEF ClientInv
  <2>1. new.changed
    BY <1>4
  <2>2. CASE p \in DOMAIN params
    <3>1. ~Racing
      BY <2>2, <1>1
    <3> QED
      BY <3>1, <2>1 DEF Racing
  <2>3. CASE p \notin DOMAIN params
    <3>1. p \notin raced
      BY <2>3, <1>1
    <3>2. origin[p] = "client" /\ p \in DOMAIN s.staged /\ new.staged[p] = s.staged[p]
      BY <2>3, <1>5, <1>7
    <3> QED
      BY <3>1, <3>2, <2>1 DEF IInv, ClientInv
  <2> QED
    BY <2>2, <2>3
<1>12. ManualInv' /\ HandStays
  <2>1. StoredContexts(s)' = StoredContexts(s)
    BY <1>1, <1>4, <1>6, StoreUnchanged DEF IInv
  <2> QED
    BY <2>1, <1>1, <1>4, <1>6 DEF IInv, ManualInv, HandStays
<1>13. Carried
  <2>1. \A p \in DOMAIN s.staged : p \in DOMAIN params => origin'[p] = "client"
    BY <1>7
  <2>2. phase' = phase /\ s'.active = s.active
    BY <1>1, <1>4, <1>6
  <2>3. calls' # calls
    BY <1>1 DEF IInv, Typed
  <2> QED
    BY <2>2, <2>3 DEF Carried
<1> QED
  BY <1>8, <1>9, <1>10, <1>11, <1>12, <1>13 DEF StepRight, IInv

(* Time goes on: what is missing for being outdated stays outdated.        *)
LEMMA TickStep ==
    ASSUME SettingsConstants, IInv, Tick
    PROVE  StepRight
<1>1. /\ UNCHANGED <<s, live, defaults, expiry, phase, back, pending, calls>>
      /\ UNCHANGED <<ledger, byHand, origin, raced, target, tagged>>
      /\ now < MaxTime /\ now' = now + 1
  BY DEF Tick, ghostVars
<1>2. now \in Nat /\ MaxTime \in Nat /\ now' \in Times /\ now' \in Nat /\ now <= now'
  BY <1>1 DEF IInv, Typed, SettingsConstants, Times
<1>3. Typed'
  BY <1>1, <1>2 DEF IInv, Typed
<1>4. StoreInv'
  <2>1. RightlyKept(s.stored, ledger, now')
    BY <1>2, KeptLater DEF IInv, StoreInv, Typed
  <2> QED
    BY <2>1, <1>1, KeptNext
<1>5. AutoInv'
  BY <1>1, AutoNext DEF IInv, AutoInv
<1>6. SwitchInv' /\ ClientInv'
  BY <1>1 DEF IInv, SwitchInv, ClientInv, InForce
<1>7. ManualInv' /\ HandStays /\ Carried
  BY <1>1 DEF IInv, ManualInv, HandStays, Carried
<1> QED
  BY <1>3, <1>4, <1>5, <1>6, <1>7 DEF StepRight, IInv

(* storeDefaults()                                                         *)
LEMMA StoreDefaultsStep ==
    ASSUME SettingsConstants, IInv, StoreDefaults
    PROVE  StepRight
<1>1. /\ UNCHANGED <<now, expiry, phase, back, pending, tagged, s, live, ledger, byHand, origin, raced, target>>
      /\ defaults' = live /\ calls' = calls + 1
  BY DEF StoreDefaults, Message, Count
<1>2. Typed'
  BY <1>1 DEF IInv, Typed
<1>3. StoreInv' /\ AutoInv'
  BY <1>1, StoreUnchanged DEF IInv
<1>4. SwitchInv' /\ ClientInv'
  BY <1>1 DEF IInv, SwitchInv, ClientInv, InForce
<1>5. ManualInv' /\ HandStays /\ Carried
  BY <1>1 DEF IInv, ManualInv, HandStays, Carried
<1> QED
  BY <1>2, <1>3, <1>4, <1>5 DEF StepRight, IInv

-----------------------------------------------------------------------------
(* Steps that switch the context *)

(* What the switch of the context stages, and a tag on top of it, becomes  *)
(* the value of the block unless it is staged again.                       *)
LEMMA SwitchStep ==
    ASSUME SettingsConstants, IInv, NEW st \in Store, Known(st.stored, ledger),
           st.active = s.active, st.staged = s.staged, st.changed = s.changed,
           NEW act, Switched(st, act, ledger, byHand), NEW tags \in SUBSET Params,
           s' \in Store, s'.active = act.active,
           \A p \in Params \ tags : /\ p \in DOMAIN s'.staged <=> p \in DOMAIN act.staged
                                    /\ p \in DOMAIN act.staged => s'.staged[p] = act.staged[p],
           RecordSwitch(s, s', tags),
           phase \notin {"applied", "cleared", "published"}, phase' \notin {"applied", "cleared", "published"},
           UNCHANGED <<live, expiry>>,
           s.changed /\ DOMAIN s'.staged # {} => s'.changed,
           ~s'.changed => DOMAIN s'.staged = {} \/ (~s.changed /\ act = st /\ tags = {})
    PROVE  /\ SwitchInv' /\ ClientInv' /\ Carried
           /\ origin' \in [Params -> Origins] /\ raced' \in SUBSET Params /\ target' \in [Params -> Values]
<1> DEFINE stages == SwitchStages(st, act.active, ledger, byHand)
<1>1. stages = IF s.active = s'.active \/ s'.active \notin DOMAIN ledger THEN {}
               ELSE IF s.active.name = s'.active.name THEN byHand[s'.active]
               ELSE Params \ DOMAIN s.staged
  BY Zenon DEF SwitchStages
<1>2. /\ origin' = [p \in Params |-> IF p \in tags THEN "tag" ELSE IF p \in stages THEN "context" ELSE origin[p]]
      /\ target' = [p \in Params |-> IF p \in stages THEN ledger[s'.active][p] ELSE target[p]]
      /\ raced' = raced \ (tags \cup stages)
  BY <1>1, Zenon DEF RecordSwitch
<1>3. /\ stages \subseteq Params
      /\ act.active = s.active => act = st
      /\ \A p \in Params \ stages : /\ p \in DOMAIN act.staged <=> p \in DOMAIN s.staged
                                    /\ p \in DOMAIN s.staged => act.staged[p] = s.staged[p]
      /\ expiry = Never => \A p \in stages : p \in DOMAIN act.staged /\ act.staged[p] = ledger[s'.active][p]
      /\ stages # {} => s'.active \in DOMAIN ledger
      /\ act = st => stages = {}
  <2>1. stages # {} => s'.active \in DOMAIN ledger
    BY <1>1
  <2>2. act = st => stages = {}
    BY DEF SwitchStages
  <2> HIDE DEF stages
  <2>3. stages = SwitchStages(st, act.active, ledger, byHand)
    BY DEF stages
  <2> QED
    BY <2>1, <2>2, <2>3 DEF Switched
<1> HIDE DEF stages
<1>4. /\ \A p \in Params : origin'[p] = IF p \in tags THEN "tag" ELSE IF p \in stages THEN "context" ELSE origin[p]
      /\ \A p \in Params : target'[p] = IF p \in stages THEN ledger[s'.active][p] ELSE target[p]
  BY <1>2
<1>5. /\ origin' \in [Params -> Origins] /\ raced' \in SUBSET Params /\ target' \in [Params -> Values]
  <2>1. origin \in [Params -> Origins] /\ raced \in SUBSET Params /\ target \in [Params -> Values]
    BY DEF IInv, Typed
  <2>2. s'.active \in DOMAIN ledger => ledger[s'.active] \in [Params -> Values]
    BY PartialIs DEF IInv, Typed
  <2>3. {"tag", "context"} \subseteq Origins
    BY DEF Origins
  <2> QED
    BY <2>1, <2>2, <2>3, <1>2, <1>3
<1>6. \A p \in Params : p \notin tags /\ p \notin stages =>
         /\ origin'[p] = origin[p] /\ target'[p] = target[p]
         /\ p \in DOMAIN s'.staged <=> p \in DOMAIN s.staged
         /\ p \in DOMAIN s.staged => s'.staged[p] = s.staged[p]
  BY <1>3, <1>4
<1>7. ASSUME expiry = Never, NEW p \in Params, origin'[p] = "context"
      PROVE  /\ p \notin tags
             /\ IF p \in DOMAIN s'.staged THEN s'.staged[p] = target'[p] ELSE live[p] = target'[p]
  <2>1. p \notin tags
    BY <1>4, <1>7
  <2>2. CASE p \in stages
    <3>1. p \in DOMAIN act.staged /\ act.staged[p] = target'[p]
      BY <2>2, <1>3, <1>4, <1>7
    <3> QED
      BY <3>1, <2>1
  <2>3. CASE p \notin stages
    <3>1. origin[p] = "context"
      BY <2>1, <2>3, <1>6, <1>7
    <3>2. IF p \in DOMAIN s.staged THEN s.staged[p] = target[p] ELSE live[p] = target[p]
      BY <3>1, <1>7 DEF IInv, SwitchInv
    <3> QED
      BY <3>2, <2>1, <2>3, <1>6
  <2> QED
    BY <2>1, <2>2, <2>3
<1>8. live' = live /\ expiry' = expiry
  OBVIOUS
<1>9. SwitchInv'
  <2>1. ASSUME expiry = Never, ~s'.changed, NEW p \in Params, origin'[p] = "context" PROVE live[p] = target'[p]
    <3>1. CASE DOMAIN s'.staged = {}
      BY <3>1, <2>1, <1>7
    <3>2. CASE ~s.changed /\ act = st /\ tags = {}
      <4>1. stages = {}
        BY <3>2, <1>3
      <4>2. origin[p] = "context" /\ target'[p] = target[p]
        BY <4>1, <3>2, <2>1, <1>6
      <4> QED
        BY <4>2, <3>2, <2>1 DEF IInv, SwitchInv, InForce
    <3> QED
      BY <3>1, <3>2, <2>1
  <2> QED
    BY <2>1, <1>7, <1>8 DEF SwitchInv, InForce
<1>10. ClientInv'
  <2> SUFFICES ASSUME NEW p \in Params, p \notin raced', origin'[p] = "client", p \in DOMAIN s'.staged
               PROVE  s'.changed
    BY DEF ClientInv
  <2>1. p \notin tags /\ p \notin stages
    BY <1>4
  <2>2. p \notin raced /\ origin[p] = "client" /\ p \in DOMAIN s.staged
    BY <2>1, <1>2, <1>6
  <2>3. s.changed
    BY <2>2 DEF IInv, ClientInv
  <2> QED
    BY <2>3
<1>11. Carried
  <2> SUFFICES ASSUME NEW p \in Params, origin[p] = "client", p \in DOMAIN s.staged, origin'[p] = "client"
               PROVE  p \in DOMAIN s'.staged /\ s'.staged[p] = s.staged[p]
    BY DEF Carried
  <2>1. p \notin tags /\ p \notin stages
    BY <1>4
  <2> QED
    BY <2>1, <1>6
<1> QED
  BY <1>5, <1>9, <1>10, <1>11

(* What the invariant says of the store                                    *)
LEMMA StoreFacts ==
    ASSUME SettingsConstants, IInv
    PROVE  /\ s \in Store /\ StoredRight(s.stored) /\ Known(s.stored, ledger) /\ Recorded(s.stored, ledger)
           /\ AutoRight(s.stored, s.auto, byHand) /\ RightlyKept(s.stored, ledger, now)
           /\ s.auto \in Partial(Ctx, SUBSET Params) /\ s.staged \in Partial(Params, Values)
           /\ s.active \in Ctx /\ s.changed \in BOOLEAN
           /\ byHand \in Partial(Ctx, SUBSET Params) /\ DOMAIN ledger \subseteq DOMAIN byHand
           /\ DOMAIN ledger \subseteq Ctx /\ ledger \in Partial(Ctx, [Params -> Values])
           /\ now \in Times /\ now \in Nat /\ expiry \in Nat \cup {Never} /\ MaxTime \in Nat
           /\ Default \in Names
<1>1. /\ s \in Store /\ ledger \in Partial(Ctx, [Params -> Values]) /\ byHand \in Partial(Ctx, SUBSET Params)
      /\ DOMAIN ledger \subseteq DOMAIN byHand /\ now \in Times /\ expiry \in Nat \cup {Never}
  BY DEF IInv, Typed
<1>2. RightlyKept(s.stored, ledger, now) /\ AutoRight(s.stored, s.auto, byHand)
  BY DEF IInv, StoreInv, AutoInv
<1>3. StoredRight(s.stored) /\ Recorded(s.stored, ledger)
  BY <1>2 DEF RightlyKept
<1>4. Known(s.stored, ledger) /\ DOMAIN ledger \subseteq Ctx
  BY <1>3 DEF Recorded, Known
<1>5. MaxTime \in Nat /\ now \in Nat /\ Default \in Names
  BY <1>1 DEF SettingsConstants, Times
<1> QED
  BY <1>1, <1>2, <1>3, <1>4, <1>5, StoreIs

(* propertyCallbackActiveContext()                                         *)
LEMMA ActivateStep ==
    ASSUME SettingsConstants, IInv, NEW n \in Names, NEW t \in Times, ActivateMessage([name |-> n, time |-> t])
    PROVE  StepRight
<1>1. /\ UNCHANGED <<now, expiry, phase, back, pending, tagged, live, defaults, ledger, byHand>>
      /\ phase = "idle" /\ calls' = calls + 1
      /\ s' = ActivateContext(s, n, t) /\ RecordSwitch(s, s', {})
  BY DEF ActivateMessage, Message, Count
<1>2. t \in Nat
  BY DEF Times
<1>3. Switched(s, s', ledger, byHand)
  BY <1>1, <1>2, StoreFacts, Switching
<1>4. /\ s' \in Store /\ s'.stored = s.stored /\ AutoRight(s'.stored, s'.auto, byHand)
      /\ s'.active = s.active => s' = s
      /\ s'.active # s.active => s'.changed = TRUE /\ s'.active \in DOMAIN ledger
  BY <1>3, Zenon DEF Switched
<1>5. /\ SwitchInv' /\ ClientInv' /\ Carried
      /\ origin' \in [Params -> Origins] /\ raced' \in SUBSET Params /\ target' \in [Params -> Values]
  <2>1. {} \in SUBSET Params /\ s \in Store /\ Known(s.stored, ledger)
    BY StoreFacts
  <2>2. ~s'.changed => ~s.changed /\ s' = s
    BY <1>4
  <2>3. s.changed => s'.changed
    BY <1>4
  <2> QED
    BY <2>1, <2>2, <2>3, <1>1, <1>3, <1>4, SwitchStep
<1>6. Typed'
  BY <1>1, <1>4, <1>5 DEF IInv, Typed
<1>7. StoreInv'
  BY <1>1, <1>4, KeptNext, StoreFacts
<1>8. AutoInv'
  BY <1>1, <1>4, AutoNext
<1>9. ManualInv' /\ HandStays
  BY <1>1, <1>4 DEF IInv, ManualInv, HandStays
<1> QED
  BY <1>5, <1>6, <1>7, <1>8, <1>9 DEF StepRight, IInv

(* removeContext()                                                         *)
LEMMA RemoveStep ==
    ASSUME SettingsConstants, IInv, NEW n \in Names, NEW t \in Times, RemoveContext([name |-> n, time |-> t])
    PROVE  StepRight
<1>1. /\ UNCHANGED <<now, expiry, phase, back, pending, tagged, live, defaults, byHand>>
      /\ phase = "idle" /\ calls' = calls + 1 /\ n # Default /\ n \in DOMAIN s.stored
      /\ ledger' = Restrict(ledger, {c \in DOMAIN ledger : c.name # n \/ c \in StoredContexts(s')})
      /\ RecordSwitch(s, s', {})
  BY DEF RemoveContext, Message, Count
<1>2. PICK i \in DOMAIN s.stored[n] :
         LET w == RemoveAt(s.stored[n], i)
             st == [s EXCEPT !.stored = IF w = <<>> THEN Restrict(s.stored, DOMAIN s.stored \ {n})
                                        ELSE [s.stored EXCEPT ![n] = w]]
         IN  s' = IF s.active.name = n THEN ActivateContext(st, Default, now) ELSE st
  BY DEF RemoveContext
<1>3. PICK w : w = RemoveAt(s.stored[n], i)
  OBVIOUS
<1>4. PICK new : new = IF w = <<>> THEN Restrict(s.stored, DOMAIN s.stored \ {n}) ELSE [s.stored EXCEPT ![n] = w]
  OBVIOUS
<1>5. PICK st : st = [s EXCEPT !.stored = new]
  OBVIOUS
<1>6. s' = IF s.active.name = n THEN ActivateContext(st, Default, now) ELSE st
  BY <1>2, <1>3, <1>4, <1>5
<1>7. PICK K : K = StoredContexts([s EXCEPT !.stored = new]) \cup {c \in Ctx : c.name # n}
  OBVIOUS
<1>8. \A c \in DOMAIN ledger : c \in K <=> c.name # n \/ Has(new, c)
  <2>1. [s EXCEPT !.stored = new].stored = new
    BY StoreFacts, StoreIs
  <2>2. \A c \in Ctx : c \in StoredContexts([s EXCEPT !.stored = new]) <=> Has(new, c)
    BY <2>1, HasIs
  <2> QED
    BY <2>2, <1>7, StoreFacts
<1>9. /\ RightlyKept(new, Restrict(ledger, {c \in DOMAIN ledger : c \in K}), now)
      /\ DOMAIN new \subseteq DOMAIN s.stored /\ DOMAIN s.stored \ {n} \subseteq DOMAIN new
      /\ \A m \in DOMAIN new : ToSet(new[m]) \subseteq ToSet(s.stored[m])
      /\ \A m \in DOMAIN new : m # n => new[m] = s.stored[m]
  <2>1. Without(s.stored, ledger, now, n, K, new)
    BY <1>1, <1>3, <1>4, <1>8, StoreFacts, RemovingKeeps
  <2> QED
    BY <2>1, Zenon DEF Without
<1>10. StoredRight(new) /\ Known(new, ledger) /\ AutoRight(new, s.auto, byHand)
  <2>1. StoredRight(new)
    BY <1>9 DEF RightlyKept
  <2>2. Known(new, ledger)
    BY <1>9, StoreFacts DEF Known
  <2>3. AutoRight(new, s.auto, byHand)
    BY <1>9, StoreFacts, AutoOfLess
  <2> QED
    BY <2>1, <2>2, <2>3
<1>11. /\ st \in Store /\ st.stored = new /\ st.auto = s.auto /\ st.active = s.active
       /\ st.staged = s.staged /\ st.changed = s.changed
  <2>1. /\ st.stored = new /\ st.auto = s.auto /\ st.active = s.active
        /\ st.staged = s.staged /\ st.changed = s.changed
        /\ st = [stored |-> st.stored, auto |-> st.auto, active |-> st.active,
                 staged |-> st.staged, changed |-> st.changed]
    BY <1>5, StoreFacts, StoreIs
  <2>2. new \in Partial(Names, Seq(Entry))
    BY <1>10 DEF StoredRight
  <2> QED
    BY <2>1, <2>2, StoreFacts, StoreIs, Zenon
<1>12. Switched(st, s', ledger, byHand)
  <2>1. CASE s.active.name = n
    BY <2>1, <1>6, <1>10, <1>11, StoreFacts, Switching
  <2>2. CASE s.active.name # n
    <3>1. s' = st
      BY <2>2, <1>6
    <3>2. SwitchStages(st, s'.active, ledger, byHand) = {}
      BY <3>1 DEF SwitchStages
    <3> QED
      BY <3>1, <3>2, <1>10, <1>11 DEF Switched
  <2> QED
    BY <2>1, <2>2
<1>13. /\ s' \in Store /\ s'.stored = new /\ AutoRight(s'.stored, s'.auto, byHand)
       /\ s'.active = s.active => s' = st
       /\ s'.active # s.active => s'.changed = TRUE /\ s'.active \in DOMAIN ledger
  BY <1>11, <1>12, Zenon DEF Switched
<1>14. /\ SwitchInv' /\ ClientInv' /\ Carried
       /\ origin' \in [Params -> Origins] /\ raced' \in SUBSET Params /\ target' \in [Params -> Values]
  <2>1. {} \in SUBSET Params
    OBVIOUS
  <2>2. ~s'.changed => ~s.changed /\ s' = st
    BY <1>11, <1>13
  <2>3. s.changed => s'.changed
    BY <1>11, <1>13
  <2> QED
    BY <2>1, <2>2, <2>3, <1>1, <1>10, <1>11, <1>12, <1>13, SwitchStep
<1>15. ledger' = Restrict(ledger, {c \in DOMAIN ledger : c \in K})
  <2>1. \A c \in Ctx : c \in StoredContexts(s') <=> Has(new, c)
    BY <1>13, HasIs
  <2>2. {c \in DOMAIN ledger : c.name # n \/ c \in StoredContexts(s')} = {c \in DOMAIN ledger : c \in K}
    BY <2>1, <1>8, StoreFacts
  <2> QED
    BY <2>2, <1>1
<1>16. /\ \A c \in DOMAIN ledger : c.name # n \/ Has(new, c) => c \in DOMAIN ledger'
       /\ DOMAIN ledger' \subseteq DOMAIN ledger /\ \A c \in DOMAIN ledger' : ledger'[c] = ledger[c]
       /\ ledger' = [c \in DOMAIN ledger' |-> ledger'[c]]
  BY <1>8, <1>15 DEF Restrict
<1>17. Typed'
  <2>1. DOMAIN ledger \subseteq Ctx /\ ledger \in [DOMAIN ledger -> [Params -> Values]]
    BY StoreFacts, PartialIs
  <2>2. DOMAIN ledger' \subseteq Ctx /\ ledger' \in [DOMAIN ledger' -> [Params -> Values]]
    BY <2>1, <1>16
  <2>3. ledger' \in Partial(Ctx, [Params -> Values])
    BY <2>2, PartialIs
  <2> QED
    BY <2>3, <1>1, <1>13, <1>14, <1>16 DEF IInv, Typed
<1>18. StoreInv'
  BY <1>1, <1>9, <1>13, <1>15, KeptNext
<1>19. AutoInv'
  BY <1>1, <1>13, AutoNext
<1>20. ManualInv' /\ HandStays
  <2>1. [name |-> Default, time |-> 1] \in DOMAIN ledger'
    BY <1>1, <1>16 DEF IInv, ManualInv
  <2>2. expiry = Never => s'.active \in DOMAIN ledger'
    <3> SUFFICES ASSUME expiry = Never PROVE s'.active \in DOMAIN ledger'
      OBVIOUS
    <3>1. CASE s.active.name # n
      <4>1. s'.active = s.active
        BY <3>1, <1>6, <1>11
      <4> QED
        BY <4>1, <3>1, <1>16 DEF IInv, ManualInv
    <3>2. CASE s.active.name = n
      <4>1. PICK c \in BestMatch(new, Default, now) : TRUE
        <5>1. PICK d : d = [name |-> Default, time |-> 1]
          OBVIOUS
        <5>2. d \in DOMAIN ledger' /\ d.name = Default /\ d.time = 1
          BY <5>1, <2>1
        <5>3. /\ Recorded(new, ledger') /\ (Has(new, d) \/ Removed(new, d, now))
          BY <5>2, <1>9, <1>15 DEF RightlyKept
        <5>4. Default \in DOMAIN new
          BY <5>2, <5>3 DEF Recorded
        <5>5. PICK e \in ToSet(new[Default]) : e.time <= now
          <6>1. 1 <= now
            BY StoreFacts DEF Times
          <6>2. ~Expired(d, now)
            BY DEF Expired
          <6> QED
            BY <6>1, <6>2, <5>2, <5>3 DEF Has, Removed
        <5>6. new[Default] \in Seq(Entry)
          BY <5>4, <1>10, StoredIs
        <5>7. PICK j \in DOMAIN new[Default] : new[Default][j].time <= now
          BY <5>5, <5>6, Elements
        <5>8. BestName(new, Default) = {Default}
          BY <5>4, Zenon DEF BestName
        <5>9. BestMatch(new, Default, now) # {}
          BY <5>7, <5>8, Zenon DEF BestMatch
        <5> QED
          BY <5>9
      <4>2. s'.active = c /\ c \in Ctx /\ Has(new, c)
        <5>1. s' = ActivateContext(st, Default, now)
          BY <3>2, <1>6
        <5>2. \A d \in BestMatch(st.stored, Default, now) : s'.active = d
          <6>1. Switched(st, s', ledger, byHand) /\ Activated(st, s', BestMatch(st.stored, Default, now))
            BY <5>1, <1>10, <1>11, StoreFacts, Switching
          <6> QED
            BY <6>1, Zenon DEF Activated
        <5>3. c \in Ctx /\ Has(new, c)
          BY <4>1, <1>10, StoreFacts, MatchOne
        <5> QED
          BY <5>2, <5>3, <4>1, <1>11
      <4>3. c \in DOMAIN ledger
        BY <4>2, <1>10, ParametersKnown
      <4> QED
        BY <4>2, <4>3, <1>16
    <3> QED
      BY <3>1, <3>2
  <2> QED
    BY <2>1, <2>2, <1>1 DEF ManualInv, HandStays
<1> QED
  BY <1>14, <1>17, <1>18, <1>19, <1>20 DEF StepRight, IInv

(* autoUpdate() switches to the context of a tag first.                    *)
LEMMA TagSwitches ==
    ASSUME SettingsConstants, IInv, NEW tag,
           tag.ctx = {} \/ \E c \in Ctx : c.time \in Times /\ tag.ctx = {c},
           NEW act, act = IF tag.ctx = {} THEN s
                          ELSE LET c == CHOOSE x \in tag.ctx : TRUE IN ActivateContext(s, c.name, c.time)
    PROVE  Switched(s, act, ledger, byHand) /\ act.active = TagContext(s, tag)
<1> DEFINE match == UNION {BestMatch(s.stored, c.name, c.time) : c \in tag.ctx}
<1>1. TagContext(s, tag) = IF match = {} THEN s.active ELSE CHOOSE c \in match : TRUE
  BY Zenon DEF TagContext
<1>2. CASE tag.ctx = {}
  <2>1. act = s /\ match = {}
    BY <1>2
  <2>2. SwitchStages(s, s.active, ledger, byHand) = {}
    BY DEF SwitchStages
  <2>3. Switched(s, s, ledger, byHand)
    BY <2>2, StoreFacts DEF Switched
  <2> QED
    BY <2>1, <2>3, <1>1
<1>3. CASE \E c \in Ctx : c.time \in Times /\ tag.ctx = {c}
  <2>1. PICK c \in Ctx : c.time \in Times /\ tag.ctx = {c}
    BY <1>3
  <2>2. (CHOOSE x \in tag.ctx : TRUE) = c
    BY <2>1
  <2>3. act = ActivateContext(s, c.name, c.time)
    BY <2>1, <2>2
  <2>4. match = BestMatch(s.stored, c.name, c.time)
    BY <2>1
  <2>5. c.name \in Names /\ c.time \in Nat
    BY <2>1 DEF Ctx, Times
  <2>6. /\ Switched(s, act, ledger, byHand)
        /\ BestMatch(s.stored, c.name, c.time) = {} => act = s
        /\ \A d \in BestMatch(s.stored, c.name, c.time) : act.active = d
    <3>1. Switched(s, act, ledger, byHand) /\ Activated(s, act, BestMatch(s.stored, c.name, c.time))
      BY <2>3, <2>5, StoreFacts, Switching
    <3> QED
      BY <3>1, Zenon DEF Activated
  <2> HIDE DEF match
  <2>7. match # {} => (CHOOSE d \in match : TRUE) \in match
    BY Zenon
  <2> QED
    BY <2>4, <2>6, <2>7, <1>1
<1> QED
  BY <1>2, <1>3

(* One tag of a chunk                                                      *)
LEMMA ReceiveTagStep ==
    ASSUME SettingsConstants, IInv,
           NEW tag \in [ctx : {{}} \cup {{c} : c \in [name : Names, time : Times]},
                        params : Requests \cup {Nothing}],
           ReceiveTag(tag)
    PROVE  StepRight
<1>1. /\ UNCHANGED <<now, live, defaults, expiry, back, pending, ledger, byHand>>
      /\ phase \in {"input", "tagged"} /\ phase' = "tagged" /\ calls' = calls + 1
      /\ s' = AutoUpdate(s, tag) /\ tagged' = TagStages(s, tag)
      /\ RecordSwitch(s, s', TagStages(s, tag))
  BY DEF ReceiveTag, Count
<1>2. tag.ctx = {} \/ \E c \in Ctx : c.time \in Times /\ tag.ctx = {c}
  <2>1. ASSUME NEW c \in [name : Names, time : Times] PROVE c \in Ctx /\ c.time \in Times
    BY StoreFacts DEF Ctx, Times
  <2> QED
    BY <2>1
<1>3. PICK params \in Partial(Params, Values) : params = tag.params /\ DOMAIN params \subseteq Params
  BY NothingIs, PartialIs DEF SettingsConstants
<1>4. PICK act : act = IF tag.ctx = {} THEN s
                       ELSE LET c == CHOOSE x \in tag.ctx : TRUE IN ActivateContext(s, c.name, c.time)
  OBVIOUS
<1>5. PICK ctx : ctx = TagContext(s, tag)
  OBVIOUS
<1>6. PICK put : put = TagStages(s, tag)
  OBVIOUS
<1>7. Switched(s, act, ledger, byHand) /\ act.active = ctx
  BY <1>2, <1>4, <1>5, TagSwitches
<1>8. /\ act \in Store /\ act.stored = s.stored /\ AutoRight(act.stored, act.auto, byHand)
      /\ act.active = s.active => act = s
      /\ act.active # s.active => act.changed = TRUE /\ act.active \in DOMAIN ledger
  BY <1>7, Zenon DEF Switched
<1>9. /\ act = [stored |-> act.stored, auto |-> act.auto, active |-> act.active,
                staged |-> act.staged, changed |-> act.changed]
      /\ act.stored \in Partial(Names, Seq(Entry)) /\ act.auto \in Partial(Ctx, SUBSET Params)
      /\ act.active \in Ctx /\ act.staged \in Partial(Params, Values) /\ act.changed \in BOOLEAN
  BY <1>8, StoreIs
<1>10. put \subseteq DOMAIN params /\ put \subseteq AutoOf(s, ctx) /\ put \in SUBSET Params
  BY <1>3, <1>5, <1>6, Zenon DEF TagStages
<1>11. /\ s' \in Store /\ s'.stored = s.stored /\ s'.active = ctx
       /\ AutoRight(s.stored, s'.auto, byHand)
       /\ \A p \in Params \ put : /\ p \in DOMAIN s'.staged <=> p \in DOMAIN act.staged
                                  /\ p \in DOMAIN act.staged => s'.staged[p] = act.staged[p]
       /\ s.changed /\ DOMAIN s'.staged # {} => s'.changed
       /\ ~s'.changed => DOMAIN s'.staged = {} \/ (~s.changed /\ act = s /\ put = {})
  <2>1. CASE tag.ctx = {} /\ DOMAIN params = {}
    <3>1. s' = [s EXCEPT !.changed = @ /\ DOMAIN s.staged # {}]
      BY <2>1, <1>1, <1>3, Zenon DEF AutoUpdate
    <3>2. PICK b \in BOOLEAN : b = (s.changed /\ DOMAIN s.staged # {}) /\ s' = Staging(s, s.staged, b)
      BY <3>1, StoreFacts, StoreIs DEF Staging
    <3>3. /\ s' \in Store /\ s'.stored = s.stored /\ s'.auto = s.auto /\ s'.active = s.active
          /\ s'.staged = s.staged /\ s'.changed = b
      <4>1. s \in Store /\ s.staged \in Partial(Params, Values) /\ s' = Staging(s, s.staged, b)
        BY <3>2, StoreFacts
      <4>2. PICK new : new = s' /\ new = Staging(s, s.staged, b)
        BY <4>1
      <4>3. /\ new \in Store /\ new.stored = s.stored /\ new.auto = s.auto /\ new.active = s.active
            /\ new.staged = s.staged /\ new.changed = b
        BY <4>1, <4>2, WithStaged
      <4> QED
        BY <4>2, <4>3
    <3>4. act = s /\ put = {}
      BY <2>1, <1>4, <1>10
    <3> QED
      BY <3>2, <3>3, <3>4, <1>7, StoreFacts
  <2>2. CASE ~ (tag.ctx = {} /\ DOMAIN params = {})
    <3>1. PICK staged : staged = Over(Restrict(params, put), act.staged)
      OBVIOUS
    <3>2. PICK auto : auto = Over([c \in {ctx} |-> AutoOf(act, ctx)], act.auto)
      OBVIOUS
    <3> DEFINE b == /\ ~ (tag.ctx = {} /\ put = {} /\ DOMAIN staged = {})
                    /\ act.changed \/ s.active # ctx \/ put # {}
    <3>3. b \in BOOLEAN
      BY <1>9
    <3>4. s' = [act EXCEPT !.staged = staged, !.auto = auto, !.changed = b]
      <4>1. ~ (tag.ctx = {} /\ DOMAIN tag.params = {})
        BY <2>2, <1>3
      <4>2. s' = [act EXCEPT !.staged = staged, !.auto = auto,
                             !.changed = /\ ~ (tag.ctx = {} /\ put = {} /\ DOMAIN staged = {})
                                         /\ @ \/ s.active # ctx \/ put # {}]
        BY <4>1, <3>1, <3>2, <1>1, <1>3, <1>4, <1>5, <1>6, Zenon DEF AutoUpdate
      <4> QED
        BY <4>2
    <3>5. b <=> ~ (tag.ctx = {} /\ put = {} /\ DOMAIN staged = {}) /\ (act.changed \/ s.active # ctx \/ put # {})
      OBVIOUS
    <3> HIDE DEF b
    <3>6. /\ s'.stored = act.stored /\ s'.auto = auto /\ s'.active = ctx /\ s'.staged = staged /\ s'.changed = b
          /\ s' = [stored |-> s'.stored, auto |-> s'.auto, active |-> s'.active,
                   staged |-> s'.staged, changed |-> s'.changed]
      BY <3>4, <1>7, <1>9
    <3>7. auto \in Partial(Ctx, SUBSET Params) /\ AutoRight(s.stored, auto, byHand)
      <4>1. StoredRight(act.stored) /\ ctx \in Ctx
        BY <1>7, <1>8, <1>9, StoreFacts
      <4> QED
        BY <4>1, <3>2, <1>8, <1>9, AutoStays
    <3>8. /\ staged \in Partial(Params, Values)
          /\ \A p \in Params \ put : /\ p \in DOMAIN staged <=> p \in DOMAIN act.staged
                                     /\ p \in DOMAIN act.staged => staged[p] = act.staged[p]
      <4>1. PICK some : some = Restrict(params, DOMAIN params \cap put)
        OBVIOUS
      <4>2. some \in Partial(Params, Values) /\ DOMAIN some = put /\ DOMAIN params \cap put = put
        BY <4>1, <1>10, RestrictIs DEF Restrict
      <4>3. staged = Over(some, act.staged)
        BY <4>1, <4>2, <3>1
      <4>4. staged \in Partial(Params, Values)
        BY <4>2, <4>3, <1>9, OverIs
      <4> QED
        BY <4>2, <4>3, <4>4 DEF Over
    <3>9. s' \in Store
      BY <3>3, <3>6, <3>7, <3>8, <1>7, <1>9, StoreIs
    <3> QED
      BY <3>3, <3>6, <3>7, <3>8, <3>9, <3>5, <1>7, <1>8
  <2> QED
    BY <2>1, <2>2
<1>12. /\ SwitchInv' /\ ClientInv' /\ Carried
       /\ origin' \in [Params -> Origins] /\ raced' \in SUBSET Params /\ target' \in [Params -> Values]
  BY <1>1, <1>6, <1>7, <1>10, <1>11, StoreFacts, SwitchStep
<1>13. Typed'
  BY <1>1, <1>6, <1>10, <1>11, <1>12 DEF IInv, Typed
<1>14. StoreInv'
  BY <1>1, <1>11, KeptNext, StoreFacts
<1>15. AutoInv'
  BY <1>1, <1>11, AutoNext
<1>16. ManualInv' /\ HandStays
  <2>1. expiry = Never => s'.active \in DOMAIN ledger
    BY <1>7, <1>8, <1>11 DEF IInv, ManualInv
  <2>2. ASSUME expiry = Never, s'.active \in StoredContexts(s') PROVE tagged' \cap byHand[s'.active] = {}
    <3>1. ctx \in Ctx /\ Has(s.stored, ctx)
      BY <2>2, <1>7, <1>9, <1>11, HasIs
    <3>2. ctx \in DOMAIN s.auto /\ s.auto[ctx] \cap byHand[ctx] = {}
      BY <3>1, <2>2, StoreFacts, Zenon DEF AutoRight
    <3>3. AutoOf(s, ctx) = s.auto[ctx]
      BY <3>1, <3>2, StoreFacts, AutoOfStored
    <3> QED
      BY <3>2, <3>3, <1>1, <1>6, <1>10, <1>11
  <2>3. StoredContexts(s)' = StoredContexts(s')
    OBVIOUS
  <2> QED
    BY <2>1, <2>2, <2>3, <1>1 DEF IInv, ManualInv, HandStays
<1> QED
  BY <1>12, <1>13, <1>14, <1>15, <1>16 DEF StepRight, IInv

-----------------------------------------------------------------------------
(* Steps that store *)

(* What a look-up of the store finds is what the history records.          *)
BaseRight(ctx, match, base) ==
    /\ match = BestMatch(s.stored, ctx.name, ctx.time)
    /\ match = {} <=> base = {}
    /\ match # {} => /\ (CHOOSE x \in base : TRUE) = ledger[CHOOSE c \in match : TRUE]
                     /\ ledger[CHOOSE c \in match : TRUE] \in [Params -> Values]
    /\ UNION {byHand[d] : d \in match} \subseteq Params

(* set() starts from the settings that the history has for the best match. *)
LEMMA BaseIs ==
    ASSUME SettingsConstants, IInv, NEW ctx \in Ctx,
           NEW match, match = LedgerMatch(ctx.name, ctx.time) \cap StoredContexts(s),
           NEW base, base = Lookup(s.stored, ctx.name, ctx.time)
    PROVE  BaseRight(ctx, match, base)
<1>1. ctx.name \in Names /\ ctx.time \in Nat
  BY StoreFacts DEF Ctx
<1>2. /\ match = BestMatch(s.stored, ctx.name, ctx.time)
      /\ \A c \in match : ParametersAt(s.stored, c) = ledger[c]
  <2>1. Typed /\ StoreInv
    BY DEF IInv
  <2>2. /\ BestMatch(s.stored, ctx.name, ctx.time) = LedgerMatch(ctx.name, ctx.time) \cap StoredContexts(s)
        /\ \A c \in BestMatch(s.stored, ctx.name, ctx.time) : ParametersAt(s.stored, c) = ledger[c]
    BY <2>1, <1>1, MatchAgrees, Zenon
  <2> QED
    BY <2>2
<1>3. \A c \in match : c \in Ctx /\ Has(s.stored, c) /\ \A d \in match : c = d
  BY <1>1, <1>2, StoreFacts, MatchOne
<1>4. base = {ParametersAt(s.stored, c) : c \in match}
  BY <1>2, Zenon DEF Lookup
<1>5. \A c \in match : c \in DOMAIN ledger /\ ledger[c] \in [Params -> Values] /\ byHand[c] \subseteq Params
  <2> TAKE c \in match
  <2>1. c \in DOMAIN ledger /\ ledger[c] \in [Params -> Values]
    BY <1>3, StoreFacts, ParametersKnown
  <2>2. byHand \in [DOMAIN byHand -> SUBSET Params]
    BY StoreFacts, PartialIs
  <2> QED
    BY <2>1, <2>2, StoreFacts
<1>6. CASE match = {}
  BY <1>2, <1>4, <1>6 DEF BaseRight
<1>7. CASE match # {}
  <2>1. PICK c \in match : match = {c}
    BY <1>3, <1>7
  <2>2. (CHOOSE d \in match : TRUE) = c
    BY <2>1
  <2>3. base = {ledger[c]}
    BY <2>1, <1>2, <1>4
  <2>4. (CHOOSE x \in base : TRUE) = ledger[c]
    BY <2>3
  <2>5. UNION {byHand[d] : d \in match} = byHand[c]
    BY <2>1
  <2> QED
    BY <2>1, <2>2, <2>3, <2>4, <2>5, <1>2, <1>5 DEF BaseRight
<1> QED
  BY <1>6, <1>7

(* A context gets its entry, and its set: what it inherits, less what is   *)
(* set by hand now.                                                        *)
StoringRight(ctx, H, new, auto, hand) ==
    /\ StoredRight(new) /\ AutoRight(new, auto, hand) /\ auto \in Partial(Ctx, SUBSET Params)
    /\ hand \in Partial(Ctx, SUBSET Params) /\ hand[ctx] = H /\ DOMAIN hand = DOMAIN byHand \cup {ctx}
    /\ \A c \in DOMAIN byHand : c # ctx => hand[c] = byHand[c]
    /\ \A c \in Ctx : Has(new, c) => c = ctx \/ Has(s.stored, c)
    /\ ctx.name \in DOMAIN new

(* What was set by hand for the context that a new one inherits from       *)
HandOfMatch(ctx) ==
    UNION {byHand[d] : d \in LedgerMatch(ctx.name, ctx.time) \cap StoredContexts(s)}

(* A context that is stored gets an auto-update set that is right for it.  *)
LEMMA AutoOfStoring ==
    ASSUME SettingsConstants, IInv, NEW ctx \in Ctx, ctx.time \in Times,
           ctx \notin DOMAIN ledger, ctx \notin DOMAIN s.auto,
           NEW S \in [Params -> Values], NEW new, new = Inserted(s.stored, ctx, S),
           NEW P \in SUBSET Params,
           NEW hand, NEW H, H = P \cup HandOfMatch(ctx), hand = Adding(byHand, ctx, H),
           NEW auto, auto = Adding(s.auto, ctx, AutoOf(s, ctx) \ P)
    PROVE  StoringRight(ctx, H, new, auto, hand)
<1>1. /\ H = P \cup UNION {byHand[d] : d \in LedgerMatch(ctx.name, ctx.time) \cap StoredContexts(s)}
      /\ hand = Over([c \in {ctx} |-> H], byHand)
      /\ auto = Over([c \in {ctx} |-> AutoOf(s, ctx) \ P], s.auto)
  BY DEF Adding, HandOfMatch
<1>2. ~Has(s.stored, ctx)
  BY StoreFacts, ParametersKnown
<1>3. PICK E : E = [time |-> ctx.time, settings |-> S]
  OBVIOUS
<1>4. /\ StoredRight(new) /\ DOMAIN new = DOMAIN s.stored \cup {ctx.name}
      /\ \A m \in DOMAIN s.stored : m # ctx.name => new[m] = s.stored[m]
      /\ ToSet(new[ctx.name]) = {E} \cup (IF ctx.name \in DOMAIN s.stored THEN ToSet(s.stored[ctx.name]) ELSE {})
  <2>1. InsertedRight(s.stored, ctx, E, new)
    BY <1>2, <1>3, StoreFacts, InsertedIs
  <2> QED
    BY <2>1, Zenon DEF InsertedRight
<1>5. ASSUME NEW c \in Ctx, Has(new, c), c # ctx PROVE Has(s.stored, c)
  <2>1. PICK e \in ToSet(new[c.name]) : e.time = c.time
    BY <1>5 DEF Has
  <2>2. c.name \in DOMAIN new
    BY <1>5 DEF Has
  <2>3. CASE c.name = ctx.name
    <3>1. c.time # ctx.time
      BY <2>3, <1>5 DEF Ctx
    <3>2. e # E
      BY <3>1, <2>1, <1>3
    <3>3. c.name \in DOMAIN s.stored /\ e \in ToSet(s.stored[c.name])
      BY <3>2, <2>1, <2>3, <1>4
    <3> QED
      BY <3>3, <2>1, Zenon DEF Has
  <2>4. CASE c.name # ctx.name
    <3>1. c.name \in DOMAIN s.stored /\ e \in ToSet(s.stored[c.name])
      BY <2>1, <2>2, <2>4, <1>4
    <3> QED
      BY <3>1, <2>1, Zenon DEF Has
  <2> QED
    BY <2>3, <2>4
<1>6. PICK match : /\ match = BestMatch(s.stored, ctx.name, ctx.time)
                   /\ H = P \cup UNION {byHand[d] : d \in match}
                   /\ UNION {byHand[d] : d \in match} \subseteq Params
  <2>1. PICK match : match = LedgerMatch(ctx.name, ctx.time) \cap StoredContexts(s)
    OBVIOUS
  <2>2. PICK base : base = Lookup(s.stored, ctx.name, ctx.time)
    OBVIOUS
  <2>3. BaseRight(ctx, match, base)
    BY <2>1, <2>2, BaseIs
  <2> QED
    BY <1>1, <2>1, <2>3, Zenon DEF BaseRight
<1>7. PICK A \in SUBSET Params : A = AutoOf(s, ctx)
  BY StoreFacts, AutoOfType
<1>8. /\ Params \ A \subseteq UNION {byHand[d] : d \in match}
      /\ expiry = Never => A \cap UNION {byHand[d] : d \in match} = {}
  <2>1. Inherits(s, ctx, byHand, match)
    BY <1>6, StoreFacts, AutoOfNewContext
  <2> QED
    BY <2>1, <1>7, Zenon DEF Inherits
<1>9. /\ DOMAIN auto = DOMAIN s.auto \cup {ctx} /\ auto[ctx] = A \ P
      /\ \A c \in DOMAIN s.auto : c # ctx => auto[c] = s.auto[c]
      /\ auto = [c \in DOMAIN auto |-> auto[c]]
  BY <1>1, <1>7 DEF Over
<1>10. /\ DOMAIN hand = DOMAIN byHand \cup {ctx} /\ hand[ctx] = H
       /\ \A c \in DOMAIN byHand : c # ctx => hand[c] = byHand[c]
       /\ hand = [c \in DOMAIN hand |-> hand[c]]
  BY <1>1 DEF Over
<1>11. auto \in Partial(Ctx, SUBSET Params)
  <2>1. DOMAIN s.auto \subseteq Ctx /\ s.auto \in [DOMAIN s.auto -> SUBSET Params]
    BY StoreFacts, PartialIs
  <2>2. DOMAIN auto \subseteq Ctx /\ auto \in [DOMAIN auto -> SUBSET Params]
    BY <2>1, <1>9
  <2> QED
    BY <2>2, PartialIs
<1>12. hand \in Partial(Ctx, SUBSET Params)
  <2>1. DOMAIN byHand \subseteq Ctx /\ byHand \in [DOMAIN byHand -> SUBSET Params]
    BY StoreFacts, PartialIs
  <2>2. H \in SUBSET Params
    BY <1>6
  <2>3. DOMAIN hand \subseteq Ctx /\ hand \in [DOMAIN hand -> SUBSET Params]
    <3>1. ASSUME NEW c \in DOMAIN hand PROVE c \in Ctx /\ hand[c] \in SUBSET Params
      <4>1. CASE c = ctx
        BY <4>1, <2>2, <1>10
      <4>2. CASE c # ctx
        BY <4>2, <2>1, <1>10
      <4> QED
        BY <4>1, <4>2
    <3> QED
      BY <3>1, <1>10
  <2> QED
    BY <2>3, PartialIs
<1>13. ASSUME NEW c \in Ctx, Has(new, c)
       PROVE  /\ c \in DOMAIN auto => Params \ auto[c] \subseteq hand[c]
              /\ expiry = Never => c \in DOMAIN auto /\ auto[c] \cap hand[c] = {}
  <2>1. CASE c = ctx
    BY <2>1, <1>6, <1>8, <1>9, <1>10
  <2>2. CASE c # ctx
    <3>1. Has(s.stored, c)
      BY <2>2, <1>5, <1>13
    <3>2. /\ c \in DOMAIN s.auto => Params \ s.auto[c] \subseteq byHand[c]
          /\ expiry = Never => c \in DOMAIN s.auto /\ s.auto[c] \cap byHand[c] = {}
      BY <3>1, StoreFacts, Zenon DEF AutoRight
    <3>3. c \in DOMAIN byHand
      BY <3>1, StoreFacts, ParametersKnown
    <3>4. hand[c] = byHand[c] /\ (c \in DOMAIN auto <=> c \in DOMAIN s.auto)
      BY <3>3, <2>2, <1>9, <1>10
    <3> QED
      BY <3>2, <3>4, <2>2, <1>9
  <2> QED
    BY <2>1, <2>2
<1>14. AutoRight(new, auto, hand)
  BY <1>13 DEF AutoRight
<1> QED
  BY <1>4, <1>5, <1>10, <1>11, <1>12, <1>14 DEF StoringRight

(* Removing what is outdated leaves less, and with it what goes with it.   *)
RestKept(st, at, hand, new) ==
    /\ new.stored = [m \in DOMAIN st.stored |-> Rest(st.stored[m], at)]
    /\ AutoRight(new.stored, new.auto, hand)
    /\ \A c : Has(new.stored, c) => Has(st.stored, c)
    /\ new.auto \in Partial(Ctx, SUBSET Params)
    /\ new.active = st.active /\ new.staged = st.staged /\ new.changed = st.changed
    /\ new = [stored |-> new.stored, auto |-> new.auto, active |-> new.active,
              staged |-> new.staged, changed |-> new.changed]

(* The auto-update sets that are left are those of what is left.           *)
LEMMA RemoveExpiredKeeps ==
    ASSUME SettingsConstants, expiry \in Nat \cup {Never}, NEW st \in Store, StoredRight(st.stored), NEW hand,
           AutoRight(st.stored, st.auto, hand), NEW at \in Nat, NEW new, new = RemoveExpired(st, at)
    PROVE  RestKept(st, at, hand, new)
<1>1. /\ new.stored = [m \in DOMAIN st.stored |-> Rest(st.stored[m], at)]
      /\ new.auto \in Partial(Ctx, SUBSET Params)
      /\ DOMAIN new.auto \subseteq DOMAIN st.auto /\ \A c \in DOMAIN new.auto : new.auto[c] = st.auto[c]
      /\ expiry = Never => \A c \in DOMAIN st.auto : Has(new.stored, c) => c \in DOMAIN new.auto
      /\ new.active = st.active /\ new.staged = st.staged /\ new.changed = st.changed
      /\ new = [stored |-> new.stored, auto |-> new.auto, active |-> new.active,
                staged |-> new.staged, changed |-> new.changed]
  <2>1. ExpiredRight(st, at, new)
    BY RemoveExpiredIs
  <2> QED
    BY <2>1, Zenon DEF ExpiredRight
<1>2. \A m \in DOMAIN new.stored : m \in DOMAIN st.stored /\ ToSet(new.stored[m]) \subseteq ToSet(st.stored[m])
  <2> TAKE m \in DOMAIN new.stored
  <2>1. m \in DOMAIN st.stored /\ new.stored[m] = Rest(st.stored[m], at)
    BY <1>1
  <2>2. st.stored[m] \in Seq(Entry) /\ Strict(st.stored[m]) /\ MaxTime \in Nat
    BY <2>1, StoredIs DEF SettingsConstants
  <2>3. RestRight(st.stored[m], Rest(st.stored[m], at), at)
    BY <2>2, Resting
  <2> QED
    BY <2>1, <2>3, Zenon DEF RestRight
<1>3. ASSUME NEW c, Has(new.stored, c) PROVE Has(st.stored, c)
  <2>1. PICK e \in ToSet(new.stored[c.name]) : e.time = c.time
    BY <1>3 DEF Has
  <2>2. c.name \in DOMAIN new.stored
    BY <1>3 DEF Has
  <2>3. c.name \in DOMAIN st.stored /\ e \in ToSet(st.stored[c.name])
    BY <2>1, <2>2, <1>2
  <2> QED
    BY <2>1, <2>3, Zenon DEF Has
<1>4. ASSUME NEW c \in Ctx, Has(new.stored, c)
      PROVE  /\ c \in DOMAIN new.auto => Params \ new.auto[c] \subseteq hand[c]
             /\ expiry = Never => c \in DOMAIN new.auto /\ new.auto[c] \cap hand[c] = {}
  <2>1. Has(st.stored, c)
    BY <1>3, <1>4
  <2>2. /\ c \in DOMAIN st.auto => Params \ st.auto[c] \subseteq hand[c]
        /\ expiry = Never => c \in DOMAIN st.auto /\ st.auto[c] \cap hand[c] = {}
    BY <2>1, Zenon DEF AutoRight
  <2> QED
    BY <2>2, <1>1, <1>4
<1>5. AutoRight(new.stored, new.auto, hand)
  BY <1>4 DEF AutoRight
<1> QED
  BY <1>1, <1>3, <1>5 DEF RestKept

(* What the history records of a context that is stored                    *)
LedgerRight(ctx, S, led) ==
    /\ led \in Partial(Ctx, [Params -> Values]) /\ DOMAIN led = DOMAIN ledger \cup {ctx}
    /\ led[ctx] = S /\ \A c \in DOMAIN ledger : c # ctx => led[c] = ledger[c]
    /\ \A c \in DOMAIN led : c.time > 0

(* Nothing else that it records changes.                                   *)
LEMMA LedgerNext ==
    ASSUME SettingsConstants, IInv, NEW ctx \in Ctx, ctx.time \in Times, NEW S \in [Params -> Values],
           NEW led, led = Over([c \in {ctx} |-> S], ledger)
    PROVE  LedgerRight(ctx, S, led)
<1>1. DOMAIN ledger \subseteq Ctx /\ ledger \in [DOMAIN ledger -> [Params -> Values]]
  BY StoreFacts, PartialIs
<1>2. /\ DOMAIN led = DOMAIN ledger \cup {ctx} /\ led[ctx] = S
      /\ \A c \in DOMAIN ledger : c # ctx => led[c] = ledger[c]
      /\ led = [c \in DOMAIN led |-> led[c]]
  BY DEF Over
<1>3. DOMAIN led \subseteq Ctx /\ led \in [DOMAIN led -> [Params -> Values]]
  BY <1>1, <1>2
<1>4. led \in Partial(Ctx, [Params -> Values])
  BY <1>3, PartialIs
<1>5. ctx.time > 0
  BY DEF Times
<1> QED
  BY <1>2, <1>4, <1>5 DEF IInv, Typed, LedgerRight

(* What set() and resetDefaults() leave of what is stored, once the entries
   that are outdated are removed, is right for what the history then records. *)
LEMMA StoringNext ==
    ASSUME SettingsConstants, IInv, NEW at \in Nat, now <= at, NEW ctx \in Ctx, ctx.time \in Times,
           ctx \notin DOMAIN ledger, NEW S \in [Params -> Values],
           NEW led, led = Adding(ledger, ctx, S), NEW new, new = Inserted(s.stored, ctx, S),
           NEW kept, kept = AllRest(new, at)
    PROVE  RightlyKept(kept, led, at)
<1>1. /\ expiry \in Nat \cup {Never} /\ now \in Nat /\ RightlyKept(s.stored, ledger, now)
  BY StoreFacts
<1> QED
  BY <1>1, StoringKeeps

(* set()                                                                   *)
LEMMA SetStep ==
    ASSUME SettingsConstants, IInv, NEW params \in Requests, NEW n \in Names, NEW t \in Times,
           Set(params, [name |-> n, time |-> t])
    PROVE  StepRight
<1>1. PICK ctx \in Ctx : ctx = [name |-> n, time |-> t] /\ ctx.time \in Times /\ ctx.name = n /\ ctx.time = t
  BY StoreFacts DEF Ctx, Times
<1>2. /\ UNCHANGED <<live, defaults, expiry, phase, back, pending, origin, raced, target, tagged>>
      /\ ctx \notin DOMAIN ledger /\ ctx \notin DOMAIN s.auto /\ calls' = calls + 1
      /\ now' \in now .. Min({now + 1, MaxTime})
      /\ s' = SetParameters(s, params, ctx, now')
      /\ RecordSet(params, ctx)
  BY <1>1 DEF Set, Count
<1>3. now' \in Times /\ now' \in Nat /\ now <= now'
  <2>1. Min({now + 1, MaxTime}) \in {now + 1, MaxTime} /\ \A y \in {now + 1, MaxTime} : Min({now + 1, MaxTime}) <= y
    <3>1. {now + 1, MaxTime} \in SUBSET Nat /\ {now + 1, MaxTime} # {}
      BY StoreFacts
    <3> QED
      BY <3>1, MinOfSet
  <2>2. PICK m \in Int : m = Min({now + 1, MaxTime}) /\ m <= MaxTime
    BY <2>1, StoreFacts
  <2> QED
    BY <2>2, <1>2, StoreFacts DEF Times
<1>4. params \in Partial(Params, Values) /\ DOMAIN params \in SUBSET Params
  BY PartialIs DEF SettingsConstants
<1>5. PICK match : match = LedgerMatch(ctx.name, ctx.time) \cap StoredContexts(s)
  OBVIOUS
<1>6. PICK base : base = Lookup(s.stored, ctx.name, ctx.time)
  OBVIOUS
<1>7. /\ match = {} <=> base = {}
      /\ match # {} => /\ (CHOOSE x \in base : TRUE) = ledger[CHOOSE c \in match : TRUE]
                       /\ ledger[CHOOSE c \in match : TRUE] \in [Params -> Values]
  <2>1. BaseRight(ctx, match, base)
    BY <1>5, <1>6, BaseIs
  <2> QED
    BY <2>1, Zenon DEF BaseRight
<1>8. PICK from \in [Params -> Values] : /\ from = IF base = {} THEN defaults ELSE CHOOSE x \in base : TRUE
                                         /\ from = IF match = {} THEN defaults ELSE ledger[CHOOSE c \in match : TRUE]
  <2>1. CASE match = {}
    BY <2>1, <1>7 DEF IInv, Typed
  <2>2. CASE match # {}
    BY <2>2, <1>7
  <2> QED
    BY <2>1, <2>2
<1>9. PICK S \in [Params -> Values] : S = Over(params, from)
  BY <1>4, OverTotal
<1>10. PICK H : H = DOMAIN params \cup UNION {byHand[d] : d \in match}
  OBVIOUS
<1>11. /\ ledger' = Over([c \in {ctx} |-> S], ledger)
       /\ byHand' = Over([c \in {ctx} |-> H], byHand)
  <2>1. /\ ledger' = Over([d \in {ctx} |-> Over(params, IF match = {} THEN defaults
                                                         ELSE ledger[CHOOSE c \in match : TRUE])], ledger)
        /\ byHand' = Over([c \in {ctx} |-> DOMAIN params \cup UNION {byHand[d] : d \in match}], byHand)
    BY <1>2, <1>5 DEF RecordSet
  <2> QED
    BY <2>1, <1>8, <1>9, <1>10
<1>12. PICK new : new = Inserted(s.stored, ctx, S)
  OBVIOUS
<1>13. PICK auto : auto = Over([c \in {ctx} |-> AutoOf(s, ctx) \ DOMAIN params], s.auto)
  OBVIOUS
<1>14. PICK st : st = [s EXCEPT !.stored = new, !.auto = auto]
  OBVIOUS
<1>15. s' = RemoveExpired(st, now')
  BY <1>2, <1>6, <1>8, <1>9, <1>12, <1>13, <1>14, Zenon DEF SetParameters
<1>16. /\ StoredRight(new) /\ AutoRight(new, auto, byHand') /\ auto \in Partial(Ctx, SUBSET Params)
       /\ byHand' \in Partial(Ctx, SUBSET Params) /\ DOMAIN byHand' = DOMAIN byHand \cup {ctx}
       /\ \A c \in DOMAIN byHand : c # ctx => byHand'[c] = byHand[c]
       /\ \A c \in Ctx : Has(new, c) => c = ctx \/ Has(s.stored, c)
  <2>1. /\ byHand' = Adding(byHand, ctx, H) /\ auto = Adding(s.auto, ctx, AutoOf(s, ctx) \ DOMAIN params)
        /\ H = DOMAIN params \cup HandOfMatch(ctx)
    BY <1>5, <1>10, <1>11, <1>13 DEF Adding, HandOfMatch
  <2>2. StoringRight(ctx, H, new, auto, byHand')
    BY <2>1, <1>1, <1>2, <1>4, <1>12, AutoOfStoring
  <2> QED
    BY <2>2, Zenon DEF StoringRight
<1>17. /\ st \in Store /\ st.stored = new /\ st.auto = auto /\ st.active = s.active
       /\ st.staged = s.staged /\ st.changed = s.changed
  <2>1. /\ st.stored = new /\ st.auto = auto /\ st.active = s.active
        /\ st.staged = s.staged /\ st.changed = s.changed
        /\ st = [stored |-> st.stored, auto |-> st.auto, active |-> st.active,
                 staged |-> st.staged, changed |-> st.changed]
    <3>1. s = [stored |-> s.stored, auto |-> s.auto, active |-> s.active,
               staged |-> s.staged, changed |-> s.changed]
      BY StoreFacts, StoreIs
    <3> QED
      BY <3>1, <1>14
  <2>2. new \in Partial(Names, Seq(Entry))
    BY <1>16 DEF StoredRight
  <2> QED
    BY <2>1, <2>2, <1>16, StoreFacts, StoreIs, Zenon
<1>18. /\ s'.stored = [m \in DOMAIN new |-> Rest(new[m], now')]
       /\ AutoRight(s'.stored, s'.auto, byHand')
       /\ \A c : Has(s'.stored, c) => Has(new, c)
       /\ s'.auto \in Partial(Ctx, SUBSET Params)
       /\ s'.active = s.active /\ s'.staged = s.staged /\ s'.changed = s.changed
       /\ s' = [stored |-> s'.stored, auto |-> s'.auto, active |-> s'.active,
                staged |-> s'.staged, changed |-> s'.changed]
  <2>1. RestKept(st, now', byHand', s')
    BY <1>3, <1>15, <1>16, <1>17, StoreFacts, RemoveExpiredKeeps
  <2> QED
    BY <2>1, <1>17, Zenon DEF RestKept
<1>19. RightlyKept(s'.stored, ledger', now')
  <2>1. ledger' = Adding(ledger, ctx, S) /\ s'.stored = AllRest(new, now')
    BY <1>11, <1>18 DEF Adding, AllRest
  <2> QED
    BY <2>1, <1>1, <1>2, <1>3, <1>12, StoringNext
<1>20. StoreInv' /\ AutoInv'
  BY <1>2, <1>18, <1>19, KeptNext, AutoNext
<1>21. s' \in Store
  <2>1. s'.stored \in Partial(Names, Seq(Entry))
    BY <1>19 DEF RightlyKept, StoredRight
  <2> QED
    BY <2>1, <1>18, StoreFacts, StoreIs, Zenon
<1>22. /\ ledger' \in Partial(Ctx, [Params -> Values]) /\ DOMAIN ledger' = DOMAIN ledger \cup {ctx}
       /\ \A c \in DOMAIN ledger' : c.time > 0
  <2>1. LedgerRight(ctx, S, ledger')
    BY <1>1, <1>11, LedgerNext
  <2> QED
    BY <2>1, Zenon DEF LedgerRight
<1>23. Typed'
  <2>1. DOMAIN ledger' \subseteq DOMAIN byHand'
    BY <1>16, <1>22, StoreFacts
  <2> QED
    BY <2>1, <1>2, <1>3, <1>16, <1>21, <1>22 DEF IInv, Typed
<1>24. SwitchInv' /\ ClientInv' /\ Carried
  BY <1>2, <1>18 DEF IInv, SwitchInv, InForce, ClientInv, Carried
<1>25. ManualInv' /\ HandStays
  <2>1. expiry = Never => s.active \in DOMAIN ledger /\ s.active # ctx /\ byHand'[s.active] = byHand[s.active]
    BY <1>2, <1>16, StoreFacts DEF IInv, ManualInv
  <2>2. s'.active \in StoredContexts(s') /\ s.active # ctx => s.active \in StoredContexts(s)
    BY <1>16, <1>18, StoreFacts, HasIs
  <2>3. StoredContexts(s)' = StoredContexts(s')
    OBVIOUS
  <2> QED
    BY <2>1, <2>2, <2>3, <1>2, <1>18, <1>22 DEF IInv, ManualInv, HandStays
<1> QED
  BY <1>20, <1>23, <1>24, <1>25 DEF StepRight, IInv

(* The history knows all that is stored                                    *)
LEMMA KnownStoring ==
    ASSUME SettingsConstants, IInv, NEW ctx \in Ctx, ctx.time \in Times, ctx \notin DOMAIN ledger,
           NEW S \in [Params -> Values], NEW led, LedgerRight(ctx, S, led),
           NEW new, new = Inserted(s.stored, ctx, S)
    PROVE  Known(new, led)
<1>1. PICK E : E = [time |-> ctx.time, settings |-> S]
  OBVIOUS
<1>2. ~Has(s.stored, ctx)
  BY StoreFacts, ParametersKnown
<1>3. /\ DOMAIN new = DOMAIN s.stored \cup {ctx.name}
      /\ \A m \in DOMAIN s.stored : m # ctx.name => new[m] = s.stored[m]
      /\ ToSet(new[ctx.name]) = {E} \cup (IF ctx.name \in DOMAIN s.stored THEN ToSet(s.stored[ctx.name]) ELSE {})
  <2>1. InsertedRight(s.stored, ctx, E, new)
    BY <1>1, <1>2, StoreFacts, InsertedIs
  <2> QED
    BY <2>1, Zenon DEF InsertedRight
<1>4. /\ DOMAIN led = DOMAIN ledger \cup {ctx} /\ led[ctx] = S
      /\ \A c \in DOMAIN ledger : c # ctx => led[c] = ledger[c]
  BY Zenon DEF LedgerRight
<1>5. ASSUME NEW m \in DOMAIN new, NEW e \in ToSet(new[m])
      PROVE  At(m, e) \in DOMAIN led /\ led[At(m, e)] = e.settings
  <2>1. CASE m = ctx.name /\ e = E
    <3>1. At(m, e) = ctx /\ e.settings = S
      BY <2>1, <1>1 DEF At, Ctx
    <3> QED
      BY <3>1, <1>4
  <2>2. CASE m \in DOMAIN s.stored /\ e \in ToSet(s.stored[m])
    <3>1. At(m, e) \in DOMAIN ledger /\ ledger[At(m, e)] = e.settings
      BY <2>2, StoreFacts DEF Known
    <3> QED
      BY <3>1, <1>4
  <2>3. (m = ctx.name /\ e = E) \/ (m \in DOMAIN s.stored /\ e \in ToSet(s.stored[m]))
    <3>1. CASE m = ctx.name
      BY <3>1, <1>3
    <3>2. CASE m # ctx.name
      BY <3>2, <1>3
    <3> QED
      BY <3>1, <3>2
  <2> QED
    BY <2>1, <2>2, <2>3
<1> QED
  BY <1>5 DEF Known

(* resetDefaults()                                                         *)
LEMMA ResetDefaultsStep ==
    ASSUME SettingsConstants, IInv, ResetDefaults
    PROVE  StepRight
<1> DEFINE ctx == [name |-> Default, time |-> now]
           new == Inserted(s.stored, ctx, defaults)
           auto == Over([c \in {ctx} |-> AutoOf(s, ctx)], s.auto)
           st0 == [s EXCEPT !.stored = new, !.auto = auto]
           st == ActivateContext(st0, Default, now)
           st2 == [st EXCEPT !.staged = Nothing, !.changed = FALSE]
           H == UNION {byHand[d] : d \in LedgerMatch(Default, now) \cap StoredContexts(s)}
<1>1. /\ UNCHANGED <<now, expiry, phase, back, pending, tagged, defaults, target>>
      /\ phase = "idle" /\ calls' = calls + 1
      /\ ctx \notin DOMAIN ledger /\ ctx \notin DOMAIN s.auto
      /\ live' = Over(st.staged, live)
      /\ s' = RemoveExpired(st2, now)
      /\ ledger' = Over([c \in {ctx} |-> defaults], ledger)
      /\ byHand' = Over([c \in {ctx} |-> H], byHand)
      /\ origin' = [p \in Params |-> "nobody"] /\ raced' = {}
  BY DEF ResetDefaults, Message, Count
<1>2. ctx \in Ctx /\ ctx.time \in Times /\ ctx.name = Default /\ ctx.time = now
  BY StoreFacts DEF Ctx, Times
<1>3. defaults \in [Params -> Values]
  BY DEF IInv, Typed
<1>4. /\ StoredRight(new) /\ AutoRight(new, auto, byHand') /\ auto \in Partial(Ctx, SUBSET Params)
      /\ byHand' \in Partial(Ctx, SUBSET Params) /\ DOMAIN byHand' = DOMAIN byHand \cup {ctx}
  <2> DEFINE P == {}
             auto1 == Over([c \in {ctx} |-> AutoOf(s, ctx) \ P], s.auto)
             H1 == P \cup UNION {byHand[d] : d \in LedgerMatch(ctx.name, ctx.time) \cap StoredContexts(s)}
  <2>1. auto1 = auto /\ H1 = H /\ P \in SUBSET Params
    BY <1>2
  <2>2. byHand' = Adding(byHand, ctx, H1) /\ auto1 = Adding(s.auto, ctx, AutoOf(s, ctx) \ P)
        /\ H1 = P \cup HandOfMatch(ctx)
    BY <2>1, <1>1 DEF Adding, HandOfMatch
  <2>3. StoringRight(ctx, H1, new, auto1, byHand')
    <3> HIDE DEF P, ctx, auto1, H1, new
    <3>1. new = Inserted(s.stored, ctx, defaults)
      BY DEF new
    <3> QED
      BY <3>1, <2>1, <2>2, <1>1, <1>2, <1>3, AutoOfStoring
  <2>4. StoringRight(ctx, H1, new, auto, byHand')
    BY <2>1, <2>3
  <2> HIDE DEF H1, new, auto, ctx
  <2> QED
    BY <2>4, Zenon DEF StoringRight
<1>5. ledger' = Adding(ledger, ctx, defaults)
  BY <1>1 DEF Adding
<1>6. LedgerRight(ctx, defaults, ledger')
  BY <1>1, <1>2, <1>3, LedgerNext
<1>7. /\ ledger' \in Partial(Ctx, [Params -> Values]) /\ DOMAIN ledger' = DOMAIN ledger \cup {ctx}
      /\ \A c \in DOMAIN ledger' : c.time > 0
  <2> HIDE DEF ctx
  <2> QED
    BY <1>6, Zenon DEF LedgerRight
<1>8. Known(new, ledger')
  <2> HIDE DEF ctx
  <2> QED
    BY <1>1, <1>2, <1>3, <1>6, KnownStoring
<1>9. DOMAIN ledger' \subseteq DOMAIN byHand'
  BY <1>4, <1>7, StoreFacts
<1>10. /\ st0 \in Store /\ st0.stored = new /\ st0.auto = auto /\ st0.active = s.active
  <2>1. s = [stored |-> s.stored, auto |-> s.auto, active |-> s.active,
             staged |-> s.staged, changed |-> s.changed]
    BY StoreFacts, StoreIs
  <2> HIDE DEF new, auto, ctx
  <2>2. st0 = [s EXCEPT !.stored = new, !.auto = auto]
    OBVIOUS
  <2> HIDE DEF st0
  <2>3. /\ st0.stored = new /\ st0.auto = auto /\ st0.active = s.active
        /\ st0.staged = s.staged /\ st0.changed = s.changed
        /\ st0 = [stored |-> st0.stored, auto |-> st0.auto, active |-> st0.active,
                  staged |-> st0.staged, changed |-> st0.changed]
    BY <2>1, <2>2
  <2>4. new \in Partial(Names, Seq(Entry))
    BY <1>4 DEF StoredRight
  <2> QED
    BY <2>3, <2>4, <1>4, StoreFacts, StoreIs, Zenon
<1>11. /\ st \in Store /\ st.stored = new /\ AutoRight(st.stored, st.auto, byHand')
       /\ st.active = s.active => st = st0
       /\ st.active # s.active => st.active \in DOMAIN ledger'
  <2>1. Switched(st0, st, ledger', byHand')
    <3> HIDE DEF new, auto, ctx, st0
    <3> QED
      BY <1>4, <1>8, <1>9, <1>10, StoreFacts, Switching
  <2> HIDE DEF st0, st, new, auto, ctx
  <2> QED
    BY <2>1, <1>10, Zenon DEF Switched
<1>12. /\ st2 \in Store /\ st2.stored = new /\ AutoRight(st2.stored, st2.auto, byHand')
       /\ st2.active = st.active
  <2>1. PICK b \in BOOLEAN : b = FALSE
    OBVIOUS
  <2> HIDE DEF st
  <2>2. st2 = Staging(st, Nothing, b)
    BY <2>1 DEF Staging
  <2>3. st2 \in Store /\ st2.stored = st.stored /\ st2.auto = st.auto /\ st2.active = st.active
    BY <2>2, <1>11, NothingIs, WithStaged
  <2> HIDE DEF st2, new
  <2> QED
    BY <2>3, <1>11
<1>13. /\ s'.stored = [m \in DOMAIN new |-> Rest(new[m], now)]
       /\ AutoRight(s'.stored, s'.auto, byHand')
       /\ s'.auto \in Partial(Ctx, SUBSET Params)
       /\ s'.active = st2.active /\ s'.staged = st2.staged /\ s'.changed = st2.changed
       /\ s' = [stored |-> s'.stored, auto |-> s'.auto, active |-> s'.active,
                staged |-> s'.staged, changed |-> s'.changed]
  <2> HIDE DEF st2, new
  <2>1. RestKept(st2, now, byHand', s')
    BY <1>1, <1>4, <1>12, StoreFacts, RemoveExpiredKeeps
  <2> QED
    BY <2>1, <1>12, Zenon DEF RestKept
<1> HIDE DEF ctx, new, auto, st0, st, st2, H
<1>14. RightlyKept(s'.stored, ledger', now')
  <2>1. s'.stored = AllRest(new, now) /\ now <= now
    BY <1>13, StoreFacts DEF AllRest
  <2>2. RightlyKept(s'.stored, ledger', now)
    BY <2>1, <1>1, <1>2, <1>3, <1>5, StoreFacts, StoringNext DEF new
  <2> QED
    BY <2>2, <1>1
<1>15. StoreInv' /\ AutoInv'
  BY <1>1, <1>13, <1>14, KeptNext, AutoNext
<1>16. s' \in Store
  <2>1. s'.stored \in Partial(Names, Seq(Entry))
    BY <1>14 DEF RightlyKept, StoredRight
  <2>2. st2.active \in Ctx /\ st2.staged \in Partial(Params, Values) /\ st2.changed \in BOOLEAN
    BY <1>12, StoreIs, Zenon
  <2> QED
    BY <2>1, <2>2, <1>13, StoreIs, Zenon
<1>17. live' \in [Params -> Values]
  <2>1. st.staged \in Partial(Params, Values) /\ live \in [Params -> Values]
    BY <1>11, StoreIs DEF IInv, Typed
  <2> QED
    BY <2>1, <1>1, OverTotal
<1>18. Typed'
  <2>1. origin' \in [Params -> Origins]
    BY <1>1 DEF Origins
  <2> QED
    BY <2>1, <1>1, <1>4, <1>7, <1>9, <1>16, <1>17 DEF IInv, Typed
<1>19. SwitchInv' /\ ClientInv' /\ Carried
  BY <1>1 DEF IInv, SwitchInv, InForce, ClientInv, Carried
<1>20. ManualInv' /\ HandStays
  <2>1. expiry = Never => s.active \in DOMAIN ledger
    BY DEF IInv, ManualInv
  <2>2. s'.active = st.active
    BY <1>12, <1>13
  <2>3. expiry = Never => s'.active \in DOMAIN ledger'
    BY <2>1, <2>2, <1>7, <1>11
  <2> QED
    BY <2>3, <1>1, <1>7 DEF IInv, ManualInv, HandStays
<1> QED
  BY <1>15, <1>18, <1>19, <1>20 DEF StepRight, IInv

-----------------------------------------------------------------------------
(* The initial states *)

(* Block::init(): one entry is stored, that of the default context.         *)
LEMMA InitRight ==
    ASSUME SettingsConstants, Init
    PROVE  IInv
<1> DEFINE factory == [p \in Params |-> Factory]
           ctx == [name |-> Default, time |-> 1]
           settings == Over(Initial, factory)
           e == [time |-> 1, settings |-> settings]
           stored == [n \in {Default} |-> <<e>>]
           auto == [c \in {ctx} |-> Params \ DOMAIN Initial]
           first == [stored |-> stored, auto |-> auto, active |-> ctx, staged |-> Nothing, changed |-> FALSE]
           sent == Restrict(Initial, DOMAIN Initial \cap Forwarded)
<1>1. /\ now = 1 /\ defaults = factory /\ live = settings /\ s = Stage(first, sent)
      /\ expiry \in Expiries /\ phase = "idle" /\ back = "idle" /\ pending = Nothing /\ calls = 0
      /\ ledger = [c \in {ctx} |-> settings] /\ byHand = [c \in {ctx} |-> DOMAIN Initial]
      /\ origin = [p \in Params |-> "nobody"] /\ raced = {} /\ target = factory /\ tagged = {}
  BY DEF Init
<1>2. /\ Initial \in Partial(Params, Values) /\ factory \in [Params -> Values] /\ MaxTime \in Nat \ {0}
      /\ Default \in Names /\ expiry \in Nat \cup {Never}
  BY <1>1 DEF SettingsConstants
<1>3. settings \in [Params -> Values] /\ sent \in Partial(Params, Values) /\ DOMAIN Initial \subseteq Params
  <2> HIDE DEF factory
  <2> QED
    BY <1>2, OverTotal, RestrictIs, PartialIs
<1>4. ctx \in Ctx /\ ctx.name = Default /\ ctx.time = 1 /\ 1 \in Times
  BY <1>2 DEF Ctx, Times
<1> HIDE DEF factory, settings, sent
<1>5. e \in Entry /\ e.time = 1 /\ e.settings = settings
  BY <1>2, <1>3 DEF Entry
<1> HIDE DEF e
<1>6. /\ <<e>> \in Seq(Entry) /\ Strict(<<e>>) /\ ToSet(<<e>>) = {e}
  <2>1. Len(<<e>>) = 1 /\ <<e>>[1] = e /\ DOMAIN <<e>> = {1} /\ <<e>> \in Seq(Entry)
    BY <1>5
  <2>2. ToSet(<<e>>) = {e}
    <3>1. PICK v : v = <<e>>
      OBVIOUS
    <3>2. v \in Seq(Entry) /\ Len(v) = 1 /\ v[1] = e
      BY <2>1, <3>1
    <3>3. ToSet(v) = {v[i] : i \in 1..Len(v)}
      BY <3>2, Elements
    <3> QED
      BY <3>1, <3>2, <3>3
  <2> QED
    BY <2>1, <2>2 DEF Strict
<1>7. DOMAIN stored = {Default} /\ stored[Default] = <<e>> /\ stored = [m \in DOMAIN stored |-> stored[m]]
  OBVIOUS
<1>8. DOMAIN auto = {ctx} /\ auto[ctx] = Params \ DOMAIN Initial /\ auto = [c \in DOMAIN auto |-> auto[c]]
  OBVIOUS
<1> HIDE DEF stored, auto
<1>9. stored \in Partial(Names, Seq(Entry)) /\ StoredRight(stored)
  <2>1. stored \in Partial(Names, Seq(Entry))
    <3>1. DOMAIN stored \subseteq Names /\ stored \in [DOMAIN stored -> Seq(Entry)]
      BY <1>2, <1>6, <1>7
    <3> QED
      BY <3>1, PartialIs
  <2> QED
    BY <2>1, <1>6, <1>7 DEF StoredRight
<1>10. auto \in Partial(Ctx, SUBSET Params)
  <2>1. DOMAIN auto \subseteq Ctx /\ auto \in [DOMAIN auto -> SUBSET Params]
    BY <1>4, <1>8
  <2> QED
    BY <2>1, PartialIs
<1>11. first \in Store /\ first.stored = stored /\ first.auto = auto /\ first.active = ctx
  <2>1. PICK b \in BOOLEAN : b = FALSE
    OBVIOUS
  <2> DEFINE one == [stored |-> stored, auto |-> auto, active |-> ctx, staged |-> Nothing, changed |-> b]
  <2>2. one \in Store
    BY <1>4, <1>9, <1>10, NothingIs DEF Store
  <2>3. first = one
    BY <2>1
  <2> QED
    BY <2>2, <2>3
<1> HIDE DEF first
<1>12. /\ s \in Store /\ s.stored = stored /\ s.auto = auto /\ s.active = ctx
       /\ s.changed = (first.changed \/ DOMAIN s.staged # {})
  BY <1>1, <1>3, <1>11, StageIs
<1>13. \A c : Has(stored, c) <=> c.name = Default /\ c.time = 1
  BY <1>5, <1>6, <1>7 DEF Has
<1>14. /\ DOMAIN ledger = {ctx} /\ ledger[ctx] = settings /\ ledger \in Partial(Ctx, [Params -> Values])
       /\ DOMAIN byHand = {ctx} /\ byHand[ctx] = DOMAIN Initial /\ byHand \in Partial(Ctx, SUBSET Params)
  <2>1. /\ DOMAIN ledger \subseteq Ctx /\ ledger \in [DOMAIN ledger -> [Params -> Values]]
        /\ DOMAIN byHand \subseteq Ctx /\ byHand \in [DOMAIN byHand -> SUBSET Params]
    BY <1>1, <1>3, <1>4
  <2>2. ledger \in Partial(Ctx, [Params -> Values]) /\ byHand \in Partial(Ctx, SUBSET Params)
    BY <2>1, PartialIs
  <2> QED
    BY <2>2, <1>1
<1>15. StoreInv
  <2>1. At(Default, e) = ctx
    BY <1>5 DEF At
  <2>2. Recorded(stored, ledger)
    BY <2>1, <1>4, <1>5, <1>6, <1>7, <1>14 DEF Recorded
  <2>3. \A c \in DOMAIN ledger : Has(stored, c)
    BY <1>4, <1>13, <1>14
  <2> QED
    BY <2>2, <2>3, <1>9, <1>12 DEF StoreInv, RightlyKept
<1>16. AutoInv
  <2>1. ASSUME NEW c \in Ctx, Has(stored, c) PROVE c = ctx
    BY <2>1, <1>13 DEF Ctx
  <2> QED
    BY <2>1, <1>8, <1>12, <1>14 DEF AutoInv, AutoRight
<1>17. Typed
  <2>1. origin \in [Params -> Origins]
    BY <1>1 DEF Origins
  <2>2. DOMAIN ledger \subseteq DOMAIN byHand /\ \A c \in DOMAIN ledger : c.time > 0
    BY <1>4, <1>14
  <2> QED
    BY <2>1, <2>2, <1>1, <1>2, <1>3, <1>4, <1>12, <1>14, NothingIs DEF Typed
<1>18. SwitchInv /\ ClientInv
  <2>1. \A p \in Params : origin[p] = "nobody"
    BY <1>1
  <2> QED
    BY <2>1 DEF SwitchInv, InForce, ClientInv
<1>19. ManualInv
  BY <1>1, <1>12, <1>14 DEF ManualInv
<1> QED
  BY <1>15, <1>16, <1>17, <1>18, <1>19 DEF IInv

-----------------------------------------------------------------------------
(* The invariant *)

(* All steps                                                               *)
LEMMA NextRight ==
    ASSUME SettingsConstants, IInv, Next
    PROVE  StepRight
<1>1. CASE Work
  <2>1. CASE BeginWork \/ BeginChunk \/ EndTags \/ Chunk \/ Finish
    BY <2>1, BeginStep
  <2>2. CASE Apply
    BY <2>2, ApplyStep
  <2>3. CASE Clear
    BY <2>3, ClearStep
  <2>4. CASE Unset \/ UnsetAgain
    BY <2>4, UnsetStep
  <2>5. CASE NoChunk
    BY <2>5, NoChunkStep
  <2> QED
    BY <1>1, <2>1, <2>2, <2>3, <2>4, <2>5, Zenon DEF Work
<1>2. CASE \E tag \in [ctx : {{}} \cup {{c} : c \in [name : Names, time : Times]},
                       params : Requests \cup {Nothing}] : ReceiveTag(tag)
  BY <1>2, ReceiveTagStep
<1>3. CASE \E params \in Requests : SetStaged(params)
  BY <1>3, SetStagedStep
<1>4. CASE \E params \in Requests : \E n \in Names, t \in Times : Set(params, [name |-> n, time |-> t])
  BY <1>4, SetStep
<1>5. CASE \E n \in Names, t \in Times : ActivateMessage([name |-> n, time |-> t])
  BY <1>5, ActivateStep
<1>6. CASE \E n \in Names, t \in Times : RemoveContext([name |-> n, time |-> t])
  BY <1>6, RemoveStep
<1>7. CASE StoreDefaults
  BY <1>7, StoreDefaultsStep
<1>8. CASE ResetDefaults
  BY <1>8, ResetDefaultsStep
<1>9. CASE Tick
  BY <1>9, TickStep
<1> QED
  BY <1>1, <1>2, <1>3, <1>4, <1>5, <1>6, <1>7, <1>8, <1>9, Zenon DEF Next

(* Nothing changes.                                                        *)
LEMMA Stutter ==
    ASSUME IInv, UNCHANGED vars
    PROVE  IInv'
<1>1. UNCHANGED <<now, s, live, defaults, expiry, phase, back, pending, calls, ghostVars>>
      /\ UNCHANGED <<ledger, byHand, origin, raced, target, tagged>>
  BY DEF vars, ghostVars
<1>2. StoreInv /\ AutoInv /\ Typed /\ SwitchInv /\ ClientInv /\ ManualInv
  BY DEF IInv
<1>3. StoreInv' /\ AutoInv' /\ StoredContexts(s)' = StoredContexts(s)
  BY <1>1, <1>2, StoreUnchanged
<1>4. Typed'
  BY <1>1, <1>2 DEF Typed
<1>5. SwitchInv' /\ ClientInv'
  BY <1>1, <1>2 DEF SwitchInv, ClientInv, InForce
<1>6. ManualInv'
  BY <1>1, <1>2, <1>3 DEF ManualInv
<1> QED
  BY <1>3, <1>4, <1>5, <1>6 DEF IInv

(* The inductive invariant holds in every state of the settings of a block. *)
THEOREM Inductive == ASSUME SettingsConstants PROVE Spec => []IInv
<1>1. Init => IInv
  BY InitRight
<1>2. IInv /\ [Next]_vars => IInv'
  <2> SUFFICES ASSUME IInv, [Next]_vars PROVE IInv'
    OBVIOUS
  <2>1. CASE Next
    BY <2>1, NextRight DEF StepRight
  <2>2. CASE UNCHANGED vars
    BY <2>2, Stutter
  <2> QED
    BY <2>1, <2>2
<1> QED
  BY <1>1, <1>2, PTL DEF Spec

\* What Settings.tla calls Sorted, from the strict order.
LEMMA StrictSorted ==
    ASSUME NEW v \in Seq(Entry), Strict(v), MaxTime \in Nat
    PROVE  Sorted(v)
<1>1. \A i \in DOMAIN v : v[i].time \in Nat
  <2> TAKE i \in DOMAIN v
  <2>1. v[i] \in Entry
    OBVIOUS
  <2> QED
    BY <2>1 DEF Entry
<1>2. ASSUME NEW i \in DOMAIN v, NEW j \in DOMAIN v, i < j PROVE v[i].time <= v[j].time
  <2>1. v[i].time < v[j].time
    BY <1>2 DEF Strict
  <2> QED
    BY <2>1, <1>1
<1> QED
  BY <1>2 DEF Sorted

(* The type invariant, with the order that the searches rely on: the times *)
(* of the entries of a name in addStoredParameters() never go back.        *)
THEOREM TypesHold == ASSUME SettingsConstants PROVE Spec => []TypeOK
<1>1. IInv => TypeOK
  <2> SUFFICES ASSUME IInv PROVE TypeOK
    OBVIOUS
  <2>1. ASSUME NEW n \in DOMAIN s.stored
        PROVE  n \in Names /\ s.stored[n] \in Seq(Entry) /\ Sorted(s.stored[n])
    BY StoreFacts, StoredIs, StrictSorted
  <2>2. DOMAIN s.auto \subseteq Ctx /\ \A c \in DOMAIN s.auto : s.auto[c] \subseteq Params
    <3>1. DOMAIN s.auto \subseteq Ctx /\ s.auto \in [DOMAIN s.auto -> SUBSET Params]
      BY StoreFacts, PartialIs
    <3> QED
      BY <3>1
  <2> QED
    BY <2>1, <2>2, StoreFacts DEF TypeOK, IInv, Typed, Times
<1> QED
  BY <1>1, Inductive, PTL

(* Whatever set() removes as outdated, a look-up for now or for later finds *)
(* what it would find had nothing ever been removed.                       *)
THEOREM LookupsRight == ASSUME SettingsConstants PROVE Spec => []LookupsSurviveRemoval
<1>1. IInv => LookupsSurviveRemoval
  <2> SUFFICES ASSUME IInv, NEW n \in Names, NEW t \in now..MaxTime
               PROVE  /\ BestMatch(s.stored, n, t) \subseteq LedgerMatch(n, t)
                      /\ \A c \in LedgerMatch(n, t) \ BestMatch(s.stored, n, t) : Expired(c, now)
                      /\ expiry = Never =>
                            \A c \in BestMatch(s.stored, n, t) : ParametersAt(s.stored, c) = ledger[c]
    BY DEF LookupsSurviveRemoval
  <2>1. t \in Nat /\ t >= now
    BY StoreFacts
  <2> QED
    BY <2>1, MatchAgrees DEF IInv
<1> QED
  BY <1>1, Inductive, PTL

(* When work() is done and nothing is pending, the parameters that the last *)
(* switch of the context decided have the values stored for that context.  *)
THEOREM SwitchesWhole == ASSUME SettingsConstants PROVE Spec => []ContextInForce
<1>1. IInv => ContextInForce
  BY DEF IInv, SwitchInv, InForce, ContextInForce
<1> QED
  BY <1>1, Inductive, PTL

\* What every step keeps of the parameters staged for a client
LEMMA StepDrops ==
    ASSUME IInv, IInv', Carried
    PROVE  \A p \in Params \ raced :
              origin[p] = "client" /\ p \in DOMAIN s.staged =>
                 \/ /\ p \in DOMAIN s'.staged /\ s'.staged[p] = s.staged[p]
                    /\ phase' = "idle" /\ p \notin raced' => s'.changed
                 \/ p \notin DOMAIN s'.staged /\ live'[p] = s.staged[p]
                 \/ origin'[p] # "client"
                 \/ calls' # calls /\ phase' = phase /\ s'.active = s.active
<1> SUFFICES ASSUME NEW p \in Params \ raced, origin[p] = "client", p \in DOMAIN s.staged,
                    p \in DOMAIN s'.staged, s'.staged[p] = s.staged[p], origin'[p] = "client",
                    p \notin raced'
             PROVE  s'.changed
  BY DEF Carried
<1> QED
  BY DEF IInv, ClientInv

(* What a client has staged leaves the staged parameters only by becoming  *)
(* the value of the block, or because something else is staged for the     *)
(* parameter later, and as long as it waits work() is told so.             *)
THEOREM ClientsServed == ASSUME SettingsConstants PROVE Spec => NothingDropped
<1>1. IInv /\ IInv' /\ [Next]_vars =>
        [\A p \in Params \ raced :
           origin[p] = "client" /\ p \in DOMAIN s.staged =>
              \/ /\ p \in DOMAIN s'.staged /\ s'.staged[p] = s.staged[p]
                 /\ phase' = "idle" /\ p \notin raced' => s'.changed
              \/ p \notin DOMAIN s'.staged /\ live'[p] = s.staged[p]
              \/ origin'[p] # "client"
              \/ calls' # calls /\ phase' = phase /\ s'.active = s.active]_vars
  <2> SUFFICES ASSUME IInv, IInv', Next
               PROVE  \A p \in Params \ raced :
                         origin[p] = "client" /\ p \in DOMAIN s.staged =>
                            \/ /\ p \in DOMAIN s'.staged /\ s'.staged[p] = s.staged[p]
                               /\ phase' = "idle" /\ p \notin raced' => s'.changed
                            \/ p \notin DOMAIN s'.staged /\ live'[p] = s.staged[p]
                            \/ origin'[p] # "client"
                            \/ calls' # calls /\ phase' = phase /\ s'.active = s.active
    OBVIOUS
  <2>1. Carried
    BY NextRight DEF StepRight
  <2> QED
    BY <2>1, StepDrops
<1> QED
  BY <1>1, Inductive, PTL DEF Spec, NothingDropped

(* A tag does not stage a parameter that was set by hand for the context in *)
(* force or for one that it has inherited from.                            *)
THEOREM ManualHolds == ASSUME SettingsConstants PROVE Spec => ManualIsKept
<1>1. IInv /\ IInv' /\ [Next]_vars =>
        [phase' = "tagged" /\ calls' # calls /\ expiry = Never /\ s'.active \in StoredContexts(s')
           => tagged' \cap byHand[s'.active] = {}]_vars
  <2> SUFFICES ASSUME IInv, IInv', Next, phase' = "tagged", expiry = Never, s'.active \in StoredContexts(s')
               PROVE  tagged' \cap byHand[s'.active] = {}
    OBVIOUS
  <2>1. HandStays
    BY NextRight DEF StepRight
  <2>2. expiry' = expiry
    BY DEF Next, Work, work, ghostVars, Message, Applies, BeginWork, BeginChunk, EndTags, Apply, Clear, Unset,
           UnsetAgain, NoChunk, Chunk, Finish, ReceiveTag, SetStaged, Set, ActivateMessage, RemoveContext,
           StoreDefaults, ResetDefaults, Tick
  <2>3. tagged' \cap byHand'[s'.active] = {}
    BY <2>2 DEF IInv, ManualInv
  <2> QED
    BY <2>1, <2>3 DEF HandStays
<1> QED
  BY <1>1, Inductive, PTL DEF Spec, ManualIsKept

=============================================================================
