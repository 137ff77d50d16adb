-------------------------- MODULE StructuresProofs --------------------------
(***************************************************************************)
(* The wiring of a graph: for every finite set of blocks, every set of     *)
(* groups however deeply they come to be nested, and every number of       *)
(* edges.  The invariant, GInv, adds to what WiringMatchesEdges says that  *)
(* no block is within itself (Nested), that the ends of a live edge are    *)
(* ports its graph sees (EdgesSeen), and that blocks which were never used *)
(* are empty and unconnected (UnusedFresh).  What a block contains and     *)
(* which graphs run are recursive functions of the place of each block;    *)
(* the lemmas about them take that place as a parameter, so that one lemma *)
(* serves for the state before a step and for the one after it.            *)
(*                                                                         *)
(* The memory of a packed map: whatever sequence of operations, records,   *)
(* long keys and free chunks lie apart in the used part of the pool, for   *)
(* every set of keys and values, every size, and maps that may or may not  *)
(* grow.  The invariant, Good, is what RegionsApart says, pair by pair,    *)
(* with the types.  Each operator that takes bytes is shown to leave a     *)
(* good map that holds the bytes taken for nobody yet, and to move along   *)
(* with it whatever else was held when the block grows (Follows).          *)
(***************************************************************************)
EXTENDS GraphWiring, ValueMap, FiniteSetTheorems, WellFoundedInduction, TLAPS

-----------------------------------------------------------------------------
(* The wiring of a graph                                                   *)
Edges == [graph : Graphs, from : Ends, to : Ends, state : States]

(* The nesting of blocks, as it is said by a function like place: no block *)
(* is within itself, so every set of blocks has one without children in it.*)
Children(p, g) == {b \in Blocks : p[b] = g}

Nested(p) ==
    /\ p \in [Blocks -> Graphs \cup Elsewhere]
    /\ \A S \in SUBSET Blocks : S # {} => \E x \in S : Children(p, x) \cap S = {}

(* A block that was never used holds nothing and is connected to nothing.  *)
UnusedFresh ==
    \A c \in Blocks : place[c] = "unused" =>
        /\ In(c) = {} /\ \A e \in edges : e.graph # c
        /\ \A q \in Prims : reads[q] # c
        /\ c \in Prims => reads[c] = None

(* The ends of an edge are ports that its graph sees.                      *)
EdgesSeen == \A e \in LiveEdges : {e.from, e.to} \subseteq EndsIn(e.graph)

GInv ==
    /\ Nested(place) /\ edges \subseteq Edges /\ reads \in [Prims -> Prims \cup {None}]
    /\ UnusedFresh /\ EdgesSeen /\ WiringMatchesEdges

-----------------------------------------------------------------------------
(* What a block contains                                                   *)
Closed(p, S) == \A x \in S : Children(p, x) \subseteq S

Contents(p) == CHOOSE within : within = [c \in Blocks |-> IF c \in Prims THEN {c} ELSE UNION {within[d] : d \in Children(p, c)}]

LEMMA NamesApart ==
    /\ Prims \cap Groups = {} /\ Prims \cap Graphs = {} /\ Prims \cap Elsewhere = {} /\ Groups \cap Elsewhere = {}
    /\ Root \notin Blocks /\ Root \notin Elsewhere /\ Groups \subseteq Graphs /\ Groups \subseteq Blocks /\ Prims \subseteq Blocks
    /\ Root \in Graphs /\ Graphs \cap Elsewhere = {} /\ Graphs \subseteq Blocks \cup {Root} /\ None \notin Blocks
  BY GraphAssumption DEF Graphs, Blocks, Elsewhere, Root

LEMMA NoChildren ==
    ASSUME NEW p, Nested(p), NEW c \in Prims
    PROVE  Children(p, c) = {}
<1> SUFFICES ASSUME NEW b \in Blocks, p[b] = c PROVE FALSE
  BY DEF Children
<1> QED
  BY NamesApart DEF Nested

LEMMA ContentsExist ==
    ASSUME NEW p, Nested(p)
    PROVE  Contents(p) = [c \in Blocks |-> IF c \in Prims THEN {c} ELSE UNION {Contents(p)[d] : d \in Children(p, c)}]
<1> DEFINE Under(b) == {q \in Prims : \A S \in SUBSET Blocks : b \in S /\ Closed(p, S) => q \in S}
           under == [b \in Blocks |-> Under(b)]
<1>1. ASSUME NEW c \in Prims PROVE Under(c) = {c}
  <2>1. Closed(p, {c}) /\ {c} \in SUBSET Blocks
    BY NoChildren, NamesApart DEF Closed
  <2> QED
    BY <2>1
<1>2. ASSUME NEW c \in Blocks, c \notin Prims PROVE Under(c) = UNION {Under(d) : d \in Children(p, c)}
  <2>1. ASSUME NEW d \in Children(p, c), NEW q \in Under(d) PROVE q \in Under(c)
    BY <2>1 DEF Closed
  <2>2. ASSUME NEW q \in Under(c), \A d \in Children(p, c) : q \notin Under(d) PROVE FALSE
    <3> DEFINE Others == {T \in SUBSET Blocks : Closed(p, T) /\ q \notin T}
               S == {c} \cup UNION Others
    <3>1. Children(p, c) \subseteq UNION Others
      BY <2>2 DEF Children
    <3>2. \A x \in UNION Others : Children(p, x) \subseteq UNION Others
      BY DEF Closed
    <3>3. Closed(p, S) /\ S \in SUBSET Blocks
      BY <3>1, <3>2 DEF Closed
    <3>4. q \notin S
      BY <1>2, <2>2
    <3> QED
      BY <3>3, <3>4
  <2> QED
    BY <2>1, <2>2
<1> HIDE DEF Under
<1>3. under = [c \in Blocks |-> IF c \in Prims THEN {c} ELSE UNION {under[d] : d \in Children(p, c)}]
  <2>1. \A c \in Blocks : \A d \in Children(p, c) : under[d] = Under(d)
    BY DEF Children
  <2>2. ASSUME NEW c \in Blocks
        PROVE  Under(c) = IF c \in Prims THEN {c} ELSE UNION {under[d] : d \in Children(p, c)}
    <3>1. {under[d] : d \in Children(p, c)} = {Under(d) : d \in Children(p, c)}
      BY <2>1
    <3> QED
      BY <1>1, <1>2, <3>1, Zenon
  <2> QED
    BY <2>2
<1> QED
  BY <1>3 DEF Contents

LEMMA ContentsAre ==
    ASSUME NEW p, Nested(p), NEW c \in Blocks
    PROVE  Contents(p)[c] = IF c \in Prims THEN {c} ELSE UNION {Contents(p)[d] : d \in Children(p, c)}
<1>1. \A f : f = [x \in Blocks |-> IF x \in Prims THEN {x} ELSE UNION {Contents(p)[d] : d \in Children(p, x)}]
               => f[c] = IF c \in Prims THEN {c} ELSE UNION {Contents(p)[d] : d \in Children(p, c)}
  OBVIOUS
<1> QED
  BY <1>1, ContentsExist, Zenon

LEMMA WithinIs ==
    ASSUME NEW b
    PROVE  /\ In(b) = Children(place, b) /\ In(b)' = Children(place', b)
           /\ Within(b) = Contents(place)[b] /\ Within(b)' = Contents(place')[b]
  BY DEF In, Within, Contents, Children

(* What holds of a block and passes on to children holds of all within it. *)
LEMMA ContentsStay ==
    ASSUME NEW p, Nested(p), NEW S \in SUBSET Blocks, Closed(p, S), NEW b \in S
    PROVE  Contents(p)[b] \subseteq S
<1> DEFINE Bad == {x \in S : ~ (Contents(p)[x] \subseteq S)}
<1> SUFFICES ASSUME b \in Bad PROVE FALSE
  OBVIOUS
<1>1. PICK x \in Bad : Children(p, x) \cap Bad = {}
  BY DEF Nested
<1>2. \A d \in Children(p, x) : Contents(p)[d] \subseteq S
  BY <1>1 DEF Closed
<1>3. x \in Blocks /\ x \in S /\ ~ (Contents(p)[x] \subseteq S)
  OBVIOUS
<1>4. CASE x \in Prims
  BY <1>3, <1>4, ContentsAre
<1>5. CASE x \notin Prims
  <2>1. Contents(p)[x] = UNION {Contents(p)[d] : d \in Children(p, x)}
    BY <1>3, <1>5, ContentsAre
  <2> QED
    BY <1>2, <1>3, <2>1
<1> QED
  BY <1>4, <1>5

LEMMA ContentsTyped ==
    ASSUME NEW p, Nested(p), NEW b \in Blocks
    PROVE  Contents(p)[b] \subseteq Prims
<1> DEFINE Bad == {x \in Blocks : ~ (Contents(p)[x] \subseteq Prims)}
<1> SUFFICES ASSUME b \in Bad PROVE FALSE
  OBVIOUS
<1>1. PICK x \in Bad : Children(p, x) \cap Bad = {}
  BY DEF Nested
<1>2. \A d \in Children(p, x) : Contents(p)[d] \subseteq Prims
  BY <1>1 DEF Children
<1>3. x \in Blocks /\ ~ (Contents(p)[x] \subseteq Prims)
  OBVIOUS
<1>4. CASE x \in Prims
  BY <1>3, <1>4, ContentsAre
<1>5. CASE x \notin Prims
  <2>1. Contents(p)[x] = UNION {Contents(p)[d] : d \in Children(p, x)}
    BY <1>3, <1>5, ContentsAre
  <2> QED
    BY <1>2, <1>3, <2>1
<1> QED
  BY <1>4, <1>5
-----------------------------------------------------------------------------
(* Which graphs are reached from one                                       *)
Below(p) == CHOOSE reachable : reachable = [h \in Graphs |-> {h} \cup UNION {reachable[i] : i \in Children(p, h) \cap Groups}]

LEMMA BelowExists ==
    ASSUME NEW p
    PROVE  Below(p) = [h \in Graphs |-> {h} \cup UNION {Below(p)[i] : i \in Children(p, h) \cap Groups}]
<1> DEFINE Shut(S) == \A h \in S : Children(p, h) \cap Groups \subseteq S
           Under(h) == {k \in Graphs : \A S \in SUBSET Graphs : h \in S /\ Shut(S) => k \in S}
           under == [h \in Graphs |-> Under(h)]
<1>1. ASSUME NEW h \in Graphs PROVE Under(h) = {h} \cup UNION {Under(i) : i \in Children(p, h) \cap Groups}
  <2>1. h \in Under(h)
    OBVIOUS
  <2>2. ASSUME NEW i \in Children(p, h) \cap Groups, NEW k \in Under(i) PROVE k \in Under(h)
    BY <2>2
  <2>3. ASSUME NEW k \in Under(h), k # h, \A i \in Children(p, h) \cap Groups : k \notin Under(i) PROVE FALSE
    <3> DEFINE Others == {T \in SUBSET Graphs : Shut(T) /\ k \notin T}
               S == {h} \cup UNION Others
    <3>1. Children(p, h) \cap Groups \subseteq UNION Others
      BY <2>3, NamesApart
    <3>2. \A x \in UNION Others : Children(p, x) \cap Groups \subseteq UNION Others
      OBVIOUS
    <3>3. Shut(S) /\ S \in SUBSET Graphs
      BY <3>1, <3>2
    <3>4. k \notin S
      BY <2>3
    <3> QED
      BY <3>3, <3>4
  <2> QED
    BY <2>1, <2>2, <2>3
<1> HIDE DEF Under
<1>2. under = [h \in Graphs |-> {h} \cup UNION {under[i] : i \in Children(p, h) \cap Groups}]
  <2>1. \A i \in Groups : under[i] = Under(i)
    BY NamesApart
  <2>2. ASSUME NEW h \in Graphs
        PROVE  Under(h) = {h} \cup UNION {under[i] : i \in Children(p, h) \cap Groups}
    <3>1. {under[i] : i \in Children(p, h) \cap Groups} = {Under(i) : i \in Children(p, h) \cap Groups}
      BY <2>1
    <3> QED
      BY <1>1, <3>1, Zenon
  <2> QED
    BY <2>2
<1> QED
  BY <1>2 DEF Below

LEMMA BelowIs ==
    ASSUME NEW p, NEW h \in Graphs
    PROVE  Below(p)[h] = {h} \cup UNION {Below(p)[i] : i \in Children(p, h) \cap Groups}
<1>1. \A f : f = [x \in Graphs |-> {x} \cup UNION {Below(p)[i] : i \in Children(p, x) \cap Groups}]
               => f[h] = {h} \cup UNION {Below(p)[i] : i \in Children(p, h) \cap Groups}
  OBVIOUS
<1> QED
  BY <1>1, BelowExists, Zenon

LEMMA ReachableIs ==
    ASSUME NEW g
    PROVE  Reachable(g) = Below(place)[g] /\ Reachable(g)' = Below(place')[g]
  BY DEF In, Reachable, Below, Children

LEMMA LeastGraph ==
    ASSUME NEW p, Nested(p), NEW S \in SUBSET Graphs, S # {}
    PROVE  \E x \in S : Children(p, x) \cap S = {}
<1>1. \A x : Root \notin Children(p, x)
  BY NamesApart DEF Children
<1>2. CASE S \ {Root} = {}
  BY <1>1, <1>2
<1>3. CASE S \ {Root} # {}
  <2>1. S \ {Root} \in SUBSET Blocks
    BY NamesApart
  <2>2. PICK x \in S \ {Root} : Children(p, x) \cap (S \ {Root}) = {}
    BY <1>3, <2>1 DEF Nested
  <2> QED
    BY <1>1, <2>2
<1> QED
  BY <1>2, <1>3

LEMMA BelowStays ==
    ASSUME NEW p, Nested(p), NEW S \in SUBSET Graphs, \A h \in S : Children(p, h) \cap Groups \subseteq S, NEW g \in S
    PROVE  Below(p)[g] \subseteq S
<1> DEFINE Bad == {x \in S : ~ (Below(p)[x] \subseteq S)}
<1> SUFFICES ASSUME g \in Bad PROVE FALSE
  OBVIOUS
<1>1. PICK x \in Bad : Children(p, x) \cap Bad = {}
  <2>1. Bad \in SUBSET Graphs /\ Bad # {}
    OBVIOUS
  <2> QED
    BY <2>1, LeastGraph
<1>2. x \in S /\ x \in Graphs /\ ~ (Below(p)[x] \subseteq S)
  OBVIOUS
<1>3. ASSUME NEW i \in Children(p, x) \cap Groups PROVE Below(p)[i] \subseteq S
  BY <1>1, <1>2
<1>4. Below(p)[x] = {x} \cup UNION {Below(p)[i] : i \in Children(p, x) \cap Groups}
  BY <1>2, BelowIs
<1> QED
  BY <1>2, <1>3, <1>4

LEMMA BelowShut ==
    ASSUME NEW p, Nested(p), NEW g \in Graphs
    PROVE  \A h \in Below(p)[g] : Children(p, h) \cap Groups \subseteq Below(p)[g]
<1> DEFINE Bad == {x \in Graphs : \E h \in Below(p)[x] : ~ (Children(p, h) \cap Groups \subseteq Below(p)[x])}
<1> SUFFICES ASSUME g \in Bad PROVE FALSE
  OBVIOUS
<1>1. PICK x \in Bad : Children(p, x) \cap Bad = {}
  <2>1. Bad \in SUBSET Graphs /\ Bad # {}
    OBVIOUS
  <2> QED
    BY <2>1, LeastGraph
<1>2. x \in Graphs
  OBVIOUS
<1>3. PICK h \in Below(p)[x] : \E i \in Children(p, h) \cap Groups : i \notin Below(p)[x]
  OBVIOUS
<1>4. Below(p)[x] = {x} \cup UNION {Below(p)[k] : k \in Children(p, x) \cap Groups}
  BY <1>2, BelowIs
<1>5. PICK i \in Children(p, h) \cap Groups : i \notin Below(p)[x] /\ i \in Below(p)[i]
  BY <1>3, BelowIs, NamesApart
<1>6. h # x
  BY <1>4, <1>5
<1>7. PICK k \in Children(p, x) \cap Groups : h \in Below(p)[k]
  BY <1>4, <1>6
<1>8. i \in Below(p)[k]
  BY <1>1, <1>5, <1>7, NamesApart
<1> QED
  BY <1>4, <1>5, <1>7, <1>8

(* The graphs that run                                                     *)
Running(p) == Below(p)[Root]
Runs(p) == {b \in Blocks : p[b] \in Running(p)}

LEMMA RunningIs ==
    ASSUME NEW p, Nested(p)
    PROVE  /\ Root \in Running(p) /\ Running(p) \subseteq Graphs
           /\ \A i \in Groups : i \in Running(p) <=> p[i] \in Running(p)
<1>1. Root \in Graphs /\ Groups \subseteq Graphs /\ Groups \subseteq Blocks /\ Root \notin Groups
  BY NamesApart
<1>2. Running(p) = {Root} \cup UNION {Below(p)[i] : i \in Children(p, Root) \cap Groups}
  BY <1>1, BelowIs DEF Running
<1>3. Running(p) \subseteq Graphs
  BY <1>1, BelowStays DEF Running
<1>4. \A h \in Running(p) : Children(p, h) \cap Groups \subseteq Running(p)
  BY <1>1, BelowShut DEF Running
<1>5. ASSUME NEW i \in Groups, i \in Running(p), p[i] \notin Running(p) PROVE FALSE
  <2>1. \A h \in Running(p) \ {i} : Children(p, h) \cap Groups \subseteq Running(p) \ {i}
    BY <1>4, <1>5 DEF Children
  <2>2. Running(p) \subseteq Running(p) \ {i}
    <3>1. Running(p) \ {i} \in SUBSET Graphs /\ Root \in Running(p) \ {i}
      BY <1>1, <1>2, <1>3
    <3> QED
      BY <2>1, <3>1, BelowStays DEF Running
  <2> QED
    BY <1>5, <2>2
<1> QED
  BY <1>1, <1>2, <1>3, <1>4, <1>5 DEF Children
LEMMA RunsIs ==
    ASSUME NEW p, Nested(p)
    PROVE  /\ Closed(p, Runs(p)) /\ Closed(p, Blocks \ Runs(p))
           /\ \A b \in Runs(p) : Contents(p)[b] \subseteq Runs(p)
           /\ \A b \in Blocks \ Runs(p) : Contents(p)[b] \cap Runs(p) = {}
<1>1. ASSUME NEW x \in Blocks, NEW y \in Children(p, x) PROVE y \in Blocks /\ p[y] = x /\ (x \in Running(p) <=> x \in Runs(p))
  <2>1. y \in Blocks /\ p[y] = x /\ p[y] \in Graphs \cup Elsewhere
    BY <1>1 DEF Children, Nested
  <2>2. x \in Groups
    BY <2>1, NamesApart DEF Blocks
  <2> QED
    BY <2>1, <2>2, RunningIs DEF Runs
<1>2. Closed(p, Runs(p)) /\ Closed(p, Blocks \ Runs(p))
  BY <1>1 DEF Closed, Runs
<1>3. ASSUME NEW b \in Runs(p) PROVE Contents(p)[b] \subseteq Runs(p)
  <2>1. Runs(p) \in SUBSET Blocks
    BY DEF Runs
  <2> QED
    BY <1>2, <2>1, ContentsStay
<1>4. ASSUME NEW b \in Blocks \ Runs(p) PROVE Contents(p)[b] \cap Runs(p) = {}
  <2>1. Blocks \ Runs(p) \in SUBSET Blocks
    OBVIOUS
  <2>2. Contents(p)[b] \subseteq Blocks \ Runs(p)
    BY <1>2, <2>1, ContentsStay
  <2> QED
    BY <2>2
<1> QED
  BY <1>2, <1>3, <1>4

(* There are no blocks that run and lie within each other only.            *)
LEMMA NoIslands ==
    ASSUME NEW p, Nested(p), NEW M \in SUBSET Runs(p), \A x \in M : p[x] \in M
    PROVE  M = {}
<1>1. Running(p) \ M \in SUBSET Graphs /\ Root \in Running(p) \ M
  BY RunningIs, NamesApart DEF Runs
<1>2. ASSUME NEW h \in Running(p) \ M, NEW i \in Children(p, h) \cap Groups PROVE i \in Running(p) \ M
  <2>1. p[i] = h
    BY DEF Children
  <2> QED
    BY <2>1, RunningIs
<1>3. Running(p) \subseteq Running(p) \ M
  <2>1. \A h \in Running(p) \ M : Children(p, h) \cap Groups \subseteq Running(p) \ M
    BY <1>2
  <2>2. Below(p)[Root] \subseteq Running(p) \ M
    BY <1>1, <2>1, BelowStays
  <2> QED
    BY <2>2 DEF Running
<1> QED
  BY <1>3 DEF Runs

(* Two blocks of one graph have no port in common.                         *)
LEMMA SiblingsApart ==
    ASSUME NEW p, Nested(p), NEW x \in Runs(p), NEW y \in Runs(p), x # y, p[x] = p[y]
    PROVE  Contents(p)[x] \cap Contents(p)[y] = {}
<1> DEFINE Under(b) == {z \in Blocks : \A S \in SUBSET Blocks : b \in S /\ Closed(p, S) => z \in S}
<1>1. ASSUME NEW b \in Runs(p)
      PROVE  /\ b \in Under(b) /\ Contents(p)[b] \subseteq Under(b) /\ Under(b) \subseteq Runs(p)
             /\ \A z \in Under(b) : z # b => p[z] \in Under(b)
  <2>1. b \in Blocks
    BY DEF Runs
  <2>2. Closed(p, Under(b)) /\ Under(b) \in SUBSET Blocks /\ b \in Under(b)
    BY <2>1 DEF Closed, Children
  <2>3. Contents(p)[b] \subseteq Under(b)
    BY <2>2, ContentsStay
  <2>4. Under(b) \subseteq Runs(p)
    BY <1>1, RunsIs DEF Runs
  <2>5. ASSUME NEW z \in Under(b), z # b, p[z] \notin Under(b) PROVE FALSE
    <3>1. Closed(p, Under(b) \ {z})
      BY <2>2, <2>5 DEF Closed, Children
    <3>2. b \in Under(b) \ {z} /\ Under(b) \ {z} \in SUBSET Blocks
      BY <2>2, <2>5
    <3> QED
      BY <3>1, <3>2
  <2> QED
    BY <2>2, <2>3, <2>4, <2>5
<1> HIDE DEF Under
<1>2. ASSUME NEW b \in Runs(p), NEW c \in Runs(p), p[b] = p[c], b # c PROVE c \notin Under(b)
  <2> SUFFICES ASSUME c \in Under(b) PROVE FALSE
    OBVIOUS
  <2>1. p[b] \in Under(b)
    BY <1>1, <1>2
  <2>2. \A z \in Under(b) : p[z] \in Under(b)
    BY <1>1, <2>1
  <2>3. Under(b) \in SUBSET Runs(p)
    BY <1>1
  <2>4. Under(b) = {}
    BY <2>2, <2>3, NoIslands
  <2> QED
    BY <2>4
<1>3. y \notin Under(x) /\ x \notin Under(y)
  BY <1>2
<1>4. Under(x) \cap Under(y) = {}
  <2>1. Under(x) \cap Under(y) \in SUBSET Runs(p)
    BY <1>1
  <2>2. \A z \in Under(x) \cap Under(y) : p[z] \in Under(x) \cap Under(y)
    BY <1>1, <1>3
  <2> QED
    BY <2>1, <2>2, NoIslands
<1> QED
  BY <1>1, <1>4

(* What a block loses when others are moved                                *)
LEMMA ContentsLost ==
    ASSUME NEW p, NEW r, Nested(p), Nested(r), NEW Lost \in SUBSET Blocks, \A d \in Blocks \ Lost : r[d] = p[d],
           NEW b \in Blocks
    PROVE  Contents(p)[b] \subseteq Contents(r)[b] \cup UNION {Contents(p)[z] : z \in Lost}
<1> DEFINE Gap == UNION {Contents(p)[z] : z \in Lost}
           Bad == {x \in Blocks : ~ (Contents(p)[x] \subseteq Contents(r)[x] \cup Gap)}
<1> SUFFICES ASSUME b \in Bad PROVE FALSE
  OBVIOUS
<1>1. PICK x \in Bad : Children(p, x) \cap Bad = {}
  BY DEF Nested
<1>2. x \in Blocks /\ ~ (Contents(p)[x] \subseteq Contents(r)[x] \cup Gap)
  OBVIOUS
<1>3. CASE x \in Prims
  BY <1>2, <1>3, ContentsAre
<1>4. CASE x \notin Prims
  <2>1. Contents(p)[x] = UNION {Contents(p)[d] : d \in Children(p, x)} /\ Contents(r)[x] = UNION {Contents(r)[d] : d \in Children(r, x)}
    BY <1>2, <1>4, ContentsAre
  <2>2. ASSUME NEW d \in Children(p, x) PROVE Contents(p)[d] \subseteq Contents(r)[x] \cup Gap
    <3>1. CASE d \in Lost
      BY <3>1
    <3>2. CASE d \notin Lost
      <4>1. d \in Children(r, x)
        BY <2>2, <3>2 DEF Children
      <4>2. Contents(p)[d] \subseteq Contents(r)[d] \cup Gap
        BY <1>1, <2>2 DEF Children
      <4> QED
        BY <2>1, <4>1, <4>2
    <3> QED
      BY <3>1, <3>2
  <2> QED
    BY <1>2, <2>1, <2>2
<1> QED
  BY <1>3, <1>4

-----------------------------------------------------------------------------
(* The graph in these terms                                                *)
LEMMA LiveIs ==
    /\ LiveEdges = {e \in edges : e.graph \in Running(place)} /\ LiveEdges' = {e \in edges' : e.graph \in Running(place')}
    /\ Live = Prims \cap Runs(place) /\ Live' = Prims \cap Runs(place')
<1>1. Reachable(Root) = Running(place) /\ Reachable(Root)' = Running(place')
  BY ReachableIs DEF Running
<1>2. \A g : In(g) = Children(place, g) /\ In(g)' = Children(place', g)
  BY WithinIs
<1>3. LiveEdges = {e \in edges : e.graph \in Running(place)} /\ LiveEdges' = {e \in edges' : e.graph \in Running(place')}
  BY <1>1 DEF LiveEdges
<1>4. Live = Prims \cap Runs(place) /\ Live' = Prims \cap Runs(place')
  BY <1>1, <1>2, NamesApart DEF Live, Runs, Children
<1> QED
  BY <1>3, <1>4

LEMMA EndsAre ==
    /\ \A g : EndsIn(g) = {x \in Ends : place[x.block] = g /\ x.port \in Contents(place)[x.block]}
    /\ \A g : EndsIn(g)' = {x \in Ends : place'[x.block] = g /\ x.port \in Contents(place')[x.block]}
    /\ \A x \in Ends : x.block \in Blocks /\ x.port \in Prims
  BY WithinIs DEF EndsIn, Ends
(* The ports of a live edge run.                                           *)
LEMMA EdgeIs ==
    ASSUME GInv, NEW e \in LiveEdges
    PROVE  /\ e \in Edges /\ e \in edges /\ e.graph \in Running(place) /\ e.from \in Ends /\ e.to \in Ends
           /\ e.from.port \in Live /\ e.to.port \in Live /\ e.from.port \in Prims /\ e.to.port \in Prims
           /\ \A x \in {e.from, e.to} : x.block \in Runs(place) /\ place[x.block] = e.graph /\ x.port \in Contents(place)[x.block]
<1>1. e \in Edges /\ e \in edges /\ e.graph \in Running(place)
  BY LiveIs DEF GInv
<1>2. e.from \in Ends /\ e.to \in Ends
  BY <1>1 DEF Edges
<1>3. ASSUME NEW x \in {e.from, e.to}
      PROVE  /\ x.block \in Runs(place) /\ place[x.block] = e.graph /\ x.port \in Contents(place)[x.block]
             /\ x.port \in Prims /\ x.port \in Live
  <2>1. x \in EndsIn(e.graph)
    BY DEF GInv, EdgesSeen
  <2>2. x.block \in Blocks /\ x.port \in Prims /\ place[x.block] = e.graph /\ x.port \in Contents(place)[x.block]
    BY <2>1, EndsAre
  <2>3. x.block \in Runs(place)
    BY <1>1, <2>2 DEF Runs
  <2>4. x.port \in Runs(place)
    BY <2>2, <2>3, RunsIs DEF GInv
  <2> QED
    BY <2>2, <2>3, <2>4, LiveIs
<1> QED
  BY <1>1, <1>2, <1>3

LEMMA InStateIs ==
    ASSUME NEW e \in Edges, NEW s \in States
    PROVE  /\ InState(e, s) \in Edges /\ InState(e, s).graph = e.graph /\ InState(e, s).from = e.from
           /\ InState(e, s).to = e.to /\ InState(e, s).state = s
  BY DEF InState, Edges

(* Each input has the buffer of an edge that was pending, or the one it    *)
(* had if there is none.                                                   *)
LEMMA ConnectionsAre ==
    ASSUME NEW pending, NEW before, NEW after \in Connections(pending, before), NEW q \in Prims
    PROVE  \/ \E e \in pending : e.to.port = q /\ after[q] = e.from.port
           \/ after[q] = before[q] /\ \A e \in pending : e.to.port # q
<1> DEFINE sources(r) == {e.from.port : e \in {f \in pending : f.to.port = r}}
<1>1. after[q] \in IF sources(q) = {} THEN {before[q]} ELSE sources(q)
  BY DEF Connections
<1> QED
  BY <1>1

LEMMA ConnectionsTyped ==
    ASSUME NEW pending, NEW before \in [Prims -> Prims \cup {None}], NEW after \in Connections(pending, before),
           \A e \in pending : e.from.port \in Prims
    PROVE  after \in [Prims -> Prims \cup {None}]
<1>1. DOMAIN after = Prims /\ after = [q \in Prims |-> after[q]]
  BY DEF Connections
<1>2. \A q \in Prims : after[q] \in Prims \cup {None}
  BY ConnectionsAre
<1> QED
  BY <1>1, <1>2

(* Edges that end at an input that is not contested begin at one output.   *)
LEMMA ContestedIs ==
    ASSUME GInv, NEW e \in LiveEdges, NEW f \in LiveEdges, e.to.port = f.to.port, e.to.port \notin Contested
    PROVE  e.from.port = f.from.port
<1> DEFINE q == e.to.port
<1>1. q \in Prims /\ e.from.port \in Prims /\ f.from.port \in Prims
  BY EdgeIs
<1>2. {e.from.port, f.from.port} \subseteq Feeding(q)
  BY DEF Feeding
<1>3. Feeding(q) \subseteq Prims
  BY EdgeIs DEF Feeding
<1>4. IsFiniteSet(Feeding(q))
  BY <1>3, FS_Subset, GraphAssumption
<1>5. Cardinality(Feeding(q)) \in Nat /\ ~ (Cardinality(Feeding(q)) > 1)
  BY <1>1, <1>4, FS_CardinalityType DEF Contested
<1>6. Cardinality({e.from.port, f.from.port}) <= Cardinality(Feeding(q)) /\ Cardinality({e.from.port, f.from.port}) \in Nat
  BY <1>2, <1>4, FS_Subset, FS_CardinalityType
<1>7. ASSUME NEW x, NEW y, x # y PROVE Cardinality({x, y}) = 2
  <2>1. IsFiniteSet({x}) /\ Cardinality({x}) = 1
    BY FS_Singleton
  <2>2. Cardinality({x} \cup {y}) = Cardinality({x}) + 1
    BY <1>7, <2>1, FS_AddElement
  <2>3. {x} \cup {y} = {x, y}
    OBVIOUS
  <2> QED
    BY <2>1, <2>2, <2>3
<1>8. e.from.port # f.from.port => Cardinality({e.from.port, f.from.port}) = 2
  BY <1>7
<1> QED
  BY <1>5, <1>6, <1>8

-----------------------------------------------------------------------------
(* Steps that move no block                                                *)
LEMMA SamePlace ==
    ASSUME GInv, place' = place, edges' \subseteq Edges, reads' \in [Prims -> Prims \cup {None}],
           \A e \in edges' : e.graph \in Running(place) \/ \E f \in edges : f.graph = e.graph,
           \A q \in Prims : reads'[q] \in {reads[q], None} \/ (q \in Live /\ reads'[q] \in Live),
           \A e \in LiveEdges' :
              /\ {e.from, e.to} \subseteq EndsIn(e.graph)
              /\ e.state = "Connected" /\ e.to.port \notin loose' => reads'[e.to.port] = e.from.port,
           \A q \in Live : reads'[q] \in Live => \E e \in LiveEdges' : e.from.port = reads'[q] /\ e.to.port = q
    PROVE  GInv'
<1>1. Live' = Live /\ \A g : EndsIn(g)' = EndsIn(g) /\ In(g)' = In(g)
  BY LiveIs, EndsAre, WithinIs
<1>2. UnusedFresh'
  <2> SUFFICES ASSUME NEW c \in Blocks, place[c] = "unused"
               PROVE  /\ In(c) = {} /\ \A e \in edges' : e.graph # c
                      /\ \A q \in Prims : reads'[q] # c
                      /\ c \in Prims => reads'[c] = None
    BY <1>1 DEF UnusedFresh
  <2>1. c \notin Running(place) /\ c \notin Live
    <3>1. place[c] \notin Running(place)
      BY RunningIs, NamesApart DEF GInv, Elsewhere
    <3>2. c \notin Live
      BY <3>1, LiveIs DEF Runs
    <3>3. c \notin Running(place)
      BY <3>1, RunningIs, NamesApart DEF GInv, Graphs, Blocks
    <3> QED
      BY <3>2, <3>3
  <2>2. /\ In(c) = {} /\ \A e \in edges : e.graph # c
        /\ \A q \in Prims : reads[q] # c
        /\ c \in Prims => reads[c] = None
    BY DEF GInv, UnusedFresh
  <2>3. \A e \in edges' : e.graph # c
    BY <2>1, <2>2
  <2>4. ASSUME NEW q \in Prims PROVE reads'[q] # c
    BY <2>1, <2>2, NamesApart
  <2>5. c \in Prims => reads'[c] = None
    BY <2>1, <2>2
  <2> QED
    BY <2>2, <2>3, <2>4, <2>5
<1>3. EdgesSeen'
  BY <1>1 DEF EdgesSeen
<1>4. WiringMatchesEdges'
  BY <1>1 DEF WiringMatchesEdges, Shared
<1>5. Nested(place)'
  BY DEF GInv, Nested, Children
<1> QED
  BY <1>2, <1>3, <1>4, <1>5 DEF GInv

(* Some live edges are given another state.                                *)
LEMMA Relabelled ==
    ASSUME GInv, place' = place, NEW A \in SUBSET LiveEdges, NEW s \in States,
           edges' = (edges \ A) \cup {InState(e, s) : e \in A}
    PROVE  /\ edges' \subseteq Edges /\ \A e \in edges' : \E f \in edges : f.graph = e.graph
           /\ \A e \in LiveEdges' :
                 /\ {e.from, e.to} \subseteq EndsIn(e.graph)
                 /\ \E f \in LiveEdges : /\ f.from.port = e.from.port /\ f.to.port = e.to.port
                                         /\ e.state = IF f \in A THEN s ELSE f.state
           /\ \A f \in LiveEdges : \E e \in LiveEdges' : e.from.port = f.from.port /\ e.to.port = f.to.port
<1>1. edges \subseteq Edges /\ A \subseteq edges
  BY LiveIs DEF GInv
<1>2. \A f \in A : /\ InState(f, s) \in Edges /\ InState(f, s).graph = f.graph /\ InState(f, s).from = f.from
                   /\ InState(f, s).to = f.to /\ InState(f, s).state = s
  BY <1>1, InStateIs
<1>3. edges' \subseteq Edges /\ \A e \in edges' : \E f \in edges : f.graph = e.graph
  BY <1>1, <1>2
<1>4. ASSUME NEW e \in LiveEdges'
      PROVE  \E f \in LiveEdges : /\ f.graph = e.graph /\ f.from = e.from /\ f.to = e.to
                                  /\ e.state = IF f \in A THEN s ELSE f.state
  <2>1. e \in edges' /\ e.graph \in Running(place)
    BY LiveIs
  <2>2. CASE e \in edges \ A
    BY <2>1, <2>2, LiveIs
  <2>3. CASE e \notin edges \ A
    BY <1>2, <2>1, <2>3
  <2> QED
    BY <2>2, <2>3
<1>5. ASSUME NEW f \in LiveEdges
      PROVE  \E e \in LiveEdges' : e.from = f.from /\ e.to = f.to
  <2>1. f \in edges /\ f.graph \in Running(place)
    BY LiveIs
  <2>2. CASE f \notin A
    BY <2>1, <2>2, LiveIs
  <2>3. CASE f \in A
    <3>1. InState(f, s) \in edges' /\ InState(f, s).graph \in Running(place')
      BY <1>2, <2>1, <2>3
    <3> QED
      BY <1>2, <2>3, <3>1, LiveIs
  <2> QED
    BY <2>2, <2>3
<1>6. \A e \in LiveEdges : {e.from, e.to} \subseteq EndsIn(e.graph)
  BY DEF GInv, EdgesSeen
<1>7. ASSUME NEW e \in LiveEdges'
      PROVE  /\ {e.from, e.to} \subseteq EndsIn(e.graph)
             /\ \E f \in LiveEdges : /\ f.from.port = e.from.port /\ f.to.port = e.to.port
                                     /\ e.state = IF f \in A THEN s ELSE f.state
  BY <1>4, <1>6
<1>8. \A f \in LiveEdges : \E e \in LiveEdges' : e.from.port = f.from.port /\ e.to.port = f.to.port
  BY <1>5
<1> QED
  BY <1>3, <1>7, <1>8

(* What the invariant says of one input and of one edge                    *)
LEMMA MatchesIs ==
    ASSUME GInv
    PROVE  /\ \A q \in Live : reads[q] \in Live => \E e \in LiveEdges : e.from.port = reads[q] /\ e.to.port = q
           /\ \A e \in LiveEdges : e.state = "Connected" /\ e.to.port \notin loose => reads[e.to.port] = e.from.port
           /\ reads \in [Prims -> Prims \cup {None}] /\ Live \subseteq Prims /\ None \notin Live
  BY NamesApart DEF GInv, WiringMatchesEdges, Shared, Live

LEMMA UnpluggedIs ==
    ASSUME GInv, NEW inputs
    PROVE  /\ Unplugged(inputs) \in [Prims -> Prims \cup {None}]
           /\ \A q \in Prims : Unplugged(inputs)[q] = IF q \in inputs THEN None ELSE reads[q]
  BY DEF GInv, Unplugged

LEMMA SameKeeps ==
    ASSUME GInv, place' = place, edges' = edges, reads' = reads, loose' = loose
    PROVE  GInv'
<1>1. LiveEdges' = LiveEdges
  BY LiveIs
<1>2. edges' \subseteq Edges /\ reads' \in [Prims -> Prims \cup {None}]
  BY DEF GInv
<1>3. \A e \in edges' : e.graph \in Running(place) \/ \E f \in edges : f.graph = e.graph
  OBVIOUS
<1>4. \A q \in Prims : reads'[q] \in {reads[q], None} \/ (q \in Live /\ reads'[q] \in Live)
  OBVIOUS
<1>5. \A e \in LiveEdges' :
         /\ {e.from, e.to} \subseteq EndsIn(e.graph)
         /\ e.state = "Connected" /\ e.to.port \notin loose' => reads'[e.to.port] = e.from.port
  BY <1>1, MatchesIs DEF GInv, EdgesSeen
<1>6. \A q \in Live : reads'[q] \in Live => \E e \in LiveEdges' : e.from.port = reads'[q] /\ e.to.port = q
  BY <1>1, MatchesIs
<1> QED
  BY <1>2, <1>3, <1>4, <1>5, <1>6, SamePlace

LEMMA ConnectKeeps ==
    ASSUME GInv, NEW from \in EndsIn(Root), NEW to \in EndsIn(Root), Connect(from, to)
    PROVE  GInv'
<1> DEFINE new == [graph |-> Root, from |-> from, to |-> to, state |-> "WaitingToBeConnected"]
<1>1. new \in Edges
  BY EndsAre, NamesApart DEF Edges, States
<1>2. place' = place /\ reads' = reads /\ edges' = edges \cup {new}
  BY DEF Connect
<1>3. edges' \subseteq Edges /\ reads' \in [Prims -> Prims \cup {None}]
  BY <1>1, <1>2 DEF GInv
<1>4. \A e \in edges' : e.graph \in Running(place) \/ \E f \in edges : f.graph = e.graph
  BY <1>2, RunningIs DEF GInv
<1>5. ASSUME NEW e \in LiveEdges'
      PROVE  /\ {e.from, e.to} \subseteq EndsIn(e.graph)
             /\ e.state = "Connected" /\ e.to.port \notin loose' => reads'[e.to.port] = e.from.port
  <2>1. CASE e = new
    BY <2>1
  <2>2. CASE e # new
    <3>1. e \in LiveEdges
      BY <1>2, <2>2, LiveIs
    <3> QED
      BY <1>2, <3>1, MatchesIs DEF GInv, EdgesSeen, Connect
  <2> QED
    BY <2>1, <2>2
<1>6. \A q \in Live : reads'[q] \in Live => \E e \in LiveEdges' : e.from.port = reads'[q] /\ e.to.port = q
  <2>1. LiveEdges \subseteq LiveEdges'
    BY <1>2, LiveIs
  <2> QED
    BY <1>2, <2>1, MatchesIs
<1>7. \A q \in Prims : reads'[q] \in {reads[q], None} \/ (q \in Live /\ reads'[q] \in Live)
  BY <1>2
<1> QED
  BY <1>2, <1>3, <1>4, <1>5, <1>6, <1>7, SamePlace

(* A choice of connections among live edges                                *)
LEMMA ConnectedIs ==
    ASSUME GInv, NEW A \in SUBSET LiveEdges, NEW before \in [Prims -> Prims \cup {None}],
           \A q \in Prims : before[q] \in {reads[q], None}, reads' \in Connections(A, before)
    PROVE  /\ reads' \in [Prims -> Prims \cup {None}]
           /\ \A q \in Prims : reads'[q] \in {reads[q], None} \/ (q \in Live /\ reads'[q] \in Live)
           /\ \A q \in Live : reads'[q] \in Live => \E e \in LiveEdges : e.from.port = reads'[q] /\ e.to.port = q
           /\ \A e \in LiveEdges : e.to.port \notin Contested =>
                 \/ reads'[e.to.port] = e.from.port
                 \/ reads'[e.to.port] = before[e.to.port] /\ \A f \in A : f.to.port # e.to.port
<1>1. \A e \in A : e \in LiveEdges /\ e.from.port \in Live /\ e.to.port \in Live /\ e.from.port \in Prims /\ e.to.port \in Prims
  BY EdgeIs
<1>2. \A q \in Prims : \/ \E e \in A : e.to.port = q /\ reads'[q] = e.from.port
                       \/ reads'[q] = before[q] /\ \A e \in A : e.to.port # q
  BY ConnectionsAre
<1>3. reads' \in [Prims -> Prims \cup {None}]
  BY <1>1, ConnectionsTyped
<1>4. \A q \in Prims : reads'[q] \in {reads[q], None} \/ (q \in Live /\ reads'[q] \in Live)
  BY <1>1, <1>2
<1>5. ASSUME NEW q \in Live, reads'[q] \in Live
      PROVE  \E e \in LiveEdges : e.from.port = reads'[q] /\ e.to.port = q
  <2>1. q \in Prims /\ (reads'[q] = before[q] => reads'[q] = reads[q])
    BY <1>5, MatchesIs
  <2> QED
    BY <1>1, <1>2, <1>5, <2>1, MatchesIs
<1>6. ASSUME NEW e \in LiveEdges, e.to.port \notin Contested
      PROVE  \/ reads'[e.to.port] = e.from.port
             \/ reads'[e.to.port] = before[e.to.port] /\ \A f \in A : f.to.port # e.to.port
  <2>1. e.to.port \in Prims
    BY EdgeIs
  <2>2. \A f \in A : f.to.port = e.to.port => f.from.port = e.from.port
    BY <1>1, <1>6, ContestedIs
  <2> QED
    BY <1>2, <2>1, <2>2
<1> QED
  BY <1>3, <1>4, <1>5, <1>6

LEMMA StartKeeps ==
    ASSUME GInv, StartScheduler
    PROVE  GInv'
<1> DEFINE before == Unplugged(Disconnected)
<1>1. /\ place' = place /\ reads' \in Connections(LiveEdges, before) /\ loose' = Contested
      /\ edges' = (edges \ LiveEdges) \cup {InState(e, "Connected") : e \in LiveEdges}
  BY DEF StartScheduler
<1>2. before \in [Prims -> Prims \cup {None}] /\ \A q \in Prims : before[q] \in {reads[q], None}
  BY UnpluggedIs
<1> HIDE DEF before
<1>8. /\ reads' \in [Prims -> Prims \cup {None}]
      /\ \A q \in Prims : reads'[q] \in {reads[q], None} \/ (q \in Live /\ reads'[q] \in Live)
      /\ \A q \in Live : reads'[q] \in Live => \E e \in LiveEdges : e.from.port = reads'[q] /\ e.to.port = q
      /\ \A e \in LiveEdges : e.to.port \notin Contested => reads'[e.to.port] = e.from.port
  <2>1. /\ reads' \in [Prims -> Prims \cup {None}]
        /\ \A q \in Prims : reads'[q] \in {reads[q], None} \/ (q \in Live /\ reads'[q] \in Live)
        /\ \A q \in Live : reads'[q] \in Live => \E e \in LiveEdges : e.from.port = reads'[q] /\ e.to.port = q
        /\ \A e \in LiveEdges : e.to.port \notin Contested =>
              \/ reads'[e.to.port] = e.from.port
              \/ reads'[e.to.port] = before[e.to.port] /\ \A f \in LiveEdges : f.to.port # e.to.port
    BY <1>1, <1>2, ConnectedIs
  <2> QED
    BY <2>1
<1>3. "Connected" \in States
  BY DEF States
<1>4. ASSUME NEW e \in LiveEdges'
      PROVE  /\ {e.from, e.to} \subseteq EndsIn(e.graph)
             /\ e.state = "Connected" /\ e.to.port \notin loose' => reads'[e.to.port] = e.from.port
  <2>1. {e.from, e.to} \subseteq EndsIn(e.graph)
    BY <1>1, <1>3, Relabelled
  <2>2. PICK f \in LiveEdges : f.from.port = e.from.port /\ f.to.port = e.to.port
    BY <1>1, <1>3, Relabelled
  <2>3. e.to.port \notin Contested => reads'[e.to.port] = e.from.port
    BY <1>8, <2>2
  <2> QED
    BY <1>1, <2>1, <2>3
<1>5. \A q \in Live : reads'[q] \in Live => \E e \in LiveEdges' : e.from.port = reads'[q] /\ e.to.port = q
  <2>1. \A f \in LiveEdges : \E e \in LiveEdges' : e.from.port = f.from.port /\ e.to.port = f.to.port
    BY <1>1, <1>3, Relabelled
  <2> QED
    BY <1>8, <2>1
<1>6. edges' \subseteq Edges /\ \A e \in edges' : \E f \in edges : f.graph = e.graph
  BY <1>1, <1>3, Relabelled
<1> QED
  BY <1>1, <1>4, <1>5, <1>6, <1>8, SamePlace

LEMMA ResumeKeeps ==
    ASSUME GInv, Resume
    PROVE  GInv'
<1>1. /\ place' = place /\ reads' \in Connections(Waiting, reads) /\ loose' = loose \cup Contested
      /\ edges' = (edges \ Waiting) \cup {InState(e, "Connected") : e \in Waiting}
  BY DEF Resume
<1>2. reads \in [Prims -> Prims \cup {None}] /\ Waiting \in SUBSET LiveEdges
  BY DEF GInv, Waiting
<1>8. /\ reads' \in [Prims -> Prims \cup {None}]
      /\ \A q \in Prims : reads'[q] \in {reads[q], None} \/ (q \in Live /\ reads'[q] \in Live)
      /\ \A q \in Live : reads'[q] \in Live => \E e \in LiveEdges : e.from.port = reads'[q] /\ e.to.port = q
      /\ \A e \in LiveEdges : e.to.port \notin Contested =>
            \/ reads'[e.to.port] = e.from.port
            \/ reads'[e.to.port] = reads[e.to.port] /\ \A f \in Waiting : f.to.port # e.to.port
  <2>1. \A q \in Prims : reads[q] \in {reads[q], None}
    OBVIOUS
  <2>2. reads' \in Connections(Waiting, reads)
    BY <1>1
  <2>3. /\ reads' \in [Prims -> Prims \cup {None}]
        /\ \A q \in Prims : reads'[q] \in {reads[q], None} \/ (q \in Live /\ reads'[q] \in Live)
        /\ \A q \in Live : reads'[q] \in Live => \E e \in LiveEdges : e.from.port = reads'[q] /\ e.to.port = q
    BY <1>2, <2>1, <2>2, ConnectedIs
  <2>4. ASSUME NEW e \in LiveEdges, e.to.port \notin Contested
        PROVE  \/ reads'[e.to.port] = e.from.port
               \/ reads'[e.to.port] = reads[e.to.port] /\ \A f \in Waiting : f.to.port # e.to.port
    <3>1. e.to.port \in Prims
      BY EdgeIs
    <3>2. \/ \E h \in Waiting : h.to.port = e.to.port /\ reads'[e.to.port] = h.from.port
          \/ reads'[e.to.port] = reads[e.to.port] /\ \A h \in Waiting : h.to.port # e.to.port
      BY <2>2, <3>1, ConnectionsAre
    <3>3. \A h \in Waiting : h.to.port = e.to.port => h.from.port = e.from.port
      BY <1>2, <2>4, ContestedIs
    <3> QED
      BY <3>2, <3>3
  <2> QED
    BY <2>3, <2>4
<1>3. "Connected" \in States /\ \A f \in LiveEdges \ Waiting : f.state = "Connected"
  <2>1. \A f \in LiveEdges : f.state \in States
    BY EdgeIs DEF Edges
  <2> QED
    BY <2>1 DEF States, Waiting
<1>4. ASSUME NEW e \in LiveEdges'
      PROVE  /\ {e.from, e.to} \subseteq EndsIn(e.graph)
             /\ e.state = "Connected" /\ e.to.port \notin loose' => reads'[e.to.port] = e.from.port
  <2>1. {e.from, e.to} \subseteq EndsIn(e.graph)
    BY <1>1, <1>2, <1>3, Relabelled
  <2>2. PICK f \in LiveEdges : f.from.port = e.from.port /\ f.to.port = e.to.port
    <3>1. /\ Waiting \in SUBSET LiveEdges /\ "Connected" \in States /\ place' = place
          /\ edges' = (edges \ Waiting) \cup {InState(h, "Connected") : h \in Waiting}
      BY <1>1, <1>2, <1>3
    <3>2. \A h \in LiveEdges' : \E k \in LiveEdges : k.from.port = h.from.port /\ k.to.port = h.to.port
      BY <3>1, Relabelled
    <3> QED
      BY <3>2
  <2>3. f.to.port \notin Contested => \/ reads'[f.to.port] = f.from.port
                                      \/ reads'[f.to.port] = reads[f.to.port] /\ f \notin Waiting
    BY <1>8
  <2>4. f \notin Waiting /\ f.to.port \notin loose => reads[f.to.port] = f.from.port
    BY <1>3, MatchesIs
  <2> QED
    BY <1>1, <2>1, <2>2, <2>3, <2>4
<1>5. \A q \in Live : reads'[q] \in Live => \E e \in LiveEdges' : e.from.port = reads'[q] /\ e.to.port = q
  <2>1. \A f \in LiveEdges : \E e \in LiveEdges' : e.from.port = f.from.port /\ e.to.port = f.to.port
    BY <1>1, <1>2, <1>3, Relabelled
  <2> QED
    BY <1>8, <2>1
<1>6. edges' \subseteq Edges /\ \A e \in edges' : \E f \in edges : f.graph = e.graph
  BY <1>1, <1>2, <1>3, Relabelled
<1> QED
  BY <1>1, <1>4, <1>5, <1>6, <1>8, SamePlace

LEMMA StopAndResetKeeps ==
    ASSUME GInv, StopAndReset
    PROVE  GInv'
<1>1. /\ place' = place /\ reads' = Unplugged(Disconnected)
      /\ edges' = (edges \ LiveEdges) \cup {InState(e, "WaitingToBeConnected") : e \in LiveEdges}
  BY DEF StopAndReset
<1>2. reads' \in [Prims -> Prims \cup {None}] /\ \A q \in Prims : reads'[q] \in {reads[q], None}
  BY <1>1, UnpluggedIs
<1>3. "WaitingToBeConnected" \in States
  BY DEF States
<1>4. ASSUME NEW e \in LiveEdges'
      PROVE  {e.from, e.to} \subseteq EndsIn(e.graph) /\ e.state # "Connected"
  <2>1. {e.from, e.to} \subseteq EndsIn(e.graph)
    BY <1>1, <1>3, Relabelled
  <2>2. e.state = "WaitingToBeConnected"
    <3>1. LiveEdges \in SUBSET LiveEdges
      OBVIOUS
    <3>2. \A x \in LiveEdges' :
             /\ {x.from, x.to} \subseteq EndsIn(x.graph)
             /\ \E f \in LiveEdges : /\ f.from.port = x.from.port /\ f.to.port = x.to.port
                                     /\ x.state = IF f \in LiveEdges THEN "WaitingToBeConnected" ELSE f.state
      BY <1>1, <1>3, <3>1, Relabelled
    <3> QED
      BY <3>2
  <2> QED
    BY <2>1, <2>2
<1>5. \A q \in Live : reads'[q] \in Live => \E e \in LiveEdges' : e.from.port = reads'[q] /\ e.to.port = q
  <2>1. \A f \in LiveEdges : \E e \in LiveEdges' : e.from.port = f.from.port /\ e.to.port = f.to.port
    BY <1>1, <1>3, Relabelled
  <2> QED
    BY <1>2, <2>1, MatchesIs
<1>6. edges' \subseteq Edges /\ \A e \in edges' : \E f \in edges : f.graph = e.graph
  BY <1>1, <1>3, Relabelled
<1> QED
  BY <1>1, <1>2, <1>4, <1>5, <1>6, SamePlace

(* A port that a running graph sees runs.                                  *)
LEMMA EndRuns ==
    ASSUME GInv, NEW g \in Running(place), NEW x \in EndsIn(g)
    PROVE  x \in Ends /\ x.block \in Runs(place) /\ place[x.block] = g /\ x.port \in Live /\ x.port \in Prims
<1>1. x \in Ends /\ x.block \in Blocks /\ x.port \in Prims /\ place[x.block] = g /\ x.port \in Contents(place)[x.block]
  BY EndsAre
<1>2. x.block \in Runs(place)
  BY <1>1 DEF Runs
<1>3. x.port \in Runs(place)
  BY <1>1, <1>2, RunsIs DEF GInv
<1> QED
  BY <1>1, <1>2, <1>3, LiveIs

LEMMA EmplaceEdgeKeeps ==
    ASSUME GInv, NEW g \in Graphs, NEW from \in EndsIn(g), NEW to \in EndsIn(g), EmplaceEdge(g, from, to)
    PROVE  GInv'
<1> DEFINE new == [graph |-> g, from |-> from, to |-> to, state |-> "WaitingToBeConnected"]
<1>1. /\ place' = place /\ edges' = edges \cup {new} /\ reads' = [reads EXCEPT ![to.port] = from.port]
      /\ loose' = (loose \ {to.port}) \cup (IF Feeding(to.port) \subseteq {from.port} THEN {} ELSE {to.port})
      /\ g \in Running(place)
  BY ReachableIs DEF EmplaceEdge, Running
<1>2. from \in Ends /\ to \in Ends /\ from.port \in Live /\ to.port \in Live /\ from.port \in Prims /\ to.port \in Prims
  BY <1>1, EndRuns
<1>3. new \in Edges
  BY <1>2 DEF Edges, States
<1>4. edges' \subseteq Edges /\ reads' \in [Prims -> Prims \cup {None}]
  BY <1>1, <1>2, <1>3 DEF GInv
<1>5. reads'[to.port] = from.port /\ \A q \in Prims : q # to.port => reads'[q] = reads[q]
  BY <1>1, <1>2 DEF GInv
<1>6. new \in LiveEdges' /\ LiveEdges \subseteq LiveEdges' /\ LiveEdges' \subseteq LiveEdges \cup {new}
  BY <1>1, LiveIs
<1>7. ASSUME NEW e \in LiveEdges'
      PROVE  /\ {e.from, e.to} \subseteq EndsIn(e.graph)
             /\ e.state = "Connected" /\ e.to.port \notin loose' => reads'[e.to.port] = e.from.port
  <2>1. CASE e = new
    BY <2>1
  <2>2. CASE e \in LiveEdges
    <3>1. {e.from, e.to} \subseteq EndsIn(e.graph) /\ e.to.port \in Prims
      BY <2>2, EdgeIs DEF GInv, EdgesSeen
    <3>2. CASE e.to.port = to.port
      <4>1. e.from.port \in Feeding(to.port)
        BY <2>2, <3>2 DEF Feeding
      <4> QED
        BY <1>1, <1>5, <3>1, <3>2, <4>1
    <3>3. CASE e.to.port # to.port
      BY <1>1, <1>5, <2>2, <3>1, <3>3, MatchesIs
    <3> QED
      BY <3>2, <3>3
  <2> QED
    BY <1>6, <2>1, <2>2
<1>8. ASSUME NEW q \in Live, reads'[q] \in Live
      PROVE  \E e \in LiveEdges' : e.from.port = reads'[q] /\ e.to.port = q
  <2>1. CASE q = to.port
    BY <1>5, <1>6, <2>1
  <2>2. CASE q # to.port
    BY <1>5, <1>6, <1>8, <2>2, MatchesIs
  <2> QED
    BY <2>1, <2>2
<1>9. \A q \in Prims : reads'[q] \in {reads[q], None} \/ (q \in Live /\ reads'[q] \in Live)
  BY <1>2, <1>5
<1>10. \A e \in edges' : e.graph \in Running(place) \/ \E f \in edges : f.graph = e.graph
  BY <1>1
<1> QED
  BY <1>1, <1>4, <1>7, <1>8, <1>9, <1>10, SamePlace

LEMMA RemoveEdgeKeeps ==
    ASSUME GInv, NEW g \in Graphs, NEW from \in EndsIn(g), RemoveEdge(g, from)
    PROVE  GInv'
<1> DEFINE readers == {q \in Prims : reads[q] = from.port}
<1>1. /\ place' = place /\ edges' = {e \in edges : ~(e.graph = g /\ e.from = from)}
      /\ reads' = Unplugged(readers) /\ loose' = loose \cup readers
  BY DEF RemoveEdge
<1>2. reads' \in [Prims -> Prims \cup {None}] /\ \A q \in Prims : reads'[q] = IF q \in readers THEN None ELSE reads[q]
  BY <1>1, UnpluggedIs
<1>3. edges' \subseteq edges /\ edges' \subseteq Edges /\ LiveEdges' \subseteq LiveEdges
  BY <1>1, LiveIs DEF GInv
<1>4. ASSUME NEW e \in LiveEdges'
      PROVE  /\ {e.from, e.to} \subseteq EndsIn(e.graph)
             /\ e.state = "Connected" /\ e.to.port \notin loose' => reads'[e.to.port] = e.from.port
  <2>1. e \in LiveEdges /\ {e.from, e.to} \subseteq EndsIn(e.graph) /\ e.to.port \in Prims
    BY <1>3, EdgeIs DEF GInv, EdgesSeen
  <2> QED
    BY <1>1, <1>2, <2>1, MatchesIs
<1>5. ASSUME NEW q \in Live, reads'[q] \in Live
      PROVE  \E e \in LiveEdges' : e.from.port = reads'[q] /\ e.to.port = q
  <2>1. q \in Prims /\ reads'[q] = reads[q] /\ reads[q] # from.port
    BY <1>2, <1>5, MatchesIs
  <2>2. PICK e \in LiveEdges : e.from.port = reads[q] /\ e.to.port = q
    BY <1>5, <2>1, MatchesIs
  <2>3. e \in LiveEdges'
    BY <1>1, <2>1, <2>2, LiveIs
  <2> QED
    BY <2>1, <2>2, <2>3
<1>6. \A q \in Prims : reads'[q] \in {reads[q], None}
  BY <1>2
<1> QED
  BY <1>1, <1>2, <1>3, <1>4, <1>5, <1>6, SamePlace

-----------------------------------------------------------------------------
(* Steps that move blocks                                                  *)
LEMMA NestedLess ==
    ASSUME NEW p, NEW r, Nested(p), r \in [Blocks -> Graphs \cup Elsewhere],
           \A x \in Blocks : Children(r, x) \subseteq Children(p, x)
    PROVE  Nested(r)
<1> SUFFICES ASSUME NEW S \in SUBSET Blocks, S # {} PROVE \E x \in S : Children(r, x) \cap S = {}
  BY DEF Nested
<1>1. PICK x \in S : Children(p, x) \cap S = {}
  BY DEF Nested
<1> QED
  BY <1>1

(* The running graphs are the least set of graphs that is closed downward. *)
LEMMA RunningWithin ==
    ASSUME NEW p, Nested(p), NEW S \in SUBSET Graphs, Root \in S, \A i \in Groups : p[i] \in S => i \in S
    PROVE  Running(p) \subseteq S
<1>1. \A h \in S : Children(p, h) \cap Groups \subseteq S
  BY DEF Children
<1> QED
  BY <1>1, BelowStays DEF Running

LEMMA BelowUp ==
    ASSUME NEW p, Nested(p), NEW g \in Graphs, NEW k \in Below(p)[g], k # g
    PROVE  p[k] \in Below(p)[g]
<1> SUFFICES ASSUME p[k] \notin Below(p)[g] PROVE FALSE
  OBVIOUS
<1>1. Below(p)[g] \subseteq Graphs
  <2>1. \A h \in Graphs : Children(p, h) \cap Groups \subseteq Graphs
    BY NamesApart
  <2> QED
    BY <2>1, BelowStays
<1>2. \A h \in Below(p)[g] \ {k} : Children(p, h) \cap Groups \subseteq Below(p)[g] \ {k}
  BY BelowShut DEF Children
<1>3. Below(p)[g] \ {k} \in SUBSET Graphs /\ g \in Below(p)[g] \ {k}
  BY <1>1, BelowIs
<1>4. Below(p)[g] \subseteq Below(p)[g] \ {k}
  BY <1>2, <1>3, BelowStays
<1> QED
  BY <1>4

(* A block that does not run afterwards held nothing that does.            *)
LEMMA Unreached ==
    ASSUME NEW p, NEW r, Nested(p), Nested(r),
           \A d \in Blocks : r[d] = p[d] \/ d \notin Runs(r) \/ p[d] \notin Blocks,
           NEW b \in Blocks \ Runs(r)
    PROVE  Contents(p)[b] \cap Runs(r) = {}
<1> DEFINE S == Blocks \ Runs(r)
<1>1. ASSUME NEW x \in S, NEW y \in Children(p, x) PROVE y \in S
  <2>1. y \in Blocks /\ p[y] = x /\ x \in Blocks
    BY DEF Children
  <2>2. CASE y \notin Runs(r)
    BY <2>1, <2>2
  <2>3. CASE y \in Runs(r)
    <3>1. r[y] = x /\ x \in Running(r)
      BY <2>1, <2>3 DEF Runs
    <3>2. x \in Groups
      BY <2>1, <3>1, RunningIs, NamesApart DEF Blocks
    <3> QED
      BY <3>1, <3>2, RunningIs DEF Runs
  <2> QED
    BY <2>2, <2>3
<1>2. Closed(p, S) /\ S \in SUBSET Blocks /\ b \in S
  BY <1>1 DEF Closed
<1>3. Contents(p)[b] \subseteq S
  BY <1>2, ContentsStay
<1> QED
  BY <1>3

LEMMA ChildContents ==
    ASSUME NEW p, Nested(p), NEW d \in Blocks, p[d] \in Blocks
    PROVE  Contents(p)[d] \subseteq Contents(p)[p[d]]
<1>1. p[d] \notin Prims
  BY NamesApart DEF Nested
<1>2. Contents(p)[p[d]] = UNION {Contents(p)[x] : x \in Children(p, p[d])}
  BY <1>1, ContentsAre
<1>3. d \in Children(p, p[d])
  BY DEF Children
<1> QED
  BY <1>2, <1>3

(* A bound of what blocks contain that passes from child to parent         *)
LEMMA ContentsBound ==
    ASSUME NEW p, Nested(p), NEW To, \A q \in Prims : q \in To[q],
           \A d \in Blocks : p[d] \in Blocks => To[d] \subseteq To[p[d]],
           NEW b \in Blocks
    PROVE  Contents(p)[b] \subseteq To[b]
<1> DEFINE Bad == {x \in Blocks : ~ (Contents(p)[x] \subseteq To[x])}
<1> SUFFICES ASSUME b \in Bad PROVE FALSE
  OBVIOUS
<1>1. PICK x \in Bad : Children(p, x) \cap Bad = {}
  BY DEF Nested
<1>2. x \in Blocks /\ ~ (Contents(p)[x] \subseteq To[x])
  OBVIOUS
<1>3. CASE x \in Prims
  <2>1. Contents(p)[x] = {x}
    BY <1>2, <1>3, ContentsAre
  <2> QED
    BY <1>2, <1>3, <2>1
<1>4. CASE x \notin Prims
  <2>1. Contents(p)[x] = UNION {Contents(p)[d] : d \in Children(p, x)}
    BY <1>2, <1>4, ContentsAre
  <2>2. ASSUME NEW d \in Children(p, x) PROVE Contents(p)[d] \subseteq To[x]
    <3>1. d \in Blocks /\ p[d] = x /\ Contents(p)[d] \subseteq To[d]
      BY <1>1, <2>2 DEF Children
    <3> QED
      BY <1>2, <3>1
  <2> QED
    BY <1>2, <2>1, <2>2
<1> QED
  BY <1>3, <1>4

(* What an unused block is                                                 *)
LEMMA UnusedIs ==
    ASSUME GInv, NEW c \in Blocks, place[c] = "unused"
    PROVE  /\ c \notin Running(place) /\ c \notin Runs(place) /\ c \notin Live
           /\ Children(place, c) = {} /\ \A e \in edges : e.graph # c
           /\ \A q \in Prims : reads[q] # c
           /\ c \in Prims => reads[c] = None
<1>1. place[c] \notin Running(place)
  BY RunningIs, NamesApart DEF GInv, Elsewhere
<1>2. c \notin Running(place)
  BY <1>1, RunningIs, NamesApart DEF GInv, Graphs, Blocks
<1>3. c \notin Runs(place) /\ c \notin Live
  BY <1>1, LiveIs DEF Runs
<1>4. Children(place, c) = {}
  BY WithinIs DEF GInv, UnusedFresh
<1> QED
  BY <1>2, <1>3, <1>4 DEF GInv, UnusedFresh

LEMMA RemoveBlockMoves ==
    ASSUME GInv, NEW b \in Blocks, RemoveBlock(b)
    PROVE  /\ Nested(place') /\ Running(place') \subseteq Running(place) /\ Runs(place') \subseteq Runs(place)
           /\ b \notin Runs(place') /\ place' = [place EXCEPT ![b] = "zombie"]
           /\ b \in Groups => Below(place)[b] \cap Running(place') = {}
<1>1. /\ place' = [place EXCEPT ![b] = "zombie"] /\ place[b] \in Running(place)
  BY ReachableIs DEF RemoveBlock, Running
<1>2. /\ place' \in [Blocks -> Graphs \cup Elsewhere] /\ place'[b] = "zombie"
      /\ \A d \in Blocks : d # b => place'[d] = place[d]
  BY <1>1 DEF GInv, Nested, Elsewhere
<1>3. "zombie" \notin Blocks /\ "zombie" \notin Graphs
  BY NamesApart DEF Elsewhere, Blocks
<1>4. \A x \in Blocks \cup Graphs : Children(place', x) \subseteq Children(place, x)
  BY <1>2, <1>3 DEF Children
<1>5. Nested(place')
  BY <1>2, <1>4, NestedLess DEF GInv
<1>6. Running(place) \in SUBSET Graphs /\ Root \in Running(place)
      /\ \A i \in Groups : place'[i] \in Running(place) => i \in Running(place)
  BY <1>2, <1>3, RunningIs, NamesApart DEF GInv
<1>7. Running(place') \subseteq Running(place)
  BY <1>5, <1>6, RunningWithin
<1>8. Running(place') \subseteq Graphs
  BY <1>5, RunningIs
<1>9. Runs(place') \subseteq Runs(place) /\ b \notin Runs(place')
  BY <1>2, <1>3, <1>7, <1>8 DEF Runs
<1>10. ASSUME b \in Groups PROVE Below(place)[b] \cap Running(place') = {}
  <2> DEFINE S == Graphs \ Below(place)[b]
  <2>1. b \in Graphs /\ Root \in Graphs /\ Root \notin Groups
    BY <1>10, NamesApart
  <2>2. Below(place)[b] \subseteq Groups
    <3>1. Groups \in SUBSET Graphs /\ \A h \in Groups : Children(place, h) \cap Groups \subseteq Groups
      BY NamesApart
    <3> QED
      BY <1>10, <3>1, BelowStays DEF GInv
  <2>3. ASSUME NEW i \in Groups, place'[i] \in S PROVE i \in S
    <3>1. i \in Graphs /\ i \in Blocks
      BY NamesApart
    <3>2. i # b /\ place[i] \in S
      BY <1>2, <1>3, <2>3, <3>1
    <3>3. i \in Below(place)[b] => place[i] \in Below(place)[b]
      BY <2>1, <3>2, BelowUp DEF GInv
    <3> QED
      BY <3>1, <3>2, <3>3
  <2>4. Running(place') \subseteq S
    BY <1>5, <2>1, <2>2, <2>3, RunningWithin
  <2> QED
    BY <2>4
<1> QED
  BY <1>1, <1>5, <1>7, <1>9, <1>10

LEMMA RemoveBlockKeeps ==
    ASSUME GInv, NEW b \in Blocks, RemoveBlock(b)
    PROVE  GInv'
<1>1. /\ reads' = reads /\ loose' = loose
      /\ edges' = {e \in edges : ~(e.graph = place[b] /\ b \in {e.from.block, e.to.block})}
      /\ place[b] \in Running(place) /\ b \in Runs(place)
  BY ReachableIs DEF RemoveBlock, Running, Runs
<1>2. /\ Nested(place') /\ Running(place') \subseteq Running(place) /\ Runs(place') \subseteq Runs(place)
      /\ b \notin Runs(place') /\ place' = [place EXCEPT ![b] = "zombie"]
      /\ b \in Groups => Below(place)[b] \cap Running(place') = {}
  BY RemoveBlockMoves
<1>3. place'[b] = "zombie" /\ \A d \in Blocks : d # b => place'[d] = place[d]
  BY <1>2 DEF GInv, Nested
<1>4. edges' \subseteq edges /\ LiveEdges' \subseteq LiveEdges /\ Live' \subseteq Live
  BY <1>1, <1>2, LiveIs
<1>5. ASSUME NEW x \in Blocks \ Runs(place') PROVE Contents(place)[x] \cap Live' = {}
  <2>1. \A d \in Blocks : place'[d] = place[d] \/ d \notin Runs(place')
    BY <1>2, <1>3
  <2>2. Contents(place)[x] \cap Runs(place') = {}
    BY <1>2, <2>1, Unreached DEF GInv
  <2> QED
    BY <2>2, LiveIs
<1>6. ASSUME NEW e \in LiveEdges' PROVE {e.from, e.to} \subseteq EndsIn(e.graph)'
  <2>1. /\ e \in LiveEdges /\ e \in edges /\ e.graph \in Running(place') /\ e.from \in Ends /\ e.to \in Ends
        /\ ~(e.graph = place[b] /\ b \in {e.from.block, e.to.block})
    BY <1>1, <1>4, LiveIs, EdgeIs
  <2>2. ASSUME NEW x \in {e.from, e.to} PROVE x \in EndsIn(e.graph)'
    <3>1. /\ x.block \in Runs(place) /\ place[x.block] = e.graph /\ x.port \in Contents(place)[x.block]
          /\ x \in Ends /\ x.block \in Blocks
      BY <2>1, <2>2, EdgeIs, EndsAre
    <3>2. x.block # b /\ place'[x.block] = e.graph
      BY <1>3, <2>1, <2>2, <3>1
    <3>3. x.port \notin Contents(place)[b]
      <4>1. CASE e.graph = place[b]
        BY <1>1, <3>1, <3>2, <4>1, SiblingsApart DEF GInv
      <4>2. CASE e.graph # place[b]
        <5>1. b \in Groups => e.graph \notin Reachable(b)
          BY <1>2, <2>1, ReachableIs
        <5>2. \A f \in edges : f.graph \notin {place[b]} \cup (IF b \in Groups THEN Reachable(b) ELSE {})
                => {f.from.port, f.to.port} \cap Within(b) = {}
          BY DEF RemoveBlock, NotExported
        <5>3. {e.from.port, e.to.port} \cap Within(b) = {}
          BY <2>1, <4>2, <5>1, <5>2
        <5> QED
          BY <2>2, <5>3, WithinIs
      <4> QED
        BY <4>1, <4>2
    <3>4. Contents(place)[x.block] \subseteq Contents(place')[x.block] \cup UNION {Contents(place)[z] : z \in {b}}
      <4>1. {b} \in SUBSET Blocks /\ \A d \in Blocks \ {b} : place'[d] = place[d]
        BY <1>3
      <4>2. Nested(place) /\ Nested(place') /\ x.block \in Blocks
        BY <1>2, <3>1 DEF GInv
      <4> QED
        BY <4>1, <4>2, ContentsLost
    <3>5. x.port \in Contents(place')[x.block]
      BY <3>1, <3>3, <3>4
    <3> QED
      BY <3>1, <3>2, <3>5, EndsAre
  <2> QED
    BY <2>2
<1>7. ASSUME NEW q \in Live', reads'[q] \in Live'
      PROVE  \E e \in LiveEdges' : e.from.port = reads'[q] /\ e.to.port = q
  <2>1. PICK e \in LiveEdges : e.from.port = reads[q] /\ e.to.port = q
    BY <1>1, <1>4, <1>7, MatchesIs
  <2>2. \A x \in {e.from, e.to} : x.block \in Blocks /\ x.block \in Runs(place') /\ place[x.block] = e.graph
    <3> SUFFICES ASSUME NEW x \in {e.from, e.to}
                 PROVE  x.block \in Blocks /\ x.block \in Runs(place') /\ place[x.block] = e.graph
      OBVIOUS
    <3>1. x.block \in Blocks /\ x.port \in Contents(place)[x.block] /\ place[x.block] = e.graph
      BY EdgeIs DEF Runs
    <3>2. x.port \in Live'
      BY <1>1, <1>7, <2>1
    <3> QED
      BY <1>5, <3>1, <3>2
  <2>3. e.from.block # b /\ e.to.block # b
    BY <1>2, <2>2
  <2>4. e.graph \in Running(place')
    BY <1>3, <2>2, <2>3 DEF Runs
  <2>5. e \in edges'
    BY <1>1, <2>3, EdgeIs
  <2> QED
    BY <1>1, <2>1, <2>4, <2>5, LiveIs
<1>8. \A e \in LiveEdges' : e.state = "Connected" /\ e.to.port \notin loose' => reads'[e.to.port] = e.from.port
  BY <1>1, <1>4, MatchesIs
<1>9. UnusedFresh'
  <2> SUFFICES ASSUME NEW c \in Blocks, place'[c] = "unused"
               PROVE  /\ Children(place', c) = {} /\ \A e \in edges' : e.graph # c
                      /\ \A q \in Prims : reads'[q] # c
                      /\ c \in Prims => reads'[c] = None
    BY WithinIs DEF UnusedFresh
  <2>1. place[c] = "unused"
    BY <1>3
  <2>2. "zombie" \notin Blocks
    BY NamesApart DEF Elsewhere, Blocks
  <2>3. Children(place', c) \subseteq Children(place, c)
    BY <1>3, <2>2 DEF Children
  <2> QED
    BY <1>1, <1>4, <2>1, <2>3, UnusedIs
<1> QED
  BY <1>1, <1>2, <1>4, <1>6, <1>7, <1>8, <1>9 DEF GInv, EdgesSeen, WiringMatchesEdges, Shared

(* Graphs that stay where they are go on running or not.                   *)
LEMMA SameRunning ==
    ASSUME NEW p, NEW r, Nested(p), Nested(r), \A i \in Groups : r[i] = p[i] \/ {p[i], r[i]} \cap Graphs = {}
    PROVE  Running(r) = Running(p)
<1>1. /\ Running(p) \in SUBSET Graphs /\ Root \in Running(p) /\ Running(r) \in SUBSET Graphs /\ Root \in Running(r)
      /\ \A i \in Groups : i \in Running(p) <=> p[i] \in Running(p)
      /\ \A i \in Groups : i \in Running(r) <=> r[i] \in Running(r)
  BY RunningIs
<1>2. Running(r) \subseteq Running(p)
  <2>1. \A i \in Groups : r[i] \in Running(p) => i \in Running(p)
    BY <1>1
  <2> QED
    BY <1>1, <2>1, RunningWithin
<1>3. Running(p) \subseteq Running(r)
  <2>1. \A i \in Groups : p[i] \in Running(r) => i \in Running(r)
    BY <1>1
  <2> QED
    BY <1>1, <2>1, RunningWithin
<1> QED
  BY <1>2, <1>3

LEMMA ReplaceBlockMoves ==
    ASSUME GInv, NEW b \in Blocks, NEW c \in Prims, ReplaceBlock(b, c)
    PROVE  /\ Nested(place') /\ Running(place') = Running(place) /\ b # c /\ b \in Prims
           /\ place[b] \in Running(place) /\ place[c] = "unused" /\ place'[b] = "zombie" /\ place'[c] = place[b]
           /\ \A d \in Blocks \ {b, c} : place'[d] = place[d]
           /\ Live' = (Live \ {b}) \cup {c} /\ b \in Live
<1>1. /\ place' = [place EXCEPT ![b] = "zombie", ![c] = place[b]] /\ place[c] = "unused"
      /\ b \in Prims /\ place[b] \in Running(place)
  BY ReachableIs DEF ReplaceBlock, Running
<1>2. place[b] \in Graphs /\ b # c /\ b \in Blocks /\ c \in Blocks
  BY <1>1, RunningIs, NamesApart DEF GInv, Elsewhere
<1>3. /\ place' \in [Blocks -> Graphs \cup Elsewhere] /\ place'[b] = "zombie" /\ place'[c] = place[b]
      /\ \A d \in Blocks \ {b, c} : place'[d] = place[d]
  BY <1>1, <1>2 DEF GInv, Nested, Elsewhere
<1>4. ASSUME NEW S \in SUBSET Blocks, S # {} PROVE \E x \in S : Children(place', x) \cap S = {}
  <2>1. CASE S \cap Prims # {}
    <3>1. PICK x \in S : x \in Prims
      BY <2>1
    <3>2. Children(place', x) = {}
      BY <1>3, <3>1, NamesApart DEF Children
    <3> QED
      BY <3>2
  <2>2. CASE S \cap Prims = {}
    <3>1. PICK x \in S : Children(place, x) \cap S = {}
      BY <1>4 DEF GInv, Nested
    <3>2. Children(place', x) \cap S \subseteq Children(place, x)
      BY <1>1, <1>3, <2>2 DEF Children
    <3> QED
      BY <3>1, <3>2
  <2> QED
    BY <2>1, <2>2
<1>5. Nested(place')
  BY <1>3, <1>4 DEF Nested
<1>6. Running(place') = Running(place)
  <2>1. \A i \in Groups : place'[i] = place[i]
    BY <1>1, <1>3, NamesApart
  <2> QED
    BY <1>5, <2>1, SameRunning DEF GInv
<1>7. Live' = (Live \ {b}) \cup {c} /\ b \in Live
  <2>1. "zombie" \notin Running(place)
    BY RunningIs, NamesApart DEF GInv, Elsewhere
  <2> QED
    BY <1>1, <1>2, <1>3, <1>6, <2>1, LiveIs, NamesApart DEF Runs
<1> QED
  BY <1>1, <1>2, <1>3, <1>5, <1>6, <1>7

LEMMA ReplaceBlockKeeps ==
    ASSUME GInv, NEW b \in Blocks, NEW c \in Prims, ReplaceBlock(b, c)
    PROVE  GInv'
<1> DEFINE Renewed(x) == IF x.block = b THEN [block |-> c, port |-> c] ELSE x
           Copy(e) == [e EXCEPT !.from = Renewed(e.from), !.to = Renewed(e.to)]
<1>1. /\ Nested(place') /\ Running(place') = Running(place) /\ b # c /\ b \in Prims
      /\ place[b] \in Running(place) /\ place[c] = "unused" /\ place'[b] = "zombie" /\ place'[c] = place[b]
      /\ \A d \in Blocks \ {b, c} : place'[d] = place[d]
      /\ Live' = (Live \ {b}) \cup {c} /\ b \in Live
  BY ReplaceBlockMoves
<1>2. /\ edges' = {Copy(e) : e \in edges} /\ reads' = reads
      /\ loose' = loose \cup {c} \cup {e.to.port : e \in {f \in edges : f.from.block = b}}
  BY DEF ReplaceBlock
<1>3. ASSUME NEW e \in Edges
      PROVE  /\ Copy(e) \in Edges /\ Copy(e).graph = e.graph /\ Copy(e).state = e.state
             /\ Copy(e).from = Renewed(e.from) /\ Copy(e).to = Renewed(e.to)
  BY <1>1, NamesApart DEF Edges, Ends
<1>4. b \in Blocks /\ c \in Blocks /\ Contents(place)[b] = {b} /\ Contents(place)[c] = {c} /\ Contents(place')[c] = {c}
  BY <1>1, NamesApart, ContentsAre DEF GInv
<1>5. c \notin Live /\ c \notin Runs(place) /\ b \in Runs(place)
  BY <1>1, <1>4, UnusedIs DEF Runs
<1>6. \A f \in edges : f.graph # place[b] => b \notin {f.from.port, f.to.port}
  <2>1. \A f \in {x \in edges : x.graph \notin {place[b]}} : {f.from.port, f.to.port} \cap Within(b) = {}
    BY <1>1, NamesApart DEF ReplaceBlock, NotExported
  <2> QED
    BY <1>4, <2>1, WithinIs
<1>7. ASSUME NEW f \in LiveEdges, NEW x \in {f.from, f.to}
      PROVE  /\ Renewed(x) \in EndsIn(f.graph)'
             /\ x.port = b <=> x.block = b
  <2>1. /\ x.block \in Runs(place) /\ place[x.block] = f.graph /\ x.port \in Contents(place)[x.block]
        /\ x \in Ends /\ x.port \in Live /\ x.block \in Blocks /\ f \in edges /\ x.port \in Prims
    BY <1>7, EdgeIs DEF Runs
  <2>2. x.block # c /\ x.port # c
    BY <1>5, <2>1
  <2>3. x.port = b <=> x.block = b
    <3>1. ASSUME x.port = b, x.block # b PROVE FALSE
      <4>1. f.graph = place[b]
        BY <1>6, <1>7, <2>1, <3>1
      <4> QED
        BY <1>4, <1>5, <2>1, <3>1, <4>1, SiblingsApart DEF GInv
    <3> QED
      BY <1>4, <2>1, <3>1
  <2>4. CASE x.block = b
    <3>1. Renewed(x) = [block |-> c, port |-> c] /\ Renewed(x) \in Ends
      BY <1>4, <2>4 DEF Ends
    <3> QED
      BY <1>1, <1>4, <2>1, <2>3, <2>4, <3>1, EndsAre
  <2>5. CASE x.block # b
    <3>1. place'[x.block] = f.graph /\ Renewed(x) = x
      BY <1>1, <2>1, <2>2, <2>5
    <3>2. Contents(place)[x.block] \subseteq Contents(place')[x.block] \cup UNION {Contents(place)[z] : z \in {b, c}}
      <4>1. {b, c} \in SUBSET Blocks
        BY <1>4
      <4> QED
        BY <1>1, <2>1, <4>1, ContentsLost DEF GInv
    <3>3. x.port \in Contents(place')[x.block]
      BY <1>4, <2>1, <2>2, <2>3, <2>5, <3>2
    <3> QED
      BY <2>1, <2>3, <3>1, <3>3, EndsAre
  <2> QED
    BY <2>4, <2>5
<1>8. ASSUME NEW e \in LiveEdges'
      PROVE  \E f \in LiveEdges : e = Copy(f)
  <2>1. PICK f \in edges : e = Copy(f)
    BY <1>2, LiveIs
  <2>2. f \in LiveEdges
    BY <1>1, <1>3, <2>1, LiveIs DEF GInv
  <2> QED
    BY <2>1, <2>2
<1> HIDE DEF Copy
<1>9. ASSUME NEW f \in LiveEdges PROVE Copy(f) \in LiveEdges'
  <2>1. f \in edges /\ f \in Edges /\ f.graph \in Running(place')
    BY <1>1, EdgeIs
  <2>2. Copy(f) \in edges' /\ Copy(f).graph \in Running(place')
    BY <1>2, <1>3, <2>1
  <2> QED
    BY <2>2, LiveIs
<1>10. EdgesSeen'
  <2> SUFFICES ASSUME NEW e \in LiveEdges' PROVE {e.from, e.to} \subseteq EndsIn(e.graph)'
    BY DEF EdgesSeen
  <2>1. PICK f \in LiveEdges : e = Copy(f)
    BY <1>8
  <2>2. f \in Edges /\ e.graph = f.graph /\ e.from = Renewed(f.from) /\ e.to = Renewed(f.to)
    BY <1>3, <2>1, EdgeIs
  <2>3. Renewed(f.from) \in EndsIn(f.graph)' /\ Renewed(f.to) \in EndsIn(f.graph)'
    BY <1>7
  <2> QED
    BY <2>2, <2>3
<1>11. ASSUME NEW q \in Live', reads'[q] \in Live'
       PROVE  \E e \in LiveEdges' : e.from.port = reads'[q] /\ e.to.port = q
  <2>1. q # c /\ reads'[q] # c
    <3>1. reads[c] = None /\ \A r \in Prims : reads[r] # c
      BY <1>1, <1>4, UnusedIs
    <3>2. q \in Prims /\ reads[q] # None
      BY <1>1, <1>2, <1>11, MatchesIs, NamesApart
    <3> QED
      BY <1>2, <3>1, <3>2
  <2>2. q \in Live /\ reads[q] \in Live /\ q # b /\ reads[q] # b
    BY <1>1, <1>2, <1>11, <2>1
  <2>3. PICK f \in LiveEdges : f.from.port = reads[q] /\ f.to.port = q
    BY <2>2, MatchesIs
  <2>4. f.from.block # b /\ f.to.block # b
    BY <1>7, <2>2, <2>3
  <2>5. f \in Edges /\ Copy(f).from = f.from /\ Copy(f).to = f.to /\ Copy(f) \in LiveEdges'
    BY <1>3, <1>9, <2>4, EdgeIs
  <2> QED
    BY <1>2, <2>3, <2>5
<1>12. ASSUME NEW e \in LiveEdges', e.state = "Connected", e.to.port \notin loose'
       PROVE  reads'[e.to.port] = e.from.port
  <2>1. PICK f \in LiveEdges : e = Copy(f)
    BY <1>8
  <2>2. f \in Edges /\ f \in edges /\ e.state = f.state /\ e.from = Renewed(f.from) /\ e.to = Renewed(f.to)
    BY <1>3, <2>1, EdgeIs
  <2>3. f.to.block # b
    BY <1>2, <1>12, <2>2
  <2>4. e.to = f.to
    BY <2>2, <2>3
  <2>5. f.from.block # b /\ f.to.port \notin loose
    BY <1>2, <1>12, <2>2, <2>4
  <2> QED
    BY <1>2, <1>12, <2>2, <2>4, <2>5, MatchesIs
<1>13. UnusedFresh'
  <2> SUFFICES ASSUME NEW d \in Blocks, place'[d] = "unused"
               PROVE  /\ Children(place', d) = {} /\ \A e \in edges' : e.graph # d
                      /\ \A q \in Prims : reads'[q] # d
                      /\ d \in Prims => reads'[d] = None
    BY WithinIs DEF UnusedFresh
  <2>1. place'[c] \in Graphs /\ "unused" \notin Graphs /\ "zombie" \notin Blocks
    BY <1>1, RunningIs, NamesApart DEF GInv, Elsewhere, Blocks
  <2>2. d # b /\ d # c /\ place[d] = "unused"
    BY <1>1, <2>1
  <2>3. d \notin Running(place) /\ Children(place, d) = {}
    BY <2>2, UnusedIs
  <2>4. Children(place', d) = {}
    BY <1>1, <2>1, <2>3 DEF Children
  <2>5. \A e \in edges' : e.graph # d
    BY <1>2, <1>3, <2>2, UnusedIs DEF GInv
  <2> QED
    BY <1>2, <2>2, <2>4, <2>5, UnusedIs
<1>14. edges' \subseteq Edges /\ reads' \in [Prims -> Prims \cup {None}]
  BY <1>2, <1>3 DEF GInv
<1> QED
  BY <1>1, <1>10, <1>11, <1>12, <1>13, <1>14 DEF GInv, WiringMatchesEdges, Shared

LEMMA DeleteMoves ==
    ASSUME GInv, NEW b \in Blocks, Delete(b)
    PROVE  /\ Nested(place') /\ Running(place') = Running(place) /\ Runs(place') = Runs(place)
           /\ b \notin Runs(place) /\ Within(b) \cap Live = {} /\ Within(b) \subseteq Prims
           /\ \A d \in Blocks : place'[d] = IF d = b \/ d \in Within(b) THEN "gone" ELSE place[d]
<1>1. place[b] = "zombie" /\ place' = [c \in Blocks |-> IF c = b \/ c \in Within(b) THEN "gone" ELSE place[c]]
  BY DEF Delete
<1>2. {"gone", "zombie"} \cap Graphs = {} /\ {"gone", "zombie"} \cap Blocks = {} /\ "zombie" \notin Running(place)
      /\ "gone" \notin Running(place)
  BY RunningIs, NamesApart DEF GInv, Elsewhere, Blocks
<1>3. place' \in [Blocks -> Graphs \cup Elsewhere]
  BY <1>1 DEF GInv, Nested, Elsewhere
<1>4. Within(b) \subseteq Prims
  BY WithinIs, ContentsTyped DEF GInv
<1>5. \A x \in Blocks : Children(place', x) \subseteq Children(place, x)
  BY <1>1, <1>2 DEF Children
<1>6. Nested(place')
  BY <1>3, <1>5, NestedLess DEF GInv
<1>7. Running(place') = Running(place)
  <2>1. \A i \in Groups : place'[i] = place[i] \/ {place[i], place'[i]} \cap Graphs = {}
    BY <1>1, <1>2, <1>4, NamesApart
  <2> QED
    BY <1>6, <2>1, SameRunning DEF GInv
<1>8. b \notin Runs(place)
  BY <1>1, <1>2 DEF Runs
<1>9. Within(b) \cap Runs(place) = {}
  BY <1>8, RunsIs, WithinIs DEF GInv
<1>10. Runs(place') = Runs(place)
  BY <1>1, <1>2, <1>7, <1>8, <1>9 DEF Runs
<1> QED
  BY <1>1, <1>4, <1>6, <1>7, <1>8, <1>9, <1>10, LiveIs

(* A block that runs is not among those deleted, and keeps what it has.    *)
LEMMA DeleteSpares ==
    ASSUME GInv, NEW b \in Blocks, Delete(b)
    PROVE  /\ LiveEdges' = LiveEdges /\ Live' = Live
           /\ \A q \in Prims : reads'[q] = IF q \in Within(b) \/ reads[q] \in Within(b) THEN None ELSE reads[q]
           /\ reads' \in [Prims -> Prims \cup {None}]
           /\ edges' = {e \in edges : e.graph # b} /\ loose' = loose \ Within(b)
<1>1. /\ Running(place') = Running(place) /\ Runs(place') = Runs(place) /\ b \notin Runs(place)
  BY DeleteMoves
<1>2. /\ edges' = {e \in edges : e.graph # b} /\ loose' = loose \ Within(b)
      /\ reads' = [q \in Prims |-> IF q \in Within(b) \/ reads[q] \in Within(b) THEN None ELSE reads[q]]
  BY DEF Delete
<1>3. b \notin Running(place)
  BY <1>1, RunningIs, NamesApart DEF GInv, Runs, Blocks
<1>4. LiveEdges' = LiveEdges /\ Live' = Live
  BY <1>1, <1>2, <1>3, LiveIs
<1> QED
  BY <1>2, <1>4 DEF GInv

LEMMA DeleteKeeps ==
    ASSUME GInv, NEW b \in Blocks, Delete(b)
    PROVE  GInv'
<1>1. /\ Nested(place') /\ Running(place') = Running(place) /\ Runs(place') = Runs(place)
      /\ b \notin Runs(place) /\ Within(b) \cap Live = {} /\ Within(b) \subseteq Prims
      /\ \A d \in Blocks : place'[d] = IF d = b \/ d \in Within(b) THEN "gone" ELSE place[d]
  BY DeleteMoves
<1>2. /\ LiveEdges' = LiveEdges /\ Live' = Live
      /\ \A q \in Prims : reads'[q] = IF q \in Within(b) \/ reads[q] \in Within(b) THEN None ELSE reads[q]
      /\ reads' \in [Prims -> Prims \cup {None}]
      /\ edges' = {e \in edges : e.graph # b} /\ loose' = loose \ Within(b)
  BY DeleteSpares
<1> DEFINE Lost == {b} \cup Within(b)
<1>3. \A d \in Blocks : d \in Runs(place) => d \notin Lost
  BY <1>1, LiveIs
<1>4. EdgesSeen'
  <2> SUFFICES ASSUME NEW e \in LiveEdges, NEW x \in {e.from, e.to} PROVE x \in EndsIn(e.graph)'
    BY <1>2 DEF EdgesSeen
  <2>1. /\ x.block \in Runs(place) /\ place[x.block] = e.graph /\ x.port \in Contents(place)[x.block]
        /\ x \in Ends /\ x.port \in Live /\ x.block \in Blocks
    BY EdgeIs DEF Runs
  <2>2. place'[x.block] = e.graph
    BY <1>1, <1>3, <2>1
  <2>3. Contents(place)[x.block] \subseteq Contents(place')[x.block] \cup UNION {Contents(place)[z] : z \in Lost}
    <3>1. Lost \in SUBSET Blocks /\ \A d \in Blocks \ Lost : place'[d] = place[d]
      BY <1>1, NamesApart
    <3> QED
      BY <1>1, <2>1, <3>1, ContentsLost DEF GInv
  <2>4. \A z \in Lost : x.port \notin Contents(place)[z]
    <3>1. \A z \in Within(b) : z \in Prims /\ z \in Blocks /\ Contents(place)[z] = {z}
      BY <1>1, NamesApart, ContentsAre DEF GInv
    <3> QED
      BY <1>1, <2>1, <3>1, WithinIs
  <2>5. x.port \in Contents(place')[x.block]
    BY <2>1, <2>3, <2>4
  <2> QED
    BY <2>1, <2>2, <2>5, EndsAre
<1>5. \A q \in Live : reads'[q] \in Live => \E e \in LiveEdges : e.from.port = reads'[q] /\ e.to.port = q
  BY <1>1, <1>2, MatchesIs
<1>6. ASSUME NEW e \in LiveEdges, e.state = "Connected", e.to.port \notin loose'
      PROVE  reads'[e.to.port] = e.from.port
  <2>1. e.to.port \in Live /\ e.from.port \in Live /\ e.to.port \in Prims
    BY EdgeIs
  <2> QED
    BY <1>1, <1>2, <1>6, <2>1, MatchesIs
<1>7. UnusedFresh'
  <2> SUFFICES ASSUME NEW c \in Blocks, place'[c] = "unused"
               PROVE  /\ Children(place', c) = {} /\ \A e \in edges' : e.graph # c
                      /\ \A q \in Prims : reads'[q] # c
                      /\ c \in Prims => reads'[c] = None
    BY WithinIs DEF UnusedFresh
  <2>1. place[c] = "unused" /\ c # None
    BY <1>1, NamesApart
  <2>2. Children(place', c) = {}
    <3>1. "gone" \notin Blocks
      BY NamesApart DEF Elsewhere, Blocks
    <3>2. Children(place', c) \subseteq Children(place, c)
      BY <1>1, <3>1 DEF Children
    <3> QED
      BY <2>1, <3>2, UnusedIs
  <2> QED
    BY <1>2, <2>1, <2>2, UnusedIs
<1>8. edges' \subseteq Edges
  BY <1>2 DEF GInv
<1> QED
  BY <1>1, <1>2, <1>4, <1>5, <1>6, <1>7, <1>8 DEF GInv, WiringMatchesEdges, Shared

LEMMA GroupMoves ==
    ASSUME GInv, NEW g \in Graphs, NEW members, NEW group \in Groups, Group(g, members, group)
    PROVE  /\ g \in Running(place) /\ members \subseteq Children(place, g) /\ place[group] = "unused" /\ members # {}
           /\ group \notin members /\ g # group /\ group \in Blocks
           /\ \A d \in Blocks : place'[d] = IF d \in members THEN group ELSE IF d = group THEN g ELSE place[d]
           /\ Nested(place') /\ Running(place') = Running(place) \cup {group} /\ Live' = Live
<1>1. /\ g \in Running(place) /\ members \subseteq Children(place, g) /\ place[group] = "unused" /\ members # {}
      /\ place' = [b \in Blocks |-> IF b \in members THEN group ELSE IF b = group THEN g ELSE place[b]]
  BY ReachableIs, WithinIs DEF Group, Running
<1>2. /\ group \in Blocks /\ group \in Graphs /\ group \notin Running(place) /\ Children(place, group) = {}
      /\ "unused" \notin Graphs /\ "unused" \notin Blocks
  BY <1>1, UnusedIs, NamesApart DEF Elsewhere, Blocks
<1>3. group \notin members /\ g # group
  BY <1>1, <1>2 DEF Children
<1>4. \A d \in Blocks : place'[d] = IF d \in members THEN group ELSE IF d = group THEN g ELSE place[d]
  BY <1>1
<1>5. place' \in [Blocks -> Graphs \cup Elsewhere]
  BY <1>1, <1>2 DEF GInv, Nested
<1>6. /\ Children(place', group) = members
      /\ \A x \in Blocks : x # group => Children(place', x) \subseteq Children(place, x) \cup (IF x = g THEN {group} ELSE {})
  BY <1>1, <1>2, <1>3, <1>4 DEF Children
<1>7. ASSUME NEW S \in SUBSET Blocks, S # {} PROVE \E x \in S : Children(place', x) \cap S = {}
  <2>1. CASE group \in S /\ members \cap S = {}
    BY <1>6, <2>1
  <2>2. CASE group \notin S
    <3>1. PICK x \in S : Children(place, x) \cap S = {}
      BY <1>7 DEF GInv, Nested
    <3> QED
      BY <1>6, <2>2, <3>1
  <2>3. CASE members \cap S # {} /\ group \in S
    <3>1. S \ {group} \in SUBSET Blocks /\ S \ {group} # {}
      BY <1>3, <2>3
    <3>2. PICK x \in S \ {group} : Children(place, x) \cap (S \ {group}) = {}
      BY <3>1 DEF GInv, Nested
    <3>3. x # g
      BY <1>1, <1>3, <2>3, <3>2
    <3>4. group \notin Children(place, x)
      BY <1>1, <1>2, <3>2 DEF Children
    <3> QED
      BY <1>6, <3>2, <3>3, <3>4
  <2> QED
    BY <2>1, <2>2, <2>3
<1>8. Nested(place')
  BY <1>5, <1>7 DEF Nested
<1>9. /\ Running(place) \in SUBSET Graphs /\ Root \in Running(place) /\ Running(place') \in SUBSET Graphs /\ Root \in Running(place')
      /\ \A i \in Groups : i \in Blocks /\ i \in Running(place) <=> place[i] \in Running(place)
      /\ \A i \in Groups : i \in Running(place') <=> place'[i] \in Running(place')
  BY <1>8, RunningIs, NamesApart DEF GInv
<1>10. Running(place') \subseteq Running(place) \cup {group}
  <2>1. ASSUME NEW i \in Groups, place'[i] \in Running(place) \cup {group} PROVE i \in Running(place) \cup {group}
    <3>1. i \in Blocks
      BY NamesApart
    <3>2. CASE i \in members
      BY <1>1, <1>9, <3>1, <3>2 DEF Children
    <3>3. CASE i \notin members /\ i # group
      BY <1>2, <1>4, <1>9, <2>1, <3>1, <3>3 DEF Children
    <3> QED
      BY <3>2, <3>3
  <2>2. Running(place) \cup {group} \in SUBSET Graphs
    BY <1>2, <1>9
  <2> QED
    BY <1>8, <1>9, <2>1, <2>2, RunningWithin
<1>11. Running(place) \subseteq Running(place')
  <2>1. ASSUME NEW i \in Groups, place[i] \in Running(place') PROVE i \in Running(place')
    <3>1. i \in Blocks /\ group \in Blocks
      BY NamesApart
    <3>2. CASE i \in members
      <4>1. place[i] = g /\ place'[i] = group /\ place'[group] = g
        BY <1>1, <1>3, <1>4, <3>1, <3>2 DEF Children
      <4> QED
        BY <1>9, <2>1, <4>1
    <3>3. CASE i \notin members
      BY <1>1, <1>2, <1>4, <1>9, <2>1, <3>1, <3>3
    <3> QED
      BY <3>2, <3>3
  <2> QED
    BY <1>9, <2>1, RunningWithin DEF GInv
<1>12. group \in Running(place')
  BY <1>1, <1>2, <1>3, <1>4, <1>9, <1>11
<1>13. Running(place') = Running(place) \cup {group}
  BY <1>10, <1>11, <1>12
<1>14. Live' = Live
  <2>1. ASSUME NEW q \in Prims PROVE q \in Runs(place') <=> q \in Runs(place)
    <3>1. q \in Blocks /\ q # group
      BY NamesApart
    <3>2. CASE q \in members
      BY <1>1, <1>4, <1>13, <3>1, <3>2 DEF Runs, Children
    <3>3. CASE q \notin members
      <4>1. place[q] # group
        BY <1>2, <3>1 DEF Children
      <4> QED
        BY <1>4, <1>13, <3>1, <3>3, <4>1 DEF Runs
    <3> QED
      BY <3>2, <3>3
  <2> QED
    BY <2>1, LiveIs
<1> QED
  BY <1>1, <1>2, <1>3, <1>4, <1>8, <1>13, <1>14

(* Every live edge is listed by one graph or another, and as it was or as  *)
(* waiting, and still ends at ports that its graph sees.                   *)
LEMMA GroupEdges ==
    ASSUME GInv, NEW g \in Graphs, NEW members, NEW group \in Groups, Group(g, members, group)
    PROVE  /\ edges' \subseteq Edges /\ \A e \in edges' : e.graph = group \/ \E f \in edges : f.graph = e.graph
           /\ \A e \in LiveEdges' :
                 /\ {e.from, e.to} \subseteq EndsIn(e.graph)'
                 /\ \E f \in LiveEdges : /\ f.from.port = e.from.port /\ f.to.port = e.to.port
                                         /\ e.state \in {f.state, "WaitingToBeConnected"}
           /\ \A f \in LiveEdges : \E e \in LiveEdges' : e.from.port = f.from.port /\ e.to.port = f.to.port
<1> DEFINE Handed(x) == IF x.block \in members THEN [block |-> group, port |-> x.port] ELSE x
           Touching == {e \in edges : e.graph = g /\ {e.from.block, e.to.block} \cap members # {}}
           Rewritten(e) ==
               IF {e.from.block, e.to.block} \subseteq members THEN [e EXCEPT !.graph = group]
               ELSE [InState(e, "WaitingToBeConnected") EXCEPT !.from = Handed(@), !.to = Handed(@)]
<1>1. /\ g \in Running(place) /\ members \subseteq Children(place, g) /\ place[group] = "unused" /\ members # {}
      /\ group \notin members /\ g # group /\ group \in Blocks
      /\ \A d \in Blocks : place'[d] = IF d \in members THEN group ELSE IF d = group THEN g ELSE place[d]
      /\ Nested(place') /\ Running(place') = Running(place) \cup {group} /\ Live' = Live
  BY GroupMoves
<1>2. edges' = (edges \ Touching) \cup {Rewritten(e) : e \in Touching}
  BY DEF Group
<1>3. ASSUME NEW x \in Ends
      PROVE  Handed(x) \in Ends /\ Handed(x).port = x.port
  BY <1>1 DEF Ends
<1>4. ASSUME NEW e \in Edges
      PROVE  /\ Rewritten(e) \in Edges /\ Rewritten(e).from.port = e.from.port /\ Rewritten(e).to.port = e.to.port
             /\ IF {e.from.block, e.to.block} \subseteq members
                THEN Rewritten(e).graph = group /\ Rewritten(e).state = e.state /\ Rewritten(e).from = e.from /\ Rewritten(e).to = e.to
                ELSE /\ Rewritten(e).graph = e.graph /\ Rewritten(e).state = "WaitingToBeConnected"
                     /\ Rewritten(e).from = Handed(e.from) /\ Rewritten(e).to = Handed(e.to)
  <2>1. e.from \in Ends /\ e.to \in Ends /\ group \in Graphs
    BY NamesApart DEF Edges
  <2>2. CASE {e.from.block, e.to.block} \subseteq members
    BY <2>1, <2>2 DEF Edges
  <2>3. CASE ~ ({e.from.block, e.to.block} \subseteq members)
    <3> DEFINE w == InState(e, "WaitingToBeConnected")
    <3>1. w \in Edges /\ w.graph = e.graph /\ w.from = e.from /\ w.to = e.to /\ w.state = "WaitingToBeConnected"
      BY InStateIs DEF States
    <3> HIDE DEF w
    <3>2. Handed(w.from) \in Ends /\ Handed(w.to) \in Ends /\ Handed(w.from).port = e.from.port /\ Handed(w.to).port = e.to.port
      BY <1>3, <2>1, <3>1
    <3> HIDE DEF Handed
    <3>3. [w EXCEPT !.from = Handed(@), !.to = Handed(@)] \in Edges
      BY <3>1, <3>2 DEF Edges
    <3>4. Rewritten(e) = [w EXCEPT !.from = Handed(@), !.to = Handed(@)]
      BY <2>3 DEF w
    <3>5. /\ Rewritten(e).graph = w.graph /\ Rewritten(e).state = w.state
          /\ Rewritten(e).from = Handed(w.from) /\ Rewritten(e).to = Handed(w.to)
      BY <3>1, <3>4 DEF Edges
    <3> QED
      BY <2>3, <3>1, <3>2, <3>3, <3>4, <3>5
  <2> QED
    BY <2>2, <2>3
<1>5. \A e \in edges : e.graph # group
  BY <1>1, UnusedIs
<1>6. ASSUME NEW y \in Blocks PROVE Contents(place)[y] \subseteq Contents(place')[y]
  <2>1. ASSUME NEW d \in Blocks, place[d] \in Blocks PROVE Contents(place')[d] \subseteq Contents(place')[place[d]]
    <3>1. CASE d \in members
      <4>1. place[d] = g /\ place'[d] = group /\ place'[group] = g
        BY <1>1, <3>1 DEF Children
      <4>2. Contents(place')[d] \subseteq Contents(place')[place'[d]] /\ Contents(place')[group] \subseteq Contents(place')[place'[group]]
        BY <1>1, <2>1, <4>1, ChildContents
      <4> QED
        BY <4>1, <4>2
    <3>2. CASE d \notin members
      <4>1. "unused" \notin Blocks
        BY NamesApart DEF Elsewhere, Blocks
      <4>2. place'[d] = place[d]
        BY <1>1, <2>1, <3>2, <4>1
      <4> QED
        BY <1>1, <2>1, <4>2, ChildContents
    <3> QED
      BY <3>1, <3>2
  <2>2. \A q \in Prims : q \in Contents(place')[q]
    <3> SUFFICES ASSUME NEW q \in Prims PROVE q \in Contents(place')[q]
      OBVIOUS
    <3>1. q \in Blocks
      BY NamesApart
    <3>2. Contents(place')[q] = {q}
      BY <1>1, <3>1, ContentsAre
    <3> QED
      BY <3>2
  <2> QED
    BY <2>1, <2>2, ContentsBound DEF GInv
<1>7. ASSUME NEW f \in LiveEdges, NEW x \in {f.from, f.to}
      PROVE  /\ x.block \notin members => x \in EndsIn(f.graph)'
             /\ x.block \in members => f.graph = g /\ x \in EndsIn(group)' /\ Handed(x) \in EndsIn(f.graph)'
  <2>1. /\ x.block \in Runs(place) /\ place[x.block] = f.graph /\ x.port \in Contents(place)[x.block]
        /\ x \in Ends /\ x.block \in Blocks /\ f \in edges
    BY <1>7, EdgeIs DEF Runs
  <2>2. x.port \in Contents(place')[x.block] /\ x.block # group
    BY <1>1, <1>6, <2>1, UnusedIs
  <2>3. CASE x.block \notin members
    <3>1. place'[x.block] = f.graph
      BY <1>1, <2>1, <2>2, <2>3
    <3> QED
      BY <2>1, <2>2, <2>3, <3>1, EndsAre
  <2>4. CASE x.block \in members
    <3>1. f.graph = g /\ place'[x.block] = group /\ place'[group] = g
      BY <1>1, <2>1, <2>4 DEF Children
    <3>2. x.port \in Contents(place')[group]
      BY <1>1, <2>1, <2>2, <3>1, ChildContents
    <3>3. Handed(x) \in Ends /\ Handed(x).block = group /\ Handed(x).port = x.port
      BY <1>3, <2>1, <2>4
    <3> HIDE DEF Handed
    <3> QED
      BY <2>1, <2>2, <2>4, <3>1, <3>2, <3>3, EndsAre
  <2> QED
    BY <2>3, <2>4
<1>8. ASSUME NEW f \in LiveEdges
      PROVE  f \in Edges /\ f \in edges /\ f.graph \in Running(place')
  BY <1>1, EdgeIs
<1> HIDE DEF Rewritten
<1>9. ASSUME NEW f \in LiveEdges, f \in Touching
      PROVE  /\ {Rewritten(f).from, Rewritten(f).to} \subseteq EndsIn(Rewritten(f).graph)'
             /\ Rewritten(f) \in LiveEdges'
  <2>1. f \in Edges /\ f.graph = g /\ f.from \in Ends /\ f.to \in Ends /\ group \in Running(place') /\ g \in Running(place')
    BY <1>1, <1>9, EdgeIs
  <2>2. Rewritten(f) \in LiveEdges'
    BY <1>2, <1>4, <1>9, <2>1, LiveIs
  <2>3. CASE {f.from.block, f.to.block} \subseteq members
    <3>1. Rewritten(f).graph = group /\ Rewritten(f).from = f.from /\ Rewritten(f).to = f.to
      BY <1>4, <2>1, <2>3
    <3>2. f.from \in EndsIn(group)' /\ f.to \in EndsIn(group)'
      BY <1>7, <2>3
    <3> QED
      BY <2>2, <3>1, <3>2
  <2>4. CASE ~ ({f.from.block, f.to.block} \subseteq members)
    <3>1. Rewritten(f).graph = g /\ Rewritten(f).from = Handed(f.from) /\ Rewritten(f).to = Handed(f.to)
      BY <1>4, <2>1, <2>4
    <3>2. \A x \in {f.from, f.to} : Handed(x) \in EndsIn(g)'
      BY <1>7, <2>1
    <3> QED
      BY <2>2, <3>1, <3>2
  <2> QED
    BY <2>3, <2>4
<1>10. ASSUME NEW e \in LiveEdges'
       PROVE  \/ e \in LiveEdges /\ e \notin Touching
              \/ \E f \in LiveEdges : f \in Touching /\ e = Rewritten(f)
  <2>1. e \in edges' /\ e.graph \in Running(place) \cup {group}
    BY <1>1, LiveIs
  <2>2. CASE e \in edges \ Touching
    BY <1>5, <2>1, <2>2, LiveIs
  <2>3. CASE e \notin edges \ Touching
    <3>1. PICK f \in Touching : e = Rewritten(f)
      BY <1>2, <2>1, <2>3
    <3>2. f \in LiveEdges
      BY <1>1, <3>1, LiveIs
    <3> QED
      BY <3>1, <3>2
  <2> QED
    BY <2>2, <2>3
<1>11. ASSUME NEW e \in LiveEdges'
       PROVE  /\ {e.from, e.to} \subseteq EndsIn(e.graph)'
              /\ \E f \in LiveEdges : /\ f.from.port = e.from.port /\ f.to.port = e.to.port
                                      /\ e.state \in {f.state, "WaitingToBeConnected"}
  <2>1. CASE e \in LiveEdges /\ e \notin Touching
    <3>1. e.from.block \in members => e.graph = g
      BY <1>7, <2>1
    <3>2. e.to.block \in members => e.graph = g
      BY <1>7, <2>1
    <3>3. e.from.block \notin members /\ e.to.block \notin members
      BY <1>8, <2>1, <3>1, <3>2
    <3>4. e.from \in EndsIn(e.graph)' /\ e.to \in EndsIn(e.graph)'
      BY <1>7, <2>1, <3>3
    <3> QED
      BY <2>1, <3>4
  <2>2. CASE \E f \in LiveEdges : f \in Touching /\ e = Rewritten(f)
    <3>1. PICK f \in LiveEdges : f \in Touching /\ e = Rewritten(f)
      BY <2>2
    <3> QED
      BY <1>4, <1>8, <1>9, <3>1
  <2> QED
    BY <1>10, <2>1, <2>2
<1>12. ASSUME NEW f \in LiveEdges
       PROVE  \E e \in LiveEdges' : e.from.port = f.from.port /\ e.to.port = f.to.port
  <2>1. CASE f \in Touching
    BY <1>4, <1>8, <1>9, <2>1
  <2>2. CASE f \notin Touching
    <3>1. f \in edges' /\ f.graph \in Running(place')
      BY <1>2, <1>8, <2>2
    <3> QED
      BY <3>1, LiveIs
  <2> QED
    BY <2>1, <2>2
<1>13. edges' \subseteq Edges /\ \A e \in edges' : e.graph = group \/ \E f \in edges : f.graph = e.graph
  <2>1. ASSUME NEW f \in Touching
        PROVE  f \in edges /\ Rewritten(f) \in Edges /\ (Rewritten(f).graph = group \/ Rewritten(f).graph = f.graph)
    BY <1>4 DEF GInv
  <2>2. edges \subseteq Edges
    BY DEF GInv
  <2> HIDE DEF Touching
  <2> QED
    BY <1>2, <2>1, <2>2
<1> QED
  BY <1>11, <1>12, <1>13

LEMMA GroupKeeps ==
    ASSUME GInv, NEW g \in Graphs, NEW members, NEW group \in Groups, Group(g, members, group)
    PROVE  GInv'
<1>1. /\ g \in Running(place) /\ members \subseteq Children(place, g) /\ place[group] = "unused" /\ members # {}
      /\ group \notin members /\ g # group /\ group \in Blocks
      /\ \A d \in Blocks : place'[d] = IF d \in members THEN group ELSE IF d = group THEN g ELSE place[d]
      /\ Nested(place') /\ Running(place') = Running(place) \cup {group} /\ Live' = Live
  BY GroupMoves
<1>2. /\ edges' \subseteq Edges /\ \A e \in edges' : e.graph = group \/ \E f \in edges : f.graph = e.graph
      /\ \A e \in LiveEdges' :
            /\ {e.from, e.to} \subseteq EndsIn(e.graph)'
            /\ \E f \in LiveEdges : /\ f.from.port = e.from.port /\ f.to.port = e.to.port
                                    /\ e.state \in {f.state, "WaitingToBeConnected"}
      /\ \A f \in LiveEdges : \E e \in LiveEdges' : e.from.port = f.from.port /\ e.to.port = f.to.port
  BY GroupEdges
<1>3. reads' = reads /\ loose' = loose
  BY DEF Group
<1>4. \A q \in Live' : reads'[q] \in Live' => \E e \in LiveEdges' : e.from.port = reads'[q] /\ e.to.port = q
  BY <1>1, <1>2, <1>3, MatchesIs
<1>5. \A e \in LiveEdges' : e.state = "Connected" /\ e.to.port \notin loose' => reads'[e.to.port] = e.from.port
  BY <1>2, <1>3, MatchesIs
<1>6. UnusedFresh'
  <2> SUFFICES ASSUME NEW c \in Blocks, place'[c] = "unused"
               PROVE  /\ Children(place', c) = {} /\ \A e \in edges' : e.graph # c
                      /\ \A q \in Prims : reads'[q] # c
                      /\ c \in Prims => reads'[c] = None
    BY WithinIs DEF UnusedFresh
  <2>1. "unused" \notin Blocks /\ "unused" \notin Graphs
    BY NamesApart DEF Elsewhere, Blocks
  <2>2. c # group /\ place[c] = "unused"
    BY <1>1, <2>1
  <2>3. c # g /\ Children(place, c) = {}
    BY <1>1, <2>2, UnusedIs
  <2>4. Children(place', c) = {}
    BY <1>1, <2>2, <2>3 DEF Children
  <2> QED
    BY <1>2, <1>3, <2>2, <2>4, UnusedIs
<1> QED
  BY <1>1, <1>2, <1>3, <1>4, <1>5, <1>6 DEF GInv, EdgesSeen, WiringMatchesEdges, Shared

LEMMA UngroupMoves ==
    ASSUME GInv, NEW group \in Groups, Ungroup(group)
    PROVE  /\ place[group] \in Running(place) /\ group \in Running(place) /\ place[group] # group /\ group \in Blocks
           /\ \A d \in Blocks : place'[d] = IF d = group THEN "zombie" ELSE IF place[d] = group THEN place[group] ELSE place[d]
           /\ Nested(place') /\ Running(place') = Running(place) \ {group} /\ Live' = Live
<1> DEFINE g == place[group]
<1>1. /\ g \in Running(place)
      /\ place' = [b \in Blocks |-> IF b = group THEN "zombie" ELSE IF place[b] = group THEN g ELSE place[b]]
  BY ReachableIs DEF Ungroup, Running
<1>2. group \in Blocks /\ group \in Graphs /\ "zombie" \notin Graphs /\ "zombie" \notin Blocks
  BY NamesApart DEF Elsewhere, Blocks
<1>3. g # group /\ g \in Graphs
  <2>1. Children(place, group) \cap {group} = {}
    <3>1. {group} \in SUBSET Blocks /\ {group} # {}
      BY <1>2
    <3>2. \E x \in {group} : Children(place, x) \cap {group} = {}
      BY <3>1 DEF GInv, Nested
    <3> QED
      BY <3>2
  <2> QED
    BY <1>1, <1>2, <2>1, RunningIs DEF GInv, Children
<1>4. \A d \in Blocks : place'[d] = IF d = group THEN "zombie" ELSE IF place[d] = group THEN g ELSE place[d]
  BY <1>1
<1>5. place' \in [Blocks -> Graphs \cup Elsewhere]
  BY <1>1, <1>3 DEF GInv, Nested, Elsewhere
<1> HIDE DEF g
<1>6. /\ Children(place', group) = {} /\ group \in Children(place, g)
      /\ \A x \in Blocks : Children(place', x) \subseteq Children(place, x) \cup (IF x = g THEN Children(place, group) ELSE {})
  BY <1>2, <1>3, <1>4 DEF Children, g
<1>7. ASSUME NEW S \in SUBSET Blocks, S # {} PROVE \E x \in S : Children(place', x) \cap S = {}
  <2>1. CASE group \in S
    BY <1>6, <2>1
  <2>2. CASE Children(place, group) \cap S = {}
    <3>1. PICK x \in S : Children(place, x) \cap S = {}
      BY <1>7 DEF GInv, Nested
    <3>2. Children(place', x) \cap S = {}
      BY <1>6, <2>2, <3>1
    <3> QED
      BY <3>2
  <2>3. CASE Children(place, group) \cap S # {} /\ group \notin S
    <3>1. S \cup {group} \in SUBSET Blocks /\ S \cup {group} # {}
      BY <1>2
    <3>2. PICK x \in S \cup {group} : Children(place, x) \cap (S \cup {group}) = {}
      BY <3>1 DEF GInv, Nested
    <3>3. x # g /\ x \in S
      BY <1>6, <2>3, <3>2
    <3>4. Children(place', x) \cap S = {}
      BY <1>6, <3>2, <3>3
    <3> QED
      BY <3>3, <3>4
  <2> QED
    BY <2>1, <2>2, <2>3
<1>8. Nested(place')
  BY <1>5, <1>7 DEF Nested
<1>9. /\ Running(place) \in SUBSET Graphs /\ Root \in Running(place) /\ Running(place') \in SUBSET Graphs /\ Root \in Running(place')
      /\ \A i \in Groups : i \in Blocks /\ (i \in Running(place) <=> place[i] \in Running(place))
      /\ \A i \in Groups : i \in Running(place') <=> place'[i] \in Running(place')
      /\ Root # group
  BY <1>8, RunningIs, NamesApart DEF GInv
<1>10. group \in Running(place)
  BY <1>1, <1>9 DEF g
<1>11. Running(place') \subseteq Running(place) \ {group}
  <2>1. ASSUME NEW i \in Groups, place'[i] \in Running(place) \ {group} PROVE i \in Running(place) \ {group}
    <3>1. i # group
      BY <1>2, <1>4, <1>9, <2>1
    <3> QED
      BY <1>4, <1>9, <1>10, <2>1, <3>1
  <2>2. Running(place) \ {group} \in SUBSET Graphs /\ Root \in Running(place) \ {group}
    BY <1>9
  <2> QED
    BY <1>8, <2>1, <2>2, RunningWithin
<1>12. Running(place) \ {group} \subseteq Running(place')
  <2> DEFINE S == Running(place') \cup (IF g \in Running(place') THEN {group} ELSE {})
  <2>1. ASSUME NEW i \in Groups, place[i] \in S PROVE i \in S
    <3>1. CASE i = group
      BY <1>3, <2>1, <3>1 DEF g
    <3>2. CASE i # group /\ place[i] = group
      <4>1. g \in Running(place') /\ place'[i] = g
        BY <1>4, <1>9, <1>11, <2>1, <3>2
      <4> QED
        BY <1>9, <4>1
    <3>3. CASE i # group /\ place[i] # group
      BY <1>4, <1>9, <2>1, <3>3
    <3> QED
      BY <3>1, <3>2, <3>3
  <2>2. S \in SUBSET Graphs /\ Root \in S
    BY <1>2, <1>9
  <2>3. Running(place) \subseteq S
    BY <2>1, <2>2, RunningWithin DEF GInv
  <2> QED
    BY <2>3
<1>13. Running(place') = Running(place) \ {group}
  BY <1>11, <1>12
<1>14. Live' = Live
  <2>1. ASSUME NEW q \in Prims PROVE q \in Runs(place') <=> q \in Runs(place)
    <3>1. q \in Blocks /\ q # group
      BY NamesApart
    <3> QED
      BY <1>1, <1>3, <1>4, <1>10, <1>13, <3>1 DEF Runs
  <2> QED
    BY <2>1, LiveIs
<1> QED
  BY <1>1, <1>2, <1>3, <1>4, <1>8, <1>10, <1>13, <1>14 DEF g

(* The edges of a graph whose group is dissolved, before they are connected*)
Relocated(group) ==
    LET g == place[group]
        Inner(p) == CHOOSE b \in In(group) : p \in Within(b)
        Resolved(x) == IF x.block = group THEN [block |-> Inner(x.port), port |-> x.port] ELSE x
        Touching == {e \in edges : e.graph = g /\ group \in {e.from.block, e.to.block}}
        Listed == {[e EXCEPT !.graph = g] : e \in {f \in edges : f.graph = group}}
        Outer == {[InState(e, "WaitingToBeConnected") EXCEPT !.from = Resolved(@), !.to = Resolved(@)] : e \in Touching}
    IN  ({e \in edges : e.graph # group} \ Touching) \cup Listed \cup Outer

RelocatedWaiting(group) == {e \in Relocated(group) : e.graph \in Running(place) /\ e.state = "WaitingToBeConnected"}

LEMMA UngroupIs ==
    ASSUME NEW group \in Groups, Ungroup(group)
    PROVE  /\ reads' \in Connections(RelocatedWaiting(group), reads)
           /\ edges' = (Relocated(group) \ RelocatedWaiting(group)) \cup {InState(e, "Connected") : e \in RelocatedWaiting(group)}
           /\ loose' = loose \cup Contested
<1>1. Reachable(Root) = Running(place)
  BY ReachableIs DEF Running
<1> QED
  BY <1>1 DEF Ungroup, Relocated, RelocatedWaiting

LEMMA UngroupEdges ==
    ASSUME GInv, NEW group \in Groups, Ungroup(group)
    PROVE  /\ Relocated(group) \subseteq Edges
           /\ \A e \in Relocated(group) : e.graph # group /\ (e.graph = place[group] \/ \E f \in edges : f.graph = e.graph)
           /\ \A e \in Relocated(group) : e.graph \in Running(place) =>
                 /\ {e.from, e.to} \subseteq EndsIn(e.graph)'
                 /\ \E f \in LiveEdges : /\ f.from.port = e.from.port /\ f.to.port = e.to.port
                                         /\ e.state \in {f.state, "WaitingToBeConnected"}
           /\ \A f \in LiveEdges : \E e \in Relocated(group) :
                 e.graph \in Running(place) /\ e.from.port = f.from.port /\ e.to.port = f.to.port
<1>0. PICK g : g = place[group]
  OBVIOUS
<1> DEFINE Inner(p) == CHOOSE b \in In(group) : p \in Within(b)
           Resolved(x) == IF x.block = group THEN [block |-> Inner(x.port), port |-> x.port] ELSE x
           Touching == {e \in edges : e.graph = g /\ group \in {e.from.block, e.to.block}}
           Raised(e) == [e EXCEPT !.graph = g]
           Renamed(e) == [InState(e, "WaitingToBeConnected") EXCEPT !.from = Resolved(@), !.to = Resolved(@)]
           Held == {f \in edges : f.graph = group}
<1>1. /\ g \in Running(place) /\ group \in Running(place) /\ g # group /\ group \in Blocks
      /\ \A d \in Blocks : place'[d] = IF d = group THEN "zombie" ELSE IF place[d] = group THEN g ELSE place[d]
      /\ Nested(place') /\ Running(place') = Running(place) \ {group} /\ Live' = Live
  BY <1>0, UngroupMoves
<1>2. Relocated(group) = ({e \in edges : e.graph # group} \ Touching) \cup {Raised(e) : e \in Held} \cup {Renamed(e) : e \in Touching}
  BY <1>0 DEF Relocated
<1>3. g \in Graphs /\ group \notin Prims /\ edges \subseteq Edges
  BY <1>1, RunningIs, NamesApart DEF GInv
<1>4. ASSUME NEW p \in Contents(place)[group]
      PROVE  Inner(p) \in Blocks /\ place[Inner(p)] = group /\ p \in Contents(place)[Inner(p)]
  <2>1. Contents(place)[group] = UNION {Contents(place)[d] : d \in Children(place, group)}
    BY <1>1, <1>3, ContentsAre DEF GInv
  <2>2. \E b \in In(group) : p \in Within(b)
    BY <2>1, WithinIs
  <2>3. Inner(p) \in In(group) /\ p \in Within(Inner(p))
    BY <2>2
  <2> HIDE DEF Inner
  <2> QED
    BY <2>3, WithinIs DEF Children
<1> HIDE DEF Inner
<1> DEFINE To == [y \in Blocks |-> IF y = group THEN UNION {Contents(place')[d] : d \in Children(place, group)} ELSE Contents(place')[y]]
<1>5. ASSUME NEW y \in Blocks PROVE Contents(place)[y] \subseteq To[y]
  <2>1. ASSUME NEW d \in Blocks, place[d] \in Blocks PROVE To[d] \subseteq To[place[d]]
    <3>1. CASE d = group
      <4>1. \A x \in Children(place, group) : Contents(place')[x] \subseteq Contents(place')[g]
        <5>1. \A x \in Children(place, group) : x \in Blocks /\ x # group /\ place'[x] = g /\ g \in Blocks
          BY <1>0, <1>1, <2>1, <3>1 DEF Children
        <5> QED
          BY <1>1, <5>1, ChildContents
      <4>2. To[d] = UNION {Contents(place')[x] : x \in Children(place, group)} /\ To[place[d]] = Contents(place')[g]
        BY <1>0, <1>1, <2>1, <3>1
      <4> QED
        BY <4>1, <4>2
    <3>2. CASE d # group /\ place[d] = group
      <4>1. d \in Children(place, group) /\ To[d] = Contents(place')[d]
        BY <2>1, <3>2 DEF Children
      <4>2. To[group] = UNION {Contents(place')[x] : x \in Children(place, group)}
        BY <1>1
      <4> QED
        BY <3>2, <4>1, <4>2
    <3>3. CASE d # group /\ place[d] # group
      <4>1. place'[d] = place[d]
        BY <1>1, <3>3
      <4>2. Contents(place')[d] \subseteq Contents(place')[place[d]]
        BY <1>1, <2>1, <4>1, ChildContents
      <4> QED
        BY <2>1, <3>3, <4>2
    <3> QED
      BY <3>1, <3>2, <3>3
  <2>2. \A q \in Prims : q \in To[q]
    <3>1. \A q \in Prims : q \in Blocks /\ q # group /\ Contents(place')[q] = {q}
      BY <1>1, <1>3, ContentsAre, NamesApart
    <3> QED
      BY <3>1
  <2> HIDE DEF To
  <2> QED
    BY <2>1, <2>2, ContentsBound DEF GInv
<1>6. ASSUME NEW y \in Blocks, y # group PROVE Contents(place)[y] \subseteq Contents(place')[y]
  BY <1>5, <1>6
<1> HIDE DEF To
<1>7. ASSUME NEW f \in LiveEdges, NEW x \in {f.from, f.to}
      PROVE  /\ Resolved(x) \in Ends /\ Resolved(x).port = x.port
             /\ x.block = group => f.graph = g
             /\ x.block # group => Resolved(x) = x
             /\ f.graph = group => Resolved(x) \in EndsIn(g)'
             /\ f.graph # group => Resolved(x) \in EndsIn(f.graph)'
  <2>1. /\ x.block \in Runs(place) /\ place[x.block] = f.graph /\ x.port \in Contents(place)[x.block]
        /\ x \in Ends /\ x.block \in Blocks /\ f \in edges /\ x.port \in Prims
    BY <1>7, EdgeIs DEF Runs
  <2>2. CASE x.block # group
    <3>1. place'[x.block] = IF f.graph = group THEN g ELSE f.graph
      BY <1>1, <2>1, <2>2
    <3>2. x.port \in Contents(place')[x.block]
      BY <1>6, <2>1, <2>2
    <3>3. Resolved(x) = x
      BY <2>2
    <3> HIDE DEF Resolved
    <3>4. f.graph = group => x \in EndsIn(g)'
      BY <2>1, <3>1, <3>2, EndsAre
    <3>5. f.graph # group => x \in EndsIn(f.graph)'
      BY <2>1, <3>1, <3>2, EndsAre
    <3> QED
      BY <2>1, <2>2, <3>3, <3>4, <3>5
  <2>3. CASE x.block = group
    <3>1. f.graph = g
      BY <1>0, <2>1, <2>3
    <3>2. Inner(x.port) \in Blocks /\ place[Inner(x.port)] = group /\ x.port \in Contents(place)[Inner(x.port)]
      BY <1>4, <2>1, <2>3
    <3>3. Inner(x.port) # group /\ place'[Inner(x.port)] = g
      BY <1>0, <1>1, <3>2
    <3>4. x.port \in Contents(place')[Inner(x.port)]
      BY <1>6, <3>2, <3>3
    <3>5. Resolved(x) \in Ends /\ Resolved(x).port = x.port /\ Resolved(x).block = Inner(x.port)
      BY <2>1, <2>3, <3>2 DEF Ends
    <3> HIDE DEF Resolved
    <3> QED
      BY <1>1, <2>3, <3>1, <3>3, <3>4, <3>5, EndsAre
  <2> QED
    BY <2>2, <2>3
<1>8. ASSUME NEW e \in Edges
      PROVE  Raised(e) \in Edges /\ Raised(e).graph = g /\ Raised(e).from = e.from /\ Raised(e).to = e.to /\ Raised(e).state = e.state
  BY <1>3 DEF Edges
<1>9. ASSUME NEW e \in Edges
      PROVE  /\ Renamed(e).graph = e.graph /\ Renamed(e).state = "WaitingToBeConnected"
             /\ Renamed(e).from = Resolved(e.from) /\ Renamed(e).to = Resolved(e.to)
             /\ {Resolved(e.from), Resolved(e.to)} \subseteq Ends => Renamed(e) \in Edges
  <2> DEFINE w == InState(e, "WaitingToBeConnected")
  <2>1. w \in Edges /\ w.graph = e.graph /\ w.from = e.from /\ w.to = e.to /\ w.state = "WaitingToBeConnected"
    BY InStateIs DEF States
  <2>2. Renamed(e) = [w EXCEPT !.from = Resolved(@), !.to = Resolved(@)]
    OBVIOUS
  <2> HIDE DEF w, Resolved, Renamed
  <2>3. /\ Renamed(e).graph = w.graph /\ Renamed(e).state = w.state
        /\ Renamed(e).from = Resolved(w.from) /\ Renamed(e).to = Resolved(w.to)
    BY <2>1, <2>2 DEF Edges
  <2>4. Resolved(w.from) \in Ends /\ Resolved(w.to) \in Ends => Renamed(e) \in Edges
    BY <2>1, <2>2 DEF Edges
  <2> QED
    BY <2>1, <2>3, <2>4
<1> HIDE DEF Raised, Renamed, Resolved
<1>10. ASSUME NEW f \in Touching
       PROVE  f \in LiveEdges /\ f \in Edges /\ f.graph = g /\ Renamed(f) \in Edges /\ Renamed(f) \in Relocated(group)
  <2>1. f \in LiveEdges /\ f \in Edges /\ f.graph = g
    BY <1>1, <1>3, LiveIs
  <2> QED
    BY <1>2, <1>7, <1>9, <2>1
<1>11. ASSUME NEW f \in Held
       PROVE  f \in LiveEdges /\ f \in Edges /\ f.graph = group /\ Raised(f) \in Edges /\ Raised(f) \in Relocated(group)
  <2>1. f \in LiveEdges /\ f \in Edges /\ f.graph = group
    BY <1>1, <1>3, LiveIs
  <2> QED
    BY <1>2, <1>8, <2>1
<1>12. ASSUME NEW e \in Relocated(group)
       PROVE  /\ e \in Edges /\ e.graph # group /\ (e.graph = g \/ \E f \in edges : f.graph = e.graph)
              /\ e.graph \in Running(place) =>
                    /\ {e.from, e.to} \subseteq EndsIn(e.graph)'
                    /\ \E f \in LiveEdges : /\ f.from.port = e.from.port /\ f.to.port = e.to.port
                                            /\ e.state \in {f.state, "WaitingToBeConnected"}
  <2>1. CASE e \in edges /\ e.graph # group /\ e \notin Touching
    <3>1. ASSUME e.graph \in Running(place)
          PROVE  e \in LiveEdges /\ {e.from, e.to} \subseteq EndsIn(e.graph)'
      <4>1. e \in LiveEdges
        BY <2>1, <3>1, LiveIs
      <4>2. ASSUME NEW x \in {e.from, e.to} PROVE x \in EndsIn(e.graph)'
        <5>1. x.block # group
          BY <1>7, <2>1, <4>1
        <5> QED
          BY <1>7, <2>1, <4>1, <5>1
      <4> QED
        BY <4>1, <4>2
    <3> QED
      BY <1>3, <2>1, <3>1
  <2>2. CASE \E f \in Held : e = Raised(f)
    <3>1. PICK f \in Held : e = Raised(f)
      BY <2>2
    <3>2. f \in LiveEdges /\ e \in Edges /\ f.graph = group /\ e.graph = g /\ e.from = f.from /\ e.to = f.to /\ e.state = f.state
      BY <1>8, <1>11, <3>1
    <3>3. ASSUME NEW x \in {f.from, f.to} PROVE x \in EndsIn(g)'
      <4>1. x.block # group
        BY <1>1, <1>7, <3>2
      <4> QED
        BY <1>7, <3>2, <4>1
    <3> QED
      BY <1>1, <3>2, <3>3
  <2>3. CASE \E f \in Touching : e = Renamed(f)
    <3>1. PICK f \in Touching : e = Renamed(f)
      BY <2>3
    <3>2. /\ f \in LiveEdges /\ e \in Edges /\ f.graph = g /\ e.graph = g /\ e.from = Resolved(f.from) /\ e.to = Resolved(f.to)
          /\ e.state = "WaitingToBeConnected"
      BY <1>9, <1>10, <3>1
    <3>3. ASSUME NEW x \in {f.from, f.to} PROVE Resolved(x) \in EndsIn(g)' /\ Resolved(x).port = x.port
      BY <1>1, <1>7, <3>2
    <3> QED
      BY <1>1, <3>2, <3>3
  <2> QED
    BY <1>2, <2>1, <2>2, <2>3
<1>13. ASSUME NEW f \in LiveEdges
       PROVE  \E e \in Relocated(group) : e.graph \in Running(place) /\ e.from.port = f.from.port /\ e.to.port = f.to.port
  <2>1. f \in edges /\ f \in Edges /\ f.graph \in Running(place)
    BY EdgeIs
  <2>2. CASE f \in Held
    BY <1>1, <1>8, <1>11, <2>2
  <2>3. CASE f \in Touching
    <3>1. Renamed(f).from = Resolved(f.from) /\ Renamed(f).to = Resolved(f.to) /\ Renamed(f).graph = g /\ Renamed(f) \in Relocated(group)
      BY <1>9, <1>10, <2>3
    <3>2. Resolved(f.from).port = f.from.port /\ Resolved(f.to).port = f.to.port
      BY <1>7
    <3> QED
      BY <1>1, <3>1, <3>2
  <2>4. CASE f \notin Held /\ f \notin Touching
    <3>1. f \in Relocated(group)
      BY <1>2, <2>1, <2>4
    <3> QED
      BY <2>1, <3>1
  <2> QED
    BY <2>2, <2>3, <2>4
<1> QED
  BY <1>0, <1>12, <1>13

(* The edges after the group is gone and the pending ones are connected    *)
LEMMA UngroupRelists ==
    ASSUME GInv, NEW group \in Groups, Ungroup(group)
    PROVE  /\ edges' \subseteq Edges /\ \A e \in edges' : e.graph = place[group] \/ \E f \in edges : f.graph = e.graph
           /\ \A e \in RelocatedWaiting(group) : \E f \in LiveEdges : f.from.port = e.from.port /\ f.to.port = e.to.port
           /\ \A e \in LiveEdges' :
                 /\ {e.from, e.to} \subseteq EndsIn(e.graph)'
                 /\ \E f \in LiveEdges :
                       /\ f.from.port = e.from.port /\ f.to.port = e.to.port
                       /\ (\A h \in RelocatedWaiting(group) : h.to.port # e.to.port) /\ e.state = "Connected" => f.state = "Connected"
           /\ \A f \in LiveEdges : \E e \in LiveEdges' : e.from.port = f.from.port /\ e.to.port = f.to.port
<1> DEFINE R == Relocated(group)
           W == RelocatedWaiting(group)
<1>1. edges' = (R \ W) \cup {InState(e, "Connected") : e \in W}
  BY UngroupIs
<1>2. /\ R \subseteq Edges
      /\ \A e \in R : e.graph # group /\ (e.graph = place[group] \/ \E f \in edges : f.graph = e.graph)
      /\ \A e \in R : e.graph \in Running(place) =>
            /\ {e.from, e.to} \subseteq EndsIn(e.graph)'
            /\ \E f \in LiveEdges : /\ f.from.port = e.from.port /\ f.to.port = e.to.port
                                    /\ e.state \in {f.state, "WaitingToBeConnected"}
      /\ \A f \in LiveEdges : \E e \in R :
            e.graph \in Running(place) /\ e.from.port = f.from.port /\ e.to.port = f.to.port
  BY UngroupEdges
<1>3. W \subseteq R /\ \A e \in R : e \in W <=> e.graph \in Running(place) /\ e.state = "WaitingToBeConnected"
  BY DEF RelocatedWaiting
<1>4. Running(place') = Running(place) \ {group}
  BY UngroupMoves
<1> HIDE DEF R, W
<1>5. \A e \in W : /\ InState(e, "Connected") \in Edges /\ InState(e, "Connected").graph = e.graph /\ InState(e, "Connected").from = e.from
                   /\ InState(e, "Connected").to = e.to /\ InState(e, "Connected").state = "Connected"
  BY <1>2, <1>3, InStateIs DEF States
<1>6. edges' \subseteq Edges /\ \A e \in edges' : e.graph = place[group] \/ \E f \in edges : f.graph = e.graph
  BY <1>1, <1>2, <1>3, <1>5
<1>7. \A e \in W : \E f \in LiveEdges : f.from.port = e.from.port /\ f.to.port = e.to.port
  BY <1>2, <1>3
<1>8. ASSUME NEW e \in LiveEdges'
      PROVE  /\ {e.from, e.to} \subseteq EndsIn(e.graph)'
             /\ \E f \in LiveEdges :
                   /\ f.from.port = e.from.port /\ f.to.port = e.to.port
                   /\ (\A h \in W : h.to.port # e.to.port) /\ e.state = "Connected" => f.state = "Connected"
  <2>1. e \in edges' /\ e.graph \in Running(place)
    BY <1>4, LiveIs
  <2>2. CASE e \in R \ W
    <3>1. PICK f \in LiveEdges : /\ f.from.port = e.from.port /\ f.to.port = e.to.port
                                 /\ e.state \in {f.state, "WaitingToBeConnected"}
      BY <1>2, <2>1, <2>2
    <3>2. e.state # "WaitingToBeConnected"
      BY <1>3, <2>1, <2>2
    <3> QED
      BY <1>2, <2>1, <2>2, <3>1, <3>2
  <2>3. CASE e \notin R \ W
    <3>1. PICK h \in W : e = InState(h, "Connected")
      BY <1>1, <2>1, <2>3
    <3>2. h \in R /\ h.graph \in Running(place) /\ e.graph = h.graph /\ e.from = h.from /\ e.to = h.to
      BY <1>3, <1>5, <3>1
    <3>3. PICK f \in LiveEdges : f.from.port = h.from.port /\ f.to.port = h.to.port
      BY <1>7
    <3>4. {h.from, h.to} \subseteq EndsIn(h.graph)'
      BY <1>2, <3>2
    <3> QED
      BY <3>2, <3>3, <3>4
  <2> QED
    BY <2>2, <2>3
<1>9. ASSUME NEW f \in LiveEdges
      PROVE  \E e \in LiveEdges' : e.from.port = f.from.port /\ e.to.port = f.to.port
  <2>1. PICK h \in R : h.graph \in Running(place) /\ h.from.port = f.from.port /\ h.to.port = f.to.port
    BY <1>2
  <2>2. h.graph \in Running(place')
    BY <1>2, <1>4, <2>1
  <2>3. CASE h \in W
    <3>1. InState(h, "Connected") \in edges' /\ InState(h, "Connected").graph \in Running(place')
      BY <1>1, <1>5, <2>2, <2>3
    <3>2. InState(h, "Connected") \in LiveEdges'
      BY <3>1, LiveIs
    <3> QED
      BY <1>5, <2>1, <2>3, <3>2
  <2>4. CASE h \notin W
    <3>1. h \in edges'
      BY <1>1, <2>4
    <3>2. h \in LiveEdges'
      BY <2>2, <3>1, LiveIs
    <3> QED
      BY <2>1, <3>2
  <2> QED
    BY <2>3, <2>4
<1> QED
  BY <1>6, <1>7, <1>8, <1>9 DEF W

(* Each input goes on reading what it read, or what a live edge to it says.*)
LEMMA UngroupReads ==
    ASSUME GInv, NEW group \in Groups, Ungroup(group)
    PROVE  /\ reads' \in [Prims -> Prims \cup {None}]
           /\ \A q \in Prims :
                 \/ reads'[q] = reads[q] /\ \A h \in RelocatedWaiting(group) : h.to.port # q
                 \/ \E f \in LiveEdges : f.to.port = q /\ f.from.port = reads'[q]
<1>1. reads' \in Connections(RelocatedWaiting(group), reads)
  BY UngroupIs
<1>2. \A e \in RelocatedWaiting(group) : \E f \in LiveEdges : f.from.port = e.from.port /\ f.to.port = e.to.port
  BY UngroupRelists
<1>3. \A e \in RelocatedWaiting(group) : e.from.port \in Prims
  BY <1>2, EdgeIs
<1>4. reads \in [Prims -> Prims \cup {None}]
  BY DEF GInv
<1>5. reads' \in [Prims -> Prims \cup {None}]
  BY <1>1, <1>3, <1>4, ConnectionsTyped
<1>6. ASSUME NEW q \in Prims
      PROVE  \/ reads'[q] = reads[q] /\ \A h \in RelocatedWaiting(group) : h.to.port # q
             \/ \E f \in LiveEdges : f.to.port = q /\ f.from.port = reads'[q]
  <2>1. \/ \E e \in RelocatedWaiting(group) : e.to.port = q /\ reads'[q] = e.from.port
        \/ reads'[q] = reads[q] /\ \A e \in RelocatedWaiting(group) : e.to.port # q
    BY <1>1, ConnectionsAre
  <2> QED
    BY <1>2, <2>1
<1> QED
  BY <1>5, <1>6

LEMMA UngroupKeeps ==
    ASSUME GInv, NEW group \in Groups, Ungroup(group)
    PROVE  GInv'
<1>1. /\ place[group] \in Running(place) /\ group \in Running(place) /\ place[group] # group /\ group \in Blocks
      /\ \A d \in Blocks : place'[d] = IF d = group THEN "zombie" ELSE IF place[d] = group THEN place[group] ELSE place[d]
      /\ Nested(place') /\ Running(place') = Running(place) \ {group} /\ Live' = Live
  BY UngroupMoves
<1>2. /\ edges' \subseteq Edges /\ \A e \in edges' : e.graph = place[group] \/ \E f \in edges : f.graph = e.graph
      /\ \A e \in LiveEdges' :
            /\ {e.from, e.to} \subseteq EndsIn(e.graph)'
            /\ \E f \in LiveEdges :
                  /\ f.from.port = e.from.port /\ f.to.port = e.to.port
                  /\ (\A h \in RelocatedWaiting(group) : h.to.port # e.to.port) /\ e.state = "Connected" => f.state = "Connected"
      /\ \A f \in LiveEdges : \E e \in LiveEdges' : e.from.port = f.from.port /\ e.to.port = f.to.port
  BY UngroupRelists
<1>3. /\ reads' \in [Prims -> Prims \cup {None}]
      /\ \A q \in Prims :
            \/ reads'[q] = reads[q] /\ \A h \in RelocatedWaiting(group) : h.to.port # q
            \/ \E f \in LiveEdges : f.to.port = q /\ f.from.port = reads'[q]
      /\ loose' = loose \cup Contested
  BY UngroupReads, UngroupIs
<1>4. ASSUME NEW q \in Live, reads'[q] \in Live
      PROVE  \E e \in LiveEdges' : e.from.port = reads'[q] /\ e.to.port = q
  <2>1. \E f \in LiveEdges : f.to.port = q /\ f.from.port = reads'[q]
    BY <1>3, <1>4, MatchesIs
  <2> QED
    BY <1>2, <2>1
<1>5. ASSUME NEW e \in LiveEdges', e.state = "Connected", e.to.port \notin loose'
      PROVE  reads'[e.to.port] = e.from.port
  <2>1. PICK f \in LiveEdges :
           /\ f.from.port = e.from.port /\ f.to.port = e.to.port
           /\ (\A h \in RelocatedWaiting(group) : h.to.port # e.to.port) /\ e.state = "Connected" => f.state = "Connected"
    BY <1>2
  <2>2. e.to.port \in Prims /\ e.to.port \notin Contested /\ e.to.port \notin loose
    BY <1>3, <1>5, <2>1, EdgeIs
  <2>3. CASE reads'[e.to.port] = reads[e.to.port] /\ \A h \in RelocatedWaiting(group) : h.to.port # e.to.port
    BY <1>5, <2>1, <2>2, <2>3, MatchesIs
  <2>4. CASE \E h \in LiveEdges : h.to.port = e.to.port /\ h.from.port = reads'[e.to.port]
    BY <2>1, <2>2, <2>4, ContestedIs
  <2> QED
    BY <1>3, <2>2, <2>3, <2>4
<1>6. UnusedFresh'
  <2> SUFFICES ASSUME NEW c \in Blocks, place'[c] = "unused"
               PROVE  /\ Children(place', c) = {} /\ \A e \in edges' : e.graph # c
                      /\ \A q \in Prims : reads'[q] # c
                      /\ c \in Prims => reads'[c] = None
    BY WithinIs DEF UnusedFresh
  <2>1. "unused" \notin Running(place) /\ "zombie" \notin Blocks
    BY RunningIs, NamesApart DEF GInv, Elsewhere, Blocks
  <2>2. place[c] = "unused"
    BY <1>1, <2>1
  <2>3. /\ c \notin Running(place) /\ c \notin Live /\ Children(place, c) = {} /\ \A e \in edges : e.graph # c
        /\ \A q \in Prims : reads[q] # c
        /\ c \in Prims => reads[c] = None
    BY <2>2, UnusedIs
  <2>4. Children(place', c) = {}
    BY <1>1, <2>1, <2>3 DEF Children
  <2>5. \A f \in LiveEdges : f.from.port \in Live /\ f.to.port \in Live
    BY EdgeIs
  <2>6. \A q \in Prims : reads'[q] # c
    BY <1>3, <2>3, <2>5
  <2>7. c \in Prims => reads'[c] = None
    BY <1>3, <2>3, <2>5
  <2> QED
    BY <1>1, <1>2, <2>3, <2>4, <2>6, <2>7
<1> QED
  BY <1>1, <1>2, <1>3, <1>4, <1>5, <1>6 DEF GInv, EdgesSeen, WiringMatchesEdges, Shared

-----------------------------------------------------------------------------
LEMMA GraphStarts == GraphInit => GInv
<1> SUFFICES ASSUME GraphInit PROVE GInv
  OBVIOUS
<1>1. PICK spare \in Prims : place = [b \in Blocks |-> IF b \in Prims \ {spare} THEN Root ELSE "unused"]
  BY DEF GraphInit
<1>2. edges = {} /\ reads = [q \in Prims |-> None]
  BY DEF GraphInit
<1>3. "unused" \notin Blocks /\ Root \notin Blocks /\ None \notin Blocks
  BY NamesApart DEF Elsewhere, Blocks
<1>4. \A x \in Blocks : Children(place, x) = {}
  BY <1>1, <1>3 DEF Children
<1>5. Nested(place)
  BY <1>1, <1>4, NamesApart DEF Nested, Elsewhere
<1>6. LiveEdges = {} /\ Live \subseteq Prims
  BY <1>2, LiveIs
<1>7. UnusedFresh
  BY <1>2, <1>3, <1>4, WithinIs DEF UnusedFresh
<1> QED
  BY <1>2, <1>3, <1>5, <1>6, <1>7, NamesApart DEF GInv, EdgesSeen, WiringMatchesEdges

LEMMA GraphStepKeeps == GInv /\ [GraphNext]_graphVars => GInv'
<1> SUFFICES ASSUME GInv, [GraphNext]_graphVars PROVE GInv'
  OBVIOUS
<1>1. ASSUME NEW from \in EndsIn(Root), NEW to \in EndsIn(Root), Connect(from, to) PROVE GInv'
  BY <1>1, ConnectKeeps
<1>2. CASE StartScheduler
  BY <1>2, StartKeeps
<1>3. CASE Pause
  BY <1>3, SameKeeps DEF Pause
<1>4. CASE Resume
  BY <1>4, ResumeKeeps
<1>5. CASE StopAndReset
  BY <1>5, StopAndResetKeeps
<1>6. ASSUME NEW g \in Graphs, NEW from \in EndsIn(g), RemoveEdge(g, from) PROVE GInv'
  BY <1>6, RemoveEdgeKeeps
<1>7. ASSUME NEW g \in Graphs, NEW from \in EndsIn(g), NEW to \in EndsIn(g), EmplaceEdge(g, from, to) PROVE GInv'
  BY <1>7, EmplaceEdgeKeeps
<1>8. ASSUME NEW b \in Blocks, RemoveBlock(b) PROVE GInv'
  BY <1>8, RemoveBlockKeeps
<1>9. ASSUME NEW b \in Blocks, Delete(b) PROVE GInv'
  BY <1>9, DeleteKeeps
<1>10. ASSUME NEW b \in Blocks, NEW c \in Prims, ReplaceBlock(b, c) PROVE GInv'
  BY <1>10, ReplaceBlockKeeps
<1>11. ASSUME NEW g \in Graphs, NEW group \in Groups, NEW members \in SUBSET In(g), Group(g, members, group) PROVE GInv'
  BY <1>11, GroupKeeps
<1>12. ASSUME NEW group \in Groups, Ungroup(group) PROVE GInv'
  BY <1>12, UngroupKeeps
<1>13. CASE UNCHANGED graphVars
  BY <1>13, SameKeeps DEF graphVars
<1> QED
  BY <1>1, <1>2, <1>3, <1>4, <1>5, <1>6, <1>7, <1>8, <1>9, <1>10, <1>11, <1>12, <1>13 DEF GraphNext

(* No live input reads from a live block that no edge to it comes from, and*)
(* an edge that is said to be connected is, but for inputs that several    *)
(* edges contend for or whose buffer was changed behind the edge's back,   *)
(* whatever messages rewire the graph and whenever it starts or stops.     *)
THEOREM WiringIsKept == GraphSpec => []WiringMatchesEdges
<1>1. GInv => WiringMatchesEdges
  BY DEF GInv
<1> QED
  BY <1>1, GraphStarts, GraphStepKeeps, PTL DEF GraphSpec

-----------------------------------------------------------------------------
(* What flows where                                                        *)
LEMMA WiresAre ==
    ASSUME NEW f \in LiveEdges
    PROVE  <<f.from.port, f.to.port>> \in Wires /\ f.from.port \in Feeding(f.to.port)
  BY DEF Wires, Feeding

LEMMA SameWires ==
    ASSUME \A e \in LiveEdges' : \E f \in LiveEdges : f.from.port = e.from.port /\ f.to.port = e.to.port,
           \A f \in LiveEdges : \E e \in LiveEdges' : e.from.port = f.from.port /\ e.to.port = f.to.port
    PROVE  Wires' = Wires
<1>1. Wires = {<<e.from.port, e.to.port>> : e \in LiveEdges} /\ Wires' = {<<e.from.port, e.to.port>> : e \in LiveEdges'}
  BY DEF Wires
<1>2. ASSUME NEW w \in Wires PROVE w \in Wires'
  <2>1. PICK f \in LiveEdges : w = <<f.from.port, f.to.port>>
    BY <1>1, <1>2
  <2>2. PICK e \in LiveEdges' : e.from.port = f.from.port /\ e.to.port = f.to.port
    OBVIOUS
  <2> QED
    BY <1>1, <2>1, <2>2
<1>3. ASSUME NEW w \in Wires' PROVE w \in Wires
  <2>1. PICK e \in LiveEdges' : w = <<e.from.port, e.to.port>>
    BY <1>1, <1>3
  <2>2. PICK f \in LiveEdges : f.from.port = e.from.port /\ f.to.port = e.to.port
    OBVIOUS
  <2> QED
    BY <1>1, <2>1, <2>2
<1> QED
  BY <1>2, <1>3

LEMMA GroupFlow ==
    ASSUME GInv, NEW g \in Graphs, NEW members, NEW group \in Groups, Group(g, members, group)
    PROVE  Wires' = Wires /\ reads' = reads
<1>1. /\ \A e \in LiveEdges' : \E f \in LiveEdges : f.from.port = e.from.port /\ f.to.port = e.to.port
      /\ \A f \in LiveEdges : \E e \in LiveEdges' : e.from.port = f.from.port /\ e.to.port = f.to.port
  BY GroupEdges
<1>2. reads' = reads
  BY DEF Group
<1> QED
  BY <1>1, <1>2, SameWires

LEMMA UngroupFlow ==
    ASSUME GInv, NEW group \in Groups, Ungroup(group)
    PROVE  /\ Wires' = Wires
           /\ \A p, q \in Prims : Shared(p, q) /\ Feeding(q) = {p} => Shared(p, q)'
<1>1. /\ \A e \in LiveEdges' : \E f \in LiveEdges : f.from.port = e.from.port /\ f.to.port = e.to.port
      /\ \A f \in LiveEdges : \E e \in LiveEdges' : e.from.port = f.from.port /\ e.to.port = f.to.port
  BY UngroupRelists
<1>2. Wires' = Wires
  BY <1>1, SameWires
<1>3. ASSUME NEW p \in Prims, NEW q \in Prims, reads[q] = p, Feeding(q) = {p} PROVE reads'[q] = p
  <2>1. \/ reads'[q] = reads[q]
        \/ \E f \in LiveEdges : f.to.port = q /\ f.from.port = reads'[q]
    BY UngroupReads
  <2>2. \A f \in LiveEdges : f.to.port = q => f.from.port = p
    BY <1>3, WiresAre
  <2> QED
    BY <1>3, <2>1, <2>2
<1> QED
  BY <1>2, <1>3 DEF Shared

LEMMA DeleteFlow ==
    ASSUME GInv, NEW b \in Blocks, Delete(b)
    PROVE  /\ Wires' = Wires
           /\ \A p, q \in Prims : <<p, q>> \in Wires /\ Shared(p, q) => Shared(p, q)'
<1>1. /\ LiveEdges' = LiveEdges
      /\ \A q \in Prims : reads'[q] = IF q \in Within(b) \/ reads[q] \in Within(b) THEN None ELSE reads[q]
      /\ Within(b) \cap Live = {}
  BY DeleteSpares, DeleteMoves
<1>2. ASSUME NEW p \in Prims, NEW q \in Prims, <<p, q>> \in Wires PROVE p \in Live /\ q \in Live
  <2>1. PICK f \in LiveEdges : f.from.port = p /\ f.to.port = q
    BY <1>2 DEF Wires
  <2> QED
    BY <2>1, EdgeIs
<1>3. Wires' = Wires
  BY <1>1 DEF Wires
<1> QED
  BY <1>1, <1>2, <1>3 DEF Shared

(* Nothing else groups blocks.                                             *)
LEMMA RegroupedNot ==
    ASSUME GInv, NEW b \in Blocks, RemoveBlock(b) \/ \E c \in Prims : ReplaceBlock(b, c)
    PROVE  ~Regrouped
<1> SUFFICES ASSUME NEW group \in Groups,
                    \/ place[group] = "unused" /\ place'[group] # "unused"
                    \/ place'[group] = "zombie" /\ \E d \in In(group) : place'[d] # group
             PROVE FALSE
  BY DEF Regrouped
<1>1. /\ group \in Blocks /\ group \notin Prims /\ {"unused", "zombie"} \cap Running(place) = {}
      /\ (group \in Running(place) <=> place[group] \in Running(place))
      /\ {"unused", "zombie"} \cap Blocks = {}
  BY RunningIs, NamesApart DEF GInv, Elsewhere, Blocks
<1>2. \A d \in In(group) : d \in Blocks /\ place[d] = group
  BY DEF In
<1>3. CASE RemoveBlock(b)
  <2>1. place' = [place EXCEPT ![b] = "zombie"] /\ place[b] \in Running(place)
    BY <1>3, ReachableIs DEF RemoveBlock, Running
  <2>2. place'[b] = "zombie" /\ \A d \in Blocks : d # b => place'[d] = place[d]
    BY <2>1 DEF GInv, Nested
  <2>3. place[group] # "unused" \/ place'[group] = "unused"
    BY <1>1, <2>1, <2>2
  <2>4. place'[group] = "zombie" /\ place[b] = group
    BY <1>2, <2>2, <2>3
  <2>5. group = b
    BY <1>1, <2>1, <2>2, <2>4
  <2>6. Children(place, b) \cap {b} = {}
    <3>1. {b} \in SUBSET Blocks /\ {b} # {}
      OBVIOUS
    <3>2. \E x \in {b} : Children(place, x) \cap {b} = {}
      BY <3>1 DEF GInv, Nested
    <3> QED
      BY <3>2
  <2> QED
    BY <2>4, <2>5, <2>6 DEF Children
<1>4. CASE \E c \in Prims : ReplaceBlock(b, c)
  <2>1. PICK c \in Prims : ReplaceBlock(b, c)
    BY <1>4
  <2>2. /\ b \in Prims /\ place[b] \in Running(place) /\ place[c] = "unused"
        /\ \A d \in Blocks \ {b, c} : place'[d] = place[d]
    BY <2>1, ReplaceBlockMoves
  <2>3. place'[group] = place[group]
    BY <1>1, <2>2
  <2>4. PICK d \in In(group) : place'[d] # group
    BY <2>3
  <2>5. d = b \/ d = c
    BY <1>2, <2>2, <2>4
  <2> QED
    BY <1>1, <1>2, <2>2, <2>3, <2>5
<1> QED
  BY <1>3, <1>4

LEMMA SamePlaceNot ==
    ASSUME place' = place
    PROVE  ~Regrouped
  BY DEF Regrouped, In

(* groupBlocks() and ungroupBlocks() leave as it is what flows where, over *)
(* any nesting of groups, and cut no connection of an input that only one  *)
(* output feeds.                                                           *)
THEOREM FlowIsKept == GraphSpec => FlowKept
<1> DEFINE Kept == /\ Wires' = Wires
                   /\ \A p, q \in Prims : <<p, q>> \in Wires /\ Shared(p, q) /\ Feeding(q) = {p} => Shared(p, q)'
<1>1. GInv /\ [GraphNext]_graphVars => (Regrouped => Kept)
  <2> SUFFICES ASSUME GInv, GraphNext \/ UNCHANGED graphVars, Regrouped PROVE Kept
    OBVIOUS
  <2>1. ASSUME NEW from \in EndsIn(Root), NEW to \in EndsIn(Root), Connect(from, to) PROVE FALSE
    BY <2>1, SamePlaceNot DEF Connect
  <2>2. ASSUME StartScheduler \/ Pause \/ Resume \/ StopAndReset \/ UNCHANGED graphVars PROVE FALSE
    BY <2>2, SamePlaceNot DEF StartScheduler, Pause, Resume, StopAndReset, graphVars
  <2>3. ASSUME NEW g \in Graphs, NEW from \in EndsIn(g), RemoveEdge(g, from) \/ \E to \in EndsIn(g) : EmplaceEdge(g, from, to)
        PROVE  FALSE
    BY <2>3, SamePlaceNot DEF RemoveEdge, EmplaceEdge
  <2>4. ASSUME NEW b \in Blocks, RemoveBlock(b) \/ \E c \in Prims : ReplaceBlock(b, c) PROVE FALSE
    BY <2>4, RegroupedNot
  <2>5. ASSUME NEW b \in Blocks, Delete(b) PROVE Kept
    BY <2>5, DeleteFlow
  <2>6. ASSUME NEW g \in Graphs, NEW group \in Groups, NEW members \in SUBSET In(g), Group(g, members, group) PROVE Kept
    BY <2>6, GroupFlow DEF Shared
  <2>7. ASSUME NEW group \in Groups, Ungroup(group) PROVE Kept
    BY <2>7, UngroupFlow
  <2> HIDE DEF Kept
  <2> QED
    BY <2>1, <2>2, <2>3, <2>4, <2>5, <2>6, <2>7 DEF GraphNext
<1> QED
  BY <1>1, GraphStarts, GraphStepKeeps, PTL DEF GraphSpec, FlowKept

-----------------------------------------------------------------------------
(* The memory of a packed map                                              *)
Kinds == STRING \cup {"none", "map"}
EntryRec == [at : Nat, len : Nat, type : Kinds, keyAt : Nat]
ChunkRec == [at : Nat, len : Nat]
MapRec == [entries : UNION {[K -> EntryRec] : K \in SUBSET Keys},
           table : Nat, pool : Nat, used : Nat, free : Seq(ChunkRec)]

KeyBytes == KeyLength + 1

(* Two regions, and one in the used part of the pool                       *)
Apart(a, n, b, k) == a + n <= b \/ b + k <= a
Inside(map, a, n) == Start(map) <= a /\ a + n <= Start(map) + map.used

(* The map has nothing in a region of its pool.                            *)
Holds(map, a, n) ==
    /\ Inside(map, a, n)
    /\ \A k \in DOMAIN map.entries :
        /\ map.entries[k].at # NoRecord => Apart(a, n, map.entries[k].at, AlignUp(map.entries[k].len))
        /\ map.entries[k].keyAt # NoRecord => Apart(a, n, map.entries[k].keyAt, KeyBytes)
    /\ \A i \in DOMAIN map.free : Apart(a, n, map.free[i].at, map.free[i].len)

(* Two entries share nothing, nor do the record and the key of one.        *)
RecordsGood(map) ==
    \A k, l \in DOMAIN map.entries :
        LET e == map.entries[k]
            f == map.entries[l]
        IN  /\ e.at # NoRecord => Inside(map, e.at, AlignUp(e.len))
            /\ e.keyAt # NoRecord => Inside(map, e.keyAt, KeyBytes)
            /\ e.at # NoRecord /\ f.keyAt # NoRecord => Apart(e.at, AlignUp(e.len), f.keyAt, KeyBytes)
            /\ k # l /\ e.at # NoRecord /\ f.at # NoRecord =>
                    Apart(e.at, AlignUp(e.len), f.at, AlignUp(f.len))
            /\ k # l /\ e.keyAt # NoRecord /\ f.keyAt # NoRecord => Apart(e.keyAt, KeyBytes, f.keyAt, KeyBytes)

(* No free chunk shares anything with an entry or another chunk.           *)
ChunksGood(map) ==
    \A i \in DOMAIN map.free :
        LET c == map.free[i]
        IN  /\ Inside(map, c.at, c.len)
            /\ \A j \in DOMAIN map.free : i # j => Apart(c.at, c.len, map.free[j].at, map.free[j].len)
            /\ \A k \in DOMAIN map.entries :
                /\ map.entries[k].at # NoRecord => Apart(c.at, c.len, map.entries[k].at, AlignUp(map.entries[k].len))
                /\ map.entries[k].keyAt # NoRecord => Apart(c.at, c.len, map.entries[k].keyAt, KeyBytes)

Good(map) == map \in MapRec /\ map.used <= map.pool /\ RecordsGood(map) /\ ChunksGood(map)

(* An offset, and an entry, after the pool has moved                       *)
Shift(map, to, at) == IF at = NoRecord THEN at ELSE at + (Start(to) - Start(map))

(* The entries of the one map are those of the other, and what the one     *)
(* holds the other holds, where it has moved to.                           *)
Follows(map, to) ==
    /\ Good(to)
    /\ DOMAIN to.entries = DOMAIN map.entries
    /\ \A k \in DOMAIN map.entries :
        /\ to.entries[k].at = Shift(map, to, map.entries[k].at)
        /\ to.entries[k].keyAt = Shift(map, to, map.entries[k].keyAt)
        /\ to.entries[k].len = map.entries[k].len
    /\ \A b, n \in Nat : Holds(map, b, n) => Shift(map, to, b) \in Nat /\ Holds(to, Shift(map, to, b), n)

-----------------------------------------------------------------------------
(* Sizes *)

LEMMA Aligned ==
    ASSUME NEW n \in Nat
    PROVE  /\ AlignUp(n) \in Nat /\ n <= AlignUp(n)
           /\ AlignUp(AlignUp(n)) = AlignUp(n)
BY SMTT(30) DEF AlignUp

LEMMA PoolStarts ==
    ASSUME NEW n \in Nat
    PROVE  PoolStart(n) \in Nat /\ PoolStart(n) > NoRecord
BY DEF PoolStart, HeaderSize, EntrySize, NoRecord

(* What a map is made of                                                   *)
LEMMA MapParts ==
    ASSUME NEW map, map \in MapRec
    PROVE  /\ DOMAIN map.entries \subseteq Keys
           /\ map.entries \in [DOMAIN map.entries -> EntryRec]
           /\ \A k \in DOMAIN map.entries :
                /\ map.entries[k] \in EntryRec
                /\ map.entries[k].at \in Nat /\ map.entries[k].keyAt \in Nat
                /\ map.entries[k].len \in Nat /\ AlignUp(map.entries[k].len) \in Nat
           /\ map.table \in Nat /\ map.pool \in Nat /\ map.used \in Nat
           /\ map.free \in Seq(ChunkRec)
           /\ \A i \in DOMAIN map.free : map.free[i] \in ChunkRec /\ map.free[i].at \in Nat /\ map.free[i].len \in Nat
           /\ Start(map) \in Nat /\ Start(map) > NoRecord
           /\ Count(map) \in Nat /\ KeyBytes \in Nat
<1>1. /\ map.entries \in UNION {[K -> EntryRec] : K \in SUBSET Keys}
      /\ map.table \in Nat /\ map.pool \in Nat /\ map.used \in Nat /\ map.free \in Seq(ChunkRec)
  BY DEF MapRec
<1>2. PICK K \in SUBSET Keys : map.entries \in [K -> EntryRec]
  BY <1>1
<1>3. DOMAIN map.entries = K /\ IsFiniteSet(K)
  BY <1>2, SizesAssumption, FS_Subset
<1>4. \A k \in K : map.entries[k] \in EntryRec
  BY <1>2
<1>5. \A i \in DOMAIN map.free : map.free[i] \in ChunkRec
  BY <1>1
<1>6. \A e \in EntryRec : e.at \in Nat /\ e.keyAt \in Nat /\ e.len \in Nat
  BY DEF EntryRec
<1>7. \A c \in ChunkRec : c.at \in Nat /\ c.len \in Nat
  BY DEF ChunkRec
<1>8. Count(map) \in Nat
  BY <1>3, FS_CardinalityType DEF Count
<1>9. Start(map) \in Nat /\ Start(map) > NoRecord
  BY <1>1, PoolStarts DEF Start
<1>10. KeyBytes \in Nat
  BY SizesAssumption DEF KeyBytes
<1>11. \A k \in K : /\ map.entries[k] \in EntryRec
                    /\ map.entries[k].at \in Nat /\ map.entries[k].keyAt \in Nat
                    /\ map.entries[k].len \in Nat /\ AlignUp(map.entries[k].len) \in Nat
  BY <1>4, <1>6, Aligned
<1>12. \A i \in DOMAIN map.free : map.free[i] \in ChunkRec /\ map.free[i].at \in Nat /\ map.free[i].len \in Nat
  BY <1>5, <1>7
<1>13. K \subseteq Keys /\ map.entries \in [DOMAIN map.entries -> EntryRec]
  BY <1>2, <1>3
<1> QED
  BY <1>1, <1>3, <1>8, <1>9, <1>10, <1>11, <1>12, <1>13

(* A record of a map                                                       *)
LEMMA MapMade ==
    ASSUME NEW map, NEW K \in SUBSET Keys, NEW entries \in [K -> EntryRec],
           NEW table \in Nat, NEW pool \in Nat, NEW used \in Nat, NEW free \in Seq(ChunkRec),
           map = [entries |-> entries, table |-> table, pool |-> pool, used |-> used, free |-> free]
    PROVE  map \in MapRec
<1>1. entries \in UNION {[L -> EntryRec] : L \in SUBSET Keys}
  OBVIOUS
<1> QED
  BY <1>1 DEF MapRec

LEMMA MapIs ==
    ASSUME NEW map, map \in MapRec
    PROVE  map = [entries |-> map.entries, table |-> map.table, pool |-> map.pool, used |-> map.used, free |-> map.free]
BY DEF MapRec

-----------------------------------------------------------------------------
(* Moving *)

(* The fields of a map that has moved                                      *)
MovedTo(map, to, table, pool) ==
    /\ to.table = table /\ to.pool = pool /\ to.used = map.used
    /\ DOMAIN to.entries = DOMAIN map.entries
    /\ to.entries = [k \in DOMAIN map.entries |-> to.entries[k]]
    /\ \A k \in DOMAIN map.entries :
         /\ to.entries[k].at = Shift(map, to, map.entries[k].at)
         /\ to.entries[k].keyAt = Shift(map, to, map.entries[k].keyAt)
         /\ to.entries[k].len = map.entries[k].len
         /\ to.entries[k] = [map.entries[k] EXCEPT !.at = to.entries[k].at, !.keyAt = to.entries[k].keyAt]
    /\ to.free = [i \in DOMAIN map.free |->
                     [map.free[i] EXCEPT !.at = Shift(map, to, map.free[i].at)]]
    /\ to = [entries |-> to.entries, table |-> to.table, pool |-> to.pool,
             used |-> to.used, free |-> to.free]

LEMMA MovedParts ==
    ASSUME NEW map, map \in MapRec, NEW table \in Nat, NEW pool \in Nat,
           NEW to, to = Moved(map, table, pool)
    PROVE  MovedTo(map, to, table, pool)
<1> DEFINE d == PoolStart(table) - Start(map)
           To(at) == IF at = NoRecord THEN at ELSE at + d
           entries == [k \in DOMAIN map.entries |->
                         [map.entries[k] EXCEPT !.at = To(map.entries[k].at), !.keyAt = To(map.entries[k].keyAt)]]
           free == [i \in DOMAIN map.free |-> [map.free[i] EXCEPT !.at = To(map.free[i].at)]]
<1>1. to = [entries |-> entries, table |-> table, pool |-> pool, used |-> map.used, free |-> free]
  <2>1. map = [entries |-> map.entries, table |-> map.table, pool |-> map.pool, used |-> map.used, free |-> map.free]
    BY MapIs
  <2>2. to = [map EXCEPT !.table = table, !.pool = pool, !.entries = entries, !.free = free]
    BY DEF Moved
  <2> HIDE DEF entries, free
  <2> QED
    BY <2>1, <2>2
<1>2. /\ to.table = table /\ to.pool = pool /\ to.used = map.used /\ to.entries = entries /\ to.free = free
      /\ Start(to) = PoolStart(table)
  <2> HIDE DEF entries, free
  <2> QED
    BY <1>1 DEF Start
<1>3. \A at : To(at) = Shift(map, to, at)
  <2> QED
    BY <1>2 DEF Shift
<1>4. DOMAIN entries = DOMAIN map.entries /\ entries = [k \in DOMAIN map.entries |-> entries[k]]
  OBVIOUS
<1>5. ASSUME NEW k \in DOMAIN map.entries
      PROVE  /\ entries[k].at = To(map.entries[k].at) /\ entries[k].keyAt = To(map.entries[k].keyAt)
             /\ entries[k].len = map.entries[k].len
             /\ entries[k] = [map.entries[k] EXCEPT !.at = To(map.entries[k].at), !.keyAt = To(map.entries[k].keyAt)]
  <2>1. map.entries[k] \in EntryRec
    BY MapParts
  <2>2. \A e \in EntryRec : \A x, y : LET f == [e EXCEPT !.at = x, !.keyAt = y]
                                            IN  f.at = x /\ f.keyAt = y /\ f.len = e.len
    BY DEF EntryRec
  <2>3. entries[k] = [map.entries[k] EXCEPT !.at = To(map.entries[k].at), !.keyAt = To(map.entries[k].keyAt)]
    OBVIOUS
  <2> HIDE DEF entries, To
  <2> QED
    BY <2>1, <2>2, <2>3
<1>6. free = [i \in DOMAIN map.free |-> [map.free[i] EXCEPT !.at = Shift(map, to, map.free[i].at)]]
  BY <1>3
<1> HIDE DEF entries, To, free
<1>7. ASSUME NEW k \in DOMAIN map.entries
      PROVE  /\ to.entries[k].at = Shift(map, to, map.entries[k].at)
             /\ to.entries[k].keyAt = Shift(map, to, map.entries[k].keyAt)
             /\ to.entries[k].len = map.entries[k].len
             /\ to.entries[k] = [map.entries[k] EXCEPT !.at = to.entries[k].at, !.keyAt = to.entries[k].keyAt]
  BY <1>2, <1>3, <1>5
<1> QED
  BY <1>1, <1>2, <1>4, <1>6, <1>7 DEF MovedTo

(* A map whose pool has moved holds what it held, and is good if its new   *)
(* pool is large enough.                                                   *)
LEMMA MovedFollows ==
    ASSUME NEW map, Good(map), NEW table \in Nat, NEW pool \in Nat, map.used <= pool
    PROVE  /\ Follows(map, Moved(map, table, pool))
           /\ Moved(map, table, pool).used = map.used /\ Moved(map, table, pool).pool = pool
           /\ Moved(map, table, pool).table = table
<1>1. PICK to : to = Moved(map, table, pool)
  OBVIOUS
<1> DEFINE d == Start(to) - Start(map)
<1>2. map \in MapRec /\ map.used <= map.pool /\ RecordsGood(map) /\ ChunksGood(map)
  BY DEF Good
<1>3. MovedTo(map, to, table, pool)
  BY <1>1, <1>2, MovedParts, Zenon
<1>4. /\ to.table = table /\ to.pool = pool /\ to.used = map.used
      /\ DOMAIN to.entries = DOMAIN map.entries
      /\ to.entries = [k \in DOMAIN map.entries |-> to.entries[k]]
      /\ to.free = [i \in DOMAIN map.free |-> [map.free[i] EXCEPT !.at = Shift(map, to, map.free[i].at)]]
      /\ to = [entries |-> to.entries, table |-> to.table, pool |-> to.pool, used |-> to.used, free |-> to.free]
  BY <1>3, Zenon DEF MovedTo
<1>5. \A k \in DOMAIN map.entries :
        /\ to.entries[k].at = Shift(map, to, map.entries[k].at)
        /\ to.entries[k].keyAt = Shift(map, to, map.entries[k].keyAt)
        /\ to.entries[k].len = map.entries[k].len
        /\ to.entries[k] = [map.entries[k] EXCEPT !.at = to.entries[k].at, !.keyAt = to.entries[k].keyAt]
  BY <1>3, Zenon DEF MovedTo
<1>6. /\ Start(map) \in Nat /\ Start(map) > 0 /\ Start(to) \in Nat /\ Start(to) > 0 /\ d \in Int
      /\ map.used \in Nat /\ KeyBytes \in Nat
      /\ \A k \in DOMAIN map.entries : /\ map.entries[k].at \in Nat /\ map.entries[k].keyAt \in Nat
                                       /\ AlignUp(map.entries[k].len) \in Nat
      /\ \A i \in DOMAIN map.free : map.free[i].at \in Nat /\ map.free[i].len \in Nat
  BY <1>2, <1>4, MapParts, PoolStarts DEF Start, NoRecord
<1>7. \A x \in Nat : Start(map) <= x => /\ Shift(map, to, x) = x + d
                                        /\ x + d \in Nat /\ Start(to) <= x + d
  BY <1>6 DEF Shift, NoRecord
<1>8. \A x \in Nat, n \in Nat : Inside(map, x, n) => Inside(to, x + d, n) /\ Shift(map, to, x) = x + d /\ x + d \in Nat
  BY <1>4, <1>6, <1>7 DEF Inside
<1>9. \A x \in Nat : x # NoRecord => x # 0
  BY DEF NoRecord
<1>10. ASSUME NEW k \in DOMAIN map.entries
      PROVE  /\ map.entries[k].at # NoRecord =>
                    /\ Inside(map, map.entries[k].at, AlignUp(map.entries[k].len))
                    /\ to.entries[k].at = map.entries[k].at + d /\ to.entries[k].at \in Nat
             /\ map.entries[k].at = NoRecord => to.entries[k].at = NoRecord
             /\ map.entries[k].keyAt # NoRecord =>
                    /\ Inside(map, map.entries[k].keyAt, KeyBytes)
                    /\ to.entries[k].keyAt = map.entries[k].keyAt + d /\ to.entries[k].keyAt \in Nat
             /\ map.entries[k].keyAt = NoRecord => to.entries[k].keyAt = NoRecord
             /\ to.entries[k].len = map.entries[k].len
  <2>1. /\ map.entries[k].at # NoRecord => Inside(map, map.entries[k].at, AlignUp(map.entries[k].len))
        /\ map.entries[k].keyAt # NoRecord => Inside(map, map.entries[k].keyAt, KeyBytes)
    BY <1>2, Zenon DEF RecordsGood
  <2>2. /\ map.entries[k].at = NoRecord => to.entries[k].at = NoRecord
        /\ map.entries[k].keyAt = NoRecord => to.entries[k].keyAt = NoRecord
    BY <1>5, Zenon DEF Shift
  <2>3. /\ map.entries[k].at \in Nat /\ map.entries[k].keyAt \in Nat
        /\ AlignUp(map.entries[k].len) \in Nat /\ KeyBytes \in Nat
    BY <1>6
  <2>4. map.entries[k].at # NoRecord => to.entries[k].at = map.entries[k].at + d /\ to.entries[k].at \in Nat
    <3> SUFFICES ASSUME map.entries[k].at # NoRecord
                 PROVE  to.entries[k].at = map.entries[k].at + d /\ to.entries[k].at \in Nat
      OBVIOUS
    <3>1. Inside(map, map.entries[k].at, AlignUp(map.entries[k].len))
      BY <2>1
    <3>2. Shift(map, to, map.entries[k].at) = map.entries[k].at + d /\ map.entries[k].at + d \in Nat
      BY <1>8, <2>3, <3>1, Zenon
    <3> QED
      BY <1>5, <3>2, Zenon
  <2>5. map.entries[k].keyAt # NoRecord => to.entries[k].keyAt = map.entries[k].keyAt + d /\ to.entries[k].keyAt \in Nat
    BY <1>5, <1>8, <2>1, <2>3, ZenonT(60)
  <2> QED
    BY <1>5, <2>1, <2>2, <2>4, <2>5
<1>11. ASSUME NEW i \in DOMAIN map.free
      PROVE  /\ Inside(map, map.free[i].at, map.free[i].len)
             /\ to.free[i].at = map.free[i].at + d /\ to.free[i].at \in Nat /\ to.free[i].len = map.free[i].len
             /\ to.free[i] \in ChunkRec
  <2>1. Inside(map, map.free[i].at, map.free[i].len)
    BY <1>2, Zenon DEF ChunksGood
  <2>2. map.free[i] \in ChunkRec
    BY <1>2, MapParts
  <2>3. to.free[i] = [map.free[i] EXCEPT !.at = Shift(map, to, map.free[i].at)]
    BY <1>4
  <2>4. Shift(map, to, map.free[i].at) = map.free[i].at + d /\ map.free[i].at + d \in Nat
    BY <1>6, <1>8, <2>1
  <2>5. \A c \in ChunkRec, x \in Nat : LET f == [c EXCEPT !.at = x] IN f.at = x /\ f.len = c.len /\ f \in ChunkRec
    BY DEF ChunkRec
  <2> QED
    BY <2>1, <2>2, <2>3, <2>4, <2>5
<1>12. DOMAIN to.free = DOMAIN map.free
  BY <1>4
<1> HIDE DEF d
<1>13. to \in MapRec
  <2>1. ASSUME NEW k \in DOMAIN map.entries PROVE to.entries[k] \in EntryRec
    <3>1. map.entries[k] \in EntryRec /\ to.entries[k].at \in Nat /\ to.entries[k].keyAt \in Nat
      BY <1>2, <1>10, MapParts, SMTT(60) DEF NoRecord
    <3>2. \A e \in EntryRec, x \in Nat, y \in Nat : [e EXCEPT !.at = x, !.keyAt = y] \in EntryRec
      BY DEF EntryRec
    <3>3. to.entries[k] = [map.entries[k] EXCEPT !.at = to.entries[k].at, !.keyAt = to.entries[k].keyAt]
      BY <1>5
    <3>4. [map.entries[k] EXCEPT !.at = to.entries[k].at, !.keyAt = to.entries[k].keyAt] \in EntryRec
      BY <3>1, <3>2, Zenon
    <3> QED
      BY <3>3, <3>4, Zenon
  <2>2. to.entries \in [DOMAIN map.entries -> EntryRec] /\ DOMAIN map.entries \in SUBSET Keys
    BY <1>2, <1>4, <2>1, MapParts
  <2>3. to.free \in Seq(ChunkRec)
    <3>1. DOMAIN map.free = 1..Len(map.free) /\ Len(map.free) \in Nat
      BY <1>2, MapParts
    <3>2. to.free = [i \in 1..Len(map.free) |-> to.free[i]] /\ \A i \in 1..Len(map.free) : to.free[i] \in ChunkRec
      BY <1>4, <1>11, <3>1
    <3> QED
      BY <3>1, <3>2
  <2> QED
    BY <1>4, <1>6, <2>2, <2>3, MapMade
<1>14. RecordsGood(to)
  <2> SUFFICES ASSUME NEW k \in DOMAIN map.entries, NEW l \in DOMAIN map.entries
               PROVE  LET e == to.entries[k]
                          f == to.entries[l]
                      IN  /\ e.at # NoRecord => Inside(to, e.at, AlignUp(e.len))
                          /\ e.keyAt # NoRecord => Inside(to, e.keyAt, KeyBytes)
                          /\ e.at # NoRecord /\ f.keyAt # NoRecord => Apart(e.at, AlignUp(e.len), f.keyAt, KeyBytes)
                          /\ k # l /\ e.at # NoRecord /\ f.at # NoRecord =>
                                  Apart(e.at, AlignUp(e.len), f.at, AlignUp(f.len))
                          /\ k # l /\ e.keyAt # NoRecord /\ f.keyAt # NoRecord =>
                                  Apart(e.keyAt, KeyBytes, f.keyAt, KeyBytes)
    BY <1>4, Zenon DEF RecordsGood
  <2>1. LET e == map.entries[k]
            f == map.entries[l]
        IN  /\ e.at # NoRecord /\ f.keyAt # NoRecord => Apart(e.at, AlignUp(e.len), f.keyAt, KeyBytes)
            /\ k # l /\ e.at # NoRecord /\ f.at # NoRecord => Apart(e.at, AlignUp(e.len), f.at, AlignUp(f.len))
            /\ k # l /\ e.keyAt # NoRecord /\ f.keyAt # NoRecord => Apart(e.keyAt, KeyBytes, f.keyAt, KeyBytes)
    BY <1>2, Zenon DEF RecordsGood
  <2>2. /\ \A x \in {k, l} : /\ map.entries[x].at \in Nat /\ map.entries[x].keyAt \in Nat
                             /\ AlignUp(map.entries[x].len) \in Nat
        /\ KeyBytes \in Nat /\ d \in Int
    BY <1>6
  <2>3. \A x \in {k, l} :
          /\ map.entries[x].at # NoRecord => Inside(to, to.entries[x].at, AlignUp(to.entries[x].len))
          /\ map.entries[x].keyAt # NoRecord => Inside(to, to.entries[x].keyAt, KeyBytes)
    BY <1>8, <1>10, <2>2
  <2> QED
    BY <1>10, <2>1, <2>2, <2>3 DEF Apart
<1>15. ChunksGood(to)
  <2> SUFFICES ASSUME NEW i \in DOMAIN map.free
               PROVE  /\ Inside(to, to.free[i].at, to.free[i].len)
                      /\ \A j \in DOMAIN map.free : i # j =>
                            Apart(to.free[i].at, to.free[i].len, to.free[j].at, to.free[j].len)
                      /\ \A k \in DOMAIN map.entries :
                          /\ to.entries[k].at # NoRecord =>
                                Apart(to.free[i].at, to.free[i].len, to.entries[k].at, AlignUp(to.entries[k].len))
                          /\ to.entries[k].keyAt # NoRecord =>
                                Apart(to.free[i].at, to.free[i].len, to.entries[k].keyAt, KeyBytes)
    BY <1>4, <1>12, Zenon DEF ChunksGood
  <2>1. \A j \in DOMAIN map.free : i # j => Apart(map.free[i].at, map.free[i].len, map.free[j].at, map.free[j].len)
    BY <1>2, Zenon DEF ChunksGood
  <2>2. \A k \in DOMAIN map.entries :
          /\ map.entries[k].at # NoRecord =>
                Apart(map.free[i].at, map.free[i].len, map.entries[k].at, AlignUp(map.entries[k].len))
          /\ map.entries[k].keyAt # NoRecord => Apart(map.free[i].at, map.free[i].len, map.entries[k].keyAt, KeyBytes)
    BY <1>2, Zenon DEF ChunksGood
  <2>3. Inside(to, to.free[i].at, to.free[i].len)
    BY <1>6, <1>8, <1>11
  <2>4. ASSUME NEW j \in DOMAIN map.free, i # j PROVE Apart(to.free[i].at, to.free[i].len, to.free[j].at, to.free[j].len)
    <3>1. d \in Int /\ \A x \in {i, j} : map.free[x].at \in Nat /\ map.free[x].len \in Nat
      BY <1>6
    <3> QED
      BY <1>11, <2>1, <2>4, <3>1 DEF Apart
  <2>5. ASSUME NEW k \in DOMAIN map.entries
        PROVE  /\ to.entries[k].at # NoRecord =>
                     Apart(to.free[i].at, to.free[i].len, to.entries[k].at, AlignUp(to.entries[k].len))
               /\ to.entries[k].keyAt # NoRecord =>
                     Apart(to.free[i].at, to.free[i].len, to.entries[k].keyAt, KeyBytes)
    <3>1. /\ d \in Int /\ map.free[i].at \in Nat /\ map.free[i].len \in Nat
          /\ map.entries[k].at \in Nat /\ map.entries[k].keyAt \in Nat
          /\ AlignUp(map.entries[k].len) \in Nat /\ KeyBytes \in Nat
      BY <1>6
    <3> QED
      BY <1>10, <1>11, <2>2, <3>1 DEF Apart
  <2> QED
    BY <2>3, <2>4, <2>5
<1>16. ASSUME NEW b \in Nat, NEW n \in Nat, Holds(map, b, n)
       PROVE  Shift(map, to, b) \in Nat /\ Holds(to, Shift(map, to, b), n)
  <2>1. Inside(map, b, n)
    BY <1>16 DEF Holds
  <2>2. Shift(map, to, b) = b + d /\ b + d \in Nat /\ Inside(to, b + d, n)
    BY <1>8, <2>1
  <2>3. ASSUME NEW k \in DOMAIN map.entries
        PROVE  /\ to.entries[k].at # NoRecord => Apart(b + d, n, to.entries[k].at, AlignUp(to.entries[k].len))
               /\ to.entries[k].keyAt # NoRecord => Apart(b + d, n, to.entries[k].keyAt, KeyBytes)
    <3>1. /\ map.entries[k].at # NoRecord => Apart(b, n, map.entries[k].at, AlignUp(map.entries[k].len))
          /\ map.entries[k].keyAt # NoRecord => Apart(b, n, map.entries[k].keyAt, KeyBytes)
      BY <1>16, Zenon DEF Holds
    <3>2. /\ d \in Int /\ map.entries[k].at \in Nat /\ map.entries[k].keyAt \in Nat
          /\ AlignUp(map.entries[k].len) \in Nat /\ KeyBytes \in Nat
      BY <1>6
    <3> QED
      BY <1>10, <3>1, <3>2 DEF Apart
  <2>4. ASSUME NEW i \in DOMAIN map.free PROVE Apart(b + d, n, to.free[i].at, to.free[i].len)
    <3>1. Apart(b, n, map.free[i].at, map.free[i].len)
      BY <1>16, Zenon DEF Holds
    <3>2. d \in Int /\ map.free[i].at \in Nat /\ map.free[i].len \in Nat
      BY <1>6
    <3> QED
      BY <1>11, <3>1, <3>2 DEF Apart
  <2>5. Holds(to, b + d, n)
    BY <1>4, <1>12, <2>2, <2>3, <2>4, Zenon DEF Holds
  <2> QED
    BY <2>2, <2>5
<1>17. Good(to)
  BY <1>4, <1>13, <1>14, <1>15 DEF Good
<1>18. Follows(map, to)
  BY <1>4, <1>5, <1>16, <1>17, Zenon DEF Follows
<1> QED
  BY <1>1, <1>4, <1>18

(* A map follows itself, and one of the same block that holds as much.     *)
LEMMA SameBlock ==
    ASSUME NEW map, Good(map), NEW to, Good(to), to.entries = map.entries, to.table = map.table,
           \A b, n \in Nat : Holds(map, b, n) => Holds(to, b, n)
    PROVE  Follows(map, to) /\ \A x \in Nat : Shift(map, to, x) = x
<1>1. Start(to) = Start(map)
  BY DEF Start
<1>2. Start(map) \in Nat /\ \A k \in DOMAIN map.entries : map.entries[k].at \in Nat /\ map.entries[k].keyAt \in Nat
  BY MapParts DEF Good
<1>3. \A x \in Nat : Shift(map, to, x) = x
  BY <1>1, <1>2 DEF Shift
<1> QED
  BY <1>2, <1>3 DEF Follows

LEMMA Itself == ASSUME NEW map, Good(map) PROVE Follows(map, map) /\ \A x \in Nat : Shift(map, map, x) = x
BY SameBlock

(* What follows a map that follows another follows that one.               *)
LEMMA FollowsOn ==
    ASSUME NEW a, NEW b, NEW c, Good(a), Follows(a, b), Follows(b, c)
    PROVE  /\ Follows(a, c)
           /\ \A x \in Nat : Start(a) <= x => Shift(a, c, x) = Shift(b, c, Shift(a, b, x))
           /\ Good(b) /\ Good(c)
<1>1. Good(b) /\ Good(c)
  BY DEF Follows
<1>2. /\ Start(a) \in Nat /\ Start(b) \in Nat /\ Start(c) \in Nat
      /\ Start(a) > 0 /\ Start(b) > 0 /\ Start(c) > 0
      /\ \A k \in DOMAIN a.entries : a.entries[k].at \in Nat /\ a.entries[k].keyAt \in Nat
  BY <1>1, MapParts DEF Good, NoRecord
<1>3. ASSUME NEW x \in Nat, Start(a) <= x PROVE Shift(a, c, x) = Shift(b, c, Shift(a, b, x))
  BY <1>2, <1>3 DEF Shift, NoRecord
<1>4. Shift(a, c, NoRecord) = NoRecord /\ Shift(a, b, NoRecord) = NoRecord /\ Shift(b, c, NoRecord) = NoRecord
  BY DEF Shift
<1>5. ASSUME NEW k \in DOMAIN a.entries
      PROVE  /\ c.entries[k].at = Shift(a, c, a.entries[k].at)
             /\ c.entries[k].keyAt = Shift(a, c, a.entries[k].keyAt)
             /\ c.entries[k].len = a.entries[k].len
  <2>1. /\ b.entries[k].at = Shift(a, b, a.entries[k].at)
        /\ b.entries[k].keyAt = Shift(a, b, a.entries[k].keyAt)
        /\ b.entries[k].len = a.entries[k].len /\ k \in DOMAIN b.entries
    BY Zenon DEF Follows
  <2>2. /\ c.entries[k].at = Shift(b, c, b.entries[k].at)
        /\ c.entries[k].keyAt = Shift(b, c, b.entries[k].keyAt)
        /\ c.entries[k].len = b.entries[k].len
    BY <2>1, Zenon DEF Follows
  <2>3. /\ a.entries[k].at # NoRecord => Start(a) <= a.entries[k].at
        /\ a.entries[k].keyAt # NoRecord => Start(a) <= a.entries[k].keyAt
    BY Zenon DEF Good, RecordsGood, Inside
  <2>4. a.entries[k].at \in Nat /\ a.entries[k].keyAt \in Nat
    BY <1>2
  <2>5. c.entries[k].at = Shift(a, c, a.entries[k].at)
    BY <1>3, <1>4, <2>1, <2>2, <2>3, <2>4, Zenon
  <2>6. c.entries[k].keyAt = Shift(a, c, a.entries[k].keyAt)
    BY <1>3, <1>4, <2>1, <2>2, <2>3, <2>4, Zenon
  <2> QED
    BY <2>1, <2>2, <2>5, <2>6
<1>6. ASSUME NEW x \in Nat, NEW n \in Nat, Holds(a, x, n)
      PROVE  Shift(a, c, x) \in Nat /\ Holds(c, Shift(a, c, x), n)
  <2>1. Start(a) <= x
    BY <1>6, Zenon DEF Holds, Inside
  <2>2. Shift(a, b, x) \in Nat /\ Holds(b, Shift(a, b, x), n)
    BY <1>6, Zenon DEF Follows
  <2>3. Shift(b, c, Shift(a, b, x)) \in Nat /\ Holds(c, Shift(b, c, Shift(a, b, x)), n)
    BY <2>2, Zenon DEF Follows
  <2> QED
    BY <1>3, <2>1, <2>3
<1>7. DOMAIN c.entries = DOMAIN a.entries
  BY DEF Follows
<1>8. Follows(a, c)
  BY <1>1, <1>5, <1>6, <1>7, Zenon DEF Follows
<1> QED
  BY <1>1, <1>3, <1>8

(* More of the pool in use is room for what is taken there.                *)
LEMMA UsedUp ==
    ASSUME NEW map, Good(map), NEW u \in Nat, map.used <= u, u <= map.pool,
           NEW to, to = [map EXCEPT !.used = u]
    PROVE  /\ Follows(map, to) /\ to.entries = map.entries /\ to.table = map.table
           /\ \A x, n \in Nat : Start(map) + map.used <= x /\ x + n <= Start(map) + u => Holds(to, x, n)
           /\ \A b, k, x, n \in Nat : Holds(map, b, k) /\ Start(map) + map.used <= x => Apart(b, k, x, n)
<1>1. map \in MapRec /\ map.used <= map.pool /\ RecordsGood(map) /\ ChunksGood(map)
  BY DEF Good
<1>2. /\ to.entries = map.entries /\ to.table = map.table /\ to.pool = map.pool
      /\ to.free = map.free /\ to.used = u
      /\ to = [entries |-> map.entries, table |-> map.table, pool |-> map.pool, used |-> u, free |-> map.free]
  BY <1>1, MapIs
<1>3. /\ Start(map) \in Nat /\ Start(map) > 0 /\ map.used \in Nat /\ KeyBytes \in Nat
      /\ \A k \in DOMAIN map.entries : /\ map.entries[k].at \in Nat /\ map.entries[k].keyAt \in Nat
                                       /\ AlignUp(map.entries[k].len) \in Nat
      /\ \A i \in DOMAIN map.free : map.free[i].at \in Nat /\ map.free[i].len \in Nat
      /\ DOMAIN map.entries \in SUBSET Keys /\ map.entries \in [DOMAIN map.entries -> EntryRec]
      /\ map.table \in Nat /\ map.pool \in Nat /\ map.free \in Seq(ChunkRec)
  BY <1>1, MapParts DEF NoRecord
<1>4. to \in MapRec
  BY <1>2, <1>3, MapMade
<1>5. Start(to) = Start(map)
  BY <1>2 DEF Start
<1>6. \A x, n \in Nat : Inside(map, x, n) => Inside(to, x, n)
  BY <1>2, <1>3, <1>5 DEF Inside
<1>7. RecordsGood(to)
  BY <1>1, <1>2, <1>3, <1>6 DEF RecordsGood
<1>8. ChunksGood(to)
  BY <1>1, <1>2, <1>3, <1>6 DEF ChunksGood
<1>9. Good(to)
  BY <1>2, <1>4, <1>7, <1>8 DEF Good
<1>10. \A b, n \in Nat : Holds(map, b, n) => Holds(to, b, n)
  BY <1>2, <1>6, Zenon DEF Holds
<1>11. \A y, k, x, n \in Nat : Inside(map, y, k) /\ Start(map) + map.used <= x => Apart(x, n, y, k) /\ Apart(y, k, x, n)
  BY <1>3 DEF Inside, Apart
<1>12. ASSUME NEW x \in Nat, NEW n \in Nat, Start(map) + map.used <= x, x + n <= Start(map) + u
       PROVE  Holds(to, x, n)
  <2>1. Inside(to, x, n)
    BY <1>2, <1>3, <1>5, <1>12 DEF Inside
  <2>2. ASSUME NEW k \in DOMAIN map.entries
        PROVE  /\ map.entries[k].at # NoRecord => Inside(map, map.entries[k].at, AlignUp(map.entries[k].len))
               /\ map.entries[k].keyAt # NoRecord => Inside(map, map.entries[k].keyAt, KeyBytes)
    BY <1>1, Zenon DEF RecordsGood
  <2>3. \A i \in DOMAIN map.free : Inside(map, map.free[i].at, map.free[i].len)
    BY <1>1, Zenon DEF ChunksGood
  <2>4. ASSUME NEW k \in DOMAIN map.entries
        PROVE  /\ map.entries[k].at # NoRecord => Apart(x, n, map.entries[k].at, AlignUp(map.entries[k].len))
               /\ map.entries[k].keyAt # NoRecord => Apart(x, n, map.entries[k].keyAt, KeyBytes)
    BY <1>3, <1>11, <1>12, <2>2, Zenon
  <2>5. \A i \in DOMAIN map.free : Apart(x, n, map.free[i].at, map.free[i].len)
    BY <1>3, <1>11, <1>12, <2>3, Zenon
  <2> QED
    BY <1>2, <2>1, <2>4, <2>5, Zenon DEF Holds
<1>13. \A b, k, x, n \in Nat : Holds(map, b, k) /\ Start(map) + map.used <= x => Apart(b, k, x, n)
  BY <1>11, Zenon DEF Holds
<1>14. Follows(map, to)
  BY <1>2, <1>9, <1>10, SameBlock
<1> QED
  BY <1>2, <1>12, <1>13, <1>14

-----------------------------------------------------------------------------
(* The free list *)

(* Another free list in the same block                                     *)
Relisted(map, to, free) ==
    /\ to.entries = map.entries /\ to.table = map.table /\ to.pool = map.pool
    /\ to.used = map.used /\ to.free = free

(* A list of chunks that keep clear of the entries and of each other makes *)
(* a good map.                                                             *)
LEMMA RelistedGood ==
    ASSUME NEW map, Good(map), NEW free \in Seq(ChunkRec),
           NEW to, to = [map EXCEPT !.free = free],
           \A i \in DOMAIN free :
              /\ Inside(map, free[i].at, free[i].len)
              /\ \A j \in DOMAIN free : i # j => Apart(free[i].at, free[i].len, free[j].at, free[j].len)
              /\ \A k \in DOMAIN map.entries :
                  /\ map.entries[k].at # NoRecord =>
                        Apart(free[i].at, free[i].len, map.entries[k].at, AlignUp(map.entries[k].len))
                  /\ map.entries[k].keyAt # NoRecord =>
                        Apart(free[i].at, free[i].len, map.entries[k].keyAt, KeyBytes)
    PROVE  Good(to) /\ Relisted(map, to, free) /\ Start(to) = Start(map)
<1>1. map \in MapRec /\ map.used <= map.pool /\ RecordsGood(map)
  BY DEF Good
<1>2. /\ Relisted(map, to, free)
      /\ to = [entries |-> map.entries, table |-> map.table, pool |-> map.pool, used |-> map.used, free |-> free]
  BY <1>1, MapIs DEF Relisted
<1>3. to \in MapRec
  BY <1>1, <1>2, MapParts, MapMade
<1>4. Start(to) = Start(map) /\ \A x, n : Inside(to, x, n) <=> Inside(map, x, n)
  BY <1>2 DEF Relisted, Start, Inside
<1>5. RecordsGood(to)
  BY <1>1, <1>2, <1>4, Zenon DEF RecordsGood, Relisted
<1>6. ChunksGood(to)
  BY <1>2, <1>4, Zenon DEF ChunksGood, Relisted
<1> QED
  BY <1>1, <1>2, <1>3, <1>4, <1>5, <1>6 DEF Good, Relisted

(* _freeListPush() of bytes that nobody has                                *)
LEMMA FreedGood ==
    ASSUME NEW map, Good(map), NEW x \in Nat, NEW n \in Nat, Holds(map, x, n),
           NEW to, to = Freed(map, x, n)
    PROVE  /\ Follows(map, map) /\ Good(to) /\ to.entries = map.entries /\ to.table = map.table
           /\ to.pool = map.pool /\ to.used = map.used
           /\ \A b, k \in Nat : Holds(map, b, k) /\ Apart(b, k, x, n) => Holds(to, b, k)
<1>1. CASE n < ChunkHeader
  <2>1. to = map
    BY <1>1 DEF Freed
  <2> QED
    BY <2>1, Itself
<1>2. CASE ~ (n < ChunkHeader)
  <2>1. PICK c \in ChunkRec : c = [at |-> x, len |-> n]
    BY DEF ChunkRec
  <2>2. c.at = x /\ c.len = n
    BY <2>1
  <2>3. /\ map.free \in Seq(ChunkRec)
        /\ \A i \in DOMAIN map.free : map.free[i].at \in Nat /\ map.free[i].len \in Nat
    BY MapParts DEF Good
  <2>4. PICK free : free = <<c>> \o map.free
    OBVIOUS
  <2>5. /\ free \in Seq(ChunkRec) /\ Len(free) = Len(map.free) + 1
        /\ free[1] = c /\ \A i \in DOMAIN map.free : free[i + 1] = map.free[i]
    BY <2>3, <2>4
  <2>6. \A i \in DOMAIN free : i = 1 \/ (i - 1 \in DOMAIN map.free /\ free[i] = map.free[i - 1])
    BY <2>3, <2>5
  <2>7. to = [map EXCEPT !.free = free]
    BY <1>2, <2>1, <2>4 DEF Freed
  <2>8. ASSUME NEW i \in DOMAIN free
        PROVE  /\ Inside(map, free[i].at, free[i].len)
               /\ \A k \in DOMAIN map.entries :
                   /\ map.entries[k].at # NoRecord =>
                         Apart(free[i].at, free[i].len, map.entries[k].at, AlignUp(map.entries[k].len))
                   /\ map.entries[k].keyAt # NoRecord =>
                         Apart(free[i].at, free[i].len, map.entries[k].keyAt, KeyBytes)
    <3>1. CASE i = 1
      BY <2>2, <2>5, <3>1, Zenon DEF Holds
    <3>2. CASE i # 1
      <4>1. i - 1 \in DOMAIN map.free /\ free[i] = map.free[i - 1]
        BY <2>6, <3>2
      <4> QED
        BY <4>1, Zenon DEF Good, ChunksGood
    <3> QED
      BY <3>1, <3>2
  <2>9. ASSUME NEW i \in DOMAIN free, NEW j \in DOMAIN free, i # j
        PROVE  Apart(free[i].at, free[i].len, free[j].at, free[j].len)
    <3>1. \A h \in DOMAIN map.free : Apart(x, n, map.free[h].at, map.free[h].len)
      BY Zenon DEF Holds
    <3>2. \A h \in DOMAIN map.free : Apart(map.free[h].at, map.free[h].len, x, n)
      BY <3>1, <2>3 DEF Apart
    <3>3. CASE i = 1
      BY <2>2, <2>5, <2>6, <2>9, <3>1, <3>3
    <3>4. CASE j = 1
      BY <2>2, <2>5, <2>6, <2>9, <3>2, <3>4
    <3>5. CASE i # 1 /\ j # 1
      <4>1. /\ i - 1 \in DOMAIN map.free /\ free[i] = map.free[i - 1]
            /\ j - 1 \in DOMAIN map.free /\ free[j] = map.free[j - 1]
        BY <2>6, <3>5
      <4>2. i - 1 # j - 1
        BY <2>5, <2>9
      <4> QED
        BY <4>1, <4>2, Zenon DEF Good, ChunksGood
    <3> QED
      BY <3>3, <3>4, <3>5
  <2>10. Good(to) /\ Relisted(map, to, free) /\ Start(to) = Start(map)
    BY <2>5, <2>7, <2>8, <2>9, RelistedGood
  <2>11. ASSUME NEW b \in Nat, NEW k \in Nat, Holds(map, b, k), Apart(b, k, x, n)
         PROVE  Holds(to, b, k)
    <3>1. \A i \in DOMAIN free : Apart(b, k, free[i].at, free[i].len)
      <4> SUFFICES ASSUME NEW i \in DOMAIN free PROVE Apart(b, k, free[i].at, free[i].len)
        OBVIOUS
      <4>1. CASE i = 1
        BY <2>2, <2>5, <2>11, <4>1
      <4>2. CASE i # 1
        BY <2>6, <2>11, <4>2, Zenon DEF Holds
      <4> QED
        BY <4>1, <4>2
    <3>2. Inside(to, b, k)
      BY <2>10, <2>11 DEF Holds, Inside, Relisted
    <3> QED
      BY <2>10, <2>11, <3>1, <3>2, Zenon DEF Holds, Relisted
  <2> QED
    BY <2>10, <2>11, Itself DEF Relisted
<1> QED
  BY <1>1, <1>2

(* The list without one of its chunks, and where the others were           *)
Old(i, j) == IF j < i THEN j ELSE j + 1

LEMMA WithoutOne ==
    ASSUME NEW S, NEW seq \in Seq(S), NEW i \in DOMAIN seq
    PROVE  /\ RemoveAt(seq, i) \in Seq(S) /\ Len(RemoveAt(seq, i)) = Len(seq) - 1
           /\ \A j \in DOMAIN RemoveAt(seq, i) :
                RemoveAt(seq, i)[j] = seq[Old(i, j)] /\ Old(i, j) \in DOMAIN seq /\ Old(i, j) # i
<1>1. i \in Nat /\ 1 <= i /\ i <= Len(seq) /\ Len(seq) \in Nat
  OBVIOUS
<1> DEFINE a == SubSeq(seq, 1, i - 1)
           b == SubSeq(seq, i + 1, Len(seq))
<1>2. a \in Seq(S) /\ Len(a) = i - 1 /\ \A j \in 1..i - 1 : a[j] = seq[j]
  BY <1>1
<1>3. b \in Seq(S) /\ Len(b) = Len(seq) - i /\ \A j \in 1..Len(seq) - i : b[j] = seq[i + j]
  BY <1>1
<1>4. RemoveAt(seq, i) = a \o b
  BY DEF RemoveAt
<1> HIDE DEF a, b
<1>5. a \o b \in Seq(S) /\ Len(a \o b) = Len(seq) - 1
  BY <1>1, <1>2, <1>3
<1>6. ASSUME NEW j \in 1..Len(seq) - 1
      PROVE  (a \o b)[j] = seq[Old(i, j)] /\ Old(i, j) \in DOMAIN seq /\ Old(i, j) # i
  <2>1. CASE j < i
    BY <1>1, <1>2, <1>3, <2>1 DEF Old
  <2>2. CASE ~ (j < i)
    <3>1. \A s, t \in Seq(S) : \A h \in Len(s) + 1..Len(s) + Len(t) : (s \o t)[h] = t[h - Len(s)]
      OBVIOUS
    <3>2. j \in (i - 1) + 1..(i - 1) + (Len(seq) - i) /\ j - (i - 1) \in 1..Len(seq) - i
      BY <1>1, <2>2
    <3>3. j \in Len(a) + 1..Len(a) + Len(b)
      BY <1>2, <1>3, <3>2
    <3>4. (a \o b)[j] = b[j - (i - 1)] /\ j - (i - 1) \in 1..Len(seq) - i
      <4>1. \A h \in Len(a) + 1..Len(a) + Len(b) : (a \o b)[h] = b[h - Len(a)]
        BY <1>2, <1>3, <3>1, ZenonT(60)
      <4>2. (a \o b)[j] = b[j - Len(a)]
        BY <3>3, <4>1, ZenonT(60)
      <4> QED
        BY <1>2, <3>2, <4>2, SMTT(60)
    <3>5. b[j - (i - 1)] = seq[j + 1]
      BY <1>1, <1>3, <3>4, SMTT(60)
    <3> QED
      BY <1>1, <2>2, <3>4, <3>5 DEF Old
  <2> QED
    BY <2>1, <2>2
<1>7. DOMAIN (a \o b) = 1..Len(seq) - 1
  BY <1>1, <1>5
<1> QED
  BY <1>4, <1>5, <1>6, <1>7

(* What leaves the list nobody has.                                        *)
LEMMA RemovedGood ==
    ASSUME NEW map, Good(map), NEW i \in DOMAIN map.free,
           NEW to, to = [map EXCEPT !.free = RemoveAt(@, i)]
    PROVE  /\ Good(to) /\ to.entries = map.entries /\ to.table = map.table
           /\ to.pool = map.pool /\ to.used = map.used
           /\ \A b, k \in Nat : Holds(map, b, k) => Holds(to, b, k)
           /\ \A b, k \in Nat : map.free[i].at <= b /\ b + k <= map.free[i].at + map.free[i].len => Holds(to, b, k)
<1>1. /\ map.free \in Seq(ChunkRec)
      /\ \A j \in DOMAIN map.free : map.free[j].at \in Nat /\ map.free[j].len \in Nat
      /\ \A k \in DOMAIN map.entries : /\ map.entries[k].at \in Nat /\ map.entries[k].keyAt \in Nat
                                       /\ AlignUp(map.entries[k].len) \in Nat
      /\ KeyBytes \in Nat /\ Start(map) \in Nat /\ map.used \in Nat
  BY MapParts DEF Good
<1>2. PICK free : free = RemoveAt(map.free, i)
  OBVIOUS
<1>3. /\ RemoveAt(map.free, i) \in Seq(ChunkRec)
       /\ \A j \in DOMAIN RemoveAt(map.free, i) :
            RemoveAt(map.free, i)[j] = map.free[Old(i, j)] /\ Old(i, j) \in DOMAIN map.free /\ Old(i, j) # i
  BY <1>1, WithoutOne, ZenonT(60)
<1>4. /\ free \in Seq(ChunkRec) /\ DOMAIN free \subseteq Nat /\ i \in Nat
      /\ \A j \in DOMAIN free : free[j] = map.free[Old(i, j)] /\ Old(i, j) \in DOMAIN map.free /\ Old(i, j) # i
  BY <1>1, <1>2, <1>3
<1>5. \A j, h \in DOMAIN free : j # h => Old(i, j) # Old(i, h)
  BY <1>4 DEF Old
<1>6. to = [map EXCEPT !.free = free]
  BY <1>2
<1>7. ASSUME NEW j \in DOMAIN free
      PROVE  /\ Inside(map, free[j].at, free[j].len)
             /\ \A h \in DOMAIN free : j # h => Apart(free[j].at, free[j].len, free[h].at, free[h].len)
             /\ \A k \in DOMAIN map.entries :
                 /\ map.entries[k].at # NoRecord =>
                       Apart(free[j].at, free[j].len, map.entries[k].at, AlignUp(map.entries[k].len))
                 /\ map.entries[k].keyAt # NoRecord =>
                       Apart(free[j].at, free[j].len, map.entries[k].keyAt, KeyBytes)
  <2>1. free[j] = map.free[Old(i, j)] /\ Old(i, j) \in DOMAIN map.free
    BY <1>4
  <2>2. \A h \in DOMAIN free : j # h => Apart(free[j].at, free[j].len, free[h].at, free[h].len)
    BY <1>4, <1>5, <2>1, Zenon DEF Good, ChunksGood
  <2> QED
    BY <2>1, <2>2, Zenon DEF Good, ChunksGood
<1>8. Good(to) /\ Relisted(map, to, free) /\ Start(to) = Start(map)
  BY <1>4, <1>6, <1>7, RelistedGood
<1>9. ASSUME NEW b \in Nat, NEW k \in Nat, Holds(map, b, k) PROVE Holds(to, b, k)
  <2>1. Inside(to, b, k)
    BY <1>8, <1>9 DEF Holds, Inside, Relisted
  <2>2. \A j \in DOMAIN free : Apart(b, k, free[j].at, free[j].len)
    BY <1>4, <1>9, Zenon DEF Holds
  <2> QED
    BY <1>8, <1>9, <2>1, <2>2, Zenon DEF Holds, Relisted
<1>10. ASSUME NEW b \in Nat, NEW k \in Nat, map.free[i].at <= b, b + k <= map.free[i].at + map.free[i].len
      PROVE  Holds(to, b, k)
  <2> DEFINE c == map.free[i]
  <2>1. /\ Inside(map, c.at, c.len) /\ c.at \in Nat /\ c.len \in Nat
        /\ \A j \in DOMAIN map.free : i # j => Apart(c.at, c.len, map.free[j].at, map.free[j].len)
        /\ \A l \in DOMAIN map.entries :
             /\ map.entries[l].at # NoRecord => Apart(c.at, c.len, map.entries[l].at, AlignUp(map.entries[l].len))
             /\ map.entries[l].keyAt # NoRecord => Apart(c.at, c.len, map.entries[l].keyAt, KeyBytes)
    BY <1>1 DEF Good, ChunksGood
  <2>2. \A y, n \in Nat : Apart(c.at, c.len, y, n) => Apart(b, k, y, n)
    BY <1>10, <2>1 DEF Apart
  <2>3. Inside(to, b, k)
    <3>1. Start(map) <= c.at /\ c.at + c.len <= Start(map) + map.used /\ c.at \in Nat /\ c.len \in Nat
      BY <2>1 DEF Inside
    <3>2. c.at <= b /\ b + k <= c.at + c.len
      BY <1>10
    <3> HIDE DEF c
    <3>3. Start(map) <= b /\ b + k <= Start(map) + map.used
      BY <1>1, <3>1, <3>2
    <3> QED
      BY <1>8, <3>3 DEF Inside, Relisted
  <2> HIDE DEF c
  <2>4. ASSUME NEW l \in DOMAIN map.entries
        PROVE  /\ map.entries[l].at # NoRecord => Apart(b, k, map.entries[l].at, AlignUp(map.entries[l].len))
               /\ map.entries[l].keyAt # NoRecord => Apart(b, k, map.entries[l].keyAt, KeyBytes)
    BY <1>1, <2>1, <2>2, Zenon
  <2>5. ASSUME NEW j \in DOMAIN free PROVE Apart(b, k, free[j].at, free[j].len)
    <3>1. /\ free[j] = map.free[Old(i, j)] /\ Old(i, j) \in DOMAIN map.free /\ Old(i, j) # i
          /\ map.free[Old(i, j)].at \in Nat /\ map.free[Old(i, j)].len \in Nat
      BY <1>1, <1>4
    <3> QED
      BY <2>1, <2>2, <3>1, Zenon
  <2> QED
    BY <1>8, <2>3, <2>4, <2>5, Zenon DEF Holds, Relisted
<1> QED
  BY <1>8, <1>9, <1>10 DEF Relisted

-----------------------------------------------------------------------------
(* Taking bytes of the pool *)

(* The least member of a set of naturals                                   *)
LEMMA LeastMember ==
    ASSUME NEW S \in SUBSET Nat, S # {}
    PROVE  Min(S) \in S /\ \A y \in S : Min(S) <= y
<1>1. IsWellFoundedOn({ss \in Nat \X Nat : ss[1] < ss[2]}, Nat)
  BY NatLessThanWellFounded DEF OpToRel
<1>2. PICK x \in S : \A y \in S : ~ (<<y, x>> \in {ss \in Nat \X Nat : ss[1] < ss[2]})
  BY WFMin, <1>1, Zenon
<1>3. ASSUME NEW y \in S PROVE x <= y
  <2>1. y \in Nat /\ x \in Nat
    OBVIOUS
  <2>2. ASSUME y < x PROVE <<y, x>> \in {ss \in Nat \X Nat : ss[1] < ss[2]}
    BY <2>1, <2>2
  <2> QED
    BY <1>2, <2>1, <2>2
<1> QED
  BY <1>3 DEF Min

(* What holds for a function at 0, and at each number if at the one before *)
LEMMA StepsStay ==
    ASSUME NEW S, NEW n \in Nat, NEW f, f[0] \in S, \A i \in 1..n : f[i - 1] \in S => f[i] \in S
    PROVE  \A i \in 0..n : f[i] \in S
<1> DEFINE B == {i \in 0..n : f[i] \notin S}
<1> SUFFICES ASSUME B # {} PROVE FALSE
  OBVIOUS
<1>1. PICK b \in 0..n : f[b] \notin S /\ \A y \in B : b <= y
  <2>1. B \in SUBSET Nat
    OBVIOUS
  <2>2. Min(B) \in B /\ \A y \in B : Min(B) <= y
    BY <2>1, LeastMember
  <2> QED
    BY <2>2
<1>2. b \in 1..n /\ b - 1 \in 0..n /\ ~ (b <= b - 1)
  BY <1>1
<1>3. f[b - 1] \in S
  BY <1>1, <1>2
<1> QED
  BY <1>1, <1>2, <1>3

(* A function that goes on from each number as "step" says                 *)
Steps(S, n, first, step) ==
    \E f \in [0..n -> S] : f[0] = first /\ \A i \in 1..n : f[i] = step[i][f[i - 1]]

LEMMA StepsExist ==
    ASSUME NEW S, NEW n \in Nat, NEW first \in S, NEW step \in [1..n -> [S -> S]]
    PROVE  Steps(S, n, first, step)
<1> DEFINE Upto(k) == \E f \in [0..k -> S] : f[0] = first /\ \A i \in 1..k : f[i] = step[i][f[i - 1]]
           reached == {k \in 0..n : Upto(k)}
           g == [k \in 0..n |-> k]
<1>1. Upto(0)
  <2>1. PICK f \in [0..0 -> S] : f = [i \in 0..0 |-> first]
    OBVIOUS
  <2>2. f[0] = first /\ 1..0 = {}
    BY <2>1
  <2> QED
    BY <2>2
<1>2. ASSUME NEW k \in 1..n, Upto(k - 1) PROVE Upto(k)
  <2>1. PICK f \in [0..k - 1 -> S] : f[0] = first /\ \A i \in 1..k - 1 : f[i] = step[i][f[i - 1]]
    BY <1>2
  <2>2. step[k][f[k - 1]] \in S
    <3>1. k - 1 \in 0..k - 1
      OBVIOUS
    <3>2. f[k - 1] \in S /\ step[k] \in [S -> S]
      BY <3>1
    <3> QED
      BY <3>2
  <2>3. PICK e : e = [i \in 0..k |-> IF i = k THEN step[k][f[k - 1]] ELSE f[i]]
    OBVIOUS
  <2>4. \A i \in 0..k : i # k => i \in 0..k - 1 /\ e[i] = f[i]
    BY <2>3
  <2>5. e[k] = step[k][f[k - 1]]
    BY <2>3
  <2>6. e \in [0..k -> S]
    BY <2>2, <2>3, <2>4
  <2>7. e[0] = first
    BY <2>1, <2>4
  <2>8. ASSUME NEW i \in 1..k PROVE e[i] = step[i][e[i - 1]]
    <3>1. i - 1 \in 0..k /\ i - 1 # k /\ i \in 0..k
      OBVIOUS
    <3>2. e[i - 1] = f[i - 1]
      BY <2>4, <3>1
    <3>3. CASE i = k
      BY <2>5, <3>2, <3>3
    <3>4. CASE i # k
      <4>1. i \in 1..k - 1
        BY <3>4
      <4> QED
        BY <2>1, <2>4, <3>1, <3>2, <3>4, <4>1
    <3> QED
      BY <3>3, <3>4
  <2> QED
    BY <2>6, <2>7, <2>8
<1> HIDE DEF Upto
<1>3. 0 \in 0..n /\ n \in 0..n /\ \A i \in 1..n : i \in 0..n /\ i - 1 \in 0..n
  OBVIOUS
<1>4. \A i \in 0..n : g[i] = i
  OBVIOUS
<1>5. g[0] \in reached
  BY <1>1, <1>3, <1>4
<1>6. \A i \in 1..n : g[i - 1] \in reached => g[i] \in reached
  BY <1>2, <1>3, <1>4
<1>7. g[n] \in reached
  <2> HIDE DEF g, reached
  <2>1. \A i \in 0..n : g[i] \in reached
    BY <1>5, <1>6, StepsStay
  <2> QED
    BY <1>3, <2>1
<1> QED
  BY <1>3, <1>4, <1>7 DEF Upto, Steps

(* The greatest of three and of four                                       *)
LEMMA MaxOfThree ==
    ASSUME NEW a \in Nat, NEW b \in Nat, NEW c \in Nat
    PROVE  Max({a, b, c}) \in Nat /\ a <= Max({a, b, c}) /\ b <= Max({a, b, c}) /\ c <= Max({a, b, c})
<1>1. \E x \in {a, b, c} : \A y \in {a, b, c} : x >= y
  OBVIOUS
<1>2. Max({a, b, c}) \in {a, b, c} /\ \A y \in {a, b, c} : Max({a, b, c}) >= y
  BY <1>1, Zenon DEF Max
<1> QED
  BY <1>2

LEMMA MaxOfFour ==
    ASSUME NEW a \in Nat, NEW b \in Nat, NEW c \in Nat, NEW d \in Nat
    PROVE  Max({a, b, c, d}) \in Nat /\ a <= Max({a, b, c, d})
<1>1. \E x \in {a, b, c, d} : \A y \in {a, b, c, d} : x >= y
  OBVIOUS
<1>2. Max({a, b, c, d}) \in {a, b, c, d} /\ \A y \in {a, b, c, d} : Max({a, b, c, d}) >= y
  BY <1>1, Zenon DEF Max
<1> QED
  BY <1>2

(* _grow()                                                                 *)
LEMMA GrowFollows ==
    ASSUME NEW map, Good(map), NEW n \in Nat, NEW bytes \in Nat,
           NEW to, to = Grow(map, n, bytes)
    PROVE  Follows(map, to) /\ to.used = map.used /\ bytes <= to.pool /\ to.used <= to.pool /\ to.used \in Nat
<1>1. /\ map.table \in Nat /\ map.pool \in Nat /\ map.used \in Nat /\ Count(map) \in Nat
      /\ map.used <= map.pool
  BY MapParts DEF Good
<1>2. map.table + map.table \div 2 \in Nat /\ map.pool + map.pool \div 2 \in Nat /\ FirstEntries \in Nat
  <2>1. \A x \in Nat : x + x \div 2 \in Nat
    OBVIOUS
  <2>2. FirstEntries \in Nat
    BY SizesAssumption
  <2> QED
    BY <1>1, <2>1, <2>2
<1>3. PICK table \in Nat : table = Max({n, Count(map), map.table + map.table \div 2, FirstEntries})
  BY <1>1, <1>2, MaxOfFour
<1>4. PICK pool \in Nat : /\ pool = Max({bytes, map.used, map.pool + map.pool \div 2})
                          /\ bytes <= pool /\ map.used <= pool
  BY <1>1, <1>2, MaxOfThree
<1>5. to = Moved(map, table, pool)
  BY <1>3, <1>4 DEF Grow
<1> QED
  BY <1>1, <1>4, <1>5, MovedFollows

(* What is taken, by a map that has room: r.at is the place, where the map *)
(* has nothing, nor was anything held there before.                        *)
Takes(map, r, n) ==
    /\ Follows(map, r.map) /\ r.at \in Nat
    /\ r.at # NoRecord =>
        /\ Holds(r.map, r.at, n)
        /\ \A b, k \in Nat : Holds(map, b, k) => Apart(Shift(map, r.map, b), k, r.at, n)

(* _freeListPopFit()                                                       *)
LEMMA PoppedGood ==
    ASSUME NEW map, Good(map), NEW n \in Nat, Fitting(map, n) # {},
           NEW r, r = [map |-> Popped(map, n), at |-> map.free[Min(Fitting(map, n))].at]
    PROVE  Takes(map, r, n)
<1>1. PICK i \in DOMAIN map.free : i = Min(Fitting(map, n)) /\ map.free[i].len >= n
  <2>1. Fitting(map, n) \in SUBSET Nat
    BY MapParts DEF Fitting, Good
  <2>2. Min(Fitting(map, n)) \in Fitting(map, n)
    BY <2>1, LeastMember
  <2> QED
    BY <2>2 DEF Fitting
<1>2. PICK at \in Nat, len \in Nat : at = map.free[i].at /\ len = map.free[i].len
  BY MapParts DEF Good
<1>3. n <= len /\ at + n \in Nat /\ len - n \in Nat
  BY <1>1, <1>2
<1>4. PICK rest : rest = [map EXCEPT !.free = RemoveAt(@, i)]
  OBVIOUS
<1>5. /\ Good(rest) /\ rest.entries = map.entries /\ rest.table = map.table
      /\ \A b, k \in Nat : Holds(map, b, k) => Holds(rest, b, k)
      /\ \A b, k \in Nat : map.free[i].at <= b /\ b + k <= map.free[i].at + map.free[i].len => Holds(rest, b, k)
  BY <1>4, RemovedGood
<1>6. Holds(rest, at, n) /\ Holds(rest, at + n, len - n)
  <2>1. at <= at /\ at + n <= at + len /\ at <= at + n /\ (at + n) + (len - n) <= at + len
    BY <1>3
  <2> QED
    BY <1>2, <1>3, <1>5, <2>1, Zenon
<1>7. PICK to : to = Freed(rest, at + n, len - n)
  OBVIOUS
<1>8. r.map = to /\ r.at = at
  BY <1>1, <1>2, <1>4, <1>7 DEF Popped
<1>9. /\ Good(to) /\ to.entries = map.entries /\ to.table = map.table
      /\ \A b, k \in Nat : Holds(rest, b, k) /\ Apart(b, k, at + n, len - n) => Holds(to, b, k)
  BY <1>3, <1>5, <1>6, <1>7, FreedGood
<1>10. \A b, k \in Nat : Holds(map, b, k) => Apart(b, k, at, len)
  BY <1>2 DEF Holds
<1>11. \A b, k \in Nat : Apart(b, k, at, len) => Apart(b, k, at, n) /\ Apart(b, k, at + n, len - n)
  BY <1>3 DEF Apart
<1>12. Apart(at, n, at + n, len - n)
  BY <1>3 DEF Apart
<1>13. Holds(to, at, n)
  BY <1>6, <1>9, <1>12
<1>14. \A b, k \in Nat : Holds(map, b, k) => Holds(to, b, k)
  BY <1>5, <1>9, <1>10, <1>11, Zenon
<1>15. Follows(map, to) /\ \A x \in Nat : Shift(map, to, x) = x
  BY <1>9, <1>14, SameBlock
<1>16. \A b, k \in Nat : Holds(map, b, k) => Apart(Shift(map, to, b), k, at, n)
  BY <1>10, <1>11, <1>15
<1> QED
  BY <1>8, <1>13, <1>15, <1>16, Zenon DEF Takes

(* Bytes at the end of what is used, of a pool that grows if it may        *)
LEMMA BumpedGood ==
    ASSUME NEW map, Good(map), NEW from \in Nat, NEW n \in Nat, map.used <= from,
           NEW r, r = Bumped(map, from, n)
    PROVE  Takes(map, r, n)
<1>1. CASE ~ (from + n <= map.pool) /\ fixed
  <2>1. r = [map |-> map, at |-> NoRecord]
    BY <1>1 DEF Bumped
  <2> QED
    BY <2>1, Itself DEF Takes, NoRecord
<1>2. CASE from + n <= map.pool \/ ~fixed
  <2>1. PICK to : to = IF from + n <= map.pool THEN map ELSE Grow(map, Count(map), from + n)
    OBVIOUS
  <2>2. Follows(map, to) /\ to.used = map.used /\ from + n <= to.pool /\ Good(to)
    <3>1. CASE from + n <= map.pool
      BY <2>1, <3>1, Itself
    <3>2. CASE ~ (from + n <= map.pool)
      <4>1. Count(map) \in Nat /\ from + n \in Nat
        BY MapParts DEF Good
      <4>2. PICK bytes \in Nat, count \in Nat : bytes = from + n /\ count = Count(map)
        BY <4>1
      <4>3. to = Grow(map, count, bytes)
        BY <2>1, <3>2, <4>2
      <4>4. Follows(map, to) /\ to.used = map.used /\ bytes <= to.pool
        <5> HIDE DEF Grow
        <5> QED
          BY <4>3, GrowFollows
      <4> QED
        BY <4>2, <4>4, Zenon DEF Follows
    <3> QED
      BY <3>1, <3>2
  <2>3. PICK after : after = [to EXCEPT !.used = from + n]
    OBVIOUS
  <2>4. r = [map |-> after, at |-> Start(to) + from]
    BY <1>2, <2>1, <2>3 DEF Bumped
  <2>5. /\ Start(to) \in Nat /\ Start(to) > 0 /\ to.used \in Nat /\ from + n \in Nat /\ to.used <= from + n
        /\ map.used \in Nat /\ to.used <= from
    BY <2>2, MapParts DEF Good, NoRecord
  <2>6. /\ Follows(to, after) /\ after.entries = to.entries /\ after.table = to.table
        /\ \A x, k \in Nat : Start(to) + to.used <= x /\ x + k <= Start(to) + (from + n) => Holds(after, x, k)
        /\ \A b, k, x, l \in Nat : Holds(to, b, k) /\ Start(to) + to.used <= x => Apart(b, k, x, l)
    BY <2>2, <2>3, <2>5, UsedUp
  <2>7. PICK at \in Nat : at = Start(to) + from
    BY <2>5
  <2>8. at # 0 /\ Start(to) + to.used <= at /\ at + n <= Start(to) + (from + n)
    BY <2>5, <2>7
  <2>9. Holds(after, at, n)
    BY <2>6, <2>8
  <2>10. Follows(map, after) /\ \A x \in Nat : Start(map) <= x => Shift(map, after, x) = Shift(to, after, Shift(map, to, x))
    BY <2>2, <2>6, FollowsOn
  <2>11. \A x \in Nat : Shift(to, after, x) = x
    BY <2>5, <2>6 DEF Shift, Start
  <2>12. ASSUME NEW b \in Nat, NEW k \in Nat, Holds(map, b, k)
         PROVE  Apart(Shift(map, after, b), k, at, n)
    <3>1. Shift(map, to, b) \in Nat /\ Holds(to, Shift(map, to, b), k)
      BY <2>2, <2>12, Zenon DEF Follows
    <3>2. Shift(map, after, b) = Shift(map, to, b)
      BY <2>10, <2>11, <2>12, <3>1 DEF Holds, Inside
    <3> QED
      BY <2>6, <2>8, <3>1, <3>2
  <2>13. r.map = after /\ r.at = at
    BY <2>4, <2>7
  <2> QED
    BY <2>9, <2>10, <2>12, <2>13, Zenon DEF Takes
<1> QED
  BY <1>1, <1>2

LEMMA TakenGood ==
    ASSUME NEW map, Good(map), NEW from \in Nat, NEW n \in Nat, map.used <= from,
           NEW r, r = Taken(map, from, n)
    PROVE  Takes(map, r, n)
BY PoppedGood, BumpedGood, Zenon DEF Taken

LEMMA AppendPayloadGood ==
    ASSUME NEW map, Good(map), NEW n \in Nat, NEW r, r = AppendPayload(map, n)
    PROVE  Takes(map, r, n)
<1>1. map.used \in Nat /\ map.used <= map.used
  BY MapParts DEF Good
<1> QED
  BY <1>1, TakenGood DEF AppendPayload

LEMMA AppendRecordGood ==
    ASSUME NEW map, Good(map), NEW content \in Nat, NEW r, r = AppendRecord(map, content)
    PROVE  Takes(map, r, AlignUp(RecHeader + content)) /\ AlignUp(RecHeader + content) \in Nat
<1>1. map.used \in Nat /\ RecHeader + content \in Nat
  BY MapParts DEF Good, RecHeader
<1>2. AlignUp(map.used) \in Nat /\ map.used <= AlignUp(map.used) /\ AlignUp(RecHeader + content) \in Nat
  BY <1>1, Aligned
<1> QED
  BY <1>2, TakenGood, Zenon DEF AppendRecord

(* _ensureEntrySlot(), and the room that reserve() makes                   *)
LEMMA EnsureSlotFollows ==
    ASSUME NEW map, Good(map), NEW to, to = EnsureSlot(map)
    PROVE  Follows(map, to)
<1>1. Count(map) + 2 \in Nat /\ map.used \in Nat
  BY MapParts DEF Good
<1> QED
  BY <1>1, GrowFollows, Itself DEF EnsureSlot

LEMMA ReservedFollows ==
    ASSUME NEW map, Good(map), NEW n \in Nat, NEW bytes \in Nat, NEW to, to = Reserved(map, n, bytes)
    PROVE  Follows(map, to)
<1>1. Count(map) \in Nat
  BY MapParts DEF Good
<1>2. \E x \in {n, Count(map)} : \A y \in {n, Count(map)} : x >= y
  BY <1>1
<1>3. Max({n, Count(map)}) \in Nat
  BY <1>1, <1>2 DEF Max
<1>4. Max({n, Count(map)}) + 1 \in Nat
  BY <1>3
<1> QED
  BY <1>4, GrowFollows, Itself, Zenon DEF Reserved


-----------------------------------------------------------------------------
(* Entries *)

(* Nothing but the entry of one key has anything in a region.              *)
Clears(map, key, a, n) ==
    /\ Inside(map, a, n)
    /\ \A k \in DOMAIN map.entries \ {key} :
        /\ map.entries[k].at # NoRecord => Apart(a, n, map.entries[k].at, AlignUp(map.entries[k].len))
        /\ map.entries[k].keyAt # NoRecord => Apart(a, n, map.entries[k].keyAt, KeyBytes)
    /\ \A i \in DOMAIN map.free : Apart(a, n, map.free[i].at, map.free[i].len)

(* An entry whose record and key lie where nothing else does               *)
Fits(map, key, e) ==
    /\ e.at # NoRecord => Clears(map, key, e.at, AlignUp(e.len))
    /\ e.keyAt # NoRecord => Clears(map, key, e.keyAt, KeyBytes)
    /\ e.at # NoRecord /\ e.keyAt # NoRecord => Apart(e.at, AlignUp(e.len), e.keyAt, KeyBytes)

(* A region apart from what an entry has                                   *)
Beside(e, b, n) ==
    /\ e.at # NoRecord => Apart(b, n, e.at, AlignUp(e.len))
    /\ e.keyAt # NoRecord => Apart(b, n, e.keyAt, KeyBytes)

LEMMA ApartBoth ==
    ASSUME NEW a \in Nat, NEW n \in Nat, NEW b \in Nat, NEW k \in Nat
    PROVE  Apart(a, n, b, k) <=> Apart(b, k, a, n)
BY DEF Apart

(* The entry that is there fits, and what the map holds is clear.          *)
LEMMA EntryFits ==
    ASSUME NEW map, Good(map)
    PROVE  /\ \A key \in DOMAIN map.entries : Fits(map, key, map.entries[key])
           /\ \A key, a, n : Holds(map, a, n) => Clears(map, key, a, n)
           /\ \A key \in DOMAIN map.entries : \A a, n : Holds(map, a, n) => Beside(map.entries[key], a, n)
           /\ \A key \in DOMAIN map.entries : \A a, n : Clears(map, key, a, n) /\ Beside(map.entries[key], a, n) => Holds(map, a, n)
           /\ \A key : key \notin DOMAIN map.entries => \A a, n : Clears(map, key, a, n) => Holds(map, a, n)
<1>1. RecordsGood(map) /\ ChunksGood(map) /\ map \in MapRec
  BY DEF Good
<1>2. /\ KeyBytes \in Nat
      /\ \A k \in DOMAIN map.entries : /\ map.entries[k].at \in Nat /\ map.entries[k].keyAt \in Nat
                                       /\ AlignUp(map.entries[k].len) \in Nat
      /\ \A i \in DOMAIN map.free : map.free[i].at \in Nat /\ map.free[i].len \in Nat
  BY <1>1, MapParts
<1>3. ASSUME NEW key \in DOMAIN map.entries, map.entries[key].at # NoRecord
      PROVE  Clears(map, key, map.entries[key].at, AlignUp(map.entries[key].len))
  <2>1. Inside(map, map.entries[key].at, AlignUp(map.entries[key].len))
    BY <1>1, <1>3, Zenon DEF RecordsGood
  <2>2. ASSUME NEW k \in DOMAIN map.entries, k # key
        PROVE  /\ map.entries[k].at # NoRecord =>
                    Apart(map.entries[key].at, AlignUp(map.entries[key].len), map.entries[k].at, AlignUp(map.entries[k].len))
               /\ map.entries[k].keyAt # NoRecord =>
                    Apart(map.entries[key].at, AlignUp(map.entries[key].len), map.entries[k].keyAt, KeyBytes)
    BY <1>1, <1>3, <2>2, Zenon DEF RecordsGood
  <2>3. ASSUME NEW i \in DOMAIN map.free
        PROVE  Apart(map.entries[key].at, AlignUp(map.entries[key].len), map.free[i].at, map.free[i].len)
    <3>1. Apart(map.free[i].at, map.free[i].len, map.entries[key].at, AlignUp(map.entries[key].len))
      BY <1>1, <1>3, Zenon DEF ChunksGood
    <3> QED
      BY <1>2, <3>1, ApartBoth, Zenon
  <2> QED
    BY <2>1, <2>2, <2>3, Zenon DEF Clears
<1>4. ASSUME NEW key \in DOMAIN map.entries, map.entries[key].keyAt # NoRecord
      PROVE  Clears(map, key, map.entries[key].keyAt, KeyBytes)
  <2>1. Inside(map, map.entries[key].keyAt, KeyBytes)
    BY <1>1, <1>4, Zenon DEF RecordsGood
  <2>2. ASSUME NEW k \in DOMAIN map.entries, k # key
        PROVE  /\ map.entries[k].at # NoRecord =>
                    Apart(map.entries[key].keyAt, KeyBytes, map.entries[k].at, AlignUp(map.entries[k].len))
               /\ map.entries[k].keyAt # NoRecord =>
                    Apart(map.entries[key].keyAt, KeyBytes, map.entries[k].keyAt, KeyBytes)
    <3>1. map.entries[k].at # NoRecord =>
              Apart(map.entries[k].at, AlignUp(map.entries[k].len), map.entries[key].keyAt, KeyBytes)
      BY <1>1, <1>4, Zenon DEF RecordsGood
    <3>2. map.entries[k].keyAt # NoRecord => Apart(map.entries[key].keyAt, KeyBytes, map.entries[k].keyAt, KeyBytes)
      BY <1>1, <1>4, <2>2, Zenon DEF RecordsGood
    <3> QED
      BY <1>2, <3>1, <3>2, ApartBoth, Zenon
  <2>3. ASSUME NEW i \in DOMAIN map.free
        PROVE  Apart(map.entries[key].keyAt, KeyBytes, map.free[i].at, map.free[i].len)
    <3>1. Apart(map.free[i].at, map.free[i].len, map.entries[key].keyAt, KeyBytes)
      BY <1>1, <1>4, Zenon DEF ChunksGood
    <3> QED
      BY <1>2, <3>1, ApartBoth, Zenon
  <2> QED
    BY <2>1, <2>2, <2>3, Zenon DEF Clears
<1>5. \A key \in DOMAIN map.entries :
        map.entries[key].at # NoRecord /\ map.entries[key].keyAt # NoRecord =>
            Apart(map.entries[key].at, AlignUp(map.entries[key].len), map.entries[key].keyAt, KeyBytes)
  BY <1>1, Zenon DEF RecordsGood
<1>6. \A key \in DOMAIN map.entries : Fits(map, key, map.entries[key])
  BY <1>3, <1>4, <1>5, Zenon DEF Fits
<1>7. \A key, a, n : Holds(map, a, n) => Clears(map, key, a, n)
  BY Zenon DEF Holds, Clears
<1>8. \A key \in DOMAIN map.entries : \A a, n : Holds(map, a, n) => Beside(map.entries[key], a, n)
  BY Zenon DEF Holds, Beside
<1>9. \A key \in DOMAIN map.entries : \A a, n : Clears(map, key, a, n) /\ Beside(map.entries[key], a, n) => Holds(map, a, n)
  <2> SUFFICES ASSUME NEW key \in DOMAIN map.entries, NEW a, NEW n, Clears(map, key, a, n), Beside(map.entries[key], a, n),
                      NEW k \in DOMAIN map.entries
               PROVE  /\ map.entries[k].at # NoRecord => Apart(a, n, map.entries[k].at, AlignUp(map.entries[k].len))
                      /\ map.entries[k].keyAt # NoRecord => Apart(a, n, map.entries[k].keyAt, KeyBytes)
    BY Zenon DEF Holds, Clears
  <2>1. CASE k = key
    BY <2>1, Zenon DEF Beside
  <2>2. CASE k # key
    BY <2>2 DEF Clears
  <2> QED
    BY <2>1, <2>2
<1>10. \A key : key \notin DOMAIN map.entries => \A a, n : Clears(map, key, a, n) => Holds(map, a, n)
  BY DEF Holds, Clears
<1> QED
  BY <1>6, <1>7, <1>8, <1>9, <1>10

(* The map with one entry set                                              *)
Sets(map, to, key, e) ==
    /\ Good(to) /\ DOMAIN to.entries = DOMAIN map.entries \cup {key} /\ to.entries[key] = e
    /\ to.table = map.table /\ to.pool = map.pool /\ to.used = map.used /\ Start(to) = Start(map)
    /\ \A b, n : Clears(map, key, b, n) /\ Beside(e, b, n) => Holds(to, b, n)

(* One entry set, added or replaced: what the map then holds is what was   *)
(* clear of all else and lies beside the new entry.                        *)
LEMMA WithGood ==
    ASSUME NEW map, Good(map), NEW key \in Keys, NEW e \in EntryRec, Fits(map, key, e),
           NEW to, to = [map EXCEPT !.entries = With(@, key, e)]
    PROVE  Sets(map, to, key, e)
<1>1. map \in MapRec /\ map.used <= map.pool /\ RecordsGood(map) /\ ChunksGood(map)
  BY DEF Good
<1>2. PICK es : es = With(map.entries, key, e)
  OBVIOUS
<1>3. /\ DOMAIN map.entries \subseteq Keys /\ \A k \in DOMAIN map.entries : map.entries[k] \in EntryRec
      /\ map.table \in Nat /\ map.pool \in Nat /\ map.used \in Nat /\ map.free \in Seq(ChunkRec)
      /\ KeyBytes \in Nat /\ \A i \in DOMAIN map.free : map.free[i].at \in Nat /\ map.free[i].len \in Nat
      /\ \A k \in DOMAIN map.entries : /\ map.entries[k].at \in Nat /\ map.entries[k].keyAt \in Nat
                                       /\ AlignUp(map.entries[k].len) \in Nat
  BY <1>1, MapParts
<1>4. PICK K \in SUBSET Keys : K = DOMAIN map.entries \cup {key}
  BY <1>3
<1>5. /\ es \in [K -> EntryRec] /\ DOMAIN es = K /\ es[key] = e
      /\ \A k \in K : k # key => k \in DOMAIN map.entries /\ es[k] = map.entries[k]
  BY <1>2, <1>3, <1>4 DEF With
<1>6. /\ to.entries = es /\ to.table = map.table /\ to.pool = map.pool /\ to.used = map.used /\ to.free = map.free
      /\ to = [entries |-> es, table |-> map.table, pool |-> map.pool, used |-> map.used, free |-> map.free]
  BY <1>1, <1>2, MapIs
<1>7. to \in MapRec
  BY <1>3, <1>5, <1>6, MapMade, ZenonT(60)
<1>8. Start(to) = Start(map) /\ \A a, n : Inside(to, a, n) <=> Inside(map, a, n)
  BY <1>6 DEF Start, Inside
<1>9. e.at \in Nat /\ e.keyAt \in Nat /\ e.len \in Nat /\ AlignUp(e.len) \in Nat
  <2>1. \A f \in EntryRec : f.at \in Nat /\ f.keyAt \in Nat /\ f.len \in Nat
    BY DEF EntryRec
  <2> QED
    BY <2>1, Aligned
<1>10. ASSUME NEW k \in K, k # key
       PROVE  /\ map.entries[k].at # NoRecord =>
                    /\ e.at # NoRecord => Apart(map.entries[k].at, AlignUp(map.entries[k].len), e.at, AlignUp(e.len))
                    /\ e.keyAt # NoRecord => Apart(map.entries[k].at, AlignUp(map.entries[k].len), e.keyAt, KeyBytes)
              /\ map.entries[k].keyAt # NoRecord =>
                    /\ e.at # NoRecord => Apart(map.entries[k].keyAt, KeyBytes, e.at, AlignUp(e.len))
                    /\ e.keyAt # NoRecord => Apart(map.entries[k].keyAt, KeyBytes, e.keyAt, KeyBytes)
              /\ map.entries[k].at # NoRecord =>
                    /\ e.at # NoRecord => Apart(e.at, AlignUp(e.len), map.entries[k].at, AlignUp(map.entries[k].len))
                    /\ e.keyAt # NoRecord => Apart(e.keyAt, KeyBytes, map.entries[k].at, AlignUp(map.entries[k].len))
              /\ map.entries[k].keyAt # NoRecord =>
                    /\ e.at # NoRecord => Apart(e.at, AlignUp(e.len), map.entries[k].keyAt, KeyBytes)
                    /\ e.keyAt # NoRecord => Apart(e.keyAt, KeyBytes, map.entries[k].keyAt, KeyBytes)
  <2>1. k \in DOMAIN map.entries \ {key}
    BY <1>5, <1>10
  <2>2. /\ map.entries[k].at # NoRecord =>
                    /\ e.at # NoRecord => Apart(e.at, AlignUp(e.len), map.entries[k].at, AlignUp(map.entries[k].len))
                    /\ e.keyAt # NoRecord => Apart(e.keyAt, KeyBytes, map.entries[k].at, AlignUp(map.entries[k].len))
        /\ map.entries[k].keyAt # NoRecord =>
                    /\ e.at # NoRecord => Apart(e.at, AlignUp(e.len), map.entries[k].keyAt, KeyBytes)
                    /\ e.keyAt # NoRecord => Apart(e.keyAt, KeyBytes, map.entries[k].keyAt, KeyBytes)
    BY <2>1, Zenon DEF Fits, Clears
  <2>3. map.entries[k].at \in Nat /\ map.entries[k].keyAt \in Nat /\ AlignUp(map.entries[k].len) \in Nat /\ KeyBytes \in Nat
    BY <1>3, <2>1
  <2> QED
    BY <1>9, <2>2, <2>3, ApartBoth, Zenon
<1>11. ASSUME NEW k \in K
       PROVE  /\ es[k].at # NoRecord => Inside(to, es[k].at, AlignUp(es[k].len))
              /\ es[k].keyAt # NoRecord => Inside(to, es[k].keyAt, KeyBytes)
              /\ es[k].at # NoRecord /\ es[k].keyAt # NoRecord => Apart(es[k].at, AlignUp(es[k].len), es[k].keyAt, KeyBytes)
  <2>1. CASE k = key
    BY <1>5, <1>8, <2>1, Zenon DEF Fits, Clears
  <2>2. CASE k # key
    BY <1>1, <1>5, <1>8, <2>2, Zenon DEF RecordsGood
  <2> QED
    BY <2>1, <2>2
<1>12. ASSUME NEW k \in K, NEW l \in K, k # l
       PROVE  /\ es[k].at # NoRecord /\ es[l].keyAt # NoRecord => Apart(es[k].at, AlignUp(es[k].len), es[l].keyAt, KeyBytes)
              /\ es[k].at # NoRecord /\ es[l].at # NoRecord =>
                    Apart(es[k].at, AlignUp(es[k].len), es[l].at, AlignUp(es[l].len))
              /\ es[k].keyAt # NoRecord /\ es[l].keyAt # NoRecord => Apart(es[k].keyAt, KeyBytes, es[l].keyAt, KeyBytes)
  <2>1. CASE k = key
    <3>1. l # key /\ es[k] = e /\ es[l] = map.entries[l]
      BY <1>5, <1>12, <2>1
    <3> QED
      BY <1>10, <3>1, Zenon
  <2>2. CASE l = key
    <3>1. k # key /\ es[l] = e /\ es[k] = map.entries[k]
      BY <1>5, <1>12, <2>2
    <3> QED
      BY <1>10, <3>1, Zenon
  <2>3. CASE k # key /\ l # key
    <3>1. /\ es[k] = map.entries[k] /\ es[l] = map.entries[l]
          /\ k \in DOMAIN map.entries /\ l \in DOMAIN map.entries
      BY <1>5, <2>3
    <3> QED
      BY <1>1, <1>12, <3>1, Zenon DEF RecordsGood
  <2> QED
    BY <2>1, <2>2, <2>3
<1>13. RecordsGood(to)
  <2> SUFFICES ASSUME NEW k \in K, NEW l \in K
               PROVE  /\ es[k].at # NoRecord => Inside(to, es[k].at, AlignUp(es[k].len))
                      /\ es[k].keyAt # NoRecord => Inside(to, es[k].keyAt, KeyBytes)
                      /\ es[k].at # NoRecord /\ es[l].keyAt # NoRecord => Apart(es[k].at, AlignUp(es[k].len), es[l].keyAt, KeyBytes)
                      /\ k # l /\ es[k].at # NoRecord /\ es[l].at # NoRecord =>
                            Apart(es[k].at, AlignUp(es[k].len), es[l].at, AlignUp(es[l].len))
                      /\ k # l /\ es[k].keyAt # NoRecord /\ es[l].keyAt # NoRecord =>
                            Apart(es[k].keyAt, KeyBytes, es[l].keyAt, KeyBytes)
    BY <1>5, <1>6, Zenon DEF RecordsGood
  <2>1. CASE k = l
    BY <1>11, <2>1, Zenon
  <2>2. CASE k # l
    BY <1>11, <1>12, <2>2, Zenon
  <2> QED
    BY <2>1, <2>2
<1>14. ASSUME NEW i \in DOMAIN map.free, NEW k \in K
       PROVE  /\ es[k].at # NoRecord => Apart(map.free[i].at, map.free[i].len, es[k].at, AlignUp(es[k].len))
              /\ es[k].keyAt # NoRecord => Apart(map.free[i].at, map.free[i].len, es[k].keyAt, KeyBytes)
  <2>1. CASE k = key
    <3>1. /\ e.at # NoRecord => Apart(e.at, AlignUp(e.len), map.free[i].at, map.free[i].len)
          /\ e.keyAt # NoRecord => Apart(e.keyAt, KeyBytes, map.free[i].at, map.free[i].len)
      BY Zenon DEF Fits, Clears
    <3>2. /\ e.at # NoRecord => Apart(map.free[i].at, map.free[i].len, e.at, AlignUp(e.len))
          /\ e.keyAt # NoRecord => Apart(map.free[i].at, map.free[i].len, e.keyAt, KeyBytes)
      BY <1>3, <1>9, <3>1, ApartBoth, Zenon
    <3> QED
      BY <1>5, <2>1, <3>2, Zenon
  <2>2. CASE k # key
    BY <1>1, <1>5, <2>2, Zenon DEF ChunksGood
  <2> QED
    BY <2>1, <2>2
<1>15. ChunksGood(to)
  <2>1. \A i \in DOMAIN map.free :
          /\ Inside(to, map.free[i].at, map.free[i].len)
          /\ \A j \in DOMAIN map.free : i # j => Apart(map.free[i].at, map.free[i].len, map.free[j].at, map.free[j].len)
    BY <1>1, <1>8, Zenon DEF ChunksGood
  <2> QED
    BY <1>5, <1>6, <1>14, <2>1, Zenon DEF ChunksGood
<1>16. ASSUME NEW b, NEW n, Clears(map, key, b, n), Beside(e, b, n)
       PROVE  Holds(to, b, n)
  <2>1. Inside(to, b, n) /\ \A i \in DOMAIN map.free : Apart(b, n, map.free[i].at, map.free[i].len)
    BY <1>8, <1>16, Zenon DEF Clears
  <2>2. ASSUME NEW k \in K
        PROVE  /\ es[k].at # NoRecord => Apart(b, n, es[k].at, AlignUp(es[k].len))
               /\ es[k].keyAt # NoRecord => Apart(b, n, es[k].keyAt, KeyBytes)
    <3>1. CASE k = key
      BY <1>5, <1>16, <3>1, Zenon DEF Beside
    <3>2. CASE k # key
      <4>1. k \in DOMAIN map.entries \ {key} /\ es[k] = map.entries[k]
        BY <1>5, <3>2
      <4> QED
        BY <1>16, <4>1, Zenon DEF Clears
    <3> QED
      BY <3>1, <3>2
  <2> QED
    BY <1>5, <1>6, <2>1, <2>2, Zenon DEF Holds
<1>17. Good(to)
  BY <1>1, <1>6, <1>7, <1>13, <1>15 DEF Good
<1> QED
  BY <1>4, <1>5, <1>6, <1>8, <1>16, <1>17 DEF Sets

(* An entry less: what was clear of all else is held.                      *)
LEMMA WithoutGood ==
    ASSUME NEW map, Good(map), NEW key,
           NEW to, to = [map EXCEPT !.entries = Without(@, key)]
    PROVE  /\ Good(to) /\ DOMAIN to.entries = DOMAIN map.entries \ {key} /\ Start(to) = Start(map)
           /\ \A b, n : Clears(map, key, b, n) => Holds(to, b, n)
<1>1. map \in MapRec /\ map.used <= map.pool /\ RecordsGood(map) /\ ChunksGood(map)
  BY DEF Good
<1>2. PICK es : es = Without(map.entries, key)
  OBVIOUS
<1>3. /\ DOMAIN map.entries \subseteq Keys /\ \A k \in DOMAIN map.entries : map.entries[k] \in EntryRec
      /\ map.table \in Nat /\ map.pool \in Nat /\ map.used \in Nat /\ map.free \in Seq(ChunkRec)
  BY <1>1, MapParts
<1>4. PICK K \in SUBSET Keys : K = DOMAIN map.entries \ {key}
  BY <1>3
<1>5. /\ es \in [K -> EntryRec] /\ DOMAIN es = K
      /\ \A k \in K : k \in DOMAIN map.entries /\ es[k] = map.entries[k]
  BY <1>2, <1>3, <1>4 DEF Without
<1>6. /\ to.entries = es /\ to.table = map.table /\ to.pool = map.pool /\ to.used = map.used /\ to.free = map.free
      /\ to = [entries |-> es, table |-> map.table, pool |-> map.pool, used |-> map.used, free |-> map.free]
  BY <1>1, <1>2, MapIs
<1>7. to \in MapRec
  BY <1>3, <1>5, <1>6, MapMade
<1>8. Start(to) = Start(map) /\ \A a, n : Inside(to, a, n) <=> Inside(map, a, n)
  BY <1>6 DEF Start, Inside
<1>9. RecordsGood(to)
  <2>1. ASSUME NEW k \in K, NEW l \in K
        PROVE  /\ es[k].at # NoRecord => Inside(to, es[k].at, AlignUp(es[k].len))
               /\ es[k].keyAt # NoRecord => Inside(to, es[k].keyAt, KeyBytes)
               /\ es[k].at # NoRecord /\ es[l].keyAt # NoRecord => Apart(es[k].at, AlignUp(es[k].len), es[l].keyAt, KeyBytes)
               /\ k # l /\ es[k].at # NoRecord /\ es[l].at # NoRecord =>
                     Apart(es[k].at, AlignUp(es[k].len), es[l].at, AlignUp(es[l].len))
               /\ k # l /\ es[k].keyAt # NoRecord /\ es[l].keyAt # NoRecord =>
                     Apart(es[k].keyAt, KeyBytes, es[l].keyAt, KeyBytes)
    <3>1. /\ es[k] = map.entries[k] /\ es[l] = map.entries[l]
          /\ k \in DOMAIN map.entries /\ l \in DOMAIN map.entries
      BY <1>5
    <3> QED
      BY <1>1, <1>8, <3>1, Zenon DEF RecordsGood
  <2> QED
    BY <1>5, <1>6, <2>1, ZenonT(60) DEF RecordsGood
<1>10. ChunksGood(to)
  <2>1. \A i \in DOMAIN map.free :
          /\ Inside(to, map.free[i].at, map.free[i].len)
          /\ \A j \in DOMAIN map.free : i # j => Apart(map.free[i].at, map.free[i].len, map.free[j].at, map.free[j].len)
    BY <1>1, <1>8, Zenon DEF ChunksGood
  <2>2. ASSUME NEW i \in DOMAIN map.free, NEW k \in K
        PROVE  /\ es[k].at # NoRecord => Apart(map.free[i].at, map.free[i].len, es[k].at, AlignUp(es[k].len))
               /\ es[k].keyAt # NoRecord => Apart(map.free[i].at, map.free[i].len, es[k].keyAt, KeyBytes)
    BY <1>1, <1>5, Zenon DEF ChunksGood
  <2> QED
    BY <1>5, <1>6, <2>1, <2>2, Zenon DEF ChunksGood
<1>11. ASSUME NEW b, NEW n, Clears(map, key, b, n)
       PROVE  Holds(to, b, n)
  <2>1. Inside(to, b, n) /\ \A i \in DOMAIN map.free : Apart(b, n, map.free[i].at, map.free[i].len)
    BY <1>8, <1>11, Zenon DEF Clears
  <2>2. ASSUME NEW k \in K
        PROVE  /\ es[k].at # NoRecord => Apart(b, n, es[k].at, AlignUp(es[k].len))
               /\ es[k].keyAt # NoRecord => Apart(b, n, es[k].keyAt, KeyBytes)
    <3>1. k \in DOMAIN map.entries \ {key} /\ es[k] = map.entries[k]
      BY <1>4, <1>5
    <3> QED
      BY <1>11, <3>1, Zenon DEF Clears
  <2> QED
    BY <1>5, <1>6, <2>1, <2>2, Zenon DEF Holds
<1>12. Good(to)
  BY <1>1, <1>6, <1>7, <1>9, <1>10 DEF Good
<1> QED
  BY <1>4, <1>5, <1>6, <1>8, <1>11, <1>12

-----------------------------------------------------------------------------
(* Changing, adding and removing entries *)

LEMMA EntryParts ==
    ASSUME NEW e \in EntryRec
    PROVE  /\ e.at \in Nat /\ e.len \in Nat /\ e.keyAt \in Nat /\ e.type \in Kinds
           /\ AlignUp(e.len) \in Nat /\ AlignUp(AlignUp(e.len)) = AlignUp(e.len)
<1>1. e.at \in Nat /\ e.len \in Nat /\ e.keyAt \in Nat /\ e.type \in Kinds
  BY DEF EntryRec
<1> QED
  BY <1>1, Aligned

(* A record that has moved is a record.                                    *)
LEMMA MovedRecord ==
    ASSUME NEW map, Good(map), NEW to, Follows(map, to), NEW key \in DOMAIN map.entries
    PROVE  /\ key \in DOMAIN to.entries /\ to.entries[key] \in EntryRec
           /\ to.entries[key].len = map.entries[key].len
           /\ map.entries[key].at # NoRecord =>
                /\ to.entries[key].at # NoRecord
                /\ to.entries[key].at = map.entries[key].at + Start(to) - Start(map)
<1>1. Good(to) /\ DOMAIN to.entries = DOMAIN map.entries
  BY Zenon DEF Follows
<1>2. to.entries[key].at = Shift(map, to, map.entries[key].at) /\ to.entries[key].len = map.entries[key].len
  BY Zenon DEF Follows
<1>3. /\ to.entries[key] \in EntryRec /\ map.entries[key].at \in Nat /\ AlignUp(map.entries[key].len) \in Nat
      /\ Start(map) \in Nat /\ Start(to) \in Nat /\ Start(to) > NoRecord
  BY <1>1, MapParts DEF Good
<1>4. ASSUME map.entries[key].at # NoRecord
      PROVE  /\ to.entries[key].at # NoRecord
             /\ to.entries[key].at = map.entries[key].at + Start(to) - Start(map)
  <2>1. Inside(map, map.entries[key].at, AlignUp(map.entries[key].len))
    BY <1>4, Zenon DEF Good, RecordsGood
  <2>2. Start(map) <= map.entries[key].at
    BY <2>1, Zenon DEF Inside
  <2> QED
    BY <1>2, <1>3, <1>4, <2>2 DEF Shift, NoRecord
<1> QED
  BY <1>1, <1>2, <1>3, <1>4

(* A map after an entry got another record: nobody has the old one.        *)
Releases(map, to, key) ==
    /\ Good(to) /\ Start(to) = Start(map) /\ DOMAIN to.entries = DOMAIN map.entries
    /\ map.entries[key].at # NoRecord => Holds(to, map.entries[key].at, AlignUp(map.entries[key].len))

(* A new record for an entry, in bytes that nobody has: the old record is  *)
(* then nobody's.                                                          *)
LEMMA RerecordedGood ==
    ASSUME NEW map, Good(map), NEW key \in DOMAIN map.entries,
           NEW at \in Nat, NEW len \in Nat, NEW type \in Kinds, Holds(map, at, AlignUp(len)),
           NEW new, new = [map.entries[key] EXCEPT !.at = at, !.len = len, !.type = type],
           NEW to, to = [map EXCEPT !.entries = With(@, key, new)]
    PROVE  Releases(map, to, key)
<1>1. key \in Keys /\ map.entries[key] \in EntryRec /\ AlignUp(len) \in Nat /\ KeyBytes \in Nat
  BY MapParts, Aligned DEF Good
<1>2. PICK e \in EntryRec : e = map.entries[key]
  BY <1>1
<1>3. new \in EntryRec /\ new.at = at /\ new.len = len /\ new.keyAt = e.keyAt
  BY <1>2 DEF EntryRec
<1>4. Clears(map, key, at, AlignUp(len)) /\ Beside(e, at, AlignUp(len)) /\ Fits(map, key, e)
  BY <1>2, EntryFits, Zenon
<1>5. Fits(map, key, new)
  BY <1>3, <1>4, Zenon DEF Fits, Beside
<1>6. /\ Good(to) /\ DOMAIN to.entries = DOMAIN map.entries \cup {key} /\ Start(to) = Start(map)
      /\ \A b, n : Clears(map, key, b, n) /\ Beside(new, b, n) => Holds(to, b, n)
  <2>1. Sets(map, to, key, new)
    BY <1>1, <1>3, <1>5, WithGood
  <2> QED
    BY <1>3, <2>1, Zenon DEF Sets
<1>7. ASSUME e.at # NoRecord PROVE Holds(to, e.at, AlignUp(e.len))
  <2>1. Clears(map, key, e.at, AlignUp(e.len)) /\ (e.keyAt # NoRecord => Apart(e.at, AlignUp(e.len), e.keyAt, KeyBytes))
    BY <1>4, <1>7, Zenon DEF Fits
  <2>2. Apart(at, AlignUp(len), e.at, AlignUp(e.len))
    BY <1>4, <1>7, Zenon DEF Beside
  <2>3. Apart(e.at, AlignUp(e.len), at, AlignUp(len))
    BY <1>1, <2>2, EntryParts, ApartBoth
  <2>4. Beside(new, e.at, AlignUp(e.len))
    BY <1>3, <2>1, <2>3, Zenon DEF Beside
  <2> QED
    BY <1>6, <2>1, <2>4
<1> QED
  BY <1>2, <1>6, <1>7 DEF Releases

(* A record whose length is written anew, within what it has               *)
LEMMA RelengthenedGood ==
    ASSUME NEW map, Good(map), NEW key \in DOMAIN map.entries,
           NEW len \in Nat, AlignUp(len) = AlignUp(map.entries[key].len),
           NEW to, to = [map EXCEPT !.entries = With(@, key, [map.entries[key] EXCEPT !.len = len])]
    PROVE  Good(to)
<1>1. key \in Keys /\ map.entries[key] \in EntryRec
  BY MapParts DEF Good
<1>2. PICK e \in EntryRec : e = map.entries[key]
  BY <1>1
<1>3. PICK new \in EntryRec : /\ new = [e EXCEPT !.len = len]
                              /\ new.at = e.at /\ new.len = len /\ new.keyAt = e.keyAt
  BY <1>2 DEF EntryRec
<1>4. Fits(map, key, e)
  BY <1>2, EntryFits, Zenon
<1>5. Fits(map, key, new)
  BY <1>2, <1>3, <1>4, Zenon DEF Fits
<1>6. to = [map EXCEPT !.entries = With(@, key, new)]
  BY <1>2, <1>3
<1>7. Sets(map, to, key, new)
  BY <1>1, <1>5, <1>6, WithGood
<1> QED
  BY <1>7, Zenon DEF Sets

(* _assignValueAt()                                                        *)
LEMMA AssignedGood ==
    ASSUME NEW map, Good(map), NEW key \in DOMAIN map.entries, NEW v \in Values, NEW copy,
           NEW s, s = Assigned(map, key, v, copy)
    PROVE  Good(s.map)
<1>1. v.content \in Nat /\ v.type \in Kinds
  <2>1. \A w \in [type : STRING, content : Nat] : w.type \in STRING /\ w.content \in Nat
    OBVIOUS
  <2> QED
    BY <2>1, SizesAssumption DEF Kinds
<1>2. PICK e \in EntryRec : e = map.entries[key]
  BY MapParts DEF Good
<1>3. PICK r : r = AppendRecord(map, v.content)
  OBVIOUS
<1>4. Takes(map, r, AlignUp(RecHeader + v.content))
  BY <1>1, <1>3, AppendRecordGood
<1>5. PICK new : new = [r.map.entries[key] EXCEPT !.at = r.at, !.len = RecHeader + v.content, !.type = v.type]
  OBVIOUS
<1>6. PICK to : to = [r.map EXCEPT !.entries = With(@, key, new)]
  OBVIOUS
<1>7. PICK old : old = e.at + Start(to) - Start(map)
  OBVIOUS
<1>8. s = IF v.type = "none" THEN [map |-> map, ok |-> TRUE]
          ELSE IF InPlace(e, v) /\ ~copy
          THEN [map |-> [map EXCEPT !.entries = With(@, key, [e EXCEPT !.len = AlignUp(e.len)])], ok |-> TRUE]
          ELSE IF r.at = NoRecord THEN [map |-> map, ok |-> FALSE]
          ELSE [map |-> IF e.at = NoRecord THEN to ELSE Freed(to, old, AlignUp(e.len)), ok |-> TRUE]
  BY <1>2, <1>3, <1>5, <1>6, <1>7, Zenon DEF Assigned
<1>9. Good([map EXCEPT !.entries = With(@, key, [e EXCEPT !.len = AlignUp(e.len)])])
  <2>1. AlignUp(e.len) \in Nat /\ AlignUp(AlignUp(e.len)) = AlignUp(e.len)
    BY EntryParts
  <2> QED
    BY <1>2, <2>1, RelengthenedGood
<1>10. ASSUME r.at # NoRecord
       PROVE  Good(IF e.at = NoRecord THEN to ELSE Freed(to, old, AlignUp(e.len)))
  <2>1. /\ Follows(map, r.map) /\ Good(r.map) /\ r.at \in Nat
        /\ Holds(r.map, r.at, AlignUp(RecHeader + v.content))
    BY <1>4, <1>10, Zenon DEF Takes, Follows
  <2>2. /\ key \in DOMAIN r.map.entries /\ r.map.entries[key].len = e.len
        /\ e.at # NoRecord => r.map.entries[key].at # NoRecord /\ r.map.entries[key].at = e.at + Start(r.map) - Start(map)
    BY <1>2, <2>1, MovedRecord
  <2>3. PICK len \in Nat : len = RecHeader + v.content
    BY <1>1 DEF RecHeader
  <2>4. Holds(r.map, r.at, AlignUp(len)) /\ new = [r.map.entries[key] EXCEPT !.at = r.at, !.len = len, !.type = v.type]
    BY <1>5, <2>1, <2>3
  <2>5. /\ Good(to) /\ Start(to) = Start(r.map)
        /\ r.map.entries[key].at # NoRecord => Holds(to, r.map.entries[key].at, AlignUp(e.len))
    <3>1. PICK at \in Nat, type \in Kinds : at = r.at /\ type = v.type
      BY <1>1, <2>1
    <3>2. new = [r.map.entries[key] EXCEPT !.at = at, !.len = len, !.type = type]
      BY <2>4, <3>1, Zenon
    <3>3. Holds(r.map, at, AlignUp(len))
      BY <2>4, <3>1
    <3>4. PICK base : base = r.map
      OBVIOUS
    <3>5. /\ Good(base) /\ key \in DOMAIN base.entries /\ Holds(base, at, AlignUp(len))
          /\ new = [base.entries[key] EXCEPT !.at = at, !.len = len, !.type = type]
          /\ to = [base EXCEPT !.entries = With(base.entries, key, new)]
      BY <1>6, <2>1, <2>2, <3>2, <3>3, <3>4
    <3>6. Releases(base, to, key)
      BY <3>5, RerecordedGood
    <3> QED
      BY <2>2, <3>6, <3>4, Zenon DEF Releases
  <2>6. ASSUME e.at # NoRecord PROVE Good(Freed(to, old, AlignUp(e.len)))
    <3>1. old = r.map.entries[key].at /\ Holds(to, old, AlignUp(e.len))
      BY <1>7, <2>2, <2>5, <2>6
    <3>2. old \in Nat /\ AlignUp(e.len) \in Nat
      BY <2>1, <2>2, <3>1, MovedRecord, EntryParts
    <3> QED
      BY <2>5, <3>1, <3>2, FreedGood
  <2> QED
    BY <2>5, <2>6
<1>11. CASE v.type = "none"
  <2>1. s = [map |-> map, ok |-> TRUE]
    BY <1>8, <1>11
  <2> QED
    BY <2>1
<1>12. CASE v.type # "none" /\ InPlace(e, v) /\ ~copy
  <2>1. PICK to2 : to2 = [map EXCEPT !.entries = With(@, key, [e EXCEPT !.len = AlignUp(e.len)])]
    OBVIOUS
  <2>2. s = [map |-> to2, ok |-> TRUE]
    BY <1>8, <1>12, <2>1
  <2> QED
    BY <1>9, <2>1, <2>2
<1>13. CASE v.type # "none" /\ ~ (InPlace(e, v) /\ ~copy) /\ r.at = NoRecord
  <2>1. s = [map |-> map, ok |-> FALSE]
    BY <1>8, <1>13
  <2> QED
    BY <2>1
<1>14. CASE v.type # "none" /\ ~ (InPlace(e, v) /\ ~copy) /\ r.at # NoRecord
  <2>1. PICK to2 : to2 = IF e.at = NoRecord THEN to ELSE Freed(to, old, AlignUp(e.len))
    OBVIOUS
  <2>2. s = [map |-> to2, ok |-> TRUE]
    BY <1>8, <1>14, <2>1
  <2> QED
    BY <1>10, <1>14, <2>1, <2>2
<1> QED
  BY <1>11, <1>12, <1>13, <1>14

(* An entry without a record, its long key in bytes that nobody has        *)
LEMMA KeyedGood ==
    ASSUME NEW map, Good(map), NEW key \in Keys, key \notin DOMAIN map.entries,
           NEW at \in Nat, at # NoRecord => Holds(map, at, KeyBytes),
           NEW to, to = [map EXCEPT !.entries = With(@, key, [Unset EXCEPT !.keyAt = at])]
    PROVE  Good(to) /\ key \in DOMAIN to.entries
<1>1. PICK e \in EntryRec : e = [Unset EXCEPT !.keyAt = at] /\ e.at = NoRecord /\ e.keyAt = at
  BY DEF EntryRec, Unset, Kinds, NoRecord
<1>2. Fits(map, key, e)
  BY <1>1, EntryFits, Zenon DEF Fits
<1>3. to = [map EXCEPT !.entries = With(@, key, e)]
  BY <1>1
<1>4. Sets(map, to, key, e)
  BY <1>2, <1>3, WithGood
<1> QED
  BY <1>4 DEF Sets

LEMMA UnsetGood ==
    ASSUME NEW map, Good(map), NEW key \in Keys, key \notin DOMAIN map.entries,
           NEW to, to = [map EXCEPT !.entries = With(@, key, Unset)]
    PROVE  Good(to) /\ key \in DOMAIN to.entries
<1>1. NoRecord \in Nat /\ Unset = [Unset EXCEPT !.keyAt = NoRecord]
  BY DEF NoRecord, Unset
<1> QED
  BY <1>1, KeyedGood

(* _insertNew()                                                            *)
LEMMA InsertedGood ==
    ASSUME NEW map, Good(map), NEW key \in Keys, key \notin DOMAIN map.entries, NEW v \in Values,
           NEW to, to = Inserted(map, key, v)
    PROVE  Good(to)
<1>1. PICK slot : slot = EnsureSlot(map)
  OBVIOUS
<1>2. Follows(map, slot) /\ Good(slot) /\ key \notin DOMAIN slot.entries
  BY <1>1, EnsureSlotFollows DEF Follows
<1>3. PICK k : k = AppendPayload(slot, KeyLength + 1)
  OBVIOUS
<1>4. Takes(slot, k, KeyBytes)
  BY <1>2, <1>3, AppendPayloadGood, SizesAssumption DEF KeyBytes
<1>5. PICK keyed : keyed = IF key \notin Spilled THEN [slot EXCEPT !.entries = With(@, key, Unset)]
                           ELSE [k.map EXCEPT !.entries = With(@, key, [Unset EXCEPT !.keyAt = k.at])]
  OBVIOUS
<1>6. Good(keyed) /\ key \in DOMAIN keyed.entries
  <2>1. CASE key \notin Spilled
    BY <1>2, <1>5, <2>1, UnsetGood
  <2>2. CASE key \in Spilled
    <3>1. /\ Good(k.map) /\ k.at \in Nat /\ key \notin DOMAIN k.map.entries
          /\ k.at # NoRecord => Holds(k.map, k.at, KeyBytes)
      BY <1>2, <1>4 DEF Takes, Follows
    <3>2. keyed = [k.map EXCEPT !.entries = With(@, key, [Unset EXCEPT !.keyAt = k.at])]
      BY <1>5, <2>2
    <3> QED
      BY <3>1, <3>2, KeyedGood
  <2> QED
    BY <2>1, <2>2
<1>7. PICK r : r = Assigned(keyed, key, v, FALSE)
  OBVIOUS
<1>8. Good(r.map)
  BY <1>6, <1>7, AssignedGood
<1>9. Good([r.map EXCEPT !.entries = Without(@, key)])
  BY <1>8, WithoutGood
<1>10. to = IF (~HasSlot(map) /\ fixed) \/ (key \in Spilled /\ k.at = NoRecord) THEN map
            ELSE IF r.ok THEN r.map
            ELSE [r.map EXCEPT !.entries = Without(@, key)]
  BY <1>1, <1>3, <1>5, <1>7, Zenon DEF Inserted
<1> QED
  BY <1>8, <1>9, <1>10, Zenon

(* erase(), and _reclaimEntryPayload()                                     *)
LEMMA ReclaimedGood ==
    ASSUME NEW map, Good(map), NEW key \in DOMAIN map.entries,
           NEW to, to = Reclaimed([map EXCEPT !.entries = Without(@, key)], map.entries[key])
    PROVE  Good(to)
<1>1. PICK e \in EntryRec : e = map.entries[key]
  BY MapParts DEF Good
<1>2. e.at \in Nat /\ e.keyAt \in Nat /\ AlignUp(e.len) \in Nat /\ KeyBytes \in Nat
  BY EntryParts, MapParts DEF Good
<1>3. PICK rest : rest = [map EXCEPT !.entries = Without(@, key)]
  OBVIOUS
<1>4. Good(rest) /\ \A b, n : Clears(map, key, b, n) => Holds(rest, b, n)
  BY <1>3, WithoutGood
<1>5. Fits(map, key, e)
  BY <1>1, EntryFits, Zenon
<1>6. PICK value : value = IF e.at = NoRecord THEN rest ELSE Freed(rest, e.at, AlignUp(e.len))
  OBVIOUS
<1>7. Good(value) /\ (e.keyAt # NoRecord => Holds(value, e.keyAt, KeyBytes))
  <2>1. e.keyAt # NoRecord => Holds(rest, e.keyAt, KeyBytes)
    BY <1>4, <1>5, Zenon DEF Fits
  <2>2. CASE e.at = NoRecord
    BY <1>4, <1>6, <2>1, <2>2
  <2>3. CASE e.at # NoRecord
    <3>1. Holds(rest, e.at, AlignUp(e.len))
      BY <1>4, <1>5, <2>3, Zenon DEF Fits
    <3>2. value = Freed(rest, e.at, AlignUp(e.len))
      BY <1>6, <2>3
    <3>3. /\ Good(value)
          /\ \A b, n \in Nat : Holds(rest, b, n) /\ Apart(b, n, e.at, AlignUp(e.len)) => Holds(value, b, n)
      BY <1>2, <1>4, <3>1, <3>2, FreedGood
    <3>4. e.keyAt # NoRecord => Apart(e.at, AlignUp(e.len), e.keyAt, KeyBytes)
      BY <1>5, <2>3, Zenon DEF Fits
    <3>5. e.keyAt # NoRecord => Apart(e.keyAt, KeyBytes, e.at, AlignUp(e.len))
      BY <1>2, <3>4, ApartBoth, Zenon
    <3> QED
      BY <1>2, <2>1, <3>3, <3>5, Zenon
  <2> QED
    BY <2>2, <2>3
<1>8. to = IF e.keyAt = NoRecord THEN value ELSE Freed(value, e.keyAt, KeyBytes)
  BY <1>1, <1>3, <1>6 DEF Reclaimed, KeyBytes
<1> QED
  BY <1>2, <1>7, <1>8, FreedGood

-----------------------------------------------------------------------------
(* Merging *)

SourceRec == [key : Keys, type : STRING, len : Nat]

LEMMA GrowthType ==
    ASSUME NEW src \in Seq(SourceRec)
    PROVE  Growth(src) \in Nat
<1> DEFINE n == Len(src)
           more == [i \in 1..n |-> src[i].len + (IF src[i].key \in Spilled THEN KeyLength ELSE 0)]
           Body(f) == [i \in 0..n |-> IF i = 0 THEN 0
                                      ELSE f[i - 1] + src[i].len + (IF src[i].key \in Spilled THEN KeyLength ELSE 0)]
           bytes == CHOOSE f : f = Body(f)
<1>1. n \in Nat /\ KeyLength \in Nat /\ \A i \in 1..n : src[i].len \in Nat
  <2>1. \A i \in 1..n : src[i] \in SourceRec
    OBVIOUS
  <2>2. \A e \in SourceRec : e.len \in Nat
    BY DEF SourceRec
  <2> QED
    BY <2>1, <2>2, SizesAssumption
<1>2. more \in [1..n -> Nat]
  BY <1>1
<1>3. PICK step : step = [i \in 1..n |-> [x \in Nat |-> x + more[i]]]
  OBVIOUS
<1>4. step \in [1..n -> [Nat -> Nat]]
  <2> HIDE DEF more
  <2> QED
    BY <1>2, <1>3, SMTT(60)
<1>5. PICK f \in [0..n -> Nat] : f[0] = 0 /\ \A i \in 1..n : f[i] = step[i][f[i - 1]]
  <2>1. n \in Nat /\ 0 \in Nat
    BY <1>1
  <2> HIDE DEF n, more
  <2>2. Steps(Nat, n, 0, step)
    BY <1>4, <2>1, StepsExist, Zenon
  <2> QED
    BY <2>2, Zenon DEF Steps
<1>6. \A i \in 0..n : i # 0 => i \in 1..n /\ i - 1 \in 0..n
  BY <1>1
<1>7. \A i \in 0..n : i # 0 => f[i] = f[i - 1] + src[i].len + (IF src[i].key \in Spilled THEN KeyLength ELSE 0)
  <2> SUFFICES ASSUME NEW i \in 0..n, i # 0
               PROVE  f[i] = f[i - 1] + src[i].len + (IF src[i].key \in Spilled THEN KeyLength ELSE 0)
    OBVIOUS
  <2>1. i \in 1..n /\ f[i - 1] \in Nat /\ src[i].len \in Nat
    BY <1>1, <1>6
  <2>2. f[i] = f[i - 1] + more[i]
    <3> HIDE DEF more
    <3> QED
      BY <1>3, <1>5, <2>1
  <2>3. more[i] = src[i].len + (IF src[i].key \in Spilled THEN KeyLength ELSE 0)
    BY <2>1
  <2> HIDE DEF more
  <2> QED
    BY <1>1, <2>1, <2>2, <2>3
<1>8. f = Body(f)
  BY <1>5, <1>7
<1>9. bytes = Body(bytes)
  <2> HIDE DEF Body
  <2> QED
    BY <1>8, Zenon
<1>10. Growth(src) = bytes[n]
  BY DEF Growth
<1> HIDE DEF bytes
<1>11. bytes[0] \in Nat
  BY <1>1, <1>9
<1>12. \A i \in 1..n : bytes[i] = bytes[i - 1] + src[i].len + (IF src[i].key \in Spilled THEN KeyLength ELSE 0)
  BY <1>1, <1>9
<1>13. ASSUME NEW i \in 1..n, bytes[i - 1] \in Nat PROVE bytes[i] \in Nat
  <2>1. PICK more1 \in Nat : more1 = IF src[i].key \in Spilled THEN KeyLength ELSE 0
    BY <1>1
  <2>2. bytes[i] = bytes[i - 1] + src[i].len + more1
    BY <1>12, <2>1
  <2>3. src[i].len \in Nat
    BY <1>1
  <2> QED
    BY <1>13, <2>1, <2>2, <2>3
<1>14. \A i \in 0..n : bytes[i] \in Nat
  <2>1. PICK S : S = Nat
    OBVIOUS
  <2> HIDE DEF n, Body
  <2>2. \A i \in 0..n : bytes[i] \in S
    BY <1>1, <1>11, <1>13, <2>1, StepsStay
  <2> QED
    BY <2>1, <2>2
<1> QED
  BY <1>1, <1>10, <1>14

(* What merge() has so far                                                 *)
Progress == {a \in [map : MapRec, ok : BOOLEAN] : Good(a.map)}

LEMMA MergedOneGood ==
    ASSUME NEW acc \in Progress, NEW e \in SourceRec,
           AlignUp(e.len) = e.len, e.key \notin Spilled,
           NEW s, s = MergedOne(acc, e)
    PROVE  s \in Progress
<1>1. Good(acc.map) /\ e.key \in Keys /\ e.len \in Nat /\ e.type \in Kinds
  BY DEF Progress, SourceRec, Kinds
<1>2. PICK map : map = acc.map
  OBVIOUS
<1>3. PICK slot : slot = EnsureSlot(map)
  OBVIOUS
<1>4. Good(map) /\ Follows(map, slot) /\ Good(slot) /\ DOMAIN slot.entries = DOMAIN map.entries
  BY <1>1, <1>2, <1>3, EnsureSlotFollows DEF Follows
<1>5. PICK keyed : keyed = [slot EXCEPT !.entries = With(@, e.key, Unset)]
  OBVIOUS
<1>6. PICK r : r = AppendPayload(keyed, e.len)
  OBVIOUS
<1>7. PICK new : new = [r.map.entries[e.key] EXCEPT !.at = r.at, !.len = e.len, !.type = e.type]
  OBVIOUS
<1>8. s = IF ~acc.ok \/ e.key \in DOMAIN map.entries THEN acc
          ELSE IF ~HasSlot(map) /\ fixed
          THEN [map |-> map, ok |-> FALSE]
          ELSE IF r.at = NoRecord
          THEN [map |-> [r.map EXCEPT !.entries = Without(@, e.key)], ok |-> FALSE]
          ELSE [map |-> [r.map EXCEPT !.entries = With(@, e.key, new)], ok |-> TRUE]
  BY <1>2, <1>3, <1>5, <1>6, <1>7, Zenon DEF MergedOne
<1>9. \A to, b : Good(to) /\ b \in BOOLEAN => [map |-> to, ok |-> b] \in Progress
  BY DEF Progress, Good
<1>10. CASE ~acc.ok \/ e.key \in DOMAIN map.entries
  BY <1>8, <1>10
<1>11. CASE acc.ok /\ e.key \notin DOMAIN map.entries /\ ~HasSlot(map) /\ fixed
  <2>1. s = [map |-> map, ok |-> FALSE]
    BY <1>8, <1>11
  <2> QED
    BY <1>4, <1>9, <2>1
<1>12. CASE acc.ok /\ e.key \notin DOMAIN map.entries /\ ~ (~HasSlot(map) /\ fixed)
  <2>1. Good(keyed) /\ e.key \in DOMAIN keyed.entries
    <3>1. e.key \notin DOMAIN slot.entries
      BY <1>4, <1>12
    <3> QED
      BY <1>1, <1>4, <1>5, <3>1, UnsetGood
  <2>2. Takes(keyed, r, e.len)
    BY <1>1, <1>6, <2>1, AppendPayloadGood
  <2>3. Good(r.map) /\ e.key \in DOMAIN r.map.entries /\ r.at \in Nat /\ (r.at # NoRecord => Holds(r.map, r.at, AlignUp(e.len)))
    BY <2>1, <2>2 DEF Takes, Follows
  <2>4. CASE r.at = NoRecord
    <3>1. PICK to : to = [r.map EXCEPT !.entries = Without(@, e.key)]
      OBVIOUS
    <3>2. s = [map |-> to, ok |-> FALSE]
      BY <1>8, <1>12, <2>4, <3>1
    <3>3. Good(to)
      BY <2>3, <3>1, WithoutGood
    <3> QED
      BY <1>9, <3>2, <3>3
  <2>5. CASE r.at # NoRecord
    <3>1. PICK to : to = [r.map EXCEPT !.entries = With(@, e.key, new)]
      OBVIOUS
    <3>2. s = [map |-> to, ok |-> TRUE]
      BY <1>8, <1>12, <2>5, <3>1
    <3>3. PICK at \in Nat, len \in Nat, type \in Kinds : at = r.at /\ len = e.len /\ type = e.type
      BY <1>1, <2>3
    <3>4. PICK base : base = r.map
      OBVIOUS
    <3>5. PICK key : key = e.key
      OBVIOUS
    <3>6. /\ Good(base) /\ key \in DOMAIN base.entries /\ Holds(base, at, AlignUp(len))
          /\ new = [base.entries[key] EXCEPT !.at = at, !.len = len, !.type = type]
          /\ to = [base EXCEPT !.entries = With(base.entries, key, new)]
      BY <1>7, <2>3, <2>5, <3>1, <3>3, <3>4, <3>5
    <3>7. Releases(base, to, key)
      BY <3>6, RerecordedGood
    <3>8. Good(to)
      BY <3>7 DEF Releases
    <3> QED
      BY <1>9, <3>2, <3>8
  <2> QED
    BY <2>4, <2>5
<1> QED
  BY <1>10, <1>11, <1>12

(* merge()                                                                 *)
LEMMA MergedGood ==
    ASSUME MergedWhole, NEW map, Good(map), NEW src \in Sources,
           NEW to, to = Merged(map, src)
    PROVE  Good(to)
<1> DEFINE n == Len(src)
<1>1. src \in Seq(SourceRec) /\ n \in Nat
  <2>1. Sources \subseteq Seq(SourceRec)
    BY SizesAssumption, Zenon DEF SourceRec
  <2> QED
    BY <2>1
<1>2. \A i \in 1..n : src[i] \in SourceRec /\ AlignUp(src[i].len) = src[i].len /\ src[i].key \notin Spilled
  BY <1>1 DEF MergedWhole
<1>3. PICK roomy : roomy = Reserved(map, Count(map) + n, map.used + Growth(src))
  OBVIOUS
<1>4. Good(roomy)
  <2>1. Count(map) \in Nat /\ map.used \in Nat /\ Growth(src) \in Nat
    BY <1>1, MapParts, GrowthType DEF Good
  <2>2. Count(map) + n \in Nat /\ map.used + Growth(src) \in Nat
    BY <1>1, <2>1
  <2>3. Follows(map, roomy)
    BY <1>3, <2>2, ReservedFollows
  <2> QED
    BY <2>3 DEF Follows
<1>5. PICK first \in Progress : first = [map |-> roomy, ok |-> TRUE]
  BY <1>4 DEF Progress, Good
<1> DEFINE step == [i \in 1..n |-> [a \in Progress |-> MergedOne(a, src[i])]]
           Body(f) == [i \in 0..n |-> IF i = 0 THEN [map |-> roomy, ok |-> TRUE] ELSE MergedOne(f[i - 1], src[i])]
           upto == CHOOSE f : f = Body(f)
<1>6. \A i \in 1..n : \A a \in Progress : MergedOne(a, src[i]) \in Progress
  BY <1>2, MergedOneGood
<1>7. step \in [1..n -> [Progress -> Progress]]
  BY <1>6
<1>8. PICK f \in [0..n -> Progress] : f[0] = first /\ \A i \in 1..n : f[i] = step[i][f[i - 1]]
  <2> HIDE DEF n, step
  <2>1. Steps(Progress, n, first, step)
    BY <1>1, <1>7, StepsExist, Zenon
  <2> QED
    BY <2>1, Zenon DEF Steps
<1>9. \A i \in 0..n : i # 0 => i \in 1..n /\ i - 1 \in 0..n
  BY <1>1
<1>10. \A i \in 0..n : i # 0 => f[i] = MergedOne(f[i - 1], src[i])
  <2> SUFFICES ASSUME NEW i \in 0..n, i # 0 PROVE f[i] = MergedOne(f[i - 1], src[i])
    OBVIOUS
  <2>1. i \in 1..n /\ f[i - 1] \in Progress
    BY <1>9
  <2>2. \A a \in Progress : step[i][a] = MergedOne(a, src[i])
    BY <2>1
  <2> HIDE DEF step
  <2> QED
    BY <1>8, <2>1, <2>2
<1>11. f = Body(f)
  <2>1. \A i \in 0..n : f[i] = IF i = 0 THEN [map |-> roomy, ok |-> TRUE] ELSE MergedOne(f[i - 1], src[i])
    BY <1>5, <1>8, <1>10
  <2> QED
    BY <2>1
<1>12. upto = Body(upto)
  <2> HIDE DEF Body
  <2> QED
    BY <1>11, Zenon
<1>13. to = upto[n].map
  BY <1>3 DEF Merged
<1> HIDE DEF upto
<1>14. \A i \in 0..n : upto[i] = IF i = 0 THEN first ELSE MergedOne(upto[i - 1], src[i])
  <2> HIDE DEF n
  <2>1. upto = [i \in 0..n |-> IF i = 0 THEN first ELSE MergedOne(upto[i - 1], src[i])]
    BY <1>5, <1>12
  <2> QED
    BY <2>1, Zenon
<1>15. upto[0] \in Progress
  BY <1>1, <1>14
<1>16. \A i \in 1..n : upto[i] = MergedOne(upto[i - 1], src[i])
  BY <1>1, <1>14
<1>17. \A i \in 1..n : upto[i - 1] \in Progress => upto[i] \in Progress
  BY <1>6, <1>16
<1>18. \A i \in 0..n : upto[i] \in Progress
  <2> HIDE DEF n, Body
  <2> QED
    BY <1>1, <1>15, <1>17, StepsStay
<1>19. upto[n] \in Progress
  BY <1>1, <1>18
<1> QED
  BY <1>13, <1>19 DEF Progress

-----------------------------------------------------------------------------
(* Views *)

(* Bytes from a position of the pool that is not used yet                  *)
LEMMA BeyondGood ==
    ASSUME NEW map, Good(map), NEW from \in Nat, NEW n \in Nat, map.used <= from,
           NEW r, r = Beyond(map, from, n), r.ok
    PROVE  /\ Good(r.map) /\ r.map.entries = map.entries
           /\ r.at \in Nat /\ r.at # NoRecord /\ Holds(r.map, r.at, n)
<1>1. PICK after : after = [map EXCEPT !.used = from + n]
  OBVIOUS
<1>2. r.map = after /\ r.at = Start(map) + from /\ from + n <= map.pool
  BY <1>1 DEF Beyond
<1>3. Start(map) \in Nat /\ Start(map) > 0 /\ map.used \in Nat /\ from + n \in Nat /\ map.used <= from + n
  BY MapParts DEF Good, NoRecord
<1>4. /\ Follows(map, after) /\ after.entries = map.entries
      /\ \A x, k \in Nat : Start(map) + map.used <= x /\ x + k <= Start(map) + (from + n) => Holds(after, x, k)
  BY <1>1, <1>2, <1>3, UsedUp
<1>5. PICK at \in Nat : at = Start(map) + from
  BY <1>3
<1>6. at # 0 /\ Start(map) + map.used <= at /\ at + n <= Start(map) + (from + n)
  BY <1>3, <1>5
<1>7. Holds(after, at, n)
  BY <1>4, <1>6
<1> QED
  BY <1>2, <1>4, <1>5, <1>6, <1>7 DEF Follows, NoRecord

LEMMA ValueParts ==
    ASSUME NEW v \in Values
    PROVE  /\ v.content \in Nat /\ v.type \in Kinds
           /\ RecHeader + v.content \in Nat /\ AlignUp(RecHeader + v.content) \in Nat
<1>1. \A w \in [type : STRING, content : Nat] : w.type \in STRING /\ w.content \in Nat
  OBVIOUS
<1>2. v.content \in Nat /\ v.type \in Kinds
  BY <1>1, SizesAssumption DEF Kinds
<1>3. RecHeader + v.content \in Nat
  BY <1>2 DEF RecHeader
<1> QED
  BY <1>2, <1>3, Aligned

(* A new entry whose record lies in bytes that nobody has                  *)
LEMMA RecordedGood ==
    ASSUME NEW map, Good(map), NEW key \in Keys, key \notin DOMAIN map.entries,
           NEW at \in Nat, NEW len \in Nat, NEW type \in Kinds, Holds(map, at, AlignUp(len)),
           NEW e, e = [Unset EXCEPT !.at = at, !.len = len, !.type = type],
           NEW to, to = [map EXCEPT !.entries = With(@, key, e)]
    PROVE  Good(to)
<1>1. e \in EntryRec /\ e.at = at /\ e.len = len /\ e.keyAt = NoRecord
  BY DEF EntryRec, Unset, Kinds, NoRecord
<1>2. Fits(map, key, e)
  BY <1>1, EntryFits, Zenon DEF Fits
<1>3. Sets(map, to, key, e)
  BY <1>1, <1>2, WithGood
<1> QED
  BY <1>3 DEF Sets

(* emplace() of a view                                                     *)
LEMMA ViewEmplaceGood ==
    ASSUME Good(m), NEW key \in Keys, NEW v \in Values, ViewEmplace(key, v)
    PROVE  Good(m')
<1>1. PICK r : r = Beyond(m, AlignUp(m.used), AlignUp(RecHeader + v.content))
  OBVIOUS
<1>2. PICK len \in Nat, type \in Kinds : len = RecHeader + v.content /\ type = v.type /\ AlignUp(len) \in Nat
  BY ValueParts
<1>3. AlignUp(m.used) \in Nat /\ m.used <= AlignUp(m.used)
  BY MapParts, Aligned DEF Good
<1>4. PICK e : e = [Unset EXCEPT !.at = r.at, !.len = len, !.type = type]
  OBVIOUS
<1>5. /\ key \notin DOMAIN m.entries /\ r.ok
      /\ m' = [r.map EXCEPT !.entries = With(@, key, e)]
  BY <1>1, <1>2, <1>4 DEF ViewEmplace, Becomes
<1>6. /\ Good(r.map) /\ r.map.entries = m.entries /\ r.at \in Nat /\ Holds(r.map, r.at, AlignUp(len))
  BY <1>1, <1>2, <1>3, <1>5, BeyondGood
<1> QED
  BY <1>2, <1>4, <1>5, <1>6, RecordedGood

(* Assignment through a view                                               *)
LEMMA ViewAssignGood ==
    ASSUME Good(m), NEW key \in Keys, NEW v \in Values, ViewAssign(key, v)
    PROVE  Good(m')
<1>1. PICK r : r = Beyond(m, AlignUp(m.used), AlignUp(RecHeader + v.content))
  OBVIOUS
<1>2. PICK len \in Nat, type \in Kinds : len = RecHeader + v.content /\ type = v.type /\ AlignUp(len) \in Nat
  BY ValueParts
<1>3. AlignUp(m.used) \in Nat /\ m.used <= AlignUp(m.used)
  BY MapParts, Aligned DEF Good
<1>4. PICK new : new = [m.entries[key] EXCEPT !.at = r.at, !.len = len, !.type = type]
  OBVIOUS
<1>5. /\ key \in DOMAIN m.entries
      /\ \/ /\ AlignUp(len) = AlignUp(m.entries[key].len)
            /\ m' = [m EXCEPT !.entries = With(@, key, [m.entries[key] EXCEPT !.len = len])]
         \/ r.ok /\ m' = [r.map EXCEPT !.entries = With(@, key, new)]
  BY <1>1, <1>2, <1>4 DEF ViewAssign, Becomes
<1>6. CASE /\ AlignUp(len) = AlignUp(m.entries[key].len)
           /\ m' = [m EXCEPT !.entries = With(@, key, [m.entries[key] EXCEPT !.len = len])]
  BY <1>5, <1>6, RelengthenedGood
<1>7. CASE r.ok /\ m' = [r.map EXCEPT !.entries = With(@, key, new)]
  <2>1. /\ Good(r.map) /\ r.map.entries = m.entries /\ r.at \in Nat /\ Holds(r.map, r.at, AlignUp(len))
    BY <1>1, <1>2, <1>3, <1>7, BeyondGood
  <2>2. PICK base : base = r.map
    OBVIOUS
  <2>3. PICK at \in Nat : base = r.map /\ at = r.at
    BY <2>1, <2>2
  <2>4. /\ Good(base) /\ key \in DOMAIN base.entries /\ Holds(base, at, AlignUp(len))
        /\ new = [base.entries[key] EXCEPT !.at = at, !.len = len, !.type = type]
        /\ m' = [base EXCEPT !.entries = With(base.entries, key, new)]
    BY <1>4, <1>5, <1>7, <2>1, <2>3
  <2>5. Releases(base, m', key)
    BY <2>4, RerecordedGood
  <2> QED
    BY <2>5 DEF Releases
<1> QED
  BY <1>5, <1>6, <1>7

(* try_emplace_map() of a view                                             *)
LEMMA ViewNestGood ==
    ASSUME Good(m), NEW key \in Keys, ViewNest(key)
    PROVE  Good(m')
<1>1. PICK content : content = AlignUp(Start(m) + m.used + RecHeader)
  OBVIOUS
<1>2. PICK from : from = content - RecHeader - Start(m)
  OBVIOUS
<1>3. from \in Nat /\ m.used <= from
  <2>1. Start(m) \in Nat /\ m.used \in Nat
    BY MapParts DEF Good
  <2>2. PICK sum \in Nat : sum = Start(m) + m.used + RecHeader
    BY <2>1 DEF RecHeader
  <2>3. content \in Nat /\ sum <= content
    BY <1>1, <2>2, Aligned
  <2> QED
    BY <1>2, <2>1, <2>2, <2>3 DEF RecHeader
<1>4. PICK len \in Nat : len = RecHeader + ChildSize /\ AlignUp(len) \in Nat
  <2>1. RecHeader + ChildSize \in Nat
    BY SizesAssumption DEF RecHeader
  <2> QED
    BY <2>1, Aligned
<1>5. PICK r : r = Beyond(m, from, AlignUp(len))
  OBVIOUS
<1>6. PICK type \in Kinds : type = "map"
  BY DEF Kinds
<1>7. PICK e : e = [Unset EXCEPT !.at = r.at, !.len = len, !.type = type]
  OBVIOUS
<1>8. /\ key \notin DOMAIN m.entries /\ r.ok
      /\ m' = [r.map EXCEPT !.entries = With(@, key, e)]
  BY <1>1, <1>2, <1>4, <1>5, <1>6, <1>7 DEF ViewNest, Becomes
<1>9. /\ Good(r.map) /\ r.map.entries = m.entries /\ r.at \in Nat /\ Holds(r.map, r.at, AlignUp(len))
  BY <1>3, <1>4, <1>5, <1>8, BeyondGood
<1> QED
  BY <1>4, <1>6, <1>7, <1>8, <1>9, RecordedGood

-----------------------------------------------------------------------------
(* The map *)

(* A map without entries and chunks                                        *)
LEMMA EmptyGood ==
    ASSUME NEW table \in Nat, NEW pool \in Nat,
           NEW to, to = [entries |-> Nowhere, table |-> table, pool |-> pool, used |-> 0, free |-> <<>>]
    PROVE  Good(to)
<1>1. Nowhere \in [{} -> EntryRec] /\ DOMAIN Nowhere = {}
  BY DEF Nowhere
<1>2. <<>> \in Seq(ChunkRec) /\ DOMAIN <<>> = {}
  OBVIOUS
<1>3. to \in MapRec
  <2>1. PICK K \in SUBSET Keys : K = {}
    OBVIOUS
  <2> QED
    BY <1>1, <1>2, <2>1, MapMade
<1>4. DOMAIN to.entries = {} /\ DOMAIN to.free = {} /\ to.used <= to.pool
  BY <1>1, <1>2
<1> QED
  BY <1>3, <1>4, Zenon DEF Good, RecordsGood, ChunksGood

LEMMA GoodAtFirst == Init => Good(m)
<1>1. FirstEntries \in Nat /\ FirstPool \in Nat /\ MaxUsed \in Nat
  BY SizesAssumption
<1> QED
  BY <1>1, EmptyGood DEF Init, MapOf

LEMMA GoodAlways ==
    ASSUME MergedWhole, Good(m), [Next]_vars
    PROVE  Good(m')
<1>1. /\ m \in MapRec /\ m.used <= m.pool /\ m.table \in Nat /\ m.pool \in Nat /\ m.used \in Nat
      /\ Count(m) \in Nat
  BY MapParts DEF Good
<1>2. ASSUME NEW key \in Keys, NEW v \in Values, Emplace(key, v) PROVE Good(m')
  BY <1>2, InsertedGood DEF Emplace, Becomes
<1>3. ASSUME NEW key \in Keys, NEW v \in Values, NEW copy \in BOOLEAN, Assign(key, v, copy) PROVE Good(m')
  <2>1. PICK s : s = Assigned(m, key, v, copy)
    OBVIOUS
  <2>2. key \in DOMAIN m.entries /\ m' = s.map
    BY <1>3, <2>1 DEF Assign, Becomes
  <2> QED
    BY <2>1, <2>2, AssignedGood
<1>4. ASSUME NEW key \in Keys, Erase(key) PROVE Good(m')
  BY <1>4, ReclaimedGood DEF Erase, Becomes
<1>5. ASSUME NEW key \in Keys, NEW v \in Values, ViewEmplace(key, v) \/ ViewAssign(key, v) PROVE Good(m')
  BY <1>5, ViewEmplaceGood, ViewAssignGood, Zenon
<1>6. ASSUME NEW key \in Keys, ViewNest(key) PROVE Good(m')
  BY <1>6, ViewNestGood
<1>7. ASSUME Clear PROVE Good(m')
  <2>1. m' = [entries |-> Nowhere, table |-> m.table, pool |-> m.pool, used |-> 0, free |-> <<>>]
    <3>1. m = [entries |-> m.entries, table |-> m.table, pool |-> m.pool, used |-> m.used, free |-> m.free]
      BY <1>1, MapIs
    <3>2. m' = [m EXCEPT !.entries = Nowhere, !.used = 0, !.free = <<>>]
      BY <1>7 DEF Clear, Becomes
    <3> QED
      BY <3>1, <3>2
  <2> QED
    BY <1>1, <2>1, EmptyGood
<1>8. ASSUME Shrink PROVE Good(m')
  <2>1. m' = Moved(m, Count(m), m.used)
    BY <1>8 DEF Shrink, Becomes
  <2>2. PICK n \in Nat, bytes \in Nat : n = Count(m) /\ bytes = m.used /\ m.used <= bytes
    BY <1>1
  <2>3. Follows(m, Moved(m, n, bytes))
    BY <2>2, MovedFollows, Zenon
  <2> QED
    BY <2>1, <2>2, <2>3 DEF Follows
<1>9. ASSUME NEW n \in {Cardinality(Keys) + 1}, Reserve(n, m.used + 16) PROVE Good(m')
  <2>1. n \in Nat /\ m.used + 16 \in Nat
    BY <1>1, SizesAssumption, FS_CardinalityType
  <2>2. m' = Reserved(m, n, m.used + 16)
    BY <1>9 DEF Reserve, Becomes
  <2>3. Follows(m, m')
    BY <2>1, <2>2, ReservedFollows
  <2> QED
    BY <2>3 DEF Follows
<1>10. ASSUME NEW src \in Sources, Merge(src) PROVE Good(m')
  BY <1>10, MergedGood DEF Merge, Becomes
<1>11. ASSUME UNCHANGED vars PROVE Good(m')
  BY <1>11 DEF vars
<1> QED
  BY <1>2, <1>3, <1>4, <1>5, <1>6, <1>7, <1>8, <1>9, <1>10, <1>11, Zenon DEF Next

(* The good map is one whose regions lie apart.                            *)
LEMMA GoodRegions ==
    ASSUME Good(m) PROVE RegionsApart
<1>1. m \in MapRec /\ m.used <= m.pool /\ RecordsGood(m) /\ ChunksGood(m)
  BY DEF Good
<1>2. /\ KeyBytes \in Nat
      /\ \A k \in DOMAIN m.entries : /\ m.entries[k].at \in Nat /\ m.entries[k].keyAt \in Nat
                                     /\ AlignUp(m.entries[k].len) \in Nat
      /\ \A i \in DOMAIN m.free : m.free[i].at \in Nat /\ m.free[i].len \in Nat
  BY <1>1, MapParts
<1> DEFINE Record(r, k) == /\ k \in DOMAIN m.entries /\ m.entries[k].at # NoRecord /\ r.of = <<"record", k>>
                           /\ r.from = m.entries[k].at /\ r.to = m.entries[k].at + AlignUp(m.entries[k].len)
           Key(r, k) == /\ k \in DOMAIN m.entries /\ m.entries[k].keyAt # NoRecord /\ r.of = <<"key", k>>
                        /\ r.from = m.entries[k].keyAt /\ r.to = m.entries[k].keyAt + KeyBytes
           Chunk(r, i) == /\ i \in DOMAIN m.free /\ r.of = <<"free", i>>
                          /\ r.from = m.free[i].at /\ r.to = m.free[i].at + m.free[i].len
           Away(r, s) == r.to <= s.from \/ s.to <= r.from
<1>3. ASSUME NEW r \in Regions
      PROVE  \/ \E k : Record(r, k)
             \/ \E k : Key(r, k)
             \/ \E i : Chunk(r, i)
  <2>1. CASE r \in {[of |-> <<"record", key>>, from |-> m.entries[key].at, to |-> m.entries[key].at + AlignUp(m.entries[key].len)] :
                        key \in {k \in DOMAIN m.entries : m.entries[k].at # NoRecord}}
    BY <2>1
  <2>2. CASE r \in {[of |-> <<"key", key>>, from |-> m.entries[key].keyAt, to |-> m.entries[key].keyAt + KeyLength + 1] :
                        key \in {k \in DOMAIN m.entries : m.entries[k].keyAt # NoRecord}}
    <3>1. PICK k \in DOMAIN m.entries : /\ m.entries[k].keyAt # NoRecord
                                        /\ r = [of |-> <<"key", k>>, from |-> m.entries[k].keyAt, to |-> m.entries[k].keyAt + KeyLength + 1]
      BY <2>2
    <3>2. m.entries[k].keyAt + KeyLength + 1 = m.entries[k].keyAt + KeyBytes
      BY <1>2, SizesAssumption, SMTT(60) DEF KeyBytes
    <3>3. Key(r, k)
      BY <3>1, <3>2
    <3> QED
      BY <3>3
  <2>3. CASE r \in {[of |-> <<"free", i>>, from |-> m.free[i].at, to |-> m.free[i].at + m.free[i].len] : i \in DOMAIN m.free}
    BY <2>3
  <2> QED
    BY <2>1, <2>2, <2>3, Zenon DEF Regions
<1>4. \A r, k : Record(r, k) => Start(m) <= r.from /\ r.to <= Start(m) + m.used
  BY <1>1 DEF RecordsGood, Inside
<1>5. \A r, k : Key(r, k) => Start(m) <= r.from /\ r.to <= Start(m) + m.used
  BY <1>1 DEF RecordsGood, Inside
<1>6. \A r, i : Chunk(r, i) => Start(m) <= r.from /\ r.to <= Start(m) + m.used
  BY <1>1 DEF ChunksGood, Inside
<1>7. \A r, s, k, l : Record(r, k) /\ Record(s, l) /\ r.of # s.of => Away(r, s)
  BY <1>1 DEF RecordsGood, Apart
<1>8. \A r, s, k, l : Key(r, k) /\ Key(s, l) /\ r.of # s.of => Away(r, s)
  BY <1>1 DEF RecordsGood, Apart
<1>9. \A r, s, k, l : Record(r, k) /\ Key(s, l) => Away(r, s) /\ Away(s, r)
  BY <1>1 DEF RecordsGood, Apart
<1>10. \A r, s, i, j : Chunk(r, i) /\ Chunk(s, j) /\ r.of # s.of => Away(r, s)
  BY <1>1 DEF ChunksGood, Apart
<1>11. \A r, s, i, k : Chunk(r, i) /\ (Record(s, k) \/ Key(s, k)) => Away(r, s) /\ Away(s, r)
  BY <1>1 DEF ChunksGood, Apart
<1> HIDE DEF Record, Key, Chunk, Away
<1>12. ASSUME NEW r \in Regions
       PROVE  Start(m) <= r.from /\ r.to <= Start(m) + m.used
  BY <1>3, <1>4, <1>5, <1>6
<1>13. ASSUME NEW r \in Regions, NEW s \in Regions, r.of # s.of
       PROVE  Away(r, s)
  <2>1. (\E k : Record(r, k)) \/ (\E k : Key(r, k)) \/ (\E i : Chunk(r, i))
    BY <1>3
  <2>2. (\E k : Record(s, k)) \/ (\E k : Key(s, k)) \/ (\E i : Chunk(s, i))
    BY <1>3
  <2> QED
    BY <1>7, <1>8, <1>9, <1>10, <1>11, <1>13, <2>1, <2>2, Zenon
<1> QED
  BY <1>1, <1>12, <1>13 DEF RegionsApart, Away

(* Emplacing, assigning, erasing, merging, growing, shrinking, and what a  *)
(* view appends: in no sequence of them do the records, the long keys and  *)
(* the free chunks of the pool overlap, or leave what is used of it, as    *)
(* long as merged records fill what is reserved for them and merged keys   *)
(* fit the table (what merge() does to others is in RecordsApart).         *)
THEOREM RegionsStayApart ==
    ASSUME MergedWhole
    PROVE  Spec => []RegionsApart
<1>1. Init => Good(m)
  BY GoodAtFirst
<1>2. Good(m) /\ [Next]_vars => Good(m)'
  BY GoodAlways
<1>3. Good(m) => RegionsApart
  BY GoodRegions
<1> QED
  BY <1>1, <1>2, <1>3, PTL DEF Spec
=============================================================================
