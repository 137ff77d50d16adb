----------------------------- MODULE GraphWiring -----------------------------
(***************************************************************************)
(* Graph.hpp, Graph.cpp and the handlers of Scheduler.hpp that rewire a    *)
(* graph: the edges that a graph and the groups in it list, with their     *)
(* states, against the buffers that the ports really share.  One thread    *)
(* handles the messages, and what touches ports runs while the workers are *)
(* held (WorkQuiescence), so every handler is one step.                    *)
(* A primitive block has one input and one output port; a group (a         *)
(* gr::Graph within the graph) exports ports of its blocks, which are weak *)
(* references: an end of an edge names the block that the edge's graph     *)
(* sees and the primitive whose port it is.                                *)
(***************************************************************************)
EXTENDS Integers, FiniteSets

CONSTANTS Prims, Groups, None,
          MaxEdges    \* bound on the edges

Root == "root"
Graphs == {Root} \cup Groups
Blocks == Prims \cup Groups
Elsewhere == {"unused", "zombie", "gone"}    \* of blocks that no graph lists

ASSUME GraphAssumption ==
    /\ IsFiniteSet(Prims)
    /\ Prims \cap Groups = {} /\ None \notin Blocks
    /\ ({Root} \cup Elsewhere) \cap Blocks = {}

Ends == [block : Blocks, port : Prims]
States == {"WaitingToBeConnected", "Connected"}

VARIABLES
    phase,  \* the life cycle of the scheduler
    place,  \* place[b]: the graph that lists block b, or "unused", "zombie", "gone"
    edges,  \* the edges of all graphs: [graph, from, to, state]
    reads,  \* reads[q]: the output whose buffer the input of q is a reader of, or None
    loose   \* ghost: ports whose buffers changed behind the back of a connected edge

graphVars == <<phase, place, edges, reads, loose>>

-----------------------------------------------------------------------------
(* What a graph contains *)

In(g) == {b \in Blocks : place[b] = g}

\* The primitives in a block at any depth.
Within(b) ==
    LET within[c \in Blocks] == IF c \in Prims THEN {c} ELSE UNION {within[d] : d \in In(c)}
    IN  within[b]

\* traverseSubgraphs() from graph g
Reachable(g) ==
    LET reachable[h \in Graphs] == {h} \cup UNION {reachable[i] : i \in In(h) \cap Groups}
    IN  reachable[g]

LiveEdges == LET live == Reachable(Root) IN {e \in edges : e.graph \in live}
Live == Prims \cap UNION {In(g) : g \in Reachable(Root)}
EndsIn(g) == {x \in Ends : place[x.block] = g /\ x.port \in Within(x.block)}
Feeding(q) == {e.from.port : e \in {f \in LiveEdges : f.to.port = q}}
NReaders(p) == Cardinality({q \in Prims : reads[q] = p})
InState(e, s) == [e EXCEPT !.state = s]
Waiting == {e \in LiveEdges : e.state = "WaitingToBeConnected"}

\* Inputs at which several edges end; nothing forbids that.
Contested == {q \in Prims : Cardinality(Feeding(q)) > 1}

\* What flows where, whichever graph lists the edge.
Wires == {<<e.from.port, e.to.port>> : e \in LiveEdges}

GraphInit ==
    /\ phase = "INITIALISED"
    /\ \E spare \in Prims : place = [b \in Blocks |-> IF b \in Prims \ {spare} THEN Root ELSE "unused"]
    /\ edges = {} /\ reads = [q \in Prims |-> None]
    /\ loose = {}

-----------------------------------------------------------------------------
(* Connecting *)

\* connectPendingEdges() over a set of edges that wait: of several that end at
\* one input, the last one applied has it.
Connections(pending, before) ==
    LET sources == [q \in Prims |-> {e.from.port : e \in {f \in pending : f.to.port = q}}]
        choices == [q \in Prims |-> IF sources[q] = {} THEN {before[q]} ELSE sources[q]]
    IN  {after \in [Prims -> UNION {choices[q] : q \in Prims}] : \A q \in Prims : after[q] \in choices[q]}

\* disconnectAllEdges(): the inputs of connected edges
Disconnected == {e.to.port : e \in {f \in LiveEdges : f.state = "Connected"}}
Unplugged(inputs) == [q \in Prims |-> IF q \in inputs THEN None ELSE reads[q]]

\* connect() of user code: an edge for the next start
Connect(from, to) ==
    /\ phase = "INITIALISED"
    /\ {from, to} \subseteq EndsIn(Root) /\ Cardinality(edges) < MaxEdges
    /\ edges' = edges \cup {[graph |-> Root, from |-> from, to |-> to, state |-> "WaitingToBeConnected"]}
    /\ UNCHANGED <<phase, place, reads, loose>>

\* start(): disconnectAllEdges() and connectPendingEdges() over the graph and its groups
StartScheduler ==
    /\ phase = "INITIALISED" /\ phase' = "RUNNING"
    /\ reads' \in Connections(LiveEdges, Unplugged(Disconnected))
    /\ edges' = (edges \ LiveEdges) \cup {InState(e, "Connected") : e \in LiveEdges}
    /\ loose' = Contested
    /\ UNCHANGED place

Pause ==
    /\ phase = "RUNNING" /\ phase' = "PAUSED"
    /\ UNCHANGED <<place, edges, reads, loose>>

\* resume(): connectPendingEdges()
Resume ==
    /\ phase = "PAUSED" /\ phase' = "RUNNING"
    /\ reads' \in Connections(Waiting, reads)
    /\ edges' = (edges \ Waiting) \cup {InState(e, "Connected") : e \in Waiting}
    /\ loose' = loose \cup Contested
    /\ UNCHANGED place

\* stop() and the reset() before the next start: disconnectAllEdges()
StopAndReset ==
    /\ phase \in {"RUNNING", "PAUSED"} /\ phase' = "INITIALISED"
    /\ reads' = Unplugged(Disconnected)
    /\ edges' = (edges \ LiveEdges) \cup {InState(e, "WaitingToBeConnected") : e \in LiveEdges}
    /\ loose' = {}
    /\ UNCHANGED place

-----------------------------------------------------------------------------
(* Messages *)

\* emplaceEdge() connects the ports at once, and yet lists the edge as waiting
\* (no edge is emplaced twice).
EmplaceEdge(g, from, to) ==
    LET e == [graph |-> g, from |-> from, to |-> to, state |-> "WaitingToBeConnected"]
    IN  /\ g \in Reachable(Root) /\ {from, to} \subseteq EndsIn(g)
        /\ Cardinality(edges) < MaxEdges /\ \A f \in edges : InState(f, e.state) # e
        /\ edges' = edges \cup {e}
        /\ reads' = [reads EXCEPT ![to.port] = from.port]
        /\ loose' = (loose \ {to.port}) \cup (IF Feeding(to.port) \subseteq {from.port} THEN {} ELSE {to.port})
        /\ UNCHANGED <<phase, place>>

\* Faulty: the edges go, the buffer stays.
RemoveEdgeListed(g, from) ==
    /\ g \in Reachable(Root) /\ from \in EndsIn(g) /\ NReaders(from.port) > 0
    /\ edges' = {e \in edges : ~(e.graph = g /\ e.from = from)}
    /\ UNCHANGED <<phase, place, reads, loose>>

\* removeEdgeBySourcePort(): a port without readers is an error; otherwise all
\* its readers lose it, those of edges that other graphs list too.
RemoveEdge(g, from) ==
    LET readers == {q \in Prims : reads[q] = from.port}
    IN  /\ g \in Reachable(Root) /\ from \in EndsIn(g) /\ readers # {}
        /\ edges' = {e \in edges : ~(e.graph = g /\ e.from = from)}
        /\ reads' = Unplugged(readers)
        /\ loose' = loose \cup readers
        /\ UNCHANGED <<phase, place>>

\* No graph around that of b lists an edge to an exported port of b.
NotExported(b) ==
    LET inside == {place[b]} \cup (IF b \in Groups THEN Reachable(b) ELSE {})
    IN  \A e \in {f \in edges : f.graph \notin inside} : {e.from.port, e.to.port} \cap Within(b) = {}

\* removeBlockByName() and makeZombie(): the edges of its graph go, the ports
\* stay as they are until the block is deleted.
RemoveBlock(b) ==
    /\ place[b] \in Reachable(Root) /\ NotExported(b)
    /\ place' = [place EXCEPT ![b] = "zombie"]
    /\ edges' = {e \in edges : ~(e.graph = place[b] /\ b \in {e.from.block, e.to.block})}
    /\ UNCHANGED <<phase, reads, loose>>

\* replaceBlock(): the edges are given the new block and stay as connected as
\* they were.  (The list of blocks has room for one more here; the iterator to
\* the old block is used after the new one has been appended.)
ReplaceBlock(b, c) ==
    LET New(x) == IF x.block = b THEN [block |-> c, port |-> c] ELSE x
    IN  /\ {b, c} \subseteq Prims /\ place[b] \in Reachable(Root) /\ place[c] = "unused" /\ NotExported(b)
        /\ place' = [place EXCEPT ![b] = "zombie", ![c] = place[b]]
        /\ edges' = {[e EXCEPT !.from = New(e.from), !.to = New(e.to)] : e \in edges}
        /\ loose' = loose \cup {c} \cup {e.to.port : e \in {f \in edges : f.from.block = b}}
        /\ UNCHANGED <<phase, reads>>

\* cleanupZombieBlocks() deletes a block, and with a group all that it holds.
Delete(b) ==
    LET dead == Within(b)
    IN  /\ place[b] = "zombie"
        /\ place' = [c \in Blocks |-> IF c = b \/ c \in dead THEN "gone" ELSE place[c]]
        /\ edges' = {e \in edges : e.graph # b}
        /\ reads' = [q \in Prims |-> IF q \in dead \/ reads[q] \in dead THEN None ELSE reads[q]]
        /\ loose' = loose \ dead
        /\ UNCHANGED phase

\* Faulty: the edges between members are lost.
GroupWithoutEdges(g, members, group) ==
    LET Moved(x) == IF x.block \in members THEN [block |-> group, port |-> x.port] ELSE x
        Touching == {e \in edges : e.graph = g /\ {e.from.block, e.to.block} \cap members # {}}
        Crossing == {e \in Touching : ~({e.from.block, e.to.block} \subseteq members)}
        Relisted(e) == [InState(e, "WaitingToBeConnected") EXCEPT !.from = Moved(@), !.to = Moved(@)]
    IN  /\ g \in Reachable(Root) /\ members # {} /\ members \subseteq In(g) /\ place[group] = "unused"
        /\ place' = [b \in Blocks |-> IF b \in members THEN group ELSE IF b = group THEN g ELSE place[b]]
        /\ edges' = (edges \ Touching) \cup {Relisted(e) : e \in Crossing}
        /\ UNCHANGED <<phase, reads, loose>>

\* groupBlocks(): edges between members move into the group as they are; one
\* that crosses its border becomes a new edge to an exported port, which waits
\* for the next connectPendingEdges() while the buffer goes on being shared.
Group(g, members, group) ==
    LET Moved(x) == IF x.block \in members THEN [block |-> group, port |-> x.port] ELSE x
        Touching == {e \in edges : e.graph = g /\ {e.from.block, e.to.block} \cap members # {}}
        Relisted(e) ==
            IF {e.from.block, e.to.block} \subseteq members THEN [e EXCEPT !.graph = group]
            ELSE [InState(e, "WaitingToBeConnected") EXCEPT !.from = Moved(@), !.to = Moved(@)]
    IN  /\ g \in Reachable(Root) /\ members # {} /\ members \subseteq In(g) /\ place[group] = "unused"
        /\ place' = [b \in Blocks |-> IF b \in members THEN group ELSE IF b = group THEN g ELSE place[b]]
        /\ edges' = (edges \ Touching) \cup {Relisted(e) : e \in Touching}
        /\ UNCHANGED <<phase, reads, loose>>

\* ungroupBlocks() and the connectPendingEdges() of its handler: what the group
\* listed moves up as it is, and the edges to its exported ports become edges
\* to the ports behind them.
Ungroup(group) ==
    LET g == place[group]
        Inner(p) == CHOOSE b \in In(group) : p \in Within(b)
        Resolved(x) == IF x.block = group THEN [block |-> Inner(x.port), port |-> x.port] ELSE x
        Touching == {e \in edges : e.graph = g /\ group \in {e.from.block, e.to.block}}
        Listed == {[e EXCEPT !.graph = g] : e \in {f \in edges : f.graph = group}}
        Outer == {[InState(e, "WaitingToBeConnected") EXCEPT !.from = Resolved(@), !.to = Resolved(@)] : e \in Touching}
        moved == ({e \in edges : e.graph # group} \ Touching) \cup Listed \cup Outer
        pending == {e \in moved : e.graph \in Reachable(Root) /\ e.state = "WaitingToBeConnected"}
    IN  /\ group \in Groups /\ g \in Reachable(Root)
        /\ place' = [b \in Blocks |-> IF b = group THEN "zombie" ELSE IF place[b] = group THEN g ELSE place[b]]
        /\ reads' \in Connections(pending, reads)
        /\ edges' = (moved \ pending) \cup {InState(e, "Connected") : e \in pending}
        /\ loose' = loose \cup Contested
        /\ UNCHANGED phase

-----------------------------------------------------------------------------

GraphNext ==
    \/ \E from, to \in EndsIn(Root) : Connect(from, to)
    \/ StartScheduler \/ Pause \/ Resume \/ StopAndReset
    \/ \E g \in Graphs : \E from \in EndsIn(g) :
          \/ RemoveEdge(g, from)
          \/ \E to \in EndsIn(g) : EmplaceEdge(g, from, to)
    \/ \E b \in Blocks : RemoveBlock(b) \/ Delete(b) \/ \E c \in Prims : ReplaceBlock(b, c)
    \/ \E g \in Graphs, group \in Groups : \E members \in SUBSET In(g) : Group(g, members, group)
    \/ \E group \in Groups : Ungroup(group)

GraphSpec == GraphInit /\ [][GraphNext]_graphVars

-----------------------------------------------------------------------------
(* Properties *)

Shared(p, q) == reads[q] = p

\* Grouping and ungrouping blocks, also several times and one group in the
\* other, change neither what flows where nor a connection that exists.
Regrouped ==
    \E group \in Groups :
        \/ place[group] = "unused" /\ place'[group] # "unused"
        \/ place'[group] = "zombie" /\ \E b \in In(group) : place'[b] # group

FlowKept ==
    [][ Regrouped =>
          /\ Wires' = Wires
          /\ \A p, q \in Prims :
                <<p, q>> \in Wires /\ Shared(p, q) /\ Feeding(q) = {p} => Shared(p, q)' ]_graphVars

\* No block goes on reading from a block that the graph says nothing flows
\* from; and an edge that is said to be connected is, unless several contend
\* for its input, or the port has since been replaced or cut off through
\* another graph, which a restart mends.
WiringMatchesEdges ==
    LET live == LiveEdges
    IN  /\ \A q \in Live : reads[q] \in Live => \E e \in live : Shared(e.from.port, q) /\ e.to.port = q
        /\ \A e \in live :
              e.state = "Connected" /\ e.to.port \notin loose => Shared(e.from.port, e.to.port)
=============================================================================
