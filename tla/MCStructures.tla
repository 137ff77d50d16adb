---------------------------- MODULE MCStructures ----------------------------
(***************************************************************************)
(* Two structures that messages change step by step, checked in one run    *)
(* since they share nothing: the wiring of a graph (GraphWiring) and the   *)
(* packed map that carries tags, settings and messages (ValueMap).  A      *)
(* behaviour is one of the part that it picks.                             *)
(***************************************************************************)
EXTENDS GraphWiring, MCValueMap, TLC

VARIABLE part

\* The maps that are merged are such that RegionsApart is promised.
ASSUME MapAssumption == MergedWhole

allVars == <<part, vars, graphVars>>

StructuresInit ==
    /\ part \in {"graph", "map"}
    /\ GraphInit /\ Init
    /\ part = "graph" => ~fixed

Only(p) ==
    /\ part = p /\ part' = p
    /\ p # "graph" => UNCHANGED graphVars
    /\ p # "map" => UNCHANGED vars

StructuresNext ==
    \/ Only("graph") /\ GraphNext
    \/ Only("map") /\ Next

StructuresSpec == StructuresInit /\ [][StructuresNext]_allVars

\* Blocks and groups are interchangeable.
Symmetry == Permutations(Prims) \cup Permutations(Groups)
=============================================================================
