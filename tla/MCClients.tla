------------------------------ MODULE MCClients ------------------------------
(***************************************************************************)
(* What threads outside of the flow graph share with a block that runs:    *)
(* the settings, which they change (Settings), and the samples that a sink *)
(* hands to them (DataSink).  They are checked in one run since they share *)
(* nothing: a behaviour is one of the part that it picks, and in the other *)
(* part nothing ever happens.                                              *)
(***************************************************************************)
EXTENDS DataSink, MCSettings

VARIABLE part

(* What the clients of the sink ask for *)
Sub(kind, block, before, after, direct) ==
    [kind |-> kind, block |-> block, before |-> before, after |-> after, direct |-> direct]

SafeStream  == Sub("stream", TRUE, 0, 0, FALSE)
LossyStream == Sub("stream", FALSE, 0, 0, FALSE)
SafeTrigger == Sub("trigger", TRUE, 2, 2, FALSE)
Overlapping == Sub("trigger", FALSE, 3, 1, TRUE)
SafeParts   == Sub("multiplexed", TRUE, 0, 0, FALSE)
LossyParts  == Sub("multiplexed", FALSE, 0, 2, TRUE)
Snapshots   == Sub("snapshot", TRUE, 0, 1, FALSE)

First == CHOOSE c \in Clients : TRUE
OfBoth(one, other) == [c \in Clients |-> IF c = First THEN one ELSE other]
Alone(one) == OfBoth(one, NoSubscription)
Start == {"start"}

SomeCases ==
    {[sub |-> Alone(SafeStream), length |-> 3, marks |-> 2, tags |-> Start, changes |-> TRUE],
     [sub |-> Alone(LossyStream), length |-> 4, marks |-> 1, tags |-> Start, changes |-> FALSE],
     [sub |-> OfBoth(SafeStream, LossyParts), length |-> 3, marks |-> 0, tags |-> Start, changes |-> FALSE],
     [sub |-> OfBoth(SafeTrigger, Overlapping), length |-> 3, marks |-> 1, tags |-> Start, changes |-> FALSE]}
    \cup {[sub |-> Alone(one), length |-> 4, marks |-> 2, tags |-> Start, changes |-> FALSE] :
             one \in {SafeTrigger, Overlapping, Snapshots}}
    \cup {[sub |-> Alone(one), length |-> 4, marks |-> 2, tags |-> {"start", "end"}, changes |-> FALSE] :
             one \in {SafeParts, LossyParts}}

ASSUME SettingsAssumption == SettingsConstants

BothInit ==
    /\ part \in {"settings", "sink"}
    /\ Init /\ SinkInit
    /\ part = "settings" => case = CHOOSE c \in Cases : TRUE
    /\ part = "sink" => expiry = Never

Only(p) ==
    /\ part = p /\ part' = p
    /\ p # "settings" => UNCHANGED vars
    /\ p # "sink" => UNCHANGED sinkVars

BothNext ==
    \/ Only("settings") /\ Next
    \/ Only("sink") /\ SinkNext

\* In its initial state the sink has no step that is bound to be taken.
BothSpec == BothInit /\ [][BothNext]_<<part, vars, sinkVars>> /\ Fairness
=============================================================================
