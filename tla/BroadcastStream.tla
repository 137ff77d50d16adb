-------------------------- MODULE BroadcastStream --------------------------
(***************************************************************************)
(* What a stream buffer promises the blocks it connects: every reader has  *)
(* a FIFO queue of its own, a published sample enters the queue of every   *)
(* reader attached at that moment, and a reader takes samples from the     *)
(* front of its queue only.  No queue holds more than Size samples, so a   *)
(* slow reader holds the writer back and never loses a sample.             *)
(*                                                                         *)
(* A sample is represented by its position in the stream.                  *)
(***************************************************************************)
EXTENDS Integers, Sequences

CONSTANTS
    Readers,    \* the reader objects that may be attached during a run
    Size        \* capacity of the buffer in samples

VARIABLES
    attached,   \* readers that receive what is published
    unread,     \* unread[r]: samples published to r and not yet consumed
    published   \* number of samples published so far

vars == <<attached, unread, published>>

(***************************************************************************)
(* The next k samples of the stream.                                       *)
(***************************************************************************)
Fresh(k) == [i \in 1..k |-> published + i - 1]

Init ==
    /\ attached = {}
    /\ unread = [r \in Readers |-> <<>>]
    /\ published = 0

(* k may be 0: releasing a reservation without publishing is no step.      *)
Publish(k) ==
    /\ \A r \in attached : Len(unread[r]) + k <= Size
    /\ published' = published + k
    /\ unread' = [r \in Readers |->
                    IF r \in attached THEN unread[r] \o Fresh(k) ELSE unread[r]]
    /\ UNCHANGED attached

Consume(r, k) ==
    /\ r \in attached
    /\ k <= Len(unread[r])
    /\ unread' = [unread EXCEPT ![r] = SubSeq(@, k + 1, Len(@))]
    /\ UNCHANGED <<attached, published>>

(* A reader sees the stream from the sample published after it attached.   *)
Attach(r) ==
    /\ r \notin attached
    /\ attached' = attached \cup {r}
    /\ unread' = [unread EXCEPT ![r] = <<>>]
    /\ UNCHANGED published

Detach(r) ==
    /\ r \in attached
    /\ attached' = attached \ {r}
    /\ unread' = [unread EXCEPT ![r] = <<>>]
    /\ UNCHANGED published

Next ==
    \/ \E k \in 1..Size : Publish(k)
    \/ \E r \in Readers :
        \/ Attach(r)
        \/ Detach(r)
        \/ \E k \in 1..Size : Consume(r, k)

Spec == Init /\ [][Next]_vars
=============================================================================
