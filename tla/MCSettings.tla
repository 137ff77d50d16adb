----------------------------- MODULE MCSettings -----------------------------
EXTENDS Settings

\* The name "beam" falls back to the default context, "idle" matches nothing.
FallbackToDefault == [n \in Names |-> IF n = "beam" THEN <<"">> ELSE <<>>]
GainByHand == [p \in {"gain"} |-> 1]
SomeRequests == {[p \in {"gain"} |-> 0], [p \in {"gain", "rate"} |-> 1]}
=============================================================================
