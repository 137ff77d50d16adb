----------------------------- MODULE MCValueMap -----------------------------
EXTENDS ValueMap

Number == [type |-> "int", content |-> 8]
Real   == [type |-> "real", content |-> 8]
Short  == [type |-> "string", content |-> 4]
Longer == [type |-> "string", content |-> 20]
Empty  == [type |-> "none", content |-> 0]
SomeValues == {Number, Real, Short, Longer, Empty}

\* Records that fill what is reserved for them, as in a map made of copied values
WholeRecords == {<<[key |-> "a", type |-> "int", len |-> 16], [key |-> "b", type |-> "string", len |-> 32]>>}
\* A short string as it is inserted, then a number
AnyRecords   == {<<[key |-> "a", type |-> "string", len |-> 12], [key |-> "b", type |-> "int", len |-> 16]>>}
=============================================================================
