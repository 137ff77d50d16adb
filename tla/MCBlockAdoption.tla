--------------------------- MODULE MCBlockAdoption ---------------------------
(* b1 and b2 start on one runner each; b1 comes back to the other runner.  *)
EXTENDS BlockAdoption

CONSTANTS b1, b2, b3

Dealt  == [b \in Blocks |-> IF b = b1 THEN 0 ELSE 1]
Hashed == [b \in Blocks |-> IF b = b3 THEN 0 ELSE 1]
=============================================================================
