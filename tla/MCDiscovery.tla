----------------------------- MODULE MCDiscovery -----------------------------
(* A device that runs twice, beside one that runs once.                     *)
EXTENDS Discovery

CONSTANTS a, b

Neighbours == {a, b}
TwiceOnce  == [d \in Neighbours |-> IF d = a THEN 2 ELSE 1]

Alone      == {a}
Twice      == [d \in Alone |-> 2]

=============================================================================
