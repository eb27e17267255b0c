------------------------------ MODULE MCSession ------------------------------
(* Two devices that push a frame each.                                      *)
EXTENDS Session

CONSTANTS a, b

Two     == {a, b}
EachWay == [n \in Job |-> IF n = 1 THEN a ELSE b]
=============================================================================
