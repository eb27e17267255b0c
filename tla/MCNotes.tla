------------------------------- MODULE MCNotes -------------------------------
(* A note edited on a few devices.  The order of fingerprints is that of    *)
(* some numbers without a pattern.                                          *)
EXTENDS Notes, TLC

CONSTANTS a, b, c

Mark(x, k) == (CASE x = a -> <<5, 11, 2, 7, 3>> [] x = b -> <<3, 8, 13, 1, 9>>
                 [] OTHER -> <<6, 4, 12, 10, 1>>)[k + 1]

Sum(n) == LET f[S \in SUBSET Device] ==
                  IF S = {} THEN n.body * 7
                  ELSE LET x == CHOOSE y \in S : TRUE
                       IN  f[S \ {x}] + Mark(x, n.clock[x])
          IN  f[Device]

Digits(n) == <<Sum(n) % 17, n.body, n.order, n.clock[a], n.clock[b]>>

MCGreater(n, m) ==
    \E i \in 1 .. 5 :
        /\ Digits(n)[i] > Digits(m)[i]
        /\ \A j \in 1 .. i - 1 : Digits(n)[j] = Digits(m)[j]

=============================================================================
