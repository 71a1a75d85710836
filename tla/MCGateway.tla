------------------------------- MODULE MCGateway -------------------------------
(* The instances of Gateway that TLC checks.                                  *)
EXTENDS Gateway, TLC

CONSTANTS c1, c2, g1, g2, s1, s2

Members == c1 :> {g1} @@ c2 :> {g1, g2}

Symlinks == Permutations({s1, s2})
=============================================================================
