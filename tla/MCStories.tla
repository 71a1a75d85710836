------------------------------- MODULE MCStories -------------------------------
(* The instances of Stories that TLC checks.                                     *)
EXTENDS Stories, TLC

CONSTANTS c1, c2, p1, p2

Symmetric == Permutations({c1, c2}) \cup Permutations(Page)
NumbersToMoveTo == {-1, 1}
=============================================================================
