----------------------------- MODULE MCBrowserCache -----------------------------
(* The instances of BrowserCache that TLC checks.                               *)
EXTENDS BrowserCache, TLC

CONSTANTS c1, c2, a, b, u1, u2

Symmetric == Permutations({c1, c2}) \cup Permutations({a, b}) \cup Permutations({u1, u2})
=============================================================================
