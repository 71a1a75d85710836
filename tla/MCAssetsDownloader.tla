------------------------- MODULE MCAssetsDownloader -------------------------
(* The instances of AssetsDownloader that TLC checks.                       *)
EXTENDS AssetsDownloader, TLC

CONSTANTS a1, a2

DataAndPackage == a1 :> "data" @@ a2 :> "package"

\* Bound: while a caller of wait_asset downloads, one worker does or one asset waits
\* for a worker, not more.
Busy(j) == job[j].at \notin {"idle", "dead"}

TwoAtOnce ==
  (\E x \in Waiter : Busy(x)) => Cardinality({w \in Worker : Busy(w)}) + Len(queue) <= 1
=============================================================================
