------------------------------ MODULE MCTreeDb ------------------------------
(* The instances of TreeDb that TLC checks.                                 *)
EXTENDS TreeDb, TLC

CONSTANTS c1, c2, d1, d2, f1, f2, i1, i2, g1, g2

\* A drive in each group. Callers create both there, or the second in the
\* group of the first.
TwoDrives == d1 :> g1 @@ d2 :> g2
OwnGroup  == d1 :> {g1} @@ d2 :> {g2}
OneGroup  == d1 :> {} @@ d2 :> {g1}

\* Bound: of what follows a change of the group of a drive, only the part where it is the
\* one drive is explored, and nothing once it holds something, the exception of GroupsAgree.
NoneRegrouped == regrouped = {} /\ (group = FirstGroup \/ Cardinality(drives) = 1)

NoDefault      == << >>
DefaultFolder  == f1 :> d1

AllButDefault  == OpNames \ {"default"}
Concurrent == {"create_drive", "create_folder", "create_item", "update", "borrow", "queue_delete",
               "move", "default"}

\* Clients, and ids that no constant singles out, are interchangeable (used with
\* safety properties only).
Clients  == Permutations({c1, c2})
Entities == Permutations({f1, f2}) \cup Permutations({i1, i2})
=============================================================================
