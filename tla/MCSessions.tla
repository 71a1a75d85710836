------------------------------ MODULE MCSessions ------------------------------
(* The instances of Sessions that TLC checks: the platform, where one user logs *)
(* in and impersonates another, the platform where users log in twice, and the  *)
(* local application.                                                           *)
EXTENDS Sessions, TLC

CONSTANTS c1, c2, s1, s2

Gens == s1 :> 2 @@ s2 :> 1

Storages == "platform" :> "cache" @@ "portal" :> "cache" @@ "application" :> "file"
Operations ==
  "platform" :> {"use", "login", "backchannel", "impersonate", "stop"}
    @@ "portal" :> {"use", "login", "logout", "backchannel"}
    @@ "application" :> {"local"}
Logins == "platform" :> 1 @@ "portal" :> 2 @@ "application" :> 0

LocalStorage == "application" :> "file"
LocalOperations == "application" :> {"local", "backchannel"}
NoLogin == "application" :> 0

Symmetric == Permutations({c1, c2}) \cup Permutations(Flow)
=============================================================================
