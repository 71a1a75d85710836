-------------------------------- MODULE Serving --------------------------------
(* What the store of proxied backends promises to the requests dispatched     *)
(* through it: a place (a partition and a version, in an environment) is      *)
(* served by one instance at most, and an instance serves one place, once.    *)

CONSTANTS Place, Instance

VARIABLES
  serving,  \* the instances that serve each place
  spent     \* the instances that serve, have served, or never will

Init == serving = [p \in Place |-> {}] /\ spent = {}

Start(p, i) ==
  /\ serving[p] = {} /\ i \notin spent
  /\ serving' = [serving EXCEPT ![p] = {i}]
  /\ spent' = spent \cup {i}

Stop(p) ==
  /\ serving' = [serving EXCEPT ![p] = {}]
  /\ UNCHANGED spent

Discard(i) ==
  /\ spent' = spent \cup {i}
  /\ UNCHANGED serving

Next ==
  \/ \E p \in Place : Stop(p) \/ \E i \in Instance : Start(p, i)
  \/ \E i \in Instance : Discard(i)

Spec == Init /\ [][Next]_<<serving, spent>>
=============================================================================
