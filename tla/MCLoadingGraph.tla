----------------------------- MODULE MCLoadingGraph -----------------------------
(* The instances of LoadingGraph that TLC checks: 1.0.0, 1.1.0-wip and 2.0.0.   *)
EXTENDS LoadingGraph

CONSTANTS p, q, major, any, bad

Libs == {<<p, 1>>, <<p, 2>>, <<p, 4>>, <<q, 1>>, <<q, 2>>}

Apis    == 1 :> 1 @@ 2 :> 1 @@ 4 :> 2
Admitted == major :> {1, 3} @@ any :> {1, 3, 4}

Deps == p :> {{}, {<<q, any>>}} @@ q :> {{}, {<<p, major>>}}

Bodies == {
  [libraries |-> {<<p, any>>, <<q, 2>>}, using |-> p :> NoSpec @@ q :> 1],
  [libraries |-> {<<p, 1>>, <<p, any>>, <<q, bad>>}, using |-> p :> NoSpec @@ q :> NoSpec]}
=============================================================================
