------------------------------ MODULE MCBackends ------------------------------
(* The instances of Backends that TLC checks.                                *)
EXTENDS Backends

CONSTANTS r1, t1
=============================================================================
