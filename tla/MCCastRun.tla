------------------------------ MODULE MCCastRun ------------------------------
(* Model-checking instances of CastRun: one CAST of each of two families. *)
EXTENDS CastRun

MCCastFamily == <<"ML-KEM", "ML-DSA">>
===============================================================================
