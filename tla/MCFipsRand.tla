------------------------------ MODULE MCFipsRand ------------------------------
(* Model-checking instances of FipsRand: threads are model values. *)
EXTENDS FipsRand
=============================================================================
