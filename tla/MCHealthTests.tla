----------------------------- MODULE MCHealthTests -----------------------------
(* A model-checking instance of HealthTests. *)
EXTENDS HealthTests
=============================================================================
