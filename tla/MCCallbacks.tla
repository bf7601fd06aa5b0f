------------------------------ MODULE MCCallbacks ------------------------------
(* Model-checking instances of Callbacks: threads are model values. *)
EXTENDS Callbacks
================================================================================
