--------------------------- MODULE MCProviderSelfTest ---------------------------
(* Model-checking instances of ProviderSelfTest: threads are model values. *)
EXTENDS ProviderSelfTest
================================================================================
