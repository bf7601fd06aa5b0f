----------------------------- MODULE MCQudoModule -----------------------------
(* Model-checking instances of QudoModule: threads are model values. *)
EXTENDS QudoModule
=============================================================================
