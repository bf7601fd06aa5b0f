--------------------------- MODULE FiniteStateModel ---------------------------
(***************************************************************************)
(* What the life cycle of the cryptographic module promises: four states,  *)
(* and whether self-tests are in progress.  A freshly loaded module is in  *)
(* SELFTEST although no test has begun.                                    *)
(***************************************************************************)
VARIABLES state, testing

Init == state = "SELFTEST" /\ testing = FALSE

\* qudo_pqc_init, or qudo_pqc_self_test, starts the tests.
StartTests ==
    /\ ~testing /\ state # "ERROR"
    /\ state' = "SELFTEST" /\ testing' = TRUE

\* A test enters ERROR before the verdict is stored.
DetectFailure ==
    /\ testing
    /\ state' = "ERROR" /\ testing' = TRUE

\* The verdict; a failure already detected stands.
FinishTests ==
    /\ testing /\ testing' = FALSE
    /\ state' \in {"RUNNING", "ERROR"}
    /\ state = "ERROR" => state' = "ERROR"

\* qudo_pqc_fini: not while tests are in progress, and not out of ERROR.
Finish ==
    /\ ~testing /\ state # "ERROR"
    /\ state' = "INIT" /\ testing' = FALSE

\* The module is unloaded and loaded again.
Load ==
    /\ ~testing
    /\ state' = "SELFTEST" /\ testing' = FALSE

Next == StartTests \/ DetectFailure \/ FinishTests \/ Finish \/ Load

Spec == Init /\ [][Next]_<<state, testing>>
=============================================================================
