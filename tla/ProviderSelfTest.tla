---------------------------- MODULE ProviderSelfTest ----------------------------
(***************************************************************************)
(* The state machine of the OpenSSL FIPS provider that delegates to        *)
(* libqudo-pqc (openssl/providers/fips/self_test.c) and the ML-KEM key     *)
(* management calls that depend on it (keymgmt/ml_kem_kmgmt.c).            *)
(*                                                                         *)
(* A loader initialises an instance of the provider, which runs the        *)
(* power-on tests unless another instance has, or asks for them again on   *)
(* demand.  A user generates and imports keys as soon as one instance is   *)
(* loaded.  FIPS_state and FIPS_conditional_error_check are shared by all  *)
(* instances; the former is loaded and stored without the lock by          *)
(* everyone but SELF_TEST_post, so each load and each store is a step.     *)
(*                                                                         *)
(* Left out: error reports and their rate limit, the self-test events, the *)
(* creation of the lock (it succeeds) and the unloading of the module.     *)
(***************************************************************************)
EXTENDS Naturals, FiniteSets

CONSTANTS
    Loaders,            \* threads that load the provider and test it
    Users,              \* threads that generate and import keys
    Lenient,            \* loaders whose configuration has conditional-errors = 0
    Nobody

Threads == Loaders \cup Users

ASSUME ProviderThreads ==
    /\ Loaders \cap Users = {}
    /\ Nobody \notin Threads
    /\ Lenient \subseteq Loaders

VARIABLES
    FIPS_state,
    FIPS_conditional_error_check,
    self_test_lock,     \* the writer, or Nobody
    pc,
    on_demand_test,     \* a loader's argument
    ok,                 \* a loader's verdict so far
    ret,                \* what a loader's last call returned
    tested,             \* history: this call of a loader has run all tests
    loaded,             \* history: some instance has been initialised
    last                \* history: the verdict of the last self-test

loader_vars == <<on_demand_test, ok, ret, tested>>
vars == <<FIPS_state, FIPS_conditional_error_check, self_test_lock, pc,
          loader_vars, loaded, last>>

States == {"SELFTEST", "RUNNING", "ERROR"}
TestPcs == {"mark", "config", "integrity", "kats", "verdict"}
LoaderPcs == {"idle", "wait", "locked", "unlock"} \cup TestPcs
UserPcs == {"idle", "g_key", "g_ask", "g_test", "g_error", "g_return",
            "i_key", "i_ask", "i_test", "i_reset"}

TypeOK ==
    /\ FIPS_state \in States
    /\ FIPS_conditional_error_check \in {0, 1}
    /\ self_test_lock \in Loaders \cup {Nobody}
    /\ pc \in [Threads -> LoaderPcs \cup UserPcs]
    /\ \A p \in Loaders : pc[p] \in LoaderPcs
    /\ \A u \in Users : pc[u] \in UserPcs
    /\ on_demand_test \in [Loaders -> BOOLEAN]
    /\ ok \in [Loaders -> BOOLEAN]
    /\ ret \in [Loaders -> {0, 1}]
    /\ tested \in [Loaders -> BOOLEAN]
    /\ loaded \in BOOLEAN
    /\ last \in {"none", "passed", "failed"}

\* The constructor of the shared object has stored SELFTEST.
Init ==
    /\ FIPS_state = "SELFTEST"
    /\ FIPS_conditional_error_check = 1
    /\ self_test_lock = Nobody
    /\ pc = [t \in Threads |-> "idle"]
    /\ on_demand_test = [p \in Loaders |-> FALSE]
    /\ ok = [p \in Loaders |-> FALSE]
    /\ ret = [p \in Loaders |-> 0]
    /\ tested = [p \in Loaders |-> FALSE]
    /\ loaded = FALSE
    /\ last = "none"

-----------------------------------------------------------------------------
Goto(t, label) == pc' = [pc EXCEPT ![t] = label]

\* SELF_TEST_post returns r to loader p.
Return(p, r) ==
    /\ Goto(p, "idle")
    /\ ret' = [ret EXCEPT ![p] = r]
    /\ loaded' = (loaded \/ (r = 1 /\ ~on_demand_test'[p]))

(***************************************************************************)
(* OSSL_provider_init and fips_self_test, up to the lock.                  *)
(***************************************************************************)
\* a variant that asks for the state only
BadPost(p) ==
    /\ tested' = [tested EXCEPT ![p] = FALSE]
    /\ UNCHANGED <<FIPS_state, self_test_lock, ok, last>>
    /\ \/ FIPS_state = "RUNNING" /\ Return(p, 1)
       \/ FIPS_state = "ERROR" /\ Return(p, 0)
       \/ FIPS_state = "SELFTEST" /\ Goto(p, "wait") /\ UNCHANGED <<ret, loaded>>

\* The first, unlocked look at the state.
Post(p) ==
    /\ tested' = [tested EXCEPT ![p] = FALSE]
    /\ UNCHANGED <<FIPS_state, self_test_lock, ok, last>>
    /\ \/ FIPS_state = "RUNNING" /\ ~on_demand_test'[p] /\ Return(p, 1)
       \/ FIPS_state = "ERROR" /\ Return(p, 0)
       \/ /\ FIPS_state = "SELFTEST" \/ (FIPS_state = "RUNNING" /\ on_demand_test'[p])
          /\ Goto(p, "wait")
          /\ UNCHANGED <<ret, loaded>>

\* A new instance; the check is never enabled again.
Load(p) ==
    /\ pc[p] = "idle"
    /\ FIPS_conditional_error_check' =
           IF p \in Lenient THEN 0 ELSE FIPS_conditional_error_check
    /\ on_demand_test' = [on_demand_test EXCEPT ![p] = FALSE]
    /\ Post(p)

\* OSSL_PROVIDER_self_test needs a loaded instance.
SelfTest(p) ==
    /\ pc[p] = "idle"
    /\ loaded
    /\ on_demand_test' = [on_demand_test EXCEPT ![p] = TRUE]
    /\ UNCHANGED FIPS_conditional_error_check
    /\ Post(p)

PostLock(p) ==
    /\ pc[p] = "wait"
    /\ self_test_lock = Nobody
    /\ self_test_lock' = p
    /\ Goto(p, "locked")
    /\ UNCHANGED <<FIPS_state, FIPS_conditional_error_check, loader_vars, loaded,
                   last>>

\* The second look: someone else may have decided meanwhile.
PostDecided(p) ==
    /\ pc[p] = "locked"
    /\ \/ FIPS_state = "RUNNING" /\ ~on_demand_test[p] /\ ok' = [ok EXCEPT ![p] = TRUE]
       \/ FIPS_state = "ERROR" /\ ok' = [ok EXCEPT ![p] = FALSE]
    /\ Goto(p, "unlock")
    /\ UNCHANGED <<FIPS_state, FIPS_conditional_error_check, self_test_lock,
                   on_demand_test, ret, tested, loaded, last>>

PostBegin(p) ==
    /\ pc[p] = "locked"
    /\ \/ FIPS_state = "RUNNING" /\ on_demand_test[p] /\ Goto(p, "mark")
       \/ FIPS_state = "SELFTEST" /\ Goto(p, "config")
    /\ UNCHANGED <<FIPS_state, FIPS_conditional_error_check, self_test_lock,
                   loader_vars, loaded, last>>

\* a variant that goes back to the state before the constructor
BadPostMark(p) ==
    /\ pc[p] = "mark"
    /\ FIPS_state' = "INIT"
    /\ Goto(p, "config")
    /\ UNCHANGED <<FIPS_conditional_error_check, self_test_lock, loader_vars,
                   loaded, last>>

\* The store of SELFTEST, whatever the state is by now.
PostMark(p) ==
    /\ pc[p] = "mark"
    /\ FIPS_state' = "SELFTEST"
    /\ Goto(p, "config")
    /\ UNCHANGED <<FIPS_conditional_error_check, self_test_lock, loader_vars,
                   loaded, last>>

-----------------------------------------------------------------------------
(***************************************************************************)
(* The tests.  Each one may fail, and fails when a primitive it fetches    *)
(* finds the provider in ERROR.                                            *)
(***************************************************************************)
\* a variant that returns early when the configuration is incomplete
BadPostConfig(p) ==
    /\ pc[p] = "config"
    /\ \E good \in BOOLEAN :
           /\ ok' = [ok EXCEPT ![p] = FALSE]
           /\ Goto(p, IF good THEN "integrity" ELSE "unlock")
    /\ UNCHANGED <<FIPS_state, FIPS_conditional_error_check, self_test_lock,
                   on_demand_test, ret, tested, loaded, last>>

\* The module's checksum, path and file.
PostConfig(p) ==
    /\ pc[p] = "config"
    /\ \E good \in BOOLEAN :
           /\ ok' = [ok EXCEPT ![p] = FALSE]
           /\ Goto(p, IF good THEN "integrity" ELSE "verdict")
    /\ UNCHANGED <<FIPS_state, FIPS_conditional_error_check, self_test_lock,
                   on_demand_test, ret, tested, loaded, last>>

\* integrity_self_test and the HMAC of the module.
PostIntegrity(p) ==
    /\ pc[p] = "integrity"
    /\ \E good \in BOOLEAN :
           /\ good => FIPS_state # "ERROR"
           /\ Goto(p, IF good THEN "kats" ELSE "verdict")
    /\ UNCHANGED <<FIPS_state, FIPS_conditional_error_check, self_test_lock,
                   loader_vars, loaded, last>>

\* SELF_TEST_kats, and the check that the DRBG has been restored.
PostKats(p) ==
    /\ pc[p] = "kats"
    /\ \E good \in BOOLEAN :
           /\ good => FIPS_state # "ERROR"
           /\ ok' = [ok EXCEPT ![p] = good]
           /\ tested' = [tested EXCEPT ![p] = good]
    /\ Goto(p, "verdict")
    /\ UNCHANGED <<FIPS_state, FIPS_conditional_error_check, self_test_lock,
                   on_demand_test, ret, loaded, last>>

\* a variant that keeps an earlier RUNNING after a failed test
BadPostVerdict(p) ==
    /\ pc[p] = "verdict"
    /\ FIPS_state' = IF ok[p] \/ on_demand_test[p] THEN "RUNNING" ELSE "ERROR"
    /\ last' = IF ok[p] THEN "passed" ELSE "failed"
    /\ Goto(p, "unlock")
    /\ UNCHANGED <<FIPS_conditional_error_check, self_test_lock, loader_vars, loaded>>

PostVerdict(p) ==
    /\ pc[p] = "verdict"
    /\ FIPS_state' = IF ok[p] THEN "RUNNING" ELSE "ERROR"
    /\ last' = IF ok[p] THEN "passed" ELSE "failed"
    /\ Goto(p, "unlock")
    /\ UNCHANGED <<FIPS_conditional_error_check, self_test_lock, loader_vars, loaded>>

\* a variant that forgets the lock when it returns a failure
BadPostUnlock(p) ==
    /\ pc[p] = "unlock"
    /\ self_test_lock' = IF ok[p] THEN Nobody ELSE self_test_lock
    /\ UNCHANGED <<FIPS_state, FIPS_conditional_error_check, on_demand_test, ok,
                   tested, last>>
    /\ Return(p, IF ok[p] THEN 1 ELSE 0)

PostUnlock(p) ==
    /\ pc[p] = "unlock"
    /\ self_test_lock' = Nobody
    /\ UNCHANGED <<FIPS_state, FIPS_conditional_error_check, on_demand_test, ok,
                   tested, last>>
    /\ Return(p, IF ok[p] THEN 1 ELSE 0)

-----------------------------------------------------------------------------
(***************************************************************************)
(* Users.  ossl_prov_is_running lets SELFTEST through.                     *)
(***************************************************************************)
IsRunning == FIPS_state \in {"RUNNING", "SELFTEST"}

UserGoto(u, from, label) ==
    /\ pc[u] = from
    /\ Goto(u, label)
    /\ UNCHANGED <<FIPS_conditional_error_check, self_test_lock, loader_vars,
                   loaded, last>>

\* ml_kem_gen_init and ml_kem_gen: the gate, and the key.
Gen(u)    == loaded /\ IsRunning /\ UserGoto(u, "idle", "g_key") /\ UNCHANGED FIPS_state
GenKey(u) == \E label \in {"g_ask", "idle"} :
                 UserGoto(u, "g_key", label) /\ UNCHANGED FIPS_state

\* ml_kem_import: the gate, and ml_kem_key_fromdata.
Import(u)    == loaded /\ IsRunning /\ UserGoto(u, "idle", "i_key") /\ UNCHANGED FIPS_state
ImportKey(u) == \E label \in {"i_ask", "idle"} :
                    UserGoto(u, "i_key", label) /\ UNCHANGED FIPS_state

\* ml_kem_pairwise_test: no test while the provider tests itself.
Pairwise(u, ask, test, done) ==
    /\ UserGoto(u, ask, IF FIPS_state = "SELFTEST" THEN done ELSE test)
    /\ UNCHANGED FIPS_state

GenAsk(u)    == Pairwise(u, "g_ask", "g_test", "g_return")
ImportAsk(u) == Pairwise(u, "i_ask", "i_test", "idle")

GenTest(u) == \E label \in {"g_return", "g_error"} :
                  UserGoto(u, "g_test", label) /\ UNCHANGED FIPS_state
ImportTest(u) == \E label \in {"idle", "i_reset"} :
                     UserGoto(u, "i_test", label) /\ UNCHANGED FIPS_state

\* a variant that goes on running after an error that is not to stop the module
BadSetErrorState(u) ==
    /\ UserGoto(u, "g_error", "idle")
    /\ FIPS_state' = IF FIPS_conditional_error_check = 1 THEN "ERROR" ELSE "RUNNING"

\* ossl_set_error_state(PCT); the key is freed.
SetErrorState(u) ==
    /\ UserGoto(u, "g_error", "idle")
    /\ FIPS_state' = IF FIPS_conditional_error_check = 1 THEN "ERROR" ELSE FIPS_state

\* ossl_set_error_state(PCT_IMPORT) is transient; the key is reset.
ImportReset(u) == UserGoto(u, "i_reset", "idle") /\ UNCHANGED FIPS_state

\* The caller has a new key.
GenReturn(u) == UserGoto(u, "g_return", "idle") /\ UNCHANGED FIPS_state

-----------------------------------------------------------------------------
PostStep(p) ==
    \/ PostDecided(p) \/ PostBegin(p) \/ PostMark(p) \/ PostConfig(p)
    \/ PostIntegrity(p) \/ PostKats(p) \/ PostVerdict(p) \/ PostUnlock(p)

UserStep(u) ==
    \/ Gen(u) \/ GenKey(u) \/ GenAsk(u) \/ GenTest(u) \/ SetErrorState(u)
    \/ GenReturn(u) \/ Import(u) \/ ImportKey(u) \/ ImportAsk(u) \/ ImportTest(u)
    \/ ImportReset(u)

Next ==
    \/ \E p \in Loaders : Load(p) \/ SelfTest(p) \/ PostLock(p) \/ PostStep(p)
    \/ \E u \in Users : UserStep(u)

\* The operating system runs a thread that holds the lock.
Spec == Init /\ [][Next]_vars /\ \A p \in Loaders : WF_vars(PostStep(p))

-----------------------------------------------------------------------------
\* The provider is RUNNING only if the self-test that ended last has passed,
\* through any number of instances and tests on demand.
RunningIsTested == FIPS_state = "RUNNING" => last = "passed"

\* SELF_TEST_post with on_demand_test returns 1 only if the call has itself run
\* every test, however many other tests are going on.
OnDemandIsTested ==
    \A p \in Loaders :
        pc[p] = "idle" /\ on_demand_test[p] /\ ret[p] = 1 => tested[p]

\* Once an instance is loaded the provider is in SELFTEST only while a thread
\* that holds the lock runs the tests: a generated key escapes the pairwise test
\* of ml_kem_gen, which asks ossl_fips_self_testing, only during those.
SelfTestIsHeld ==
    loaded /\ FIPS_state = "SELFTEST" =>
        \E p \in Loaders : self_test_lock = p /\ pc[p] \in TestPcs

\* ERROR is left only by a self-test that had looked at the state before, or
\* passed its tests before, the error was entered; never with the lock free.
\* SELF_TEST_post refuses a test that is asked for in ERROR, so the "successful
\* on-demand self-test" of docs/security-policy.md does not clear it.
ProviderLatchHolds ==
    [][FIPS_state = "ERROR" /\ FIPS_state' # "ERROR" =>
           \E p \in Loaders : /\ self_test_lock = p
                              /\ \/ pc[p] = "mark"
                                 \/ pc[p] = "verdict" /\ tested[p]]_vars

\* Every path through SELF_TEST_post gives the lock back.
PostReleases == \A p \in Loaders : self_test_lock = p ~> self_test_lock # p
===============================================================================
