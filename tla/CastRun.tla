-------------------------------- MODULE CastRun --------------------------------
(***************************************************************************)
(* The on-demand conditional self-tests of libqudo-pqc                     *)
(* (qudo_pqc_run_all_casts) on top of the algorithm wrappers, whose        *)
(* dispatch each family initialises once, under a lock of its own, when    *)
(* the first handle is made (QUDO_KEM_init, QUDO_MLDSA_init).  The         *)
(* power-on tests go through the same handles and write the same table of  *)
(* CAST results.                                                           *)
(*                                                                         *)
(* Application threads run the CASTs, call the wrappers' init and cleanup, *)
(* and seed or clean up the DRBG themselves, which no gate forbids; one    *)
(* officer initialises, tests and finalises the module.                    *)
(* Races between officers and the steps of their lock are in module        *)
(* QudoModule; here an officer's critical section decides and stores in    *)
(* one step, and a report of the ERROR state is a step only where its      *)
(* thread holds a dispatch lock.  Conditional errors are enabled, as they  *)
(* are unless the configuration says otherwise.  The families that have no *)
(* function table (ML-KEM, SLH-DSA) only probe the processor in their init.*)
(***************************************************************************)
EXTENDS Naturals, Sequences

CONSTANTS
    Apps,               \* application threads
    Officer,            \* the thread that manages the module
    Nobody,
    CastFamily,         \* the CASTs in their order, each with its family
    GateOnly,           \* the families whose pairwise test asks the state gate alone
    Managers,           \* the threads that also call init, cleanup and the DRBG
    Faults              \* what may go wrong: a subset of FaultKinds

Threads == Apps \cup {Officer}
Casts == 1 .. Len(CastFamily)
Families == {CastFamily[c] : c \in Casts}
FaultKinds == {"kat", "draw", "pct"}

ASSUME CastThreads == Officer \notin Apps /\ Nobody \notin Threads
                      /\ Managers \subseteq Apps
ASSUME CastFaults == Faults \subseteq FaultKinds
ASSUME CastSequence == CastFamily \in Seq(Families) \ {<< >>}
                       /\ GateOnly \subseteq Families

VARIABLES
    g_module_state,
    g_fips_rand_ready,
    g_cast_status,
    g_init_state,       \* per family: 2 once its init has succeeded
    g_init_lock,        \* per family: the holder, or Nobody
    dispatch,           \* per family: has its table been filled?
    pc, op,
    at,                 \* the CAST, or the test, a thread is at
    good,               \* the verdict of an application's CAST
    ok,                 \* the result of its run so far
    warranted,          \* history: this CAST has run a pairwise test, or the
                        \* module has tested itself meanwhile
    clean,              \* history: nobody else has written the table since this
                        \* thread began its run
    begun               \* history: a self-test has begun since the load

module_vars == <<g_module_state, g_fips_rand_ready>>
init_vars   == <<g_init_state, g_init_lock, dispatch>>
run_vars    == <<op, at, good, ok>>
vars == <<module_vars, g_cast_status, init_vars, pc, run_vars, warranted, clean,
          begun>>

NewPcs == {"n_gate", "n_load", "n_wait", "n_test", "n_report"}
Pcs == NewPcs \cup {"idle", "c_mark", "c_keypair", "c_ask", "c_ctx", "c_pct",
                    "c_ask2", "c_ctx2", "c_pct2", "c_store", "c_return", "o_seed", "o_kat",
                    "o_mark", "o_store", "o_fail"}

TypeOK ==
    /\ g_module_state \in {"INIT", "SELFTEST", "RUNNING", "ERROR"}
    /\ g_fips_rand_ready \in BOOLEAN
    /\ g_cast_status \in [Casts -> {"INIT", "PROCESSING", "SUCCESS", "FAILURE"}]
    /\ g_init_state \in [Families -> {0, 2}]
    /\ g_init_lock \in [Families -> Threads \cup {Nobody}]
    /\ dispatch \in [Families -> BOOLEAN]
    /\ pc \in [Threads -> Pcs]
    /\ op \in [Threads -> {"none", "casts", "init", "post"}]
    /\ at \in [Threads -> Casts]
    /\ good \in [Apps -> BOOLEAN] /\ ok \in [Apps -> BOOLEAN]
    /\ warranted \in [Apps -> BOOLEAN]
    /\ clean \in [Apps -> BOOLEAN]
    /\ begun \in BOOLEAN

\* A freshly loaded module: the constructor has stored SELFTEST.
Init ==
    /\ g_module_state = "SELFTEST"
    /\ g_fips_rand_ready = FALSE
    /\ g_cast_status = [c \in Casts |-> "INIT"]
    /\ g_init_state = [f \in Families |-> 0]
    /\ g_init_lock = [f \in Families |-> Nobody]
    /\ dispatch = [f \in Families |-> FALSE]
    /\ pc = [t \in Threads |-> "idle"]
    /\ op = [t \in Threads |-> "none"]
    /\ at = [t \in Threads |-> 1]
    /\ good = [a \in Apps |-> FALSE] /\ ok = [a \in Apps |-> FALSE]
    /\ warranted = [a \in Apps |-> FALSE]
    /\ clean = [a \in Apps |-> FALSE]
    /\ begun = FALSE

-----------------------------------------------------------------------------
Goto(t, label) == pc' = [pc EXCEPT ![t] = label]

\* The officer runs the power-on tests, with g_self_test_lock held.
Testing == op[Officer] = "post"

GateOpen == g_module_state \in {"RUNNING", "SELFTEST"}

\* ... and the DRBG that a key generation or a dispatch initialisation draws from.
ServiceOpen == GateOpen /\ g_fips_rand_ready

SelfTesting == g_module_state = "SELFTEST"

(***************************************************************************)
(* A handle: QUDO_KEM_new, QUDO_MLDSA_new, and the init they call.  The    *)
(* thread goes on according to what it wants the handle for.               *)
(***************************************************************************)
Fam(t) == CastFamily[at[t]]

\* Where thread t goes on with a handle (made) or without one.
AfterNew(t, made) ==
    /\ Goto(t, CASE op[t] = "init"  -> "idle"
                 [] op[t] = "casts" -> IF made THEN "c_keypair" ELSE "c_store"
                 [] OTHER           -> IF made THEN "o_kat" ELSE "o_fail")
    /\ op' = [op EXCEPT ![t] = IF @ = "init" THEN "none" ELSE @]
    /\ at' = [at EXCEPT ![t] = IF op[t] = "init" THEN 1 ELSE @]
    /\ UNCHANGED <<module_vars, g_cast_status, good, ok>>

Stay(t, label) ==
    /\ Goto(t, label)
    /\ UNCHANGED <<module_vars, g_cast_status, run_vars>>

NewGate(t) ==
    /\ pc[t] = "n_gate"
    /\ IF GateOpen THEN Stay(t, "n_load") ELSE AfterNew(t, FALSE)
    /\ UNCHANGED init_vars

\* The load without the lock.
NewLoad(t) ==
    /\ pc[t] = "n_load"
    /\ IF g_init_state[Fam(t)] = 2 THEN AfterNew(t, TRUE) ELSE Stay(t, "n_wait")
    /\ UNCHANGED init_vars

\* Another thread has finished while this one waited: unlock and return.
NewDecided(t) ==
    /\ pc[t] = "n_wait"
    /\ g_init_lock[Fam(t)] = Nobody
    /\ g_init_state[Fam(t)] = 2
    /\ AfterNew(t, TRUE)
    /\ UNCHANGED init_vars

\* Fill the table under the lock.
NewFill(t) ==
    /\ pc[t] = "n_wait"
    /\ g_init_lock[Fam(t)] = Nobody
    /\ g_init_state[Fam(t)] # 2
    /\ g_init_lock' = [g_init_lock EXCEPT ![Fam(t)] = t]
    /\ dispatch' = [dispatch EXCEPT ![Fam(t)] = TRUE]
    /\ Stay(t, "n_test")
    /\ UNCHANGED g_init_state

\* a variant that returns without unlocking when the draw fails
BadNewFails(t) ==
    /\ \/ pc[t] = "n_test" /\ (~ServiceOpen \/ "draw" \in Faults)
       \/ pc[t] = "n_report" /\ (t = Officer \/ ~Testing)
    /\ AfterNew(t, FALSE)
    /\ UNCHANGED init_vars

\* No randomness: the lock is released and there is no handle.
NewFails(t) ==
    /\ \/ pc[t] = "n_test" /\ (~ServiceOpen \/ "draw" \in Faults)
       \/ pc[t] = "n_report" /\ (t = Officer \/ ~Testing)
    /\ g_init_lock' = [g_init_lock EXCEPT ![Fam(t)] = Nobody]
    /\ AfterNew(t, FALSE)
    /\ UNCHANGED <<g_init_state, dispatch>>

\* The gate of the draw finds ERROR and reports it, which takes the read lock:
\* the step above then waits for a self-test in progress.
NewReports(t) ==
    /\ pc[t] = "n_test"
    /\ g_module_state = "ERROR" /\ g_fips_rand_ready
    /\ Stay(t, "n_report")
    /\ UNCHANGED init_vars

NewReady(t) ==
    /\ pc[t] = "n_test"
    /\ ServiceOpen
    /\ g_init_state' = [g_init_state EXCEPT ![Fam(t)] = 2]
    /\ g_init_lock' = [g_init_lock EXCEPT ![Fam(t)] = Nobody]
    /\ AfterNew(t, TRUE)
    /\ UNCHANGED dispatch

\* QUDO_KEM_init or QUDO_MLDSA_init called by the application.
WrapperInit(a) ==
    /\ pc[a] = "idle"
    /\ \E c \in Casts : at' = [at EXCEPT ![a] = c]
    /\ op' = [op EXCEPT ![a] = "init"]
    /\ Goto(a, "n_load")
    /\ UNCHANGED <<module_vars, g_cast_status, init_vars, good, ok>>

\* a variant that clears the table as well
BadWrapperCleanup(a) ==
    /\ pc[a] = "idle"
    /\ \E f \in Families :
           /\ g_init_lock[f] = Nobody
           /\ g_init_state[f] = 2
           /\ g_init_state' = [g_init_state EXCEPT ![f] = 0]
           /\ dispatch' = [dispatch EXCEPT ![f] = FALSE]
    /\ UNCHANGED <<module_vars, g_cast_status, g_init_lock, pc, run_vars>>

\* QUDO_KEM_cleanup or QUDO_MLDSA_cleanup: the table stays filled.
WrapperCleanup(a) ==
    /\ pc[a] = "idle"
    /\ \E f \in Families :
           /\ g_init_lock[f] = Nobody
           /\ g_init_state[f] = 2
           /\ g_init_state' = [g_init_state EXCEPT ![f] = 0]
    /\ UNCHANGED <<module_vars, g_cast_status, g_init_lock, dispatch, pc, run_vars>>

-----------------------------------------------------------------------------
(***************************************************************************)
(* qudo_pqc_run_all_casts: for each CAST mark it, make a handle, generate  *)
(* a key pair, which runs a pairwise test of its own, test the pair again, *)
(* and store the verdict.                                                  *)
(***************************************************************************)
RunCall(a) ==
    /\ pc[a] = "idle"
    /\ op' = [op EXCEPT ![a] = "casts"]
    /\ at' = [at EXCEPT ![a] = 1]
    /\ ok' = [ok EXCEPT ![a] = TRUE]
    /\ Goto(a, "c_mark")
    /\ UNCHANGED <<module_vars, g_cast_status, init_vars, good>>

CastMark(a) ==
    /\ pc[a] = "c_mark"
    /\ g_cast_status' = [g_cast_status EXCEPT ![at[a]] = "PROCESSING"]
    /\ Goto(a, "n_gate")
    /\ UNCHANGED <<module_vars, init_vars, run_vars>>

CastKeypair(a) ==
    /\ pc[a] = "c_keypair"
    /\ \/ ServiceOpen /\ Goto(a, "c_ask")
       \/ (~ServiceOpen \/ "draw" \in Faults) /\ Goto(a, "c_store")
    /\ UNCHANGED <<module_vars, g_cast_status, init_vars, run_vars>>

\* The state is asked before each of the two pairwise tests: during a self-test
\* both count as passed.
CastAsk(a) ==
    \/ /\ pc[a] = "c_ask"
       /\ Goto(a, IF SelfTesting THEN "c_ask2" ELSE "c_ctx")
       /\ UNCHANGED <<module_vars, g_cast_status, init_vars, run_vars>>
    \/ /\ pc[a] = "c_ask2"
       /\ Goto(a, IF SelfTesting THEN "c_store" ELSE "c_ctx2")
       /\ good' = [good EXCEPT ![a] = SelfTesting]
       /\ UNCHANGED <<module_vars, g_cast_status, init_vars, op, at, ok>>

\* qudo_pqc_get_st_ctx takes the read lock.
CastContext(a) ==
    /\ ~Testing
    /\ \/ pc[a] = "c_ctx" /\ Goto(a, "c_pct")
       \/ pc[a] = "c_ctx2" /\ Goto(a, "c_pct2")
    /\ UNCHANGED <<module_vars, g_cast_status, init_vars, run_vars>>

\* The entry points that the pairwise test of the CAST calls are open: key
\* encapsulation and SLH-DSA ask the DRBG as well, ML-DSA signing does not.
PctOpen(a) == GateOpen /\ (g_fips_rand_ready \/ Fam(a) \in GateOnly)

PctPasses(a) ==
    /\ pc[a] \in {"c_pct", "c_pct2"}
    /\ PctOpen(a)
    /\ good' = [good EXCEPT ![a] = pc[a] = "c_pct2"]
    /\ Goto(a, IF pc[a] = "c_pct" THEN "c_ask2" ELSE "c_store")
    /\ UNCHANGED <<module_vars, g_cast_status, init_vars, op, at, ok>>

\* Key generation enters ERROR when its test fails; the CAST itself does not.
PctFails(a) ==
    /\ pc[a] \in {"c_pct", "c_pct2"}
    /\ ~PctOpen(a) \/ "pct" \in Faults
    /\ g_module_state' = IF pc[a] = "c_pct" THEN "ERROR" ELSE g_module_state
    /\ Goto(a, "c_store")
    /\ UNCHANGED <<g_fips_rand_ready, g_cast_status, init_vars, run_vars>>

\* On to the next CAST, or to the end of the run.
NextCast(a) ==
    /\ at' = [at EXCEPT ![a] = IF @ = Len(CastFamily) THEN 1 ELSE @ + 1]
    /\ Goto(a, IF at[a] = Len(CastFamily) THEN "c_return" ELSE "c_mark")
    /\ good' = [good EXCEPT ![a] = FALSE]
    /\ UNCHANGED <<module_vars, init_vars, op>>

\* a variant that stores a result only for a CAST that passes
BadCastStore(a) ==
    /\ pc[a] = "c_store"
    /\ g_cast_status' =
           [g_cast_status EXCEPT ![at[a]] = IF good[a] THEN "SUCCESS" ELSE @]
    /\ ok' = [ok EXCEPT ![a] = @ /\ good[a]]
    /\ NextCast(a)

\* a variant that returns the result of the last CAST
LastCastStore(a) ==
    /\ pc[a] = "c_store"
    /\ g_cast_status' = [g_cast_status EXCEPT ![at[a]] =
                             IF good[a] THEN "SUCCESS" ELSE "FAILURE"]
    /\ ok' = [ok EXCEPT ![a] = good[a]]
    /\ NextCast(a)

CastStore(a) ==
    /\ pc[a] = "c_store"
    /\ g_cast_status' = [g_cast_status EXCEPT ![at[a]] =
                             IF good[a] THEN "SUCCESS" ELSE "FAILURE"]
    /\ ok' = [ok EXCEPT ![a] = @ /\ good[a]]
    /\ NextCast(a)

\* The caller has the result.
CastReturn(a) ==
    /\ pc[a] = "c_return"
    /\ op' = [op EXCEPT ![a] = "none"]
    /\ ok' = [ok EXCEPT ![a] = FALSE]
    /\ Goto(a, "idle")
    /\ UNCHANGED <<module_vars, g_cast_status, init_vars, at, good>>

-----------------------------------------------------------------------------
(***************************************************************************)
(* The officer: qudo_pqc_init and qudo_pqc_self_test as far as they seed   *)
(* the DRBG and make handles, and qudo_pqc_fini.                           *)
(***************************************************************************)
OfficerGoto(label) ==
    /\ Goto(Officer, label)
    /\ UNCHANGED <<init_vars, good, ok>>

\* Only an init seeds.
PostCall ==
    /\ pc[Officer] = "idle"
    /\ g_module_state # "ERROR"
    /\ g_module_state' = "SELFTEST"
    /\ op' = [op EXCEPT ![Officer] = "post"]
    /\ at' = [at EXCEPT ![Officer] = 1]
    /\ OfficerGoto(IF g_module_state = "RUNNING" THEN "n_gate" ELSE "o_seed")
    /\ UNCHANGED <<g_fips_rand_ready, g_cast_status>>

PostSeed ==
    /\ pc[Officer] = "o_seed"
    /\ \/ g_fips_rand_ready' = TRUE /\ OfficerGoto("n_gate")
       \/ "draw" \in Faults /\ OfficerGoto("o_fail") /\ UNCHANGED g_fips_rand_ready
    /\ UNCHANGED <<g_module_state, g_cast_status, op, at>>

\* The known-answer tests with the handle; the next family, or the table.
PostKat ==
    /\ pc[Officer] = "o_kat"
    /\ \/ /\ ServiceOpen
          /\ at' = [at EXCEPT ![Officer] = IF @ = Len(CastFamily) THEN 1 ELSE @ + 1]
          /\ OfficerGoto(IF at[Officer] = Len(CastFamily) THEN "o_mark" ELSE "n_gate")
       \/ /\ ~ServiceOpen \/ "kat" \in Faults
          /\ OfficerGoto("o_fail")
          /\ UNCHANGED at
    /\ UNCHANGED <<module_vars, g_cast_status, op>>

\* a variant that goes one CAST too far
BadPostMark ==
    /\ pc[Officer] = "o_mark"
    /\ g_cast_status' = [g_cast_status EXCEPT ![at[Officer]] = "SUCCESS"]
    /\ at' = [at EXCEPT ![Officer] = IF @ > Len(CastFamily) THEN 1 ELSE @ + 1]
    /\ OfficerGoto(IF at[Officer] > Len(CastFamily) THEN "o_store" ELSE "o_mark")
    /\ UNCHANGED <<module_vars, op>>

PostMark ==
    /\ pc[Officer] = "o_mark"
    /\ g_cast_status' = [g_cast_status EXCEPT ![at[Officer]] = "SUCCESS"]
    /\ at' = [at EXCEPT ![Officer] = IF @ = Len(CastFamily) THEN 1 ELSE @ + 1]
    /\ OfficerGoto(IF at[Officer] = Len(CastFamily) THEN "o_store" ELSE "o_mark")
    /\ UNCHANGED <<module_vars, op>>

PostVerdict ==
    /\ pc[Officer] \in {"o_store", "o_fail"}
    /\ g_module_state' = IF pc[Officer] = "o_store" THEN "RUNNING" ELSE "ERROR"
    /\ op' = [op EXCEPT ![Officer] = "none"]
    /\ at' = [at EXCEPT ![Officer] = 1]
    /\ OfficerGoto("idle")
    /\ UNCHANGED <<g_fips_rand_ready, g_cast_status>>

\* a variant that goes back to the state that the constructor stores
BadFini ==
    /\ pc[Officer] = "idle"
    /\ g_module_state' = IF g_module_state = "ERROR" THEN "ERROR" ELSE "SELFTEST"
    /\ g_fips_rand_ready' = FALSE
    /\ UNCHANGED <<g_cast_status, init_vars, pc, run_vars>>

\* ERROR is kept; the DRBG is cleaned up; the CAST results and the dispatch tables are not touched.
Fini ==
    /\ pc[Officer] = "idle"
    /\ g_module_state' = IF g_module_state = "ERROR" THEN "ERROR" ELSE "INIT"
    /\ g_fips_rand_ready' = FALSE
    /\ UNCHANGED <<g_cast_status, init_vars, pc, run_vars>>

-----------------------------------------------------------------------------
(***************************************************************************)
(* The DRBG in an application's hands: qudo_pqc_rand_seed_from_platform    *)
(* and qudo_pqc_rand_cleanup ask no gate, and qudo_pqc_rand_init, which    *)
(* does, has no other effect than the seeding.  Unhealthy entropy enters   *)
(* ERROR.                                                                  *)
(***************************************************************************)
RandSeed(a) ==
    /\ pc[a] = "idle"
    /\ g_fips_rand_ready' = TRUE
    /\ UNCHANGED <<g_module_state, g_cast_status, init_vars, pc, run_vars>>

RandUnhealthy(a) ==
    /\ pc[a] = "idle"
    /\ "draw" \in Faults
    /\ g_module_state' = "ERROR"
    /\ UNCHANGED <<g_fips_rand_ready, g_cast_status, init_vars, pc, run_vars>>

RandCleanup(a) ==
    /\ pc[a] = "idle"
    /\ g_fips_rand_ready
    /\ g_fips_rand_ready' = FALSE
    /\ UNCHANGED <<g_module_state, g_cast_status, init_vars, pc, run_vars>>

-----------------------------------------------------------------------------
\* The steps of a call that has been made.
Progress(t) ==
    \/ NewGate(t) \/ NewLoad(t) \/ NewDecided(t) \/ NewFill(t)
    \/ NewFails(t) \/ NewReports(t) \/ NewReady(t)
    \/ t \in Apps /\ (\/ CastMark(t) \/ CastKeypair(t) \/ CastAsk(t)
                      \/ CastContext(t) \/ PctPasses(t) \/ PctFails(t) \/ CastStore(t)
                      \/ CastReturn(t))
    \/ t = Officer /\ (PostSeed \/ PostKat \/ PostMark \/ PostVerdict)

Step ==
    \/ \E a \in Apps : RunCall(a)
    \/ \E a \in Managers : \/ WrapperInit(a) \/ WrapperCleanup(a)
                           \/ RandSeed(a) \/ RandUnhealthy(a) \/ RandCleanup(a)
    \/ PostCall \/ Fini
    \/ \E t \in Threads : Progress(t)

\* The history variables follow every step.
Observe ==
    /\ warranted' = [a \in Apps |->
                       /\ op'[a] = "casts" /\ pc'[a] \notin {"c_mark", "c_return"}
                       /\ \/ warranted[a] \/ Testing'
                          \/ pc[a] \in {"c_pct", "c_pct2"} /\ pc'[a] # pc[a]]
    /\ clean' = [a \in Apps |->
                    /\ op'[a] = "casts" /\ (clean[a] \/ op[a] # "casts")
                    /\ ~Testing'
                    /\ \A b \in Apps \ {a} : op'[b] # "casts"]
    /\ begun' = (begun \/ Testing')

Next == Step /\ Observe

\* The operating system runs every thread, and a thread that waits for a lock
\* that stays free takes it (every step of a call moves its thread's pc or at);
\* nothing is assumed of the callers.
Spec ==
    /\ Init /\ [][Next]_vars
    /\ \A t \in Threads : WF_<<pc, at>>(Progress(t))

-----------------------------------------------------------------------------
\* A module that is RUNNING has every dispatch table filled, so that the entry
\* points that take no handle (QUDO_MLDSA_ML_DSA_44_keypair_internal, ...) call
\* through it safely, whatever init and cleanup the application does.
RunningIsDispatched ==
    g_module_state = "RUNNING" => \A f \in Families : dispatch[f]

\* A CAST is PROCESSING only while some thread processes it: every way out of
\* a CAST stores a result, also with several runs and a self-test at once.
NoStaleProcessing ==
    \A c \in Casts : g_cast_status[c] = "PROCESSING" =>
        \E a \in Apps : /\ op[a] = "casts" /\ at[a] = c
                        /\ pc[a] \notin {"c_mark", "c_return"}

\* What qudo_pqc_run_all_casts returns is what the table says, unless another
\* run or a self-test has written the table since the run began.
VerdictMatchesTable ==
    \A a \in Apps : pc[a] = "c_return" /\ clean[a] =>
        (ok[a] <=> \A c \in Casts : g_cast_status[c] = "SUCCESS")

\* Once the module has begun to test itself, a CAST passes without a pairwise
\* test only if the module has been testing itself meanwhile.  Before that the
\* SELFTEST that a module is loaded with skips the pairwise tests of whoever has
\* seeded the DRBG; no later step brings that state back.
SuccessMeansTested ==
    \A a \in Apps :
        pc[a] = "c_store" /\ good[a] => warranted[a] \/ ~begun

\* A dispatch lock is given back, or its holder has met the ERROR state in the
\* draw that it tests the DRBG with and waits to report it.
DispatchLockReleased ==
    \A f \in Families :
        g_init_lock[f] # Nobody ~>
            g_init_lock[f] = Nobody \/ pc[g_init_lock[f]] = "n_report"

-----------------------------------------------------------------------------
\* "Multiple threads can use different instances simultaneously"
\* (docs/reference/API.md): whatever happens, a thread that makes an instance
\* does not lock the others out for good.
NeverLockedOut ==
    \A f \in Families : g_init_lock[f] # Nobody ~> g_init_lock[f] = Nobody
===============================================================================
