------------------------------ MODULE QudoModule ------------------------------
(***************************************************************************)
(* The life cycle of the libqudo-pqc cryptographic module                  *)
(* (qudo-pqc-lib/src/qudo_pqc_init.c) in its FIPS build, together with the *)
(* key-generation service that depends on it (the QUDO_*_keypair entry     *)
(* points and the pairwise consistency test of qudo_pqc_pct.c).            *)
(*                                                                         *)
(* Officer threads call qudo_pqc_init, qudo_pqc_self_test, qudo_pqc_fini   *)
(* and qudo_pqc_unregister_callbacks; user threads generate key pairs and  *)
(* call the exported qudo_pqc_rand_seed_from_platform, _rand_init and      *)
(* _rand_cleanup, which share the DRBG with everyone else.                 *)
(* Every atomic load or store of a variable another thread may touch       *)
(* without the lock is a step of its own; what only the lock holder sees   *)
(* is merged with the step that precedes it.                               *)
(*                                                                         *)
(* Left out: the audit log, the CAST status table and the text of the      *)
(* reports.  The DRBG is reduced to its two flags (ready, health_failed).  *)
(***************************************************************************)
EXTENDS Naturals, FiniteSets

CONSTANTS
    Officers,          \* threads that manage the module
    Users,             \* application threads: key pairs and the DRBG
    NoThread,          \* the lock, or the callbacks, belong to nobody
    Faults,            \* what may go wrong: a subset of FaultKinds
    FiniBeforeInit,    \* may qudo_pqc_fini be called before any qudo_pqc_init?
    ErrorReportLimit   \* QUDO_ERROR_REPORT_LIMIT (10 in the code)

Threads == Officers \cup Users

FaultKinds == {"integrity", "kat", "entropy", "pct"}

ASSUME ThreadsAssumption ==
    /\ Officers \cap Users = {}
    /\ NoThread \notin Threads
ASSUME FaultsAssumption == Faults \subseteq FaultKinds
ASSUME FiniAssumption == FiniBeforeInit \in BOOLEAN
ASSUME LimitAssumption == ErrorReportLimit \in Nat

VARIABLES
    g_module_state,             \* the atomic module state
    g_config_set,               \* an init has supplied a configuration
    g_conditional_error_check,  \* does a PCT failure enter ERROR?
    g_error_report_count,       \* reports already made in ERROR
    g_cb,                       \* whose callbacks are registered
    g_post,                     \* POST evidence flags (integrity, drbg)
    g_fips_rand_ready,          \* the DRBG is seeded
    g_health_failed,            \* the entropy source has failed a health test
    g_self_test_lock,           \* has the lock been created?
    writer,                     \* thread that holds the lock for writing
    stray,                      \* the lock was unlocked by a thread without it
    released,                   \* threads whose own rdunlock gave up their write lock
    pc,                         \* where each thread is
    op,                         \* the call an officer is in
    ok,                         \* an officer's self-test verdict
    cond,                       \* config->conditional_errors of an init call
    key,                        \* the key pair in a user's buffer
    latched,                    \* history: ERROR has been seen with the lock free
                                \* and no fini about to store INIT
    begun,                      \* history: a self-test has begun since the load
    drbg_seen                   \* history: an officer's self-test under way has had
                                \* a seeded DRBG

module_vars == <<g_config_set, g_conditional_error_check, g_cb, g_post>>
rand_vars   == <<g_fips_rand_ready, g_health_failed>>
lock_vars   == <<g_self_test_lock, writer, stray, released>>
local_vars  == <<op, ok, cond, key>>
history     == <<latched, begun, drbg_seen>>
vars == <<g_module_state, g_error_report_count, module_vars, rand_vars,
          lock_vars, pc, local_vars, history>>

States == {"INIT", "SELFTEST", "RUNNING", "ERROR"}

\* Where an officer may be.
CheckPcs    == {"i_check", "s_check", "f_clear"}
SelfTestPcs == {"st_integrity", "st_primitives", "st_seed", "st_rand_init",
                "st_keygen", "st_keygen_pct", "st_kats", "st_pct",
                "st_report_inc", "st_report_lock", "st_store"}
CriticalPcs == CheckPcs \cup SelfTestPcs
                   \cup {"i_store", "s_store", "st_unlock", "f_store", "f_unlock"}
OfficerPcs  == CriticalPcs
                   \cup {"idle", "i_load", "i_cb_wait", "i_wait", "s_wait",
                         "f_wait", "f_rand", "f_clean", "stuck"}
\* Where a user may be.
UserPcs     == {"idle", "k_draw", "k_made", "k_st_ctx", "k_pct", "k_fail",
                "k_return", "k_report_inc", "k_report_lock", "r_init", "r_clean"}

Ops == {"none", "init", "self_test", "fini", "fini_nolock"}

Keys == {"none", "untested", "tested"}

TypeOK ==
    /\ g_module_state \in States
    /\ g_config_set \in BOOLEAN
    /\ g_conditional_error_check \in BOOLEAN
    /\ g_error_report_count \in Nat
    /\ g_cb \in Officers \cup {NoThread}
    /\ g_post \in [integrity : BOOLEAN, drbg : BOOLEAN]
    /\ g_fips_rand_ready \in BOOLEAN
    /\ g_health_failed \in BOOLEAN
    /\ g_self_test_lock \in BOOLEAN
    /\ writer \in Officers \cup {NoThread}
    /\ stray \in BOOLEAN
    /\ released \subseteq Officers
    /\ pc \in [Threads -> OfficerPcs \cup UserPcs]
    /\ op \in [Officers -> Ops]
    /\ ok \in [Officers -> BOOLEAN]
    /\ cond \in [Officers -> BOOLEAN]
    /\ key \in [Users -> Keys]
    /\ latched \in BOOLEAN /\ begun \in BOOLEAN
    /\ drbg_seen \in [Officers -> BOOLEAN]

(***************************************************************************)
(* The values of a freshly loaded module: the static initialisers, after   *)
(* the constructor qudo_dep_init has stored SELFTEST.                      *)
(***************************************************************************)
Init ==
    /\ g_module_state = "SELFTEST"
    /\ g_config_set = FALSE
    /\ g_conditional_error_check = TRUE
    /\ g_error_report_count = 0
    /\ g_cb = NoThread
    /\ g_post = [integrity |-> FALSE, drbg |-> FALSE]
    /\ g_fips_rand_ready = FALSE
    /\ g_health_failed = FALSE
    /\ g_self_test_lock = FALSE
    /\ writer = NoThread
    /\ stray = FALSE
    /\ released = {}
    /\ pc = [t \in Threads |-> "idle"]
    /\ op = [o \in Officers |-> "none"]
    /\ ok = [o \in Officers |-> FALSE]
    /\ cond = [o \in Officers |-> FALSE]
    /\ key = [u \in Users |-> "none"]
    /\ latched = FALSE /\ begun = FALSE
    /\ drbg_seen = [o \in Officers |-> FALSE]

-----------------------------------------------------------------------------
(***************************************************************************)
(* The lock.  A reader's critical section only copies pointers, so it is   *)
(* one step that needs the lock free of writers.  pthread_rwlock_unlock by *)
(* a thread that does not hold the lock is undefined: the lock gains a     *)
(* phantom reader and a later writer may or may not be admitted, so once   *)
(* "stray" is set no fairness is assumed of the lock.                      *)
(***************************************************************************)
Goto(t, label) == pc' = [pc EXCEPT ![t] = label]

\* a variant that goes on when the lock is refused
BadWrLock(t) ==
    /\ writer' = t
    /\ UNCHANGED <<g_self_test_lock, stray, released>>

WrLock(t) ==
    /\ writer = NoThread
    /\ writer' = t
    /\ UNCHANGED <<g_self_test_lock, stray, released>>

Unlock(t) ==
    /\ IF writer = t THEN writer' = NoThread /\ stray' = stray
                     ELSE writer' = writer /\ stray' = TRUE
    /\ released' = released \ {t}
    /\ UNCHANGED g_self_test_lock

CanRead == ~g_self_test_lock \/ writer = NoThread

(***************************************************************************)
(* A read lock taken by the thread that holds the write lock: it blocks    *)
(* for ever (SRWLOCK, and what POSIX permits), or fails with EDEADLK,      *)
(* which is ignored, and the following rdunlock releases the write lock.   *)
(***************************************************************************)
ReadLockAsWriter(t, label) ==
    \/ /\ Goto(t, "stuck")
       /\ UNCHANGED lock_vars
    \/ /\ Goto(t, label)
       /\ writer' = NoThread
       /\ released' = released \cup {t}
       /\ UNCHANGED <<g_self_test_lock, stray>>

(***************************************************************************)
(* qudo_pqc_set_error_state: the state it leaves.  It takes no lock.       *)
(***************************************************************************)
\* a variant that stores the type of the test instead of the state
BadSetErrorState(type) ==
    IF type = "PCT" /\ ~g_conditional_error_check
    THEN g_module_state
    ELSE type

SetErrorState(type) ==
    IF type = "PCT" /\ ~g_conditional_error_check
    THEN g_module_state
    ELSE "ERROR"

\* qudo_pqc_is_running_or_selftest, and the DRBG check that follows it.
GateOpen == g_module_state \in {"RUNNING", "SELFTEST"}

ServiceOpen == GateOpen /\ g_fips_rand_ready

\* report_error_state reads the count before it increments it.
BadReports == g_module_state = "ERROR" /\ g_error_report_count <= ErrorReportLimit
Reports == g_module_state = "ERROR" /\ g_error_report_count < ErrorReportLimit

-----------------------------------------------------------------------------
(***************************************************************************)
(* Faulty variants of the definitions of this module, for the sensitivity  *)
(* checks of the properties: no specification uses them.                   *)
(***************************************************************************)
\* the verdict of the checks goes to the log only: ERROR does not refuse init
BadInitConfigure(o) ==
    /\ pc[o] = "i_check"
    /\ g_module_state # "RUNNING"
    /\ g_cb' = o
    /\ g_conditional_error_check' = cond[o]
    /\ g_config_set' = TRUE
    /\ Goto(o, "i_store")
    /\ UNCHANGED <<g_module_state, g_error_report_count, g_post, rand_vars,
                   lock_vars, local_vars>>

\* the re-check of the state under the lock is missing
BadSelfTestAccepted(o) ==
    /\ pc[o] = "s_check"
    /\ Goto(o, "s_store")
    /\ UNCHANGED <<g_module_state, g_error_report_count, module_vars, rand_vars,
                   lock_vars, local_vars>>

\* "ok = 0" is missing before "goto done"
BadSeedUnavailable(o) ==
    /\ pc[o] = "st_seed"
    /\ g_health_failed \/ "entropy" \in Faults
    /\ Goto(o, "st_store")
    /\ UNCHANGED <<g_module_state, g_error_report_count, module_vars, rand_vars,
                   lock_vars, local_vars>>

\* "goto done" is missing after a failed health test
BadSeedUnhealthy(o) ==
    /\ pc[o] = "st_seed"
    /\ ~g_health_failed
    /\ "entropy" \in Faults
    /\ g_health_failed' = TRUE
    /\ g_module_state' = "ERROR"
    /\ ok' = [ok EXCEPT ![o] = FALSE]
    /\ Goto(o, "st_keygen")
    /\ UNCHANGED <<g_error_report_count, module_vars, g_fips_rand_ready,
                   lock_vars, op, cond, key>>

\* a failed self-test returns without unlocking
BadEndSelfTest(o) ==
    /\ pc[o] = "st_unlock"
    /\ IF ok[o] THEN Unlock(o) ELSE UNCHANGED lock_vars
    /\ op' = [op EXCEPT ![o] = "none"]
    /\ ok' = [ok EXCEPT ![o] = FALSE]
    /\ Goto(o, "idle")
    /\ UNCHANGED <<g_module_state, g_error_report_count, module_vars, rand_vars,
                   cond, key>>

\* fini resets the state unconditionally
BadFiniClear(o) ==
    /\ pc[o] = "f_clear"
    /\ g_cb' = NoThread
    /\ g_post' = [integrity |-> FALSE, drbg |-> FALSE]
    /\ g_config_set' = FALSE
    /\ Goto(o, "f_store")
    /\ UNCHANGED <<g_module_state, g_error_report_count,
                   g_conditional_error_check, rand_vars, lock_vars, local_vars>>

\* fini goes back to the state that the constructor stores
BadFiniStore(o) ==
    /\ pc[o] = "f_store"
    /\ g_module_state' = "SELFTEST"
    /\ Goto(o, "f_unlock")
    /\ UNCHANGED <<g_error_report_count, module_vars, rand_vars, lock_vars,
                   local_vars>>

-----------------------------------------------------------------------------
(***************************************************************************)
(* qudo_pqc_init                                                           *)
(***************************************************************************)
\* The lock is created once; the first unlocked load of the state.
InitCall(o) ==
    /\ pc[o] = "idle"
    /\ \E c \in BOOLEAN : cond' = [cond EXCEPT ![o] = c]
    /\ op' = [op EXCEPT ![o] = "init"]
    /\ g_self_test_lock' = TRUE
    /\ Goto(o, IF g_module_state = "RUNNING" THEN "i_cb_wait" ELSE "i_load")
    /\ UNCHANGED <<g_module_state, g_error_report_count, module_vars, rand_vars,
                   writer, stray, released, ok, key>>

\* Already running: replace the callbacks under the lock and return 1.
InitRegister(o) ==
    /\ pc[o] = "i_cb_wait"
    /\ writer = NoThread
    /\ g_cb' = o
    /\ op' = [op EXCEPT ![o] = "none"]
    /\ Goto(o, "idle")
    /\ UNCHANGED <<g_module_state, g_error_report_count, g_config_set,
                   g_conditional_error_check, g_post, rand_vars, lock_vars,
                   ok, cond, key>>

\* The second unlocked load: a latched ERROR refuses the call.
InitLoad(o) ==
    /\ pc[o] = "i_load"
    /\ Goto(o, IF g_module_state = "ERROR" THEN "idle" ELSE "i_wait")
    /\ op' = [op EXCEPT ![o] = IF g_module_state = "ERROR" THEN "none" ELSE "init"]
    /\ UNCHANGED <<g_module_state, g_error_report_count, module_vars, rand_vars,
                   lock_vars, ok, cond, key>>

InitLock(o) ==
    /\ pc[o] = "i_wait"
    /\ WrLock(o)
    /\ Goto(o, "i_check")
    /\ UNCHANGED <<g_module_state, g_error_report_count, module_vars, rand_vars,
                   local_vars>>

\* The state has been decided meanwhile: unlock and return.
InitDecided(o) ==
    /\ pc[o] = "i_check"
    /\ g_module_state \in {"RUNNING", "ERROR"}
    /\ Unlock(o)
    /\ op' = [op EXCEPT ![o] = "none"]
    /\ Goto(o, "idle")
    /\ UNCHANGED <<g_module_state, g_error_report_count, module_vars, rand_vars,
                   ok, cond, key>>

InitConfigure(o) ==
    /\ pc[o] = "i_check"
    /\ g_module_state \notin {"RUNNING", "ERROR"}
    /\ g_cb' = o
    /\ g_conditional_error_check' = cond[o]
    /\ g_config_set' = TRUE
    /\ Goto(o, "i_store")
    /\ UNCHANGED <<g_module_state, g_error_report_count, g_post, rand_vars,
                   lock_vars, local_vars>>

(***************************************************************************)
(* qudo_pqc_self_test                                                      *)
(***************************************************************************)
\* Any other state makes the call return at once, without a change.
SelfTestCall(o) ==
    /\ pc[o] = "idle"
    /\ g_config_set
    /\ g_self_test_lock
    /\ g_module_state = "RUNNING"
    /\ op' = [op EXCEPT ![o] = "self_test"]
    /\ Goto(o, "s_wait")
    /\ UNCHANGED <<g_module_state, g_error_report_count, module_vars, rand_vars,
                   lock_vars, ok, cond, key>>

SelfTestLock(o) ==
    /\ pc[o] = "s_wait"
    /\ WrLock(o)
    /\ Goto(o, "s_check")
    /\ UNCHANGED <<g_module_state, g_error_report_count, module_vars, rand_vars,
                   local_vars>>

SelfTestRefused(o) ==
    /\ pc[o] = "s_check"
    /\ g_module_state # "RUNNING"
    /\ Unlock(o)
    /\ op' = [op EXCEPT ![o] = "none"]
    /\ Goto(o, "idle")
    /\ UNCHANGED <<g_module_state, g_error_report_count, module_vars, rand_vars,
                   ok, cond, key>>

SelfTestAccepted(o) ==
    /\ pc[o] = "s_check"
    /\ g_module_state = "RUNNING"
    /\ Goto(o, "s_store")
    /\ UNCHANGED <<g_module_state, g_error_report_count, module_vars, rand_vars,
                   lock_vars, local_vars>>

-----------------------------------------------------------------------------
(***************************************************************************)
(* The self-tests, run under the write lock by both calls.  A failed test  *)
(* goes straight to the store of the verdict.                              *)
(***************************************************************************)
EnterSelfTest(o) ==
    /\ pc[o] \in {"i_store", "s_store"}
    /\ g_module_state' = "SELFTEST"
    /\ ok' = [ok EXCEPT ![o] = TRUE]
    /\ Goto(o, "st_integrity")
    /\ UNCHANGED <<g_error_report_count, module_vars, rand_vars, lock_vars,
                   op, cond, key>>

\* Neither the integrity check nor the comparison with a known answer is gated.
IntegrityFails(o) == pc[o] = "st_integrity" /\ "integrity" \in Faults

KatFails(o) ==
    pc[o] \in {"st_primitives", "st_keygen_pct", "st_kats"} /\ "kat" \in Faults

TestFails(o) ==
    /\ IntegrityFails(o) \/ KatFails(o)
    /\ ok' = [ok EXCEPT ![o] = FALSE]
    /\ Goto(o, "st_store")
    /\ UNCHANGED <<g_module_state, g_error_report_count, module_vars, rand_vars,
                   lock_vars, op, cond, key>>

\* Only init records that the integrity check has passed.
IntegrityPasses(o) ==
    /\ pc[o] = "st_integrity"
    /\ g_post' = [g_post EXCEPT !.integrity = @ \/ op[o] = "init"]
    /\ Goto(o, "st_primitives")
    /\ UNCHANGED <<g_module_state, g_error_report_count, g_config_set,
                   g_conditional_error_check, g_cb, rand_vars, lock_vars,
                   local_vars>>

\* SHA-256, HMAC and CTR-DRBG answers; an on-demand test does not reseed.
PrimitivesPass(o) ==
    /\ pc[o] = "st_primitives"
    /\ g_post' = [g_post EXCEPT !.drbg = TRUE]
    /\ Goto(o, IF op[o] = "init" THEN "st_seed" ELSE "st_keygen")
    /\ UNCHANGED <<g_module_state, g_error_report_count, g_config_set,
                   g_conditional_error_check, g_cb, rand_vars, lock_vars,
                   local_vars>>

\* qudo_fips_rand_seed_from_platform: the entropy is read and tested first,
\* without the DRBG's lock.
SeedEntropy(o) ==
    /\ pc[o] = "st_seed"
    /\ ~g_health_failed
    /\ Goto(o, "st_rand_init")
    /\ UNCHANGED <<g_module_state, g_error_report_count, module_vars, rand_vars,
                   lock_vars, local_vars>>

SeedPasses(o) ==
    /\ pc[o] = "st_rand_init"
    /\ g_fips_rand_ready' = TRUE
    /\ Goto(o, "st_keygen")
    /\ UNCHANGED <<g_module_state, g_error_report_count, module_vars,
                   g_health_failed, lock_vars, local_vars>>

\* The source cannot be read, or has failed its health test before.
SeedUnavailable(o) ==
    /\ pc[o] = "st_seed"
    /\ g_health_failed \/ "entropy" \in Faults
    /\ ok' = [ok EXCEPT ![o] = FALSE]
    /\ Goto(o, "st_store")
    /\ UNCHANGED <<g_module_state, g_error_report_count, module_vars, rand_vars,
                   lock_vars, op, cond, key>>

\* entropy_health_fail: the failure is latched and ERROR entered at once.
SeedUnhealthy(o) ==
    /\ pc[o] = "st_seed"
    /\ ~g_health_failed
    /\ "entropy" \in Faults
    /\ g_health_failed' = TRUE
    /\ g_module_state' = SetErrorState("DRBG_HEALTH")
    /\ ok' = [ok EXCEPT ![o] = FALSE]
    /\ Goto(o, "st_store")
    /\ UNCHANGED <<g_error_report_count, module_vars, g_fips_rand_ready,
                   lock_vars, op, cond, key>>

(***************************************************************************)
(* The algorithm KATs call the public entry points, which are gated on the *)
(* module state, and the ML-KEM key generation among them skips its PCT    *)
(* only while the state still is SELFTEST.                                 *)
(***************************************************************************)
KatsRefused(o) ==
    /\ pc[o] \in {"st_keygen", "st_kats"}
    /\ ~ServiceOpen
    /\ ok' = [ok EXCEPT ![o] = FALSE]
    /\ Goto(o, IF Reports THEN "st_report_inc" ELSE "st_store")
    /\ UNCHANGED <<g_module_state, g_error_report_count, module_vars, rand_vars,
                   lock_vars, op, cond, key>>

KeygenKatRuns(o) ==
    /\ pc[o] = "st_keygen"
    /\ ServiceOpen
    /\ Goto(o, "st_keygen_pct")
    /\ UNCHANGED <<g_module_state, g_error_report_count, module_vars, rand_vars,
                   lock_vars, local_vars>>

KeygenKatPasses(o) ==
    /\ pc[o] = "st_keygen_pct"
    /\ g_module_state = "SELFTEST"
    /\ Goto(o, "st_kats")
    /\ UNCHANGED <<g_module_state, g_error_report_count, module_vars, rand_vars,
                   lock_vars, local_vars>>

\* The state has changed under the test: the PCT runs, and its get_st_ctx
\* takes the read lock.
KeygenKatPct(o) ==
    /\ pc[o] = "st_keygen_pct"
    /\ g_module_state # "SELFTEST"
    /\ ReadLockAsWriter(o, "st_pct")
    /\ UNCHANGED <<g_module_state, g_error_report_count, module_vars, rand_vars,
                   local_vars>>

KatPctPasses(o) ==
    /\ pc[o] = "st_pct"
    /\ ServiceOpen
    /\ Goto(o, "st_kats")
    /\ UNCHANGED <<g_module_state, g_error_report_count, module_vars, rand_vars,
                   lock_vars, local_vars>>

KatPctFails(o) ==
    /\ pc[o] = "st_pct"
    /\ ~ServiceOpen \/ "pct" \in Faults
    /\ g_module_state' = SetErrorState("PCT")
    /\ ok' = [ok EXCEPT ![o] = FALSE]
    /\ Goto(o, IF Reports THEN "st_report_inc" ELSE "st_store")
    /\ UNCHANGED <<g_error_report_count, module_vars, rand_vars, lock_vars,
                   op, cond, key>>

KatsPass(o) ==
    /\ pc[o] = "st_kats"
    /\ ServiceOpen
    /\ Goto(o, "st_store")
    /\ UNCHANGED <<g_module_state, g_error_report_count, module_vars, rand_vars,
                   lock_vars, local_vars>>

\* report_error_state, reached from the gate of a KAT.
KatReportCount(o) ==
    /\ pc[o] = "st_report_inc"
    /\ g_error_report_count' = g_error_report_count + 1
    /\ Goto(o, "st_report_lock")
    /\ UNCHANGED <<g_module_state, module_vars, rand_vars, lock_vars, local_vars>>

KatReportLock(o) ==
    /\ pc[o] = "st_report_lock"
    /\ IF writer = o
       THEN ReadLockAsWriter(o, "st_store")
       ELSE writer = NoThread /\ Goto(o, "st_store") /\ UNCHANGED lock_vars
    /\ UNCHANGED <<g_module_state, g_error_report_count, module_vars, rand_vars,
                   local_vars>>

StoreVerdict(o) ==
    /\ pc[o] = "st_store"
    /\ g_module_state' = IF ok[o] THEN "RUNNING" ELSE "ERROR"
    /\ Goto(o, "st_unlock")
    /\ UNCHANGED <<g_error_report_count, module_vars, rand_vars, lock_vars,
                   local_vars>>

EndSelfTest(o) ==
    /\ pc[o] = "st_unlock"
    /\ Unlock(o)
    /\ op' = [op EXCEPT ![o] = "none"]
    /\ ok' = [ok EXCEPT ![o] = FALSE]
    /\ Goto(o, "idle")
    /\ UNCHANGED <<g_module_state, g_error_report_count, module_vars, rand_vars,
                   cond, key>>

-----------------------------------------------------------------------------
(***************************************************************************)
(* qudo_pqc_fini and qudo_pqc_unregister_callbacks.  fini takes the lock   *)
(* only if it exists, and looks again before it unlocks.                   *)
(***************************************************************************)
FiniCall(o) ==
    /\ pc[o] = "idle"
    /\ g_self_test_lock \/ FiniBeforeInit
    /\ op' = [op EXCEPT ![o] = IF g_self_test_lock THEN "fini" ELSE "fini_nolock"]
    /\ Goto(o, IF g_self_test_lock THEN "f_wait" ELSE "f_clear")
    /\ UNCHANGED <<g_module_state, g_error_report_count, module_vars, rand_vars,
                   lock_vars, ok, cond, key>>

FiniLock(o) ==
    /\ pc[o] = "f_wait"
    /\ WrLock(o)
    /\ Goto(o, "f_clear")
    /\ UNCHANGED <<g_module_state, g_error_report_count, module_vars, rand_vars,
                   local_vars>>

\* The last part of this step is the load of the state; ERROR is kept.
FiniClear(o) ==
    /\ pc[o] = "f_clear"
    /\ g_cb' = NoThread
    /\ g_post' = [integrity |-> FALSE, drbg |-> FALSE]
    /\ g_config_set' = FALSE
    /\ Goto(o, IF g_module_state = "ERROR" THEN "f_unlock" ELSE "f_store")
    /\ UNCHANGED <<g_module_state, g_error_report_count,
                   g_conditional_error_check, rand_vars, lock_vars, local_vars>>

FiniStore(o) ==
    /\ pc[o] = "f_store"
    /\ g_module_state' = "INIT"
    /\ Goto(o, "f_unlock")
    /\ UNCHANGED <<g_error_report_count, module_vars, rand_vars, lock_vars,
                   local_vars>>

FiniUnlock(o) ==
    /\ pc[o] = "f_unlock"
    /\ IF g_self_test_lock THEN Unlock(o) ELSE UNCHANGED lock_vars
    /\ Goto(o, "f_rand")
    /\ UNCHANGED <<g_module_state, g_error_report_count, module_vars, rand_vars,
                   local_vars>>

\* qudo_fips_rand_cleanup, after the lock has been released: a DRBG that is
\* found ready is taken down, and the health failure with it.
FiniRand(o) ==
    /\ pc[o] = "f_rand"
    /\ op' = [op EXCEPT ![o] = IF g_fips_rand_ready THEN @ ELSE "none"]
    /\ Goto(o, IF g_fips_rand_ready THEN "f_clean" ELSE "idle")
    /\ UNCHANGED <<g_module_state, g_error_report_count, module_vars, rand_vars,
                   lock_vars, ok, cond, key>>

FiniClean(o) ==
    /\ pc[o] = "f_clean"
    /\ g_fips_rand_ready' = FALSE
    /\ g_health_failed' = FALSE
    /\ op' = [op EXCEPT ![o] = "none"]
    /\ Goto(o, "idle")
    /\ UNCHANGED <<g_module_state, g_error_report_count, module_vars, lock_vars,
                   ok, cond, key>>

UnregisterCallbacks(o) ==
    /\ pc[o] = "idle"
    /\ g_self_test_lock
    /\ writer = NoThread
    /\ g_cb = o
    /\ g_cb' = NoThread
    /\ UNCHANGED <<g_module_state, g_error_report_count, g_config_set,
                   g_conditional_error_check, g_post, rand_vars, lock_vars,
                   pc, local_vars>>

\* Unload and load again: no thread is executing module code.
Reload ==
    /\ \A t \in Threads : pc[t] = "idle"
    /\ g_module_state' = "SELFTEST"
    /\ g_config_set' = FALSE
    /\ g_conditional_error_check' = TRUE
    /\ g_error_report_count' = 0
    /\ g_cb' = NoThread
    /\ g_post' = [integrity |-> FALSE, drbg |-> FALSE]
    /\ g_fips_rand_ready' = FALSE
    /\ g_health_failed' = FALSE
    /\ g_self_test_lock' = FALSE
    /\ writer' = NoThread
    /\ stray' = FALSE
    /\ released' = {}
    /\ latched' = FALSE /\ begun' = FALSE
    /\ drbg_seen' = [o \in Officers |-> FALSE]
    /\ UNCHANGED <<pc, local_vars>>

-----------------------------------------------------------------------------
(***************************************************************************)
(* Key-pair generation by a user (QUDO_KEM_keypair; ML-DSA and SLH-DSA     *)
(* have the same shape): gate, draw randomness, generate, test, return.    *)
(***************************************************************************)
KeypairCall(u) ==
    /\ pc[u] = "idle"
    /\ GateOpen \/ Reports
    /\ Goto(u, IF GateOpen THEN "k_draw" ELSE "k_report_inc")
    /\ UNCHANGED <<g_module_state, g_error_report_count, module_vars, rand_vars,
                   lock_vars, local_vars>>

\* qudo_fips_rand_bytes looks at the gate and at the DRBG again.
KeypairDraw(u) ==
    /\ pc[u] = "k_draw"
    /\ ServiceOpen
    /\ ~g_health_failed
    /\ key' = [key EXCEPT ![u] = "untested"]
    /\ Goto(u, "k_made")
    /\ UNCHANGED <<g_module_state, g_error_report_count, module_vars, rand_vars,
                   lock_vars, op, ok, cond>>

KeypairRefused(u) ==
    /\ pc[u] = "k_draw"
    /\ ~ServiceOpen \/ g_health_failed
    /\ Goto(u, IF Reports THEN "k_report_inc" ELSE "idle")
    /\ UNCHANGED <<g_module_state, g_error_report_count, module_vars, rand_vars,
                   lock_vars, local_vars>>

\* The DRBG was due for a reseed and the entropy failed its health test.
KeypairUnhealthy(u) ==
    /\ pc[u] = "k_draw"
    /\ ServiceOpen
    /\ ~g_health_failed
    /\ "entropy" \in Faults
    /\ g_health_failed' = TRUE
    /\ g_module_state' = SetErrorState("DRBG_HEALTH")
    /\ Goto(u, "idle")
    /\ UNCHANGED <<g_error_report_count, module_vars, g_fips_rand_ready,
                   lock_vars, local_vars>>

\* The PCT is skipped while the module is testing itself.
KeypairMade(u) ==
    /\ pc[u] = "k_made"
    /\ Goto(u, IF g_module_state = "SELFTEST" THEN "k_return" ELSE "k_st_ctx")
    /\ UNCHANGED <<g_module_state, g_error_report_count, module_vars, rand_vars,
                   lock_vars, local_vars>>

\* qudo_pqc_get_st_ctx waits for a self-test in progress.
KeypairStCtx(u) ==
    /\ pc[u] = "k_st_ctx"
    /\ CanRead
    /\ Goto(u, "k_pct")
    /\ UNCHANGED <<g_module_state, g_error_report_count, module_vars, rand_vars,
                   lock_vars, local_vars>>

PctPasses(u) ==
    /\ pc[u] = "k_pct"
    /\ ServiceOpen
    /\ key' = [key EXCEPT ![u] = "tested"]
    /\ Goto(u, "k_return")
    /\ UNCHANGED <<g_module_state, g_error_report_count, module_vars, rand_vars,
                   lock_vars, op, ok, cond>>

\* A PCT whose encapsulation or decapsulation is refused at the gate counts
\* as failed.
PctFails(u) ==
    /\ pc[u] = "k_pct"
    /\ ~ServiceOpen \/ "pct" \in Faults
    /\ Goto(u, IF Reports THEN "k_report_inc" ELSE "k_fail")
    /\ UNCHANGED <<g_module_state, g_error_report_count, module_vars, rand_vars,
                   lock_vars, local_vars>>

\* Zeroise the pair and enter ERROR, whatever the module is doing by now.
KeypairFails(u) ==
    /\ pc[u] = "k_fail"
    /\ key' = [key EXCEPT ![u] = "none"]
    /\ g_module_state' = SetErrorState("PCT")
    /\ Goto(u, "idle")
    /\ UNCHANGED <<g_error_report_count, module_vars, rand_vars, lock_vars,
                   op, ok, cond>>

KeypairReturn(u) ==
    /\ pc[u] = "k_return"
    /\ key' = [key EXCEPT ![u] = "none"]
    /\ Goto(u, "idle")
    /\ UNCHANGED <<g_module_state, g_error_report_count, module_vars, rand_vars,
                   lock_vars, op, ok, cond>>

(***************************************************************************)
(* The DRBG in the application's hands.  qudo_pqc_rand_seed_from_platform  *)
(* and qudo_pqc_rand_cleanup ask no gate; qudo_pqc_rand_init does, and     *)
(* takes the caller's entropy, whatever the health tests have said.        *)
(***************************************************************************)
RandSeed(u) ==
    /\ pc[u] = "idle"
    /\ ~g_health_failed
    /\ Goto(u, "r_init")
    /\ UNCHANGED <<g_module_state, g_error_report_count, module_vars, rand_vars,
                   lock_vars, local_vars>>

RandSeedUnhealthy(u) ==
    /\ pc[u] = "idle"
    /\ ~g_health_failed
    /\ "entropy" \in Faults
    /\ g_health_failed' = TRUE
    /\ g_module_state' = SetErrorState("DRBG_HEALTH")
    /\ UNCHANGED <<g_error_report_count, module_vars, g_fips_rand_ready,
                   lock_vars, pc, local_vars>>

RandInitCall(u) ==
    /\ pc[u] = "idle"
    /\ GateOpen \/ Reports
    /\ Goto(u, IF GateOpen THEN "r_init" ELSE "k_report_inc")
    /\ UNCHANGED <<g_module_state, g_error_report_count, module_vars, rand_vars,
                   lock_vars, local_vars>>

\* qudo_fips_rand_init, under the DRBG's lock.
RandInit(u) ==
    /\ pc[u] = "r_init"
    /\ g_fips_rand_ready' = TRUE
    /\ Goto(u, "idle")
    /\ UNCHANGED <<g_module_state, g_error_report_count, module_vars,
                   g_health_failed, lock_vars, local_vars>>

RandCleanupCall(u) ==
    /\ pc[u] = "idle"
    /\ g_fips_rand_ready
    /\ Goto(u, "r_clean")
    /\ UNCHANGED <<g_module_state, g_error_report_count, module_vars, rand_vars,
                   lock_vars, local_vars>>

RandCleanup(u) ==
    /\ pc[u] = "r_clean"
    /\ g_fips_rand_ready' = FALSE
    /\ g_health_failed' = FALSE
    /\ Goto(u, "idle")
    /\ UNCHANGED <<g_module_state, g_error_report_count, module_vars, lock_vars,
                   local_vars>>

\* report_error_state, reached from a gate; inside a PCT the failure follows.
ReportCount(u) ==
    /\ pc[u] = "k_report_inc"
    /\ g_error_report_count' = g_error_report_count + 1
    /\ Goto(u, "k_report_lock")
    /\ UNCHANGED <<g_module_state, module_vars, rand_vars, lock_vars, local_vars>>

ReportRead(u) ==
    /\ pc[u] = "k_report_lock"
    /\ CanRead
    /\ Goto(u, IF key[u] = "untested" THEN "k_fail" ELSE "idle")
    /\ UNCHANGED <<g_module_state, g_error_report_count, module_vars, rand_vars,
                   lock_vars, local_vars>>

-----------------------------------------------------------------------------
Calls(o) == InitCall(o) \/ SelfTestCall(o) \/ FiniCall(o) \/ UnregisterCallbacks(o)

LockWaits(o) == InitRegister(o) \/ InitLock(o) \/ SelfTestLock(o) \/ FiniLock(o)

\* The steps of an officer that is inside a call and not waiting for the lock.
Progress(o) ==
    \/ InitLoad(o) \/ InitDecided(o) \/ InitConfigure(o)
    \/ SelfTestRefused(o) \/ SelfTestAccepted(o)
    \/ EnterSelfTest(o) \/ TestFails(o) \/ IntegrityPasses(o) \/ PrimitivesPass(o)
    \/ SeedEntropy(o) \/ SeedPasses(o) \/ SeedUnavailable(o) \/ SeedUnhealthy(o)
    \/ KatsRefused(o) \/ KeygenKatRuns(o) \/ KeygenKatPasses(o) \/ KeygenKatPct(o)
    \/ KatPctPasses(o) \/ KatPctFails(o) \/ KatsPass(o)
    \/ KatReportCount(o) \/ KatReportLock(o) \/ StoreVerdict(o) \/ EndSelfTest(o)
    \/ FiniClear(o) \/ FiniStore(o) \/ FiniUnlock(o) \/ FiniRand(o)
    \/ FiniClean(o)

Keypair(u) ==
    \/ KeypairDraw(u) \/ KeypairRefused(u) \/ KeypairUnhealthy(u) \/ KeypairMade(u)
    \/ KeypairStCtx(u) \/ PctPasses(u) \/ PctFails(u) \/ KeypairFails(u)
    \/ KeypairReturn(u) \/ ReportCount(u) \/ ReportRead(u)

UserCalls(u) ==
    KeypairCall(u) \/ RandSeed(u) \/ RandSeedUnhealthy(u) \/ RandInitCall(u)
        \/ RandCleanupCall(u)

\* The steps of a user that is inside a call.
UserProgress(u) == Keypair(u) \/ RandInit(u) \/ RandCleanup(u)

\* The history variables follow every step: they have no counterpart in the code.
Observe ==
    /\ latched' = \/ latched
                  \/ /\ g_module_state' = "ERROR"
                     /\ writer' = NoThread
                     /\ \A o \in Officers : pc'[o] # "f_store"
    /\ begun' = (begun \/ \E o \in Officers : pc'[o] \in SelfTestPcs)
    /\ drbg_seen' = [o \in Officers |->
                        /\ pc'[o] \in SelfTestPcs
                        /\ g_fips_rand_ready' \/ (pc[o] \in SelfTestPcs /\ drbg_seen[o])]

Next ==
    \/ \E o \in Officers : (Calls(o) \/ LockWaits(o) \/ Progress(o)) /\ Observe
    \/ \E u \in Users : (UserCalls(u) \/ UserProgress(u)) /\ Observe
    \/ Reload

(***************************************************************************)
(* A thread inside a call keeps running.  Nothing is assumed of the order  *)
(* in which the lock admits waiting writers, nor of the callers.           *)
(***************************************************************************)
Fairness ==
    /\ \A o \in Officers : WF_vars(Progress(o) /\ Observe)
    /\ \A u \in Users : WF_vars(UserProgress(u) /\ Observe)

Spec == Init /\ [][Next]_vars /\ Fairness

-----------------------------------------------------------------------------
(***************************************************************************)
(* Properties                                                              *)
(***************************************************************************)
SelfTesting(o) == pc[o] \in SelfTestPcs

\* No two threads run the self-tests at the same time: the second init or
\* self_test waits for the lock and then finds the state decided.
SelfTestExclusive ==
    \A o, p \in Officers : SelfTesting(o) /\ SelfTesting(p) => o = p

\* While nobody holds the lock, a RUNNING module carries the evidence of its
\* power-on tests (qudo_pqc_post_integrity_passed, _drbg_kat_passed) and the
\* configuration that an on-demand qudo_pqc_self_test asks for.
RunningIsComplete ==
    g_module_state = "RUNNING" /\ writer = NoThread
        => g_post.integrity /\ g_post.drbg /\ g_config_set

\* The module turns RUNNING only by a self-test that has had a seeded DRBG at
\* some time, so that its known-answer tests ran as a service does: neither a
\* cleanup by the application nor another officer's fini beside the tests, nor
\* an on-demand self_test, which does not seed, certifies a module without one.
RunningHasHadDrbg ==
    [][g_module_state # "RUNNING" /\ g_module_state' = "RUNNING" =>
           \E o \in Officers : SelfTesting(o) /\ drbg_seen[o]]_vars

\* The lock is never unlocked by a thread without it, and no thread asks for
\* it again while it holds it ("re-acquiring the non-reentrant lock would
\* deadlock", qudo_pqc_set_error_state).
LockDiscipline ==
    ~stray /\ released = {} /\ \A o \in Officers : pc[o] # "stuck"

\* Every thread may slip past QUDO_ERROR_REPORT_LIMIT at most once: the check
\* and the increment of g_error_report_count are two steps.
ErrorReportsBounded ==
    g_error_report_count < ErrorReportLimit + Cardinality(Threads)

\* ERROR, once it has been there with the lock free, stays until the module is
\* loaded again: init and self_test refuse it and fini keeps it, so only a thread
\* that loaded the state before the error was raised can overwrite it: the lock
\* holder, or a fini that found no lock and is about to store INIT.
ErrorLatchHolds == latched => g_module_state = "ERROR"

\* QUDO_KEM_keypair hands out a pair without its pairwise test only while an
\* officer is inside the self-tests, or in a module that has been loaded and not
\* yet begun any (the application may seed the DRBG in the SELFTEST state that
\* the constructor stores): no call leaves a SELFTEST state behind.
UntestedOnlyDuringSelfTest ==
    [][\A u \in Users : pc[u] = "k_made" /\ pc'[u] = "k_return" =>
           ~begun \/ \E o \in Officers : SelfTesting(o)]_vars

\* A thread that has the lock gives it back: a self-test always ends.
LockReleased == \A o \in Officers : writer = o ~> writer # o

\* What the model must implement when no service runs concurrently: the
\* module's finite state model.
FSM == INSTANCE FiniteStateModel
           WITH state <- g_module_state,
                testing <- \E o \in Officers : SelfTesting(o)
RefinesFSM == FSM!Spec

-----------------------------------------------------------------------------
(***************************************************************************)
(* The inductive invariant behind SelfTestExclusive, RunningIsComplete and *)
(* ErrorLatchHolds when fini never comes before the first init.            *)
(***************************************************************************)
\* Where an officer is about to store the state on the strength of an earlier load.
StorePcs == SelfTestPcs \cup {"i_store", "s_store", "f_store"}

\* Inside a critical section a thread has the lock, unless its own rdunlock
\* has released it.
Ownership ==
    \A o \in Officers : pc[o] \in CriticalPcs => writer = o \/ o \in released

\* A thread that lost the lock that way is on its way to store ERROR.
ReleasedFails ==
    \A o \in released :
        /\ latched
        /\ writer # o
        /\ pc[o] \in {"st_pct", "st_report_inc", "st_report_lock", "st_store",
                      "st_unlock"}
        /\ pc[o] # "st_pct" => ~ok[o]
        /\ \A p \in released : p = o

\* After the latch nobody is about to store anything but ERROR.
LatchGuards ==
    latched => /\ g_module_state = "ERROR"
               /\ \A o \in Officers : pc[o] \in StorePcs => o \in released

\* What the state can be while the tests run.
TestingStates ==
    \A o \in Officers :
        /\ pc[o] \in SelfTestPcs => g_module_state \in {"SELFTEST", "ERROR"}
        /\ pc[o] \in {"st_report_inc", "st_report_lock"}
               => g_module_state = "ERROR" /\ ~ok[o]
        /\ pc[o] = "st_pct" => o \in released

LockInv == Ownership /\ ReleasedFails /\ LatchGuards /\ TestingStates

Complete == g_post.integrity /\ g_post.drbg /\ g_config_set

\* Which call an officer is in.
OpsMatch ==
    \A o \in Officers :
        /\ pc[o] \in {"i_load", "i_wait", "i_check", "i_store"} => op[o] = "init"
        /\ pc[o] \in {"s_wait", "s_check", "s_store"} => op[o] = "self_test"
        /\ pc[o] \in SelfTestPcs => op[o] \in {"init", "self_test"}

\* The evidence a verdict rests on is in place before the verdict.
Evidence ==
    \A o \in Officers : writer = o =>
        /\ pc[o] = "s_store" => Complete
        /\ pc[o] \in SelfTestPcs /\ op[o] = "self_test" => Complete
        /\ pc[o] \in SelfTestPcs \cup {"i_store"} => g_config_set
        /\ pc[o] \in SelfTestPcs \ {"st_integrity"} /\ ok[o] => g_post.integrity
        /\ pc[o] \in SelfTestPcs \ {"st_integrity", "st_primitives"} /\ ok[o]
               => g_post.drbg

RunningEvidence ==
    g_module_state = "RUNNING"
        => Complete \/ \E o \in Officers : pc[o] = "f_store"

EvidenceInv == OpsMatch /\ Evidence /\ RunningEvidence

IInv == LockInv /\ EvidenceInv

\* What holds besides when no service runs: the tests see SELFTEST until they
\* have a verdict, nobody takes the lock twice, and an officer that is about to
\* leave a state has not left it in ERROR.
QuietInv ==
    /\ released = {}
    /\ \A o \in Officers :
        /\ pc[o] \in SelfTestPcs \ {"st_store"} => g_module_state = "SELFTEST"
        /\ pc[o] \notin {"st_pct", "st_report_inc", "st_report_lock"}
        /\ pc[o] \in {"i_store", "s_store", "f_store"} => g_module_state # "ERROR"
        /\ pc[o] = "st_store" /\ ok[o] => g_module_state # "ERROR"

-----------------------------------------------------------------------------
(***************************************************************************)
(* Statements of the documentation that the code does not meet.            *)
(***************************************************************************)
\* "A latched ERROR is not cleared here: it persists until the module is
\* reloaded" (qudo_pqc_fini).
ErrorLatched ==
    [][g_module_state = "ERROR" => g_module_state' = "ERROR" \/ Reload]_vars
=============================================================================
