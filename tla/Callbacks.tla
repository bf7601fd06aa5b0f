------------------------------- MODULE Callbacks -------------------------------
(***************************************************************************)
(* The callbacks of the libqudo-pqc module: who registers them, who reads  *)
(* them and under which lock (qudo-pqc-lib/src/qudo_pqc_audit.c and the    *)
(* registration and reporting parts of qudo_pqc_init.c).                   *)
(*                                                                         *)
(* Officers register callbacks with qudo_pqc_init, withdraw them with      *)
(* qudo_pqc_unregister_callbacks and finalise the module with              *)
(* qudo_pqc_fini.  Any thread writes the audit log and reports errors.     *)
(* The error callback is guarded by the self-test lock, except in          *)
(* qudo_pqc_set_error_state, which reads it without; the audit callback    *)
(* has a lock of its own, created by the first registration and freed by   *)
(* qudo_audit_cleanup at the end of qudo_pqc_fini.                         *)
(*                                                                         *)
(* A callback and its argument are two variables, and each load or store   *)
(* of one is a step.  The module state is reduced to "is it RUNNING";      *)
(* self-tests pass; the text of a message and the error code are left out. *)
(* The self-test lock exists from the start (module QudoModule has the     *)
(* calls that come before it) and creating the audit lock succeeds.        *)
(***************************************************************************)
EXTENDS Naturals, FiniteSets

CONSTANTS
    Officers,           \* threads that register callbacks
    Users,              \* threads that log and report
    Nobody,             \* a NULL callback, a lock nobody holds
    Severities,
    AuditRateLimit,     \* QUDO_AUDIT_RATE_LIMIT (100 in the code)
    MaxCalls            \* bound: calls by officers

Threads == Officers \cup Users

\* A lock is created at most once in a call; 0 is NULL.
LockIds == 1 .. MaxCalls

ASSUME CallbackThreads ==
    /\ Officers \cap Users = {}
    /\ Nobody \notin Threads
    /\ IsFiniteSet(Threads)
ASSUME CallbackBounds == AuditRateLimit \in Nat \ {0} /\ MaxCalls \in Nat

VARIABLES
    running,            \* g_module_state is RUNNING
    owner,              \* g_self_test_cb_arg
    g_error_cb, g_error_cb_arg,
    g_audit_cb, g_audit_cb_arg,
    g_audit_count,      \* events delivered, per severity
    g_audit_lock,       \* the pointer: a member of LockIds, or 0
    g_audit_lock_once,  \* has do_audit_lock_init run?
    created,            \* locks allocated so far
    freed,              \* those that have been freed
    wr, rd,             \* per lock: the writer, the readers
    st_writer,          \* holder of g_self_test_lock
    calls,              \* calls by officers so far
    pc, op,
    audit,              \* config->audit_cb is not NULL
    ptr,                \* g_audit_lock as a thread has loaded it
    held,               \* the audit lock a thread has locked
    cb, arg,            \* a reader's copies of the two pointers
    sev,                \* severity of the event being logged
    gone,               \* history: officers whose last call was an unregister
    bad,                \* history: uses of a lock that C leaves undefined
    overlap,            \* history: a cleanup ran beside another audit call
    raced               \* history: users whose unlocked copy met a registration

reg_vars  == <<running, owner, g_error_cb, g_error_cb_arg, gone>>
pair_vars == <<g_audit_cb, g_audit_cb_arg>>
lock_vars == <<g_audit_lock, g_audit_lock_once, created, freed, wr, rd>>
call_vars == <<op, audit, sev, calls>>
copy_vars == <<cb, arg>>
vars == <<reg_vars, pair_vars, g_audit_count, lock_vars, st_writer, pc,
          call_vars, ptr, held, copy_vars, bad, overlap, raced>>

SetPcs   == {"sc_once", "sc_load", "sc_lock", "sc_cb", "sc_arg", "sc_unlock"}
CleanPcs == {"cl_test", "cl_free", "cl_null", "cl_once", "cl_cb", "cl_arg"}
LogPcs   == {"a_load", "a_lock", "a_cb", "a_arg", "a_unlock"}
AuditPcs == SetPcs \cup CleanPcs \cup LogPcs
Pcs == AuditPcs \cup {"idle", "r_fast", "r_slow", "r_ecb", "r_earg", "r_unlock",
                      "e_arg", "e_call", "p_call", "a_count", "a_emit"}
Ops == {"none", "fast", "slow", "unregister", "fini"}

TypeOK ==
    /\ running \in BOOLEAN /\ overlap \in BOOLEAN
    /\ {owner, g_error_cb, g_error_cb_arg, g_audit_cb, g_audit_cb_arg}
           \subseteq Officers \cup {Nobody}
    /\ g_audit_count \in [Severities -> Nat]
    /\ g_audit_lock \in LockIds \cup {0}
    /\ g_audit_lock_once \in BOOLEAN
    /\ created \in LockIds \cup {0} /\ freed \subseteq LockIds
    /\ wr \in [LockIds -> Officers \cup {Nobody}]
    /\ rd \in [LockIds -> SUBSET Threads]
    /\ st_writer \in Officers \cup {Nobody}
    /\ calls \in 0 .. MaxCalls
    /\ pc \in [Threads -> Pcs]
    /\ op \in [Officers -> Ops]
    /\ audit \in [Officers -> BOOLEAN]
    /\ ptr \in [Threads -> LockIds \cup {0}]
    /\ held \in [Threads -> LockIds \cup {0}]
    /\ cb \in [Threads -> Officers \cup {Nobody}]
    /\ arg \in [Threads -> Officers \cup {Nobody}]
    /\ sev \in [Threads -> Severities]
    /\ gone \subseteq Officers /\ raced \subseteq Users
    /\ bad \subseteq {"used after free", "destroyed while held", "not held"}

Init ==
    /\ running = FALSE /\ overlap = FALSE
    /\ owner = Nobody
    /\ g_error_cb = Nobody /\ g_error_cb_arg = Nobody
    /\ g_audit_cb = Nobody /\ g_audit_cb_arg = Nobody
    /\ g_audit_count = [s \in Severities |-> 0]
    /\ g_audit_lock = 0 /\ g_audit_lock_once = FALSE
    /\ created = 0 /\ freed = {}
    /\ wr = [l \in LockIds |-> Nobody]
    /\ rd = [l \in LockIds |-> {}]
    /\ st_writer = Nobody
    /\ calls = 0
    /\ pc = [t \in Threads |-> "idle"]
    /\ op = [o \in Officers |-> "none"]
    /\ audit = [o \in Officers |-> FALSE]
    /\ ptr = [t \in Threads |-> 0]
    /\ held = [t \in Threads |-> 0]
    /\ cb = [t \in Threads |-> Nobody]
    /\ arg = [t \in Threads |-> Nobody]
    /\ sev \in [Threads -> Severities]
    /\ gone = {} /\ raced = {}
    /\ bad = {}

-----------------------------------------------------------------------------
Goto(t, label) == pc' = [pc EXCEPT ![t] = label]

\* What an officer's call registers: its own callbacks, or NULL.
Registers(o) == IF op[o] \in {"fast", "slow"} THEN o ELSE Nobody

\* The call's locals die with it.
Forget(o) ==
    /\ op' = [op EXCEPT ![o] = "none"]
    /\ audit' = [audit EXCEPT ![o] = FALSE]

\* qudo_pqc_init and the others take g_self_test_lock for writing.
StLock(o) == st_writer = Nobody /\ st_writer' = o

(***************************************************************************)
(* qudo_pqc_init: the registration of its callbacks.                       *)
(***************************************************************************)
\* The unlocked load of the state chooses the path.
InitCall(o) ==
    /\ pc[o] = "idle"
    /\ calls < MaxCalls /\ calls' = calls + 1
    /\ \E a \in BOOLEAN : audit' = [audit EXCEPT ![o] = a]
    /\ op' = [op EXCEPT ![o] = IF running THEN "fast" ELSE "slow"]
    /\ gone' = gone \ {o}
    /\ Goto(o, IF running THEN "r_fast" ELSE "r_slow")
    /\ UNCHANGED <<running, owner, g_error_cb, g_error_cb_arg, pair_vars,
                   g_audit_count, lock_vars, st_writer, sev, ptr, held,
                   copy_vars, bad>>

Claim(o) ==
    /\ StLock(o)
    /\ owner' = o
    /\ Goto(o, "r_ecb")
    /\ UNCHANGED <<running, g_error_cb, g_error_cb_arg, gone, pair_vars,
                   g_audit_count, lock_vars, call_vars, ptr, held, copy_vars, bad>>

\* The module was RUNNING: the state is not looked at again under the lock.
InitFast(o) == pc[o] = "r_fast" /\ Claim(o)

InitSlow(o) == pc[o] = "r_slow" /\ ~running /\ Claim(o)

\* Another init has completed meanwhile: unlock and return.
InitDecided(o) ==
    /\ pc[o] = "r_slow"
    /\ running
    /\ st_writer = Nobody
    /\ Forget(o)
    /\ Goto(o, "idle")
    /\ UNCHANGED <<reg_vars, pair_vars, g_audit_count, lock_vars, st_writer,
                   sev, calls, ptr, held, copy_vars, bad>>

SetErrorCb(o) ==
    /\ pc[o] = "r_ecb"
    /\ g_error_cb' = Registers(o)
    /\ Goto(o, "r_earg")
    /\ UNCHANGED <<running, owner, g_error_cb_arg, gone, pair_vars,
                   g_audit_count, lock_vars, st_writer, call_vars, ptr, held,
                   copy_vars, bad>>

\* a variant of qudo_pqc_unregister_callbacks that forgets the audit callback
BadSetErrorArg(o) ==
    /\ pc[o] = "r_earg"
    /\ g_error_cb_arg' = Registers(o)
    /\ Goto(o, IF op[o] = "unregister" \/ (op[o] = "fast" /\ ~audit[o])
               THEN "r_unlock" ELSE "sc_once")
    /\ UNCHANGED <<running, owner, g_error_cb, gone, pair_vars,
                   g_audit_count, lock_vars, st_writer, call_vars, ptr, held,
                   copy_vars, bad>>

\* The fast path of init leaves the audit callback alone if it has none.
SetErrorArg(o) ==
    /\ pc[o] = "r_earg"
    /\ g_error_cb_arg' = Registers(o)
    /\ Goto(o, IF op[o] = "fast" /\ ~audit[o] THEN "r_unlock" ELSE "sc_once")
    /\ UNCHANGED <<running, owner, g_error_cb, gone, pair_vars,
                   g_audit_count, lock_vars, st_writer, call_vars, ptr, held,
                   copy_vars, bad>>

(***************************************************************************)
(* qudo_pqc_unregister_callbacks and qudo_pqc_fini, up to the same point.  *)
(* A call that does nothing before it has its lock begins with the lock.   *)
(***************************************************************************)
\* The argument is not the registered one: nothing is withdrawn.
UnregisterOther(o) ==
    /\ pc[o] = "idle"
    /\ calls < MaxCalls /\ calls' = calls + 1
    /\ st_writer = Nobody
    /\ owner # o
    /\ gone' = gone \cup {o}
    /\ UNCHANGED <<running, owner, g_error_cb, g_error_cb_arg, pair_vars,
                   g_audit_count, lock_vars, st_writer, pc, op, audit, sev, ptr,
                   held, copy_vars, bad>>

Withdraw(o, call) ==
    /\ pc[o] = "idle"
    /\ calls < MaxCalls /\ calls' = calls + 1
    /\ StLock(o)
    /\ owner' = Nobody
    /\ op' = [op EXCEPT ![o] = call]
    /\ Goto(o, "r_ecb")
    /\ UNCHANGED <<running, g_error_cb, g_error_cb_arg, gone, pair_vars,
                   g_audit_count, lock_vars, audit, sev, ptr, held, copy_vars,
                   bad>>

Unregister(o) == owner = o /\ Withdraw(o, "unregister")

Fini(o) == Withdraw(o, "fini")

\* The end of all four: unlock; fini goes on to qudo_audit_cleanup.
StUnlock(o) ==
    /\ pc[o] = "r_unlock"
    /\ st_writer' = Nobody
    /\ running' = CASE op[o] = "slow" -> TRUE
                    [] op[o] = "fini" -> FALSE
                    [] OTHER -> running
    /\ gone' = IF op[o] = "unregister" THEN gone \cup {o} ELSE gone
    /\ Forget(o)
    /\ Goto(o, IF op[o] = "fini" THEN "cl_test" ELSE "idle")
    /\ UNCHANGED <<owner, g_error_cb, g_error_cb_arg, pair_vars,
                   g_audit_count, lock_vars, sev, calls, ptr, held, copy_vars, bad>>

-----------------------------------------------------------------------------
(***************************************************************************)
(* The audit lock.  The pointer is tested and passed to the lock function  *)
(* in one expression: a build may load it once or twice, so the argument   *)
(* is what was tested or what the pointer holds now.  A NULL lock is       *)
(* ignored.  A freed lock, a lock destroyed under a holder and an unlock   *)
(* of a lock not held are undefined: they are recorded and the model stops.*)
(***************************************************************************)
Passed(t) == {ptr[t], g_audit_lock}

Undefined(t, what) ==
    /\ bad' = bad \cup {what}
    /\ UNCHANGED <<pc, held, lock_vars>>

\* a variant in which the writer does not wait
BadAcquire(t, p, writes) ==
    \/ p = 0 /\ UNCHANGED <<held, lock_vars, bad>>
    \/ /\ p \in LockIds \ freed
       /\ wr' = [wr EXCEPT ![p] = IF writes THEN t ELSE @]
       /\ rd' = [rd EXCEPT ![p] = IF writes THEN @ ELSE @ \cup {t}]
       /\ held' = [held EXCEPT ![t] = p]
       /\ UNCHANGED <<g_audit_lock, g_audit_lock_once, created, freed, bad>>

\* qudo_rwlock_wrlock(p) and qudo_rwlock_rdlock(p), p not freed.
Acquire(t, p, writes) ==
    \/ p = 0 /\ UNCHANGED <<held, lock_vars, bad>>
    \/ /\ p \in LockIds \ freed
       /\ wr[p] = Nobody /\ (writes => rd[p] = {})
       /\ wr' = [wr EXCEPT ![p] = IF writes THEN t ELSE @]
       /\ rd' = [rd EXCEPT ![p] = IF writes THEN @ ELSE @ \cup {t}]
       /\ held' = [held EXCEPT ![t] = p]
       /\ UNCHANGED <<g_audit_lock, g_audit_lock_once, created, freed, bad>>

LockAudit(t, writes, label) ==
    \E p \in Passed(t) :
        \/ Acquire(t, p, writes) /\ Goto(t, label)
        \/ p \in freed /\ Undefined(t, "used after free")

\* qudo_rwlock_unlock and qudo_rwlock_rdunlock of what the pointer holds now.
UnlockAudit(t, label) ==
    LET p == g_audit_lock IN
        \/ /\ p = 0 \/ (p = held[t] /\ p \notin freed)
           /\ wr' = [l \in LockIds |-> IF l = p /\ wr[l] = t THEN Nobody ELSE wr[l]]
           /\ rd' = [l \in LockIds |-> IF l = p THEN rd[l] \ {t} ELSE rd[l]]
           /\ held' = [held EXCEPT ![t] = 0]
           /\ Goto(t, label)
           /\ UNCHANGED <<g_audit_lock, g_audit_lock_once, created, freed, bad>>
        \/ p \in freed /\ Undefined(t, "used after free")
        \/ p \notin {0, held[t]} \cup freed /\ Undefined(t, "not held")

(***************************************************************************)
(* qudo_audit_set_callback, called with g_self_test_lock held.             *)
(***************************************************************************)
SetOnce(o) ==
    /\ pc[o] = "sc_once"
    /\ IF g_audit_lock_once
       THEN UNCHANGED <<created, g_audit_lock>>
       ELSE created' = created + 1 /\ g_audit_lock' = created + 1
    /\ g_audit_lock_once' = TRUE
    /\ Goto(o, "sc_load")
    /\ UNCHANGED <<reg_vars, pair_vars, g_audit_count, freed, wr, rd, st_writer,
                   call_vars, ptr, held, copy_vars, bad>>

SetLoad(o) ==
    /\ pc[o] = "sc_load"
    /\ ptr' = [ptr EXCEPT ![o] = g_audit_lock]
    /\ Goto(o, IF g_audit_lock = 0 THEN "sc_cb" ELSE "sc_lock")
    /\ UNCHANGED <<reg_vars, pair_vars, g_audit_count, lock_vars, st_writer,
                   call_vars, held, copy_vars, bad>>

SetLock(o) ==
    /\ pc[o] = "sc_lock"
    /\ LockAudit(o, TRUE, "sc_cb")
    /\ ptr' = [ptr EXCEPT ![o] = 0]
    /\ UNCHANGED <<reg_vars, pair_vars, g_audit_count, st_writer, call_vars,
                   copy_vars>>

SetCb(o) ==
    /\ pc[o] = "sc_cb"
    /\ g_audit_cb' = IF audit[o] THEN Registers(o) ELSE Nobody
    /\ Goto(o, "sc_arg")
    /\ UNCHANGED <<reg_vars, g_audit_cb_arg, g_audit_count, lock_vars, st_writer,
                   call_vars, ptr, held, copy_vars, bad>>

SetArg(o) ==
    /\ pc[o] = "sc_arg"
    /\ g_audit_cb_arg' = IF audit[o] THEN Registers(o) ELSE Nobody
    /\ Goto(o, "sc_unlock")
    /\ UNCHANGED <<reg_vars, g_audit_cb, g_audit_count, lock_vars, st_writer,
                   call_vars, ptr, held, copy_vars, bad>>

\* A full init then logs its transition, still under the self-test lock.
SetUnlock(o) ==
    /\ pc[o] = "sc_unlock"
    /\ UnlockAudit(o, IF op[o] = "slow" THEN "a_load" ELSE "r_unlock")
    /\ UNCHANGED <<reg_vars, pair_vars, g_audit_count, st_writer, call_vars, ptr,
                   copy_vars>>

(***************************************************************************)
(* qudo_audit_cleanup: no lock is held.                                    *)
(***************************************************************************)
CleanTest(o) ==
    /\ pc[o] = "cl_test"
    /\ ptr' = [ptr EXCEPT ![o] = g_audit_lock]
    /\ Goto(o, IF g_audit_lock = 0 THEN "cl_once" ELSE "cl_free")
    /\ UNCHANGED <<reg_vars, pair_vars, g_audit_count, lock_vars, st_writer,
                   call_vars, held, copy_vars, bad>>

CleanFree(o) ==
    /\ pc[o] = "cl_free"
    /\ \E p \in Passed(o) :
           \/ /\ p \notin freed
              /\ p # 0 => wr[p] = Nobody /\ rd[p] = {}
              /\ freed' = freed \cup ({p} \ {0})
              /\ Goto(o, "cl_null")
              /\ UNCHANGED <<g_audit_lock, g_audit_lock_once, created, wr, rd,
                             held, bad>>
           \/ p \in freed /\ Undefined(o, "used after free")
           \/ /\ p \in LockIds \ freed
              /\ wr[p] # Nobody \/ rd[p] # {}
              /\ Undefined(o, "destroyed while held")
    /\ ptr' = [ptr EXCEPT ![o] = 0]
    /\ UNCHANGED <<reg_vars, pair_vars, g_audit_count, st_writer, call_vars,
                   copy_vars>>

\* a variant that leaves the pointer dangling
BadCleanNull(o) ==
    /\ pc[o] = "cl_null"
    /\ Goto(o, "cl_once")
    /\ UNCHANGED <<reg_vars, pair_vars, g_audit_count, lock_vars, st_writer,
                   call_vars, ptr, held, copy_vars, bad>>

CleanNull(o) ==
    /\ pc[o] = "cl_null"
    /\ g_audit_lock' = 0
    /\ Goto(o, "cl_once")
    /\ UNCHANGED <<reg_vars, pair_vars, g_audit_count, g_audit_lock_once,
                   created, freed, wr, rd, st_writer, call_vars, ptr, held,
                   copy_vars, bad>>

CleanOnce(o) ==
    /\ pc[o] = "cl_once"
    /\ g_audit_lock_once' = FALSE
    /\ Goto(o, "cl_cb")
    /\ UNCHANGED <<reg_vars, pair_vars, g_audit_count, g_audit_lock, created,
                   freed, wr, rd, st_writer, call_vars, ptr, held, copy_vars, bad>>

CleanCb(o) ==
    /\ pc[o] = "cl_cb"
    /\ g_audit_cb' = Nobody
    /\ Goto(o, "cl_arg")
    /\ UNCHANGED <<reg_vars, g_audit_cb_arg, g_audit_count, lock_vars, st_writer,
                   call_vars, ptr, held, copy_vars, bad>>

CleanArg(o) ==
    /\ pc[o] = "cl_arg"
    /\ g_audit_cb_arg' = Nobody
    /\ Goto(o, "idle")
    /\ UNCHANGED <<reg_vars, g_audit_cb, g_audit_count, lock_vars, st_writer,
                   call_vars, ptr, held, copy_vars, bad>>

-----------------------------------------------------------------------------
(***************************************************************************)
(* qudo_audit_log.                                                         *)
(***************************************************************************)
LogLoad(t) ==
    /\ pc[t] = "a_load"
    /\ ptr' = [ptr EXCEPT ![t] = g_audit_lock]
    /\ Goto(t, IF g_audit_lock = 0 THEN "a_cb" ELSE "a_lock")
    /\ UNCHANGED <<reg_vars, pair_vars, g_audit_count, lock_vars, st_writer,
                   call_vars, held, copy_vars, bad>>

\* A user's call begins with the load.
LogCall(u) ==
    /\ pc[u] = "idle"
    /\ \E s \in Severities : sev' = [sev EXCEPT ![u] = s]
    /\ ptr' = [ptr EXCEPT ![u] = g_audit_lock]
    /\ Goto(u, IF g_audit_lock = 0 THEN "a_cb" ELSE "a_lock")
    /\ UNCHANGED <<reg_vars, pair_vars, g_audit_count, lock_vars, st_writer,
                   op, audit, calls, held, copy_vars, bad>>

LogLock(t) ==
    /\ pc[t] = "a_lock"
    /\ LockAudit(t, FALSE, "a_cb")
    /\ UNCHANGED <<reg_vars, pair_vars, g_audit_count, st_writer, call_vars, ptr,
                   copy_vars>>

LogCb(t) ==
    /\ pc[t] = "a_cb"
    /\ cb' = [cb EXCEPT ![t] = g_audit_cb]
    /\ Goto(t, "a_arg")
    /\ UNCHANGED <<reg_vars, pair_vars, g_audit_count, lock_vars, st_writer,
                   call_vars, ptr, held, arg, bad>>

LogArg(t) ==
    /\ pc[t] = "a_arg"
    /\ arg' = [arg EXCEPT ![t] = g_audit_cb_arg]
    /\ Goto(t, IF ptr[t] = 0 THEN "a_count" ELSE "a_unlock")
    /\ ptr' = [ptr EXCEPT ![t] = 0]
    /\ UNCHANGED <<reg_vars, pair_vars, g_audit_count, lock_vars, st_writer,
                   call_vars, held, cb, bad>>

\* a variant that returns at once when no callback is registered
BadLogUnlock(t) ==
    /\ pc[t] = "a_unlock"
    /\ IF cb[t] = Nobody /\ t \in Users
       THEN Goto(t, "idle") /\ UNCHANGED <<held, lock_vars, bad>>
       ELSE UnlockAudit(t, "a_count")
    /\ UNCHANGED <<reg_vars, pair_vars, g_audit_count, st_writer, call_vars, ptr,
                   copy_vars>>

LogUnlock(t) ==
    /\ pc[t] = "a_unlock"
    /\ UnlockAudit(t, "a_count")
    /\ UNCHANGED <<reg_vars, pair_vars, g_audit_count, st_writer, call_vars, ptr,
                   copy_vars>>

DropCopies(t) ==
    /\ cb' = [cb EXCEPT ![t] = Nobody]
    /\ arg' = [arg EXCEPT ![t] = Nobody]

\* Back in the officer's init, or to the caller.
AfterLog(t) == IF t \in Officers THEN "r_unlock" ELSE "idle"

\* a variant with the comparison off by one
BadMayEmit(t) == cb[t] # Nobody /\ g_audit_count[sev[t]] <= AuditRateLimit

MayEmit(t) == cb[t] # Nobody /\ g_audit_count[sev[t]] < AuditRateLimit

\* No callback, or too many events of this severity: return.
LogCount(t) ==
    /\ pc[t] = "a_count"
    /\ Goto(t, IF MayEmit(t) THEN "a_emit" ELSE AfterLog(t))
    /\ DropCopies(t)
    /\ UNCHANGED <<reg_vars, pair_vars, g_audit_count, lock_vars, st_writer,
                   call_vars, ptr, held, bad>>

\* Count the event and call the callback.
LogEmit(t) ==
    /\ pc[t] = "a_emit"
    /\ g_audit_count' = [g_audit_count EXCEPT ![sev[t]] = @ + 1]
    /\ Goto(t, AfterLog(t))
    /\ UNCHANGED <<reg_vars, pair_vars, lock_vars, st_writer, call_vars, ptr,
                   held, copy_vars, bad>>

(***************************************************************************)
(* The readers of the error callback.  Both log afterwards.                *)
(***************************************************************************)
\* qudo_pqc_set_error_state copies the pair without a lock.
ErrorCall(u) ==
    /\ pc[u] = "idle"
    /\ \E s \in Severities : sev' = [sev EXCEPT ![u] = s]
    /\ cb' = [cb EXCEPT ![u] = g_error_cb]
    /\ Goto(u, "e_arg")
    /\ UNCHANGED <<reg_vars, pair_vars, g_audit_count, lock_vars, st_writer,
                   op, audit, calls, ptr, held, arg, bad>>

ErrorReadArg(u) ==
    /\ pc[u] = "e_arg"
    /\ arg' = [arg EXCEPT ![u] = g_error_cb_arg]
    /\ Goto(u, "e_call")
    /\ UNCHANGED <<reg_vars, pair_vars, g_audit_count, lock_vars, st_writer,
                   call_vars, ptr, held, cb, bad>>

\* report_error_state copies it under the read lock, in one step.
ReportCall(u) ==
    /\ pc[u] = "idle"
    /\ \E s \in Severities : sev' = [sev EXCEPT ![u] = s]
    /\ st_writer = Nobody
    /\ cb' = [cb EXCEPT ![u] = g_error_cb]
    /\ arg' = [arg EXCEPT ![u] = g_error_cb_arg]
    /\ Goto(u, "p_call")
    /\ UNCHANGED <<reg_vars, pair_vars, g_audit_count, lock_vars, st_writer,
                   op, audit, calls, ptr, held, bad>>

\* The error callback, if any, is called, and the event is logged.
ErrorDone(u) ==
    /\ pc[u] \in {"e_call", "p_call"}
    /\ DropCopies(u)
    /\ Goto(u, "a_load")
    /\ UNCHANGED <<reg_vars, pair_vars, g_audit_count, lock_vars, st_writer,
                   call_vars, ptr, held, bad>>

-----------------------------------------------------------------------------
OfficerStep(o) ==
    \/ SetErrorCb(o) \/ SetErrorArg(o) \/ SetOnce(o) \/ SetLoad(o) \/ SetCb(o)
    \/ SetArg(o) \/ SetUnlock(o) \/ StUnlock(o) \/ CleanTest(o) \/ CleanFree(o)
    \/ CleanNull(o) \/ CleanOnce(o) \/ CleanCb(o) \/ CleanArg(o)

LogStep(t) ==
    \/ LogLoad(t) \/ LogCb(t) \/ LogArg(t) \/ LogUnlock(t) \/ LogCount(t)
    \/ LogEmit(t)

UserStep(u) == ErrorReadArg(u) \/ ErrorDone(u)

\* Steps that begin a call or wait for a lock.
OfficerCall(o) ==
    \/ InitCall(o) \/ InitFast(o) \/ InitSlow(o) \/ InitDecided(o)
    \/ Unregister(o) \/ UnregisterOther(o) \/ Fini(o) \/ SetLock(o)

Progress(t) ==
    \/ t \in Officers /\ OfficerStep(t)
    \/ t \in Users /\ UserStep(t)
    \/ LogStep(t)

Step ==
    \/ \E o \in Officers : OfficerCall(o)
    \/ \E u \in Users : LogCall(u) \/ ErrorCall(u) \/ ReportCall(u)
    \/ \E t \in Threads : LogLock(t) \/ Progress(t)

\* Some officer is in qudo_audit_cleanup while another thread is in an audit call.
Overlapping ==
    \E o \in Officers : /\ pc[o] \in CleanPcs
                        /\ \E t \in Threads \ {o} : pc[t] \in AuditPcs

\* The history variables follow every step.
Observe ==
    /\ overlap' = (overlap \/ Overlapping')
    /\ raced' = {u \in Users : /\ pc'[u] \in {"e_arg", "e_call"}
                               /\ \/ u \in raced
                                  \/ {st_writer, st_writer'} # {Nobody}}

\* Nothing is said of the program after undefined behaviour.
Next == bad = {} /\ Step /\ Observe

\* The operating system runs every thread that is inside a call and not waiting
\* for a lock; nothing is assumed of the locks.
ProgressNext(t) == bad = {} /\ Progress(t) /\ Observe

Spec ==
    /\ Init /\ [][Next]_vars
    /\ \A t \in Threads : WF_vars(ProgressNext(t))

-----------------------------------------------------------------------------
\* qudo_audit_log loads the count and increments it in two steps: the limit is
\* passed by at most one event for each user, because only one officer at a time
\* logs, and no registration or cleanup ever resets the count.
AuditBounded ==
    \A s \in Severities : g_audit_count[s] <= AuditRateLimit + Cardinality(Users)

\* As long as no fini has run its cleanup beside an audit call of another
\* thread, no lock is used after it was freed, destroyed under a holder or
\* unlocked without being held, over any number of init and fini cycles.
QuietCleanupSafe == ~overlap => bad = {}

\* A callback is always called with the argument it was registered with: in
\* report_error_state because of the lock; in the audit log once its lock exists
\* and without such an overlap; in qudo_pqc_set_error_state, which takes no lock,
\* if no officer held the self-test lock while the two were copied.
PairsMatch ==
    \A t \in Threads :
        \/ pc[t] = "p_call"
        \/ pc[t] = "e_call" /\ t \notin raced
        \/ pc[t] = "a_unlock" /\ held[t] # 0 /\ ~overlap
        => cb[t] = arg[t]

\* An officer that has called qudo_pqc_unregister_callbacks finds none of its
\* callbacks registered, with one exception: the audit callback survives if
\* another officer's init has taken the module over without bringing one.
UnregisterEffective ==
    \A o \in gone :
        /\ owner # o /\ g_error_cb # o /\ g_error_cb_arg # o
        /\ st_writer = Nobody /\ g_audit_cb = o => owner # Nobody

\* The audit lock is given back on every path through a registration or a log
\* call, unless its use has become undefined.
AuditLockReleased ==
    \A t \in Threads : held[t] # 0 ~> held[t] = 0 \/ bad # {}
===============================================================================
