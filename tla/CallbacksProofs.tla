---------------------------- MODULE CallbacksProofs ----------------------------
(***************************************************************************)
(* Theorems about Callbacks, for any threads, severities and limits.       *)
(***************************************************************************)
EXTENDS Callbacks, FiniteSetTheorems, TLAPS

\* Where an officer has the self-test lock, and where it has yet to run
\* do_audit_lock_init.
OfficerLogPcs == LogPcs \cup {"a_count", "a_emit"}
HoldingPcs == {"r_ecb", "r_earg", "r_unlock"} \cup SetPcs \cup OfficerLogPcs
PendingPcs == {"r_fast", "r_slow", "r_ecb", "r_earg", "sc_once"}

\* Who is where: an officer has the self-test lock from its registration to its
\* unlock, and an officer logs only in a full init.
OfficerAt(o, label, call, holder) ==
    /\ label \in HoldingPcs <=> holder = o
    /\ label \notin {"e_arg", "e_call", "p_call"}
    /\ label \in {"idle"} \cup CleanPcs <=> call = "none"
    /\ label = "r_fast" => call = "fast"
    /\ label = "r_slow" \/ label \in OfficerLogPcs => call = "slow"

Places ==
    /\ \A o \in Officers : OfficerAt(o, pc[o], op[o], st_writer)
    /\ \A u \in Users : pc[u] \in {"idle", "e_arg", "e_call", "p_call"} \cup OfficerLogPcs

\* The error callback, its argument and the owner change together, as seen by
\* whoever has the lock.
Registered ==
    /\ st_writer = Nobody => g_error_cb = owner /\ g_error_cb_arg = owner
    /\ \A o \in Officers : st_writer = o =>
           /\ owner = Registers(o)
           /\ pc[o] # "r_ecb" => g_error_cb = owner
           /\ pc[o] \notin {"r_ecb", "r_earg"} => g_error_cb_arg = owner

\* Without an owner there is no audit callback.
Withdrawn ==
    /\ st_writer = Nobody /\ owner = Nobody => g_audit_cb = Nobody
    /\ \A o \in Officers :
           /\ op[o] \in {"unregister", "fini"}
           /\ pc[o] \in {"sc_arg", "sc_unlock", "r_unlock"}
           => g_audit_cb = Nobody

\* An officer that has unregistered is not in an init, and nothing is its own.
Gone ==
    \A o \in gone : /\ op[o] \in {"none", "fini"}
                    /\ owner # o /\ g_error_cb # o /\ g_error_cb_arg # o

\* What the two reporting paths have copied.
ErrorCopy(u) ==
    /\ pc[u] = "p_call" => cb[u] = arg[u]
    /\ pc[u] = "e_arg" /\ u \notin raced => st_writer = Nobody /\ cb[u] = g_error_cb
    /\ pc[u] = "e_call" /\ u \notin raced => cb[u] = arg[u]

ErrorCopies == \A u \in Users : ErrorCopy(u)

Ownership == Registered /\ Withdrawn /\ Gone

RegInv == Places /\ Ownership /\ ErrorCopies

\* Every lock is created in a call of its own.
Pending == {o \in Officers : pc[o] \in PendingPcs}
CreationBound == created + Cardinality(Pending) <= calls

\* Events that have passed the limit and are not yet counted.
Emitters(s) == {t \in Threads : pc[t] = "a_emit" /\ sev[t] = s}
CountBound ==
    \A s \in Severities :
        g_audit_count[s] + Cardinality(Emitters(s)) <= AuditRateLimit + Cardinality(Users)

-----------------------------------------------------------------------------
WritePcs == {"sc_cb", "sc_arg", "sc_unlock"}
ReadPcs  == {"a_cb", "a_arg", "a_unlock"}

\* The audit lock as long as no cleanup has met another audit call: the pointer
\* and the once flag, what a thread has loaded and locked, who has the lock.
LockPointer ==
    /\ g_audit_lock <= created /\ \A l \in freed : l <= created
    /\ g_audit_lock \in freed => \E o \in Officers : pc[o] = "cl_null"
    /\ \/ g_audit_lock_once <=> g_audit_lock # 0
       \/ \E o \in Officers : pc[o] = "cl_once"
    /\ \A o \in Officers : /\ pc[o] \in SetPcs \ {"sc_once"} => g_audit_lock # 0
                           /\ pc[o] \in {"cl_once", "cl_cb", "cl_arg"} => g_audit_lock = 0

ThreadLock(t) ==
    /\ held[t] # 0 => held[t] = g_audit_lock /\ pc[t] \in WritePcs \cup ReadPcs
    /\ pc[t] \in WritePcs => held[t] # 0 /\ wr[held[t]] = t
    /\ pc[t] \in ReadPcs /\ held[t] # 0 => t \in rd[held[t]]
    /\ pc[t] \in {"a_cb", "a_arg"} => (ptr[t] = 0 <=> held[t] = 0)
    /\ pc[t] = "a_unlock" => held[t] # 0
    /\ pc[t] \in {"sc_lock", "a_lock", "cl_free"} => ptr[t] = g_audit_lock /\ ptr[t] # 0

LockState(l) ==
    /\ wr[l] # Nobody => rd[l] = {} /\ held[wr[l]] = l /\ pc[wr[l]] \in WritePcs
    /\ \A t \in rd[l] : held[t] = l /\ pc[t] \in ReadPcs

LockHolders == (\A t \in Threads : ThreadLock(t)) /\ (\A l \in LockIds : LockState(l))

\* The audit callback and its argument, and the copies made under the lock.
AuditPair ==
    /\ \/ g_audit_cb = g_audit_cb_arg
       \/ \E o \in Officers : pc[o] \in {"sc_arg", "cl_arg"}
    /\ \A o \in Officers :
           /\ pc[o] = "sc_arg" => g_audit_cb = IF audit[o] THEN Registers(o) ELSE Nobody
           /\ pc[o] = "cl_arg" => g_audit_cb = Nobody

AuditCopy(t) ==
    /\ pc[t] = "a_arg" /\ held[t] # 0 => cb[t] = g_audit_cb
    /\ pc[t] = "a_unlock" /\ held[t] # 0 => cb[t] = arg[t]

AuditCopies == AuditPair /\ \A t \in Threads : AuditCopy(t)

Quiet == bad = {} /\ ~Overlapping /\ LockPointer /\ LockHolders /\ AuditCopies

QuietInv == ~overlap => Quiet

CallbackInv == TypeOK /\ RegInv /\ CreationBound /\ CountBound /\ QuietInv

-----------------------------------------------------------------------------
(***************************************************************************)
(* Types.  The history variables overlap and raced follow in Observe.      *)
(***************************************************************************)
LEMMA CallbackInit == Init => CallbackInv
<1> SUFFICES ASSUME Init PROVE CallbackInv
  OBVIOUS
<1>1. /\ IsFiniteSet(Users) /\ Cardinality(Users) \in Nat
      /\ IsFiniteSet(Officers) /\ IsFiniteSet(Threads)
  BY CallbackThreads, FS_Subset, FS_CardinalityType DEF Threads
<1>2. Cardinality({}) = 0
  BY FS_EmptySet
<1>3. TypeOK
  <2>1. audit \in [Officers -> BOOLEAN]
    BY Zenon DEF Init
  <2>2. 0 \in 0 .. MaxCalls
    BY CallbackBounds
  <2> QED
    BY <2>1, <2>2 DEF Init, TypeOK, Ops, Pcs
<1>a. /\ \A t \in Threads : pc[t] = "idle" /\ ptr[t] = 0 /\ held[t] = 0
      /\ \A o \in Officers : op[o] = "none" /\ pc[o] = "idle" /\ o # Nobody
      /\ \A u \in Users : pc[u] = "idle"
  BY CallbackThreads DEF Init, Threads
<1>4. RegInv
  <2>1. Places
    BY <1>a DEF Places, OfficerAt, Init, HoldingPcs, OfficerLogPcs, SetPcs, LogPcs, CleanPcs
  <2>2. Registered /\ Withdrawn /\ Gone /\ ErrorCopies
    BY <1>a DEF Init, Registered, Withdrawn, Gone, ErrorCopies, ErrorCopy
  <2> QED
    BY <2>1, <2>2 DEF RegInv, Ownership
<1>5. CreationBound
  <2>1. Pending = {}
    BY DEF Init, Pending, PendingPcs, Threads
  <2> QED
    BY <1>2, <2>1 DEF CreationBound, Init
<1>6. CountBound
  <2>1. \A s \in Severities : Emitters(s) = {}
    BY DEF Init, Emitters
  <2> QED
    <3>1. 0 <= AuditRateLimit + Cardinality(Users)
      BY <1>1, CallbackBounds
    <3>2. \A s \in Severities : g_audit_count[s] = 0
      BY DEF Init
    <3> QED
      BY <1>2, <2>1, <3>1, <3>2 DEF CountBound
<1>7. QuietInv
  <2>1. LockPointer /\ ~Overlapping
    BY <1>a DEF Init, LockPointer, Overlapping, CleanPcs, SetPcs
  <2>2. LockHolders
    BY <1>a DEF Init, LockHolders, ThreadLock, LockState, WritePcs, ReadPcs
  <2>3. AuditCopies
    BY <1>a DEF Init, AuditCopies, AuditPair, AuditCopy
  <2> QED
    BY <2>1, <2>2, <2>3 DEF QuietInv, Quiet, Init
<1> QED
  BY <1>3, <1>4, <1>5, <1>6, <1>7 DEF CallbackInv

\* The variables that the steps of the code change, without the Boolean ones.
RegTypes ==
    /\ owner \in Officers \cup {Nobody}
    /\ g_error_cb \in Officers \cup {Nobody} /\ g_error_cb_arg \in Officers \cup {Nobody}
    /\ g_audit_cb \in Officers \cup {Nobody} /\ g_audit_cb_arg \in Officers \cup {Nobody}
    /\ st_writer \in Officers \cup {Nobody} /\ gone \subseteq Officers

PtrTypes ==
    /\ g_audit_lock \in LockIds \cup {0} /\ created \in LockIds \cup {0}
    /\ ptr \in [Threads -> LockIds \cup {0}]

HoldTypes ==
    /\ wr \in [LockIds -> Officers \cup {Nobody}]
    /\ rd \in [LockIds -> SUBSET Threads]
    /\ held \in [Threads -> LockIds \cup {0}]
    /\ freed \subseteq LockIds
    /\ bad \subseteq {"used after free", "destroyed while held", "not held"}

CallTypes ==
    /\ calls \in 0 .. MaxCalls
    /\ op \in [Officers -> Ops]
    /\ sev \in [Threads -> Severities]

CopyTypes ==
    /\ cb \in [Threads -> Officers \cup {Nobody}]
    /\ arg \in [Threads -> Officers \cup {Nobody}]

CountTypes == g_audit_count \in [Severities -> Nat]

PcTypes == pc \in [Threads -> Pcs]

StepTypes ==
    /\ RegTypes /\ PtrTypes /\ HoldTypes /\ CallTypes /\ CopyTypes /\ CountTypes
    /\ PcTypes

Flags == /\ running \in BOOLEAN /\ g_audit_lock_once \in BOOLEAN
         /\ audit \in [Officers -> BOOLEAN]

\* Calls of the officers, up to the self-test lock, and the unlock.
LEMMA CallTyped ==
  ASSUME StepTypes, NEW o \in Officers,
         \/ InitCall(o) \/ InitFast(o) \/ InitSlow(o) \/ InitDecided(o)
         \/ Unregister(o) \/ UnregisterOther(o) \/ Fini(o) \/ StUnlock(o)
  PROVE  StepTypes'
<1> /\ RegTypes /\ PtrTypes /\ HoldTypes /\ CallTypes /\ CopyTypes /\ CountTypes
    /\ PcTypes
  BY DEF StepTypes
<1> USE DEF reg_vars, pair_vars, lock_vars, call_vars, copy_vars
<1> o \in Threads
  BY DEF Threads
<1>0. calls < MaxCalls => calls + 1 \in 0 .. MaxCalls
  <2>1. calls \in 0 .. MaxCalls
    BY DEF CallTypes
  <2> QED
    BY <2>1, CallbackBounds
<1>1. CASE InitCall(o) \/ UnregisterOther(o)
  <2> USE <1>1 DEF InitCall, UnregisterOther
  <2>1. RegTypes'
    BY DEF RegTypes
  <2>2. PtrTypes'
    BY DEF PtrTypes
  <2>3. HoldTypes'
    BY DEF HoldTypes
  <2>4. CallTypes'
    BY <1>0 DEF CallTypes, Ops
  <2>5. CopyTypes'
    BY DEF CopyTypes, RegTypes
  <2>6. CountTypes'
    BY DEF CountTypes
  <2>7. PcTypes'
    BY DEF PcTypes, Goto, Pcs, AuditPcs, SetPcs, CleanPcs, LogPcs
  <2> QED
    BY <2>1, <2>2, <2>3, <2>4, <2>5, <2>6, <2>7 DEF StepTypes
<1>2. CASE Withdraw(o, "unregister") \/ Withdraw(o, "fini")
  <2> USE <1>2 DEF Withdraw, StLock
  <2>1. RegTypes'
    BY DEF RegTypes
  <2>2. PtrTypes'
    BY DEF PtrTypes
  <2>3. HoldTypes'
    BY DEF HoldTypes
  <2>4. CallTypes'
    BY <1>0 DEF CallTypes, Ops
  <2>5. CopyTypes'
    BY DEF CopyTypes, RegTypes
  <2>6. CountTypes'
    BY DEF CountTypes
  <2>7. PcTypes'
    BY DEF PcTypes, Goto, Pcs, AuditPcs, SetPcs, CleanPcs, LogPcs
  <2> QED
    BY <2>1, <2>2, <2>3, <2>4, <2>5, <2>6, <2>7 DEF StepTypes
<1>3. CASE InitFast(o) \/ InitSlow(o)
  <2> USE <1>3 DEF InitFast, InitSlow, Claim, StLock
  <2>1. RegTypes'
    BY DEF RegTypes
  <2>2. PtrTypes'
    BY DEF PtrTypes
  <2>3. HoldTypes'
    BY DEF HoldTypes
  <2>4. CallTypes'
    BY DEF CallTypes, Ops
  <2>5. CopyTypes'
    BY DEF CopyTypes, RegTypes
  <2>6. CountTypes'
    BY DEF CountTypes
  <2>7. PcTypes'
    BY DEF PcTypes, Goto, Pcs, AuditPcs, SetPcs, CleanPcs, LogPcs
  <2> QED
    BY <2>1, <2>2, <2>3, <2>4, <2>5, <2>6, <2>7 DEF StepTypes
<1>4. CASE InitDecided(o) \/ StUnlock(o)
  <2> USE <1>4 DEF InitDecided, StUnlock, Forget
  <2>1. RegTypes'
    BY DEF RegTypes
  <2>2. PtrTypes'
    BY DEF PtrTypes
  <2>3. HoldTypes'
    BY DEF HoldTypes
  <2>4. CallTypes'
    BY DEF CallTypes, Ops
  <2>5. CopyTypes'
    BY DEF CopyTypes, RegTypes
  <2>6. CountTypes'
    BY DEF CountTypes
  <2>7. PcTypes'
    BY DEF PcTypes, Goto, Pcs, AuditPcs, SetPcs, CleanPcs, LogPcs
  <2> QED
    BY <2>1, <2>2, <2>3, <2>4, <2>5, <2>6, <2>7 DEF StepTypes
<1> QED
  BY <1>1, <1>2, <1>3, <1>4 DEF Unregister, Fini

\* Taking and giving back the audit lock, or stopping in undefined behaviour.
LEMMA LockTyped ==
  ASSUME PtrTypes, HoldTypes, PcTypes, NEW t \in Threads, NEW label \in Pcs,
         \/ LockAudit(t, FALSE, label) \/ UnlockAudit(t, label)
         \/ t \in Officers /\ LockAudit(t, TRUE, label)
  PROVE  /\ HoldTypes' /\ PcTypes'
         /\ UNCHANGED <<g_audit_lock, g_audit_lock_once, created, freed>>
<1> DEFINE Goal == /\ HoldTypes' /\ PcTypes'
                   /\ UNCHANGED <<g_audit_lock, g_audit_lock_once, created, freed>>
<1>1. ASSUME NEW what \in {"used after free", "not held"}, Undefined(t, what) PROVE Goal
  BY <1>1 DEF Undefined, HoldTypes, PcTypes, lock_vars
<1>2. Goto(t, label) => PcTypes'
  BY DEF Goto, PcTypes
<1>3. ASSUME NEW writes \in BOOLEAN, writes => t \in Officers, LockAudit(t, writes, label)
      PROVE  Goal
  <2>1. PICK p \in Passed(t) :
           \/ Acquire(t, p, writes) /\ Goto(t, label)
           \/ p \in freed /\ Undefined(t, "used after free")
    BY <1>3, Zenon DEF LockAudit
  <2>2. CASE p = 0 /\ UNCHANGED <<held, lock_vars, bad>> /\ Goto(t, label)
    BY <1>2, <2>2 DEF HoldTypes, lock_vars
  <2>3. CASE /\ p \in LockIds \ freed
             /\ wr' = [wr EXCEPT ![p] = IF writes THEN t ELSE @]
             /\ rd' = [rd EXCEPT ![p] = IF writes THEN @ ELSE @ \cup {t}]
             /\ held' = [held EXCEPT ![t] = p]
             /\ UNCHANGED <<g_audit_lock, g_audit_lock_once, created, freed, bad>>
             /\ Goto(t, label)
    <3>1. wr' \in [LockIds -> Officers \cup {Nobody}]
      BY <1>3, <2>3 DEF HoldTypes
    <3>2. rd' \in [LockIds -> SUBSET Threads]
      <4>1. rd[p] \subseteq Threads /\ rd \in [LockIds -> SUBSET Threads]
        BY <2>3 DEF HoldTypes
      <4>2. (IF writes THEN rd[p] ELSE rd[p] \cup {t}) \in SUBSET Threads
        BY <4>1
      <4> QED
        BY <2>3, <4>1, <4>2
    <3>3. held' \in [Threads -> LockIds \cup {0}]
      BY <2>3 DEF HoldTypes
    <3> QED
      BY <1>2, <2>3, <3>1, <3>2, <3>3 DEF HoldTypes
  <2> QED
    BY <1>1, <2>1, <2>2, <2>3 DEF Acquire
<1>4. CASE UnlockAudit(t, label)
  <2>1. CASE Undefined(t, "used after free") \/ Undefined(t, "not held")
    BY <1>1, <2>1
  <2>2. CASE /\ wr' = [l \in LockIds |-> IF l = g_audit_lock /\ wr[l] = t THEN Nobody ELSE wr[l]]
             /\ rd' = [l \in LockIds |-> IF l = g_audit_lock THEN rd[l] \ {t} ELSE rd[l]]
             /\ held' = [held EXCEPT ![t] = 0]
             /\ Goto(t, label)
             /\ UNCHANGED <<g_audit_lock, g_audit_lock_once, created, freed, bad>>
    BY <1>2, <2>2 DEF HoldTypes
  <2> QED
    BY <1>4, <2>1, <2>2 DEF UnlockAudit
<1> QED
  BY <1>3, <1>4

\* The registration and qudo_audit_cleanup.
LEMMA RegisterTyped ==
  ASSUME StepTypes, CreationBound, NEW o \in Officers, OfficerStep(o) \/ SetLock(o)
  PROVE  StepTypes'
<1> /\ RegTypes /\ PtrTypes /\ HoldTypes /\ CallTypes /\ CopyTypes /\ CountTypes
    /\ PcTypes
  BY DEF StepTypes
<1> USE DEF reg_vars, pair_vars, lock_vars, call_vars, copy_vars
<1> o \in Threads
  BY DEF Threads
<1> Registers(o) \in Officers \cup {Nobody}
  BY DEF Registers
<1>1. CASE SetErrorCb(o) \/ SetErrorArg(o) \/ SetLoad(o) \/ SetCb(o) \/ SetArg(o)
  <2> USE <1>1 DEF SetErrorCb, SetErrorArg, SetLoad, SetCb, SetArg
  <2>1. RegTypes'
    BY DEF RegTypes
  <2>2. PtrTypes'
    BY DEF PtrTypes
  <2>3. HoldTypes'
    BY DEF HoldTypes
  <2>4. CallTypes'
    BY DEF CallTypes, Ops
  <2>5. CopyTypes'
    BY DEF CopyTypes, RegTypes
  <2>6. CountTypes'
    BY DEF CountTypes
  <2>7. PcTypes'
    BY DEF PcTypes, Goto, Pcs, AuditPcs, SetPcs, CleanPcs, LogPcs
  <2> QED
    BY <2>1, <2>2, <2>3, <2>4, <2>5, <2>6, <2>7 DEF StepTypes
<1>2. CASE \/ CleanTest(o) \/ CleanNull(o) \/ CleanOnce(o) \/ CleanCb(o)
           \/ CleanArg(o)
  <2> USE <1>2 DEF CleanTest, CleanNull, CleanOnce, CleanCb, CleanArg
  <2>1. RegTypes'
    BY DEF RegTypes
  <2>2. PtrTypes'
    BY DEF PtrTypes
  <2>3. HoldTypes'
    BY DEF HoldTypes
  <2>4. CallTypes'
    BY DEF CallTypes, Ops
  <2>5. CopyTypes'
    BY DEF CopyTypes, RegTypes
  <2>6. CountTypes'
    BY DEF CountTypes
  <2>7. PcTypes'
    BY DEF PcTypes, Goto, Pcs, AuditPcs, SetPcs, CleanPcs, LogPcs
  <2> QED
    BY <2>1, <2>2, <2>3, <2>4, <2>5, <2>6, <2>7 DEF StepTypes
<1>3. CASE SetOnce(o)
  <2> USE <1>3 DEF SetOnce
  <2>1. RegTypes'
    BY DEF RegTypes
  <2>2. PtrTypes'
    <3>1. created + 1 \in LockIds
      <4>1. IsFiniteSet(Pending)
        BY CallbackThreads, FS_Subset DEF Pending, Threads
      <4>2. o \in Pending
        BY DEF Pending, PendingPcs
      <4>3. Cardinality(Pending) \in Nat /\ Cardinality(Pending) # 0
        BY <4>1, <4>2, FS_CardinalityType, FS_EmptySet
      <4>4. calls \in 0 .. MaxCalls
        BY DEF CallTypes
      <4>5. created \in 0 .. MaxCalls
        BY CallbackBounds DEF PtrTypes, LockIds
      <4> HIDE DEF SetOnce
      <4> QED
        BY <4>3, <4>4, <4>5, CallbackBounds DEF CreationBound, LockIds
    <3> QED
      BY <3>1 DEF PtrTypes
  <2>3. HoldTypes'
    BY DEF HoldTypes
  <2>4. CallTypes'
    BY DEF CallTypes, Ops
  <2>5. CopyTypes'
    BY DEF CopyTypes, RegTypes
  <2>6. CountTypes'
    BY DEF CountTypes
  <2>7. PcTypes'
    BY DEF PcTypes, Goto, Pcs, AuditPcs, SetPcs, CleanPcs, LogPcs
  <2> QED
    BY <2>1, <2>2, <2>3, <2>4, <2>5, <2>6, <2>7 DEF StepTypes
<1>4. CASE SetLock(o) \/ SetUnlock(o)
  <2> USE <1>4 DEF SetLock, SetUnlock
  <2>1. "sc_cb" \in Pcs /\ (IF op[o] = "slow" THEN "a_load" ELSE "r_unlock") \in Pcs
    BY DEF Pcs, AuditPcs, SetPcs, LogPcs
  <2>2. /\ HoldTypes' /\ PcTypes'
        /\ UNCHANGED <<g_audit_lock, g_audit_lock_once, created, freed>>
    BY <2>1, LockTyped
  <2>3. RegTypes' /\ CallTypes'
    BY DEF RegTypes, CallTypes
  <2>4. PtrTypes' /\ CopyTypes' /\ CountTypes'
    BY <2>2 DEF PtrTypes, CopyTypes, CountTypes
  <2> QED
    BY <2>2, <2>3, <2>4 DEF StepTypes
<1>5. CASE CleanFree(o)
  <2>1. PICK p \in Passed(o) :
           \/ /\ freed' = freed \cup ({p} \ {0})
              /\ Goto(o, "cl_null")
              /\ UNCHANGED <<g_audit_lock, g_audit_lock_once, created, wr, rd, held, bad>>
           \/ \E what \in {"used after free", "destroyed while held"} : Undefined(o, what)
    BY <1>5 DEF CleanFree
  <2>2. p \in LockIds \cup {0}
    BY DEF Passed, PtrTypes
  <2>3. HoldTypes' /\ UNCHANGED <<g_audit_lock, g_audit_lock_once, created>>
    BY <2>1, <2>2 DEF HoldTypes, Undefined
  <2>4. PcTypes'
    BY <2>1 DEF PcTypes, Undefined, Goto, Pcs, AuditPcs, CleanPcs
  <2>5. RegTypes' /\ CallTypes'
    BY <1>5 DEF CleanFree, RegTypes, CallTypes
  <2>6. PtrTypes' /\ CopyTypes' /\ CountTypes'
    BY <1>5, <2>3 DEF CleanFree, PtrTypes, CopyTypes, CountTypes
  <2> QED
    BY <2>3, <2>4, <2>5, <2>6 DEF StepTypes
<1>6. CASE StUnlock(o)
  BY <1>6, CallTyped
<1> QED
  BY <1>1, <1>2, <1>3, <1>4, <1>5, <1>6 DEF OfficerStep

\* qudo_audit_log.
LEMMA LogTyped ==
  ASSUME StepTypes, NEW t \in Threads, LogStep(t) \/ LogLock(t)
  PROVE  StepTypes'
<1> /\ RegTypes /\ PtrTypes /\ HoldTypes /\ CallTypes /\ CopyTypes /\ CountTypes
    /\ PcTypes
  BY DEF StepTypes
<1> USE DEF reg_vars, pair_vars, lock_vars, call_vars, copy_vars
<1>1. CASE LogLoad(t) \/ LogCb(t) \/ LogArg(t)
  <2> USE <1>1 DEF LogLoad, LogCb, LogArg
  <2>1. RegTypes'
    BY DEF RegTypes
  <2>2. PtrTypes'
    BY DEF PtrTypes
  <2>3. HoldTypes'
    BY DEF HoldTypes
  <2>4. CallTypes'
    BY DEF CallTypes, Ops
  <2>5. CopyTypes'
    BY DEF CopyTypes, RegTypes
  <2>6. CountTypes'
    BY DEF CountTypes
  <2>7. PcTypes'
    BY DEF PcTypes, Goto, Pcs, AuditPcs, SetPcs, CleanPcs, LogPcs
  <2> QED
    BY <2>1, <2>2, <2>3, <2>4, <2>5, <2>6, <2>7 DEF StepTypes
<1>2. CASE LogCount(t) \/ LogEmit(t)
  <2> USE <1>2 DEF LogCount, LogEmit, DropCopies, AfterLog
  <2>1. RegTypes'
    BY DEF RegTypes
  <2>2. PtrTypes'
    BY DEF PtrTypes
  <2>3. HoldTypes'
    BY DEF HoldTypes
  <2>4. CallTypes'
    BY DEF CallTypes, Ops
  <2>5. CopyTypes'
    BY DEF CopyTypes, RegTypes
  <2>6. CountTypes'
    BY DEF CountTypes
  <2>7. PcTypes'
    BY DEF PcTypes, Goto, Pcs, AuditPcs, SetPcs, CleanPcs, LogPcs
  <2> QED
    BY <2>1, <2>2, <2>3, <2>4, <2>5, <2>6, <2>7 DEF StepTypes
<1>3. CASE LogLock(t) \/ LogUnlock(t)
  <2> USE <1>3 DEF LogLock, LogUnlock
  <2>1. "a_cb" \in Pcs /\ "a_count" \in Pcs
    BY DEF Pcs, AuditPcs, LogPcs
  <2>2. /\ HoldTypes' /\ PcTypes'
        /\ UNCHANGED <<g_audit_lock, g_audit_lock_once, created, freed>>
    BY <2>1, LockTyped
  <2>3. RegTypes' /\ CallTypes'
    BY DEF RegTypes, CallTypes
  <2>4. PtrTypes' /\ CopyTypes' /\ CountTypes'
    BY <2>2 DEF PtrTypes, CopyTypes, CountTypes
  <2> QED
    BY <2>2, <2>3, <2>4 DEF StepTypes
<1> QED
  BY <1>1, <1>2, <1>3 DEF LogStep

\* The readers of the error callback.
LEMMA UserTyped ==
  ASSUME StepTypes, NEW u \in Users,
         LogCall(u) \/ ErrorCall(u) \/ ReportCall(u) \/ UserStep(u)
  PROVE  StepTypes'
<1> /\ RegTypes /\ PtrTypes /\ HoldTypes /\ CallTypes /\ CopyTypes /\ CountTypes
    /\ PcTypes
  BY DEF StepTypes
<1> USE DEF reg_vars, pair_vars, lock_vars, call_vars, copy_vars
<1> u \in Threads
  BY DEF Threads
<1>1. CASE LogCall(u) \/ ErrorCall(u) \/ ReportCall(u)
  <2> USE <1>1 DEF LogCall, ErrorCall, ReportCall
  <2>1. RegTypes'
    BY DEF RegTypes
  <2>2. PtrTypes'
    BY DEF PtrTypes
  <2>3. HoldTypes'
    BY DEF HoldTypes
  <2>4. CallTypes'
    BY DEF CallTypes, Ops
  <2>5. CopyTypes'
    BY DEF CopyTypes, RegTypes
  <2>6. CountTypes'
    BY DEF CountTypes
  <2>7. PcTypes'
    BY DEF PcTypes, Goto, Pcs, AuditPcs, SetPcs, CleanPcs, LogPcs
  <2> QED
    BY <2>1, <2>2, <2>3, <2>4, <2>5, <2>6, <2>7 DEF StepTypes
<1>2. CASE UserStep(u)
  <2> USE <1>2 DEF UserStep, ErrorReadArg, ErrorDone, DropCopies
  <2>1. RegTypes'
    BY DEF RegTypes
  <2>2. PtrTypes'
    BY DEF PtrTypes
  <2>3. HoldTypes'
    BY DEF HoldTypes
  <2>4. CallTypes'
    BY DEF CallTypes, Ops
  <2>5. CopyTypes'
    BY DEF CopyTypes, RegTypes
  <2>6. CountTypes'
    BY DEF CountTypes
  <2>7. PcTypes'
    BY DEF PcTypes, Goto, Pcs, AuditPcs, SetPcs, CleanPcs, LogPcs
  <2> QED
    BY <2>1, <2>2, <2>3, <2>4, <2>5, <2>6, <2>7 DEF StepTypes
<1> QED
  BY <1>1, <1>2

\* The Boolean variables.
LEMMA FlagsTyped ==
  ASSUME Flags, Step
  PROVE  Flags'
<1> USE DEF reg_vars, pair_vars, lock_vars, call_vars, copy_vars
<1>1. ASSUME NEW o \in Officers, InitCall(o) PROVE Flags'
  <2>1. audit' \in [Officers -> BOOLEAN]
    BY <1>1, Zenon DEF InitCall, Flags
  <2> QED
    BY <1>1, <2>1 DEF InitCall, Flags
<1>2. ASSUME NEW o \in Officers, InitDecided(o) \/ StUnlock(o) PROVE Flags'
  <2>1. audit' \in [Officers -> BOOLEAN]
    BY <1>2, Zenon DEF InitDecided, StUnlock, Forget, Flags
  <2> QED
    BY <1>2, <2>1 DEF InitDecided, StUnlock, Flags
<1>3. ASSUME NEW o \in Officers, SetOnce(o) \/ CleanOnce(o) PROVE Flags'
  BY <1>3 DEF SetOnce, CleanOnce, Flags
<1>4. ASSUME UNCHANGED <<running, g_audit_lock_once, audit>> PROVE Flags'
  BY <1>4 DEF Flags
<1>5. ASSUME NEW t, NEW label, NEW writes, LockAudit(t, writes, label) \/ UnlockAudit(t, label)
      PROVE  UNCHANGED g_audit_lock_once
  BY <1>5 DEF LockAudit, UnlockAudit, Acquire, Undefined
<1>6. ASSUME NEW o \in Officers, OfficerCall(o), ~InitCall(o), ~InitDecided(o)
      PROVE  UNCHANGED <<running, g_audit_lock_once, audit>>
  <2>1. CASE SetLock(o)
    BY <1>5, <2>1 DEF SetLock
  <2> QED
    BY <1>6, <2>1 DEF OfficerCall, InitFast, InitSlow, Claim, Unregister, UnregisterOther,
       Fini, Withdraw
<1>7. ASSUME NEW o \in Officers, OfficerStep(o), ~StUnlock(o), ~SetOnce(o), ~CleanOnce(o)
      PROVE  UNCHANGED <<running, g_audit_lock_once, audit>>
  <2>1. CASE SetUnlock(o)
    BY <1>5, <2>1 DEF SetUnlock
  <2>2. CASE CleanFree(o)
    BY <2>2 DEF CleanFree, Undefined
  <2> QED
    BY <1>7, <2>1, <2>2 DEF OfficerStep, SetErrorCb, SetErrorArg, SetLoad, SetCb, SetArg,
       CleanTest, CleanNull, CleanCb, CleanArg
<1>8. ASSUME NEW t \in Threads, LogStep(t) \/ LogLock(t)
      PROVE  UNCHANGED <<running, g_audit_lock_once, audit>>
  <2>1. CASE LogLock(t) \/ LogUnlock(t)
    BY <1>5, <2>1 DEF LogLock, LogUnlock
  <2> QED
    BY <1>8, <2>1 DEF LogStep, LogLoad, LogCb, LogArg, LogCount, LogEmit
<1>9. ASSUME NEW u \in Users, LogCall(u) \/ ErrorCall(u) \/ ReportCall(u) \/ UserStep(u)
      PROVE  UNCHANGED <<running, g_audit_lock_once, audit>>
  BY <1>9 DEF LogCall, ErrorCall, ReportCall, UserStep, ErrorReadArg, ErrorDone
<1> QED
  BY <1>1, <1>2, <1>3, <1>4, <1>6, <1>7, <1>8, <1>9 DEF Step, Progress

\* Every variable has its type after a step.
LEMMA TypeStep ==
  ASSUME TypeOK, CreationBound, Next
  PROVE  TypeOK'
<1>1. StepTypes /\ Flags
  BY DEF TypeOK, StepTypes, RegTypes, PtrTypes, HoldTypes, CallTypes, CopyTypes, CountTypes,
         PcTypes, Flags
<1>2. StepTypes'
  <2>1. ASSUME NEW o \in Officers, OfficerCall(o) \/ OfficerStep(o) PROVE StepTypes'
    BY <1>1, <2>1, CallTyped, RegisterTyped DEF OfficerCall, OfficerStep
  <2>2. ASSUME NEW t \in Threads, LogStep(t) \/ LogLock(t) PROVE StepTypes'
    BY <1>1, <2>2, LogTyped
  <2>3. ASSUME NEW u \in Users, LogCall(u) \/ ErrorCall(u) \/ ReportCall(u) \/ UserStep(u)
        PROVE  StepTypes'
    BY <1>1, <2>3, UserTyped
  <2> QED
    BY <2>1, <2>2, <2>3 DEF Next, Step, Progress
<1>3. Flags'
  BY <1>1, FlagsTyped DEF Next
<1>4. overlap' \in BOOLEAN /\ raced' \subseteq Users
  BY DEF Next, Observe, TypeOK
<1> QED
  BY <1>2, <1>3, <1>4 DEF TypeOK, StepTypes, RegTypes, PtrTypes, HoldTypes, CallTypes,
     CopyTypes, CountTypes, PcTypes, Flags

-----------------------------------------------------------------------------
(***************************************************************************)
(* The registration.                                                       *)
(***************************************************************************)
\* A step of the audit log or of an audit lock moves one thread at most.
LEMMA LockMoves ==
  ASSUME NEW t, NEW label, NEW writes, LockAudit(t, writes, label) \/ UnlockAudit(t, label)
  PROVE  Goto(t, label) \/ pc' = pc
  BY DEF LockAudit, UnlockAudit, Acquire, Undefined

\* One officer moves, and takes the lock, keeps it or gives it up.
LEMMA OfficerMoves ==
  ASSUME Places, NEW o \in Officers,
         \A t \in Threads \ {o} : pc'[t] = pc[t],
         \A p \in Officers \ {o} : op'[p] = op[p],
         st_writer' = st_writer \/ {st_writer, st_writer'} = {o, Nobody},
         OfficerAt(o, pc'[o], op'[o], st_writer')
  PROVE  Places'
<1>1. /\ \A p \in Officers : p \in Threads /\ p \notin Users /\ p # Nobody
      /\ \A u \in Users : u \in Threads
  BY CallbackThreads DEF Threads
<1>2. ASSUME NEW p \in Officers, p # o PROVE OfficerAt(p, pc[p], op[p], st_writer')
  <2>1. OfficerAt(p, pc[p], op[p], st_writer)
    BY DEF Places
  <2>2. st_writer' = p <=> st_writer = p
    BY <1>1, <1>2
  <2> QED
    BY <2>1, <2>2 DEF OfficerAt
<1>3. \A p \in Officers : OfficerAt(p, pc'[p], op'[p], st_writer')
  BY <1>1, <1>2
<1>4. \A u \in Users : pc'[u] = pc[u]
  BY <1>1
<1> QED
  BY <1>3, <1>4 DEF Places

\* The registrations, withdrawals and cleanups of an officer keep Places.
LEMMA OfficerPlaces ==
  ASSUME StepTypes, Places, NEW o \in Officers, OfficerCall(o) \/ OfficerStep(o)
  PROVE  Places'
<1> o \in Threads /\ o # Nobody
  BY CallbackThreads DEF Threads
<1>a. /\ pc \in [Threads -> Pcs] /\ op \in [Officers -> Ops]
      /\ OfficerAt(o, pc[o], op[o], st_writer)
  BY DEF StepTypes, CallTypes, PcTypes, Places
<1>b. ASSUME NEW label, Goto(o, label)
      PROVE  pc'[o] = label /\ \A t \in Threads \ {o} : pc'[t] = pc[t]
  BY <1>a, <1>b DEF Goto
<1>c. ASSUME NEW call, op' = [op EXCEPT ![o] = call]
      PROVE  op'[o] = call /\ \A p \in Officers \ {o} : op'[p] = op[p]
  BY <1>a, <1>c
<1> USE DEF HoldingPcs, OfficerLogPcs, SetPcs, CleanPcs, LogPcs, reg_vars, call_vars, OfficerAt
<1>1. CASE InitCall(o)
  BY <1>1, <1>a, <1>b, <1>c, OfficerMoves DEF InitCall
<1>2. CASE UnregisterOther(o)
  BY <1>2, <1>a, OfficerMoves DEF UnregisterOther
<1>3. ASSUME NEW call \in {"unregister", "fini"}, Withdraw(o, call) PROVE Places'
  BY <1>3, <1>a, <1>b, <1>c, OfficerMoves DEF Withdraw, StLock
<1>4. CASE InitFast(o) \/ InitSlow(o)
  BY <1>4, <1>a, <1>b, OfficerMoves DEF InitFast, InitSlow, Claim, StLock
<1>5. CASE InitDecided(o)
  BY <1>5, <1>a, <1>b, <1>c, OfficerMoves DEF InitDecided, Forget
<1>6. CASE StUnlock(o)
  BY <1>6, <1>a, <1>b, <1>c, OfficerMoves DEF StUnlock, Forget
<1>7. CASE SetErrorCb(o) \/ SetErrorArg(o)
  BY <1>7, <1>a, <1>b, OfficerMoves DEF SetErrorCb, SetErrorArg
<1>8. CASE SetOnce(o) \/ SetLoad(o) \/ SetCb(o) \/ SetArg(o)
  BY <1>8, <1>a, <1>b, OfficerMoves DEF SetOnce, SetLoad, SetCb, SetArg
<1>9. CASE SetLock(o)
  BY <1>9, <1>a, <1>b, LockMoves, OfficerMoves DEF SetLock
<1>10. CASE SetUnlock(o)
  BY <1>10, <1>a, <1>b, LockMoves, OfficerMoves DEF SetUnlock
<1>11. CASE CleanTest(o) \/ CleanNull(o) \/ CleanOnce(o) \/ CleanCb(o) \/ CleanArg(o)
  BY <1>11, <1>a, <1>b, OfficerMoves DEF CleanTest, CleanNull, CleanOnce, CleanCb, CleanArg
<1>12. CASE CleanFree(o)
  <2>1. Goto(o, "cl_null") \/ pc' = pc
    BY <1>12 DEF CleanFree, Undefined
  <2>2. UNCHANGED <<op, st_writer>> /\ pc[o] = "cl_free"
    BY <1>12 DEF CleanFree
  <2>3. CASE Goto(o, "cl_null")
    BY <1>a, <1>b, <2>2, <2>3, OfficerMoves
  <2>4. CASE pc' = pc
    BY <1>a, <2>2, <2>4, OfficerMoves
  <2> QED
    BY <2>1, <2>3, <2>4
<1> QED
  BY <1>1, <1>2, <1>3, <1>4, <1>5, <1>6, <1>7, <1>8, <1>9, <1>10, <1>11, <1>12
  DEF OfficerCall, OfficerStep, Unregister, Fini

\* The audit log moves its thread only, within the log or to what follows it.
LEMMA LogMoves ==
  ASSUME PcTypes, NEW t \in Threads, LogStep(t) \/ LogLock(t)
  PROVE  /\ \A r \in Threads \ {t} : pc'[r] = pc[r]
         /\ pc[t] \in OfficerLogPcs
         /\ pc'[t] \in OfficerLogPcs \cup {AfterLog(t)}
         /\ UNCHANGED <<reg_vars, pair_vars, st_writer, call_vars>>
<1> USE DEF OfficerLogPcs, LogPcs
<1>1. ASSUME NEW label, Goto(t, label)
      PROVE  pc'[t] = label /\ \A r \in Threads \ {t} : pc'[r] = pc[r]
  BY <1>1 DEF Goto, PcTypes
<1>2. CASE LogLoad(t) \/ LogCb(t) \/ LogArg(t) \/ LogCount(t) \/ LogEmit(t)
  BY <1>1, <1>2 DEF LogLoad, LogCb, LogArg, LogCount, LogEmit
<1>3. CASE LogLock(t)
  BY <1>1, <1>3, LockMoves DEF LogLock
<1>4. CASE LogUnlock(t)
  BY <1>1, <1>4, LockMoves DEF LogUnlock
<1> QED
  BY <1>2, <1>3, <1>4 DEF LogStep

\* qudo_audit_log keeps Places: an officer that logs goes back to its init.
LEMMA LogPlaces ==
  ASSUME StepTypes, Places, NEW t \in Threads, LogStep(t) \/ LogLock(t)
  PROVE  Places'
<1>1. /\ \A r \in Threads \ {t} : pc'[r] = pc[r]
      /\ pc[t] \in OfficerLogPcs
      /\ pc'[t] \in OfficerLogPcs \cup {AfterLog(t)}
      /\ UNCHANGED <<op, st_writer>>
  BY LogMoves DEF StepTypes, call_vars
<1>2. CASE t \in Officers
  <2>1. OfficerAt(t, pc[t], op[t], st_writer)
    BY <1>2 DEF Places
  <2>2. OfficerAt(t, pc'[t], op[t], st_writer)
    BY <1>1, <1>2, <2>1
    DEF OfficerAt, AfterLog, OfficerLogPcs, HoldingPcs, SetPcs, LogPcs, CleanPcs
  <2> QED
    BY <1>1, <1>2, <2>2, OfficerMoves
<1>3. CASE t \in Users
  <2>1. \A o \in Officers : o \in Threads /\ o # t
    BY <1>3, CallbackThreads DEF Threads
  <2>2. \A u \in Users : u \in Threads
    BY DEF Threads
  <2>3. \A u \in Users : pc'[u] \in {"idle", "e_arg", "e_call", "p_call"} \cup OfficerLogPcs
    BY <1>1, <1>3, <2>1, <2>2 DEF Places, AfterLog
  <2> QED
    BY <1>1, <2>1, <2>3 DEF Places
<1> QED
  BY <1>2, <1>3 DEF Threads

\* The readers of the error callback move themselves.
LEMMA UserMoves ==
  ASSUME PcTypes, NEW u \in Users, LogCall(u) \/ ErrorCall(u) \/ ReportCall(u) \/ UserStep(u)
  PROVE  /\ \A r \in Threads \ {u} : pc'[r] = pc[r]
         /\ pc[u] \in {"idle", "e_arg", "e_call", "p_call"}
         /\ pc'[u] \in {"e_arg", "e_call", "p_call", "a_load", "a_lock", "a_cb"}
         /\ UNCHANGED <<reg_vars, pair_vars, st_writer, op, audit, calls>>
<1>1. ASSUME NEW label, Goto(u, label)
      PROVE  pc'[u] = label /\ \A r \in Threads \ {u} : pc'[r] = pc[r]
  BY <1>1 DEF Goto, PcTypes, Threads
<1> QED
  BY <1>1 DEF LogCall, ErrorCall, ReportCall, UserStep, ErrorReadArg, ErrorDone, call_vars

\* The reporting functions keep Places.
LEMMA UserPlaces ==
  ASSUME StepTypes, Places, NEW u \in Users,
         LogCall(u) \/ ErrorCall(u) \/ ReportCall(u) \/ UserStep(u)
  PROVE  Places'
<1>1. /\ \A r \in Threads \ {u} : pc'[r] = pc[r]
      /\ pc'[u] \in {"e_arg", "e_call", "p_call", "a_load", "a_lock", "a_cb"}
      /\ UNCHANGED <<op, st_writer>>
  BY UserMoves DEF StepTypes
<1>2. /\ \A o \in Officers : o \in Threads /\ o # u
      /\ \A r \in Users : r \in Threads
  BY CallbackThreads DEF Threads
<1>3. \A r \in Users : pc'[r] \in {"idle", "e_arg", "e_call", "p_call"} \cup OfficerLogPcs
  BY <1>1, <1>2 DEF Places, OfficerLogPcs, LogPcs
<1> QED
  BY <1>1, <1>2, <1>3 DEF Places

\* Every step keeps Places.
LEMMA PlacesStep ==
  ASSUME StepTypes, Places, Step
  PROVE  Places'
  BY OfficerPlaces, LogPlaces, UserPlaces DEF Step, Progress

LastPcs == {"sc_arg", "sc_unlock", "r_unlock"}

\* A step that registers nothing and passes no point where something was to be.
LEMMA NeutralStep ==
  ASSUME Ownership,
         UNCHANGED <<owner, g_error_cb, g_error_cb_arg, g_audit_cb, gone, st_writer, op>>,
         \A o \in Officers :
             \/ pc'[o] = pc[o]
             \/ /\ pc[o] \notin {"r_ecb", "r_earg"}
                /\ pc'[o] \in LastPcs => pc[o] \in LastPcs \/ op[o] = "slow"
  PROVE  Ownership'
<1>1. Registered'
  BY DEF Ownership, Registered, Registers
<1>2. Withdrawn'
  BY DEF Ownership, Withdrawn, LastPcs
<1>3. Gone'
  BY DEF Ownership, Gone
<1> QED
  BY <1>1, <1>2, <1>3 DEF Ownership

\* Calls that take no lock.
LEMMA CallOwnership ==
  ASSUME StepTypes, Places, Ownership, NEW o \in Officers,
         InitCall(o) \/ InitDecided(o) \/ UnregisterOther(o)
  PROVE  Ownership'
<1>1. /\ o # Nobody /\ o \in Threads /\ pc \in [Threads -> Pcs] /\ op \in [Officers -> Ops]
      /\ OfficerAt(o, pc[o], op[o], st_writer)
      /\ Officers \subseteq Threads /\ Nobody \notin Officers /\ gone \subseteq Officers
  BY CallbackThreads DEF Threads, StepTypes, PcTypes, CallTypes, RegTypes, Places
<1>2. /\ \A p \in Officers \ {o} : pc'[p] = pc[p] /\ op'[p] = op[p]
      /\ UNCHANGED <<owner, g_error_cb, g_error_cb_arg, g_audit_cb, st_writer>>
      /\ pc'[o] \notin LastPcs
  BY <1>1 DEF InitCall, InitDecided, UnregisterOther, Goto, Forget, pair_vars, reg_vars, LastPcs
<1>3. st_writer # o
  BY <1>1 DEF InitCall, InitDecided, UnregisterOther, OfficerAt, HoldingPcs, SetPcs,
     OfficerLogPcs, LogPcs
<1>4. Registered'
  BY <1>1, <1>2, <1>3 DEF Ownership, Registered, Registers
<1>5. Withdrawn'
  BY <1>2 DEF Ownership, Withdrawn, LastPcs
<1>6. Gone'
  <2>1. CASE InitCall(o)
    BY <1>2, <2>1 DEF Ownership, Gone, InitCall
  <2>2. CASE InitDecided(o)
    <3>1. op'[o] = "none" /\ gone' = gone
      BY <1>1, <2>2 DEF InitDecided, Forget, reg_vars
    <3> QED
      BY <1>1, <1>2, <3>1 DEF Ownership, Gone
  <2>3. CASE UnregisterOther(o)
    <3>1. /\ st_writer = Nobody /\ owner # o /\ op[o] = "none" /\ op' = op
          /\ gone' = gone \cup {o}
      BY <1>1, <2>3 DEF UnregisterOther, OfficerAt
    <3>2. g_error_cb = owner /\ g_error_cb_arg = owner
      BY <3>1 DEF Ownership, Registered
    <3> QED
      BY <1>2, <3>1, <3>2 DEF Ownership, Gone
  <2> QED
    BY <2>1, <2>2, <2>3
<1> QED
  BY <1>4, <1>5, <1>6 DEF Ownership

\* Calls that take the self-test lock and claim or give up the ownership.
LEMMA ClaimOwnership ==
  ASSUME StepTypes, Places, Ownership, NEW o \in Officers,
         InitFast(o) \/ InitSlow(o) \/ Unregister(o) \/ Fini(o)
  PROVE  Ownership'
<1>1. /\ o # Nobody /\ o \in Threads /\ pc \in [Threads -> Pcs] /\ op \in [Officers -> Ops]
      /\ OfficerAt(o, pc[o], op[o], st_writer)
      /\ Officers \subseteq Threads /\ Nobody \notin Officers /\ gone \subseteq Officers
  BY CallbackThreads DEF Threads, StepTypes, PcTypes, CallTypes, RegTypes, Places
<1>2. /\ \A p \in Officers \ {o} : pc'[p] = pc[p] /\ op'[p] = op[p]
      /\ UNCHANGED <<g_error_cb, g_error_cb_arg, g_audit_cb, gone>>
      /\ pc'[o] = "r_ecb" /\ st_writer' = o /\ st_writer = Nobody
  BY <1>1 DEF InitFast, InitSlow, Claim, Unregister, Fini, Withdraw, StLock, Goto, pair_vars,
     call_vars
<1>3. \/ owner' = o /\ op'[o] \in {"fast", "slow"} /\ op' = op
      \/ owner' = Nobody /\ op'[o] = "unregister" /\ owner = o
      \/ owner' = Nobody /\ op'[o] = "fini"
  BY <1>1 DEF InitFast, InitSlow, Claim, Unregister, Fini, Withdraw, OfficerAt, call_vars
<1>4. Registered'
  BY <1>1, <1>2, <1>3 DEF Ownership, Registered, Registers
<1>5. Withdrawn'
  BY <1>1, <1>2 DEF Ownership, Withdrawn
<1>6. Gone'
  BY <1>1, <1>2, <1>3 DEF Ownership, Gone
<1> QED
  BY <1>4, <1>5, <1>6 DEF Ownership

\* The stores to the error callback and its argument, and the end of the call.
LEMMA StoreOwnership ==
  ASSUME StepTypes, Places, Ownership, NEW o \in Officers,
         SetErrorCb(o) \/ SetErrorArg(o) \/ SetCb(o) \/ StUnlock(o)
  PROVE  Ownership'
<1>1. /\ o # Nobody /\ o \in Threads /\ pc \in [Threads -> Pcs] /\ op \in [Officers -> Ops]
      /\ Officers \subseteq Threads /\ Nobody \notin Officers /\ gone \subseteq Officers
      /\ owner \in Officers \cup {Nobody}
  BY CallbackThreads DEF Threads, StepTypes, PcTypes, CallTypes, RegTypes
<1>2. st_writer = o
  BY DEF SetErrorCb, SetErrorArg, SetCb, StUnlock, Places, OfficerAt, HoldingPcs, SetPcs
<1>3. owner = Registers(o)
  BY <1>2 DEF Ownership, Registered
<1>4. \A p \in Officers \ {o} : op[p] \in {"unregister", "fini"} => pc[p] \notin LastPcs
  BY <1>1, <1>2 DEF Places, OfficerAt, HoldingPcs, SetPcs, LastPcs
<1>5. CASE SetErrorCb(o)
  <2>1. /\ g_error_cb' = owner /\ pc' = [pc EXCEPT ![o] = "r_earg"]
        /\ UNCHANGED <<owner, g_error_cb_arg, g_audit_cb, gone, st_writer, op>>
    BY <1>3, <1>5 DEF SetErrorCb, Goto, pair_vars, call_vars
  <2> QED
    BY <1>1, <1>2, <2>1 DEF Ownership, Registered, Withdrawn, Gone, Registers
<1>6. CASE SetErrorArg(o)
  <2>1. /\ g_error_cb_arg' = owner /\ pc[o] = "r_earg"
        /\ pc' = [pc EXCEPT ![o] = IF op[o] = "fast" /\ ~audit[o] THEN "r_unlock" ELSE "sc_once"]
        /\ UNCHANGED <<owner, g_error_cb, g_audit_cb, gone, st_writer, op>>
    BY <1>3, <1>6 DEF SetErrorArg, Goto, pair_vars, call_vars
  <2> QED
    BY <1>1, <1>2, <2>1 DEF Ownership, Registered, Withdrawn, Gone, Registers
<1>7. CASE SetCb(o)
  <2>1. /\ op[o] \in {"unregister", "fini"} => g_audit_cb' = Nobody
        /\ pc[o] = "sc_cb" /\ pc' = [pc EXCEPT ![o] = "sc_arg"]
        /\ UNCHANGED <<owner, g_error_cb, g_error_cb_arg, gone, st_writer, op>>
    BY <1>7 DEF SetCb, Goto, reg_vars, call_vars, Registers
  <2>2. Registered' /\ Gone'
    BY <1>1, <1>2, <2>1 DEF Ownership, Registered, Gone, Registers
  <2>3. Withdrawn'
    BY <1>1, <1>2, <1>4, <2>1 DEF Withdrawn, LastPcs
  <2> QED
    BY <2>2, <2>3 DEF Ownership
<1>8. CASE StUnlock(o)
  <2>1. /\ pc[o] = "r_unlock" /\ st_writer' = Nobody
        /\ UNCHANGED <<owner, g_error_cb, g_error_cb_arg, g_audit_cb>>
        /\ gone' = IF op[o] = "unregister" THEN gone \cup {o} ELSE gone
        /\ op' = [op EXCEPT ![o] = "none"]
        /\ pc' = [pc EXCEPT ![o] = IF op[o] = "fini" THEN "cl_test" ELSE "idle"]
    BY <1>8 DEF StUnlock, Goto, Forget, pair_vars
  <2>2. g_error_cb = owner /\ g_error_cb_arg = owner
    BY <1>2, <2>1 DEF Ownership, Registered
  <2>3. op[o] # "none"
    BY <2>1 DEF Places, OfficerAt, CleanPcs
  <2>4. owner = Nobody => g_audit_cb = Nobody
    <3>1. owner = Nobody => op[o] \in {"unregister", "fini"}
      BY <1>1, <1>3, <2>3 DEF Registers, Ops
    <3> QED
      BY <2>1, <3>1 DEF Ownership, Withdrawn
  <2>5. op[o] = "unregister" => owner = Nobody
    BY <1>3 DEF Registers
  <2>6. Registered'
    BY <1>1, <2>1, <2>2 DEF Registered
  <2>7. Withdrawn'
    <3>1. \A p \in Officers : op'[p] \in {"unregister", "fini"} => pc'[p] \notin LastPcs
      BY <1>1, <1>4, <2>1
    <3> QED
      BY <2>1, <2>4, <3>1 DEF Withdrawn, LastPcs
  <2>8. Gone'
    BY <1>1, <2>1, <2>2, <2>5 DEF Ownership, Gone
  <2> QED
    BY <2>6, <2>7, <2>8 DEF Ownership
<1> QED
  BY <1>5, <1>6, <1>7, <1>8

\* The other steps of an officer.
LEMMA OfficerOwnership ==
  ASSUME StepTypes, Places, Ownership, NEW o \in Officers, OfficerCall(o) \/ OfficerStep(o)
  PROVE  Ownership'
<1>1. /\ o \in Threads /\ pc \in [Threads -> Pcs] /\ Officers \subseteq Threads
  BY DEF Threads, StepTypes, PcTypes
<1> USE DEF LastPcs, reg_vars, pair_vars, call_vars
<1>2. CASE SetOnce(o) \/ SetLoad(o) \/ SetArg(o)
  BY <1>1, <1>2, NeutralStep DEF SetOnce, SetLoad, SetArg, Goto
<1>3. CASE CleanTest(o) \/ CleanNull(o) \/ CleanOnce(o) \/ CleanArg(o)
  BY <1>1, <1>3, NeutralStep DEF CleanTest, CleanNull, CleanOnce, CleanArg, Goto
<1>4. CASE CleanFree(o)
  BY <1>1, <1>4, NeutralStep DEF CleanFree, Undefined, Goto
<1>5. CASE SetLock(o)
  <2>1. Goto(o, "sc_cb") \/ pc' = pc
    BY <1>5, LockMoves DEF SetLock
  <2>2. /\ UNCHANGED <<owner, g_error_cb, g_error_cb_arg, g_audit_cb, gone, st_writer, op>>
        /\ pc[o] = "sc_lock"
    BY <1>5 DEF SetLock
  <2> QED
    BY <1>1, <2>1, <2>2, NeutralStep DEF Goto
<1>6. CASE SetUnlock(o)
  <2>1. Goto(o, IF op[o] = "slow" THEN "a_load" ELSE "r_unlock") \/ pc' = pc
    BY <1>6, LockMoves DEF SetUnlock
  <2>2. /\ UNCHANGED <<owner, g_error_cb, g_error_cb_arg, g_audit_cb, gone, st_writer, op>>
        /\ pc[o] = "sc_unlock"
    BY <1>6 DEF SetUnlock
  <2> QED
    BY <1>1, <2>1, <2>2, NeutralStep DEF Goto
<1>7. CASE CleanCb(o)
  <2>1. /\ g_audit_cb' = Nobody /\ pc[o] = "cl_cb" /\ pc' = [pc EXCEPT ![o] = "cl_arg"]
        /\ UNCHANGED <<owner, g_error_cb, g_error_cb_arg, gone, st_writer, op>>
    BY <1>7 DEF CleanCb, Goto
  <2> QED
    BY <1>1, <2>1 DEF Ownership, Registered, Withdrawn, Gone, Registers
<1> QED
  BY <1>2, <1>3, <1>4, <1>5, <1>6, <1>7, CallOwnership, ClaimOwnership, StoreOwnership
  DEF OfficerCall, OfficerStep

\* Every step keeps the agreement of the owner and the callbacks.
LEMMA OwnershipStep ==
  ASSUME StepTypes, Places, Ownership, Step
  PROVE  Ownership'
<1>1. \A o \in Officers : o \in Threads /\ o \notin Users
  BY CallbackThreads DEF Threads
<1>2. ASSUME NEW t \in Threads, LogStep(t) \/ LogLock(t) PROVE Ownership'
  <2>1. /\ \A r \in Threads \ {t} : pc'[r] = pc[r]
        /\ pc[t] \in OfficerLogPcs
        /\ UNCHANGED <<owner, g_error_cb, g_error_cb_arg, g_audit_cb, gone, st_writer, op>>
    BY <1>2, LogMoves DEF StepTypes, reg_vars, pair_vars, call_vars
  <2>2. t \in Officers => op[t] = "slow"
    BY <2>1 DEF Places, OfficerAt
  <2>3. pc[t] \notin {"r_ecb", "r_earg"}
    BY <2>1 DEF OfficerLogPcs, LogPcs
  <2> QED
    BY <1>1, <2>1, <2>2, <2>3, NeutralStep
<1>3. ASSUME NEW u \in Users, LogCall(u) \/ ErrorCall(u) \/ ReportCall(u) \/ UserStep(u)
      PROVE  Ownership'
  <2>1. /\ \A r \in Threads \ {u} : pc'[r] = pc[r]
        /\ UNCHANGED <<owner, g_error_cb, g_error_cb_arg, g_audit_cb, gone, st_writer, op>>
    BY <1>3, UserMoves DEF StepTypes, reg_vars, pair_vars
  <2> QED
    BY <1>1, <2>1, NeutralStep
<1> QED
  BY <1>2, <1>3, OfficerOwnership DEF Step, Progress

\* A user that does not move keeps the copies it has: the error callback changes
\* under the self-test lock only.
LEMMA CopyKept ==
  ASSUME Observe, NEW u \in Users, ErrorCopy(u), pc'[u] = pc[u], cb'[u] = cb[u], arg'[u] = arg[u],
         g_error_cb' = g_error_cb \/ st_writer # Nobody
  PROVE  ErrorCopy(u)'
<1>1. pc[u] \in {"e_arg", "e_call"} /\ u \notin raced'
      => u \notin raced /\ st_writer = Nobody /\ st_writer' = Nobody
  BY DEF Observe
<1> QED
  BY <1>1 DEF ErrorCopy

\* No step of an officer spoils a copy that a user has made.
LEMMA OfficerCopies ==
  ASSUME StepTypes, Places, ErrorCopies, Observe, NEW o \in Officers,
         OfficerCall(o) \/ OfficerStep(o)
  PROVE  ErrorCopies'
<1>1. /\ o \in Threads /\ pc \in [Threads -> Pcs] /\ Users \subseteq Threads /\ o # Nobody
      /\ \A u \in Users : u # o
  BY CallbackThreads DEF Threads, StepTypes, PcTypes
<1>2. /\ \A u \in Users : pc'[u] = pc[u] /\ cb' = cb /\ arg' = arg
      /\ SetErrorCb(o) \/ g_error_cb' = g_error_cb
  <2> USE DEF reg_vars, copy_vars
  <2>1. CASE SetLock(o) \/ SetUnlock(o)
    <3>1. pc' = pc \/ \E label : Goto(o, label)
      BY <2>1, LockMoves DEF SetLock, SetUnlock
    <3> QED
      BY <1>1, <2>1, <3>1 DEF SetLock, SetUnlock, Goto
  <2>2. CASE CleanFree(o)
    BY <1>1, <2>2 DEF CleanFree, Undefined, Goto
  <2>3. CASE OfficerCall(o) /\ ~SetLock(o)
    BY <1>1, <2>3 DEF OfficerCall, InitCall, InitFast, InitSlow, Claim, InitDecided, Unregister,
       UnregisterOther, Fini, Withdraw, Goto
  <2>4. CASE OfficerStep(o) /\ ~SetUnlock(o) /\ ~CleanFree(o)
    BY <1>1, <2>4 DEF OfficerStep, SetErrorCb, SetErrorArg, SetOnce, SetLoad, SetCb, SetArg,
       StUnlock, CleanTest, CleanNull, CleanOnce, CleanCb, CleanArg, Goto
  <2> QED
    BY <2>1, <2>2, <2>3, <2>4
<1>3. SetErrorCb(o) => st_writer = o
  BY DEF SetErrorCb, Places, OfficerAt, HoldingPcs
<1> QED
  BY <1>1, <1>2, <1>3, CopyKept DEF ErrorCopies

\* Every step keeps the copies of the reporting functions paired.
LEMMA CopiesStep ==
  ASSUME StepTypes, Places, Ownership, ErrorCopies, Next
  PROVE  ErrorCopies'
<1>1. /\ Users \subseteq Threads /\ pc \in [Threads -> Pcs] /\ Observe
      /\ cb \in [Threads -> Officers \cup {Nobody}] /\ arg \in [Threads -> Officers \cup {Nobody}]
      /\ \A o \in Officers : o \notin Users
  BY CallbackThreads DEF Next, Threads, StepTypes, PcTypes, CopyTypes
<1>2. ASSUME NEW t \in Threads, LogStep(t) \/ LogLock(t) PROVE ErrorCopies'
  <2>1. /\ \A r \in Threads \ {t} : pc'[r] = pc[r]
        /\ pc'[t] \in OfficerLogPcs \cup {AfterLog(t)}
        /\ UNCHANGED g_error_cb
    BY <1>2, LogMoves DEF StepTypes, reg_vars
  <2>2. \A r \in Threads \ {t} : cb'[r] = cb[r] /\ arg'[r] = arg[r]
    BY <1>1, <1>2 DEF LogStep, LogLock, LogLoad, LogCb, LogArg, LogUnlock, LogCount, LogEmit,
       DropCopies, copy_vars
  <2>3. pc'[t] \notin {"p_call", "e_arg", "e_call"}
    BY <2>1 DEF OfficerLogPcs, LogPcs, AfterLog
  <2>4. ASSUME NEW u \in Users, u # t PROVE ErrorCopy(u)'
    BY <1>1, <2>1, <2>2, <2>4, CopyKept DEF ErrorCopies
  <2> QED
    BY <1>1, <2>3, <2>4 DEF ErrorCopies, ErrorCopy
<1>3. ASSUME NEW t \in Users, LogCall(t) \/ ErrorCall(t) \/ ReportCall(t) \/ UserStep(t)
      PROVE  ErrorCopies'
  <2>1. \A r \in Threads \ {t} : pc'[r] = pc[r] /\ cb'[r] = cb[r] /\ arg'[r] = arg[r]
    BY <1>1, <1>3 DEF LogCall, ErrorCall, ReportCall, UserStep, ErrorReadArg, ErrorDone,
       DropCopies, Goto, copy_vars
  <2>2. UNCHANGED <<g_error_cb, g_error_cb_arg, st_writer>>
    BY <1>3, UserMoves DEF StepTypes, reg_vars
  <2>3. ErrorCopy(t)'
    <3>1. CASE LogCall(t) \/ ErrorDone(t)
      <4>1. pc'[t] \notin {"p_call", "e_arg", "e_call"}
        BY <1>1, <3>1 DEF LogCall, ErrorDone, Goto
      <4> QED
        BY <4>1 DEF ErrorCopy
    <3>2. CASE ErrorCall(t)
      <4>1. pc'[t] = "e_arg" /\ cb'[t] = g_error_cb
        BY <1>1, <3>2 DEF ErrorCall, Goto
      <4>2. t \notin raced' => st_writer = Nobody
        BY <1>1, <4>1 DEF Observe
      <4> QED
        BY <2>2, <4>1, <4>2 DEF ErrorCopy
    <3>3. CASE ErrorReadArg(t)
      <4>1. pc[t] = "e_arg" /\ pc'[t] = "e_call" /\ arg'[t] = g_error_cb_arg /\ cb'[t] = cb[t]
        BY <1>1, <3>3 DEF ErrorReadArg, Goto
      <4>2. t \notin raced' => t \notin raced /\ st_writer = Nobody
        BY <1>1, <4>1 DEF Observe
      <4>3. t \notin raced /\ st_writer = Nobody => cb[t] = g_error_cb /\ g_error_cb = g_error_cb_arg
        BY <4>1 DEF ErrorCopies, ErrorCopy, Ownership, Registered
      <4> QED
        BY <4>1, <4>2, <4>3 DEF ErrorCopy
    <3>4. CASE ReportCall(t)
      <4>1. /\ pc'[t] = "p_call" /\ arg'[t] = g_error_cb_arg /\ cb'[t] = g_error_cb
            /\ st_writer = Nobody
        BY <1>1, <3>4 DEF ReportCall, Goto
      <4> QED
        BY <4>1 DEF ErrorCopy, Ownership, Registered
    <3> QED
      BY <1>3, <3>1, <3>2, <3>3, <3>4 DEF UserStep
  <2>4. ASSUME NEW u \in Users, u # t PROVE ErrorCopy(u)'
    BY <1>1, <2>1, <2>2, <2>4, CopyKept DEF ErrorCopies
  <2> QED
    BY <2>3, <2>4 DEF ErrorCopies
<1> QED
  BY <1>1, <1>2, <1>3, OfficerCopies DEF Next, Step, Progress

-----------------------------------------------------------------------------
(***************************************************************************)
(* Counting: locks per call, events per user.                              *)
(***************************************************************************)
LEMMA FiniteThreads ==
  /\ IsFiniteSet(Officers) /\ IsFiniteSet(Users) /\ Cardinality(Users) \in Nat
  /\ \A S \in SUBSET Threads : IsFiniteSet(S) /\ Cardinality(S) \in Nat
  BY CallbackThreads, FS_Subset, FS_CardinalityType DEF Threads

\* The officers on their way to do_audit_lock_init can be counted.
LEMMA PendingFinite ==
  /\ IsFiniteSet(Pending) /\ Cardinality(Pending) \in Nat
  /\ IsFiniteSet(Pending') /\ Cardinality(Pending') \in Nat
<1>1. Pending \subseteq Officers /\ Pending' \subseteq Officers
  BY DEF Pending
<1> QED
  BY <1>1, FiniteThreads, FS_Subset, FS_CardinalityType

\* A step creates a lock only by taking its officer out of the pending ones, and
\* adds a pending officer only by counting a call.
LEMMA CreationKept ==
  ASSUME CreationBound, created \in Nat, calls \in Nat,
         created' = created, calls' = calls, Pending' \subseteq Pending
  PROVE  CreationBound'
<1>1. Cardinality(Pending') <= Cardinality(Pending)
  BY PendingFinite, FS_Subset
<1> QED
  BY <1>1, PendingFinite DEF CreationBound

\* A new call makes room for one more pending officer.
LEMMA CreationCalled ==
  ASSUME CreationBound, created \in Nat, calls \in Nat, NEW o,
         created' = created, calls' = calls + 1, Pending' \subseteq Pending \cup {o}
  PROVE  CreationBound'
<1>1. /\ IsFiniteSet(Pending \cup {o})
      /\ Cardinality(Pending \cup {o}) \in {Cardinality(Pending), Cardinality(Pending) + 1}
  BY PendingFinite, FS_AddElement
<1>2. Cardinality(Pending') <= Cardinality(Pending \cup {o})
  BY <1>1, FS_Subset
<1> QED
  BY <1>1, <1>2, PendingFinite DEF CreationBound

\* do_audit_lock_init turns a pending officer into a lock.
LEMMA CreationOnce ==
  ASSUME CreationBound, created \in Nat, calls \in Nat, NEW o \in Pending,
         created' \in {created, created + 1}, calls' = calls, Pending' \subseteq Pending \ {o}
  PROVE  CreationBound'
<1>1. IsFiniteSet(Pending \ {o}) /\ Cardinality(Pending \ {o}) = Cardinality(Pending) - 1
  BY PendingFinite, FS_RemoveElement
<1>2. Cardinality(Pending') <= Cardinality(Pending \ {o})
  BY <1>1, FS_Subset
<1> QED
  BY <1>1, <1>2, PendingFinite DEF CreationBound

\* Every step keeps the bound on the locks created.
LEMMA CreationStep ==
  ASSUME StepTypes, CreationBound, Step
  PROVE  CreationBound'
<1>1. created \in Nat /\ calls \in Nat
  BY CallbackBounds DEF StepTypes, PtrTypes, CallTypes, LockIds
<1>2. /\ pc \in [Threads -> Pcs] /\ Officers \subseteq Threads /\ \A o \in Officers : o \notin Users
  BY CallbackThreads DEF Threads, StepTypes, PcTypes
<1> USE DEF PendingPcs, lock_vars, call_vars
<1>3. ASSUME NEW o \in Officers, OfficerCall(o) \/ OfficerStep(o) PROVE CreationBound'
  <2>1. CASE InitCall(o) \/ Unregister(o) \/ UnregisterOther(o) \/ Fini(o)
    <3>1. /\ calls' = calls + 1 /\ created' = created
          /\ \A p \in Officers \ {o} : pc'[p] = pc[p]
      BY <1>2, <2>1 DEF InitCall, Unregister, UnregisterOther, Fini, Withdraw, Goto
    <3>2. Pending' \subseteq Pending \cup {o}
      BY <3>1 DEF Pending
    <3> QED
      BY <1>1, <3>1, <3>2, CreationCalled
  <2>2. CASE SetOnce(o)
    <3>1. /\ calls' = calls /\ created' \in {created, created + 1}
          /\ \A p \in Officers \ {o} : pc'[p] = pc[p]
          /\ pc[o] = "sc_once" /\ pc'[o] = "sc_load"
      BY <1>2, <2>2 DEF SetOnce, Goto
    <3>2. Pending' \subseteq Pending \ {o} /\ o \in Pending
      BY <3>1 DEF Pending
    <3> QED
      BY <1>1, <3>1, <3>2, CreationOnce
  <2>3. CASE /\ UNCHANGED <<created, calls>>
             /\ \A p \in Officers \ {o} : pc'[p] = pc[p]
             /\ pc'[o] \in PendingPcs => pc[o] \in PendingPcs
    <3>1. Pending' \subseteq Pending
      BY <2>3 DEF Pending
    <3> QED
      BY <1>1, <2>3, <3>1, CreationKept
  <2>4. CASE InitFast(o) \/ InitSlow(o) \/ InitDecided(o) \/ SetErrorCb(o) \/ SetErrorArg(o)
    BY <1>2, <2>3, <2>4 DEF InitFast, InitSlow, Claim, InitDecided, SetErrorCb, SetErrorArg, Goto
  <2>5. CASE SetLoad(o) \/ SetCb(o) \/ SetArg(o) \/ StUnlock(o)
    BY <1>2, <2>3, <2>5 DEF SetLoad, SetCb, SetArg, StUnlock, Goto
  <2>6. CASE CleanTest(o) \/ CleanNull(o) \/ CleanOnce(o) \/ CleanCb(o) \/ CleanArg(o)
    BY <1>2, <2>3, <2>6 DEF CleanTest, CleanNull, CleanOnce, CleanCb, CleanArg, Goto
  <2>7. CASE CleanFree(o)
    BY <1>2, <2>3, <2>7 DEF CleanFree, Undefined, Goto
  <2>8. CASE SetLock(o)
    <3>1. Goto(o, "sc_cb") \/ pc' = pc
      BY <2>8, LockMoves DEF SetLock
    <3>2. UNCHANGED <<created, calls>>
      BY <2>8 DEF SetLock, LockAudit, Acquire, Undefined
    <3> QED
      BY <1>2, <2>3, <3>1, <3>2 DEF Goto
  <2>9. CASE SetUnlock(o)
    <3>1. Goto(o, IF op[o] = "slow" THEN "a_load" ELSE "r_unlock") \/ pc' = pc
      BY <2>9, LockMoves DEF SetUnlock
    <3>2. UNCHANGED <<created, calls>>
      BY <2>9 DEF SetUnlock, UnlockAudit, Undefined
    <3> QED
      BY <1>2, <2>3, <3>1, <3>2 DEF Goto
  <2> QED
    BY <1>3, <2>1, <2>2, <2>4, <2>5, <2>6, <2>7, <2>8, <2>9 DEF OfficerCall, OfficerStep
<1>4. ASSUME NEW t \in Threads, LogStep(t) \/ LogLock(t) PROVE CreationBound'
  <2>1. /\ \A r \in Threads \ {t} : pc'[r] = pc[r]
        /\ pc'[t] \in OfficerLogPcs \cup {AfterLog(t)} /\ UNCHANGED calls
    BY <1>4, LogMoves DEF StepTypes
  <2>2. UNCHANGED created
    BY <1>4 DEF LogStep, LogLock, LogLoad, LogCb, LogArg, LogUnlock, LogCount, LogEmit,
       LockAudit, UnlockAudit, Acquire, Undefined
  <2>3. Pending' \subseteq Pending
    BY <1>2, <2>1 DEF Pending, OfficerLogPcs, LogPcs, AfterLog
  <2> QED
    BY <1>1, <2>1, <2>2, <2>3, CreationKept
<1>5. ASSUME NEW u \in Users, LogCall(u) \/ ErrorCall(u) \/ ReportCall(u) \/ UserStep(u)
      PROVE  CreationBound'
  <2>1. (\A r \in Threads \ {u} : pc'[r] = pc[r]) /\ UNCHANGED calls
    BY <1>5, UserMoves DEF StepTypes
  <2>2. UNCHANGED created
    BY <1>5 DEF LogCall, ErrorCall, ReportCall, UserStep, ErrorReadArg, ErrorDone
  <2>3. Pending' \subseteq Pending
    BY <1>2, <2>1 DEF Pending
  <2> QED
    BY <1>1, <2>1, <2>2, <2>3, CreationKept
<1> QED
  BY <1>3, <1>4, <1>5 DEF Step, Progress

\* The counters and the threads that are about to count.
LEMMA CountStep ==
  ASSUME StepTypes, Places, Places', CountBound, Step
  PROVE  CountBound'
<1>1. /\ pc \in [Threads -> Pcs] /\ Officers \subseteq Threads /\ Users \subseteq Threads
      /\ g_audit_count \in [Severities -> Nat] /\ sev \in [Threads -> Severities]
      /\ AuditRateLimit \in Nat /\ Nobody \notin Threads
  BY CallbackThreads, CallbackBounds
  DEF Threads, StepTypes, PcTypes, CountTypes, CallTypes
<1>2. ASSUME NEW s \in Severities
      PROVE  /\ IsFiniteSet(Emitters(s)) /\ Cardinality(Emitters(s)) \in Nat
             /\ IsFiniteSet(Emitters(s)') /\ Cardinality(Emitters(s)') \in Nat
  <2>1. Emitters(s) \in SUBSET Threads /\ Emitters(s)' \in SUBSET Threads
    BY DEF Emitters
  <2> QED
    BY <2>1, FiniteThreads
<1>3. ASSUME UNCHANGED g_audit_count,
             \A t \in Threads : pc'[t] = "a_emit" => pc[t] = "a_emit" /\ sev'[t] = sev[t]
      PROVE  CountBound'
  <2>1. ASSUME NEW s \in Severities
        PROVE  g_audit_count[s] + Cardinality(Emitters(s)') <= AuditRateLimit + Cardinality(Users)
    <3>1. Emitters(s)' \subseteq Emitters(s)
      BY <1>3 DEF Emitters
    <3>2. Cardinality(Emitters(s)') <= Cardinality(Emitters(s))
      BY <1>2, <3>1, FS_Subset
    <3>3. g_audit_count[s] + Cardinality(Emitters(s)) <= AuditRateLimit + Cardinality(Users)
      BY DEF CountBound
    <3>4. g_audit_count[s] \in Nat
      BY <1>1
    <3> QED
      BY <1>1, <1>2, <3>2, <3>3, <3>4, FiniteThreads
  <2> QED
    BY <1>3, <2>1 DEF CountBound
<1>4. ASSUME NEW t \in Threads, LogCount(t) PROVE CountBound'
  <2>1. /\ UNCHANGED <<g_audit_count, sev>> /\ \A r \in Threads \ {t} : pc'[r] = pc[r]
        /\ pc'[t] = "a_emit" => MayEmit(t)
    BY <1>1, <1>4 DEF LogCount, Goto, call_vars, AfterLog
  <2>2. ASSUME NEW s \in Severities
        PROVE  g_audit_count[s] + Cardinality(Emitters(s)') <= AuditRateLimit + Cardinality(Users)
    <3>1. CASE pc'[t] # "a_emit" \/ sev[t] # s
      <4>1. Emitters(s)' \subseteq Emitters(s)
        BY <2>1, <3>1 DEF Emitters
      <4>2. Cardinality(Emitters(s)') <= Cardinality(Emitters(s))
        BY <1>2, <4>1, FS_Subset
      <4>3. g_audit_count[s] + Cardinality(Emitters(s)) <= AuditRateLimit + Cardinality(Users)
        BY DEF CountBound
      <4>4. g_audit_count[s] \in Nat
        BY <1>1
      <4> QED
        BY <1>1, <1>2, <4>2, <4>3, <4>4, FiniteThreads
    <3>2. CASE pc'[t] = "a_emit" /\ sev[t] = s
      <4>1. g_audit_count[s] < AuditRateLimit /\ g_audit_count[s] \in Nat
        BY <1>1, <2>1, <3>2 DEF MayEmit
      <4>2. Emitters(s)' \subseteq Users \cup {st_writer'}
        BY DEF Emitters, Threads, Places, OfficerAt, HoldingPcs, OfficerLogPcs
      <4>3. /\ IsFiniteSet(Users \cup {st_writer'})
            /\ Cardinality(Users \cup {st_writer'}) \in {Cardinality(Users), Cardinality(Users) + 1}
        BY FiniteThreads, FS_AddElement
      <4>4. Cardinality(Emitters(s)') <= Cardinality(Users \cup {st_writer'})
        BY <4>2, <4>3, FS_Subset
      <4> QED
        BY <1>1, <1>2, <4>1, <4>3, <4>4, FiniteThreads
    <3> QED
      BY <3>1, <3>2
  <2> QED
    BY <2>1, <2>2 DEF CountBound
<1>5. ASSUME NEW t \in Threads, LogEmit(t) PROVE CountBound'
  <2>1. /\ UNCHANGED sev /\ \A r \in Threads \ {t} : pc'[r] = pc[r]
        /\ pc[t] = "a_emit" /\ pc'[t] # "a_emit"
        /\ g_audit_count' = [g_audit_count EXCEPT ![sev[t]] = @ + 1]
    BY <1>1, <1>5 DEF LogEmit, Goto, call_vars, AfterLog
  <2>2. ASSUME NEW s \in Severities
        PROVE  g_audit_count'[s] + Cardinality(Emitters(s)') <= AuditRateLimit + Cardinality(Users)
    <3>1. Emitters(s)' = Emitters(s) \ {t}
      BY <2>1 DEF Emitters
    <3>2. g_audit_count[s] + Cardinality(Emitters(s)) <= AuditRateLimit + Cardinality(Users)
      BY DEF CountBound
    <3>3. g_audit_count[s] \in Nat
      BY <1>1
    <3>4. CASE sev[t] = s
      <4>1. t \in Emitters(s)
        BY <2>1, <3>4 DEF Emitters
      <4>2. Cardinality(Emitters(s)') = Cardinality(Emitters(s)) - 1
        BY <1>2, <3>1, <4>1, FS_RemoveElement
      <4>3. g_audit_count'[s] = g_audit_count[s] + 1
        BY <1>1, <2>1, <3>4
      <4> QED
        BY <1>1, <1>2, <3>2, <3>3, <4>2, <4>3, FiniteThreads
    <3>5. CASE sev[t] # s
      <4>1. Cardinality(Emitters(s)') <= Cardinality(Emitters(s))
        BY <1>2, <3>1, FS_Subset
      <4>2. g_audit_count'[s] = g_audit_count[s]
        BY <1>1, <2>1, <3>5
      <4> QED
        BY <1>1, <1>2, <3>2, <3>3, <4>1, <4>2, FiniteThreads
    <3> QED
      BY <3>4, <3>5
  <2> QED
    BY <2>2 DEF CountBound
<1>6. ASSUME NEW t \in Threads, LogStep(t) \/ LogLock(t), ~LogCount(t), ~LogEmit(t)
      PROVE  CountBound'
  <2>1. UNCHANGED <<g_audit_count, sev>>
    BY <1>6 DEF LogStep, LogLock, LogLoad, LogCb, LogArg, LogUnlock, call_vars
  <2>2. \A r \in Threads : pc'[r] = "a_emit" => pc[r] = "a_emit"
    <3>1. CASE LogLock(t)
      <4>1. Goto(t, "a_cb") \/ pc' = pc
        BY <3>1, LockMoves DEF LogLock
      <4> QED
        BY <1>1, <4>1 DEF Goto
    <3>2. CASE LogUnlock(t)
      <4>1. Goto(t, "a_count") \/ pc' = pc
        BY <3>2, LockMoves DEF LogUnlock
      <4> QED
        BY <1>1, <4>1 DEF Goto
    <3> QED
      BY <1>1, <1>6, <3>1, <3>2 DEF LogStep, LogLoad, LogCb, LogArg, Goto
  <2> QED
    BY <1>3, <2>1, <2>2
<1>7. ASSUME NEW u \in Users, LogCall(u) \/ ErrorCall(u) \/ ReportCall(u) \/ UserStep(u)
      PROVE  CountBound'
  <2>1. /\ \A r \in Threads \ {u} : pc'[r] = pc[r]
        /\ pc'[u] \in {"e_arg", "e_call", "p_call", "a_load", "a_lock", "a_cb"}
    BY <1>7, UserMoves DEF StepTypes
  <2>2. UNCHANGED g_audit_count /\ \A r \in Threads \ {u} : sev'[r] = sev[r]
    BY <1>1, <1>7 DEF LogCall, ErrorCall, ReportCall, UserStep, ErrorReadArg, ErrorDone, call_vars
  <2> QED
    BY <1>3, <2>1, <2>2
<1>8. ASSUME NEW o \in Officers, OfficerCall(o) \/ OfficerStep(o) PROVE CountBound'
  <2> USE DEF call_vars
  <2>1. CASE SetLock(o)
    <3>1. UNCHANGED <<g_audit_count, sev>>
      BY <2>1 DEF SetLock
    <3>2. Goto(o, "sc_cb") \/ pc' = pc
      BY <2>1, LockMoves DEF SetLock
    <3>3. \A r \in Threads : pc'[r] = "a_emit" => pc[r] = "a_emit"
      BY <1>1, <3>2 DEF Goto
    <3> QED
      BY <1>3, <3>1, <3>3
  <2>2. CASE SetUnlock(o)
    <3>1. UNCHANGED <<g_audit_count, sev>>
      BY <2>2 DEF SetUnlock
    <3>2. Goto(o, IF op[o] = "slow" THEN "a_load" ELSE "r_unlock") \/ pc' = pc
      BY <2>2, LockMoves DEF SetUnlock
    <3>3. \A r \in Threads : pc'[r] = "a_emit" => pc[r] = "a_emit"
      BY <1>1, <3>2 DEF Goto
    <3> QED
      BY <1>3, <3>1, <3>3
  <2>3. CASE OfficerCall(o) /\ ~SetLock(o)
    <3>1. UNCHANGED <<g_audit_count, sev>>
      BY <2>3 DEF OfficerCall, InitCall, InitFast, InitSlow, Claim, InitDecided, Unregister,
         UnregisterOther, Fini, Withdraw
    <3>2. \A r \in Threads : pc'[r] = "a_emit" => pc[r] = "a_emit"
      BY <1>1, <2>3 DEF OfficerCall, InitCall, InitFast, InitSlow, Claim, InitDecided, Unregister,
         UnregisterOther, Fini, Withdraw, Goto
    <3> QED
      BY <1>3, <3>1, <3>2
  <2>4. CASE OfficerStep(o) /\ ~SetUnlock(o)
    <3>1. UNCHANGED <<g_audit_count, sev>>
      BY <2>4 DEF OfficerStep, SetErrorCb, SetErrorArg, SetOnce, SetLoad, SetCb, SetArg,
         StUnlock, CleanTest, CleanFree, CleanNull, CleanOnce, CleanCb, CleanArg
    <3>2. \A r \in Threads : pc'[r] = "a_emit" => pc[r] = "a_emit"
      BY <1>1, <2>4 DEF OfficerStep, SetErrorCb, SetErrorArg, SetOnce, SetLoad, SetCb, SetArg,
         StUnlock, CleanTest, CleanFree, CleanNull, CleanOnce, CleanCb, CleanArg, Goto, Undefined
    <3> QED
      BY <1>3, <3>1, <3>2
  <2> QED
    BY <1>8, <2>1, <2>2, <2>3, <2>4
<1> QED
  BY <1>4, <1>5, <1>6, <1>7, <1>8 DEF Step, Progress

-----------------------------------------------------------------------------
(***************************************************************************)
(* The audit lock while no cleanup meets another audit call.               *)
(***************************************************************************)
\* Where a thread has loaded the lock, has it or is taking it down.
InnerPcs == (SetPcs \ {"sc_once"}) \cup (CleanPcs \ {"cl_test"}) \cup (LogPcs \ {"a_load"})

\* A step outside of these changes nothing.
LEMMA QuietMove ==
  ASSUME Quiet, ~Overlapping', NEW t \in Threads, pc[t] \notin InnerPcs, pc'[t] \notin InnerPcs,
         \A r \in Threads \ {t} : pc'[r] = pc[r] /\ cb'[r] = cb[r] /\ arg'[r] = arg[r],
         \A o \in Officers \ {t} : op'[o] = op[o] /\ audit'[o] = audit[o],
         UNCHANGED <<lock_vars, pair_vars, held, ptr, bad>>,
         HoldTypes
  PROVE  Quiet'
<1> Officers \subseteq Threads
  BY DEF Threads
<1>1. UNCHANGED <<g_audit_lock, g_audit_lock_once, created, freed, wr, rd, g_audit_cb, g_audit_cb_arg>>
  BY DEF lock_vars, pair_vars
<1> USE DEF InnerPcs, SetPcs, CleanPcs, LogPcs
<1>2. LockPointer'
  BY <1>1 DEF Quiet, LockPointer
<1>3. \A r \in Threads : ThreadLock(r)'
  BY <1>1 DEF Quiet, LockHolders, ThreadLock, WritePcs, ReadPcs
<1>4. ASSUME NEW l \in LockIds PROVE LockState(l)'
  <2>1. LockState(l)
    BY DEF Quiet, LockHolders
  <2>2. rd[l] \subseteq Threads /\ wr[l] \in Threads \cup {Nobody}
    BY DEF HoldTypes
  <2>3. \A r \in Threads : pc[r] \in WritePcs \cup ReadPcs => pc'[r] = pc[r]
    BY DEF WritePcs, ReadPcs
  <2> QED
    BY <1>1, <2>1, <2>2, <2>3 DEF LockState
<1>5. AuditPair'
  BY <1>1 DEF Quiet, AuditCopies, AuditPair, Registers
<1>6. \A r \in Threads : AuditCopy(r)'
  BY <1>1 DEF Quiet, AuditCopies, AuditCopy
<1> QED
  BY <1>2, <1>3, <1>4, <1>5, <1>6 DEF Quiet, LockHolders, AuditCopies

\* The steps of the calls around the audit functions.
LEMMA QuietOutside ==
  ASSUME StepTypes, Flags, Quiet, ~Overlapping', NEW t \in Threads,
         \/ t \in Officers /\ (OfficerCall(t) \/ SetErrorCb(t) \/ SetErrorArg(t) \/ StUnlock(t))
         \/ t \in Users /\ (ErrorCall(t) \/ ReportCall(t) \/ UserStep(t))
         \/ LogCount(t) \/ LogEmit(t),
         ~SetLock(t)
  PROVE  Quiet'
<1>1. /\ pc \in [Threads -> Pcs] /\ op \in [Officers -> Ops] /\ HoldTypes
      /\ cb \in [Threads -> Officers \cup {Nobody}] /\ arg \in [Threads -> Officers \cup {Nobody}]
  BY DEF StepTypes, PcTypes, CallTypes, CopyTypes
<1> USE DEF InnerPcs, SetPcs, CleanPcs, LogPcs, lock_vars, pair_vars, copy_vars, call_vars, Goto
<1>2. CASE t \in Officers /\ (OfficerCall(t) \/ SetErrorCb(t) \/ SetErrorArg(t) \/ StUnlock(t))
  <2>1. /\ pc[t] \notin InnerPcs /\ pc'[t] \notin InnerPcs
        /\ \A r \in Threads \ {t} : pc'[r] = pc[r]
        /\ UNCHANGED <<lock_vars, pair_vars, held, ptr, bad, cb, arg>>
    BY <1>1, <1>2 DEF OfficerCall, InitCall, InitFast, InitSlow, Claim, InitDecided, Unregister,
       UnregisterOther, Fini, Withdraw, SetErrorCb, SetErrorArg, StUnlock
  <2>2. \A o \in Officers \ {t} : op'[o] = op[o]
    BY <1>1, <1>2 DEF OfficerCall, InitCall, InitFast, InitSlow, Claim, InitDecided, Unregister,
       UnregisterOther, Fini, Withdraw, SetErrorCb, SetErrorArg, StUnlock, Forget
  <2>3. \A o \in Officers \ {t} : audit'[o] = audit[o]
    BY <1>2 DEF OfficerCall, InitCall, InitFast, InitSlow, Claim, InitDecided, Unregister,
       UnregisterOther, Fini, Withdraw, SetErrorCb, SetErrorArg, StUnlock, Forget, Flags
  <2> QED
    BY <1>1, <2>1, <2>2, <2>3, QuietMove
<1>3. CASE t \in Users /\ (ErrorCall(t) \/ ReportCall(t) \/ UserStep(t))
  BY <1>1, <1>3, QuietMove DEF ErrorCall, ReportCall, UserStep, ErrorReadArg, ErrorDone, DropCopies
<1>4. CASE LogCount(t) \/ LogEmit(t)
  BY <1>1, <1>4, QuietMove DEF LogCount, LogEmit, DropCopies, AfterLog
<1> QED
  BY <1>2, <1>3, <1>4

\* Who excludes whom: a cleanup every other audit call, a registration every
\* other registration and every cleanup, a log call every cleanup.
LEMMA QuietFacts ==
  ASSUME StepTypes, Places, Quiet, NEW t \in Threads
  PROVE  /\ pc[t] \notin WritePcs \cup ReadPcs => held[t] = 0
         /\ t \in Officers /\ pc[t] \in CleanPcs
            => \A r \in Threads \ {t} : pc[r] \notin AuditPcs /\ held[r] = 0
         /\ pc[t] \in SetPcs \cup LogPcs
            => (\A o \in Officers : pc[o] \notin CleanPcs) /\ g_audit_lock \notin freed
         /\ t \in Officers /\ pc[t] \in SetPcs
            => \A o \in Officers \ {t} : pc[o] \notin SetPcs \cup LogPcs
         /\ g_audit_lock = 0 => \A l \in LockIds : wr[l] = Nobody /\ rd[l] = {}
         /\ held \in [Threads -> LockIds \cup {0}] /\ ptr \in [Threads -> LockIds \cup {0}]
<1> /\ Officers \subseteq Threads /\ Nobody \notin Threads /\ 0 \notin LockIds
  BY CallbackThreads, CallbackBounds DEF Threads, LockIds
<1>1. \A r \in Threads : pc[r] \notin WritePcs \cup ReadPcs => held[r] = 0
  BY DEF Quiet, LockHolders, ThreadLock
<1>2. ASSUME t \in Officers, pc[t] \in CleanPcs, NEW r \in Threads \ {t}
      PROVE  pc[r] \notin AuditPcs /\ held[r] = 0
  <2>1. pc[r] \notin AuditPcs
    BY <1>2 DEF Quiet, Overlapping
  <2>2. pc[r] \notin WritePcs \cup ReadPcs
    BY <2>1 DEF AuditPcs, WritePcs, ReadPcs, SetPcs, LogPcs
  <2> QED
    BY <1>1, <2>1, <2>2
<1>3. ASSUME pc[t] \in SetPcs \cup LogPcs
      PROVE  (\A o \in Officers : pc[o] \notin CleanPcs) /\ g_audit_lock \notin freed
  <2>1. pc[t] \notin CleanPcs /\ pc[t] \in AuditPcs
    BY <1>3 DEF SetPcs, LogPcs, CleanPcs, AuditPcs
  <2>2. \A o \in Officers : pc[o] \notin CleanPcs
    BY <2>1 DEF Quiet, Overlapping
  <2> QED
    BY <2>2 DEF Quiet, LockPointer, CleanPcs
<1>4. ASSUME t \in Officers, pc[t] \in SetPcs, NEW o \in Officers \ {t}
      PROVE  pc[o] \notin SetPcs \cup LogPcs
  BY <1>4 DEF Places, OfficerAt, HoldingPcs, OfficerLogPcs
<1>5. ASSUME g_audit_lock = 0, NEW l \in LockIds PROVE wr[l] = Nobody /\ rd[l] = {}
  <2>1. rd[l] \subseteq Threads /\ wr[l] \in Threads \cup {Nobody}
    BY DEF StepTypes, HoldTypes
  <2>2. \A r \in Threads : held[r] # l
    BY <1>5 DEF Quiet, LockHolders, ThreadLock
  <2>3. LockState(l)
    BY DEF Quiet, LockHolders
  <2> QED
    BY <2>1, <2>2, <2>3 DEF LockState
<1>6. held \in [Threads -> LockIds \cup {0}] /\ ptr \in [Threads -> LockIds \cup {0}]
  BY DEF StepTypes, HoldTypes, PtrTypes
<1> QED
  BY <1>1, <1>2, <1>3, <1>4, <1>5, <1>6

\* NULL is no lock.
LEMMA LockNumbers == LockIds \subseteq Nat /\ 0 \notin LockIds
  BY CallbackBounds DEF LockIds

\* One thread moves; the threads that have the lock do not.
LEMMA LockStateKept ==
  ASSUME HoldTypes, NEW l \in LockIds, LockState(l), UNCHANGED <<wr, rd>>,
         \A r \in Threads : \/ held'[r] = held[r] /\ pc'[r] = pc[r]
                            \/ held[r] = 0
                            \/ held'[r] = held[r] /\ \/ {pc[r], pc'[r]} \subseteq WritePcs
                                                     \/ {pc[r], pc'[r]} \subseteq ReadPcs
  PROVE  LockState(l)'
<1>1. rd[l] \subseteq Threads /\ wr[l] \in Threads \cup {Nobody} /\ l # 0
  BY LockNumbers DEF HoldTypes, Threads
<1>2. WritePcs \cap ReadPcs = {}
  BY DEF WritePcs, ReadPcs
<1> QED
  BY <1>1, <1>2 DEF LockState

\* After do_audit_lock_init the pointer is a lock that was never freed.
LEMMA QuietSetOnce ==
  ASSUME StepTypes, Flags, Places, Quiet, ~Overlapping', NEW o \in Officers, SetOnce(o)
  PROVE  Quiet'
<1> o \in Threads /\ Officers \subseteq Threads
  BY DEF Threads
<1>1. /\ pc[o] = "sc_once" /\ pc'[o] = "sc_load" /\ \A r \in Threads \ {o} : pc'[r] = pc[r]
      /\ UNCHANGED <<freed, wr, rd, ptr, held, cb, arg, op, audit, bad, g_audit_cb, g_audit_cb_arg>>
      /\ g_audit_lock_once'
      /\ IF g_audit_lock_once THEN UNCHANGED <<created, g_audit_lock>>
         ELSE created' = created + 1 /\ g_audit_lock' = created + 1
  BY DEF SetOnce, Goto, StepTypes, PcTypes, pair_vars, copy_vars, call_vars
<1>2. /\ \A p \in Officers : pc[p] \notin CleanPcs
      /\ g_audit_lock \notin freed
      /\ g_audit_lock = 0 => \A l \in LockIds : wr[l] = Nobody /\ rd[l] = {}
      /\ held \in [Threads -> LockIds \cup {0}]
  BY <1>1, QuietFacts DEF SetPcs
<1>3. created \in Nat /\ g_audit_lock \in Nat /\ freed \subseteq Nat
  <2>1. created \in LockIds \cup {0} /\ g_audit_lock \in LockIds \cup {0}
    BY DEF StepTypes, PtrTypes
  <2>2. freed \subseteq LockIds
    BY DEF StepTypes, HoldTypes
  <2> QED
    BY <2>1, <2>2, LockNumbers
<1>4. g_audit_lock_once <=> g_audit_lock # 0
  BY <1>2 DEF Quiet, LockPointer, CleanPcs
<1>5. /\ g_audit_lock' # 0 /\ g_audit_lock' <= created' /\ created <= created' /\ created' \in Nat
      /\ g_audit_lock' \notin freed
      /\ g_audit_lock = 0 \/ g_audit_lock' = g_audit_lock
  <2>1. g_audit_lock <= created /\ \A l \in freed : l <= created
    BY DEF Quiet, LockPointer
  <2>2. CASE g_audit_lock_once
    BY <1>1, <1>2, <1>3, <1>4, <2>1, <2>2
  <2>3. CASE ~g_audit_lock_once
    BY <1>1, <1>3, <1>4, <2>1, <2>3
  <2> QED
    BY <2>2, <2>3
<1>6. LockPointer'
  <2>1. \A l \in freed : l <= created'
    <3>1. \A l \in freed : l <= created
      BY DEF Quiet, LockPointer
    <3> QED
      BY <1>3, <1>5, <3>1
  <2>2. \A p \in Officers : pc'[p] \notin {"cl_once", "cl_cb", "cl_arg"}
    BY <1>1, <1>2 DEF CleanPcs
  <2> QED
    BY <1>1, <1>5, <2>1, <2>2 DEF LockPointer
<1>7. \A r \in Threads : ThreadLock(r)'
  BY <1>1, <1>2, <1>5 DEF Quiet, LockHolders, ThreadLock, WritePcs, ReadPcs
<1>8. \A l \in LockIds : LockState(l)'
  <2>1. held[o] = 0
    BY <1>1, QuietFacts DEF WritePcs, ReadPcs
  <2> QED
    BY <1>1, <2>1, LockStateKept DEF StepTypes, Quiet, LockHolders
<1>9. AuditCopies'
  BY <1>1 DEF Quiet, AuditCopies, AuditPair, AuditCopy, Registers
<1> QED
  BY <1>1, <1>6, <1>7, <1>8, <1>9 DEF Quiet, LockHolders

\* qudo_audit_set_callback loads the pointer and finds a lock.
LEMMA QuietSetLoad ==
  ASSUME StepTypes, Flags, Places, Quiet, ~Overlapping', NEW o \in Officers, SetLoad(o)
  PROVE  Quiet'
<1> o \in Threads /\ Officers \subseteq Threads
  BY DEF Threads
<1>0. g_audit_lock # 0 /\ ptr \in [Threads -> LockIds \cup {0}] /\ held[o] = 0
  BY QuietFacts DEF SetLoad, Quiet, LockPointer, SetPcs, WritePcs, ReadPcs
<1>1. /\ pc[o] = "sc_load" /\ pc'[o] = "sc_lock" /\ ptr'[o] = g_audit_lock
      /\ \A r \in Threads \ {o} : pc'[r] = pc[r] /\ ptr'[r] = ptr[r]
      /\ UNCHANGED <<g_audit_lock, g_audit_lock_once, created, freed, wr, rd, held, cb, arg, op,
                     audit, bad, g_audit_cb, g_audit_cb_arg>>
  BY <1>0 DEF SetLoad, Goto, StepTypes, PcTypes, pair_vars, copy_vars, call_vars, lock_vars
<1>2. LockPointer'
  BY <1>1 DEF Quiet, LockPointer, SetPcs
<1>3. \A r \in Threads : ThreadLock(r)'
  BY <1>0, <1>1 DEF Quiet, LockHolders, ThreadLock, WritePcs, ReadPcs
<1>4. \A l \in LockIds : LockState(l)'
  BY <1>0, <1>1, LockStateKept DEF StepTypes, Quiet, LockHolders
<1>5. AuditCopies'
  BY <1>1 DEF Quiet, AuditCopies, AuditPair, AuditCopy, Registers
<1> QED
  BY <1>1, <1>2, <1>3, <1>4, <1>5 DEF Quiet, LockHolders

\* The write lock is taken on the lock that was loaded, and shuts everyone out.
LEMMA QuietSetLock ==
  ASSUME StepTypes, Flags, Places, Quiet, ~Overlapping', NEW o \in Officers, SetLock(o)
  PROVE  Quiet'
<1> /\ o \in Threads /\ Officers \subseteq Threads /\ Nobody \notin Threads /\ 0 \notin LockIds
  BY CallbackThreads, LockNumbers DEF Threads
<1>1. pc[o] = "sc_lock"
  BY DEF SetLock
<1>2. /\ g_audit_lock \in LockIds \ freed /\ ptr[o] = g_audit_lock
      /\ ptr \in [Threads -> LockIds \cup {0}] /\ held \in [Threads -> LockIds \cup {0}]
      /\ held[o] = 0
  <2>1. ptr[o] = g_audit_lock /\ g_audit_lock # 0 /\ g_audit_lock \in LockIds \cup {0}
    BY <1>1 DEF Quiet, LockHolders, ThreadLock, StepTypes, PtrTypes
  <2> QED
    BY <1>1, <2>1, QuietFacts DEF SetPcs, WritePcs, ReadPcs
<1>3. Acquire(o, g_audit_lock, TRUE) /\ Goto(o, "sc_cb")
  BY <1>2 DEF SetLock, LockAudit, Passed
<1>4. /\ wr[g_audit_lock] = Nobody /\ rd[g_audit_lock] = {}
      /\ wr' = [wr EXCEPT ![g_audit_lock] = o]
      /\ held' = [held EXCEPT ![o] = g_audit_lock]
      /\ UNCHANGED <<g_audit_lock, g_audit_lock_once, created, freed, bad>>
      /\ rd' = [rd EXCEPT ![g_audit_lock] = @]
  BY <1>2, <1>3 DEF Acquire
<1>5. /\ wr \in [LockIds -> Officers \cup {Nobody}] /\ rd' = rd
      /\ \A l \in LockIds : rd[l] \subseteq Threads
  BY <1>4 DEF StepTypes, HoldTypes
<1>6. /\ pc'[o] = "sc_cb" /\ ptr'[o] = 0
      /\ \A r \in Threads \ {o} : pc'[r] = pc[r] /\ ptr'[r] = ptr[r]
      /\ UNCHANGED <<cb, arg, op, audit, g_audit_cb, g_audit_cb_arg>>
  BY <1>2, <1>3 DEF SetLock, Goto, StepTypes, PcTypes, pair_vars, copy_vars, call_vars
<1>7. ASSUME NEW r \in Threads PROVE held[r] = 0
  BY <1>4 DEF Quiet, LockHolders, ThreadLock
<1>8. LockPointer'
  BY <1>1, <1>4, <1>6 DEF Quiet, LockPointer, SetPcs
<1>9. ASSUME NEW r \in Threads PROVE ThreadLock(r)'
  <2>1. CASE r = o
    BY <1>2, <1>4, <1>5, <1>6, <2>1 DEF ThreadLock, WritePcs, ReadPcs
  <2>2. CASE r # o
    <3>1. ThreadLock(r) /\ held[r] = 0 /\ held'[r] = 0
      BY <1>2, <1>4, <1>7, <2>2 DEF Quiet, LockHolders
    <3> QED
      BY <1>4, <1>6, <2>2, <3>1 DEF ThreadLock
  <2> QED
    BY <2>1, <2>2
<1>10. ASSUME NEW l \in LockIds PROVE LockState(l)'
  <2>1. LockState(l)
    BY DEF Quiet, LockHolders
  <2>2. wr[l] = Nobody /\ rd[l] = {}
    BY <1>5, <1>7, <2>1 DEF LockState
  <2>3. wr'[l] = IF l = g_audit_lock THEN o ELSE Nobody
    BY <1>4, <1>5, <2>2
  <2>4. held'[o] = g_audit_lock
    BY <1>2, <1>4
  <2> QED
    BY <1>5, <1>6, <2>2, <2>3, <2>4 DEF LockState, WritePcs
<1>11. AuditCopies'
  <2>1. \A r \in Threads : AuditCopy(r)'
    BY <1>2, <1>4, <1>6 DEF Quiet, AuditCopies, AuditCopy
  <2>2. AuditPair'
    BY <1>1, <1>6 DEF Quiet, AuditCopies, AuditPair, Registers
  <2> QED
    BY <2>1, <2>2 DEF AuditCopies
<1> QED
  BY <1>4, <1>8, <1>9, <1>10, <1>11 DEF Quiet, LockHolders

\* The writer excludes the readers: nobody has copied the callback and not yet
\* its argument.
LEMMA QuietSetPair ==
  ASSUME StepTypes, Flags, Places, Quiet, ~Overlapping', NEW o \in Officers, SetCb(o) \/ SetArg(o)
  PROVE  Quiet'
<1> o \in Threads /\ Officers \subseteq Threads /\ Nobody \notin Threads
  BY CallbackThreads DEF Threads
<1>1. /\ pc[o] \in {"sc_cb", "sc_arg"} /\ pc'[o] \in {"sc_arg", "sc_unlock"}
      /\ \A r \in Threads \ {o} : pc'[r] = pc[r]
      /\ UNCHANGED <<g_audit_lock, g_audit_lock_once, created, freed, wr, rd, ptr, held, cb, arg,
                     op, audit, bad>>
  BY DEF SetCb, SetArg, Goto, StepTypes, PcTypes, copy_vars, call_vars, lock_vars
<1>2. /\ \A p \in Officers : pc[p] \notin CleanPcs
      /\ \A p \in Officers \ {o} : pc[p] \notin SetPcs \cup LogPcs
      /\ held \in [Threads -> LockIds \cup {0}]
  BY <1>1, QuietFacts DEF SetPcs
<1>3. held[o] = g_audit_lock /\ g_audit_lock # 0 /\ wr[g_audit_lock] = o
  BY <1>1 DEF Quiet, LockHolders, ThreadLock, WritePcs
<1>4. ASSUME NEW r \in Threads \ {o} PROVE held[r] = 0
  <2>1. g_audit_lock \in LockIds
    BY <1>2, <1>3
  <2>2. LockState(g_audit_lock) /\ ThreadLock(r)
    BY <2>1 DEF Quiet, LockHolders
  <2> QED
    BY <1>3, <2>2 DEF LockState, ThreadLock
<1>5. LockPointer'
  BY <1>1 DEF Quiet, LockPointer, SetPcs
<1>6. \A r \in Threads : ThreadLock(r)'
  BY <1>1 DEF Quiet, LockHolders, ThreadLock, WritePcs, ReadPcs
<1>7. \A l \in LockIds : LockState(l)'
  <2>1. {pc[o], pc'[o]} \subseteq WritePcs
    BY <1>1 DEF WritePcs
  <2> QED
    BY <1>1, <2>1, LockStateKept DEF StepTypes, Quiet, LockHolders
<1>8. AuditPair'
  <2>1. \A p \in Officers \ {o} : pc'[p] \notin {"sc_arg", "cl_arg"}
    BY <1>1, <1>2 DEF SetPcs, CleanPcs
  <2>2. CASE SetCb(o)
    <3>1. pc'[o] = "sc_arg" /\ g_audit_cb' = IF audit[o] THEN Registers(o) ELSE Nobody
      BY <2>2 DEF SetCb, Goto, StepTypes, PcTypes
    <3> QED
      BY <1>1, <2>1, <3>1 DEF AuditPair, Registers
  <2>3. CASE SetArg(o)
    <3>1. /\ pc[o] = "sc_arg" /\ pc'[o] = "sc_unlock" /\ g_audit_cb' = g_audit_cb
          /\ g_audit_cb_arg' = IF audit[o] THEN Registers(o) ELSE Nobody
      BY <2>3 DEF SetArg, Goto, StepTypes, PcTypes
    <3>2. g_audit_cb = IF audit[o] THEN Registers(o) ELSE Nobody
      BY <3>1 DEF Quiet, AuditCopies, AuditPair
    <3> QED
      BY <2>1, <3>1, <3>2 DEF AuditPair
  <2> QED
    BY <2>2, <2>3
<1>9. \A r \in Threads : AuditCopy(r)'
  BY <1>1, <1>4 DEF AuditCopy
<1> QED
  BY <1>1, <1>5, <1>6, <1>7, <1>8, <1>9 DEF Quiet, LockHolders, AuditCopies

\* The writer unlocks what it has locked.
LEMMA QuietSetUnlock ==
  ASSUME StepTypes, Flags, Places, Quiet, ~Overlapping', NEW o \in Officers, SetUnlock(o)
  PROVE  Quiet'
<1> /\ o \in Threads /\ Officers \subseteq Threads /\ Nobody \notin Threads /\ 0 \notin LockIds
  BY CallbackThreads, LockNumbers DEF Threads
<1>1. pc[o] = "sc_unlock"
  BY DEF SetUnlock
<1>2. /\ g_audit_lock \in LockIds \ freed /\ held[o] = g_audit_lock /\ wr[g_audit_lock] = o
      /\ held \in [Threads -> LockIds \cup {0}]
  <2>1. held[o] = g_audit_lock /\ g_audit_lock # 0 /\ wr[g_audit_lock] = o
    BY <1>1 DEF Quiet, LockHolders, ThreadLock, WritePcs
  <2> QED
    BY <1>1, <2>1, QuietFacts DEF SetPcs
<1>3. /\ wr' = [l \in LockIds |-> IF l = g_audit_lock /\ wr[l] = o THEN Nobody ELSE wr[l]]
      /\ rd' = [l \in LockIds |-> IF l = g_audit_lock THEN rd[l] \ {o} ELSE rd[l]]
      /\ held' = [held EXCEPT ![o] = 0]
      /\ Goto(o, IF op[o] = "slow" THEN "a_load" ELSE "r_unlock")
      /\ UNCHANGED <<g_audit_lock, g_audit_lock_once, created, freed, bad>>
  BY <1>2 DEF SetUnlock, UnlockAudit
<1>4. /\ pc'[o] \in {"a_load", "r_unlock"} /\ held'[o] = 0
      /\ \A r \in Threads \ {o} : pc'[r] = pc[r] /\ held'[r] = held[r]
      /\ UNCHANGED <<cb, arg, op, audit, g_audit_cb, g_audit_cb_arg, ptr>>
  BY <1>2, <1>3 DEF SetUnlock, Goto, StepTypes, PcTypes, pair_vars, copy_vars, call_vars
<1>5. ASSUME NEW r \in Threads \ {o} PROVE held[r] = 0
  <2>1. LockState(g_audit_lock) /\ ThreadLock(r)
    BY <1>2 DEF Quiet, LockHolders
  <2> QED
    BY <1>2, <2>1 DEF LockState, ThreadLock
<1>6. LockPointer'
  BY <1>1, <1>3, <1>4 DEF Quiet, LockPointer, SetPcs
<1>7. ASSUME NEW r \in Threads PROVE ThreadLock(r)'
  <2>1. ThreadLock(r) /\ held'[r] = 0
    BY <1>4, <1>5 DEF Quiet, LockHolders
  <2> QED
    BY <1>3, <1>4, <1>5, <2>1 DEF ThreadLock, WritePcs, ReadPcs
<1>8. ASSUME NEW l \in LockIds PROVE LockState(l)'
  <2>1. LockState(l) /\ rd[l] \subseteq Threads /\ wr[l] \in Threads \cup {Nobody}
    BY DEF Quiet, LockHolders, StepTypes, HoldTypes
  <2>2. /\ l # g_audit_lock => wr[l] = Nobody /\ rd[l] = {}
        /\ rd[g_audit_lock] = {}
    BY <1>2, <1>5, <2>1 DEF LockState, Quiet, LockHolders
  <2>3. wr'[l] = Nobody /\ rd'[l] = {}
    BY <1>2, <1>3, <2>2
  <2> QED
    BY <2>3 DEF LockState
<1>9. AuditPair'
  BY <1>1, <1>4 DEF Quiet, AuditCopies, AuditPair, Registers
<1>10. \A r \in Threads : AuditCopy(r)'
  BY <1>4 DEF Quiet, AuditCopies, AuditCopy
<1> QED
  BY <1>3, <1>6, <1>7, <1>8, <1>9, <1>10 DEF Quiet, LockHolders, AuditCopies

\* qudo_audit_cleanup is alone in the audit functions.
LEMMA QuietClean ==
  ASSUME StepTypes, Flags, Places, Quiet, ~Overlapping', NEW o \in Officers,
         \/ CleanTest(o) \/ CleanFree(o) \/ CleanNull(o) \/ CleanOnce(o) \/ CleanCb(o)
         \/ CleanArg(o)
  PROVE  Quiet'
<1> /\ o \in Threads /\ Officers \subseteq Threads /\ Nobody \notin Threads /\ 0 \notin LockIds
  BY CallbackThreads, LockNumbers DEF Threads
<1>1. pc[o] \in CleanPcs
  BY DEF CleanTest, CleanFree, CleanNull, CleanOnce, CleanCb, CleanArg, CleanPcs
<1>2. /\ \A r \in Threads \ {o} : pc[r] \notin AuditPcs
      /\ \A r \in Threads : held[r] = 0
      /\ held \in [Threads -> LockIds \cup {0}] /\ ptr \in [Threads -> LockIds \cup {0}]
      /\ g_audit_lock \in LockIds \cup {0}
  <2>1. pc[o] \notin WritePcs \cup ReadPcs
    BY <1>1 DEF CleanPcs, WritePcs, ReadPcs
  <2>2. g_audit_lock \in LockIds \cup {0}
    BY DEF StepTypes, PtrTypes
  <2> QED
    BY <1>1, <2>1, <2>2, QuietFacts
<1>3. ASSUME NEW l \in LockIds PROVE wr[l] = Nobody /\ rd[l] = {}
  <2>1. LockState(l) /\ rd[l] \subseteq Threads /\ wr[l] \in Threads \cup {Nobody}
    BY DEF Quiet, LockHolders, StepTypes, HoldTypes
  <2> QED
    BY <1>2, <2>1 DEF LockState
<1>4. CASE CleanFree(o)
  <2>1. pc[o] = "cl_free" /\ ptr[o] = g_audit_lock /\ g_audit_lock # 0
    BY <1>4 DEF CleanFree, Quiet, LockHolders, ThreadLock
  <2>2. g_audit_lock \notin freed
    BY <1>2, <2>1 DEF Quiet, LockPointer, AuditPcs, CleanPcs
  <2>3. /\ freed' = freed \cup {g_audit_lock} /\ Goto(o, "cl_null")
        /\ UNCHANGED <<g_audit_lock, g_audit_lock_once, created, wr, rd, held, bad>>
    <3>1. \A p \in Passed(o) : p = g_audit_lock /\ p \in LockIds /\ wr[p] = Nobody /\ rd[p] = {}
      BY <1>2, <1>3, <2>1 DEF Passed
    <3> QED
      BY <1>4, <2>1, <2>2, <3>1 DEF CleanFree
  <2>4. /\ \A r \in Threads \ {o} : pc'[r] = pc[r] /\ ptr'[r] = ptr[r]
        /\ pc'[o] = "cl_null"
        /\ UNCHANGED <<cb, arg, op, audit, g_audit_cb, g_audit_cb_arg>>
    BY <1>2, <1>4, <2>3
    DEF CleanFree, Goto, StepTypes, PcTypes, pair_vars, copy_vars, call_vars
  <2>5. LockPointer'
    <3>1. g_audit_lock <= created /\ \A l \in freed : l <= created
      BY DEF Quiet, LockPointer
    <3>2. g_audit_lock_once <=> g_audit_lock # 0
      BY <1>2, <2>1 DEF Quiet, LockPointer, AuditPcs, CleanPcs
    <3>3. \A p \in Officers : pc'[p] \notin (SetPcs \ {"sc_once"}) \cup {"cl_once", "cl_cb", "cl_arg"}
      BY <1>2, <2>4 DEF AuditPcs, CleanPcs, SetPcs
    <3> QED
      BY <2>3, <2>4, <3>1, <3>2, <3>3 DEF LockPointer
  <2>6. \A r \in Threads : ThreadLock(r)'
    BY <1>2, <2>3, <2>4 DEF ThreadLock, AuditPcs, SetPcs, LogPcs, CleanPcs, WritePcs, ReadPcs
  <2>7. \A l \in LockIds : LockState(l)'
    BY <1>3, <2>3 DEF LockState
  <2>8. AuditPair' /\ \A r \in Threads : AuditCopy(r)'
    BY <2>1, <2>3, <2>4 DEF Quiet, AuditCopies, AuditPair, AuditCopy, Registers
  <2> QED
    BY <2>3, <2>5, <2>6, <2>7, <2>8 DEF Quiet, LockHolders, AuditCopies
<1>5. CASE CleanTest(o) \/ CleanNull(o) \/ CleanOnce(o) \/ CleanCb(o) \/ CleanArg(o)
  <2>1. /\ \A r \in Threads \ {o} : pc'[r] = pc[r] /\ ptr'[r] = ptr[r]
        /\ UNCHANGED <<created, freed, wr, rd, held, bad, cb, arg, op, audit>>
        /\ pc'[o] \in (CleanPcs \ {"cl_test", "cl_null"}) \cup {"idle"}
    BY <1>2, <1>5 DEF CleanTest, CleanNull, CleanOnce, CleanCb, CleanArg, Goto, StepTypes, PcTypes,
       lock_vars, copy_vars, call_vars, CleanPcs
  <2>2. /\ \A p \in Officers \ {o} : /\ pc[p] \notin SetPcs \cup CleanPcs
                                    /\ pc'[p] \notin SetPcs \cup CleanPcs
        /\ pc'[o] \notin SetPcs
    BY <1>2, <2>1 DEF AuditPcs, SetPcs, CleanPcs
  <2>3. /\ \/ CleanNull(o) /\ g_audit_lock' = 0
           \/ ~CleanNull(o) /\ g_audit_lock' = g_audit_lock
        /\ pc'[o] = "cl_free" => g_audit_lock' # 0 /\ ptr'[o] = g_audit_lock'
        /\ pc'[o] \in {"cl_once", "cl_cb", "cl_arg"} => g_audit_lock' = 0
        /\ pc[o] = "cl_once" => g_audit_lock = 0
    <3>1. pc[o] \in {"cl_once", "cl_cb", "cl_arg"} => g_audit_lock = 0
      BY DEF Quiet, LockPointer
    <3> QED
      BY <1>2, <1>5, <3>1 DEF CleanTest, CleanNull, CleanOnce, CleanCb, CleanArg, Goto, StepTypes,
         PcTypes, lock_vars
  <2>4. LockPointer'
    <3>1. g_audit_lock' <= created /\ \A l \in freed : l <= created
      <4>1. 0 <= created
        BY LockNumbers DEF StepTypes, PtrTypes
      <4> QED
        BY <2>3, <4>1 DEF Quiet, LockPointer
    <3>2. g_audit_lock' \notin freed
      <4>1. 0 \notin freed
        BY DEF StepTypes, HoldTypes
      <4>2. CASE CleanNull(o)
        BY <2>3, <4>1, <4>2
      <4>3. CASE ~CleanNull(o)
        <5>1. \A p \in Officers : pc[p] # "cl_null"
          BY <1>5, <2>2, <4>3 DEF CleanTest, CleanOnce, CleanCb, CleanArg, CleanPcs
        <5> QED
          BY <2>3, <4>3, <5>1 DEF Quiet, LockPointer
      <4> QED
        BY <4>2, <4>3
    <3>3. (g_audit_lock_once' <=> g_audit_lock' # 0) \/ pc'[o] = "cl_once"
      <4>1. CASE CleanOnce(o)
        BY <2>3, <4>1 DEF CleanOnce
      <4>2. CASE CleanNull(o)
        BY <4>2 DEF CleanNull, Goto, StepTypes, PcTypes
      <4>3. CASE CleanTest(o) \/ CleanCb(o) \/ CleanArg(o)
        <5>1. \A p \in Officers : pc[p] # "cl_once"
          BY <2>2, <4>3 DEF CleanTest, CleanCb, CleanArg, CleanPcs
        <5>2. UNCHANGED <<g_audit_lock, g_audit_lock_once>>
          BY <4>3 DEF CleanTest, CleanCb, CleanArg, lock_vars
        <5> QED
          BY <5>1, <5>2 DEF Quiet, LockPointer
      <4> QED
        BY <1>5, <4>1, <4>2, <4>3
    <3> QED
      BY <2>1, <2>2, <2>3, <3>1, <3>2, <3>3 DEF LockPointer, CleanPcs
  <2>5. \A r \in Threads : ThreadLock(r)'
    BY <1>2, <2>1, <2>3 DEF ThreadLock, AuditPcs, SetPcs, LogPcs, CleanPcs, WritePcs, ReadPcs
  <2>6. \A l \in LockIds : LockState(l)'
    BY <1>3, <2>1 DEF LockState
  <2>7. AuditPair'
    <3>1. \A p \in Officers \ {o} : pc[p] \notin {"sc_arg", "cl_arg"} /\ pc'[p] \notin {"sc_arg", "cl_arg"}
      BY <2>2 DEF SetPcs, CleanPcs
    <3>2. CASE CleanCb(o)
      <4>1. pc'[o] = "cl_arg" /\ g_audit_cb' = Nobody
        BY <3>2 DEF CleanCb, Goto, StepTypes, PcTypes
      <4> QED
        BY <3>1, <4>1 DEF AuditPair
    <3>3. CASE CleanArg(o)
      <4>1. /\ pc[o] = "cl_arg" /\ pc'[o] = "idle" /\ g_audit_cb' = g_audit_cb
            /\ g_audit_cb_arg' = Nobody
        BY <3>3 DEF CleanArg, Goto, StepTypes, PcTypes
      <4>2. g_audit_cb = Nobody
        BY <4>1 DEF Quiet, AuditCopies, AuditPair
      <4> QED
        BY <3>1, <4>1, <4>2 DEF AuditPair
    <3>4. CASE CleanTest(o) \/ CleanNull(o) \/ CleanOnce(o)
      <4>1. /\ pc[o] \notin {"sc_arg", "cl_arg"} /\ pc'[o] \notin {"sc_arg", "cl_arg"}
            /\ UNCHANGED <<g_audit_cb, g_audit_cb_arg>>
        BY <3>4 DEF CleanTest, CleanNull, CleanOnce, Goto, StepTypes, PcTypes, pair_vars
      <4> QED
        BY <3>1, <4>1 DEF Quiet, AuditCopies, AuditPair
    <3> QED
      BY <1>5, <3>2, <3>3, <3>4
  <2>8. \A r \in Threads : AuditCopy(r)'
    BY <1>2, <2>1 DEF AuditCopy
  <2> QED
    BY <2>1, <2>4, <2>5, <2>6, <2>7, <2>8 DEF Quiet, LockHolders, AuditCopies
<1> QED
  BY <1>4, <1>5

\* qudo_audit_log before it has the lock.
LEMMA QuietLogLoad ==
  ASSUME StepTypes, Flags, Places, Quiet, ~Overlapping', NEW t \in Threads,
         LogLoad(t) \/ (t \in Users /\ LogCall(t))
  PROVE  Quiet'
<1> Officers \subseteq Threads
  BY DEF Threads
<1>1. /\ pc[t] \in {"idle", "a_load"} /\ ptr'[t] = g_audit_lock
      /\ pc'[t] = (IF g_audit_lock = 0 THEN "a_cb" ELSE "a_lock")
      /\ \A r \in Threads \ {t} : pc'[r] = pc[r] /\ ptr'[r] = ptr[r]
      /\ UNCHANGED <<g_audit_lock, g_audit_lock_once, created, freed, wr, rd, held, cb, arg, op,
                     audit, bad, g_audit_cb, g_audit_cb_arg>>
  BY DEF LogLoad, LogCall, Goto, StepTypes, PcTypes, PtrTypes, pair_vars, copy_vars, call_vars,
     lock_vars
<1>2. held[t] = 0
  BY <1>1, QuietFacts DEF WritePcs, ReadPcs
<1>3. LockPointer'
  BY <1>1 DEF Quiet, LockPointer, SetPcs
<1>4. \A r \in Threads : ThreadLock(r)'
  BY <1>1, <1>2 DEF Quiet, LockHolders, ThreadLock, WritePcs, ReadPcs
<1>5. \A l \in LockIds : LockState(l)'
  BY <1>1, <1>2, LockStateKept DEF StepTypes, Quiet, LockHolders
<1>6. AuditCopies'
  BY <1>1 DEF Quiet, AuditCopies, AuditPair, AuditCopy, Registers
<1> QED
  BY <1>1, <1>3, <1>4, <1>5, <1>6 DEF Quiet, LockHolders

\* The read lock is taken on the lock that was loaded.
LEMMA QuietLogLock ==
  ASSUME StepTypes, Flags, Places, Quiet, ~Overlapping', NEW t \in Threads, LogLock(t)
  PROVE  Quiet'
<1> /\ Officers \subseteq Threads /\ Nobody \notin Threads /\ 0 \notin LockIds
  BY CallbackThreads, LockNumbers DEF Threads
<1>1. pc[t] = "a_lock"
  BY DEF LogLock
<1>2. /\ g_audit_lock \in LockIds \ freed /\ ptr[t] = g_audit_lock
      /\ held \in [Threads -> LockIds \cup {0}] /\ held[t] = 0
  <2>1. ptr[t] = g_audit_lock /\ g_audit_lock # 0 /\ g_audit_lock \in LockIds \cup {0}
    BY <1>1 DEF Quiet, LockHolders, ThreadLock, StepTypes, PtrTypes
  <2> QED
    BY <1>1, <2>1, QuietFacts DEF LogPcs, WritePcs, ReadPcs
<1>3. Acquire(t, g_audit_lock, FALSE) /\ Goto(t, "a_cb")
  BY <1>2 DEF LogLock, LockAudit, Passed
<1>4. /\ wr[g_audit_lock] = Nobody
      /\ wr' = [wr EXCEPT ![g_audit_lock] = @]
      /\ rd' = [rd EXCEPT ![g_audit_lock] = @ \cup {t}]
      /\ held' = [held EXCEPT ![t] = g_audit_lock]
      /\ UNCHANGED <<g_audit_lock, g_audit_lock_once, created, freed, bad>>
  BY <1>2, <1>3 DEF Acquire
<1>5. /\ wr \in [LockIds -> Officers \cup {Nobody}] /\ rd \in [LockIds -> SUBSET Threads]
      /\ wr' = wr
  BY <1>4 DEF StepTypes, HoldTypes
<1>6. /\ pc'[t] = "a_cb" /\ \A r \in Threads \ {t} : pc'[r] = pc[r]
      /\ UNCHANGED <<cb, arg, op, audit, g_audit_cb, g_audit_cb_arg, ptr>>
  BY <1>3 DEF LogLock, Goto, StepTypes, PcTypes, pair_vars, copy_vars, call_vars
<1>7. /\ held'[t] = g_audit_lock /\ \A r \in Threads \ {t} : held'[r] = held[r]
      /\ \A l \in LockIds : rd'[l] = IF l = g_audit_lock THEN rd[l] \cup {t} ELSE rd[l]
  BY <1>2, <1>4, <1>5
<1>8. LockPointer'
  BY <1>1, <1>4, <1>6 DEF Quiet, LockPointer, SetPcs
<1>9. ASSUME NEW r \in Threads PROVE ThreadLock(r)'
  <2>1. CASE r = t
    BY <1>2, <1>4, <1>6, <1>7, <2>1 DEF ThreadLock, WritePcs, ReadPcs
  <2>2. CASE r # t
    <3>1. ThreadLock(r) /\ held'[r] = held[r] /\ held[r] \in LockIds \cup {0}
      BY <1>2, <1>7, <2>2 DEF Quiet, LockHolders
    <3> QED
      BY <1>4, <1>5, <1>6, <1>7, <2>2, <3>1 DEF ThreadLock
  <2> QED
    BY <2>1, <2>2
<1>10. ASSUME NEW l \in LockIds PROVE LockState(l)'
  <2>1. LockState(l) /\ rd[l] \subseteq Threads /\ wr[l] \in Threads \cup {Nobody} /\ l # 0
    BY <1>5 DEF Quiet, LockHolders
  <2>2. t \notin rd[l] /\ wr[l] # t
    BY <1>2, <2>1 DEF LockState
  <2> QED
    BY <1>4, <1>5, <1>6, <1>7, <2>1, <2>2 DEF LockState, ReadPcs
<1>11. AuditPair'
  BY <1>1, <1>6 DEF Quiet, AuditCopies, AuditPair, Registers
<1>12. \A r \in Threads : AuditCopy(r)'
  BY <1>6, <1>7 DEF Quiet, AuditCopies, AuditCopy
<1> QED
  BY <1>4, <1>8, <1>9, <1>10, <1>11, <1>12 DEF Quiet, LockHolders, AuditCopies

\* A reader's two loads see the same registration.
LEMMA QuietLogCopy ==
  ASSUME StepTypes, Flags, Places, Quiet, ~Overlapping', NEW t \in Threads, LogCb(t) \/ LogArg(t)
  PROVE  Quiet'
<1> /\ Officers \subseteq Threads /\ Nobody \notin Threads
  BY CallbackThreads DEF Threads
<1>1. /\ pc[t] \in {"a_cb", "a_arg"} /\ \A r \in Threads \ {t} : pc'[r] = pc[r]
      /\ \A r \in Threads \ {t} : ptr'[r] = ptr[r] /\ cb'[r] = cb[r] /\ arg'[r] = arg[r]
      /\ UNCHANGED <<g_audit_lock, g_audit_lock_once, created, freed, wr, rd, held, op,
                     audit, bad, g_audit_cb, g_audit_cb_arg>>
  BY DEF LogCb, LogArg, Goto, StepTypes, PcTypes, PtrTypes, CopyTypes, pair_vars, call_vars,
     lock_vars
<1>2. /\ ptr[t] = 0 <=> held[t] = 0
      /\ held \in [Threads -> LockIds \cup {0}] /\ ptr \in [Threads -> LockIds \cup {0}]
  BY <1>1, QuietFacts DEF Quiet, LockHolders, ThreadLock
<1>3. \/ LogCb(t) /\ pc'[t] = "a_arg" /\ ptr' = ptr /\ cb'[t] = g_audit_cb
      \/ /\ LogArg(t) /\ pc[t] = "a_arg" /\ ptr'[t] = 0
         /\ pc'[t] = IF held[t] = 0 THEN "a_count" ELSE "a_unlock"
         /\ cb'[t] = cb[t] /\ arg'[t] = g_audit_cb_arg
  BY <1>2 DEF LogCb, LogArg, Goto, StepTypes, PcTypes, CopyTypes
<1>4. LockPointer'
  BY <1>1, <1>3 DEF Quiet, LockPointer, SetPcs
<1>5. ASSUME NEW r \in Threads PROVE ThreadLock(r)'
  <2>1. ThreadLock(r)
    BY DEF Quiet, LockHolders
  <2>2. CASE r = t
    BY <1>1, <1>2, <1>3, <2>1, <2>2 DEF ThreadLock, WritePcs, ReadPcs
  <2>3. CASE r # t
    BY <1>1, <2>1, <2>3 DEF ThreadLock
  <2> QED
    BY <2>2, <2>3
<1>6. \A l \in LockIds : LockState(l)'
  <2>1. held[t] = 0 \/ {pc[t], pc'[t]} \subseteq ReadPcs
    BY <1>1, <1>3 DEF ReadPcs
  <2> QED
    BY <1>1, <2>1, LockStateKept DEF StepTypes, Quiet, LockHolders
<1>7. AuditPair'
  BY <1>1, <1>3 DEF Quiet, AuditCopies, AuditPair, Registers
<1>8. ASSUME NEW r \in Threads PROVE AuditCopy(r)'
  <2>1. AuditCopy(r)
    BY DEF Quiet, AuditCopies
  <2>2. CASE r = t /\ LogArg(t) /\ held[t] # 0
    <3>1. cb[t] = g_audit_cb /\ pc[t] = "a_arg"
      BY <1>1, <2>1, <2>2 DEF AuditCopy, LogArg
    <3>2. held[t] = g_audit_lock /\ t \in rd[g_audit_lock] /\ g_audit_lock \in LockIds
      BY <1>2, <2>2, <3>1 DEF Quiet, LockHolders, ThreadLock, ReadPcs
    <3>3. wr[g_audit_lock] = Nobody
      BY <3>2 DEF Quiet, LockHolders, LockState
    <3>4. \A o \in Officers : pc[o] \notin {"sc_arg", "cl_arg"}
      <4>1. \A o \in Officers : pc[o] \notin CleanPcs
        BY <3>1, QuietFacts DEF LogPcs
      <4>2. ASSUME NEW o \in Officers, pc[o] = "sc_arg" PROVE FALSE
        BY <3>3, <4>2 DEF Quiet, LockHolders, ThreadLock, WritePcs
      <4> QED
        BY <4>1, <4>2 DEF CleanPcs
    <3>5. g_audit_cb = g_audit_cb_arg
      BY <3>4 DEF Quiet, AuditCopies, AuditPair
    <3>6. pc'[t] = "a_unlock" /\ cb'[t] = arg'[t]
      BY <1>3, <2>2, <3>1, <3>5 DEF LogCb
    <3> QED
      BY <2>2, <3>6 DEF AuditCopy
  <2>3. CASE r = t /\ ~(LogArg(t) /\ held[t] # 0)
    BY <1>1, <1>3, <2>3 DEF AuditCopy
  <2>4. CASE r # t
    BY <1>1, <2>1, <2>4 DEF AuditCopy
  <2> QED
    BY <2>2, <2>3, <2>4
<1> QED
  BY <1>1, <1>4, <1>5, <1>6, <1>7, <1>8 DEF Quiet, LockHolders, AuditCopies

\* A reader unlocks what it has locked.
LEMMA QuietLogUnlock ==
  ASSUME StepTypes, Flags, Places, Quiet, ~Overlapping', NEW t \in Threads, LogUnlock(t)
  PROVE  Quiet'
<1> /\ Officers \subseteq Threads /\ Nobody \notin Threads /\ 0 \notin LockIds
  BY CallbackThreads, LockNumbers DEF Threads
<1>1. pc[t] = "a_unlock"
  BY DEF LogUnlock
<1>2. /\ g_audit_lock \in LockIds \ freed /\ held[t] = g_audit_lock /\ t \in rd[g_audit_lock]
      /\ held \in [Threads -> LockIds \cup {0}]
  <2>1. held[t] = g_audit_lock /\ g_audit_lock # 0 /\ t \in rd[g_audit_lock]
    BY <1>1 DEF Quiet, LockHolders, ThreadLock, ReadPcs
  <2> QED
    BY <1>1, <2>1, QuietFacts DEF LogPcs
<1>3. /\ wr' = [l \in LockIds |-> IF l = g_audit_lock /\ wr[l] = t THEN Nobody ELSE wr[l]]
      /\ rd' = [l \in LockIds |-> IF l = g_audit_lock THEN rd[l] \ {t} ELSE rd[l]]
      /\ held' = [held EXCEPT ![t] = 0]
      /\ Goto(t, "a_count")
      /\ UNCHANGED <<g_audit_lock, g_audit_lock_once, created, freed, bad>>
  BY <1>2 DEF LogUnlock, UnlockAudit
<1>4. /\ pc'[t] = "a_count" /\ held'[t] = 0
      /\ \A r \in Threads \ {t} : pc'[r] = pc[r] /\ held'[r] = held[r]
      /\ UNCHANGED <<cb, arg, op, audit, g_audit_cb, g_audit_cb_arg, ptr>>
  BY <1>2, <1>3 DEF LogUnlock, Goto, StepTypes, PcTypes, pair_vars, copy_vars, call_vars
<1>5. wr[g_audit_lock] = Nobody
  BY <1>2 DEF Quiet, LockHolders, LockState
<1>6. ASSUME NEW l \in LockIds
      PROVE  /\ wr'[l] = wr[l] /\ rd[l] \subseteq Threads /\ wr[l] \in Threads \cup {Nobody}
             /\ rd'[l] = IF l = g_audit_lock THEN rd[l] \ {t} ELSE rd[l]
  <2>1. rd[l] \subseteq Threads /\ wr[l] \in Threads \cup {Nobody}
    BY DEF StepTypes, HoldTypes
  <2> QED
    BY <1>3, <1>5, <2>1
<1>7. LockPointer'
  BY <1>1, <1>3, <1>4 DEF Quiet, LockPointer, SetPcs
<1>8. ASSUME NEW r \in Threads PROVE ThreadLock(r)'
  <2>1. ThreadLock(r) /\ held[r] \in LockIds \cup {0}
    BY <1>2 DEF Quiet, LockHolders
  <2>2. CASE r = t
    BY <1>4, <2>2 DEF ThreadLock, WritePcs, ReadPcs
  <2>3. CASE r # t
    <3>1. pc'[r] = pc[r] /\ held'[r] = held[r]
      BY <1>4, <2>3
    <3>2. held[r] # 0 => /\ wr'[held[r]] = wr[held[r]]
                         /\ r \in rd[held[r]] => r \in rd'[held[r]]
      BY <1>6, <2>1, <2>3
    <3> QED
      BY <1>3, <1>4, <2>1, <3>1, <3>2 DEF ThreadLock
  <2> QED
    BY <2>2, <2>3
<1>9. ASSUME NEW l \in LockIds PROVE LockState(l)'
  <2>1. LockState(l)
    BY DEF Quiet, LockHolders
  <2>2. t \in rd[l] => l = g_audit_lock
    BY <1>2, <2>1 DEF LockState
  <2>3. wr[l] # t
    BY <1>1, <2>1 DEF LockState, WritePcs
  <2> QED
    BY <1>4, <1>6, <2>1, <2>2, <2>3 DEF LockState
<1>10. AuditPair'
  BY <1>1, <1>4 DEF Quiet, AuditCopies, AuditPair, Registers
<1>11. \A r \in Threads : AuditCopy(r)'
  BY <1>4 DEF Quiet, AuditCopies, AuditCopy
<1> QED
  BY <1>3, <1>7, <1>8, <1>9, <1>10, <1>11 DEF Quiet, LockHolders, AuditCopies

\* A step after which no cleanup has overlapped keeps the lock in order.
LEMMA QuietStep ==
  ASSUME StepTypes, Flags, Places, QuietInv, Next
  PROVE  QuietInv'
<1> SUFFICES ASSUME ~overlap' PROVE Quiet'
  BY DEF QuietInv
<1>1. Quiet /\ ~Overlapping' /\ Step
  BY DEF QuietInv, Next, Observe
<1>2. Officers \subseteq Threads /\ Users \subseteq Threads
  BY DEF Threads
<1>3. ASSUME NEW o \in Officers, OfficerCall(o) \/ OfficerStep(o) PROVE Quiet'
  <2>1. CASE SetLock(o)
    BY <1>1, <2>1, QuietSetLock
  <2>2. CASE OfficerCall(o) /\ ~SetLock(o)
    BY <1>1, <1>2, <2>2, QuietOutside
  <2>3. CASE (SetErrorCb(o) \/ SetErrorArg(o) \/ StUnlock(o)) /\ ~SetLock(o)
    BY <1>1, <1>2, <2>3, QuietOutside
  <2>4. CASE SetOnce(o) \/ SetLoad(o) \/ SetCb(o) \/ SetArg(o) \/ SetUnlock(o)
    BY <1>1, <2>4, QuietSetOnce, QuietSetLoad, QuietSetPair, QuietSetUnlock
  <2>5. CASE \/ CleanTest(o) \/ CleanFree(o) \/ CleanNull(o) \/ CleanOnce(o) \/ CleanCb(o)
             \/ CleanArg(o)
    BY <1>1, <2>5, QuietClean
  <2> QED
    BY <1>3, <2>1, <2>2, <2>3, <2>4, <2>5 DEF OfficerStep
<1>4. ASSUME NEW t \in Threads, LogStep(t) \/ LogLock(t) PROVE Quiet'
  <2>1. CASE LogCount(t) \/ LogEmit(t)
    <3>1. ~SetLock(t)
      BY <2>1 DEF LogCount, LogEmit, SetLock
    <3> QED
      BY <1>1, <2>1, <3>1, QuietOutside
  <2>2. CASE LogLoad(t) \/ LogLock(t) \/ LogCb(t) \/ LogArg(t) \/ LogUnlock(t)
    BY <1>1, <2>2, QuietLogLoad, QuietLogLock, QuietLogCopy, QuietLogUnlock
  <2> QED
    BY <1>4, <2>1, <2>2 DEF LogStep
<1>5. ASSUME NEW u \in Users, LogCall(u) \/ ErrorCall(u) \/ ReportCall(u) \/ UserStep(u)
      PROVE  Quiet'
  <2>1. CASE LogCall(u)
    BY <1>1, <1>2, <2>1, QuietLogLoad
  <2>2. CASE ErrorCall(u) \/ ReportCall(u) \/ UserStep(u)
    <3>1. ~SetLock(u)
      BY <2>2 DEF ErrorCall, ReportCall, UserStep, ErrorReadArg, ErrorDone, SetLock
    <3> QED
      BY <1>1, <1>2, <2>2, <3>1, QuietOutside
  <2> QED
    BY <1>5, <2>1, <2>2
<1> QED
  BY <1>1, <1>3, <1>4, <1>5 DEF Step, Progress

-----------------------------------------------------------------------------
\* A stuttering step keeps the invariant.
LEMMA CallbackStutter ==
  ASSUME CallbackInv, UNCHANGED vars
  PROVE  CallbackInv'
<1> USE DEF vars, reg_vars, pair_vars, lock_vars, call_vars, copy_vars
<1>1. TypeOK'
  BY DEF CallbackInv, TypeOK
<1>2. RegInv'
  BY DEF CallbackInv, RegInv, Places, OfficerAt, Ownership, Registered, Registers, Withdrawn,
     Gone, ErrorCopies, ErrorCopy
<1>3. CreationBound' /\ CountBound'
  BY DEF CallbackInv, CreationBound, Pending, CountBound, Emitters
<1>4. QuietInv'
  BY DEF CallbackInv, QuietInv, Quiet, Overlapping, LockPointer, LockHolders, ThreadLock,
     LockState, AuditCopies, AuditPair, AuditCopy, Registers
<1> QED
  BY <1>1, <1>2, <1>3, <1>4 DEF CallbackInv

\* Every step of the program keeps the invariant.
LEMMA CallbackStep ==
  ASSUME CallbackInv, Next
  PROVE  CallbackInv'
<1>1. StepTypes /\ Flags
  BY DEF CallbackInv, TypeOK, StepTypes, RegTypes, PtrTypes, HoldTypes, CallTypes, CopyTypes,
         CountTypes, PcTypes, Flags
<1>2. Step /\ TypeOK /\ Places /\ Ownership /\ ErrorCopies /\ CreationBound /\ CountBound /\ QuietInv
  BY DEF CallbackInv, RegInv, Next
<1>3. TypeOK'
  BY <1>2, TypeStep
<1>4. Places'
  BY <1>1, <1>2, PlacesStep
<1>5. Ownership' /\ ErrorCopies'
  BY <1>1, <1>2, OwnershipStep, CopiesStep
<1>6. CreationBound' /\ CountBound'
  BY <1>1, <1>2, <1>4, CreationStep, CountStep
<1>7. QuietInv'
  BY <1>1, <1>2, QuietStep
<1> QED
  BY <1>3, <1>4, <1>5, <1>6, <1>7 DEF CallbackInv, RegInv

\* The inductive invariant that the theorems below rest on: the protocol of
\* g_self_test_lock, the life of g_audit_lock and the counts of qudo_audit_log.
THEOREM CallbackInductive == Spec => []CallbackInv
<1>1. CallbackInv /\ [Next]_vars => CallbackInv'
  BY CallbackStep, CallbackStutter
<1> QED
  BY <1>1, CallbackInit, PTL DEF Spec

\* Every variable keeps its type; in particular no call creates a second lock.
THEOREM CallbackTypeCorrect == Spec => []TypeOK
<1>1. CallbackInv => TypeOK
  BY DEF CallbackInv
<1> QED
  BY <1>1, CallbackInductive, PTL

\* The rate limit of qudo_audit_log is passed by at most one event per user.
THEOREM AuditStaysBounded == Spec => []AuditBounded
<1>1. ASSUME CallbackInv PROVE AuditBounded
  <2> SUFFICES ASSUME NEW s \in Severities
               PROVE  g_audit_count[s] <= AuditRateLimit + Cardinality(Users)
    BY DEF AuditBounded
  <2>1. g_audit_count[s] \in Nat
    BY <1>1 DEF CallbackInv, TypeOK
  <2>2. Cardinality(Emitters(s)) \in Nat
    <3>1. Emitters(s) \in SUBSET Threads
      BY DEF Emitters
    <3> QED
      BY <3>1, FiniteThreads
  <2>3. g_audit_count[s] + Cardinality(Emitters(s)) <= AuditRateLimit + Cardinality(Users)
    BY <1>1 DEF CallbackInv, CountBound
  <2> QED
    BY <2>1, <2>2, <2>3, FiniteThreads, CallbackBounds
<1> QED
  BY <1>1, CallbackInductive, PTL

\* Without a cleanup beside another audit call no lock is used after it was
\* freed, destroyed under a holder or unlocked without being held.
THEOREM QuietCleanupIsSafe == Spec => []QuietCleanupSafe
<1>1. CallbackInv => QuietCleanupSafe
  BY DEF CallbackInv, QuietInv, Quiet, QuietCleanupSafe
<1> QED
  BY <1>1, CallbackInductive, PTL

\* A callback is called with the argument it was registered with.
THEOREM PairsAlwaysMatch == Spec => []PairsMatch
<1>1. ASSUME CallbackInv PROVE PairsMatch
  <2>1. Places /\ ErrorCopies /\ QuietInv
    BY <1>1 DEF CallbackInv, RegInv
  <2>2. ASSUME NEW t \in Threads, pc[t] = "p_call" \/ (pc[t] = "e_call" /\ t \notin raced)
        PROVE  cb[t] = arg[t]
    <3>1. t \in Users
      BY <2>1, <2>2 DEF Threads, Places, OfficerAt
    <3> QED
      BY <2>1, <2>2, <3>1 DEF ErrorCopies, ErrorCopy
  <2>3. ASSUME NEW t \in Threads, pc[t] = "a_unlock", held[t] # 0, ~overlap
        PROVE  cb[t] = arg[t]
    BY <2>1, <2>3 DEF QuietInv, Quiet, AuditCopies, AuditCopy
  <2> QED
    BY <2>2, <2>3 DEF PairsMatch
<1> QED
  BY <1>1, CallbackInductive, PTL

\* After qudo_pqc_unregister_callbacks none of the caller's callbacks is
\* registered, but for an audit callback that another init has taken over.
THEOREM UnregisterIsEffective == Spec => []UnregisterEffective
<1>1. ASSUME CallbackInv PROVE UnregisterEffective
  <2>1. Gone /\ Withdrawn
    BY <1>1 DEF CallbackInv, RegInv, Ownership
  <2>2. \A o \in gone : o # Nobody
    BY <1>1, CallbackThreads DEF CallbackInv, TypeOK, Threads
  <2> QED
    BY <2>1, <2>2 DEF UnregisterEffective, Gone, Withdrawn
<1> QED
  BY <1>1, CallbackInductive, PTL
=============================================================================
