--------------------------- MODULE QudoModuleProofs ---------------------------
(***************************************************************************)
(* Theorems about QudoModule, for any sets of officers and users and any   *)
(* faults.  TypeOK needs no further assumption; the other invariants hold  *)
(* when qudo_pqc_fini is never called before the first qudo_pqc_init.      *)
(***************************************************************************)
EXTENDS QudoModule, FiniteSetTheorems, TLAPS

-----------------------------------------------------------------------------
(***************************************************************************)
(* Type correctness                                                        *)
(***************************************************************************)
\* The state of a freshly loaded module is well typed.
LEMMA TypeInit == Init => TypeOK
<1> SUFFICES ASSUME Init PROVE TypeOK
  OBVIOUS
<1>1. pc \in [Threads -> OfficerPcs \cup UserPcs]
  BY DEF Init, OfficerPcs
<1>2. /\ op \in [Officers -> Ops]
      /\ ok \in [Officers -> BOOLEAN]
      /\ cond \in [Officers -> BOOLEAN]
      /\ key \in [Users -> Keys]
  BY DEF Init, Ops, Keys
<1>3. g_post \in [integrity : BOOLEAN, drbg : BOOLEAN]
  BY DEF Init
<1> QED
  BY <1>1, <1>2, <1>3 DEF Init, TypeOK, States

\* Unlocking leaves the lock's variables in their types.
LEMMA UnlockType ==
  ASSUME TypeOK, NEW o \in Officers, Unlock(o)
  PROVE  /\ writer' \in Officers \cup {NoThread}
         /\ stray' \in BOOLEAN
         /\ released' \subseteq Officers
         /\ g_self_test_lock' \in BOOLEAN
<1>1. CASE writer = o
  BY <1>1 DEF TypeOK, Unlock
<1>2. CASE writer # o
  BY <1>2 DEF TypeOK, Unlock
<1> QED
  BY <1>1, <1>2

\* The history variables stay in their types.
LEMMA HistoryType ==
  ASSUME TypeOK, Observe
  PROVE  latched' \in BOOLEAN /\ begun' \in BOOLEAN /\ drbg_seen' \in [Officers -> BOOLEAN]
  BY DEF TypeOK, Observe

\* An officer's step keeps every variable in its type.
LEMMA TypeOfficer ==
  ASSUME TypeOK, NEW o \in Officers, Calls(o) \/ LockWaits(o) \/ Progress(o), Observe
  PROVE  TypeOK'
<1>0. latched' \in BOOLEAN /\ begun' \in BOOLEAN /\ drbg_seen' \in [Officers -> BOOLEAN]
  BY HistoryType
<1> USE <1>0, ThreadsAssumption DEF Threads, TypeOK, Goto, module_vars,
       rand_vars, lock_vars, local_vars
<1>1. CASE InitCall(o)
  BY <1>1 DEF InitCall, States, OfficerPcs, CriticalPcs, CheckPcs,
     SelfTestPcs, Ops
<1>2. CASE SelfTestCall(o)
  BY <1>2 DEF SelfTestCall, States, OfficerPcs, CriticalPcs, CheckPcs,
     SelfTestPcs, Ops
<1>3. CASE FiniCall(o)
  BY <1>3 DEF FiniCall, States, OfficerPcs, CriticalPcs, CheckPcs,
     SelfTestPcs, Ops
<1>4. CASE UnregisterCallbacks(o)
  BY <1>4 DEF UnregisterCallbacks, States, OfficerPcs, CriticalPcs, CheckPcs,
     SelfTestPcs, Ops
<1>5. CASE InitRegister(o)
  BY <1>5 DEF InitRegister, States, OfficerPcs, CriticalPcs, CheckPcs,
     SelfTestPcs, Ops
<1>6. CASE InitLock(o)
  BY <1>6 DEF InitLock, WrLock, States, OfficerPcs, CriticalPcs, CheckPcs,
     SelfTestPcs, Ops
<1>7. CASE SelfTestLock(o)
  BY <1>7 DEF SelfTestLock, WrLock, States, OfficerPcs, CriticalPcs, CheckPcs,
     SelfTestPcs, Ops
<1>8. CASE FiniLock(o)
  BY <1>8 DEF FiniLock, WrLock, States, OfficerPcs, CriticalPcs, CheckPcs,
     SelfTestPcs, Ops
<1>9. CASE InitLoad(o)
  BY <1>9 DEF InitLoad, States, OfficerPcs, CriticalPcs, CheckPcs,
     SelfTestPcs, Ops
<1>10. CASE InitDecided(o)
  BY <1>10, UnlockType DEF InitDecided, OfficerPcs, Ops
<1>11. CASE InitConfigure(o)
  BY <1>11 DEF InitConfigure, States, OfficerPcs, CriticalPcs, CheckPcs,
     SelfTestPcs, Ops
<1>12. CASE SelfTestRefused(o)
  BY <1>12, UnlockType DEF SelfTestRefused, OfficerPcs, Ops
<1>13. CASE SelfTestAccepted(o)
  BY <1>13 DEF SelfTestAccepted, States, OfficerPcs, CriticalPcs, CheckPcs,
     SelfTestPcs, Ops
<1>14. CASE EnterSelfTest(o)
  BY <1>14 DEF EnterSelfTest, States, OfficerPcs, CriticalPcs, CheckPcs,
     SelfTestPcs, Ops
<1>15. CASE TestFails(o)
  BY <1>15 DEF TestFails, IntegrityFails, KatFails, States, OfficerPcs, CriticalPcs, CheckPcs,
     SelfTestPcs, Ops
<1>16. CASE IntegrityPasses(o)
  <2>1. g_post' \in [integrity : BOOLEAN, drbg : BOOLEAN]
    BY <1>16, ZenonT(30) DEF IntegrityPasses
  <2> QED
    BY <1>16, <2>1 DEF IntegrityPasses, OfficerPcs, CriticalPcs, SelfTestPcs
<1>17. CASE PrimitivesPass(o)
  BY <1>17 DEF PrimitivesPass, States, OfficerPcs, CriticalPcs, CheckPcs,
     SelfTestPcs, Ops
<1>18. CASE SeedPasses(o)
  BY <1>18 DEF SeedPasses, States, OfficerPcs, CriticalPcs, CheckPcs,
     SelfTestPcs, Ops
<1>19. CASE SeedUnavailable(o)
  BY <1>19 DEF SeedUnavailable, States, OfficerPcs, CriticalPcs, CheckPcs,
     SelfTestPcs, Ops
<1>20. CASE SeedUnhealthy(o)
  BY <1>20 DEF SeedUnhealthy, SetErrorState, States, OfficerPcs, CriticalPcs,
     CheckPcs, SelfTestPcs, Ops
<1>21. CASE KatsRefused(o)
  BY <1>21 DEF KatsRefused, Reports, ServiceOpen, GateOpen, States,
     OfficerPcs, CriticalPcs, CheckPcs, SelfTestPcs, Ops
<1>22. CASE KeygenKatRuns(o)
  BY <1>22 DEF KeygenKatRuns, ServiceOpen, GateOpen, States, OfficerPcs,
     CriticalPcs, CheckPcs, SelfTestPcs, Ops
<1>23. CASE KeygenKatPasses(o)
  BY <1>23 DEF KeygenKatPasses, States, OfficerPcs, CriticalPcs, CheckPcs,
     SelfTestPcs, Ops
<1>24. CASE KeygenKatPct(o)
  BY <1>24 DEF KeygenKatPct, ReadLockAsWriter, States, OfficerPcs,
     CriticalPcs, CheckPcs, SelfTestPcs, Ops
<1>25. CASE KatPctPasses(o)
  BY <1>25 DEF KatPctPasses, ServiceOpen, GateOpen, States, OfficerPcs,
     CriticalPcs, CheckPcs, SelfTestPcs, Ops
<1>26. CASE KatPctFails(o)
  BY <1>26 DEF KatPctFails, SetErrorState, Reports, ServiceOpen, GateOpen,
     States, OfficerPcs, CriticalPcs, CheckPcs, SelfTestPcs, Ops
<1>27. CASE KatsPass(o)
  BY <1>27 DEF KatsPass, ServiceOpen, GateOpen, States, OfficerPcs,
     CriticalPcs, CheckPcs, SelfTestPcs, Ops
<1>28. CASE KatReportCount(o)
  BY <1>28 DEF KatReportCount, States, OfficerPcs, CriticalPcs, CheckPcs,
     SelfTestPcs, Ops
<1>29. CASE KatReportLock(o)
  BY <1>29 DEF KatReportLock, ReadLockAsWriter, States, OfficerPcs,
     CriticalPcs, CheckPcs, SelfTestPcs, Ops
<1>30. CASE StoreVerdict(o)
  BY <1>30 DEF StoreVerdict, States, OfficerPcs, CriticalPcs, CheckPcs,
     SelfTestPcs, Ops
<1>31. CASE EndSelfTest(o)
  BY <1>31, UnlockType DEF EndSelfTest, OfficerPcs, Ops
<1>32. CASE FiniClear(o)
  BY <1>32 DEF FiniClear, States, OfficerPcs, CriticalPcs, CheckPcs,
     SelfTestPcs, Ops
<1>33. CASE FiniStore(o)
  BY <1>33 DEF FiniStore, States, OfficerPcs, CriticalPcs, CheckPcs,
     SelfTestPcs, Ops
<1>34. CASE FiniUnlock(o)
  BY <1>34, UnlockType DEF FiniUnlock, OfficerPcs, Ops
<1>35. CASE FiniRand(o)
  BY <1>35 DEF FiniRand, States, OfficerPcs, CriticalPcs, CheckPcs,
     SelfTestPcs, Ops
<1>36. CASE SeedEntropy(o)
  BY <1>36 DEF SeedEntropy, States, OfficerPcs, CriticalPcs, CheckPcs,
     SelfTestPcs, Ops
<1>37. CASE FiniClean(o)
  BY <1>37 DEF FiniClean, States, OfficerPcs, CriticalPcs, CheckPcs,
     SelfTestPcs, Ops
<1> QED
  BY <1>1, <1>2, <1>3, <1>4, <1>5, <1>6, <1>7, <1>8, <1>9, <1>10, <1>11,
     <1>12, <1>13, <1>14, <1>15, <1>16, <1>17, <1>18, <1>19, <1>20, <1>21,
     <1>22, <1>23, <1>24, <1>25, <1>26, <1>27, <1>28, <1>29, <1>30, <1>31,
     <1>32, <1>33, <1>34, <1>35, <1>36, <1>37 DEF Calls, LockWaits, Progress

\* A user's step keeps every variable in its type.
LEMMA TypeUser ==
  ASSUME TypeOK, NEW u \in Users, UserCalls(u) \/ UserProgress(u), Observe
  PROVE  TypeOK'
<1>0. latched' \in BOOLEAN /\ begun' \in BOOLEAN /\ drbg_seen' \in [Officers -> BOOLEAN]
  BY HistoryType
<1> USE <1>0, ThreadsAssumption DEF Threads, TypeOK, Goto, module_vars,
       rand_vars, lock_vars, local_vars
<1>1. CASE KeypairCall(u)
  BY <1>1 DEF KeypairCall, States, UserPcs, Keys
<1>2. CASE KeypairDraw(u)
  BY <1>2 DEF KeypairDraw, States, UserPcs, Keys
<1>3. CASE KeypairRefused(u)
  BY <1>3 DEF KeypairRefused, States, UserPcs, Keys
<1>4. CASE KeypairUnhealthy(u)
  BY <1>4 DEF KeypairUnhealthy, SetErrorState, States, UserPcs, Keys
<1>5. CASE KeypairMade(u)
  BY <1>5 DEF KeypairMade, States, UserPcs, Keys
<1>6. CASE KeypairStCtx(u)
  BY <1>6 DEF KeypairStCtx, States, UserPcs, Keys
<1>7. CASE PctPasses(u)
  BY <1>7 DEF PctPasses, States, UserPcs, Keys
<1>8. CASE PctFails(u)
  BY <1>8 DEF PctFails, States, UserPcs, Keys
<1>9. CASE KeypairFails(u)
  BY <1>9 DEF KeypairFails, SetErrorState, States, UserPcs, Keys
<1>10. CASE KeypairReturn(u)
  BY <1>10 DEF KeypairReturn, States, UserPcs, Keys
<1>11. CASE ReportCount(u)
  BY <1>11 DEF ReportCount, States, UserPcs, Keys
<1>12. CASE ReportRead(u)
  BY <1>12 DEF ReportRead, States, UserPcs, Keys
<1>13. CASE RandSeed(u)
  BY <1>13 DEF RandSeed, States, UserPcs, Keys
<1>14. CASE RandSeedUnhealthy(u)
  BY <1>14 DEF RandSeedUnhealthy, SetErrorState, States, UserPcs, Keys
<1>15. CASE RandInitCall(u)
  BY <1>15 DEF RandInitCall, GateOpen, States, UserPcs, Keys
<1>16. CASE RandInit(u)
  BY <1>16 DEF RandInit, States, UserPcs, Keys
<1>17. CASE RandCleanupCall(u)
  BY <1>17 DEF RandCleanupCall, States, UserPcs, Keys
<1>18. CASE RandCleanup(u)
  BY <1>18 DEF RandCleanup, States, UserPcs, Keys
<1> QED
  BY <1>1, <1>2, <1>3, <1>4, <1>5, <1>6, <1>7, <1>8, <1>9, <1>10, <1>11, <1>12,
     <1>13, <1>14, <1>15, <1>16, <1>17, <1>18
     DEF UserCalls, UserProgress, Keypair

\* Every step keeps every variable in its type.
LEMMA TypeNext == TypeOK /\ [Next]_vars => TypeOK'
<1> SUFFICES ASSUME TypeOK, [Next]_vars PROVE TypeOK'
  OBVIOUS
<1>1. CASE Reload
  BY <1>1 DEF Reload, TypeOK, local_vars, States
<1>2. CASE UNCHANGED vars
  BY <1>2 DEF vars, TypeOK, module_vars, rand_vars, lock_vars, local_vars, history
<1> QED
  BY <1>1, <1>2, TypeOfficer, TypeUser DEF Next

\* Every variable of the module always has a value of its type.
THEOREM TypeCorrect == Spec => []TypeOK
  BY TypeInit, TypeNext, PTL DEF Spec


-----------------------------------------------------------------------------
(***************************************************************************)
(* What a user's step does to the officers: nothing but, perhaps, ERROR.   *)
(***************************************************************************)
\* A user never touches the lock, the evidence or an officer's position; the
\* only state it can store is ERROR, and it does so without the lock.
LEMMA UserFrame ==
  ASSUME TypeOK, NEW u \in Users, UserCalls(u) \/ UserProgress(u)
  PROVE  /\ \A o \in Officers : pc'[o] = pc[o]
         /\ g_module_state' \in {g_module_state, "ERROR"}
         /\ UNCHANGED <<module_vars, lock_vars, op, ok>>
<1> USE ThreadsAssumption DEF Threads, TypeOK, Goto, module_vars, lock_vars, local_vars
<1>1. CASE KeypairCall(u)
  BY <1>1 DEF KeypairCall
<1>2. CASE KeypairDraw(u)
  BY <1>2 DEF KeypairDraw
<1>3. CASE KeypairRefused(u)
  BY <1>3 DEF KeypairRefused
<1>4. CASE KeypairUnhealthy(u)
  BY <1>4 DEF KeypairUnhealthy, SetErrorState
<1>5. CASE KeypairMade(u)
  BY <1>5 DEF KeypairMade
<1>6. CASE KeypairStCtx(u)
  BY <1>6 DEF KeypairStCtx
<1>7. CASE PctPasses(u)
  BY <1>7 DEF PctPasses
<1>8. CASE PctFails(u)
  BY <1>8 DEF PctFails
<1>9. CASE KeypairFails(u)
  BY <1>9 DEF KeypairFails, SetErrorState
<1>10. CASE KeypairReturn(u)
  BY <1>10 DEF KeypairReturn
<1>11. CASE ReportCount(u)
  BY <1>11 DEF ReportCount
<1>12. CASE ReportRead(u)
  BY <1>12 DEF ReportRead
<1>13. CASE RandSeed(u)
  BY <1>13 DEF RandSeed
<1>14. CASE RandSeedUnhealthy(u)
  BY <1>14 DEF RandSeedUnhealthy, SetErrorState
<1>15. CASE RandInitCall(u)
  BY <1>15 DEF RandInitCall, GateOpen
<1>16. CASE RandInit(u)
  BY <1>16 DEF RandInit
<1>17. CASE RandCleanupCall(u)
  BY <1>17 DEF RandCleanupCall
<1>18. CASE RandCleanup(u)
  BY <1>18 DEF RandCleanup
<1> QED
  BY <1>1, <1>2, <1>3, <1>4, <1>5, <1>6, <1>7, <1>8, <1>9, <1>10, <1>11, <1>12,
     <1>13, <1>14, <1>15, <1>16, <1>17, <1>18
     DEF UserCalls, UserProgress, Keypair

-----------------------------------------------------------------------------
(***************************************************************************)
(* The lock and the latch                                                  *)
(***************************************************************************)
\* Nobody is inside a critical section of a freshly loaded module.
LEMMA LockInit == Init => LockInv
  BY ThreadsAssumption DEF Init, LockInv, Ownership, ReleasedFails, LatchGuards,
     TestingStates, Threads, CriticalPcs, CheckPcs, SelfTestPcs, StorePcs

\* How a step moves the latch: it is never taken back, and set with ERROR there
\* and the lock free, unless a fini is about to store INIT.
LatchMoves ==
    /\ latched' \in BOOLEAN
    /\ latched => latched'
    /\ latched' /\ ~latched => g_module_state' = "ERROR" /\ writer' = NoThread
    /\ ~latched' /\ g_module_state' = "ERROR" /\ writer' = NoThread
           => \E o \in Officers : pc'[o] = "f_store"

\* Observe moves the latch that way.
LEMMA LatchStep == TypeOK /\ Observe => LatchMoves
  BY DEF TypeOK, Observe, LatchMoves

\* An officer's step preserves the lock invariant: only the holder of the lock
\* stores a state, and one that has lost it stores ERROR.
LEMMA LockOfficer ==
  ASSUME TypeOK, LockInv, ~FiniBeforeInit, NEW o \in Officers,
         Calls(o) \/ LockWaits(o) \/ Progress(o), Observe
  PROVE  LockInv'
<1>0. LatchMoves
  BY LatchStep
<1> USE <1>0, ThreadsAssumption DEF LatchMoves, Threads, TypeOK, Goto, module_vars,
       rand_vars, lock_vars, local_vars, LockInv, Ownership, ReleasedFails,
       LatchGuards, TestingStates, CriticalPcs, CheckPcs, SelfTestPcs, StorePcs
<1>1. CASE InitCall(o)
  BY <1>1 DEF InitCall
<1>2. CASE SelfTestCall(o)
  BY <1>2 DEF SelfTestCall
<1>3. CASE FiniCall(o)
  BY <1>3 DEF FiniCall
<1>4. CASE UnregisterCallbacks(o)
  BY <1>4 DEF UnregisterCallbacks
<1>5. CASE InitRegister(o)
  BY <1>5 DEF InitRegister
<1>6. CASE InitLock(o)
  BY <1>6 DEF InitLock, WrLock
<1>7. CASE SelfTestLock(o)
  BY <1>7 DEF SelfTestLock, WrLock
<1>8. CASE FiniLock(o)
  BY <1>8 DEF FiniLock, WrLock
<1>9. CASE InitLoad(o)
  BY <1>9 DEF InitLoad
<1>10. CASE InitDecided(o)
  BY <1>10 DEF InitDecided, Unlock
<1>11. CASE InitConfigure(o)
  BY <1>11 DEF InitConfigure
<1>12. CASE SelfTestRefused(o)
  BY <1>12 DEF SelfTestRefused, Unlock
<1>13. CASE SelfTestAccepted(o)
  BY <1>13 DEF SelfTestAccepted
<1>14. CASE EnterSelfTest(o)
  BY <1>14 DEF EnterSelfTest
<1>15. CASE TestFails(o)
  BY <1>15 DEF TestFails, IntegrityFails, KatFails
<1>16. CASE IntegrityPasses(o)
  BY <1>16 DEF IntegrityPasses
<1>17. CASE PrimitivesPass(o)
  BY <1>17 DEF PrimitivesPass
<1>18. CASE SeedPasses(o)
  BY <1>18 DEF SeedPasses
<1>19. CASE SeedUnavailable(o)
  BY <1>19 DEF SeedUnavailable
<1>20. CASE SeedUnhealthy(o)
  BY <1>20 DEF SeedUnhealthy, SetErrorState
<1>21. CASE KatsRefused(o)
  BY <1>21 DEF KatsRefused, Reports, ServiceOpen, GateOpen
<1>22. CASE KeygenKatRuns(o)
  BY <1>22 DEF KeygenKatRuns, ServiceOpen, GateOpen
<1>23. CASE KeygenKatPasses(o)
  BY <1>23 DEF KeygenKatPasses
<1>24. CASE KeygenKatPct(o)
  <2>1. writer = o /\ o \notin released /\ ~latched /\ g_module_state = "ERROR"
    BY <1>24 DEF KeygenKatPct
  <2>2. released = {}
    BY <2>1
  <2>3. \A p \in Officers : pc[p] \in CriticalPcs => p = o
    BY <2>1, <2>2
  <2>4. CASE Goto(o, "stuck") /\ UNCHANGED lock_vars
    BY <1>24, <2>1, <2>2, <2>3, <2>4 DEF KeygenKatPct
  <2>5. CASE /\ Goto(o, "st_pct")
             /\ writer' = NoThread
             /\ released' = released \cup {o}
    <3>1. released' = {o} /\ latched' = TRUE /\ g_module_state' = "ERROR"
      BY <1>24, <2>1, <2>2, <2>5 DEF KeygenKatPct
    <3>2. pc'[o] = "st_pct" /\ \A p \in Officers : p # o => pc'[p] = pc[p]
      BY <2>5
    <3> QED
      BY <2>3, <2>5, <3>1, <3>2
  <2> QED
    BY <1>24, <2>4, <2>5 DEF KeygenKatPct, ReadLockAsWriter
<1>25. CASE KatPctPasses(o)
  BY <1>25 DEF KatPctPasses, ServiceOpen, GateOpen
<1>26. CASE KatPctFails(o)
  BY <1>26 DEF KatPctFails, SetErrorState, Reports, ServiceOpen, GateOpen
<1>27. CASE KatsPass(o)
  BY <1>27 DEF KatsPass, ServiceOpen, GateOpen
<1>28. CASE KatReportCount(o)
  BY <1>28 DEF KatReportCount
<1>29. CASE KatReportLock(o)
  <2>1. g_module_state' = "ERROR" /\ g_module_state = "ERROR" /\ ok' = ok /\ ~ok[o]
    BY <1>29 DEF KatReportLock
  <2>2. CASE writer # o
    BY <1>29, <2>1, <2>2 DEF KatReportLock
  <2>3. CASE writer = o
    <3>1. o \notin released /\ ~latched /\ released = {}
      BY <1>29, <2>3 DEF KatReportLock
    <3>2. \A p \in Officers : pc[p] \in CriticalPcs => p = o
      BY <2>3, <3>1
    <3>3. CASE Goto(o, "stuck") /\ UNCHANGED lock_vars
      BY <2>1, <3>1, <3>2, <3>3
    <3>4. CASE /\ Goto(o, "st_store")
               /\ writer' = NoThread
               /\ released' = released \cup {o}
      <4>1. pc'[o] = "st_store" /\ \A p \in Officers : p # o => pc'[p] = pc[p]
        BY <3>4
      <4>2. released' = {o} /\ latched' = TRUE
        BY <2>1, <3>1, <3>2, <3>4, <4>1
      <4> QED
        BY <2>1, <3>2, <3>4, <4>1, <4>2
    <3> QED
      BY <1>29, <2>3, <3>3, <3>4 DEF KatReportLock, ReadLockAsWriter
  <2> QED
    BY <2>2, <2>3
<1>30. CASE StoreVerdict(o)
  BY <1>30 DEF StoreVerdict
<1>31. CASE EndSelfTest(o)
  BY <1>31 DEF EndSelfTest, Unlock
<1>32. CASE FiniClear(o)
  BY <1>32 DEF FiniClear
<1>33. CASE FiniStore(o)
  BY <1>33 DEF FiniStore
<1>34. CASE FiniUnlock(o)
  BY <1>34 DEF FiniUnlock, Unlock
<1>35. CASE FiniRand(o)
  BY <1>35 DEF FiniRand
<1>36. CASE SeedEntropy(o)
  BY <1>36 DEF SeedEntropy
<1>37. CASE FiniClean(o)
  BY <1>37 DEF FiniClean
<1> QED
  BY <1>1, <1>2, <1>3, <1>4, <1>5, <1>6, <1>7, <1>8, <1>9, <1>10, <1>11,
     <1>12, <1>13, <1>14, <1>15, <1>16, <1>17, <1>18, <1>19, <1>20, <1>21,
     <1>22, <1>23, <1>24, <1>25, <1>26, <1>27, <1>28, <1>29, <1>30, <1>31,
     <1>32, <1>33, <1>34, <1>35, <1>36, <1>37 DEF Calls, LockWaits, Progress

\* A user's step preserves the lock invariant: the state it may store is ERROR.
LEMMA LockUser ==
  ASSUME TypeOK, LockInv, NEW u \in Users, UserCalls(u) \/ UserProgress(u), Observe
  PROVE  LockInv'
<1>0. LatchMoves
  BY LatchStep
<1>1. /\ \A o \in Officers : pc'[o] = pc[o]
      /\ g_module_state' \in {g_module_state, "ERROR"}
      /\ UNCHANGED <<writer, released, ok>>
  BY UserFrame DEF lock_vars
<1>2. CASE latched
  BY <1>0, <1>1, <1>2 DEF TypeOK, LatchMoves, LockInv, Ownership, ReleasedFails,
     LatchGuards, TestingStates
<1>3. CASE ~latched
  <2>1. released = {}
    BY <1>3 DEF LockInv, ReleasedFails
  <2>2. CASE writer = NoThread
    <3>1. \A o \in Officers : pc[o] \notin CriticalPcs
      BY <2>1, <2>2, ThreadsAssumption DEF LockInv, Ownership, Threads
    <3> QED
      BY <1>0, <1>1, <2>1, <3>1 DEF TypeOK, LatchMoves, LockInv, Ownership, ReleasedFails,
         LatchGuards, TestingStates, StorePcs, CriticalPcs, SelfTestPcs
  <2>3. CASE writer # NoThread
    BY <1>0, <1>1, <1>3, <2>1, <2>3 DEF TypeOK, LatchMoves, LockInv, Ownership,
       ReleasedFails, LatchGuards, TestingStates
  <2> QED
    BY <2>2, <2>3
<1> QED
  BY <1>2, <1>3

\* Every step preserves the lock invariant.
LEMMA LockNext ==
  ASSUME TypeOK, LockInv, ~FiniBeforeInit, [Next]_vars
  PROVE  LockInv'
<1>1. CASE Reload
  BY <1>1, ThreadsAssumption DEF Reload, LockInv, Ownership, ReleasedFails,
     LatchGuards, TestingStates, Threads, CriticalPcs, CheckPcs, SelfTestPcs, StorePcs
<1>2. CASE UNCHANGED vars
  BY <1>2 DEF vars, lock_vars, local_vars, history, LockInv, Ownership, ReleasedFails,
     LatchGuards, TestingStates
<1> QED
  BY <1>1, <1>2, LockOfficer, LockUser DEF Next

-----------------------------------------------------------------------------
(***************************************************************************)
(* The evidence behind RUNNING                                             *)
(***************************************************************************)
\* A freshly loaded module is not RUNNING.
LEMMA EvidenceInit == Init => EvidenceInv
  BY ThreadsAssumption DEF Init, EvidenceInv, OpsMatch, Evidence, RunningEvidence,
     Threads, SelfTestPcs

\* An officer's step preserves the evidence: what it clears or marks belongs to
\* the thread that holds the lock.
LEMMA EvidenceOfficer ==
  ASSUME TypeOK, LockInv, EvidenceInv, ~FiniBeforeInit, NEW o \in Officers,
         Calls(o) \/ LockWaits(o) \/ Progress(o)
  PROVE  EvidenceInv'
<1> USE ThreadsAssumption DEF Threads, TypeOK, Goto, module_vars, rand_vars,
       lock_vars, local_vars, LockInv, Ownership, ReleasedFails, LatchGuards,
       TestingStates, EvidenceInv, OpsMatch, Evidence, RunningEvidence, Complete,
       CriticalPcs, CheckPcs, SelfTestPcs, StorePcs
<1>1. CASE InitCall(o)
  BY <1>1 DEF InitCall
<1>2. CASE SelfTestCall(o)
  BY <1>2 DEF SelfTestCall
<1>3. CASE FiniCall(o)
  BY <1>3 DEF FiniCall
<1>4. CASE UnregisterCallbacks(o)
  BY <1>4 DEF UnregisterCallbacks
<1>5. CASE InitRegister(o)
  BY <1>5 DEF InitRegister
<1>6. CASE InitLock(o)
  BY <1>6 DEF InitLock, WrLock
<1>7. CASE SelfTestLock(o)
  BY <1>7 DEF SelfTestLock, WrLock
<1>8. CASE FiniLock(o)
  BY <1>8 DEF FiniLock, WrLock
<1>9. CASE InitLoad(o)
  BY <1>9 DEF InitLoad
<1>10. CASE InitDecided(o)
  BY <1>10 DEF InitDecided, Unlock
<1>11. CASE InitConfigure(o)
  BY <1>11 DEF InitConfigure
<1>12. CASE SelfTestRefused(o)
  BY <1>12 DEF SelfTestRefused, Unlock
<1>13. CASE SelfTestAccepted(o)
  BY <1>13 DEF SelfTestAccepted
<1>14. CASE EnterSelfTest(o)
  BY <1>14 DEF EnterSelfTest
<1>15. CASE TestFails(o)
  BY <1>15 DEF TestFails, IntegrityFails, KatFails
<1>16. CASE IntegrityPasses(o)
  BY <1>16 DEF IntegrityPasses
<1>17. CASE PrimitivesPass(o)
  BY <1>17 DEF PrimitivesPass
<1>18. CASE SeedPasses(o)
  BY <1>18 DEF SeedPasses
<1>19. CASE SeedUnavailable(o)
  BY <1>19 DEF SeedUnavailable
<1>20. CASE SeedUnhealthy(o)
  BY <1>20 DEF SeedUnhealthy, SetErrorState
<1>21. CASE KatsRefused(o)
  BY <1>21 DEF KatsRefused, Reports, ServiceOpen, GateOpen
<1>22. CASE KeygenKatRuns(o)
  BY <1>22 DEF KeygenKatRuns, ServiceOpen, GateOpen
<1>23. CASE KeygenKatPasses(o)
  BY <1>23 DEF KeygenKatPasses
<1>24. CASE KeygenKatPct(o)
  BY <1>24 DEF KeygenKatPct, ReadLockAsWriter
<1>25. CASE KatPctPasses(o)
  BY <1>25 DEF KatPctPasses, ServiceOpen, GateOpen
<1>26. CASE KatPctFails(o)
  BY <1>26 DEF KatPctFails, SetErrorState, Reports, ServiceOpen, GateOpen
<1>27. CASE KatsPass(o)
  BY <1>27 DEF KatsPass, ServiceOpen, GateOpen
<1>28. CASE KatReportCount(o)
  BY <1>28 DEF KatReportCount
<1>29. CASE KatReportLock(o)
  BY <1>29 DEF KatReportLock, ReadLockAsWriter
<1>30. CASE StoreVerdict(o)
  BY <1>30 DEF StoreVerdict
<1>31. CASE EndSelfTest(o)
  BY <1>31 DEF EndSelfTest, Unlock
<1>32. CASE FiniClear(o)
  BY <1>32 DEF FiniClear
<1>33. CASE FiniStore(o)
  BY <1>33 DEF FiniStore
<1>34. CASE FiniUnlock(o)
  BY <1>34 DEF FiniUnlock, Unlock
<1>35. CASE FiniRand(o)
  BY <1>35 DEF FiniRand
<1>36. CASE SeedEntropy(o)
  BY <1>36 DEF SeedEntropy
<1>37. CASE FiniClean(o)
  BY <1>37 DEF FiniClean
<1> QED
  BY <1>1, <1>2, <1>3, <1>4, <1>5, <1>6, <1>7, <1>8, <1>9, <1>10, <1>11,
     <1>12, <1>13, <1>14, <1>15, <1>16, <1>17, <1>18, <1>19, <1>20, <1>21,
     <1>22, <1>23, <1>24, <1>25, <1>26, <1>27, <1>28, <1>29, <1>30, <1>31,
     <1>32, <1>33, <1>34, <1>35, <1>36, <1>37 DEF Calls, LockWaits, Progress

\* A user's step preserves the evidence.
LEMMA EvidenceUser ==
  ASSUME TypeOK, EvidenceInv, NEW u \in Users, UserCalls(u) \/ UserProgress(u)
  PROVE  EvidenceInv'
  BY UserFrame DEF TypeOK, module_vars, lock_vars, EvidenceInv, OpsMatch, Evidence,
     RunningEvidence, Complete

\* Every step preserves the evidence.
LEMMA EvidenceNext ==
  ASSUME TypeOK, LockInv, EvidenceInv, ~FiniBeforeInit, [Next]_vars
  PROVE  EvidenceInv'
<1>1. CASE Reload
  BY <1>1, ThreadsAssumption DEF Reload, local_vars, EvidenceInv, OpsMatch,
     Evidence, RunningEvidence, Threads, SelfTestPcs
<1>2. CASE UNCHANGED vars
  BY <1>2 DEF vars, module_vars, lock_vars, local_vars, EvidenceInv, OpsMatch,
     Evidence, RunningEvidence, Complete
<1> QED
  BY <1>1, <1>2, EvidenceOfficer, EvidenceUser DEF Next

-----------------------------------------------------------------------------
(***************************************************************************)
(* The theorems                                                            *)
(***************************************************************************)
\* The inductive invariant holds in every reachable state, when fini never
\* comes before the first init.
THEOREM Inductive ==
  ASSUME ~FiniBeforeInit
  PROVE  Spec => [](TypeOK /\ IInv)
<1>1. Init => TypeOK /\ IInv
  BY TypeInit, LockInit, EvidenceInit DEF IInv
<1>2. TypeOK /\ IInv /\ [Next]_vars => (TypeOK /\ IInv)'
  BY TypeNext, LockNext, EvidenceNext DEF IInv
<1> QED
  BY <1>1, <1>2, PTL DEF Spec

\* However many threads manage and use the module, an ERROR that has been there
\* with the lock free is left only by reloading the module: qudo_pqc_init,
\* qudo_pqc_self_test and qudo_pqc_fini never overwrite it.
THEOREM ErrorLatch ==
  ASSUME ~FiniBeforeInit
  PROVE  Spec => []ErrorLatchHolds
<1>1. IInv => ErrorLatchHolds
  BY DEF IInv, LockInv, LatchGuards, ErrorLatchHolds
<1> QED
  BY <1>1, Inductive, PTL

\* No two threads ever run the self-tests at the same time, even when a thread
\* loses the lock it holds by taking it again.
THEOREM SelfTestsExclusive ==
  ASSUME ~FiniBeforeInit
  PROVE  Spec => []SelfTestExclusive
<1>1. TypeOK /\ IInv => SelfTestExclusive
  <2> SUFFICES ASSUME LockInv, NEW o \in Officers, NEW p \in Officers,
                      SelfTesting(o), SelfTesting(p)
               PROVE  o = p
    BY DEF IInv, SelfTestExclusive
  <2>1. /\ writer = o \/ o \in released
        /\ writer = p \/ p \in released
    BY DEF LockInv, Ownership, SelfTesting, CriticalPcs
  <2>2. CASE latched
    BY <2>2 DEF LockInv, LatchGuards, ReleasedFails, SelfTesting, StorePcs
  <2>3. CASE ~latched
    BY <2>1, <2>3 DEF LockInv, ReleasedFails
  <2> QED
    BY <2>2, <2>3
<1> QED
  BY <1>1, Inductive, PTL

\* Whenever the lock is free, a RUNNING module has passed its integrity check
\* and its DRBG test and holds a configuration.
THEOREM RunningComplete ==
  ASSUME ~FiniBeforeInit
  PROVE  Spec => []RunningIsComplete
<1>1. TypeOK /\ IInv => RunningIsComplete
  <2> SUFFICES ASSUME TypeOK, IInv, g_module_state = "RUNNING", writer = NoThread
               PROVE  Complete
    BY DEF RunningIsComplete, Complete
  <2>1. \A o \in Officers : pc[o] # "f_store"
    BY ThreadsAssumption DEF IInv, LockInv, Ownership, ReleasedFails, Threads,
       CriticalPcs
  <2> QED
    BY <2>1 DEF IInv, EvidenceInv, RunningEvidence
<1> QED
  BY <1>1, Inductive, PTL


-----------------------------------------------------------------------------
(***************************************************************************)
(* The finite state model, when no service runs concurrently               *)
(***************************************************************************)
\* A freshly loaded module is quiet.
LEMMA QuietInit == Init => QuietInv
  BY ThreadsAssumption DEF Init, QuietInv, Threads, SelfTestPcs

\* An officer's step keeps the module quiet.
LEMMA QuietOfficer ==
  ASSUME TypeOK, LockInv, QuietInv, ~FiniBeforeInit, NEW o \in Officers,
         Calls(o) \/ LockWaits(o) \/ Progress(o)
  PROVE  QuietInv'
<1> USE ThreadsAssumption DEF Threads, TypeOK, Goto, module_vars, rand_vars,
       lock_vars, local_vars, LockInv, Ownership, ReleasedFails, LatchGuards,
       TestingStates, QuietInv, CriticalPcs, CheckPcs, SelfTestPcs, StorePcs
<1>1. CASE InitCall(o)
  BY <1>1 DEF InitCall
<1>2. CASE SelfTestCall(o)
  BY <1>2 DEF SelfTestCall
<1>3. CASE FiniCall(o)
  BY <1>3 DEF FiniCall
<1>4. CASE UnregisterCallbacks(o)
  BY <1>4 DEF UnregisterCallbacks
<1>5. CASE InitRegister(o)
  BY <1>5 DEF InitRegister
<1>6. CASE InitLock(o)
  BY <1>6 DEF InitLock, WrLock
<1>7. CASE SelfTestLock(o)
  BY <1>7 DEF SelfTestLock, WrLock
<1>8. CASE FiniLock(o)
  BY <1>8 DEF FiniLock, WrLock
<1>9. CASE InitLoad(o)
  BY <1>9 DEF InitLoad
<1>10. CASE InitDecided(o)
  BY <1>10 DEF InitDecided, Unlock
<1>11. CASE InitConfigure(o)
  BY <1>11 DEF InitConfigure
<1>12. CASE SelfTestRefused(o)
  BY <1>12 DEF SelfTestRefused, Unlock
<1>13. CASE SelfTestAccepted(o)
  BY <1>13 DEF SelfTestAccepted
<1>14. CASE EnterSelfTest(o)
  BY <1>14 DEF EnterSelfTest
<1>15. CASE TestFails(o)
  BY <1>15 DEF TestFails, IntegrityFails, KatFails
<1>16. CASE IntegrityPasses(o)
  BY <1>16 DEF IntegrityPasses
<1>17. CASE PrimitivesPass(o)
  BY <1>17 DEF PrimitivesPass
<1>18. CASE SeedPasses(o)
  BY <1>18 DEF SeedPasses
<1>19. CASE SeedUnavailable(o)
  BY <1>19 DEF SeedUnavailable
<1>20. CASE SeedUnhealthy(o)
  BY <1>20 DEF SeedUnhealthy, SetErrorState
<1>21. CASE KatsRefused(o)
  BY <1>21 DEF KatsRefused, Reports, ServiceOpen, GateOpen
<1>22. CASE KeygenKatRuns(o)
  BY <1>22 DEF KeygenKatRuns, ServiceOpen, GateOpen
<1>23. CASE KeygenKatPasses(o)
  BY <1>23 DEF KeygenKatPasses
<1>24. CASE KeygenKatPct(o)
  BY <1>24 DEF KeygenKatPct, ReadLockAsWriter
<1>25. CASE KatPctPasses(o)
  BY <1>25 DEF KatPctPasses, ServiceOpen, GateOpen
<1>26. CASE KatPctFails(o)
  BY <1>26 DEF KatPctFails, SetErrorState, Reports, ServiceOpen, GateOpen
<1>27. CASE KatsPass(o)
  BY <1>27 DEF KatsPass, ServiceOpen, GateOpen
<1>28. CASE KatReportCount(o)
  BY <1>28 DEF KatReportCount
<1>29. CASE KatReportLock(o)
  BY <1>29 DEF KatReportLock, ReadLockAsWriter
<1>30. CASE StoreVerdict(o)
  BY <1>30 DEF StoreVerdict
<1>31. CASE EndSelfTest(o)
  BY <1>31 DEF EndSelfTest, Unlock
<1>32. CASE FiniClear(o)
  BY <1>32 DEF FiniClear
<1>33. CASE FiniStore(o)
  BY <1>33 DEF FiniStore
<1>34. CASE FiniUnlock(o)
  BY <1>34 DEF FiniUnlock, Unlock
<1>35. CASE FiniRand(o)
  BY <1>35 DEF FiniRand
<1>36. CASE SeedEntropy(o)
  BY <1>36 DEF SeedEntropy
<1>37. CASE FiniClean(o)
  BY <1>37 DEF FiniClean
<1> QED
  BY <1>1, <1>2, <1>3, <1>4, <1>5, <1>6, <1>7, <1>8, <1>9, <1>10, <1>11,
     <1>12, <1>13, <1>14, <1>15, <1>16, <1>17, <1>18, <1>19, <1>20, <1>21,
     <1>22, <1>23, <1>24, <1>25, <1>26, <1>27, <1>28, <1>29, <1>30, <1>31,
     <1>32, <1>33, <1>34, <1>35, <1>36, <1>37 DEF Calls, LockWaits, Progress

\* Without users every step keeps the module quiet.
LEMMA QuietNext ==
  ASSUME TypeOK, LockInv, QuietInv, ~FiniBeforeInit, Users = {}, [Next]_vars
  PROVE  QuietInv'
<1>1. CASE Reload
  BY <1>1, ThreadsAssumption DEF Reload, local_vars, QuietInv, Threads, SelfTestPcs
<1>2. CASE UNCHANGED vars
  BY <1>2 DEF vars, lock_vars, local_vars, QuietInv
<1> QED
  BY <1>1, <1>2, QuietOfficer DEF Next

\* Testing: whether some officer runs the self-tests.
Testing == \E o \in Officers : SelfTesting(o)

\* A step that leaves the state alone and neither enters nor leaves the
\* self-tests does not change Testing.
LEMMA TestingSame ==
  ASSUME TypeOK, NEW o \in Officers, NEW l, Goto(o, l),
         (l \in SelfTestPcs) = (pc[o] \in SelfTestPcs)
  PROVE  Testing' = Testing
  BY ThreadsAssumption DEF TypeOK, Threads, Goto, Testing, SelfTesting


\* When no officer has lost the lock, at most one is inside a critical section.
LEMMA OneCritical ==
  ASSUME LockInv, QuietInv, NEW o \in Officers, pc[o] \in CriticalPcs
  PROVE  \A p \in Officers : pc[p] \in CriticalPcs => p = o
  BY DEF LockInv, Ownership, QuietInv

\* An officer's step is a step of the finite state model, or none.
LEMMA FsmOfficer ==
  ASSUME TypeOK, LockInv, QuietInv, ~FiniBeforeInit, NEW o \in Officers,
         Calls(o) \/ LockWaits(o) \/ Progress(o)
  PROVE  FSM!Next \/ UNCHANGED <<g_module_state, Testing>>
<1> USE ThreadsAssumption DEF Threads
<1>1. CASE InitCall(o)
  BY <1>1, TestingSame DEF InitCall, SelfTestPcs
<1>2. CASE SelfTestCall(o)
  BY <1>2, TestingSame DEF SelfTestCall, SelfTestPcs
<1>3. CASE FiniCall(o)
  BY <1>3, TestingSame DEF FiniCall, SelfTestPcs
<1>4. CASE UnregisterCallbacks(o)
  BY <1>4 DEF UnregisterCallbacks, Testing, SelfTesting
<1>5. CASE InitRegister(o)
  BY <1>5, TestingSame DEF InitRegister, SelfTestPcs
<1>6. CASE InitLock(o)
  BY <1>6, TestingSame DEF InitLock, SelfTestPcs
<1>7. CASE SelfTestLock(o)
  BY <1>7, TestingSame DEF SelfTestLock, SelfTestPcs
<1>8. CASE FiniLock(o)
  BY <1>8, TestingSame DEF FiniLock, SelfTestPcs
<1>9. CASE InitLoad(o)
  BY <1>9, TestingSame DEF InitLoad, SelfTestPcs
<1>10. CASE InitDecided(o)
  BY <1>10, TestingSame DEF InitDecided, SelfTestPcs
<1>11. CASE InitConfigure(o)
  BY <1>11, TestingSame DEF InitConfigure, SelfTestPcs
<1>12. CASE SelfTestRefused(o)
  BY <1>12, TestingSame DEF SelfTestRefused, SelfTestPcs
<1>13. CASE SelfTestAccepted(o)
  BY <1>13, TestingSame DEF SelfTestAccepted, SelfTestPcs
<1>14. CASE EnterSelfTest(o)
  <2>1. ~Testing
    BY <1>14, OneCritical DEF EnterSelfTest, Testing, SelfTesting, CriticalPcs,
       CheckPcs, SelfTestPcs
  <2>2. Testing'
    BY <1>14 DEF EnterSelfTest, Goto, TypeOK, Testing, SelfTesting, SelfTestPcs
  <2>3. g_module_state # "ERROR" /\ g_module_state' = "SELFTEST"
    BY <1>14 DEF EnterSelfTest, QuietInv
  <2> QED
    BY <2>1, <2>2, <2>3 DEF FSM!Next, FSM!StartTests, Testing
<1>15. CASE TestFails(o)
  BY <1>15, TestingSame DEF TestFails, IntegrityFails, KatFails, SelfTestPcs
<1>16. CASE IntegrityPasses(o)
  BY <1>16, TestingSame DEF IntegrityPasses, SelfTestPcs
<1>17. CASE PrimitivesPass(o)
  BY <1>17, TestingSame DEF PrimitivesPass, SelfTestPcs
<1>18. CASE SeedPasses(o)
  BY <1>18, TestingSame DEF SeedPasses, SelfTestPcs
<1>19. CASE SeedUnavailable(o)
  BY <1>19, TestingSame DEF SeedUnavailable, SelfTestPcs
<1>20. CASE SeedUnhealthy(o)
  <2>1. Testing /\ Testing'
    BY <1>20 DEF SeedUnhealthy, Goto, TypeOK, Testing, SelfTesting, SelfTestPcs
  <2>2. g_module_state' = "ERROR"
    BY <1>20 DEF SeedUnhealthy, SetErrorState
  <2> QED
    BY <2>1, <2>2 DEF FSM!Next, FSM!DetectFailure, Testing
<1>21. CASE KatsRefused(o)
  BY <1>21, TestingSame DEF KatsRefused, SelfTestPcs
<1>22. CASE KeygenKatRuns(o)
  BY <1>22, TestingSame DEF KeygenKatRuns, SelfTestPcs
<1>23. CASE KeygenKatPasses(o)
  BY <1>23, TestingSame DEF KeygenKatPasses, SelfTestPcs
<1>24. CASE KeygenKatPct(o)
  BY <1>24 DEF KeygenKatPct, QuietInv, SelfTestPcs
<1>25. CASE KatPctPasses(o)
  BY <1>25 DEF KatPctPasses, QuietInv
<1>26. CASE KatPctFails(o)
  BY <1>26 DEF KatPctFails, QuietInv
<1>27. CASE KatsPass(o)
  BY <1>27, TestingSame DEF KatsPass, SelfTestPcs
<1>28. CASE KatReportCount(o)
  BY <1>28 DEF KatReportCount, QuietInv
<1>29. CASE KatReportLock(o)
  BY <1>29 DEF KatReportLock, QuietInv
<1>30. CASE StoreVerdict(o)
  <2>1. Testing
    BY <1>30 DEF StoreVerdict, Testing, SelfTesting, SelfTestPcs
  <2>2. ~Testing'
    BY <1>30, OneCritical DEF StoreVerdict, Goto, TypeOK, Testing, SelfTesting,
       CriticalPcs, SelfTestPcs
  <2>3. /\ g_module_state' \in {"RUNNING", "ERROR"}
        /\ g_module_state = "ERROR" => g_module_state' = "ERROR"
    BY <1>30 DEF StoreVerdict, QuietInv
  <2> QED
    BY <2>1, <2>2, <2>3 DEF FSM!Next, FSM!FinishTests, Testing
<1>31. CASE EndSelfTest(o)
  BY <1>31, TestingSame DEF EndSelfTest, SelfTestPcs
<1>32. CASE FiniClear(o)
  BY <1>32, TestingSame DEF FiniClear, SelfTestPcs
<1>33. CASE FiniStore(o)
  <2>1. ~Testing
    BY <1>33, OneCritical DEF FiniStore, Testing, SelfTesting, CriticalPcs,
       CheckPcs, SelfTestPcs
  <2>2. ~Testing'
    BY <1>33, <2>1 DEF FiniStore, Goto, TypeOK, Testing, SelfTesting, SelfTestPcs
  <2>3. g_module_state # "ERROR" /\ g_module_state' = "INIT"
    BY <1>33 DEF FiniStore, QuietInv
  <2> QED
    BY <2>1, <2>2, <2>3 DEF FSM!Next, FSM!Finish, Testing
<1>34. CASE FiniUnlock(o)
  BY <1>34, TestingSame DEF FiniUnlock, SelfTestPcs
<1>35. CASE FiniRand(o)
  BY <1>35, TestingSame DEF FiniRand, SelfTestPcs
<1>36. CASE SeedEntropy(o)
  BY <1>36, TestingSame DEF SeedEntropy, SelfTestPcs
<1>37. CASE FiniClean(o)
  BY <1>37, TestingSame DEF FiniClean, SelfTestPcs
<1> QED
  BY <1>1, <1>2, <1>3, <1>4, <1>5, <1>6, <1>7, <1>8, <1>9, <1>10, <1>11,
     <1>12, <1>13, <1>14, <1>15, <1>16, <1>17, <1>18, <1>19, <1>20, <1>21,
     <1>22, <1>23, <1>24, <1>25, <1>26, <1>27, <1>28, <1>29, <1>30, <1>31,
     <1>32, <1>33, <1>34, <1>35, <1>36, <1>37 DEF Calls, LockWaits, Progress

\* The state and the activity of the module implement the finite state model
\* whatever officers do concurrently, as long as no service runs and fini never
\* comes before the first init.
THEOREM ImplementsFSM ==
  ASSUME ~FiniBeforeInit, Users = {}
  PROVE  Spec => RefinesFSM
<1>1. Init => TypeOK /\ LockInv /\ QuietInv
  BY TypeInit, LockInit, QuietInit
<1>2. TypeOK /\ LockInv /\ QuietInv /\ [Next]_vars => (TypeOK /\ LockInv /\ QuietInv)'
  BY TypeNext, LockNext, QuietNext
<1>3. Init => FSM!Init
  BY ThreadsAssumption DEF Init, FSM!Init, SelfTesting, SelfTestPcs, Threads
<1>4. TypeOK /\ LockInv /\ QuietInv /\ [Next]_vars
         => [FSM!Next]_<<g_module_state, \E o \in Officers : SelfTesting(o)>>
  <2> SUFFICES ASSUME TypeOK, LockInv, QuietInv, [Next]_vars
               PROVE  FSM!Next \/ UNCHANGED <<g_module_state, Testing>>
    BY DEF Testing
  <2>1. CASE Reload
    <3>1. ~Testing /\ ~Testing'
      BY <2>1 DEF Reload, Threads, Testing, SelfTesting, SelfTestPcs
    <3> QED
      BY <2>1, <3>1 DEF Reload, FSM!Next, FSM!Load, Testing
  <2>2. CASE UNCHANGED vars
    BY <2>2 DEF vars, Testing, SelfTesting
  <2> QED
    BY <2>1, <2>2, FsmOfficer DEF Next
<1> QED
  BY <1>1, <1>2, <1>3, <1>4, PTL DEF Spec, RefinesFSM, FSM!Spec

-----------------------------------------------------------------------------
(***************************************************************************)
(* Key pairs without their pairwise test                                   *)
(***************************************************************************)
\* Where a test is under way whose end will store a verdict.
ActivePcs == SelfTestPcs \ {"st_pct", "st_report_inc", "st_report_lock"}

\* An officer's step moves no user.
LEMMA OfficerFrame ==
  ASSUME TypeOK, NEW o \in Officers, Calls(o) \/ LockWaits(o) \/ Progress(o)
  PROVE  \A t \in Threads \ {o} : pc'[t] = pc[t]
<1> USE DEF Threads, TypeOK, Goto
<1>1. CASE InitCall(o) \/ SelfTestCall(o) \/ FiniCall(o) \/ UnregisterCallbacks(o) \/ InitRegister(o) \/ InitLock(o) \/ SelfTestLock(o) \/ FiniLock(o) \/ InitLoad(o)
    BY <1>1 DEF InitCall, SelfTestCall, FiniCall, UnregisterCallbacks, InitRegister,
     InitLock, SelfTestLock, FiniLock, InitLoad
<1>2. CASE InitDecided(o) \/ InitConfigure(o) \/ SelfTestRefused(o) \/ SelfTestAccepted(o) \/ EnterSelfTest(o) \/ TestFails(o) \/ IntegrityPasses(o) \/ PrimitivesPass(o) \/ SeedPasses(o)
    BY <1>2 DEF InitDecided, InitConfigure, SelfTestRefused, SelfTestAccepted,
     EnterSelfTest, TestFails, IntegrityPasses, PrimitivesPass, SeedPasses
<1>3. CASE SeedUnavailable(o) \/ SeedUnhealthy(o) \/ KatsRefused(o) \/ KeygenKatRuns(o) \/ KeygenKatPasses(o) \/ KeygenKatPct(o) \/ KatPctPasses(o) \/ KatPctFails(o) \/ KatsPass(o)
    BY <1>3 DEF SeedUnavailable, SeedUnhealthy, KatsRefused, KeygenKatRuns,
     KeygenKatPasses, KeygenKatPct, KatPctPasses, KatPctFails, KatsPass,
     ReadLockAsWriter
<1>4. CASE KatReportCount(o) \/ KatReportLock(o) \/ StoreVerdict(o) \/ EndSelfTest(o) \/ FiniClear(o) \/ FiniStore(o) \/ FiniUnlock(o) \/ FiniRand(o) \/ FiniClean(o) \/ SeedEntropy(o)
    BY <1>4 DEF KatReportCount, KatReportLock, StoreVerdict, EndSelfTest, FiniClear,
     FiniStore, FiniUnlock, FiniRand, FiniClean, SeedEntropy, ReadLockAsWriter
<1> QED
  BY <1>1, <1>2, <1>3, <1>4 DEF Calls, LockWaits, Progress

\* SELFTEST is the state of a test that is under way, or of a module that has
\* been loaded and not tested since.
SelfTestOwned ==
    /\ \A o \in Officers : pc[o] \in SelfTestPcs => begun
    /\ g_module_state = "SELFTEST" => ~begun \/ \E o \in Officers : pc[o] \in ActivePcs

\* begun says that some officer has been inside the self-tests.
LEMMA BegunStep ==
  ASSUME TypeOK, Observe
  PROVE  /\ begun => begun'
         /\ begun' /\ ~begun => \E o \in Officers : pc'[o] \in SelfTestPcs
         /\ \A o \in Officers : pc'[o] \in SelfTestPcs => begun'
  BY DEF TypeOK, Observe

\* An officer's step leaves SELFTEST only to its own test or to a fresh module.
LEMMA OwnedOfficer ==
  ASSUME TypeOK, SelfTestOwned, NEW o \in Officers,
         Calls(o) \/ LockWaits(o) \/ Progress(o), Observe
  PROVE  SelfTestOwned'
<1>0. /\ begun => begun'
      /\ begun' /\ ~begun => \E p \in Officers : pc'[p] \in SelfTestPcs
      /\ \A p \in Officers : pc'[p] \in SelfTestPcs => begun'
      /\ begun \in BOOLEAN
  BY BegunStep DEF TypeOK
<1> USE <1>0, ThreadsAssumption DEF Threads, TypeOK, Goto, SelfTestOwned, ActivePcs, SelfTestPcs
<1>1. CASE InitCall(o)
    BY <1>1 DEF InitCall
<1>2. CASE SelfTestCall(o)
    BY <1>2 DEF SelfTestCall
<1>3. CASE FiniCall(o)
    BY <1>3 DEF FiniCall
<1>4. CASE UnregisterCallbacks(o)
    BY <1>4 DEF UnregisterCallbacks
<1>5. CASE InitRegister(o)
    BY <1>5 DEF InitRegister
<1>6. CASE InitLock(o)
    BY <1>6 DEF InitLock, WrLock
<1>7. CASE SelfTestLock(o)
    BY <1>7 DEF SelfTestLock, WrLock
<1>8. CASE FiniLock(o)
    BY <1>8 DEF FiniLock, WrLock
<1>9. CASE InitLoad(o)
    BY <1>9 DEF InitLoad
<1>10. CASE InitDecided(o)
    BY <1>10 DEF InitDecided, Unlock
<1>11. CASE InitConfigure(o)
    BY <1>11 DEF InitConfigure
<1>12. CASE SelfTestRefused(o)
    BY <1>12 DEF SelfTestRefused, Unlock
<1>13. CASE SelfTestAccepted(o)
    BY <1>13 DEF SelfTestAccepted
<1>14. CASE EnterSelfTest(o)
    BY <1>14 DEF EnterSelfTest
<1>15. CASE TestFails(o)
    BY <1>15 DEF TestFails, IntegrityFails, KatFails
<1>16. CASE IntegrityPasses(o)
    BY <1>16 DEF IntegrityPasses
<1>17. CASE PrimitivesPass(o)
    BY <1>17 DEF PrimitivesPass
<1>18. CASE SeedPasses(o)
    BY <1>18 DEF SeedPasses
<1>19. CASE SeedUnavailable(o)
    BY <1>19 DEF SeedUnavailable
<1>20. CASE SeedUnhealthy(o)
    BY <1>20 DEF SeedUnhealthy, SetErrorState
<1>21. CASE KatsRefused(o)
    BY <1>21 DEF KatsRefused, Reports, ServiceOpen, GateOpen
<1>22. CASE KeygenKatRuns(o)
    BY <1>22 DEF KeygenKatRuns, ServiceOpen, GateOpen
<1>23. CASE KeygenKatPasses(o)
    BY <1>23 DEF KeygenKatPasses
<1>24. CASE KeygenKatPct(o)
    BY <1>24 DEF KeygenKatPct, ReadLockAsWriter
<1>25. CASE KatPctPasses(o)
    BY <1>25 DEF KatPctPasses, ServiceOpen, GateOpen
<1>26. CASE KatPctFails(o)
    BY <1>26 DEF KatPctFails, SetErrorState, Reports, ServiceOpen, GateOpen
<1>27. CASE KatsPass(o)
    BY <1>27 DEF KatsPass, ServiceOpen, GateOpen
<1>28. CASE KatReportCount(o)
    BY <1>28 DEF KatReportCount
<1>29. CASE KatReportLock(o)
    BY <1>29 DEF KatReportLock, ReadLockAsWriter
<1>30. CASE StoreVerdict(o)
    BY <1>30 DEF StoreVerdict
<1>31. CASE EndSelfTest(o)
    BY <1>31 DEF EndSelfTest, Unlock
<1>32. CASE FiniClear(o)
    BY <1>32 DEF FiniClear
<1>33. CASE FiniStore(o)
    BY <1>33 DEF FiniStore
<1>34. CASE FiniUnlock(o)
    BY <1>34 DEF FiniUnlock, Unlock
<1>35. CASE FiniRand(o)
    BY <1>35 DEF FiniRand
<1>36. CASE SeedEntropy(o)
    BY <1>36 DEF SeedEntropy
<1>37. CASE FiniClean(o)
    BY <1>37 DEF FiniClean
<1> QED
  BY <1>1, <1>2, <1>3, <1>4, <1>5, <1>6, <1>7, <1>8, <1>9, <1>10, <1>11,
     <1>12, <1>13, <1>14, <1>15, <1>16, <1>17, <1>18, <1>19, <1>20, <1>21,
     <1>22, <1>23, <1>24, <1>25, <1>26, <1>27, <1>28, <1>29, <1>30, <1>31,
     <1>32, <1>33, <1>34, <1>35, <1>36, <1>37 DEF Calls, LockWaits, Progress

\* A user's step moves no officer and stores no SELFTEST.
LEMMA OwnedUser ==
  ASSUME TypeOK, SelfTestOwned, NEW u \in Users, UserCalls(u) \/ UserProgress(u), Observe
  PROVE  SelfTestOwned'
  BY BegunStep, UserFrame DEF SelfTestOwned, ActivePcs

\* Every step keeps SELFTEST owned.
LEMMA OwnedNext == TypeOK /\ SelfTestOwned /\ [Next]_vars => SelfTestOwned'
<1> SUFFICES ASSUME TypeOK, SelfTestOwned, [Next]_vars PROVE SelfTestOwned'
  OBVIOUS
<1>1. CASE Reload
  BY <1>1 DEF Reload, SelfTestOwned, Threads, SelfTestPcs
<1>2. CASE UNCHANGED vars
  BY <1>2 DEF vars, history, SelfTestOwned
<1> QED
  BY <1>1, <1>2, OwnedOfficer, OwnedUser DEF Next

\* QUDO_KEM_keypair skips the pairwise test of a pair only while an officer is
\* inside the self-tests or before the first of them since the module was loaded,
\* whoever calls fini and when, and whatever the application does to the DRBG.
THEOREM UntestedPairsNeedSelfTest == Spec => UntestedOnlyDuringSelfTest
<1>1. Init => SelfTestOwned
  BY DEF Init, SelfTestOwned, Threads, SelfTestPcs
<1>2. TypeOK /\ SelfTestOwned /\ [Next]_vars
      => [\A u \in Users : pc[u] = "k_made" /\ pc'[u] = "k_return" =>
             ~begun \/ \E o \in Officers : SelfTesting(o)]_vars
  <2> SUFFICES ASSUME TypeOK, SelfTestOwned, [Next]_vars, NEW u \in Users,
                      pc[u] = "k_made", pc'[u] = "k_return"
               PROVE  ~begun \/ \E o \in Officers : SelfTesting(o)
    OBVIOUS
  <2>1. g_module_state = "SELFTEST"
    <3>1. CASE Reload \/ UNCHANGED vars
      BY <3>1 DEF Reload, vars
    <3>2. ASSUME NEW o \in Officers, Calls(o) \/ LockWaits(o) \/ Progress(o) PROVE FALSE
      BY <3>2, OfficerFrame, ThreadsAssumption DEF Threads
    <3>3. ASSUME NEW r \in Users, UserCalls(r) \/ UserProgress(r)
          PROVE  g_module_state = "SELFTEST"
      <4> USE ThreadsAssumption DEF Threads, TypeOK, Goto
      <4>1. CASE KeypairMade(r)
        BY <4>1 DEF KeypairMade
      <4>2. CASE ~KeypairMade(r)
        <5>1. pc[r] # "k_made" /\ pc'[u] = IF u = r THEN pc'[r] ELSE pc[u]
          BY <3>3, <4>2 DEF UserCalls, UserProgress, KeypairCall, Keypair, KeypairDraw,
             KeypairRefused, KeypairUnhealthy, KeypairStCtx, PctPasses, PctFails,
             KeypairFails, KeypairReturn, ReportCount, ReportRead, RandSeed,
             RandSeedUnhealthy, RandInitCall, RandInit, RandCleanupCall, RandCleanup
        <5> QED
          BY <5>1
      <4> QED
        BY <4>1, <4>2
    <3> QED
      BY <3>1, <3>2, <3>3 DEF Next
  <2> QED
    BY <2>1 DEF SelfTestOwned, SelfTesting, ActivePcs
<1> QED
  BY <1>1, <1>2, TypeInit, TypeNext, OwnedNext, PTL DEF Spec, UntestedOnlyDuringSelfTest

-----------------------------------------------------------------------------
(***************************************************************************)
(* The DRBG behind a verdict                                               *)
(***************************************************************************)
\* Past the first gated test a self-test has seen a seeded DRBG, or it has
\* failed.
SeenInv ==
    \A o \in Officers :
        /\ pc[o] \in {"st_keygen_pct", "st_kats", "st_pct"} => drbg_seen[o]
        /\ pc[o] \in {"st_report_inc", "st_report_lock"} => ~ok[o]
        /\ pc[o] = "st_store" /\ ok[o] => drbg_seen[o]

\* A self-test under way remembers that it has seen the DRBG seeded.
LEMMA SeenStep ==
  ASSUME TypeOK, Observe
  PROVE  \A p \in Officers :
            /\ pc[p] \in SelfTestPcs /\ pc'[p] \in SelfTestPcs /\ drbg_seen[p] => drbg_seen'[p]
            /\ pc'[p] \in SelfTestPcs /\ g_fips_rand_ready' => drbg_seen'[p]
  BY DEF TypeOK, Observe

\* An officer's step gets past the gate of the tests with a seeded DRBG only.
LEMMA SeenOfficer ==
  ASSUME TypeOK, SeenInv, NEW o \in Officers,
         Calls(o) \/ LockWaits(o) \/ Progress(o), Observe
  PROVE  SeenInv'
<1>0. \A p \in Officers :
         /\ pc[p] \in SelfTestPcs /\ pc'[p] \in SelfTestPcs /\ drbg_seen[p] => drbg_seen'[p]
         /\ pc'[p] \in SelfTestPcs /\ g_fips_rand_ready' => drbg_seen'[p]
  BY SeenStep
<1> USE <1>0, ThreadsAssumption DEF Threads, TypeOK, Goto, rand_vars, local_vars, SeenInv,
       SelfTestPcs
<1>1. CASE InitCall(o)
    BY <1>1 DEF InitCall
<1>2. CASE SelfTestCall(o)
    BY <1>2 DEF SelfTestCall
<1>3. CASE FiniCall(o)
    BY <1>3 DEF FiniCall
<1>4. CASE UnregisterCallbacks(o)
    BY <1>4 DEF UnregisterCallbacks
<1>5. CASE InitRegister(o)
    BY <1>5 DEF InitRegister
<1>6. CASE InitLock(o)
    BY <1>6 DEF InitLock, WrLock
<1>7. CASE SelfTestLock(o)
    BY <1>7 DEF SelfTestLock, WrLock
<1>8. CASE FiniLock(o)
    BY <1>8 DEF FiniLock, WrLock
<1>9. CASE InitLoad(o)
    BY <1>9 DEF InitLoad
<1>10. CASE InitDecided(o)
    BY <1>10 DEF InitDecided, Unlock
<1>11. CASE InitConfigure(o)
    BY <1>11 DEF InitConfigure
<1>12. CASE SelfTestRefused(o)
    BY <1>12 DEF SelfTestRefused, Unlock
<1>13. CASE SelfTestAccepted(o)
    BY <1>13 DEF SelfTestAccepted
<1>14. CASE EnterSelfTest(o)
    BY <1>14 DEF EnterSelfTest
<1>15. CASE TestFails(o)
    BY <1>15 DEF TestFails, IntegrityFails, KatFails
<1>16. CASE IntegrityPasses(o)
    BY <1>16 DEF IntegrityPasses
<1>17. CASE PrimitivesPass(o)
    BY <1>17 DEF PrimitivesPass
<1>18. CASE SeedPasses(o)
    BY <1>18 DEF SeedPasses
<1>19. CASE SeedUnavailable(o)
    BY <1>19 DEF SeedUnavailable
<1>20. CASE SeedUnhealthy(o)
    BY <1>20 DEF SeedUnhealthy, SetErrorState
<1>21. CASE KatsRefused(o)
    BY <1>21 DEF KatsRefused, Reports, ServiceOpen, GateOpen
<1>22. CASE KeygenKatRuns(o)
    BY <1>22 DEF KeygenKatRuns, ServiceOpen, GateOpen
<1>23. CASE KeygenKatPasses(o)
    BY <1>23 DEF KeygenKatPasses
<1>24. CASE KeygenKatPct(o)
    BY <1>24 DEF KeygenKatPct, ReadLockAsWriter
<1>25. CASE KatPctPasses(o)
    BY <1>25 DEF KatPctPasses, ServiceOpen, GateOpen
<1>26. CASE KatPctFails(o)
    BY <1>26 DEF KatPctFails, SetErrorState, Reports, ServiceOpen, GateOpen
<1>27. CASE KatsPass(o)
    BY <1>27 DEF KatsPass, ServiceOpen, GateOpen
<1>28. CASE KatReportCount(o)
    BY <1>28 DEF KatReportCount
<1>29. CASE KatReportLock(o)
    BY <1>29 DEF KatReportLock, ReadLockAsWriter
<1>30. CASE StoreVerdict(o)
    BY <1>30 DEF StoreVerdict
<1>31. CASE EndSelfTest(o)
    BY <1>31 DEF EndSelfTest, Unlock
<1>32. CASE FiniClear(o)
    BY <1>32 DEF FiniClear
<1>33. CASE FiniStore(o)
    BY <1>33 DEF FiniStore
<1>34. CASE FiniUnlock(o)
    BY <1>34 DEF FiniUnlock, Unlock
<1>35. CASE FiniRand(o)
    BY <1>35 DEF FiniRand
<1>36. CASE SeedEntropy(o)
    BY <1>36 DEF SeedEntropy
<1>37. CASE FiniClean(o)
    BY <1>37 DEF FiniClean
<1> QED
  BY <1>1, <1>2, <1>3, <1>4, <1>5, <1>6, <1>7, <1>8, <1>9, <1>10, <1>11,
     <1>12, <1>13, <1>14, <1>15, <1>16, <1>17, <1>18, <1>19, <1>20, <1>21,
     <1>22, <1>23, <1>24, <1>25, <1>26, <1>27, <1>28, <1>29, <1>30, <1>31,
     <1>32, <1>33, <1>34, <1>35, <1>36, <1>37 DEF Calls, LockWaits, Progress

\* The module turns RUNNING only by the verdict of a test that has passed.
LEMMA RunningStep ==
  ASSUME TypeOK, NEW o \in Officers, Calls(o) \/ LockWaits(o) \/ Progress(o),
         g_module_state # "RUNNING", g_module_state' = "RUNNING"
  PROVE  pc[o] = "st_store" /\ ok[o]
<1>1. CASE StoreVerdict(o)
  BY <1>1 DEF StoreVerdict
<1>2. CASE EnterSelfTest(o) \/ SeedUnhealthy(o) \/ KatPctFails(o) \/ FiniStore(o)
  BY <1>2 DEF EnterSelfTest, SeedUnhealthy, KatPctFails, FiniStore, SetErrorState
<1>3. CASE Calls(o) \/ LockWaits(o)
  BY <1>3 DEF Calls, InitCall, SelfTestCall, FiniCall, UnregisterCallbacks, LockWaits,
     InitRegister, InitLock, SelfTestLock, FiniLock
<1>4. CASE \/ InitLoad(o) \/ InitDecided(o) \/ InitConfigure(o) \/ SelfTestRefused(o)
           \/ SelfTestAccepted(o) \/ TestFails(o) \/ IntegrityPasses(o) \/ PrimitivesPass(o)
           \/ SeedEntropy(o) \/ SeedPasses(o) \/ SeedUnavailable(o)
  BY <1>4 DEF InitLoad, InitDecided, InitConfigure, SelfTestRefused, SelfTestAccepted,
     TestFails, IntegrityPasses, PrimitivesPass, SeedEntropy, SeedPasses, SeedUnavailable
<1>5. CASE \/ KatsRefused(o) \/ KeygenKatRuns(o) \/ KeygenKatPasses(o) \/ KeygenKatPct(o)
           \/ KatPctPasses(o) \/ KatsPass(o) \/ KatReportCount(o) \/ KatReportLock(o)
  BY <1>5 DEF KatsRefused, KeygenKatRuns, KeygenKatPasses, KeygenKatPct, KatPctPasses,
     KatsPass, KatReportCount, KatReportLock
<1>6. CASE EndSelfTest(o) \/ FiniClear(o) \/ FiniUnlock(o) \/ FiniRand(o) \/ FiniClean(o)
  BY <1>6 DEF EndSelfTest, FiniClear, FiniUnlock, FiniRand, FiniClean
<1> QED
  BY <1>1, <1>2, <1>3, <1>4, <1>5, <1>6 DEF Progress

\* The module turns RUNNING only by a self-test that has had a seeded DRBG, for
\* any number of officers and whatever they and the application do to the DRBG.
THEOREM RunningRestsOnDrbg == Spec => RunningHasHadDrbg
<1>1. Init => SeenInv
  BY DEF Init, SeenInv, Threads
<1>2. TypeOK /\ SeenInv /\ [Next]_vars => SeenInv'
  <2> SUFFICES ASSUME TypeOK, SeenInv, [Next]_vars PROVE SeenInv'
    OBVIOUS
  <2>1. CASE Reload
    BY <2>1 DEF Reload, SeenInv, Threads
  <2>2. CASE UNCHANGED vars
    BY <2>2 DEF vars, local_vars, history, SeenInv
  <2>3. ASSUME NEW u \in Users, UserCalls(u) \/ UserProgress(u), Observe PROVE SeenInv'
    BY <2>3, SeenStep, UserFrame DEF SeenInv, SelfTestPcs
  <2> QED
    BY <2>1, <2>2, <2>3, SeenOfficer DEF Next
<1>3. TypeOK /\ SeenInv /\ [Next]_vars
      => [g_module_state # "RUNNING" /\ g_module_state' = "RUNNING" =>
             \E o \in Officers : SelfTesting(o) /\ drbg_seen[o]]_vars
  <2> SUFFICES ASSUME TypeOK, SeenInv, [Next]_vars,
                      g_module_state # "RUNNING", g_module_state' = "RUNNING"
               PROVE  \E o \in Officers : SelfTesting(o) /\ drbg_seen[o]
    OBVIOUS
  <2>1. ~Reload /\ ~UNCHANGED vars
    BY DEF Reload, vars
  <2>2. \A u \in Users : ~(UserCalls(u) \/ UserProgress(u))
    BY UserFrame
  <2>3. PICK o \in Officers : Calls(o) \/ LockWaits(o) \/ Progress(o)
    BY <2>1, <2>2 DEF Next
  <2>4. pc[o] = "st_store" /\ ok[o]
    BY <2>3, RunningStep
  <2> QED
    BY <2>4 DEF SeenInv, SelfTesting, SelfTestPcs
<1> QED
  BY <1>1, <1>2, <1>3, TypeInit, TypeNext, PTL DEF Spec, RunningHasHadDrbg

-----------------------------------------------------------------------------
(***************************************************************************)
(* The discipline of the lock, when no service runs concurrently           *)
(***************************************************************************)
\* An officer that is quiet unlocks only what it holds and never gets stuck.
LEMMA DisciplineOfficer ==
  ASSUME TypeOK, LockInv, QuietInv, LockDiscipline, ~FiniBeforeInit, NEW o \in Officers,
         Calls(o) \/ LockWaits(o) \/ Progress(o)
  PROVE  LockDiscipline'
<1> USE ThreadsAssumption DEF Threads, TypeOK, Goto, lock_vars, LockInv, Ownership, QuietInv,
       LockDiscipline, CriticalPcs, CheckPcs, SelfTestPcs
<1>1. CASE InitCall(o)
    BY <1>1 DEF InitCall
<1>2. CASE SelfTestCall(o)
    BY <1>2 DEF SelfTestCall
<1>3. CASE FiniCall(o)
    BY <1>3 DEF FiniCall
<1>4. CASE UnregisterCallbacks(o)
    BY <1>4 DEF UnregisterCallbacks
<1>5. CASE InitRegister(o)
    BY <1>5 DEF InitRegister
<1>6. CASE InitLock(o)
    BY <1>6 DEF InitLock, WrLock
<1>7. CASE SelfTestLock(o)
    BY <1>7 DEF SelfTestLock, WrLock
<1>8. CASE FiniLock(o)
    BY <1>8 DEF FiniLock, WrLock
<1>9. CASE InitLoad(o)
    BY <1>9 DEF InitLoad
<1>10. CASE InitDecided(o)
    BY <1>10 DEF InitDecided, Unlock
<1>11. CASE InitConfigure(o)
    BY <1>11 DEF InitConfigure
<1>12. CASE SelfTestRefused(o)
    BY <1>12 DEF SelfTestRefused, Unlock
<1>13. CASE SelfTestAccepted(o)
    BY <1>13 DEF SelfTestAccepted
<1>14. CASE EnterSelfTest(o)
    BY <1>14 DEF EnterSelfTest
<1>15. CASE TestFails(o)
    BY <1>15 DEF TestFails, IntegrityFails, KatFails
<1>16. CASE IntegrityPasses(o)
    BY <1>16 DEF IntegrityPasses
<1>17. CASE PrimitivesPass(o)
    BY <1>17 DEF PrimitivesPass
<1>18. CASE SeedPasses(o)
    BY <1>18 DEF SeedPasses
<1>19. CASE SeedUnavailable(o)
    BY <1>19 DEF SeedUnavailable
<1>20. CASE SeedUnhealthy(o)
    BY <1>20 DEF SeedUnhealthy, SetErrorState
<1>21. CASE KatsRefused(o)
    BY <1>21 DEF KatsRefused, Reports, ServiceOpen, GateOpen
<1>22. CASE KeygenKatRuns(o)
    BY <1>22 DEF KeygenKatRuns, ServiceOpen, GateOpen
<1>23. CASE KeygenKatPasses(o)
    BY <1>23 DEF KeygenKatPasses
<1>24. CASE KeygenKatPct(o)
    BY <1>24 DEF KeygenKatPct, ReadLockAsWriter
<1>25. CASE KatPctPasses(o)
    BY <1>25 DEF KatPctPasses, ServiceOpen, GateOpen
<1>26. CASE KatPctFails(o)
    BY <1>26 DEF KatPctFails, SetErrorState, Reports, ServiceOpen, GateOpen
<1>27. CASE KatsPass(o)
    BY <1>27 DEF KatsPass, ServiceOpen, GateOpen
<1>28. CASE KatReportCount(o)
    BY <1>28 DEF KatReportCount
<1>29. CASE KatReportLock(o)
    BY <1>29 DEF KatReportLock, ReadLockAsWriter
<1>30. CASE StoreVerdict(o)
    BY <1>30 DEF StoreVerdict
<1>31. CASE EndSelfTest(o)
    BY <1>31 DEF EndSelfTest, Unlock
<1>32. CASE FiniClear(o)
    BY <1>32 DEF FiniClear
<1>33. CASE FiniStore(o)
    BY <1>33 DEF FiniStore
<1>34. CASE FiniUnlock(o)
    BY <1>34 DEF FiniUnlock, Unlock
<1>35. CASE FiniRand(o)
    BY <1>35 DEF FiniRand
<1>36. CASE SeedEntropy(o)
    BY <1>36 DEF SeedEntropy
<1>37. CASE FiniClean(o)
    BY <1>37 DEF FiniClean
<1> QED
  BY <1>1, <1>2, <1>3, <1>4, <1>5, <1>6, <1>7, <1>8, <1>9, <1>10, <1>11,
     <1>12, <1>13, <1>14, <1>15, <1>16, <1>17, <1>18, <1>19, <1>20, <1>21,
     <1>22, <1>23, <1>24, <1>25, <1>26, <1>27, <1>28, <1>29, <1>30, <1>31,
     <1>32, <1>33, <1>34, <1>35, <1>36, <1>37 DEF Calls, LockWaits, Progress

\* Without services no thread unlocks a lock it does not hold or asks for one it
\* holds, whatever the officers do concurrently.
THEOREM LockIsDisciplined ==
  ASSUME ~FiniBeforeInit, Users = {}
  PROVE  Spec => []LockDiscipline
<1> DEFINE Inv == TypeOK /\ LockInv /\ QuietInv /\ LockDiscipline
<1>1. Init => Inv
  <2>1. Init => LockDiscipline
    BY ThreadsAssumption DEF Init, LockDiscipline, Threads
  <2> QED
    BY <2>1, TypeInit, LockInit, QuietInit
<1>2. Inv /\ [Next]_vars => Inv'
  <2> SUFFICES ASSUME Inv, [Next]_vars PROVE LockDiscipline'
    BY TypeNext, LockNext, QuietNext
  <2>1. CASE Reload
    BY <2>1 DEF Reload, LockDiscipline
  <2>2. CASE UNCHANGED vars
    BY <2>2 DEF vars, lock_vars, LockDiscipline
  <2> QED
    BY <2>1, <2>2, DisciplineOfficer DEF Next
<1> QED
  BY <1>1, <1>2, PTL DEF Spec

-----------------------------------------------------------------------------
(***************************************************************************)
(* The reports of an ERROR                                                 *)
(***************************************************************************)
\* Threads that have passed the limit and have not counted their report.
ReportPcs == {"k_report_inc", "st_report_inc"}
Reporters == {t \in Threads : pc[t] \in ReportPcs}
ReportBound ==
    g_error_report_count + Cardinality(Reporters) < ErrorReportLimit + Cardinality(Threads)

\* A step counts a report, or lets one thread past the limit, or neither.
LEMMA ReportFrame ==
  ASSUME TypeOK, NEW t \in Threads,
         \/ t \in Officers /\ (Calls(t) \/ LockWaits(t) \/ Progress(t))
         \/ t \in Users /\ (UserCalls(t) \/ UserProgress(t))
  PROVE  /\ \A r \in Threads \ {t} : pc'[r] = pc[r]
         /\ \/ /\ pc[t] \in ReportPcs /\ pc'[t] \notin ReportPcs
               /\ g_error_report_count' = g_error_report_count + 1
            \/ /\ g_error_report_count' = g_error_report_count
               /\ pc'[t] \in ReportPcs => pc[t] \in ReportPcs \/ g_error_report_count < ErrorReportLimit
<1> USE DEF TypeOK, Goto, ReportPcs
<1>1. CASE InitCall(t) \/ SelfTestCall(t) \/ FiniCall(t) \/ UnregisterCallbacks(t) \/ InitRegister(t) \/ InitLock(t) \/ SelfTestLock(t) \/ FiniLock(t) \/ InitLoad(t)
    BY <1>1 DEF InitCall, SelfTestCall, FiniCall, UnregisterCallbacks, InitRegister,
     InitLock, SelfTestLock, FiniLock, InitLoad
<1>2. CASE InitDecided(t) \/ InitConfigure(t) \/ SelfTestRefused(t) \/ SelfTestAccepted(t) \/ EnterSelfTest(t) \/ TestFails(t) \/ IntegrityPasses(t) \/ PrimitivesPass(t) \/ SeedPasses(t)
    BY <1>2 DEF InitDecided, InitConfigure, SelfTestRefused, SelfTestAccepted,
     EnterSelfTest, TestFails, IntegrityPasses, PrimitivesPass, SeedPasses
<1>3. CASE SeedUnavailable(t) \/ SeedUnhealthy(t) \/ KatsRefused(t) \/ KeygenKatRuns(t) \/ KeygenKatPasses(t) \/ KeygenKatPct(t) \/ KatPctPasses(t) \/ KatPctFails(t) \/ KatsPass(t)
    BY <1>3 DEF SeedUnavailable, SeedUnhealthy, KatsRefused, KeygenKatRuns,
     KeygenKatPasses, KeygenKatPct, KatPctPasses, KatPctFails, KatsPass, Reports,
     ReadLockAsWriter
<1>4. CASE KatReportCount(t) \/ KatReportLock(t) \/ StoreVerdict(t) \/ EndSelfTest(t) \/ FiniClear(t) \/ FiniStore(t) \/ FiniUnlock(t) \/ FiniRand(t) \/ FiniClean(t) \/ SeedEntropy(t)
    BY <1>4 DEF KatReportCount, KatReportLock, StoreVerdict, EndSelfTest, FiniClear,
     FiniStore, FiniUnlock, FiniRand, FiniClean, SeedEntropy, ReadLockAsWriter
<1>5. CASE KeypairCall(t) \/ KeypairDraw(t) \/ KeypairRefused(t) \/ KeypairUnhealthy(t) \/ KeypairMade(t) \/ KeypairStCtx(t)
    BY <1>5 DEF KeypairCall, KeypairDraw, KeypairRefused, KeypairUnhealthy,
     KeypairMade, KeypairStCtx, Reports
<1>6. CASE PctPasses(t) \/ PctFails(t) \/ KeypairFails(t) \/ KeypairReturn(t) \/ ReportCount(t) \/ ReportRead(t)
    BY <1>6 DEF PctPasses, PctFails, KeypairFails, KeypairReturn, ReportCount,
     ReportRead, Reports
<1>7. CASE RandSeed(t) \/ RandSeedUnhealthy(t) \/ RandInitCall(t) \/ RandInit(t) \/ RandCleanupCall(t) \/ RandCleanup(t)
    BY <1>7 DEF RandSeed, RandSeedUnhealthy, RandInitCall, RandInit, RandCleanupCall,
     RandCleanup, Reports
<1> QED
  BY <1>1, <1>2, <1>3, <1>4, <1>5, <1>6, <1>7 DEF Calls, LockWaits, Progress, UserCalls,
     UserProgress, Keypair

\* Every step keeps the bound.
LEMMA ReportNext ==
  ASSUME IsFiniteSet(Threads), ErrorReportLimit # 0, TypeOK, ReportBound, [Next]_vars
  PROVE  ReportBound'
<1>1. /\ IsFiniteSet(Reporters) /\ Cardinality(Reporters) \in Nat
      /\ IsFiniteSet(Reporters') /\ Cardinality(Reporters') \in Nat
      /\ Cardinality(Reporters') <= Cardinality(Threads) /\ Cardinality(Threads) \in Nat
  <2>1. Reporters \subseteq Threads /\ Reporters' \subseteq Threads
    BY DEF Reporters
  <2> QED
    BY <2>1, FS_Subset, FS_CardinalityType
<1>2. g_error_report_count \in Nat /\ ErrorReportLimit \in Nat
  BY LimitAssumption DEF TypeOK
<1>3. CASE Reload
  <2>1. Reporters' = {} /\ g_error_report_count' = 0
    BY <1>3 DEF Reload, Reporters, ReportPcs
  <2>2. Cardinality({}) = 0
    BY FS_EmptySet
  <2> QED
    BY <1>1, <1>2, <2>1, <2>2 DEF ReportBound
<1>4. CASE UNCHANGED vars
  BY <1>4 DEF vars, ReportBound, Reporters
<1>5. ASSUME NEW t \in Threads,
             \/ t \in Officers /\ (Calls(t) \/ LockWaits(t) \/ Progress(t))
             \/ t \in Users /\ (UserCalls(t) \/ UserProgress(t))
      PROVE  ReportBound'
  <2>1. \A r \in Threads \ {t} : pc'[r] = pc[r]
    BY <1>5, ReportFrame
  <2>2. CASE /\ pc[t] \in ReportPcs /\ pc'[t] \notin ReportPcs
             /\ g_error_report_count' = g_error_report_count + 1
    <3>1. Reporters' = Reporters \ {t} /\ t \in Reporters
      BY <2>1, <2>2 DEF Reporters
    <3>2. Cardinality(Reporters') = Cardinality(Reporters) - 1
      BY <1>1, <3>1, FS_RemoveElement
    <3> QED
      BY <1>1, <1>2, <2>2, <3>2 DEF ReportBound
  <2>3. CASE /\ g_error_report_count' = g_error_report_count
             /\ pc'[t] \in ReportPcs => pc[t] \in ReportPcs
    <3>1. Reporters' \subseteq Reporters
      BY <2>1, <2>3 DEF Reporters
    <3>2. Cardinality(Reporters') <= Cardinality(Reporters)
      BY <1>1, <3>1, FS_Subset
    <3> QED
      BY <1>1, <1>2, <2>3, <3>2 DEF ReportBound
  <2>4. CASE g_error_report_count' = g_error_report_count /\ g_error_report_count < ErrorReportLimit
    BY <1>1, <1>2, <2>4 DEF ReportBound
  <2> QED
    BY <1>5, <2>2, <2>3, <2>4, ReportFrame
<1> QED
  BY <1>3, <1>4, <1>5 DEF Next, Threads

\* QUDO_ERROR_REPORT_LIMIT is passed by less than one report for each thread,
\* though its check and its increment are two steps.
THEOREM ReportsStayBounded ==
  ASSUME IsFiniteSet(Threads), ErrorReportLimit # 0
  PROVE  Spec => []ErrorReportsBounded
<1>1. Init => ReportBound
  <2> SUFFICES ASSUME Init PROVE ReportBound
    OBVIOUS
  <2>1. Reporters = {} /\ g_error_report_count = 0
    BY DEF Init, Reporters, ReportPcs
  <2>2. Cardinality({}) = 0 /\ Cardinality(Threads) \in Nat
    BY FS_EmptySet, FS_CardinalityType
  <2> QED
    BY <2>1, <2>2, LimitAssumption DEF ReportBound
<1>2. TypeOK /\ ReportBound /\ [Next]_vars => ReportBound'
  BY ReportNext
<1>3. TypeOK /\ ReportBound => ErrorReportsBounded
  <2> SUFFICES ASSUME TypeOK, ReportBound PROVE ErrorReportsBounded
    OBVIOUS
  <2>1. Cardinality(Reporters) \in Nat /\ Cardinality(Threads) \in Nat
    <3>1. Reporters \subseteq Threads
      BY DEF Reporters
    <3> QED
      BY <3>1, FS_Subset, FS_CardinalityType
  <2>2. g_error_report_count \in Nat
    BY DEF TypeOK
  <2> QED
    BY <2>1, <2>2, LimitAssumption DEF ReportBound, ErrorReportsBounded
<1> QED
  BY <1>1, <1>2, <1>3, TypeInit, TypeNext, PTL DEF Spec
=============================================================================
