------------------------ MODULE ProviderSelfTestProofs ------------------------
(***************************************************************************)
(* Theorems about ProviderSelfTest, for any loaders, users and             *)
(* configurations.                                                         *)
(***************************************************************************)
EXTENDS ProviderSelfTest, TLAPS

HeldPcs == {"locked", "unlock"} \cup TestPcs

\* self_test_lock is a mutex: a loader is between taking it and giving it back
\* exactly when it is the writer.
LockIsHeld ==
    \A p \in Loaders : pc[p] \in HeldPcs <=> self_test_lock = p

\* What SELF_TEST_post knows at each point: ok is cleared before the tests, set
\* only with them, and a caller on demand never takes over an older verdict.
VerdictIsEarned ==
    \A p \in Loaders :
        /\ pc[p] = "integrity" => ~ok[p]
        /\ pc[p] = "verdict" /\ ok[p] => tested[p]
        /\ pc[p] = "unlock" /\ on_demand_test[p] /\ ok[p] => tested[p]

\* A decided call gives the lock back in a decided state.
DecidedAtUnlock ==
    \A p \in Loaders : pc[p] = "unlock" => FIPS_state # "SELFTEST"

ProviderInv ==
    /\ TypeOK
    /\ LockIsHeld
    /\ VerdictIsEarned
    /\ DecidedAtUnlock
    /\ RunningIsTested
    /\ OnDemandIsTested
    /\ SelfTestIsHeld

ProviderLatchStep ==
    FIPS_state = "ERROR" /\ FIPS_state' # "ERROR" =>
        \E p \in Loaders : /\ self_test_lock = p
                           /\ \/ pc[p] = "mark"
                              \/ pc[p] = "verdict" /\ tested[p]

-----------------------------------------------------------------------------
\* The state the constructor leaves satisfies the invariant.
LEMMA ProviderInit == Init => ProviderInv
<1> SUFFICES ASSUME Init PROVE ProviderInv
  OBVIOUS
<1> USE ProviderThreads DEF Init, Threads, LoaderPcs, UserPcs, TestPcs, HeldPcs
<1>1. TypeOK
  BY DEF TypeOK, States
<1>2. LockIsHeld
  BY DEF LockIsHeld
<1>3. VerdictIsEarned /\ DecidedAtUnlock
  BY DEF VerdictIsEarned, DecidedAtUnlock
<1>4. RunningIsTested /\ OnDemandIsTested /\ SelfTestIsHeld
  BY DEF RunningIsTested, OnDemandIsTested, SelfTestIsHeld
<1> QED
  BY <1>1, <1>2, <1>3, <1>4 DEF ProviderInv

\* The first look at the state, for a new instance or on demand, keeps the
\* invariant: it returns 1 without a test only to a caller that has not asked
\* for one.
LEMMA PostKeeps ==
  ASSUME ProviderInv, NEW p \in Loaders, Load(p) \/ SelfTest(p)
  PROVE  ProviderInv'
<1> USE ProviderThreads
    DEF Threads, LoaderPcs, UserPcs, TestPcs, HeldPcs, States, Goto
<1>1. /\ pc[p] = "idle"
      /\ \E b \in BOOLEAN : on_demand_test' = [on_demand_test EXCEPT ![p] = b]
      /\ FIPS_conditional_error_check' \in {0, 1}
      /\ Post(p)
  BY DEF Load, SelfTest, ProviderInv, TypeOK
<1>2. PICK b \in BOOLEAN : on_demand_test' = [on_demand_test EXCEPT ![p] = b]
  BY <1>1
<1>3. TypeOK
  BY DEF ProviderInv
<1>4. /\ on_demand_test' \in [Loaders -> BOOLEAN]
      /\ on_demand_test'[p] = b
      /\ \A q \in Loaders : q # p => on_demand_test'[q] = on_demand_test[q]
  BY <1>2, <1>3 DEF TypeOK
<1>5. PICK label \in {"idle", "wait"} : pc' = [pc EXCEPT ![p] = label]
  BY <1>1 DEF Post, Return
<1>6. TypeOK'
  <2>1. pc' \in [Threads -> LoaderPcs \cup UserPcs]
    BY <1>3, <1>5 DEF TypeOK
  <2>2. \A q \in Loaders : pc'[q] \in LoaderPcs
    BY <1>3, <1>5 DEF TypeOK
  <2>3. \A u \in Users : pc'[u] \in UserPcs
    BY <1>3, <1>5 DEF TypeOK
  <2>4. ret' \in [Loaders -> {0, 1}] /\ loaded' \in BOOLEAN
    BY <1>1, <1>3 DEF TypeOK, Post, Return
  <2> QED
    BY <1>1, <1>3, <1>4, <2>1, <2>2, <2>3, <2>4 DEF TypeOK, Post
<1>7. LockIsHeld'
  BY <1>1, <1>3, <1>5 DEF ProviderInv, LockIsHeld, TypeOK, Post
<1>8. VerdictIsEarned' /\ DecidedAtUnlock'
  BY <1>1, <1>3, <1>4, <1>5
  DEF ProviderInv, VerdictIsEarned, DecidedAtUnlock, TypeOK, Post
<1>9. RunningIsTested'
  BY <1>1 DEF ProviderInv, RunningIsTested, Post
<1>10. OnDemandIsTested'
  <2> SUFFICES ASSUME NEW q \in Loaders,
                      pc'[q] = "idle", on_demand_test'[q], ret'[q] = 1
               PROVE  tested'[q]
    BY DEF OnDemandIsTested
  <2>1. CASE q = p
    BY <1>1, <1>3, <1>4, <2>1 DEF TypeOK, Post, Return
  <2>2. CASE q # p
    BY <1>1, <1>3, <1>4, <1>5, <2>2
    DEF ProviderInv, OnDemandIsTested, TypeOK, Post, Return
  <2> QED
    BY <2>1, <2>2
<1>11. SelfTestIsHeld'
  BY <1>1, <1>3, <1>5 DEF ProviderInv, SelfTestIsHeld, TypeOK, Post, Return
<1> QED
  BY <1>6, <1>7, <1>8, <1>9, <1>10, <1>11 DEF ProviderInv

\* Taking the lock keeps the invariant.
LEMMA PostLockKeeps ==
  ASSUME ProviderInv, NEW p \in Loaders, PostLock(p)
  PROVE  ProviderInv'
<1> USE ProviderThreads
    DEF Threads, LoaderPcs, UserPcs, TestPcs, HeldPcs, States, Goto, PostLock,
        loader_vars, ProviderInv
<1>1. TypeOK'
  BY DEF TypeOK
<1>2. LockIsHeld'
  BY DEF LockIsHeld, TypeOK
<1>3. VerdictIsEarned' /\ DecidedAtUnlock'
  BY DEF VerdictIsEarned, DecidedAtUnlock, TypeOK
<1>4. RunningIsTested' /\ OnDemandIsTested'
  BY DEF RunningIsTested, OnDemandIsTested, TypeOK
<1>5. SelfTestIsHeld'
  BY DEF SelfTestIsHeld, TypeOK
<1> QED
  BY <1>1, <1>2, <1>3, <1>4, <1>5

\* A step of the thread that has the lock keeps every variable in its type.
LEMMA PostStepType ==
  ASSUME ProviderInv, NEW p \in Loaders, PostStep(p)
  PROVE  TypeOK'
<1> USE ProviderThreads
    DEF Threads, LoaderPcs, UserPcs, TestPcs, States, Goto, loader_vars,
        ProviderInv, TypeOK
<1>1. CASE PostDecided(p)
  BY <1>1 DEF PostDecided
<1>2. CASE PostBegin(p)
  BY <1>2 DEF PostBegin
<1>3. CASE PostMark(p)
  BY <1>3 DEF PostMark
<1>4. CASE PostConfig(p)
  BY <1>4 DEF PostConfig
<1>5. CASE PostIntegrity(p)
  BY <1>5 DEF PostIntegrity
<1>6. CASE PostKats(p)
  BY <1>6 DEF PostKats
<1>7. CASE PostVerdict(p)
  BY <1>7 DEF PostVerdict
<1>8. CASE PostUnlock(p)
  BY <1>8 DEF PostUnlock, Return
<1> QED
  BY <1>1, <1>2, <1>3, <1>4, <1>5, <1>6, <1>7, <1>8 DEF PostStep

\* It is the writer until it gives the lock back, and nobody is after that.
LEMMA PostStepLock ==
  ASSUME ProviderInv, NEW p \in Loaders, PostStep(p)
  PROVE  LockIsHeld' /\ \A q \in Loaders : pc[q] \in HeldPcs => q = p
<1> USE ProviderThreads
    DEF Threads, LoaderPcs, UserPcs, TestPcs, HeldPcs, Goto, ProviderInv
<1>1. pc[p] \in HeldPcs
  BY DEF PostStep, PostDecided, PostBegin, PostMark, PostConfig, PostIntegrity,
         PostKats, PostVerdict, PostUnlock
<1>2. \A q \in Loaders : pc[q] \in HeldPcs => q = p
  BY <1>1 DEF LockIsHeld
<1>3. CASE PostUnlock(p)
  BY <1>2, <1>3 DEF PostUnlock, Return, LockIsHeld, TypeOK
<1>4. CASE ~PostUnlock(p)
  <2>1. PICK label \in HeldPcs : pc' = [pc EXCEPT ![p] = label]
    BY <1>4 DEF PostStep, PostDecided, PostBegin, PostMark, PostConfig,
                PostIntegrity, PostKats, PostVerdict
  <2>2. self_test_lock' = self_test_lock
    BY <1>4 DEF PostStep, PostDecided, PostBegin, PostMark, PostConfig,
                PostIntegrity, PostKats, PostVerdict
  <2> QED
    BY <1>1, <2>1, <2>2 DEF LockIsHeld, TypeOK
<1> QED
  BY <1>2, <1>3, <1>4
\* The verdict it is about to report is one it has earned, and it gives the lock
\* back in a decided state.
LEMMA PostStepVerdict ==
  ASSUME ProviderInv, NEW p \in Loaders, PostStep(p)
  PROVE  VerdictIsEarned' /\ DecidedAtUnlock'
<1> USE DEF Threads, Goto, loader_vars
<1>1. TypeOK /\ VerdictIsEarned /\ DecidedAtUnlock
  BY DEF ProviderInv
<1>2. \A q \in Loaders : pc[q] \in HeldPcs => q = p
  BY PostStepLock
<1>3. CASE PostDecided(p)
  BY <1>1, <1>3 DEF PostDecided, TypeOK, VerdictIsEarned, DecidedAtUnlock
<1>4. CASE PostBegin(p)
  BY <1>1, <1>4 DEF PostBegin, TypeOK, VerdictIsEarned, DecidedAtUnlock
<1>5. CASE PostMark(p)
  <2>1. VerdictIsEarned'
    BY <1>1, <1>5 DEF PostMark, TypeOK, VerdictIsEarned
  <2>2. DecidedAtUnlock'
    BY <1>1, <1>2, <1>5 DEF PostMark, TypeOK, DecidedAtUnlock, HeldPcs
  <2> QED
    BY <2>1, <2>2
<1>6. CASE PostConfig(p)
  BY <1>1, <1>6 DEF PostConfig, TypeOK, VerdictIsEarned, DecidedAtUnlock
<1>7. CASE PostIntegrity(p)
  BY <1>1, <1>7 DEF PostIntegrity, TypeOK, VerdictIsEarned, DecidedAtUnlock
<1>8. CASE PostKats(p)
  BY <1>1, <1>8 DEF PostKats, TypeOK, VerdictIsEarned, DecidedAtUnlock
<1>9. CASE PostVerdict(p)
  BY <1>1, <1>9 DEF PostVerdict, TypeOK, VerdictIsEarned, DecidedAtUnlock
<1>10. CASE PostUnlock(p)
  BY <1>1, <1>10 DEF PostUnlock, Return, TypeOK, VerdictIsEarned, DecidedAtUnlock
<1> QED
  BY <1>3, <1>4, <1>5, <1>6, <1>7, <1>8, <1>9, <1>10 DEF PostStep

\* Only the verdict of its own tests makes the provider RUNNING, and only such a
\* verdict is returned to a caller on demand.
LEMMA PostStepTested ==
  ASSUME ProviderInv, NEW p \in Loaders, PostStep(p)
  PROVE  RunningIsTested' /\ OnDemandIsTested'
<1> USE DEF Threads, Goto, loader_vars
<1>1. TypeOK /\ VerdictIsEarned /\ RunningIsTested /\ OnDemandIsTested
  BY DEF ProviderInv
<1>2. CASE PostUnlock(p)
  <2>1. RunningIsTested'
    BY <1>1, <1>2 DEF PostUnlock, RunningIsTested
  <2>2. \A q \in Loaders \ {p} : pc'[q] = pc[q] /\ ret'[q] = ret[q]
    BY <1>1, <1>2 DEF PostUnlock, Return, TypeOK
  <2>3. ret'[p] = IF ok[p] THEN 1 ELSE 0
    BY <1>1, <1>2 DEF PostUnlock, Return, TypeOK
  <2>4. OnDemandIsTested'
    BY <1>1, <1>2, <2>2, <2>3
    DEF PostUnlock, OnDemandIsTested, VerdictIsEarned, TypeOK
  <2> QED
    BY <2>1, <2>4
<1>3. CASE ~PostUnlock(p)
  <2>1. PICK label \in HeldPcs : pc' = [pc EXCEPT ![p] = label]
    BY <1>3 DEF PostStep, PostDecided, PostBegin, PostMark, PostConfig,
                PostIntegrity, PostKats, PostVerdict, HeldPcs, TestPcs
  <2>2. /\ UNCHANGED <<on_demand_test, ret>>
        /\ \A q \in Loaders \ {p} : tested'[q] = tested[q]
    BY <1>1, <1>3
    DEF PostStep, PostDecided, PostBegin, PostMark, PostConfig, PostIntegrity,
        PostKats, PostVerdict, TypeOK
  <2>3. OnDemandIsTested'
    BY <1>1, <2>1, <2>2 DEF OnDemandIsTested, TypeOK, HeldPcs, TestPcs
  <2>4. RunningIsTested'
    BY <1>1, <1>3
    DEF PostStep, PostDecided, PostBegin, PostMark, PostConfig, PostIntegrity,
        PostKats, PostVerdict, RunningIsTested
  <2> QED
    BY <2>3, <2>4
<1> QED
  BY <1>2, <1>3

\* SELFTEST lasts as long as the tests do.
LEMMA PostStepHeld ==
  ASSUME ProviderInv, NEW p \in Loaders, PostStep(p)
  PROVE  SelfTestIsHeld'
<1> USE DEF Threads, Goto, loader_vars, TestPcs
<1>1. TypeOK /\ LockIsHeld /\ DecidedAtUnlock /\ SelfTestIsHeld
  BY DEF ProviderInv
<1>2. pc[p] \in HeldPcs /\ self_test_lock = p
  BY <1>1
  DEF PostStep, PostDecided, PostBegin, PostMark, PostConfig, PostIntegrity,
      PostKats, PostVerdict, PostUnlock, HeldPcs, LockIsHeld
<1>3. CASE PostDecided(p)
  BY <1>3 DEF PostDecided, SelfTestIsHeld
<1>4. CASE PostBegin(p)
  BY <1>1, <1>2, <1>4 DEF PostBegin, SelfTestIsHeld, TypeOK
<1>5. CASE PostMark(p)
  BY <1>1, <1>2, <1>5 DEF PostMark, SelfTestIsHeld, TypeOK
<1>6. CASE PostConfig(p)
  BY <1>1, <1>2, <1>6 DEF PostConfig, SelfTestIsHeld, TypeOK
<1>7. CASE PostIntegrity(p)
  BY <1>1, <1>2, <1>7 DEF PostIntegrity, SelfTestIsHeld, TypeOK
<1>8. CASE PostKats(p)
  BY <1>1, <1>2, <1>8 DEF PostKats, SelfTestIsHeld, TypeOK
<1>9. CASE PostVerdict(p)
  BY <1>9 DEF PostVerdict, SelfTestIsHeld
<1>10. CASE PostUnlock(p)
  BY <1>1, <1>10 DEF PostUnlock, DecidedAtUnlock, SelfTestIsHeld
<1> QED
  BY <1>3, <1>4, <1>5, <1>6, <1>7, <1>8, <1>9, <1>10 DEF PostStep

\* A user stores nothing but ERROR, and touches no loader.
LEMMA UserStepKeeps ==
  ASSUME ProviderInv, NEW u \in Users, UserStep(u)
  PROVE  ProviderInv'
<1>1. /\ \E label \in UserPcs : pc' = [pc EXCEPT ![u] = label]
      /\ FIPS_state' \in {FIPS_state, "ERROR"}
      /\ UNCHANGED <<FIPS_conditional_error_check, self_test_lock, on_demand_test,
                     ok, ret, tested, loaded, last>>
  BY DEF UserStep, Gen, GenKey, GenAsk, GenTest, SetErrorState, GenReturn, Import,
         ImportKey, ImportAsk, ImportTest, ImportReset, Pairwise, UserGoto, Goto,
         UserPcs, loader_vars
<1>2. PICK label \in UserPcs : pc' = [pc EXCEPT ![u] = label]
  BY <1>1
<1>3. TypeOK
  BY DEF ProviderInv
<1>4. \A p \in Loaders : pc'[p] = pc[p]
  BY <1>2, <1>3, ProviderThreads DEF TypeOK, Threads
<1>5. TypeOK'
  <2>1. pc' \in [Threads -> LoaderPcs \cup UserPcs]
    BY <1>2, <1>3 DEF TypeOK
  <2>2. \A v \in Users : pc'[v] \in UserPcs
    BY <1>2, <1>3 DEF TypeOK, Threads
  <2> QED
    BY <1>1, <1>3, <1>4, <2>1, <2>2 DEF TypeOK, States
<1>6. LockIsHeld' /\ VerdictIsEarned' /\ DecidedAtUnlock'
  BY <1>1, <1>4 DEF ProviderInv, LockIsHeld, VerdictIsEarned, DecidedAtUnlock
<1>7. RunningIsTested' /\ OnDemandIsTested' /\ SelfTestIsHeld'
  BY <1>1, <1>4 DEF ProviderInv, RunningIsTested, OnDemandIsTested, SelfTestIsHeld
<1> QED
  BY <1>5, <1>6, <1>7 DEF ProviderInv

\* The invariant is inductive.
LEMMA ProviderNext == ProviderInv /\ [Next]_vars => ProviderInv'
<1> SUFFICES ASSUME ProviderInv, [Next]_vars PROVE ProviderInv'
  OBVIOUS
<1>1. ASSUME NEW p \in Loaders, Load(p) \/ SelfTest(p) PROVE ProviderInv'
  BY <1>1, PostKeeps
<1>2. ASSUME NEW p \in Loaders, PostLock(p) PROVE ProviderInv'
  BY <1>2, PostLockKeeps
<1>3. ASSUME NEW p \in Loaders, PostStep(p) PROVE ProviderInv'
  BY <1>3, PostStepType, PostStepLock, PostStepVerdict, PostStepTested,
     PostStepHeld DEF ProviderInv
<1>4. ASSUME NEW u \in Users, UserStep(u) PROVE ProviderInv'
  BY <1>4, UserStepKeeps
<1>5. CASE UNCHANGED vars
  BY <1>5
  DEF vars, loader_vars, ProviderInv, TypeOK, LockIsHeld, VerdictIsEarned,
      DecidedAtUnlock, RunningIsTested, OnDemandIsTested, SelfTestIsHeld
<1> QED
  BY <1>1, <1>2, <1>3, <1>4, <1>5 DEF Next

\* Every reachable state of the provider satisfies the invariant.
LEMMA ProviderInvariant == Spec => []ProviderInv
<1> QED
  BY ProviderInit, ProviderNext, PTL DEF Spec

\* The provider's state, its lock and its callers' variables keep their types,
\* and self_test_lock excludes.
THEOREM ProviderTypeCorrect == Spec => [](TypeOK /\ LockIsHeld)
<1>1. ProviderInv => TypeOK /\ LockIsHeld
  BY DEF ProviderInv
<1> QED
  BY <1>1, ProviderInvariant, PTL

\* FIPS_state is RUNNING only after a self-test that passed, whatever the
\* instances, the tests on demand and the failing pairwise tests.
THEOREM ProviderRunningIsTested == Spec => []RunningIsTested
<1>1. ProviderInv => RunningIsTested
  BY DEF ProviderInv
<1> QED
  BY <1>1, ProviderInvariant, PTL

\* SELF_TEST_post on demand returns 1 only if that very call ran every test.
THEOREM ProviderOnDemandIsTested == Spec => []OnDemandIsTested
<1>1. ProviderInv => OnDemandIsTested
  BY DEF ProviderInv
<1> QED
  BY <1>1, ProviderInvariant, PTL

\* Once loaded, the provider is in SELFTEST only under the lock of a running
\* test, so a key escapes the pairwise test only then.
THEOREM ProviderSelfTestIsHeld == Spec => []SelfTestIsHeld
<1>1. ProviderInv => SelfTestIsHeld
  BY DEF ProviderInv
<1> QED
  BY <1>1, ProviderInvariant, PTL

\* A step out of ERROR is one of the two stores of SELF_TEST_post: the mark, or
\* the verdict of tests that passed.
LEMMA ProviderLatch == ProviderInv /\ [Next]_vars => ProviderLatchStep
<1> SUFFICES ASSUME ProviderInv, [Next]_vars,
                    FIPS_state = "ERROR", FIPS_state' # "ERROR"
             PROVE  \E p \in Loaders : /\ self_test_lock = p
                                       /\ \/ pc[p] = "mark"
                                          \/ pc[p] = "verdict" /\ tested[p]
  BY DEF ProviderLatchStep
<1>1. PICK p \in Loaders : PostMark(p) \/ PostVerdict(p)
  BY DEF Next, Load, SelfTest, Post, PostLock, PostStep, PostDecided, PostBegin,
         PostConfig, PostIntegrity, PostKats, PostUnlock, UserStep, Gen, GenKey,
         GenAsk, GenTest, SetErrorState, GenReturn, Import, ImportKey, ImportAsk,
         ImportTest, ImportReset, Pairwise, vars
<1>2. self_test_lock = p
  BY <1>1 DEF ProviderInv, LockIsHeld, PostMark, PostVerdict, HeldPcs, TestPcs
<1>3. pc[p] = "mark" \/ (pc[p] = "verdict" /\ tested[p])
  BY <1>1 DEF ProviderInv, VerdictIsEarned, PostMark, PostVerdict
<1> QED
  BY <1>2, <1>3

\* ERROR is left only by the thread that has the lock, at one of those two
\* stores.
THEOREM ProviderLatchIsHeld == Spec => ProviderLatchHolds
<1>1. ProviderInv /\ [Next]_vars => [ProviderLatchStep]_vars
  BY ProviderLatch
<1> QED
  BY <1>1, ProviderInvariant, PTL DEF Spec, ProviderLatchHolds, ProviderLatchStep
=============================================================================
