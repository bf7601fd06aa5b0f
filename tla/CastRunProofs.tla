---------------------------- MODULE CastRunProofs ----------------------------
(***************************************************************************)
(* Theorems about CastRun, for any applications, faults and sequence of    *)
(* CASTs.                                                                  *)
(***************************************************************************)
EXTENDS CastRun, TLAPS

CastOnlyPcs == {"c_mark", "c_keypair", "c_ask", "c_ctx", "c_pct", "c_ask2", "c_ctx2",
                "c_pct2", "c_store", "c_return"}
PostOnlyPcs == {"o_seed", "o_kat", "o_mark", "o_store", "o_fail"}

\* Where a thread can be in each of its calls.
Control ==
    /\ \A a \in Apps :
           \/ op[a] = "none" /\ pc[a] = "idle"
           \/ op[a] = "init" /\ pc[a] \in NewPcs
           \/ op[a] = "casts" /\ pc[a] \in NewPcs \cup CastOnlyPcs
    /\ \/ op[Officer] = "none" /\ pc[Officer] = "idle"
       \/ op[Officer] = "post" /\ pc[Officer] \in NewPcs \cup PostOnlyPcs

\* A family counts as initialised only with its table filled, and the officer
\* has been through the families of the CASTs before the one it is at.
Dispatched ==
    /\ \A f \in Families : g_init_state[f] = 2 => dispatch[f]
    /\ \A t \in Threads : pc[t] \in {"n_test", "n_report"} => dispatch[Fam(t)]
    /\ pc[Officer] \in NewPcs \cup {"o_seed", "o_kat"} =>
           \A c \in Casts : c < at[Officer] => dispatch[CastFamily[c]]
    /\ pc[Officer] = "o_kat" => dispatch[Fam(Officer)]
    /\ pc[Officer] \in {"o_mark", "o_store"} => \A f \in Families : dispatch[f]

\* SELFTEST without a self-test is the state that the module is loaded with: the
\* first self-test ends it for good.
LoadedOnly ==
    /\ SelfTesting /\ ~Testing => ~begun
    /\ Testing => begun

\* A CAST that has not come to its second pairwise test has no good verdict.
GoodIsEarned ==
    \A a \in Apps :
        pc[a] \in NewPcs \cup {"idle", "c_mark", "c_keypair", "c_return"} => ~good[a]

\* A clean run is the only one, and its result so far is what the table says of
\* the CASTs before the one it is at.
CleanRun ==
    \A a \in Apps : clean[a] =>
        /\ op[a] = "casts"
        /\ ~Testing
        /\ \A b \in Apps \ {a} : op[b] # "casts"
        /\ pc[a] # "c_return" =>
               (ok[a] <=> \A c \in Casts : c < at[a] => g_cast_status[c] = "SUCCESS")

CastInv ==
    /\ TypeOK
    /\ Control
    /\ Dispatched
    /\ LoadedOnly
    /\ GoodIsEarned
    /\ CleanRun
    /\ RunningIsDispatched
    /\ NoStaleProcessing
    /\ VerdictMatchesTable
    /\ SuccessMeansTested

\* The steps of a handle, of a CAST, of an application's calls and of the officer.
NewStep(t) ==
    \/ NewGate(t) \/ NewLoad(t) \/ NewDecided(t) \/ NewFill(t)
    \/ NewFails(t) \/ NewReports(t) \/ NewReady(t)

CastStep(a) ==
    \/ CastMark(a) \/ CastKeypair(a) \/ CastAsk(a) \/ CastContext(a)
    \/ PctPasses(a) \/ PctFails(a) \/ CastStore(a) \/ CastReturn(a)

CallStep(a) ==
    \/ RunCall(a) \/ WrapperInit(a) \/ WrapperCleanup(a)
    \/ RandSeed(a) \/ RandUnhealthy(a) \/ RandCleanup(a)

OfficerStep == PostCall \/ Fini \/ PostSeed \/ PostKat \/ PostMark \/ PostVerdict

-----------------------------------------------------------------------------
\* The CASTs are numbered from 1, and every family has one.
LEMMA CastFacts ==
  /\ Len(CastFamily) \in Nat \ {0}
  /\ 1 \in Casts /\ Len(CastFamily) \in Casts /\ Casts \subseteq Nat
  /\ \A c \in Casts : 1 <= c /\ c <= Len(CastFamily) /\ CastFamily[c] \in Families
  /\ \A c \in Casts : c # Len(CastFamily) => c + 1 \in Casts
  /\ \A f \in Families : \E c \in Casts : f = CastFamily[c]
<1>1. CastFamily \in Seq(Families) /\ CastFamily # << >>
  BY CastSequence
<1>2. Len(CastFamily) \in Nat \ {0}
  BY <1>1
<1> QED
  BY <1>2 DEF Casts, Families

\* Every step is a step of one of these kinds.
LEMMA StepKinds ==
  ASSUME Step
  PROVE  \/ \E t \in Threads : NewStep(t)
         \/ \E a \in Apps : CastStep(a)
         \/ \E a \in Apps : CallStep(a)
         \/ OfficerStep
  BY CastThreads
  DEF Step, Progress, NewStep, CastStep, CallStep, OfficerStep, Threads

\* What making a handle does to the thread that makes it: it goes on inside,
\* returns from a wrapper's init, or comes back to its CAST or its test.
LEMMA NewStepFacts ==
  ASSUME TypeOK, Control, NEW t \in Threads, NewStep(t)
  PROVE  /\ UNCHANGED <<g_module_state, g_fips_rand_ready, g_cast_status, good, ok>>
         /\ pc[t] \in NewPcs
         /\ \/ /\ \E label \in NewPcs \ {"n_gate"} : pc' = [pc EXCEPT ![t] = label]
               /\ op' = op /\ at' = at
            \/ /\ t \in Apps /\ op[t] = "init"
               /\ pc' = [pc EXCEPT ![t] = "idle"]
               /\ op' = [op EXCEPT ![t] = "none"]
               /\ at' = [at EXCEPT ![t] = 1]
            \/ /\ t \in Apps /\ op[t] = "casts"
               /\ \E label \in {"c_keypair", "c_store"} : pc' = [pc EXCEPT ![t] = label]
               /\ op' = op /\ at' = at
            \/ /\ t = Officer
               /\ \E label \in {"o_kat", "o_fail"} : pc' = [pc EXCEPT ![t] = label]
               /\ op' = op /\ at' = at
<1> DEFINE Moves(label) == pc' = [pc EXCEPT ![t] = label] /\ op' = op /\ at' = at
<1>1. pc[t] \in NewPcs
  BY DEF NewStep, NewGate, NewLoad, NewDecided, NewFill, NewFails, NewReports,
         NewReady, NewPcs
<1>2. \/ t \in Apps /\ op[t] \in {"init", "casts"}
      \/ t = Officer /\ op[t] = "post"
  BY <1>1 DEF Control, Threads, NewPcs
<1>3. \/ \E label \in NewPcs \ {"n_gate"} : Stay(t, label)
      \/ \E made \in BOOLEAN : AfterNew(t, made)
  BY DEF NewStep, NewGate, NewLoad, NewDecided, NewFill, NewFails, NewReports,
         NewReady, NewPcs
<1>4. CASE \E label \in NewPcs \ {"n_gate"} : Stay(t, label)
  BY <1>1, <1>4 DEF Stay, Goto, module_vars, run_vars
<1>5. CASE \E made \in BOOLEAN : AfterNew(t, made)
  <2>1. PICK made \in BOOLEAN : AfterNew(t, made)
    BY <1>5
  <2>2. UNCHANGED <<g_module_state, g_fips_rand_ready, g_cast_status, good, ok>>
    BY <2>1 DEF AfterNew, module_vars
  <2>3. CASE op[t] = "init"
    BY <1>1, <1>2, <2>1, <2>2, <2>3, CastThreads DEF AfterNew, Goto
  <2>4. CASE op[t] # "init"
    <3>1. op' = op /\ at' = at
      BY <2>1, <2>4 DEF AfterNew, TypeOK
    <3>2. CASE op[t] = "casts"
      BY <1>1, <1>2, <2>1, <2>2, <3>1, <3>2 DEF AfterNew, Goto
    <3>3. CASE op[t] # "casts"
      BY <1>1, <1>2, <2>1, <2>2, <2>4, <3>1, <3>3 DEF AfterNew, Goto
    <3> QED
      BY <3>2, <3>3
  <2> QED
    BY <2>3, <2>4
<1> QED
  BY <1>3, <1>4, <1>5

\* What it does to the dispatch of the families.
LEMMA NewStepDispatch ==
  ASSUME TypeOK, Control, Dispatched, NEW t \in Threads, NewStep(t)
  PROVE  /\ g_init_state' \in [Families -> {0, 2}]
         /\ g_init_lock' \in [Families -> Threads \cup {Nobody}]
         /\ dispatch' \in [Families -> BOOLEAN]
         /\ \A f \in Families : dispatch[f] => dispatch'[f]
         /\ \A f \in Families : g_init_state'[f] = 2 => dispatch'[f]
         /\ pc'[t] \in {"n_test", "n_report", "o_kat"} => dispatch'[Fam(t)]
<1> USE DEF TypeOK, init_vars
<1>1. Fam(t) \in Families
  BY CastFacts DEF Fam
<1>2. pc[t] \in NewPcs
  BY NewStepFacts
<1>3. CASE NewGate(t)
  <2>1. pc'[t] \notin {"n_test", "n_report", "o_kat"}
    BY <1>3, <1>2 DEF NewGate, AfterNew, Stay, Goto, Control, Threads, NewPcs
  <2> QED
    BY <1>3, <2>1 DEF NewGate, Dispatched
<1>4. CASE NewLoad(t)
  <2>1. pc'[t] \in {"n_test", "n_report", "o_kat"} => g_init_state[Fam(t)] = 2
    BY <1>4 DEF NewLoad, Stay, Goto
  <2> QED
    BY <1>1, <1>4, <2>1 DEF NewLoad, Dispatched
<1>5. CASE NewDecided(t)
  BY <1>1, <1>5 DEF NewDecided, Dispatched
<1>6. CASE NewFill(t)
  BY <1>1, <1>6 DEF NewFill, Dispatched
<1>7. CASE NewFails(t)
  BY <1>1, <1>7 DEF NewFails, Dispatched
<1>8. CASE NewReports(t)
  BY <1>1, <1>8 DEF NewReports, Dispatched
<1>9. CASE NewReady(t)
  BY <1>1, <1>9 DEF NewReady, Dispatched
<1> QED
  BY <1>3, <1>4, <1>5, <1>6, <1>7, <1>8, <1>9 DEF NewStep

\* The history variables stay Boolean.
LEMMA ObserveType ==
  ASSUME Observe
  PROVE  /\ warranted' \in [Apps -> BOOLEAN] /\ clean' \in [Apps -> BOOLEAN]
         /\ begun' \in BOOLEAN
<1>1. warranted' \in [Apps -> BOOLEAN]
  BY Zenon DEF Observe
<1>2. clean' \in [Apps -> BOOLEAN]
  BY Zenon DEF Observe
<1>3. begun' \in BOOLEAN
  BY Zenon DEF Observe
<1> QED
  BY <1>1, <1>2, <1>3

\* A verdict that was earned, or was given before the first self-test, stays so:
\* the self-test that begins meanwhile warrants it.
LEMMA EarnedStays ==
  ASSUME Observe, NEW a \in Apps, op'[a] = "casts", pc'[a] = "c_store",
         \/ warranted[a] \/ ~begun \/ Testing'
         \/ pc[a] \in {"c_pct", "c_pct2"}
  PROVE  warranted'[a] \/ ~begun'
<1>1. begun' => begun \/ Testing'
  BY Zenon DEF Observe
<1>2. \/ warranted[a] \/ Testing' \/ (pc[a] \in {"c_pct", "c_pct2"} /\ pc'[a] # pc[a])
      => warranted'[a]
  BY DEF Observe
<1> QED
  BY <1>1, <1>2

\* A step that stores nothing but ERROR in the state, and neither begins nor ends
\* a self-test, does not bring the loaded state back.
LEMMA LoadedStays ==
  ASSUME LoadedOnly, Observe, g_module_state' \in {g_module_state, "ERROR"},
         Testing' <=> Testing
  PROVE  LoadedOnly'
<1>1. begun' <=> begun \/ Testing'
  BY Zenon DEF Observe
<1>2. SelfTesting' => SelfTesting
  BY DEF SelfTesting
<1> QED
  BY <1>1, <1>2 DEF LoadedOnly

\* A freshly loaded module satisfies the invariant.
LEMMA CastInit == Init => CastInv
<1> SUFFICES ASSUME Init PROVE CastInv
  OBVIOUS
<1> USE CastFacts, CastThreads DEF Init, Threads, NewPcs
<1>1. TypeOK
  BY DEF TypeOK, Pcs
<1>2. Control
  BY DEF Control
<1>3. Dispatched
  BY DEF Dispatched
<1>4. LoadedOnly /\ GoodIsEarned
  BY DEF LoadedOnly, GoodIsEarned, Testing
<1>5. CleanRun /\ VerdictMatchesTable /\ SuccessMeansTested
  BY DEF CleanRun, VerdictMatchesTable, SuccessMeansTested
<1>6. RunningIsDispatched /\ NoStaleProcessing
  BY DEF RunningIsDispatched, NoStaleProcessing
<1> QED
  BY <1>1, <1>2, <1>3, <1>4, <1>5, <1>6 DEF CastInv
-----------------------------------------------------------------------------
\* Making a handle keeps the invariant.
LEMMA NewStepKeeps ==
  ASSUME CastInv, NEW t \in Threads, NewStep(t), Observe
  PROVE  CastInv'
<1>1. TypeOK /\ Control /\ Dispatched
  BY DEF CastInv
<1> USE DEF Threads, NewPcs
<1>2. /\ UNCHANGED <<g_module_state, g_fips_rand_ready, g_cast_status, good, ok>>
      /\ pc[t] \in NewPcs
  BY <1>1, NewStepFacts
<1>3. PICK label \in NewPcs \cup {"idle", "c_keypair", "c_store", "o_kat", "o_fail"} :
        /\ pc' = [pc EXCEPT ![t] = label]
        /\ label \in NewPcs => label # "n_gate" /\ op' = op /\ at' = at
        /\ label = "idle" => /\ t \in Apps /\ op[t] = "init"
                             /\ op' = [op EXCEPT ![t] = "none"]
                             /\ at' = [at EXCEPT ![t] = 1]
        /\ label \in {"c_keypair", "c_store"} =>
               t \in Apps /\ op[t] = "casts" /\ op' = op /\ at' = at
        /\ label \in {"o_kat", "o_fail"} => t = Officer /\ op' = op /\ at' = at
  <2> HIDE DEF NewPcs
  <2> QED
    BY <1>1, NewStepFacts DEF NewPcs
<1>4. /\ pc'[t] = label
      /\ \A s \in Threads \ {t} : pc'[s] = pc[s] /\ op'[s] = op[s] /\ at'[s] = at[s]
  BY <1>1, <1>3 DEF TypeOK
<1>5. op[t] # "casts" => op'[t] # "casts"
  BY <1>1, <1>3 DEF TypeOK
<1>6. label # "idle" => op' = op /\ at' = at
  BY <1>3
<1>7. TypeOK'
  <2>1. pc' \in [Threads -> Pcs]
    BY <1>1, <1>3 DEF TypeOK, Pcs
  <2>2. op' \in [Threads -> {"none", "casts", "init", "post"}] /\ at' \in [Threads -> Casts]
    <3>1. CASE label = "idle"
      <4>1. op' = [op EXCEPT ![t] = "none"] /\ at' = [at EXCEPT ![t] = 1]
        BY <1>3, <3>1
      <4>2. 1 \in Casts
        BY CastFacts
      <4> QED
        BY <1>1, <4>1, <4>2 DEF TypeOK
    <3>2. CASE label # "idle"
      BY <1>1, <1>6, <3>2 DEF TypeOK
    <3> QED
      BY <3>1, <3>2
  <2> QED
    BY <1>1, <1>2, <2>1, <2>2, NewStepDispatch, ObserveType DEF TypeOK
<1>8. Control'
  BY <1>1, <1>2, <1>3, <1>4, CastThreads DEF Control, TypeOK, CastOnlyPcs, PostOnlyPcs
<1>9. Testing' <=> Testing
  BY <1>1, <1>3, <1>4, CastThreads DEF Testing, TypeOK
<1>10. Dispatched'
  <2>1. /\ \A f \in Families : dispatch[f] => dispatch'[f]
        /\ \A f \in Families : g_init_state'[f] = 2 => dispatch'[f]
        /\ pc'[t] \in {"n_test", "n_report", "o_kat"} => dispatch'[Fam(t)]
    BY <1>1, NewStepDispatch
  <2>2. \A s \in Threads : Fam(s) \in Families
    BY <1>1, CastFacts DEF Fam, TypeOK
  <2>3. \A s \in Threads : pc'[s] \in {"n_test", "n_report"} => dispatch'[Fam(s)']
    BY <1>1, <1>4, <1>6, <2>1, <2>2 DEF Dispatched, Fam
  <2>4. pc'[Officer] \in NewPcs \cup {"o_seed", "o_kat"} =>
            pc[Officer] \in NewPcs \cup {"o_seed", "o_kat"}
    BY <1>2, <1>4
  <2>5. at'[Officer] = at[Officer]
    BY <1>3, <1>4, CastThreads
  <2>6. pc'[Officer] \in NewPcs \cup {"o_seed", "o_kat"} =>
            \A c \in Casts : c < at'[Officer] => dispatch'[CastFamily[c]]
    BY <1>1, <2>1, <2>4, <2>5, CastFacts DEF Dispatched
  <2>7. pc'[Officer] = "o_kat" => dispatch'[Fam(Officer)']
    BY <1>1, <1>4, <2>1, <2>2, <2>5 DEF Dispatched, Fam
  <2>8. pc'[Officer] \in {"o_mark", "o_store"} => \A f \in Families : dispatch'[f]
    BY <1>1, <1>3, <1>4, <2>1 DEF Dispatched
  <2> QED
    BY <2>1, <2>3, <2>6, <2>7, <2>8 DEF Dispatched
<1>11. LoadedOnly' /\ GoodIsEarned'
  <2>1. LoadedOnly'
    BY <1>2, <1>9, LoadedStays DEF CastInv
  <2> QED
    BY <1>2, <1>3, <1>4, <2>1 DEF CastInv, GoodIsEarned
<1>12. RunningIsDispatched'
  BY <1>1, <1>2, NewStepDispatch DEF CastInv, RunningIsDispatched
<1>13. NoStaleProcessing'
  BY <1>1, <1>2, <1>3, <1>4, CastThreads DEF CastInv, NoStaleProcessing, TypeOK
<1>14. \A a \in Apps : clean'[a] => clean[a] /\ op[a] = "casts"
  BY <1>4, <1>5 DEF Observe, CastInv, CleanRun
<1>15. CleanRun'
  <2> SUFFICES ASSUME NEW a \in Apps, clean'[a]
               PROVE  /\ op'[a] = "casts"
                      /\ ~Testing'
                      /\ \A b \in Apps \ {a} : op'[b] # "casts"
                      /\ pc'[a] # "c_return" =>
                             (ok'[a] <=> \A c \in Casts : c < at'[a] =>
                                                         g_cast_status'[c] = "SUCCESS")
    BY DEF CleanRun
  <2>1. clean[a] /\ op[a] = "casts"
    BY <1>14
  <2>2. op'[a] = "casts" /\ ~Testing' /\ \A b \in Apps \ {a} : op'[b] # "casts"
    BY DEF Observe
  <2>3. at'[a] = at[a] /\ (pc'[a] # "c_return" => pc[a] # "c_return")
    BY <1>2, <1>3, <1>4, <2>1
  <2> QED
    BY <1>2, <2>1, <2>2, <2>3 DEF CastInv, CleanRun
<1>16. VerdictMatchesTable'
  BY <1>2, <1>3, <1>4, <1>14 DEF CastInv, VerdictMatchesTable
<1>17. SuccessMeansTested'
  <2> SUFFICES ASSUME NEW a \in Apps, pc'[a] = "c_store", good'[a]
               PROVE  warranted'[a] \/ ~begun'
    BY DEF SuccessMeansTested
  <2>1. a # t
    BY <1>2, <1>4 DEF CastInv, GoodIsEarned
  <2>2. op'[a] = "casts" /\ (warranted[a] \/ ~begun)
    BY <1>1, <1>2, <1>4, <2>1 DEF CastInv, Control, SuccessMeansTested
  <2> QED
    BY <2>2, EarnedStays
<1> QED
  BY <1>7, <1>8, <1>10, <1>11, <1>12, <1>13, <1>15, <1>16, <1>17 DEF CastInv
-----------------------------------------------------------------------------
\* What a step of qudo_pqc_run_all_casts outside of the handle leaves alone.
LEMMA CastStepFacts ==
  ASSUME TypeOK, Control, NEW a \in Apps, CastStep(a)
  PROVE  /\ op[a] = "casts" /\ pc[a] \in CastOnlyPcs
         /\ UNCHANGED <<g_fips_rand_ready, g_init_state, g_init_lock, dispatch>>
         /\ g_module_state' \in {g_module_state, "ERROR"}
         /\ \E label \in CastOnlyPcs \cup {"n_gate", "idle"} :
                /\ pc' = [pc EXCEPT ![a] = label]
                /\ op' = [op EXCEPT ![a] = IF label = "idle" THEN "none" ELSE "casts"]
                /\ label = "n_gate" => pc[a] = "c_mark"
         /\ \E c \in Casts : at' = [at EXCEPT ![a] = c]
         /\ \E b \in BOOLEAN : good' = [good EXCEPT ![a] = b]
         /\ \E b \in BOOLEAN : ok' = [ok EXCEPT ![a] = b]
         /\ \/ g_cast_status' = g_cast_status
            \/ \E st \in {"PROCESSING", "SUCCESS", "FAILURE"} :
                   g_cast_status' = [g_cast_status EXCEPT ![at[a]] = st]
<1> USE DEF Goto, module_vars, init_vars, run_vars, CastOnlyPcs
<1>1. pc[a] \in CastOnlyPcs
  BY DEF CastStep, CastMark, CastKeypair, CastAsk, CastContext, PctPasses, PctFails,
         CastStore, CastReturn
<1>2. op[a] = "casts" /\ a \in Threads
  BY <1>1 DEF Control, NewPcs, Threads
<1>3. /\ op = [op EXCEPT ![a] = "casts"]
      /\ at = [at EXCEPT ![a] = at[a]] /\ at[a] \in Casts
      /\ good = [good EXCEPT ![a] = good[a]] /\ good[a] \in BOOLEAN
      /\ ok = [ok EXCEPT ![a] = ok[a]] /\ ok[a] \in BOOLEAN
  BY <1>2 DEF TypeOK
<1> DEFINE
      Rest == UNCHANGED <<g_fips_rand_ready, g_init_state, g_init_lock, dispatch>>
      Move == \E label \in CastOnlyPcs \cup {"n_gate", "idle"} :
                /\ pc' = [pc EXCEPT ![a] = label]
                /\ op' = [op EXCEPT ![a] = IF label = "idle" THEN "none" ELSE "casts"]
                /\ label = "n_gate" => pc[a] = "c_mark"
      At == \E c \in Casts : at' = [at EXCEPT ![a] = c]
      Good == \E b \in BOOLEAN : good' = [good EXCEPT ![a] = b]
      Ok == \E b \in BOOLEAN : ok' = [ok EXCEPT ![a] = b]
      Table == \/ g_cast_status' = g_cast_status
               \/ \E st \in {"PROCESSING", "SUCCESS", "FAILURE"} :
                      g_cast_status' = [g_cast_status EXCEPT ![at[a]] = st]
<1> USE DEF CastStep, CastMark, CastKeypair, CastAsk, CastContext, PctPasses, PctFails,
            CastStore, NextCast, CastReturn
<1>4. Rest /\ g_module_state' \in {g_module_state, "ERROR"}
  OBVIOUS
<1>5. Move
  <2>1. CASE CastReturn(a)
    BY <2>1
  <2>2. CASE ~CastReturn(a)
    <3>1. op' = op
      BY <2>2
    <3>2. \E label \in CastOnlyPcs \cup {"n_gate"} :
             pc' = [pc EXCEPT ![a] = label] /\ (label = "n_gate" => pc[a] = "c_mark")
      BY <2>2
    <3> QED
      BY <1>3, <3>1, <3>2
  <2> QED
    BY <2>1, <2>2
<1>6. At
  <2>1. CASE CastStore(a)
    BY <1>3, <2>1, CastFacts
  <2>2. CASE ~CastStore(a)
    <3>1. at' = at
      BY <2>2
    <3> QED
      BY <1>3, <3>1
  <2> QED
    BY <2>1, <2>2
<1>7. Good
  <2>1. \/ good' = good
        \/ good' = [good EXCEPT ![a] = SelfTesting]
        \/ good' = [good EXCEPT ![a] = (pc[a] = "c_pct2")]
        \/ good' = [good EXCEPT ![a] = FALSE]
    OBVIOUS
  <2>2. SelfTesting \in BOOLEAN /\ (pc[a] = "c_pct2") \in BOOLEAN
    BY DEF SelfTesting
  <2> QED
    BY <1>3, <2>1, <2>2
<1>8. Ok
  <2>1. \/ ok' = ok
        \/ ok' = [ok EXCEPT ![a] = ok[a] /\ good[a]]
        \/ ok' = [ok EXCEPT ![a] = FALSE]
    OBVIOUS
  <2>2. (ok[a] /\ good[a]) \in BOOLEAN
    BY <1>3
  <2> QED
    BY <1>3, <2>1, <2>2
<1>9. Table
  OBVIOUS
<1> QED
  BY <1>1, <1>2, <1>4, <1>5, <1>6, <1>7, <1>8, <1>9
\* Steps of one run: every other thread keeps its place, and nobody enters or
\* leaves a test.
LEMMA CastStepOthers ==
  ASSUME TypeOK, Control, NEW a \in Apps, CastStep(a)
  PROVE  /\ \A s \in Threads \ {a} : pc'[s] = pc[s] /\ op'[s] = op[s] /\ at'[s] = at[s]
         /\ \A b \in Apps \ {a} : good'[b] = good[b] /\ ok'[b] = ok[b]
         /\ Testing' <=> Testing
<1>1. PICK label \in CastOnlyPcs \cup {"n_gate", "idle"} :
         /\ pc' = [pc EXCEPT ![a] = label]
         /\ op' = [op EXCEPT ![a] = IF label = "idle" THEN "none" ELSE "casts"]
  BY CastStepFacts
<1>2. PICK c \in Casts : at' = [at EXCEPT ![a] = c]
  BY CastStepFacts
<1>3. \A s \in Threads \ {a} : pc'[s] = pc[s] /\ op'[s] = op[s] /\ at'[s] = at[s]
  BY <1>1, <1>2 DEF TypeOK
<1>4. PICK g \in BOOLEAN : good' = [good EXCEPT ![a] = g]
  BY CastStepFacts
<1>5. PICK k \in BOOLEAN : ok' = [ok EXCEPT ![a] = k]
  BY CastStepFacts
<1>6. \A b \in Apps \ {a} : good'[b] = good[b] /\ ok'[b] = ok[b]
  BY <1>4, <1>5 DEF TypeOK
<1>7. Testing' <=> Testing
  BY <1>3, CastThreads DEF Testing, Threads
<1> QED
  BY <1>3, <1>6, <1>7

\* ... keep the types and the control of every thread,
LEMMA CastStepControl ==
  ASSUME CastInv, NEW a \in Apps, CastStep(a), Observe
  PROVE  TypeOK' /\ Control' /\ Dispatched' /\ RunningIsDispatched'
<1>1. TypeOK /\ Control /\ Dispatched
  BY DEF CastInv
<1>2. PICK label \in CastOnlyPcs \cup {"n_gate", "idle"} :
         /\ pc' = [pc EXCEPT ![a] = label]
         /\ op' = [op EXCEPT ![a] = IF label = "idle" THEN "none" ELSE "casts"]
  BY <1>1, CastStepFacts
<1>3. PICK c \in Casts : at' = [at EXCEPT ![a] = c]
  BY <1>1, CastStepFacts
<1>4. PICK g \in BOOLEAN : good' = [good EXCEPT ![a] = g]
  BY <1>1, CastStepFacts
<1>5. PICK k \in BOOLEAN : ok' = [ok EXCEPT ![a] = k]
  BY <1>1, CastStepFacts
<1>6. /\ UNCHANGED <<g_fips_rand_ready, g_init_state, g_init_lock, dispatch>>
      /\ g_module_state' \in {g_module_state, "ERROR"}
  BY <1>1, CastStepFacts
<1>7. TypeOK'
  <2>1. pc' \in [Threads -> Pcs] /\ op' \in [Threads -> {"none", "casts", "init", "post"}]
    BY <1>1, <1>2 DEF TypeOK, Pcs, NewPcs, CastOnlyPcs
  <2>2. at' \in [Threads -> Casts]
    BY <1>1, <1>3 DEF TypeOK
  <2>3. good' \in [Apps -> BOOLEAN] /\ ok' \in [Apps -> BOOLEAN]
    BY <1>1, <1>4, <1>5 DEF TypeOK
  <2>4. g_cast_status' \in [Casts -> {"INIT", "PROCESSING", "SUCCESS", "FAILURE"}]
    BY <1>1, CastStepFacts DEF TypeOK
  <2> QED
    BY <1>1, <1>6, <2>1, <2>2, <2>3, <2>4, ObserveType DEF TypeOK
<1>8. Control'
  BY <1>1, <1>2, CastThreads
  DEF Control, TypeOK, CastOnlyPcs, NewPcs, Threads
<1>9. Dispatched'
  <2>1. \A s \in Threads \ {a} : pc'[s] = pc[s] /\ at'[s] = at[s]
    BY <1>1, CastStepOthers
  <2>2. pc'[a] \notin {"n_test", "n_report"}
    BY <1>1, <1>2 DEF TypeOK, CastOnlyPcs, Threads
  <2> QED
    BY <1>1, <1>6, <2>1, <2>2, CastThreads DEF Dispatched, Fam, Threads
<1>10. RunningIsDispatched'
  BY <1>6 DEF CastInv, RunningIsDispatched
<1> QED
  BY <1>7, <1>8, <1>9, <1>10

\* ... pass a CAST only for a reason,
LEMMA CastStepTested ==
  ASSUME CastInv, NEW a \in Apps, CastStep(a), Observe
  PROVE  LoadedOnly' /\ GoodIsEarned' /\ SuccessMeansTested'
<1> USE DEF Goto, module_vars, init_vars, run_vars
<1>1. TypeOK /\ Control /\ LoadedOnly /\ GoodIsEarned /\ SuccessMeansTested
  BY DEF CastInv
<1>2. /\ \A b \in Apps \ {a} : /\ pc'[b] = pc[b] /\ op'[b] = op[b]
                               /\ good'[b] = good[b]
      /\ Testing' <=> Testing
      /\ g_fips_rand_ready' = g_fips_rand_ready
      /\ g_module_state' \in {g_module_state, "ERROR"}
  BY <1>1, CastStepOthers, CastStepFacts DEF Threads
<1>3. LoadedOnly'
  BY <1>1, <1>2, LoadedStays
<1>4. pc'[a] \in NewPcs \cup {"idle", "c_mark", "c_keypair", "c_return"} => ~good'[a]
  BY <1>1
  DEF CastStep, CastMark, CastKeypair, CastAsk, CastContext, PctPasses, PctFails,
      CastStore, NextCast, CastReturn, TypeOK, Threads, NewPcs, GoodIsEarned
<1>5. GoodIsEarned'
  BY <1>1, <1>2, <1>4 DEF GoodIsEarned
<1>6. ASSUME pc'[a] = "c_store", good'[a]
      PROVE  Testing \/ ~begun \/ pc[a] \in {"c_pct", "c_pct2"}
  <2>1. CASE CastKeypair(a)
    BY <1>1, <1>6, <2>1 DEF CastKeypair, GoodIsEarned
  <2>2. CASE CastAsk(a)
    BY <1>1, <1>6, <2>2 DEF CastAsk, TypeOK, Threads, LoadedOnly
  <2>3. CASE ~CastKeypair(a) /\ ~CastAsk(a)
    BY <1>1, <1>6, <2>3
    DEF CastStep, CastMark, CastContext, PctPasses, PctFails, CastStore, NextCast,
        CastReturn, TypeOK, Threads
  <2> QED
    BY <2>1, <2>2, <2>3
<1>7. SuccessMeansTested'
  <2> SUFFICES ASSUME NEW b \in Apps, pc'[b] = "c_store", good'[b]
               PROVE  warranted'[b] \/ ~begun'
    BY DEF SuccessMeansTested
  <2>1. op'[b] = "casts"
    BY CastStepControl DEF Control, NewPcs
  <2>2. CASE b = a
    BY <1>2, <1>6, <2>1, <2>2, EarnedStays
  <2>3. CASE b # a
    BY <1>1, <1>2, <2>1, <2>3, EarnedStays DEF SuccessMeansTested
  <2> QED
    BY <2>2, <2>3
<1> QED
  BY <1>3, <1>5, <1>7

\* ... and leave the table as the run says.
LEMMA CastStepTable ==
  ASSUME CastInv, NEW a \in Apps, CastStep(a), Observe
  PROVE  NoStaleProcessing' /\ CleanRun' /\ VerdictMatchesTable'
<1> USE DEF Goto, module_vars, init_vars, run_vars
<1>1. TypeOK /\ Control /\ CleanRun
  BY DEF CastInv
<1>2. /\ \A b \in Apps \ {a} : /\ pc'[b] = pc[b] /\ op'[b] = op[b] /\ at'[b] = at[b]
                               /\ ok'[b] = ok[b]
      /\ op[a] = "casts" /\ pc[a] \in CastOnlyPcs
  BY <1>1, CastStepOthers, CastStepFacts DEF Threads
<1>3. at[a] \in Casts /\ a \in Threads
  BY <1>1 DEF TypeOK, Threads
<1>4. NoStaleProcessing'
  <2> SUFFICES ASSUME NEW c \in Casts, g_cast_status'[c] = "PROCESSING"
               PROVE  \E b \in Apps : /\ op'[b] = "casts" /\ at'[b] = c
                                      /\ pc'[b] \notin {"c_mark", "c_return"}
    BY DEF NoStaleProcessing
  <2>1. CASE CastMark(a)
    <3>1. op'[a] = "casts" /\ at'[a] = at[a] /\ pc'[a] = "n_gate"
      BY <1>1, <1>2, <1>3, <2>1 DEF CastMark, TypeOK
    <3>2. c # at[a] => g_cast_status[c] = "PROCESSING"
      BY <1>1, <2>1 DEF CastMark, TypeOK
    <3>3. CASE c = at[a]
      BY <3>1, <3>3
    <3>4. CASE c # at[a]
      BY <1>2, <3>2, <3>4 DEF CastInv, NoStaleProcessing
    <3> QED
      BY <3>3, <3>4
  <2>2. CASE CastStore(a)
    <3>1. c # at[a] /\ g_cast_status[c] = "PROCESSING"
      BY <1>1, <1>3, <2>2 DEF CastStore, TypeOK
    <3> QED
      BY <1>2, <3>1 DEF CastInv, NoStaleProcessing
  <2>3. CASE CastReturn(a)
    <3>1. g_cast_status[c] = "PROCESSING" /\ pc[a] = "c_return"
      BY <2>3 DEF CastReturn
    <3> QED
      BY <1>2, <3>1 DEF CastInv, NoStaleProcessing
  <2>4. CASE ~CastMark(a) /\ ~CastStore(a) /\ ~CastReturn(a)
    <3>1. /\ g_cast_status' = g_cast_status
          /\ op' = op /\ at' = at
          /\ pc'[a] \notin {"c_mark", "c_return"}
      BY <1>1, <1>3, <2>4
      DEF CastStep, CastKeypair, CastAsk, CastContext, PctPasses, PctFails, TypeOK
    <3> QED
      BY <1>2, <3>1 DEF CastInv, NoStaleProcessing
  <2> QED
    BY <2>1, <2>2, <2>3, <2>4
<1>5. \A b \in Apps \ {a} : ~clean'[b]
  BY <1>1, <1>2 DEF Observe, CleanRun
<1>6. clean'[a] => /\ clean[a]
                   /\ op'[a] = "casts" /\ ~Testing'
                   /\ \A b \in Apps \ {a} : op'[b] # "casts"
  BY <1>2 DEF Observe
<1>7. ASSUME clean'[a]
      PROVE  /\ pc'[a] # "c_return" =>
                   (ok'[a] <=> \A c \in Casts : c < at'[a] =>
                                               g_cast_status'[c] = "SUCCESS")
             /\ pc'[a] = "c_return" =>
                   (ok'[a] <=> \A c \in Casts : g_cast_status'[c] = "SUCCESS")
  <2>1. clean[a]
    BY <1>6, <1>7
  <2>2. pc[a] # "c_return" =>
          (ok[a] <=> \A c \in Casts : c < at[a] => g_cast_status[c] = "SUCCESS")
    BY <1>1, <2>1 DEF CleanRun
  <2>3. CASE CastMark(a)
    <3>1. ok' = ok /\ at' = at /\ pc'[a] = "n_gate" /\ pc[a] = "c_mark"
      BY <1>1, <1>3, <2>3 DEF CastMark, TypeOK
    <3>2. \A c \in Casts : c # at[a] => g_cast_status'[c] = g_cast_status[c]
      BY <1>1, <2>3 DEF CastMark, TypeOK
    <3>3. \A c \in Casts : c < at[a] => c # at[a]
      BY <1>3, CastFacts
    <3> QED
      BY <2>2, <3>1, <3>2, <3>3
  <2>4. CASE CastStore(a)
    <3>1. ok'[a] <=> ok[a] /\ good[a]
      BY <1>1, <2>4 DEF CastStore, TypeOK
    <3>2. /\ g_cast_status'[at[a]] = "SUCCESS" <=> good[a]
          /\ \A c \in Casts : c # at[a] => g_cast_status'[c] = g_cast_status[c]
      BY <1>1, <1>3, <2>4 DEF CastStore, TypeOK
    <3>3. pc[a] = "c_store"
      BY <2>4 DEF CastStore
    <3>4. CASE at[a] = Len(CastFamily)
      <4>1. pc'[a] = "c_return"
        BY <1>1, <1>3, <2>4, <3>4 DEF CastStore, NextCast, TypeOK
      <4>2. \A c \in Casts : c = at[a] \/ c < at[a]
        BY <1>3, <3>4, CastFacts
      <4>3. \A c \in Casts : c < at[a] => c # at[a]
        BY <1>3, CastFacts
      <4> QED
        BY <1>3, <2>2, <3>1, <3>2, <3>3, <4>1, <4>2, <4>3
    <3>5. CASE at[a] # Len(CastFamily)
      <4>1. pc'[a] = "c_mark" /\ at'[a] = at[a] + 1
        BY <1>1, <1>3, <2>4, <3>5 DEF CastStore, NextCast, TypeOK
      <4>2. \A c \in Casts : c < at[a] + 1 <=> (c = at[a] \/ c < at[a])
        <5>1. at[a] \in Nat /\ \A c \in Casts : c \in Nat
          BY <1>3, CastFacts
        <5>2. \A n, m \in Nat : n < m + 1 <=> (n = m \/ n < m)
          OBVIOUS
        <5> QED
          BY <5>1, <5>2
      <4>3. \A c \in Casts : c < at[a] => c # at[a]
        BY <1>3, CastFacts
      <4> QED
        BY <1>3, <2>2, <3>1, <3>2, <3>3, <4>1, <4>2, <4>3
    <3> QED
      BY <3>4, <3>5
  <2>5. CASE CastReturn(a)
    BY <1>1, <1>3, <1>6, <1>7, <2>5 DEF CastReturn, TypeOK
  <2>6. CASE ~CastMark(a) /\ ~CastStore(a) /\ ~CastReturn(a)
    <3>1. /\ g_cast_status' = g_cast_status
          /\ ok' = ok /\ at' = at
          /\ pc[a] # "c_return" /\ pc'[a] # "c_return"
      BY <1>1, <1>3, <2>6
      DEF CastStep, CastKeypair, CastAsk, CastContext, PctPasses, PctFails, TypeOK
    <3> QED
      BY <2>2, <3>1
  <2> QED
    BY <2>3, <2>4, <2>5, <2>6
<1>8. CleanRun'
  BY <1>5, <1>6, <1>7 DEF CleanRun
<1>9. VerdictMatchesTable'
  BY <1>5, <1>7 DEF VerdictMatchesTable
<1> QED
  BY <1>4, <1>8, <1>9
-----------------------------------------------------------------------------
\* A call of an application begins its thread's run and touches nothing else; a
\* cleanup leaves the table filled.
LEMMA CallStepKeeps ==
  ASSUME CastInv, NEW a \in Apps, CallStep(a), Observe
  PROVE  CastInv'
<1> USE DEF Goto, module_vars, init_vars, run_vars
<1> USE DEF CallStep, RunCall, WrapperInit, WrapperCleanup, RandSeed, RandUnhealthy,
            RandCleanup
<1>1. TypeOK /\ Control /\ Dispatched
  BY DEF CastInv
<1>2. pc[a] = "idle" /\ op[a] = "none" /\ a \in Threads /\ a # Officer
  BY <1>1, CastThreads
  DEF Control, NewPcs, CastOnlyPcs, Threads
<1>3. /\ UNCHANGED <<g_cast_status, g_init_lock, dispatch, good>>
      /\ g_module_state' \in {g_module_state, "ERROR"}
      /\ g_fips_rand_ready' \in BOOLEAN
      /\ \A f \in Families : g_init_state'[f] = 2 => g_init_state[f] = 2
      /\ g_init_state' \in [Families -> {0, 2}]
  BY <1>1 DEF TypeOK
<1>4. \A s \in Threads \ {a} : pc'[s] = pc[s] /\ op'[s] = op[s] /\ at'[s] = at[s]
  BY <1>1 DEF TypeOK
<1>5. \/ pc'[a] = "idle" /\ op'[a] = "none" /\ ok' = ok
      \/ pc'[a] = "n_load" /\ op'[a] = "init" /\ ok' = ok
      \/ /\ pc'[a] = "c_mark" /\ op'[a] = "casts" /\ at'[a] = 1
         /\ ok' = [ok EXCEPT ![a] = TRUE]
  BY <1>1, <1>2 DEF TypeOK
<1>6. TypeOK'
  <2>1. 1 \in Casts
    BY CastFacts
  <2>2. at' \in [Threads -> Casts]
    BY <1>1, <2>1 DEF TypeOK
  <2>3. pc' \in [Threads -> Pcs] /\ op' \in [Threads -> {"none", "casts", "init", "post"}]
    BY <1>1 DEF TypeOK, Pcs, NewPcs
  <2>4. ok' \in [Apps -> BOOLEAN]
    BY <1>1, <1>5 DEF TypeOK
  <2> QED
    BY <1>1, <1>3, <2>2, <2>3, <2>4, ObserveType DEF TypeOK
<1>7. Control'
  BY <1>1, <1>2, <1>4, <1>5 DEF Control, NewPcs, CastOnlyPcs, Threads
<1>8. Testing' <=> Testing
  BY <1>2, <1>4 DEF Testing, Threads
<1>9. Dispatched'
  <2>1. pc'[a] \notin {"n_test", "n_report"}
    BY <1>5
  <2>2. pc'[Officer] = pc[Officer] /\ at'[Officer] = at[Officer]
    BY <1>2, <1>4 DEF Threads
  <2> QED
    BY <1>1, <1>3, <1>4, <2>1, <2>2 DEF Dispatched, Fam
<1>10. LoadedOnly' /\ GoodIsEarned' /\ RunningIsDispatched'
  <2>1. LoadedOnly'
    BY <1>3, <1>8, LoadedStays DEF CastInv
  <2>2. GoodIsEarned'
    BY <1>2, <1>3, <1>4, <1>5 DEF CastInv, GoodIsEarned, NewPcs, Threads
  <2>3. RunningIsDispatched'
    BY <1>3 DEF CastInv, RunningIsDispatched
  <2> QED
    BY <2>1, <2>2, <2>3
<1>11. NoStaleProcessing'
  BY <1>2, <1>3, <1>4 DEF CastInv, NoStaleProcessing, Threads
<1>12. \A b \in Apps \ {a} : clean'[b] => clean[b] /\ ok'[b] = ok[b]
  BY <1>1, <1>4, <1>5 DEF Observe, TypeOK, Threads
<1>13. \A c \in Casts : ~(c < 1)
  BY CastFacts
<1>14. CleanRun'
  <2> SUFFICES ASSUME NEW b \in Apps, clean'[b]
               PROVE  /\ op'[b] = "casts"
                      /\ ~Testing'
                      /\ \A d \in Apps \ {b} : op'[d] # "casts"
                      /\ pc'[b] # "c_return" =>
                             (ok'[b] <=> \A c \in Casts : c < at'[b] =>
                                                         g_cast_status'[c] = "SUCCESS")
    BY DEF CleanRun
  <2>1. op'[b] = "casts" /\ ~Testing' /\ \A d \in Apps \ {b} : op'[d] # "casts"
    BY DEF Observe
  <2>2. CASE b = a
    <3>1. at'[b] = 1 /\ ok'[b] = TRUE
      BY <1>1, <1>5, <2>1, <2>2 DEF TypeOK
    <3> QED
      BY <1>13, <2>1, <3>1
  <2>3. CASE b # a
    BY <1>3, <1>4, <1>12, <2>1, <2>3 DEF CastInv, CleanRun, Threads
  <2> QED
    BY <2>2, <2>3
<1>15. VerdictMatchesTable'
  <2> SUFFICES ASSUME NEW b \in Apps, pc'[b] = "c_return", clean'[b]
               PROVE  ok'[b] <=> \A c \in Casts : g_cast_status'[c] = "SUCCESS"
    BY DEF VerdictMatchesTable
  <2>1. b # a
    BY <1>5
  <2> QED
    BY <1>3, <1>4, <1>12, <2>1 DEF CastInv, VerdictMatchesTable, Threads
<1>16. SuccessMeansTested'
  <2> SUFFICES ASSUME NEW b \in Apps, pc'[b] = "c_store", good'[b]
               PROVE  warranted'[b] \/ ~begun'
    BY DEF SuccessMeansTested
  <2>1. b # a
    BY <1>5
  <2>2. op'[b] = "casts" /\ (warranted[b] \/ ~begun)
    BY <1>1, <1>3, <1>4, <2>1 DEF CastInv, Control, SuccessMeansTested, NewPcs, Threads
  <2> QED
    BY <2>2, EarnedStays
<1> QED
  BY <1>6, <1>7, <1>9, <1>10, <1>11, <1>14, <1>15, <1>16 DEF CastInv
-----------------------------------------------------------------------------
\* The officer's steps leave the applications and the dispatch alone.
LEMMA OfficerStepFacts ==
  ASSUME TypeOK, Control, OfficerStep
  PROVE  /\ UNCHANGED <<g_init_state, g_init_lock, dispatch, good, ok>>
         /\ \A a \in Apps : pc'[a] = pc[a] /\ op'[a] = op[a] /\ at'[a] = at[a]
         /\ ~Testing => g_cast_status' = g_cast_status
         /\ \A c \in Casts : g_cast_status'[c] \in {g_cast_status[c], "SUCCESS"}
<1> USE DEF OfficerGoto, Goto, module_vars, init_vars, run_vars
<1>1. UNCHANGED <<g_init_state, g_init_lock, dispatch, good, ok>>
  BY DEF OfficerStep, PostCall, Fini, PostSeed, PostKat, PostMark, PostVerdict
<1>2. \A a \in Apps : a # Officer /\ a \in Threads
  BY CastThreads DEF Threads
<1>3. \A a \in Apps : pc'[a] = pc[a] /\ op'[a] = op[a]
  BY <1>2 DEF OfficerStep, PostCall, Fini, PostSeed, PostKat, PostMark, PostVerdict, TypeOK
<1>4. \A a \in Apps : at'[a] = at[a]
  BY <1>2 DEF OfficerStep, PostCall, Fini, PostSeed, PostKat, PostMark, PostVerdict, TypeOK
<1>5. ~Testing => g_cast_status' = g_cast_status
  <2>1. pc[Officer] = "o_mark" => Testing
    BY DEF Control, Testing
  <2> QED
    BY <2>1 DEF OfficerStep, PostCall, Fini, PostSeed, PostKat, PostMark, PostVerdict
<1>6. \A c \in Casts : g_cast_status'[c] \in {g_cast_status[c], "SUCCESS"}
  BY DEF OfficerStep, PostCall, Fini, PostSeed, PostKat, PostMark, PostVerdict, TypeOK
<1> QED
  BY <1>1, <1>3, <1>4, <1>5, <1>6

\* They go through the tests in order,
LEMMA OfficerStepControl ==
  ASSUME CastInv, OfficerStep, Observe
  PROVE  TypeOK' /\ Control' /\ Dispatched' /\ LoadedOnly' /\ RunningIsDispatched'
<1> USE DEF OfficerGoto, Goto, module_vars, init_vars, run_vars
<1>1. TypeOK /\ Control /\ Dispatched /\ LoadedOnly /\ RunningIsDispatched
  BY DEF CastInv
<1>2. /\ UNCHANGED <<g_init_state, g_init_lock, dispatch, good, ok>>
      /\ \A a \in Apps : pc'[a] = pc[a] /\ op'[a] = op[a] /\ at'[a] = at[a]
  BY <1>1, OfficerStepFacts
<1>3. Officer \in Threads /\ at[Officer] \in Casts
  BY <1>1 DEF Threads, TypeOK
<1>4. 1 \in Casts /\ (at[Officer] # Len(CastFamily) => at[Officer] + 1 \in Casts)
  BY <1>3, CastFacts
<1>5. TypeOK'
  <2>1. g_module_state' \in {"INIT", "SELFTEST", "RUNNING", "ERROR"}
        /\ g_fips_rand_ready' \in BOOLEAN
    BY <1>1
    DEF OfficerStep, PostCall, Fini, PostSeed, PostKat, PostMark, PostVerdict, TypeOK
  <2>2. pc' \in [Threads -> Pcs] /\ op' \in [Threads -> {"none", "casts", "init", "post"}]
    BY <1>1
    DEF OfficerStep, PostCall, Fini, PostSeed, PostKat, PostMark, PostVerdict, TypeOK,
        Pcs, NewPcs
  <2>3. at' \in [Threads -> Casts]
    BY <1>1, <1>4
    DEF OfficerStep, PostCall, Fini, PostSeed, PostKat, PostMark, PostVerdict, TypeOK
  <2>4. g_cast_status' \in [Casts -> {"INIT", "PROCESSING", "SUCCESS", "FAILURE"}]
    BY <1>1
    DEF OfficerStep, PostCall, Fini, PostSeed, PostKat, PostMark, PostVerdict, TypeOK
  <2> QED
    BY <1>1, <1>2, <2>1, <2>2, <2>3, <2>4, ObserveType DEF TypeOK
<1>6. Control'
  <2>1. \/ op'[Officer] = "none" /\ pc'[Officer] = "idle"
        \/ op'[Officer] = "post" /\ pc'[Officer] \in NewPcs \cup PostOnlyPcs
    BY <1>1, <1>3
    DEF OfficerStep, PostCall, Fini, PostSeed, PostKat, PostMark, PostVerdict, TypeOK,
        Control, NewPcs, PostOnlyPcs
  <2> QED
    BY <1>1, <1>2, <2>1 DEF Control
<1>7. Dispatched'
  <2>1. pc'[Officer] \notin {"n_test", "n_report"}
    BY <1>1, <1>3
    DEF OfficerStep, PostCall, Fini, PostSeed, PostKat, PostMark, PostVerdict, TypeOK
  <2>2. \A t \in Threads : pc'[t] \in {"n_test", "n_report"} => dispatch'[Fam(t)']
    BY <1>1, <1>2, <2>1 DEF Dispatched, Fam, Threads
  <2>3. pc'[Officer] # "o_kat"
    BY <1>1, <1>3
    DEF OfficerStep, PostCall, Fini, PostSeed, PostKat, PostMark, PostVerdict, TypeOK
  <2>4. ASSUME pc'[Officer] \in NewPcs \cup {"o_seed"}
        PROVE  \A c \in Casts : c < at'[Officer] => dispatch[CastFamily[c]]
    <3>1. CASE PostCall
      <4>1. at'[Officer] = 1
        BY <1>1, <1>3, <3>1 DEF PostCall, TypeOK
      <4>2. \A c \in Casts : ~(c < 1)
        BY CastFacts
      <4> QED
        BY <4>1, <4>2
    <3>2. CASE PostSeed
      BY <1>1, <1>3, <3>2 DEF PostSeed, Dispatched
    <3>3. CASE PostKat
      <4>1. pc[Officer] = "o_kat" /\ at'[Officer] = at[Officer] + 1
        BY <1>1, <1>3, <2>4, <3>3 DEF PostKat, TypeOK, NewPcs
      <4>2. at[Officer] \in Nat /\ \A c \in Casts : c \in Nat
        BY <1>3, CastFacts
      <4>3. \A n, m \in Nat : n < m + 1 => n = m \/ n < m
        OBVIOUS
      <4>4. \A c \in Casts : c < at[Officer] + 1 => c = at[Officer] \/ c < at[Officer]
        BY <4>2, <4>3
      <4> QED
        BY <1>1, <4>1, <4>4 DEF Dispatched, Fam
    <3>4. CASE Fini \/ PostMark \/ PostVerdict
      BY <1>1, <1>3, <2>4, <3>4 DEF Fini, PostMark, PostVerdict, TypeOK, NewPcs
    <3> QED
      BY <3>1, <3>2, <3>3, <3>4 DEF OfficerStep
  <2>5. ASSUME pc'[Officer] \in {"o_mark", "o_store"}
        PROVE  \A f \in Families : dispatch[f]
    <3>1. CASE PostKat
      <4>1. pc[Officer] = "o_kat" /\ at[Officer] = Len(CastFamily)
        BY <1>1, <1>3, <2>5, <3>1 DEF PostKat, TypeOK
      <4>2. \A c \in Casts : c = at[Officer] \/ c < at[Officer]
        BY <1>3, <4>1, CastFacts
      <4>3. \A c \in Casts : dispatch[CastFamily[c]]
        BY <1>1, <4>1, <4>2 DEF Dispatched, Fam
      <4> QED
        BY <4>3, CastFacts
    <3>2. CASE PostMark
      BY <1>1, <3>2 DEF PostMark, Dispatched
    <3>3. CASE PostCall \/ Fini \/ PostSeed \/ PostVerdict
      BY <1>1, <1>3, <2>5, <3>3 DEF PostCall, Fini, PostSeed, PostVerdict, TypeOK
    <3> QED
      BY <3>1, <3>2, <3>3 DEF OfficerStep
  <2> QED
    BY <1>1, <1>2, <2>2, <2>3, <2>4, <2>5 DEF Dispatched
<1>8. LoadedOnly'
  <2>1. begun' <=> begun \/ Testing'
    BY Zenon DEF Observe
  <2>2. ~(SelfTesting' /\ ~Testing')
    BY <1>1, <1>3
    DEF OfficerStep, PostCall, Fini, PostSeed, PostKat, PostMark, PostVerdict, TypeOK,
        SelfTesting, Testing, Control
  <2> QED
    BY <2>1, <2>2 DEF LoadedOnly
<1>9. RunningIsDispatched'
  BY <1>1, <1>2
  DEF OfficerStep, PostCall, Fini, PostSeed, PostKat, PostMark, PostVerdict,
      RunningIsDispatched, Dispatched
<1> QED
  BY <1>5, <1>6, <1>7, <1>8, <1>9

\* ... and write the table only during a test of the module.
LEMMA OfficerStepKeeps ==
  ASSUME CastInv, OfficerStep, Observe
  PROVE  CastInv'
<1>1. TypeOK /\ Control
  BY DEF CastInv
<1>2. /\ UNCHANGED <<dispatch, good, ok>>
      /\ \A a \in Apps : pc'[a] = pc[a] /\ op'[a] = op[a] /\ at'[a] = at[a]
      /\ ~Testing => g_cast_status' = g_cast_status
      /\ \A c \in Casts : g_cast_status'[c] \in {g_cast_status[c], "SUCCESS"}
  BY <1>1, OfficerStepFacts
<1>3. GoodIsEarned'
  BY <1>2 DEF CastInv, GoodIsEarned
<1>4. NoStaleProcessing'
  BY <1>2 DEF CastInv, NoStaleProcessing
<1>5. \A a \in Apps : clean'[a] => clean[a] /\ g_cast_status' = g_cast_status
  BY <1>2 DEF CastInv, CleanRun, Observe
<1>6. CleanRun'
  <2>1. \A a \in Apps : clean'[a] => ~Testing'
    BY DEF Observe
  <2> QED
    BY <1>2, <1>5, <2>1 DEF CastInv, CleanRun
<1>7. VerdictMatchesTable'
  BY <1>2, <1>5 DEF CastInv, VerdictMatchesTable
<1>8. SuccessMeansTested'
  <2>1. \A a \in Apps : pc[a] = "c_store" => op[a] = "casts"
    BY <1>1 DEF Control, NewPcs
  <2> QED
    BY <1>2, <2>1, EarnedStays DEF CastInv, SuccessMeansTested
<1> QED
  BY <1>3, <1>4, <1>6, <1>7, <1>8, OfficerStepControl DEF CastInv

-----------------------------------------------------------------------------
\* The invariant is inductive.
LEMMA CastNext == CastInv /\ [Next]_vars => CastInv'
<1> SUFFICES ASSUME CastInv, [Next]_vars PROVE CastInv'
  OBVIOUS
<1>1. CASE Next
  <2>1. Observe
    BY <1>1 DEF Next
  <2>2. CASE \E t \in Threads : NewStep(t)
    BY <2>1, <2>2, NewStepKeeps
  <2>3. CASE \E a \in Apps : CastStep(a)
    BY <2>1, <2>3, CastStepControl, CastStepTested, CastStepTable DEF CastInv
  <2>4. CASE \E a \in Apps : CallStep(a)
    BY <2>1, <2>4, CallStepKeeps
  <2>5. CASE OfficerStep
    BY <2>1, <2>5, OfficerStepKeeps
  <2> QED
    BY <1>1, <2>2, <2>3, <2>4, <2>5, StepKinds DEF Next
<1>2. CASE UNCHANGED vars
  BY <1>2
  DEF vars, module_vars, init_vars, run_vars, CastInv, TypeOK, Control, Dispatched, Fam,
      LoadedOnly, SelfTesting, Testing, GoodIsEarned, CleanRun, RunningIsDispatched,
      NoStaleProcessing, VerdictMatchesTable, SuccessMeansTested
<1> QED
  BY <1>1, <1>2

\* Every reachable state satisfies it.
LEMMA CastInvariant == Spec => []CastInv
  BY CastInit, CastNext, PTL DEF Spec

\* The tables, locks and threads of a run of the CASTs keep their types.
THEOREM CastTypeCorrect == Spec => []TypeOK
<1>1. CastInv => TypeOK
  BY DEF CastInv
<1> QED
  BY <1>1, CastInvariant, PTL

\* A RUNNING module has every dispatch table filled, whatever init and cleanup
\* the applications do: the power-on tests have made a handle of every family.
THEOREM CastRunningIsDispatched == Spec => []RunningIsDispatched
<1>1. CastInv => RunningIsDispatched
  BY DEF CastInv
<1> QED
  BY <1>1, CastInvariant, PTL

\* No CAST is left PROCESSING by a run that has gone on or ended.
THEOREM CastNoStaleProcessing == Spec => []NoStaleProcessing
<1>1. CastInv => NoStaleProcessing
  BY DEF CastInv
<1> QED
  BY <1>1, CastInvariant, PTL

\* qudo_pqc_run_all_casts returns what the table says, for any number of CASTs,
\* if it has had the table to itself.
THEOREM CastVerdictMatchesTable == Spec => []VerdictMatchesTable
<1>1. CastInv => VerdictMatchesTable
  BY DEF CastInv
<1> QED
  BY <1>1, CastInvariant, PTL

\* Once the module has begun to test itself, a CAST passes only with a pairwise
\* test or while the module tests itself, whoever seeds or cleans up the DRBG.
THEOREM CastSuccessMeansTested == Spec => []SuccessMeansTested
<1>1. CastInv => SuccessMeansTested
  BY DEF CastInv
<1> QED
  BY <1>1, CastInvariant, PTL
=============================================================================
