# A TLA+ development for QudoSSL's cryptographic module

QudoSSL is a fork of OpenSSL that takes its ML-KEM and ML-DSA from
`qudo-pqc-lib`, a library that is also a FIPS 140-3 module of its own:
`libqudo-pqc`. This directory models the part of the repository that is the
project's own control: the life cycle of that module, its callbacks and audit
log, its conditional self-tests and the dispatch of its algorithms, its random
number generator and the health tests of its entropy source; and, on OpenSSL's
side, the self-test of the FIPS provider and the ML-KEM key objects whose
arithmetic is delegated to the library. Paths below are relative to
`src/qudo-pqc-lib/` unless they start with `src/`.

The build modelled is the standalone FIPS build (`QUDO_FIPS_MODULE` on,
`QUDO_PQC_USE_HOST_DRBG` and `QUDO_PQC_MATH_ONLY` off) on a platform with
constructors and pthread read-write locks. OpenSSL is built with
`QUDO_PQC_DELEGATE`.

## 1. Inventory

| Component | State it keeps | Operations | How it meets the others |
|---|---|---|---|
| Life cycle, `src/qudo_pqc_init.c` | atomic `g_module_state` (INIT, SELFTEST, RUNNING, ERROR), configuration flag, callbacks, report count, one rwlock | `qudo_pqc_init`, `_self_test`, `_fini`, `_unregister_callbacks`, `_set_error_state`, the gates | runs the POST under its lock; seeds and cleans the DRBG; every service asks its gate |
| Power-on self-tests, `src/qudo_pqc_post.c`, `src/qudo_pqc_integrity.c` | two evidence flags | integrity check, primitive KATs, algorithm KATs | the KATs call the *public* services, so they pass the gates the POST is deciding about |
| Key generation and PCT, `qudo-mlkem/src/mlkem_wrapper.c`, `src/qudo_pqc_pct.c` (ML-DSA, SLH-DSA alike) | the caller's buffers | gate, draw, generate, PCT, return | a PCT failure calls `qudo_pqc_set_error_state` without the lock |
| DRBG, `src/fips/qudo_fips_rand.c`, `qudo_fips_ctrdrbg.c` | one CTR-DRBG, generate count, ready flag, rwlock | bytes, init, reseed, seed_from_platform, cleanup | gated on the state; a failed health test enters ERROR |
| Entropy health tests, same file | RCT and APT counters, two flags | one test per sample | called under the DRBG lock by a reseed, without it by a seed |
| Audit log and callbacks, `src/qudo_pqc_audit.c`, registration in `qudo_pqc_init.c` | two callback/argument pairs, rate counters, a lock that cleanup frees | `qudo_audit_set_callback`, `_log`, `_cleanup` | registered under the life cycle's lock, read from everywhere, the error callback partly without a lock |
| CAST run, `src/qudo_pqc_init.c` | table of results | `qudo_pqc_run_all_casts` | handles, key generation and a second PCT for each algorithm; the power-on tests write the same table |
| Indicator, security level | constants | checks | called from everywhere |
| ML-KEM, ML-DSA, SLH-DSA wrappers and DER interop | per family a dispatch state, a mutex and (ML-DSA) function tables | init, cleanup, handles, key generation, sign, verify, encapsulate, encode, decode | gated; the first handle initialises the family and tests the DRBG with the mutex held |
| `qudo_fipsinstall`, ACVP harness | files | command-line tools | none at run time |
| OpenSSL FIPS provider, `src/openssl/providers/fips/self_test.c`, `fipsprov.c` | `FIPS_state`, the conditional error switch, a lock, shared by all loaded instances | `SELF_TEST_post` on load and on demand, `ossl_set_error_state`, `ossl_prov_is_running` | the provider QudoSSL ships; key management asks its gate |
| OpenSSL delegation, `src/openssl/crypto/ml_kem`, `ml_dsa`, `providers/implementations/keymgmt` | key objects with optional parts and allocated storage | generate, import, export, set, decode, load, duplicate, free | calls the math of `qudo-pqc-lib` |

What is hard here. The state is read and written without the lock on the paths
that matter most (the gates, and the entry into ERROR), while `init`,
`self_test` and `fini` decide under the lock on a value they have loaded
earlier. The POST calls services that take the lock the POST holds. `fini` does
half of its work after it has unlocked. The DRBG checks its flags before it
waits for its lock, and one of its entry points does not take the lock at all.
Seeding and cleaning it up are exported and ask for no state, so that any thread of
the application may do either beside the module's own use of it.
Callback and argument are separate variables, one of their readers takes no lock,
and the audit lock is freed under its users. The first handle of a family is made
under a mutex that is held across a draw, whose error path takes another lock. A
key object is filled by five different calls from parts that may contradict each
other. Nearly every step may fail. `PROJECT.json` lists these hazards line by line.

What makes each part correct: self-tests are exclusive and their verdict rests
on evidence; ERROR is left by a reload only; the lock is never lost, taken twice
or kept; the module turns RUNNING only after tests that had a DRBG; every key is tested before it is returned;
the DRBG is reseeded in time; the incremental health tests compute what
SP 800-90B defines; a failure on one thread does not invent one on another; a
callback is called with its own argument and not after it has been withdrawn; the
CAST table tells what was tested; a key object is empty or whole, holds what it was
given, and does not change.

## 2. Modules

`FiniteStateModel` is the abstract specification: the four states, whether
tests are in progress, and the transitions between them.

`QudoModule` is the life cycle. Officer threads call `init`, `self_test`, `fini`
and `unregister_callbacks`; user threads generate key pairs and make the exported
DRBG calls `qudo_pqc_rand_seed_from_platform`, `qudo_pqc_rand_init` and
`qudo_pqc_rand_cleanup` (`RandSeed`, `RandInitCall`, `RandCleanupCall`, ...), the
first and the last of which are not gated. A call is a chain
of labels in `pc`; each action is named for what the code does there (`InitLoad`,
`SelfTestAccepted`, `StoreVerdict`, `FiniRand`, ...). A load or store of a
variable that another thread may touch without the lock is a step of its own;
work only the lock holder can see is merged with the step before it. In
particular the load that decides and the store that follows are two steps in
`init`, `self_test` and `fini`. `writer` is the lock holder. A thread that asks
for the read lock while it holds the write lock either hangs (`stuck`) or gets
EDEADLK, which the code ignores, and its `rdunlock` then gives up the write lock
(`released`): both outcomes are possible, so both are modelled. The
history variables are `latched`, `begun` (a self-test has begun since the module was
loaded) and `drbg_seen` (an officer's self-test has had a seeded DRBG).

Abstracted: the tests pass or fail (`Faults` says which kinds may), callbacks
are the officer that registered them, and the DRBG is its two flags.

`FipsRand` is the generator in detail: the five exported calls, the lock, the
count with its width (`CountModulus`), the requests of several chunks, entropy
reads and health failures. It replaces the life cycle by `ModuleMoves`, which
moves the state freely except out of ERROR. Bytes and the AES core are left out.
`outs` and `wrapped` are history variables.

`HealthTests` is `rct_test` and `apt_test` sample by sample, next to their
definition on whole sequences (`HasRun`, `HasProportion`).

`Callbacks` is the registration of the error and audit callbacks and everything
that reads them: `init` on its fast and slow path, `unregister_callbacks`, `fini`
with `qudo_audit_cleanup`, `qudo_audit_log`, `set_error_state` and
`report_error_state`. Each load or store of a pointer is a step. Locks have
identities, because cleanup frees one and the next registration allocates another;
a lock expression tests and passes the pointer, so the argument may be the tested
value or a later one. Use of a freed lock is undefined: it is recorded in `bad` and
nothing is said of what follows. A callback is named by the officer it belongs to.

`CastRun` is `qudo_pqc_run_all_casts` over the wrappers' handles (`NewGate` to
`NewReady` are `QUDO_MLDSA_new` and `_init`), with application init and cleanup of
the wrappers, the application's seeding and cleanup of the DRBG, and one officer who
initialises, tests and finalises the module. A CAST runs two pairwise tests, one
inside the key generation, and asks the module state before each; the test of a
family in `GateOnly` draws nothing (ML-DSA's signs with fixed randomness).
`Testing` stands for `g_self_test_lock`. `warranted`, `clean` and `begun` are history
variables.

`ProviderSelfTest` is `SELF_TEST_post`, called by each loaded instance of the
provider and on demand, with users that generate and import ML-KEM keys. The two
looks at the state, the store of SELFTEST, each group of tests, the verdict and the
unlock are steps; `Lenient` instances are configured with conditional errors off,
which switches them off for all. `last` and `tested` are history variables.

`MlKemKey` is sequential: every sequence of key management calls on a few
`ML_KEM_KEY` objects. A key pair is abstracted to the seed half `d` it derives from
and `z`; a private encoding has four parts that may come from different seeds or
not parse; storage is a block number. `Faults` makes each call fail at its first
allocation or after it.

`TypeOK` of `Callbacks` and of `MlKemKey` is proved (section 5) and not checked by a
run; the runs check it in the other modules.

`MC*` modules and `.cfg` files instantiate them; `*Proofs` hold the theorems.
Definitions named `Bad...`, `LastCastStore` and `EndlessGenerate` are faulty variants used to show
that a property can fail; no specification uses them.

## 3. Runs

| Run | Shows | Bounds | Distinct states |
|---|---|---|---|
| `officers` | Two officers, every test may fail: self-tests are exclusive, RUNNING is complete, the lock is used properly and always given back, and the life cycle implements `FiniteStateModel` | 2 officers | 24,404 |
| `services` | One officer, two users, every fault, `fini` possibly before `init`: ERROR seen with the lock free is kept, the module turns RUNNING only by a self-test that has had a seeded DRBG although users seed it and clean it up at any time, the report limit is passed by at most one report per thread, once a self-test has begun a key goes without its PCT only while one is in progress | report limit 1 | 713,072 |
| `rand_api` | All DRBG calls by three threads: at most `RESEED_INTERVAL` chunks between seeds, after a cleanup only draws already under way move the count, the lock is given back | interval 2, 2 chunks, count modulo 4 | 1,186,652 |
| `health` | The incremental tests give the verdict of SP 800-90B | 3 values, cutoffs 3 and 4, window 5, 11 samples | 124,204 |
| `callbacks` | The audit limit is passed by at most one event per user; no lock is misused unless a cleanup runs beside an audit call; callback and argument belong together wherever a lock covers both; who has unregistered is not called again; the audit lock is given back | 2 officers, 1 user, 3 calls by officers, limit 1 | 496,923 |
| `provider` | RUNNING means that the last self-test passed; an on-demand test that returns 1 has tested; SELFTEST, in which key tests are skipped, is there only while the lock holder tests; ERROR is left only by a self-test that was past its last look; the lock is given back | 2 instances (one lenient), 2 users | 110,189 |
| `mlkem_key` | A key object is bare or whole, agrees with what it was given, has matching halves, shares no storage, survives export and import, and is immutable | 2 objects, 2 seeds, 6 private encodings (4 inconsistent), all configurations | 39,994 |
| `cast_run` | A RUNNING module has its dispatch tables, no CAST stays PROCESSING, the returned verdict is the table's, once a self-test has begun success means a pairwise test or a self-test in progress, the dispatch mutex is given back unless its holder waits to report ERROR | 2 applications, 1 officer, 2 families | 1,399,140 |

The bounds. Two officers are enough for every race between two critical
sections, and a third adds only waiters; the theorems remove the bound. Two users
make the check-then-increment of the report limit race. An interval of 2 lets
chunks add up over calls and threads before one is due, and a request of two chunks
cross the interval in its middle; it is *below* the number of threads, because
otherwise a cleanup cannot overtake enough draws for one of them to reseed an
uninstantiated DRBG. The modulus is larger than the interval so
that the wrap takes failures, as it does in the code. Eleven samples span two
windows and the start of a third; three values let the window's first sample,
another repeated one and a filler differ. In `callbacks` three calls are enough for
register, finalise and register again, or register, take over and withdraw; a lock
is created at most once in each. In `provider` the second instance makes the
switch, the load and the on-demand test of one race with the tests of the other.
In `mlkem_key` the private encodings are the first seed's with its secret vector of
the other seed or unreadable, its public key unreadable or its hash wrong: each
check of the code is the only one to refuse one of them. In `cast_run` two families
make a run resume after a failure; one has a function table, one has none.

Deadlock is checked except in `services` and `latch_lost`, where a self-test stuck on
its own lock or callers whom the gate refuses in ERROR stop for good; in
`callbacks`, where the bound on calls ends a behaviour; and in `cast_run` and
`cast_lockout`, because the code really can deadlock there: the latter shows it.

Fairness. `WF(Progress(t))` for each thread inside a call and not waiting for the
lock: the code has no blocking call there except the lock, and the operating
system runs every thread. Nothing is assumed of the order in which a lock admits
its waiters (pthread promises none) or of callers making calls. `LockReleased`,
`RandLockReleased`, `AuditLockReleased` and `PostReleases` need only that
(`PostStep` is enabled for the lock holder only). In `CastRun` a thread that waits
for a mutex takes it if the mutex stays free, which any mutex guarantees; its
fairness is written over `<<pc, at>>`, which every step of a call moves.

## 4. Where code and documentation disagree

Each is a run in which TLC violates a statement of the repository.

- `latch_lost` (`ErrorLatched`): a PCT failure stores ERROR between the moment
  `self_test` loads RUNNING and the moment it stores SELFTEST; the tests pass and
  the module is RUNNING again. The comment in `qudo_pqc_fini` and
  `docs/fips/FINITE_STATE_MODEL.md` say ERROR is latched.
- `relock` (`LockDiscipline`): the comment in `qudo_pqc_set_error_state` explains
  that the lock must not be taken again by the self-test thread; it is, by the
  gate of the next KAT or by the PCT of the key generation KAT, once another
  thread has put the module in ERROR.
- `rand_race` (`HealthTestsExclusive`): `seed_from_platform` runs the health tests
  without the lock, so two threads update their plain counters together.
- `cast_lockout` (`NeverLockedOut`): a thread makes the first handle of a family and
  tests the DRBG with the family's mutex held. Another thread's PCT fails meanwhile;
  the draw's gate reports ERROR and asks for `g_self_test_lock`. An on-demand
  self-test that holds that lock asks for the mutex in its next KAT. Both wait for
  ever, and so does every later caller. `docs/reference/API.md:230` says "Multiple
  threads can use different instances simultaneously".

Differences met while modelling, without a run of their own:

- `fini` keeps ERROR, while `FINITE_STATE_MODEL.md:53` (T9) calls it the only exit
  from ERROR and `FIPS.md:76` recovers with `fini` and `init`.
- One officer's `fini` cleans up the DRBG (`qudo_pqc_init.c:802`) that another
  officer's `init` has just seeded: RUNNING without a DRBG. `PORTING.md:77` calls
  these paths synchronised.
- So does the application's `qudo_pqc_rand_cleanup`, which is exported and not gated
  (`qudo_pqc_utils.c:268`; `tests/test_pqc_drbg_limits.c:120` calls it on a RUNNING
  module). If it overtakes an ML-KEM key generation, its PCT finds no DRBG, fails, and
  the module latches ERROR although no algorithm has failed. RUNNING therefore does
  not mean that the DRBG is seeded; `RunningHasHadDrbg` states what remains true.
- A `fini` during a key generation makes the PCT fail at the gate and latches ERROR
  in a finalised module; `FINITE_STATE_MODEL.md:52` has no such transition from INIT.
- A key generated while another thread runs the self-tests is returned without its
  PCT (`THREAT_MODEL.md:67`: "PCT on every generated/imported keypair";
  `FINITE_STATE_MODEL.md:68`). A CAST run at such a time stores SUCCESS without a
  test. The same happens with no self-test at all in the SELFTEST state that the
  constructor leaves, if the application seeds the DRBG itself: the call is exported
  and not gated (`qudo_pqc_utils.c:19`; `tests/test_pqc_post.c:146` makes it).
  `UntestedOnlyDuringSelfTest` and `SuccessMeansTested` show that from the first
  self-test on the first way is the only one.
- `self_test` returns 1 without a test when it finds another thread's in progress.
- The second pairwise test of a CAST only stores FAILURE, while
  `FINITE_STATE_MODEL.md:52` (T8) enters ERROR on a CAST failure.
- Requests that fail for lack of entropy keep incrementing the generate count; after
  2^32 of them it wraps and an exhausted DRBG serves again
  (`OPERATING_ENVIRONMENT.md:107`). `ReseedBound` therefore speaks of a count that
  has not wrapped.
- A request past the gate still delivers output when another thread enters ERROR;
  a reseed by the application that a cleanup overtakes latches ERROR although no
  test has failed.
- `qudo_audit_cleanup` frees the audit lock without synchronisation; a `log` of
  another thread then uses freed memory. The premise `~overlap` of
  `QuietCleanupSafe` is what an application has to ensure.
- An officer whose `init` brings no audit callback takes the module over and leaves
  the previous owner's in place; that owner's `unregister_callbacks` then does
  nothing (`qudo_pqc_init.c:641`, `:773`). `UnregisterEffective` excepts this case.
- `QUDO_MLDSA_ML_DSA_44_keypair_internal` and its like call through the function
  table without initialising it; before the first power-on test the gate is open
  (the constructor stores SELFTEST) and the table empty. Afterwards they are safe:
  `RunningIsDispatched`.
- `ml-kem.import_pct_type = fixed` sets FIXED without clearing the default RANDOM
  (`ml_kem_kmgmt.c:182`), so the test still draws random entropy;
  `src/openssl/doc/man7/EVP_PKEY-ML-KEM.pod:118` says "a fixed 32 byte value".
- OpenSSL's provider loses an ERROR stored between the look and the verdict of
  `SELF_TEST_post` just as `self_test` does; `ProviderLatchHolds` states the window.
- An on-demand self-test in ERROR is refused (`src/openssl/providers/fips/self_test.c:337`,
  `:353`), so that it cannot succeed, while `src/docs/security-policy.md:1920` says
  "The error state is only cleared by reloading the module (or a successful on-demand
  self-test)". `ProviderLatchHolds` states what the code does.
- An import of a seed together with a private or public key compares them and refuses
  a mismatch (`ml_kem_kmgmt.c:439`, `check_seed`, `check_prvenc`);
  `EVP_PKEY-ML-KEM.pod:132` says that "the companion key is ignored", and the comments
  at `ml_kem_kmgmt.c:394` that the other parts are ignored apart from their length and
  that comparing them is "not currently implemented". `AgreesWithInput` states what the
  code does.

## 5. Theorems

TLC checks the instances above; TLAPS proves the following for all sets of
threads and all values of the other constants, 7,677 obligations in all. Every
invariant and action property that a passing run checks is stated by a theorem.
The assumptions on constants are the named `ASSUME`s of the modules; what a
theorem assumes beyond them stands in its own `ASSUME ... PROVE` and is given here.
Every inductive invariant below was first checked by TLC on the run's instance.

`QudoModuleProofs`
- `TypeCorrect`: types, without further assumption.
- `Inductive`, `ErrorLatch`, `SelfTestsExclusive`, `RunningComplete`: the
  invariant `IInv` and what follows from it, assuming `~FiniBeforeInit`.
- `ImplementsFSM`: without users and with `~FiniBeforeInit`, the life cycle
  implements `FiniteStateModel`.
- `UntestedPairsNeedSelfTest` (`UntestedOnlyDuringSelfTest`): no further assumption.
- `RunningRestsOnDrbg` (`RunningHasHadDrbg`): no further assumption.
- `LockIsDisciplined` (`LockDiscipline`): without users, `~FiniBeforeInit`.
- `ReportsStayBounded` (`ErrorReportsBounded`): finitely many threads, a limit
  that is not zero (it is 10 in the code).

The argument. Mutual exclusion alone is not inductive, because a thread can lose
the lock by its own `rdunlock`. `Ownership` therefore says that a thread in a
critical section holds the lock *or* is in `released`, and `ReleasedFails` that
such a thread exists at most once, only in a latched ERROR, and is on its way to
storing ERROR. `LatchGuards` says that after the latch every other thread that is
about to store the state has been shut out, which is why the latch survives.
`TestingStates` confines the state while tests run. `OpsMatch`, `Evidence` and
`RunningEvidence` carry the POST evidence from the test that produces it to the
store of RUNNING; the one moment without it is between `FiniClear` and
`FiniStore`, with the lock held. For the refinement `QuietInv` adds that without
services nobody changes the state under a self-test, so `released` stays empty;
`LockDiscipline` follows from the same facts. `~FiniBeforeInit` is needed: `fini`
reads the lock pointer twice and, if the first `init` creates the lock in between,
unlocks what it never locked.

A key goes untested when its generation finds SELFTEST. `SelfTestOwned` says that
SELFTEST belongs to a self-test under way or is the state a module is loaded with,
which the first self-test ends for good (`begun`): `fini` goes to INIT, and every
later store of SELFTEST is that of a test.

`RunningRestsOnDrbg` holds for any officers and any users. The first gated test asks
the DRBG (`SeenInv`: past it, the self-test has seen the DRBG seeded or has failed), and
what it has seen is not lost when somebody cleans the DRBG up before the verdict. The
stronger statement, that a RUNNING module has a DRBG, is false of the code (section 4).

The counting theorems (`ReportsStayBounded`, `AuditStaysBounded`,
`OvertakenStaysBounded`) share one idea: the count together with the number of
threads between check and increment stays within the bound (`ReportBound`,
`CountBound`, `DrawBound`), since each such thread can move the count only once.

`FipsRandProofs`
- `RandTypeCorrect`: types, the wrapping count included.
- `ReseedBounded`: `ReseedBound`. Its inductive form `CountCovers` says that
  the count falls short of the chunks produced by at most one, the chunk that
  follows an automatic reseed; hence the interval itself, and not one less, is
  the exact bound.
- `OvertakenStaysBounded` (`OvertakenBounded`): finitely many threads, at least one.
  Nobody passes the ready flag of a DRBG that is not instantiated, and the thread
  that cleaned up is not drawing.

`HealthTestsProofs`
- `HealthTypeCorrect`: the counters stay in bounds (with `Bounds`: a run counter
  at its cutoff has failed, an open window is not over).
- `VerdictIsExact` (`VerdictExact`): the incremental tests fail exactly when
  SP 800-90B says so. `RunCounted` says that the run counter is the length of the last
  run: the samples it covers are equal and the one before them differs. A run that
  ends at the new sample is therefore no longer than the counter, and as long as that
  is below the cutoff no accepted run reaches it (`NoRunAccepted`). `WindowCounted` says that between windows the samples fill
  whole windows and within one the counter is the number of copies of its first
  sample. `WindowStarts` gives the arithmetic (two windows that start less than a
  window apart are the same), `CopiesAppend` and `CopiesCount` what a sample adds.

`ProviderSelfTestProofs`: `ProviderTypeCorrect`, `ProviderRunningIsTested`,
`ProviderOnDemandIsTested`, `ProviderSelfTestIsHeld`, `ProviderLatchIsHeld`.
`ProviderInv` adds to the properties that the lock is a mutex (`LockIsHeld`), that
`ok` is set only together with the tests (`VerdictIsEarned`), and that SELFTEST has
been replaced before the unlock (`DecidedAtUnlock`).

`CastRunProofs`: `CastTypeCorrect`, `CastRunningIsDispatched`,
`CastNoStaleProcessing`, `CastVerdictMatchesTable`, `CastSuccessMeansTested`.
`CastInv` follows the officer through the families, each filled before its KAT
(`Dispatched`); notes that SELFTEST without a self-test is the state the module was
loaded with, before any test has begun (`LoadedOnly`), so that a pairwise test skipped
later is skipped beside a self-test; and relates the result so far
of a run that nobody disturbed to the rows it has passed (`CleanRun`). `CastSequence`
assumes that there is at least one CAST, as the table has.

`MlKemKeyProofs`: `KeysAreWhole` (types and `WholeKeys`), `KeysAgreeWithInput`,
`KeysArePairwiseConsistent`, `KeysShareNoStorage`, `KeysStayImmutable`
(`KeysImmutable`), `KeysSurviveReimport` (`ReimportIsIdentity`). `KeyInv` classifies
each slot as empty, blank, whole or decoded (`SlotOK`); a whole key is coherent with
the configuration and agrees with what it was given. Lemmas on the operators (what
`Genkey`, `ParsePrivateKey`, `FromData`, ... return for each class of key) carry the work; the
actions only combine them.

`CallbacksProofs`: `CallbackInductive`, `CallbackTypeCorrect`, `AuditStaysBounded`,
`QuietCleanupIsSafe`, `PairsAlwaysMatch`, `UnregisterIsEffective`. `CallbackInv` has
four parts: where a registration stands and whose callbacks are stored (`RegInv`),
that each call creates at most one lock (`CreationBound`), the audit count
(`CountBound`), and, as long as no cleanup has overlapped an audit call, that the
pointer, the lock it names, its holders and the copies taken under it agree
(`QuietInv`).

Only model-checked: `LockReleased`, `RandLockReleased`, `AuditLockReleased`,
`PostReleases` and `DispatchLockReleased`, because liveness under fairness is out of
the prover's reach. The violated statements of section 4 are refuted by TLC and have
no theorem.

## 6. Not modelled

The mathematics of ML-KEM, ML-DSA, SLH-DSA, AES and SHA (number theory and bit
operations, covered by the known-answer tests); command-line tools, build and
test harnesses (I/O); OpenSSL proper (third-party: protocols, other algorithms, X.509;
most of the repository's lines). Encapsulation, decapsulation, signing and
verification are gated calls that keep no state between them; the one-shot `ikmE` of
OpenSSL's KEM context is a flag of a single sequential caller. ML-DSA key objects
have the shape of `MlKemKey`, which has no failing allocation inside its pairwise test
or `check_prvenc`: both end as a mismatch does. The branch of `set_error_state` for a
transient import PCT (`qudo_pqc_init.c:457`) is left out because no code of the library
uses it. The exported `run_post`, `set_cast_status`, `set_error_state` and audit calls
are not modelled as calls an application makes on its own, and an application's draws
and reseeds are in `FipsRand` only. Argument checks and the text of reports are left out.
The other builds of the library differ: with the host DRBG the generator is not
the module's, and the math-only build has no life cycle.

## 7. Plan

In the order of what matters most:

1. A theorem for the single-officer life cycle with users that does not need
   `~FiniBeforeInit`, and step refinement with users up to the window that
   `latch_lost` shows.
2. Composition of `FipsRand` with `QudoModule` in place of `ModuleMoves`.
3. ML-DSA key objects in the manner of `MlKemKey`.
