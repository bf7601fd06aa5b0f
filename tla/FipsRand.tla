------------------------------- MODULE FipsRand -------------------------------
(***************************************************************************)
(* The module's random number generator (src/fips/qudo_fips_rand.c on top  *)
(* of qudo_fips_ctrdrbg.c): one CTR-DRBG behind a lock, seeded from the    *)
(* platform's entropy, whose health tests may latch a failure and put the  *)
(* module in ERROR.                                                        *)
(*                                                                         *)
(* Any thread may call qudo_pqc_rand_bytes, _rand_init, _rand_reseed,      *)
(* _rand_seed_from_platform or _rand_cleanup, all of them exported.  The   *)
(* flags g_fips_rand_ready, g_health_failed and g_startup_tested are read  *)
(* without the lock, so each load of one is a step of its own.             *)
(*                                                                         *)
(* Left out: the bytes, the AES core and the arguments' checks.  What the  *)
(* health tests compute is module HealthTests; here they pass or fail.     *)
(***************************************************************************)
EXTENDS Naturals, FiniteSets

CONSTANTS
    Threads,
    NoThread,
    Calls,             \* the calls the threads make: a subset of CallKinds
    Faults,            \* of the entropy source: a subset of {"read", "health"}
    MaxChunks,         \* chunks of QUDO_CTRDRBG_MAX_REQUEST in a request
    RESEED_INTERVAL,   \* 2^20 in the code
    CountModulus       \* g_fips_rand_gen_count is an unsigned int: 2^32

CallKinds == {"bytes", "init", "reseed", "seed", "cleanup"}

ASSUME ThreadAssumption == NoThread \notin Threads
ASSUME CallsAssumption == Calls \subseteq CallKinds
ASSUME SourceAssumption == Faults \subseteq {"read", "health"}
ASSUME ChunksAssumption == MaxChunks \in Nat \ {0}
ASSUME IntervalAssumption ==
    /\ RESEED_INTERVAL \in Nat \ {0}
    /\ CountModulus \in Nat
    /\ CountModulus > RESEED_INTERVAL

VARIABLES
    g_module_state,         \* of the life cycle, see ModuleMoves
    g_fips_rand_ready,
    initialized,            \* g_fips_drbg.initialized
    g_fips_rand_gen_count,
    g_health_failed,
    g_startup_tested,
    g_fips_rand_lock,       \* the thread that holds it
    pc,
    call,                   \* the call a thread is in
    left,                   \* chunks a bytes call still has to produce
    outs,                   \* history: chunks generated since the last (re)seed,
                            \* counted up to one more than RESEED_INTERVAL
    wrapped                 \* history: the count has wrapped since then

flags == <<g_health_failed, g_startup_tested>>
drbg  == <<g_fips_rand_ready, initialized, g_fips_rand_gen_count, outs, wrapped>>
vars  == <<g_module_state, drbg, flags, g_fips_rand_lock, pc, call, left>>

States == {"INIT", "SELFTEST", "RUNNING", "ERROR"}

EntropyPcs == {"e_health", "e_tested", "e_startup", "e_draw", "e_fail"}
LockedPcs  == {"b_chunk", "b_reseed", "c_health", "c_tested"}
Pcs == {"idle", "b_ready", "b_health", "b_wait", "fatal", "i_wait", "r_ready",
        "r_wait", "c_wait"} \cup EntropyPcs \cup LockedPcs

TypeOK ==
    /\ g_module_state \in States
    /\ g_fips_rand_ready \in BOOLEAN
    /\ initialized \in BOOLEAN
    /\ g_fips_rand_gen_count \in 0 .. CountModulus - 1
    /\ g_health_failed \in BOOLEAN
    /\ g_startup_tested \in BOOLEAN
    /\ g_fips_rand_lock \in Threads \cup {NoThread}
    /\ pc \in [Threads -> Pcs]
    /\ call \in [Threads -> CallKinds \cup {"none"}]
    /\ left \in [Threads -> 0 .. MaxChunks]
    /\ outs \in 0 .. RESEED_INTERVAL + 1
    /\ wrapped \in BOOLEAN

Init ==
    /\ g_module_state = "SELFTEST"
    /\ g_fips_rand_ready = FALSE
    /\ initialized = FALSE
    /\ g_fips_rand_gen_count = 0
    /\ g_health_failed = FALSE
    /\ g_startup_tested = FALSE
    /\ g_fips_rand_lock = NoThread
    /\ pc = [t \in Threads |-> "idle"]
    /\ call = [t \in Threads |-> "none"]
    /\ left = [t \in Threads |-> 0]
    /\ outs = 0
    /\ wrapped = FALSE

-----------------------------------------------------------------------------
GateOpen == g_module_state \in {"RUNNING", "SELFTEST"}

Goto(t, label) == pc' = [pc EXCEPT ![t] = label]

Begin(t, c, label) ==
    /\ pc[t] = "idle"
    /\ c \in Calls
    /\ call' = [call EXCEPT ![t] = c]
    /\ Goto(t, label)

Return(t) ==
    /\ call' = [call EXCEPT ![t] = "none"]
    /\ left' = [left EXCEPT ![t] = 0]
    /\ Goto(t, "idle")

Lock(t) == g_fips_rand_lock = NoThread /\ g_fips_rand_lock' = t

\* Only a bytes call reads the platform's entropy with the lock held.
Unlock(t) ==
    g_fips_rand_lock' = IF g_fips_rand_lock = t THEN NoThread ELSE g_fips_rand_lock

\* A seed, of whatever origin, has just been mixed in.
Seeded ==
    /\ g_fips_rand_gen_count' = 0
    /\ outs' = 0
    /\ wrapped' = FALSE

\* The life cycle moves the state as its own threads run; it never leaves ERROR.
ModuleMoves ==
    /\ g_module_state # "ERROR"
    /\ g_module_state' \in {"INIT", "SELFTEST", "RUNNING"} \ {g_module_state}
    /\ UNCHANGED <<drbg, flags, g_fips_rand_lock, pc, call, left>>

-----------------------------------------------------------------------------
(***************************************************************************)
(* qudo_fips_rand_bytes                                                    *)
(***************************************************************************)
BytesCall(t) ==
    /\ GateOpen
    /\ Begin(t, "bytes", "b_ready")
    /\ \E n \in 1 .. MaxChunks : left' = [left EXCEPT ![t] = n]
    /\ UNCHANGED <<g_module_state, drbg, flags, g_fips_rand_lock>>

BytesReady(t) ==
    /\ pc[t] = "b_ready"
    /\ IF g_fips_rand_ready THEN Goto(t, "b_health") /\ UNCHANGED <<call, left>>
                            ELSE Return(t)
    /\ UNCHANGED <<g_module_state, drbg, flags, g_fips_rand_lock>>

BytesHealth(t) ==
    /\ pc[t] = "b_health"
    /\ IF g_health_failed THEN Return(t)
                          ELSE Goto(t, "b_wait") /\ UNCHANGED <<call, left>>
    /\ UNCHANGED <<g_module_state, drbg, flags, g_fips_rand_lock>>

BytesLock(t) ==
    /\ pc[t] = "b_wait"
    /\ Lock(t)
    /\ Goto(t, "b_chunk")
    /\ UNCHANGED <<g_module_state, drbg, flags, call, left>>

\* The count after the pre-increment that starts every chunk.
NextCount == (g_fips_rand_gen_count + 1) % CountModulus

\* a variant that runs one chunk too many
BadGenerate(t, n) ==
    /\ outs' = IF initialized /\ n <= RESEED_INTERVAL THEN n + 1 ELSE n
    /\ IF initialized
       THEN /\ left' = [left EXCEPT ![t] = left[t] - 1]
            /\ Goto(t, IF left[t] >= 1 THEN "b_chunk" ELSE "idle")
            /\ UNCHANGED <<call, g_fips_rand_lock>>
       ELSE Return(t) /\ Unlock(t)

\* a variant without "out_len -= chunk"
EndlessGenerate(t, n) ==
    /\ outs' = IF initialized /\ n <= RESEED_INTERVAL THEN n + 1 ELSE n
    /\ IF initialized
       THEN Goto(t, "b_chunk") /\ UNCHANGED <<call, left, g_fips_rand_lock>>
       ELSE Return(t) /\ Unlock(t)

\* qudo_ctrdrbg_generate for one chunk, from a DRBG that has produced n chunks;
\* the last chunk ends the call.  A DRBG cleaned up meanwhile refuses.
Generate(t, n) ==
    /\ outs' = IF initialized /\ n <= RESEED_INTERVAL THEN n + 1 ELSE n
    /\ IF initialized /\ left[t] > 1
       THEN /\ left' = [left EXCEPT ![t] = left[t] - 1]
            /\ Goto(t, "b_chunk")
            /\ UNCHANGED <<call, g_fips_rand_lock>>
       ELSE Return(t) /\ Unlock(t)

\* a variant with ">" for ">=" in the test of the interval
BadBytesChunk(t) ==
    /\ pc[t] = "b_chunk"
    /\ NextCount <= RESEED_INTERVAL
    /\ g_fips_rand_gen_count' = NextCount
    /\ wrapped' = (wrapped \/ NextCount = 0)
    /\ Generate(t, outs)
    /\ UNCHANGED <<g_module_state, g_fips_rand_ready, initialized, flags>>

BytesChunk(t) ==
    /\ pc[t] = "b_chunk"
    /\ NextCount < RESEED_INTERVAL
    /\ g_fips_rand_gen_count' = NextCount
    /\ wrapped' = (wrapped \/ NextCount = 0)
    /\ Generate(t, outs)
    /\ UNCHANGED <<g_module_state, g_fips_rand_ready, initialized, flags>>

BytesDue(t) ==
    /\ pc[t] = "b_chunk"
    /\ NextCount >= RESEED_INTERVAL
    /\ g_fips_rand_gen_count' = NextCount
    /\ Goto(t, "e_health")
    /\ UNCHANGED <<g_module_state, g_fips_rand_ready, initialized, outs, wrapped,
                   flags, g_fips_rand_lock, call, left>>

\* Reseed with the fresh entropy and generate the chunk, uncounted.
BytesReseed(t) ==
    /\ pc[t] = "b_reseed"
    /\ initialized
    /\ g_fips_rand_gen_count' = 0
    /\ wrapped' = FALSE
    /\ Generate(t, 0)
    /\ UNCHANGED <<g_module_state, g_fips_rand_ready, initialized, flags>>

\* qudo_ctrdrbg_reseed refuses a DRBG that is not instantiated.
BytesReseedRefused(t) ==
    /\ pc[t] = "b_reseed"
    /\ ~initialized
    /\ Unlock(t)
    /\ Goto(t, "fatal")
    /\ UNCHANGED <<g_module_state, drbg, flags, call, left>>

\* qudo_pqc_set_error_state after the lock has been released.
Fatal(t) ==
    /\ pc[t] = "fatal"
    /\ g_module_state' = "ERROR"
    /\ Return(t)
    /\ UNCHANGED <<drbg, flags, g_fips_rand_lock>>

-----------------------------------------------------------------------------
(***************************************************************************)
(* platform_entropy, for a bytes call that is due for a reseed, under the  *)
(* lock, and for seed_from_platform, without it.                           *)
(***************************************************************************)
EntropyHealth(t) ==
    /\ pc[t] = "e_health"
    /\ IF g_health_failed
       THEN Return(t) /\ Unlock(t)
       ELSE Goto(t, "e_tested") /\ UNCHANGED <<call, left, g_fips_rand_lock>>
    /\ UNCHANGED <<g_module_state, drbg, flags>>

EntropyTested(t) ==
    /\ pc[t] = "e_tested"
    /\ Goto(t, IF g_startup_tested THEN "e_draw" ELSE "e_startup")
    /\ UNCHANGED <<g_module_state, drbg, flags, g_fips_rand_lock, call, left>>

StartupPasses(t) ==
    /\ pc[t] = "e_startup"
    /\ g_startup_tested' = TRUE
    /\ Goto(t, "e_draw")
    /\ UNCHANGED <<g_module_state, drbg, g_health_failed, g_fips_rand_lock, call,
                   left>>

\* During startup a failed read is a health failure too.
TestFails(t) ==
    /\ \/ pc[t] = "e_startup" /\ Faults # {}
       \/ pc[t] = "e_draw" /\ "health" \in Faults
    /\ g_health_failed' = TRUE
    /\ Goto(t, "e_fail")
    /\ UNCHANGED <<g_module_state, drbg, g_startup_tested, g_fips_rand_lock, call, left>>

\* The rest of entropy_health_fail, and the return through the caller.
HealthError(t) ==
    /\ pc[t] = "e_fail"
    /\ g_module_state' = "ERROR"
    /\ Return(t)
    /\ Unlock(t)
    /\ UNCHANGED <<drbg, flags>>

\* The source cannot be read: nothing is latched, the count keeps its value.
DrawFails(t) ==
    /\ pc[t] = "e_draw"
    /\ "read" \in Faults
    /\ Return(t)
    /\ Unlock(t)
    /\ UNCHANGED <<g_module_state, drbg, flags>>

DrawPasses(t) ==
    /\ pc[t] = "e_draw"
    /\ Goto(t, IF call[t] = "bytes" THEN "b_reseed" ELSE "i_wait")
    /\ UNCHANGED <<g_module_state, drbg, flags, g_fips_rand_lock, call, left>>

-----------------------------------------------------------------------------
(***************************************************************************)
(* qudo_fips_rand_seed_from_platform, _init, _reseed and _cleanup          *)
(***************************************************************************)
\* Not gated on the module's state.
SeedCall(t) ==
    /\ Begin(t, "seed", "e_health")
    /\ UNCHANGED <<g_module_state, drbg, flags, g_fips_rand_lock, left>>

RandInitCall(t) ==
    /\ GateOpen
    /\ Begin(t, "init", "i_wait")
    /\ UNCHANGED <<g_module_state, drbg, flags, g_fips_rand_lock, left>>

\* Instantiate under the lock, which nobody sees before it is released.
RandInit(t) ==
    /\ pc[t] = "i_wait"
    /\ g_fips_rand_lock = NoThread
    /\ initialized' = TRUE
    /\ g_fips_rand_ready' = TRUE
    /\ Seeded
    /\ Return(t)
    /\ UNCHANGED <<g_module_state, flags, g_fips_rand_lock>>

ReseedCall(t) ==
    /\ GateOpen
    /\ Begin(t, "reseed", "r_ready")
    /\ UNCHANGED <<g_module_state, drbg, flags, g_fips_rand_lock, left>>

ReseedReady(t) ==
    /\ pc[t] = "r_ready"
    /\ IF g_fips_rand_ready THEN Goto(t, "r_wait") /\ UNCHANGED <<call, left>>
                            ELSE Return(t)
    /\ UNCHANGED <<g_module_state, drbg, flags, g_fips_rand_lock>>

Reseed(t) ==
    /\ pc[t] = "r_wait"
    /\ g_fips_rand_lock = NoThread
    /\ initialized
    /\ Seeded
    /\ Return(t)
    /\ UNCHANGED <<g_module_state, g_fips_rand_ready, initialized, flags,
                   g_fips_rand_lock>>

ReseedRefused(t) ==
    /\ pc[t] = "r_wait"
    /\ g_fips_rand_lock = NoThread
    /\ ~initialized
    /\ Goto(t, "fatal")
    /\ UNCHANGED <<g_module_state, drbg, flags, g_fips_rand_lock, call, left>>

\* A DRBG that is not ready is left alone, latched health failure included.
CleanupCall(t) ==
    /\ g_fips_rand_ready
    /\ Begin(t, "cleanup", "c_wait")
    /\ UNCHANGED <<g_module_state, drbg, flags, g_fips_rand_lock, left>>

\* a variant that leaves the count alone
BadCleanupLock(t) ==
    /\ pc[t] = "c_wait"
    /\ Lock(t)
    /\ g_fips_rand_ready' = FALSE
    /\ initialized' = FALSE
    /\ Goto(t, "c_health")
    /\ UNCHANGED <<g_module_state, g_fips_rand_gen_count, outs, wrapped, flags, call,
                   left>>

CleanupLock(t) ==
    /\ pc[t] = "c_wait"
    /\ Lock(t)
    /\ g_fips_rand_ready' = FALSE
    /\ initialized' = FALSE
    /\ Seeded
    /\ Goto(t, "c_health")
    /\ UNCHANGED <<g_module_state, flags, call, left>>

CleanupHealth(t) ==
    /\ pc[t] = "c_health"
    /\ g_health_failed' = FALSE
    /\ Goto(t, "c_tested")
    /\ UNCHANGED <<g_module_state, drbg, g_startup_tested, g_fips_rand_lock, call,
                   left>>

CleanupTested(t) ==
    /\ pc[t] = "c_tested"
    /\ g_startup_tested' = FALSE
    /\ Unlock(t)
    /\ Return(t)
    /\ UNCHANGED <<g_module_state, drbg, g_health_failed>>

-----------------------------------------------------------------------------
Enter(t) ==
    BytesCall(t) \/ SeedCall(t) \/ RandInitCall(t) \/ ReseedCall(t) \/ CleanupCall(t)

LockWaits(t) ==
    BytesLock(t) \/ RandInit(t) \/ Reseed(t) \/ ReseedRefused(t) \/ CleanupLock(t)

\* The steps of a thread that is inside a call and not waiting for the lock.
Progress(t) ==
    \/ BytesReady(t) \/ BytesHealth(t) \/ BytesChunk(t) \/ BytesDue(t)
    \/ BytesReseed(t) \/ BytesReseedRefused(t) \/ Fatal(t)
    \/ EntropyHealth(t) \/ EntropyTested(t) \/ StartupPasses(t) \/ TestFails(t)
    \/ HealthError(t) \/ DrawFails(t) \/ DrawPasses(t)
    \/ ReseedReady(t) \/ CleanupHealth(t) \/ CleanupTested(t)

Next ==
    \/ \E t \in Threads : Enter(t) \/ LockWaits(t) \/ Progress(t)
    \/ ModuleMoves

\* A thread inside a call keeps running; nothing is assumed of the callers or
\* of the order in which the lock admits its waiters.
Fairness == \A t \in Threads : WF_vars(Progress(t))

Spec == Init /\ [][Next]_vars /\ Fairness

-----------------------------------------------------------------------------
(***************************************************************************)
(* Properties                                                              *)
(***************************************************************************)
\* Between two seeds the DRBG produces at most RESEED_INTERVAL chunks, whoever
\* draws, seeds or cleans up, as long as the count has not wrapped: the chunk
\* that follows an automatic reseed is not counted.
ReseedBound == ~wrapped => outs <= RESEED_INTERVAL

\* Its inductive form: the count covers every chunk but that one.
CountCovers ==
    ~wrapped => outs <= RESEED_INTERVAL /\ outs <= g_fips_rand_gen_count + 1

\* A cleanup leaves behind only the draws that are under way, each of which
\* moves the count once before it is refused: it takes as many threads as the
\* interval is long before one of them reseeds a DRBG that is not instantiated
\* and puts a module in ERROR in which no test has failed.
OvertakenBounded == ~initialized => g_fips_rand_gen_count < Cardinality(Threads)

\* The lock is given back on every path, the failing ones included.
RandLockReleased == g_fips_rand_lock # NoThread ~> g_fips_rand_lock = NoThread

-----------------------------------------------------------------------------
(***************************************************************************)
(* Statements of the documentation that the code does not meet.            *)
(***************************************************************************)
\* "The module state machine, DRBG, and self-test paths are synchronised"
\* (docs/development/PORTING.md): the counters of the health tests, which the
\* tests update and the cleanup resets, have one user at a time.
HealthTestsExclusive ==
    Cardinality({t \in Threads : pc[t] \in {"e_startup", "e_draw", "c_health"}}) <= 1
=============================================================================
