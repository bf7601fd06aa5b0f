---------------------------- MODULE FipsRandProofs ----------------------------
(***************************************************************************)
(* Theorems about FipsRand, for any threads, calls, faults, interval and   *)
(* counter width.                                                          *)
(***************************************************************************)
EXTENDS FipsRand, FiniteSetTheorems, TLAPS

\* The count after an increment stays within its width; unless it wraps to
\* zero, it grows by one.
LEMMA NextCountFacts ==
  ASSUME TypeOK
  PROVE  /\ NextCount \in 0 .. CountModulus - 1
         /\ NextCount # 0 => NextCount = g_fips_rand_gen_count + 1
<1>1. CASE g_fips_rand_gen_count + 1 = CountModulus
  BY <1>1, IntervalAssumption DEF TypeOK, NextCount
<1>2. CASE g_fips_rand_gen_count + 1 # CountModulus
  BY <1>2, IntervalAssumption DEF TypeOK, NextCount
<1> QED
  BY <1>1, <1>2

\* Zero is in the range of every counter.
LEMMA ZeroInRange ==
  /\ 0 \in 0 .. CountModulus - 1
  /\ 0 \in 0 .. RESEED_INTERVAL + 1
  /\ 0 \in 0 .. MaxChunks
  BY IntervalAssumption, ChunksAssumption

\* A fresh DRBG is well typed.
LEMMA RandTypeInit == Init => TypeOK
<1> SUFFICES ASSUME Init PROVE TypeOK
  OBVIOUS
<1>1. /\ pc \in [Threads -> Pcs]
      /\ call \in [Threads -> CallKinds \cup {"none"}]
      /\ left \in [Threads -> 0 .. MaxChunks]
  BY ZeroInRange DEF Init, Pcs
<1> QED
  BY <1>1, ZeroInRange DEF Init, TypeOK, States

\* Returning from a call, and unlocking, keep the types of what they change.
LEMMA ReturnUnlockType ==
  ASSUME TypeOK, NEW t \in Threads
  PROVE  /\ Return(t) => /\ pc' \in [Threads -> Pcs]
                         /\ call' \in [Threads -> CallKinds \cup {"none"}]
                         /\ left' \in [Threads -> 0 .. MaxChunks]
         /\ Unlock(t) => g_fips_rand_lock' \in Threads \cup {NoThread}
<1>1. ASSUME Return(t)
      PROVE  /\ pc' \in [Threads -> Pcs]
             /\ call' \in [Threads -> CallKinds \cup {"none"}]
             /\ left' \in [Threads -> 0 .. MaxChunks]
  BY <1>1, ZeroInRange DEF TypeOK, Return, Goto, Pcs
<1>2. ASSUME Unlock(t) PROVE g_fips_rand_lock' \in Threads \cup {NoThread}
  BY <1>2 DEF TypeOK, Unlock
<1> QED
  BY <1>1, <1>2

\* A thread's step keeps every variable in its type.
LEMMA RandTypeThread ==
  ASSUME TypeOK, NEW t \in Threads, Enter(t) \/ LockWaits(t) \/ Progress(t)
  PROVE  TypeOK'
<1> USE ThreadAssumption, IntervalAssumption, ChunksAssumption
    DEF TypeOK, Goto, flags, drbg, Pcs, EntropyPcs, LockedPcs, CallKinds, States
<1>1. CASE BytesCall(t)
  BY <1>1 DEF BytesCall, Begin
<1>2. CASE SeedCall(t)
  BY <1>2 DEF SeedCall, Begin
<1>3. CASE RandInitCall(t)
  BY <1>3 DEF RandInitCall, Begin
<1>4. CASE ReseedCall(t)
  BY <1>4 DEF ReseedCall, Begin
<1>5. CASE CleanupCall(t)
  BY <1>5 DEF CleanupCall, Begin
<1>6. CASE BytesLock(t)
  BY <1>6 DEF BytesLock, Lock
<1>7. CASE RandInit(t)
  BY <1>7, ZeroInRange, ReturnUnlockType DEF RandInit, Seeded
<1>8. CASE Reseed(t)
  BY <1>8, ZeroInRange, ReturnUnlockType DEF Reseed, Seeded
<1>9. CASE ReseedRefused(t)
  BY <1>9 DEF ReseedRefused
<1>10. CASE CleanupLock(t)
  BY <1>10, ZeroInRange DEF CleanupLock, Lock, Seeded
<1>11. CASE BytesReady(t)
  BY <1>11, ReturnUnlockType DEF BytesReady
<1>12. CASE BytesHealth(t)
  BY <1>12, ReturnUnlockType DEF BytesHealth
<1>13. CASE BytesChunk(t)
  BY <1>13, NextCountFacts DEF BytesChunk, Generate, Return, Unlock
<1>14. CASE BytesDue(t)
  BY <1>14, NextCountFacts DEF BytesDue
<1>15. CASE BytesReseed(t)
  <2>1. outs' \in 0 .. RESEED_INTERVAL + 1 /\ g_fips_rand_gen_count' \in 0 .. CountModulus - 1
    BY <1>15, ZeroInRange DEF BytesReseed, Generate
  <2>2. CASE initialized /\ left[t] > 1
    <3>1. left' \in [Threads -> 0 .. MaxChunks]
      BY <1>15, <2>2 DEF BytesReseed, Generate
    <3>2. pc' \in [Threads -> Pcs]
      BY <1>15, <2>2 DEF BytesReseed, Generate
    <3> QED
      BY <1>15, <2>1, <2>2, <3>1, <3>2 DEF BytesReseed, Generate
  <2>3. CASE ~(initialized /\ left[t] > 1)
    BY <1>15, <2>1, <2>3, ReturnUnlockType DEF BytesReseed, Generate
  <2> QED
    BY <2>2, <2>3
<1>16. CASE BytesReseedRefused(t)
  BY <1>16, ReturnUnlockType DEF BytesReseedRefused
<1>17. CASE Fatal(t)
  BY <1>17, ReturnUnlockType DEF Fatal
<1>18. CASE EntropyHealth(t)
  BY <1>18, ReturnUnlockType DEF EntropyHealth
<1>19. CASE EntropyTested(t)
  BY <1>19 DEF EntropyTested
<1>20. CASE StartupPasses(t)
  BY <1>20 DEF StartupPasses
<1>21. CASE TestFails(t)
  BY <1>21 DEF TestFails
<1>22. CASE HealthError(t)
  BY <1>22, ReturnUnlockType DEF HealthError
<1>23. CASE DrawFails(t)
  BY <1>23, ReturnUnlockType DEF DrawFails
<1>24. CASE DrawPasses(t)
  BY <1>24 DEF DrawPasses
<1>25. CASE ReseedReady(t)
  BY <1>25, ReturnUnlockType DEF ReseedReady
<1>26. CASE CleanupHealth(t)
  BY <1>26 DEF CleanupHealth
<1>27. CASE CleanupTested(t)
  BY <1>27, ReturnUnlockType DEF CleanupTested
<1> QED
  BY <1>1, <1>2, <1>3, <1>4, <1>5, <1>6, <1>7, <1>8, <1>9, <1>10, <1>11,
     <1>12, <1>13, <1>14, <1>15, <1>16, <1>17, <1>18, <1>19, <1>20, <1>21,
     <1>22, <1>23, <1>24, <1>25, <1>26, <1>27 DEF Enter, LockWaits, Progress

\* Every step keeps every variable in its type.
LEMMA RandTypeNext == TypeOK /\ [Next]_vars => TypeOK'
<1> SUFFICES ASSUME TypeOK, [Next]_vars PROVE TypeOK'
  OBVIOUS
<1>1. CASE ModuleMoves
  BY <1>1 DEF ModuleMoves, TypeOK, flags, drbg, States
<1>2. CASE UNCHANGED vars
  BY <1>2 DEF vars, TypeOK, flags, drbg
<1> QED
  BY <1>1, <1>2, RandTypeThread DEF Next

\* Every variable of the generator always has a value of its type: the count
\* never leaves its width, however often a reseed fails.
THEOREM RandTypeCorrect == Spec => []TypeOK
  BY RandTypeInit, RandTypeNext, PTL DEF Spec

-----------------------------------------------------------------------------
(***************************************************************************)
(* The reseed interval.  The count lags the chunks by at most the one that *)
(* follows an automatic reseed.                                            *)
(***************************************************************************)
\* A thread's step preserves CountCovers.
LEMMA CoversThread ==
  ASSUME TypeOK, CountCovers, NEW t \in Threads, Enter(t) \/ LockWaits(t) \/ Progress(t)
  PROVE  CountCovers'
<1> USE IntervalAssumption DEF TypeOK, CountCovers, flags, drbg
<1>1. CASE BytesCall(t)
  BY <1>1 DEF BytesCall
<1>2. CASE SeedCall(t)
  BY <1>2 DEF SeedCall
<1>3. CASE RandInitCall(t)
  BY <1>3 DEF RandInitCall
<1>4. CASE ReseedCall(t)
  BY <1>4 DEF ReseedCall
<1>5. CASE CleanupCall(t)
  BY <1>5 DEF CleanupCall
<1>6. CASE BytesLock(t)
  BY <1>6 DEF BytesLock
<1>7. CASE RandInit(t)
  BY <1>7 DEF RandInit, Seeded
<1>8. CASE Reseed(t)
  BY <1>8 DEF Reseed, Seeded
<1>9. CASE ReseedRefused(t)
  BY <1>9 DEF ReseedRefused
<1>10. CASE CleanupLock(t)
  BY <1>10 DEF CleanupLock, Seeded
<1>11. CASE BytesReady(t)
  BY <1>11 DEF BytesReady
<1>12. CASE BytesHealth(t)
  BY <1>12 DEF BytesHealth
<1>13. CASE BytesChunk(t)
  <2>1. CASE NextCount = 0
    BY <1>13, <2>1 DEF BytesChunk
  <2>2. CASE NextCount # 0
    <3>1. g_fips_rand_gen_count' = g_fips_rand_gen_count + 1
      BY <1>13, <2>2, NextCountFacts DEF BytesChunk
    <3>2. g_fips_rand_gen_count + 1 < RESEED_INTERVAL /\ (outs' = outs \/ outs' = outs + 1)
      BY <1>13, <2>2, NextCountFacts DEF BytesChunk, Generate
    <3>3. wrapped' = wrapped
      BY <1>13, <2>2 DEF BytesChunk
    <3> QED
      BY <3>1, <3>2, <3>3
  <2> QED
    BY <2>1, <2>2
<1>14. CASE BytesDue(t)
  BY <1>14, NextCountFacts DEF BytesDue
<1>15. CASE BytesReseed(t)
  BY <1>15 DEF BytesReseed, Generate
<1>16. CASE BytesReseedRefused(t)
  BY <1>16 DEF BytesReseedRefused
<1>17. CASE Fatal(t)
  BY <1>17 DEF Fatal
<1>18. CASE EntropyHealth(t)
  BY <1>18 DEF EntropyHealth
<1>19. CASE EntropyTested(t)
  BY <1>19 DEF EntropyTested
<1>20. CASE StartupPasses(t)
  BY <1>20 DEF StartupPasses
<1>21. CASE TestFails(t)
  BY <1>21 DEF TestFails
<1>22. CASE HealthError(t)
  BY <1>22 DEF HealthError
<1>23. CASE DrawFails(t)
  BY <1>23 DEF DrawFails
<1>24. CASE DrawPasses(t)
  BY <1>24 DEF DrawPasses
<1>25. CASE ReseedReady(t)
  BY <1>25 DEF ReseedReady
<1>26. CASE CleanupHealth(t)
  BY <1>26 DEF CleanupHealth
<1>27. CASE CleanupTested(t)
  BY <1>27 DEF CleanupTested
<1> QED
  BY <1>1, <1>2, <1>3, <1>4, <1>5, <1>6, <1>7, <1>8, <1>9, <1>10, <1>11,
     <1>12, <1>13, <1>14, <1>15, <1>16, <1>17, <1>18, <1>19, <1>20, <1>21,
     <1>22, <1>23, <1>24, <1>25, <1>26, <1>27 DEF Enter, LockWaits, Progress

\* Until the counter wraps, no more than RESEED_INTERVAL chunks are ever drawn
\* from one seed, whatever threads draw, seed, reseed or clean up concurrently.
THEOREM ReseedBounded == Spec => []ReseedBound
<1>1. Init => CountCovers
  BY IntervalAssumption DEF Init, CountCovers
<1>2. TypeOK /\ CountCovers /\ [Next]_vars => CountCovers'
  <2> SUFFICES ASSUME TypeOK, CountCovers, [Next]_vars PROVE CountCovers'
    OBVIOUS
  <2>1. CASE ModuleMoves
    BY <2>1 DEF ModuleMoves, CountCovers, drbg
  <2>2. CASE UNCHANGED vars
    BY <2>2 DEF vars, CountCovers, drbg
  <2> QED
    BY <2>1, <2>2, CoversThread DEF Next
<1>3. CountCovers => ReseedBound
  BY DEF CountCovers, ReseedBound
<1> QED
  BY <1>1, <1>2, <1>3, RandTypeCorrect, PTL DEF Spec

-----------------------------------------------------------------------------
(***************************************************************************)
(* The draws that a cleanup overtakes.  A thread past the test of          *)
(* g_fips_rand_ready moves the count once more and is then refused; nobody *)
(* passes that test until the DRBG is instantiated again.                  *)
(***************************************************************************)
\* The points of qudo_fips_rand_bytes past the ready test and before the count.
DrawPcs == {"b_health", "b_wait", "b_chunk"}
Drawers == {t \in Threads : pc[t] \in DrawPcs}

\* The inductive form of OvertakenBounded: the count and the draws that may
\* still move it are fewer than the threads, one of which cleaned up.
DrawBound ==
    /\ g_fips_rand_ready = initialized
    /\ ~initialized => g_fips_rand_gen_count + Cardinality(Drawers) < Cardinality(Threads)

\* A thread's step instantiates the DRBG or finds it instantiated, cleans it up,
\* spends the thread's draw on one increment, or starts no draw and leaves the
\* count alone.
LEMMA DrawFrame ==
  ASSUME TypeOK, g_fips_rand_ready = initialized, NEW t \in Threads,
         Enter(t) \/ LockWaits(t) \/ Progress(t)
  PROVE  /\ \A r \in Threads \ {t} : pc'[r] = pc[r]
         /\ g_fips_rand_ready' = initialized'
         /\ \/ initialized'
            \/ g_fips_rand_gen_count' = 0 /\ pc'[t] \notin DrawPcs
            \/ /\ ~initialized
               /\ pc[t] \in DrawPcs /\ pc'[t] \notin DrawPcs
               /\ g_fips_rand_gen_count' <= g_fips_rand_gen_count + 1
            \/ /\ ~initialized
               /\ g_fips_rand_gen_count' = g_fips_rand_gen_count
               /\ pc'[t] \in DrawPcs => pc[t] \in DrawPcs
<1> USE IntervalAssumption DEF TypeOK, Goto, flags, drbg, DrawPcs
<1>1. CASE BytesCall(t)
  BY <1>1 DEF BytesCall, Begin
<1>2. CASE SeedCall(t)
  BY <1>2 DEF SeedCall, Begin
<1>3. CASE RandInitCall(t)
  BY <1>3 DEF RandInitCall, Begin
<1>4. CASE ReseedCall(t)
  BY <1>4 DEF ReseedCall, Begin
<1>5. CASE CleanupCall(t)
  BY <1>5 DEF CleanupCall, Begin
<1>6. CASE BytesLock(t)
  BY <1>6 DEF BytesLock
<1>7. CASE RandInit(t)
  BY <1>7 DEF RandInit, Return
<1>8. CASE Reseed(t)
  BY <1>8 DEF Reseed, Return, Seeded
<1>9. CASE ReseedRefused(t)
  BY <1>9 DEF ReseedRefused
<1>10. CASE CleanupLock(t)
  BY <1>10 DEF CleanupLock, Seeded
<1>11. CASE BytesReady(t)
  BY <1>11 DEF BytesReady, Return
<1>12. CASE BytesHealth(t)
  BY <1>12 DEF BytesHealth, Return
<1>13. CASE BytesChunk(t)
  BY <1>13, NextCountFacts DEF BytesChunk, Generate, Return
<1>14. CASE BytesDue(t)
  BY <1>14, NextCountFacts DEF BytesDue
<1>15. CASE BytesReseed(t)
  BY <1>15 DEF BytesReseed, Generate, Return
<1>16. CASE BytesReseedRefused(t)
  BY <1>16 DEF BytesReseedRefused
<1>17. CASE Fatal(t)
  BY <1>17 DEF Fatal, Return
<1>18. CASE EntropyHealth(t)
  BY <1>18 DEF EntropyHealth, Return
<1>19. CASE EntropyTested(t)
  BY <1>19 DEF EntropyTested
<1>20. CASE StartupPasses(t)
  BY <1>20 DEF StartupPasses
<1>21. CASE TestFails(t)
  BY <1>21 DEF TestFails
<1>22. CASE HealthError(t)
  BY <1>22 DEF HealthError, Return
<1>23. CASE DrawFails(t)
  BY <1>23 DEF DrawFails, Return
<1>24. CASE DrawPasses(t)
  BY <1>24 DEF DrawPasses
<1>25. CASE ReseedReady(t)
  BY <1>25 DEF ReseedReady, Return
<1>26. CASE CleanupHealth(t)
  BY <1>26 DEF CleanupHealth
<1>27. CASE CleanupTested(t)
  BY <1>27 DEF CleanupTested, Return
<1> QED
  BY <1>1, <1>2, <1>3, <1>4, <1>5, <1>6, <1>7, <1>8, <1>9, <1>10, <1>11,
     <1>12, <1>13, <1>14, <1>15, <1>16, <1>17, <1>18, <1>19, <1>20, <1>21,
     <1>22, <1>23, <1>24, <1>25, <1>26, <1>27 DEF Enter, LockWaits, Progress

\* Every step keeps the bound.
LEMMA DrawNext ==
  ASSUME IsFiniteSet(Threads), TypeOK, DrawBound, [Next]_vars
  PROVE  DrawBound'
<1>1. /\ IsFiniteSet(Drawers) /\ Cardinality(Drawers) \in Nat
      /\ IsFiniteSet(Drawers') /\ Cardinality(Drawers') \in Nat
      /\ Cardinality(Threads) \in Nat
  <2>1. Drawers \subseteq Threads /\ Drawers' \subseteq Threads
    BY DEF Drawers
  <2> QED
    BY <2>1, FS_Subset, FS_CardinalityType
<1>2. g_fips_rand_gen_count \in Nat /\ g_fips_rand_gen_count' \in Nat
  BY RandTypeNext, IntervalAssumption DEF TypeOK
<1>3. CASE ModuleMoves
  BY <1>3 DEF ModuleMoves, drbg, DrawBound, Drawers
<1>4. CASE UNCHANGED vars
  BY <1>4 DEF vars, drbg, DrawBound, Drawers
<1>5. ASSUME NEW t \in Threads, Enter(t) \/ LockWaits(t) \/ Progress(t)
      PROVE  DrawBound'
  <2>1. /\ \A r \in Threads \ {t} : pc'[r] = pc[r]
        /\ g_fips_rand_ready' = initialized'
    BY <1>5, DrawFrame DEF DrawBound
  <2>2. CASE initialized'
    BY <2>1, <2>2 DEF DrawBound
  <2>3. CASE g_fips_rand_gen_count' = 0 /\ pc'[t] \notin DrawPcs
    <3>1. Drawers' \subseteq Threads \ {t}
      BY <2>3 DEF Drawers
    <3>2. Cardinality(Threads \ {t}) = Cardinality(Threads) - 1 /\ IsFiniteSet(Threads \ {t})
      BY <1>5, FS_RemoveElement
    <3>3. Cardinality(Drawers') <= Cardinality(Threads \ {t})
      BY <3>1, <3>2, FS_Subset
    <3> QED
      BY <1>1, <2>1, <2>3, <3>2, <3>3 DEF DrawBound
  <2>4. CASE /\ ~initialized
             /\ pc[t] \in DrawPcs /\ pc'[t] \notin DrawPcs
             /\ g_fips_rand_gen_count' <= g_fips_rand_gen_count + 1
    <3>1. Drawers' = Drawers \ {t} /\ t \in Drawers
      BY <2>1, <2>4 DEF Drawers
    <3>2. Cardinality(Drawers') = Cardinality(Drawers) - 1
      BY <1>1, <3>1, FS_RemoveElement
    <3> QED
      BY <1>1, <1>2, <2>1, <2>4, <3>2 DEF DrawBound
  <2>5. CASE /\ ~initialized
             /\ g_fips_rand_gen_count' = g_fips_rand_gen_count
             /\ pc'[t] \in DrawPcs => pc[t] \in DrawPcs
    <3>1. Drawers' \subseteq Drawers
      BY <2>1, <2>5 DEF Drawers
    <3>2. Cardinality(Drawers') <= Cardinality(Drawers)
      BY <1>1, <3>1, FS_Subset
    <3> QED
      BY <1>1, <1>2, <2>1, <2>5, <3>2 DEF DrawBound
  <2> QED
    BY <1>5, <2>2, <2>3, <2>4, <2>5, DrawFrame DEF DrawBound
<1> QED
  BY <1>3, <1>4, <1>5 DEF Next

\* However the draws and the cleanups of any finite number of threads interleave,
\* the count of a DRBG that is not instantiated stays below that number: a
\* module with fewer threads than the reseed interval is never put in ERROR by
\* a draw that a cleanup has overtaken.
THEOREM OvertakenStaysBounded ==
  ASSUME IsFiniteSet(Threads), Threads # {}
  PROVE  Spec => []OvertakenBounded
<1>1. Init => DrawBound
  <2> SUFFICES ASSUME Init PROVE DrawBound
    OBVIOUS
  <2>1. Drawers = {}
    BY DEF Init, Drawers, DrawPcs
  <2>2. Cardinality({}) = 0 /\ Cardinality(Threads) \in Nat /\ Cardinality(Threads) # 0
    BY FS_EmptySet, FS_CardinalityType
  <2>3. Cardinality(Drawers) = 0
    BY <2>1, <2>2
  <2>4. g_fips_rand_gen_count + Cardinality(Drawers) < Cardinality(Threads)
    BY <2>2, <2>3 DEF Init
  <2>5. g_fips_rand_ready = initialized
    BY DEF Init
  <2> QED
    BY <2>4, <2>5, Zenon DEF DrawBound
<1>2. TypeOK /\ DrawBound /\ [Next]_vars => DrawBound'
  BY DrawNext
<1>3. TypeOK /\ DrawBound => OvertakenBounded
  <2> SUFFICES ASSUME TypeOK, DrawBound PROVE OvertakenBounded
    OBVIOUS
  <2>1. Drawers \subseteq Threads
    BY DEF Drawers
  <2>2. Cardinality(Drawers) \in Nat /\ Cardinality(Threads) \in Nat
    BY <2>1, FS_Subset, FS_CardinalityType
  <2> QED
    BY <2>2, IntervalAssumption DEF TypeOK, DrawBound, OvertakenBounded
<1> QED
  BY <1>1, <1>2, <1>3, RandTypeCorrect, PTL DEF Spec
=============================================================================
