--------------------------- MODULE HealthTestsProofs ---------------------------
(***************************************************************************)
(* Theorems about HealthTests, for any sample values, cutoffs and window.  *)
(***************************************************************************)
EXTENDS HealthTests, FiniteSetTheorems, TLAPS

\* Zero is in the range of every counter, one in that of the run counter and of
\* the window's.
LEMMA CounterRanges ==
  /\ 0 \in 0 .. RctCutoff
  /\ 0 \in 0 .. AptCutoff - 1
  /\ 0 \in 0 .. AptWindow
  /\ 0 < RctCutoff
  BY CutoffAssumption

\* Before the first sample, and after a cleanup, the counters are in bounds.
LEMMA HealthTypeInit == Init => TypeOK /\ Bounds
<1> SUFFICES ASSUME Init PROVE TypeOK /\ Bounds
  OBVIOUS
<1>1. samples \in Seq(Samples)
  BY DEF Init
<1>2. /\ g_rct_b \in 0 .. RctCutoff /\ g_apt_b \in 0 .. AptCutoff - 1
      /\ g_apt_i \in 0 .. AptWindow
  BY CounterRanges, Zenon DEF Init
<1>3. g_rct_a \in Samples /\ g_apt_a \in Samples /\ failed \in BOOLEAN
  BY SamplesAssumption DEF Init
<1>4. Bounds
  BY CounterRanges DEF Init, Bounds
<1> QED
  BY <1>1, <1>2, <1>3, <1>4 DEF TypeOK

\* Testing a sample, and cleaning up, keeps the counters in bounds.
LEMMA HealthTypeNext == TypeOK /\ Bounds /\ [Next]_vars => (TypeOK /\ Bounds)'
<1> SUFFICES ASSUME TypeOK, Bounds, [Next]_vars PROVE (TypeOK /\ Bounds)'
  OBVIOUS
<1> USE SamplesAssumption, CutoffAssumption DEF TypeOK, Bounds
<1>1. ASSUME NEW x \in Samples, SamplePasses(x) PROVE (TypeOK /\ Bounds)'
  <2>1. /\ g_rct_a' \in Samples
        /\ g_rct_b' \in 0 .. RctCutoff
        /\ g_rct_b' < RctCutoff
    BY <1>1 DEF SamplePasses, Drawn, RctTest, RctFails, Repeats
  <2>2. /\ g_apt_a' \in Samples
        /\ g_apt_b' \in 0 .. AptCutoff - 1
    BY <1>1 DEF SamplePasses, AptTest, AptFails
  <2>3. /\ g_apt_i' \in 0 .. AptWindow
        /\ g_apt_b' # 0 => g_apt_i' < AptWindow
    <3>1. CASE g_apt_b = 0
      BY <1>1, <3>1 DEF SamplePasses, AptTest
    <3>2. CASE g_apt_b # 0
      BY <1>1, <3>2 DEF SamplePasses, AptTest
    <3> QED
      BY <3>1, <3>2
  <2>4. samples' \in Seq(Samples)
    BY <1>1 DEF SamplePasses, Drawn
  <2> QED
    BY <1>1, <2>1, <2>2, <2>3, <2>4 DEF SamplePasses
<1>2. ASSUME NEW x \in Samples, RejectRepetition(x) PROVE (TypeOK /\ Bounds)'
  <2>1. g_rct_a' \in Samples /\ g_rct_b' \in 0 .. RctCutoff
    BY <1>2 DEF RejectRepetition, Drawn, RctTest, RctFails, Repeats
  <2>2. samples' \in Seq(Samples)
    BY <1>2 DEF RejectRepetition, Drawn
  <2> QED
    BY <1>2, <2>1, <2>2 DEF RejectRepetition, apt
<1>3. ASSUME NEW x \in Samples, RejectProportion(x) PROVE (TypeOK /\ Bounds)'
  <2>1. g_rct_a' \in Samples /\ g_rct_b' \in 0 .. RctCutoff
    BY <1>3 DEF RejectProportion, Drawn, RctTest, RctFails, Repeats
  <2>2. samples' \in Seq(Samples)
    BY <1>3 DEF RejectProportion, Drawn
  <2> QED
    BY <1>3, <2>1, <2>2, CounterRanges DEF RejectProportion
<1>4. CASE Cleanup
  <2>1. samples' \in Seq(Samples)
    BY <1>4 DEF Cleanup
  <2>2. /\ g_rct_b' \in 0 .. RctCutoff /\ g_apt_b' \in 0 .. AptCutoff - 1
        /\ g_apt_i' \in 0 .. AptWindow
    BY <1>4, CounterRanges, Zenon DEF Cleanup
  <2>3. g_rct_a' \in Samples /\ g_apt_a' \in Samples /\ failed' \in BOOLEAN
    BY <1>4 DEF Cleanup
  <2>4. Bounds'
    BY <1>4, CounterRanges DEF Cleanup
  <2> QED
    BY <2>1, <2>2, <2>3, <2>4
<1>5. CASE UNCHANGED vars
  BY <1>5 DEF vars, rct, apt
<1> QED
  BY <1>1, <1>2, <1>3, <1>4, <1>5 DEF Next

\* The counters keep their types: the run counter never exceeds its cutoff and
\* the count of a window never reaches its own.
THEOREM HealthTypeCorrect == Spec => []TypeOK
  BY HealthTypeInit, HealthTypeNext, PTL DEF Spec

\* Samples that the tests have accepted hold no run of RctCutoff equal ones.
NoRunAccepted == ~failed => ~HasRun(samples, RctCutoff)

\* The inductive form of it: the counter of rct_test is the length of the last
\* run.
RunCounted ==
    ~failed =>
        /\ g_rct_b <= Len(samples)
        /\ g_rct_b = 0 => samples = <<>>
        /\ \A j \in 1 .. Len(samples) :
               j > Len(samples) - g_rct_b => samples[j] = g_rct_a
        /\ g_rct_b < Len(samples) => samples[Len(samples) - g_rct_b] # g_rct_a

-----------------------------------------------------------------------------
(***************************************************************************)
(* The repetition count test                                               *)
(***************************************************************************)
\* Accepting a sample keeps RunCounted, and the run it ends is too short.
LEMMA RunStep ==
  ASSUME TypeOK, Bounds, RunCounted, NoRunAccepted, NEW x \in Samples, SamplePasses(x)
  PROVE  RunCounted' /\ NoRunAccepted'
<1> USE CutoffAssumption DEF TypeOK, Bounds
<1> PICK n \in Nat : n = Len(samples)
  OBVIOUS
<1>1. /\ ~failed /\ ~failed'
      /\ samples' = Append(samples, x)
      /\ Len(samples') = n + 1
      /\ samples'[n + 1] = x
      /\ \A j \in 1 .. n : samples'[j] = samples[j]
      /\ n \in Nat
  BY DEF SamplePasses, Drawn
<1>2. /\ g_rct_a' = x
      /\ g_rct_b' < RctCutoff
      /\ g_rct_b' \in Nat
      /\ g_rct_b' = IF Repeats(x) THEN g_rct_b + 1 ELSE 1
  BY DEF SamplePasses, RctTest, RctFails, Repeats
<1>3. /\ g_rct_b <= n
      /\ g_rct_b = 0 => samples = <<>>
      /\ \A j \in 1 .. n : j > n - g_rct_b => samples[j] = g_rct_a
      /\ g_rct_b < n => samples[n - g_rct_b] # g_rct_a
  BY <1>1 DEF RunCounted
<1>4. /\ g_rct_b' <= n + 1
      /\ g_rct_b' # 0
      /\ \A j \in 1 .. n + 1 : j > n + 1 - g_rct_b' => samples'[j] = x
      /\ g_rct_b' < n + 1 => samples'[n + 1 - g_rct_b'] # x
  <2>1. CASE Repeats(x)
    BY <1>1, <1>2, <1>3, <2>1 DEF Repeats
  <2>2. CASE ~Repeats(x)
    <3>1. g_rct_b' = 1
      BY <1>2, <2>2
    <3>2. CASE g_rct_b = 0
      BY <1>1, <1>3, <3>1, <3>2
    <3>3. CASE g_rct_b # 0
      BY <1>1, <1>3, <2>2, <3>1, <3>3 DEF Repeats
    <3> QED
      BY <3>2, <3>3
  <2> QED
    BY <2>1, <2>2
<1>5. RunCounted'
  BY <1>1, <1>2, <1>4 DEF RunCounted
<1>6. NoRunAccepted'
  <2> SUFFICES ASSUME HasRun(samples', RctCutoff) PROVE FALSE
    BY <1>1 DEF NoRunAccepted, HasRun
  <2> PICK i \in 1 .. Len(samples') - RctCutoff + 1 :
             \A j \in i .. i + RctCutoff - 1 : samples'[j] = samples'[i]
    BY Zenon DEF HasRun
  <2>0. i \in 1 .. n + 1 - RctCutoff + 1
    BY <1>1
  <2>1. CASE i + RctCutoff - 1 <= n
    <3>1. \A j \in i .. i + RctCutoff - 1 : samples[j] = samples[i]
      BY <1>1, <2>0, <2>1
    <3>2. i \in 1 .. Len(samples) - RctCutoff + 1
      BY <1>1, <2>0, <2>1
    <3>3. ~HasRun(samples, RctCutoff)
      BY <1>1 DEF NoRunAccepted
    <3> QED
      BY <3>1, <3>2, <3>3, Zenon DEF HasRun
  <2>2. CASE i + RctCutoff - 1 = n + 1
    <3>1. samples'[i] = x
      <4>1. n + 1 \in i .. i + RctCutoff - 1
        BY <2>0, <2>2
      <4> QED
        BY <1>1, <4>1, Zenon
    <3>2. n + 1 - g_rct_b' \in i .. i + RctCutoff - 1
      BY <1>1, <1>2, <1>4, <2>0, <2>2
    <3> QED
      BY <1>1, <1>2, <1>4, <2>0, <2>2, <3>1, <3>2
  <2> QED
    BY <1>1, <2>0, <2>1, <2>2
<1> QED
  BY <1>5, <1>6

-----------------------------------------------------------------------------
(***************************************************************************)
(* The adaptive proportion test, and the verdict of both                   *)
(***************************************************************************)
\* The positions in the window at i that hold the window's first sample.
Copies(s, i) == {j \in Window(s, i) : s[j] = s[i]}

\* The inductive form of the proportion test's verdict: between windows the
\* samples fill whole windows, and within one the counter of apt_test is the
\* number of copies of its first sample.
WindowCounted ==
    ~failed =>
        /\ g_apt_b = 0 => Len(samples) % AptWindow = 0
        /\ g_apt_b # 0 =>
               /\ g_apt_i \in 1 .. Len(samples)
               /\ (Len(samples) - g_apt_i) % AptWindow = 0
               /\ samples[Len(samples) - g_apt_i + 1] = g_apt_a
               /\ g_apt_b = Cardinality(Copies(samples, Len(samples) - g_apt_i + 1))

\* The inductive invariant behind VerdictExact.
VerdictInv ==
    /\ TypeOK /\ Bounds
    /\ RunCounted /\ NoRunAccepted
    /\ WindowCounted /\ VerdictExact

\* Multiples of the window that differ by less than a window are in order.
LEMMA WindowMultiples ==
  ASSUME NEW p \in Nat, NEW q \in Nat, AptWindow * p < AptWindow * q + AptWindow
  PROVE  p <= q
<1> SUFFICES ASSUME p > q PROVE FALSE
  OBVIOUS
<1>1. PICK d \in Nat : p = q + 1 + d
  <2> WITNESS p - q - 1 \in Nat
  <2> QED
    OBVIOUS
<1>2. AptWindow * p = AptWindow * q + AptWindow + AptWindow * d
  BY <1>1, CutoffAssumption
<1>3. AptWindow * d \in Nat /\ AptWindow * q \in Nat
  BY CutoffAssumption
<1> QED
  BY <1>2, <1>3, CutoffAssumption

\* A window starts every AptWindow samples, and nowhere between.
LEMMA WindowStarts ==
  /\ 0 % AptWindow = 0
  /\ \A a \in Nat : a % AptWindow = 0 => (a + AptWindow) % AptWindow = 0
  /\ \A a, b \in Nat : /\ a % AptWindow = 0 /\ b % AptWindow = 0
                       /\ a < b + AptWindow /\ b < a + AptWindow
                       => a = b
<1> USE CutoffAssumption
<1>1. ASSUME NEW a \in Nat
      PROVE  \E q \in Nat, r \in 0 .. AptWindow - 1 :
                 a = AptWindow * q + r /\ r = a % AptWindow
  <2>1. a \div AptWindow \in Nat /\ a % AptWindow \in 0 .. AptWindow - 1
    OBVIOUS
  <2>2. a = AptWindow * (a \div AptWindow) + (a % AptWindow)
    OBVIOUS
  <2> QED
    BY <2>1, <2>2
<1>2. 0 % AptWindow = 0
  OBVIOUS
<1>3. ASSUME NEW a \in Nat, a % AptWindow = 0 PROVE (a + AptWindow) % AptWindow = 0
  <2> PICK p \in Nat : a = AptWindow * p
    BY <1>1, <1>3
  <2> PICK q \in Nat, r \in 0 .. AptWindow - 1 :
             a + AptWindow = AptWindow * q + r /\ r = (a + AptWindow) % AptWindow
    BY <1>1
  <2>1. /\ AptWindow * (p + 1) = AptWindow * q + r
        /\ AptWindow * (p + 1) \in Nat /\ AptWindow * q \in Nat
    OBVIOUS
  <2>2. q <= p + 1 /\ p + 1 <= q
    BY <2>1, WindowMultiples
  <2> QED
    BY <2>1, <2>2
<1>4. ASSUME NEW a \in Nat, NEW b \in Nat, a % AptWindow = 0, b % AptWindow = 0,
             a < b + AptWindow, b < a + AptWindow
      PROVE  a = b
  <2> PICK p \in Nat, q \in Nat : a = AptWindow * p /\ b = AptWindow * q
    BY <1>1, <1>4
  <2>1. p <= q /\ q <= p
    BY <1>4, WindowMultiples
  <2> QED
    BY <2>1
<1> QED
  BY <1>2, <1>3, <1>4

\* What one more sample adds to the copies of a window: nothing to a window that
\* is over, itself to the one it opens, itself or nothing to an open one.
LEMMA CopiesAppend ==
  ASSUME NEW s \in Seq(Samples), NEW x \in Samples, NEW i \in 1 .. Len(s) + 1
  PROVE  /\ i + AptWindow - 1 <= Len(s) => Copies(Append(s, x), i) = Copies(s, i)
         /\ i = Len(s) + 1 => Copies(Append(s, x), i) = {Len(s) + 1}
         /\ i <= Len(s) /\ i + AptWindow - 1 > Len(s) =>
               Copies(Append(s, x), i) =
                   Copies(s, i) \cup (IF x = s[i] THEN {Len(s) + 1} ELSE {})
<1> DEFINE n == Len(s)
           r == Append(s, x)
<1>1. /\ n \in Nat /\ Len(r) = n + 1 /\ r[n + 1] = x
      /\ \A j \in 1 .. n : r[j] = s[j]
      /\ AptWindow \in Nat \ {0, 1}
  BY CutoffAssumption
<1> HIDE DEF n, r
<1>2. \A j : j \in Copies(r, i) <=>
               j \in i .. i + AptWindow - 1 /\ j <= n + 1 /\ r[j] = r[i]
  BY <1>1 DEF Copies, Window
<1>3. \A j : j \in Copies(s, i) <=>
               j \in i .. i + AptWindow - 1 /\ j <= n /\ s[j] = s[i]
  BY <1>1 DEF Copies, Window, n
<1>4. i \in 1 .. n + 1
  BY DEF n
<1>5. i + AptWindow - 1 <= n => Copies(r, i) = Copies(s, i)
  <2> SUFFICES ASSUME i + AptWindow - 1 <= n, NEW j
               PROVE  j \in Copies(r, i) <=> j \in Copies(s, i)
    BY DEF Copies
  <2> QED
    BY <1>1, <1>2, <1>3, <1>4
<1>6. i = n + 1 => Copies(r, i) = {n + 1}
  <2> SUFFICES ASSUME i = n + 1, NEW j PROVE j \in Copies(r, i) <=> j = n + 1
    BY DEF Copies
  <2> QED
    BY <1>1, <1>2
<1>7. i <= n /\ i + AptWindow - 1 > n =>
         Copies(r, i) = Copies(s, i) \cup (IF x = s[i] THEN {n + 1} ELSE {})
  <2> SUFFICES ASSUME i <= n, i + AptWindow - 1 > n, NEW j
               PROVE  j \in Copies(r, i) <=>
                          j \in Copies(s, i) \/ (x = s[i] /\ j = n + 1)
    BY DEF Copies
  <2>1. r[i] = s[i]
    BY <1>1, <1>4
  <2>2. CASE j = n + 1
    BY <1>1, <1>2, <1>3, <1>4, <2>1, <2>2
  <2>3. CASE j # n + 1
    BY <1>1, <1>2, <1>3, <1>4, <2>1, <2>3
  <2> QED
    BY <2>2, <2>3
<1> QED
  BY <1>5, <1>6, <1>7 DEF n, r

\* The copies of a window are finitely many.
LEMMA CopiesFinite ==
  ASSUME NEW s \in Seq(Samples), NEW i \in Nat
  PROVE  IsFiniteSet(Copies(s, i)) /\ Cardinality(Copies(s, i)) \in Nat
<1>1. IsFiniteSet(i .. i + AptWindow - 1)
  BY CutoffAssumption, FS_Interval
<1>2. Copies(s, i) \subseteq i .. i + AptWindow - 1
  BY DEF Copies, Window
<1> QED
  BY <1>1, <1>2, FS_Subset, FS_CardinalityType

\* One more sample in an open window adds one copy or none.
LEMMA CopiesCount ==
  ASSUME NEW s \in Seq(Samples), NEW x \in Samples, NEW i \in 1 .. Len(s),
         i + AptWindow - 1 > Len(s)
  PROVE  Cardinality(Copies(Append(s, x), i)) =
             Cardinality(Copies(s, i)) + (IF x = s[i] THEN 1 ELSE 0)
<1>1. IsFiniteSet(Copies(s, i)) /\ Cardinality(Copies(s, i)) \in Nat
  BY CopiesFinite
<1>2. Copies(Append(s, x), i) = Copies(s, i) \cup (IF x = s[i] THEN {Len(s) + 1} ELSE {})
  BY CopiesAppend
<1>3. Len(s) + 1 \notin Copies(s, i)
  BY DEF Copies, Window
<1>4. CASE x = s[i]
  <2>1. Copies(Append(s, x), i) = Copies(s, i) \cup {Len(s) + 1}
    BY <1>2, <1>4
  <2>2. Cardinality(Copies(s, i) \cup {Len(s) + 1}) = Cardinality(Copies(s, i)) + 1
    BY <1>1, <1>3, FS_AddElement
  <2> QED
    BY <1>4, <2>1, <2>2
<1>5. CASE x # s[i]
  <2>1. Copies(Append(s, x), i) = Copies(s, i)
    BY <1>2, <1>5
  <2> QED
    BY <1>1, <1>5, <2>1
<1> QED
  BY <1>4, <1>5

\* HasProportion in terms of Copies.
LEMMA ProportionCopies ==
  ASSUME NEW s, NEW n
  PROVE  HasProportion(s, n) <=>
             \E i \in 1 .. Len(s) : (i - 1) % AptWindow = 0 /\ Cardinality(Copies(s, i)) >= n
  BY DEF HasProportion, Copies

\* While a window is open, it is the one that apt_test counts.
LEMMA OpenWindow ==
  ASSUME TypeOK, Bounds, WindowCounted, ~failed, NEW i \in 1 .. Len(samples),
         (i - 1) % AptWindow = 0, i + AptWindow - 1 > Len(samples)
  PROVE  /\ g_apt_b # 0
         /\ i = Len(samples) - g_apt_i + 1
         /\ samples[i] = g_apt_a
         /\ g_apt_b = Cardinality(Copies(samples, i))
<1> USE CutoffAssumption DEF TypeOK
<1> PICK n \in Nat : n = Len(samples)
  OBVIOUS
<1>1. i - 1 \in Nat /\ i - 1 < n /\ n < (i - 1) + AptWindow
  OBVIOUS
<1>2. g_apt_b # 0
  <2> SUFFICES ASSUME g_apt_b = 0 PROVE FALSE
    OBVIOUS
  <2>1. n % AptWindow = 0
    BY DEF WindowCounted
  <2>2. i - 1 = n
    BY <1>1, <2>1, WindowStarts
  <2> QED
    BY <1>1, <2>2
<1>3. /\ g_apt_i \in 1 .. n /\ g_apt_i < AptWindow
      /\ (n - g_apt_i) % AptWindow = 0
      /\ samples[n - g_apt_i + 1] = g_apt_a
      /\ g_apt_b = Cardinality(Copies(samples, n - g_apt_i + 1))
  BY <1>2 DEF WindowCounted, Bounds
<1>4. i - 1 = n - g_apt_i
  <2>1. /\ n - g_apt_i \in Nat
        /\ n - g_apt_i < (i - 1) + AptWindow
        /\ i - 1 < (n - g_apt_i) + AptWindow
    BY <1>1, <1>3
  <2> QED
    BY <1>1, <1>3, <2>1, WindowStarts
<1>5. i = n - g_apt_i + 1
  BY <1>3, <1>4
<1> QED
  BY <1>2, <1>3, <1>5

\* Accepting a sample keeps WindowCounted, and completes no proportion.
LEMMA WindowStep ==
  ASSUME TypeOK, Bounds, WindowCounted, ~failed, ~HasProportion(samples, AptCutoff),
         NEW x \in Samples, SamplePasses(x)
  PROVE  WindowCounted' /\ ~HasProportion(samples', AptCutoff)
<1> USE CutoffAssumption DEF TypeOK
<1> PICK n \in Nat : n = Len(samples)
  OBVIOUS
<1>1. /\ samples' = Append(samples, x)
      /\ Len(samples') = n + 1
      /\ samples'[n + 1] = x
      /\ \A j \in 1 .. n : samples'[j] = samples[j]
  BY DEF SamplePasses, Drawn
<1>2. ~AptFails(x) /\ AptTest(x)
  BY DEF SamplePasses
<1>3. Cardinality(Copies(samples', n + 1)) = 1
  <2>1. Copies(samples', n + 1) = {n + 1}
    BY <1>1, CopiesAppend
  <2> QED
    BY <2>1, FS_Singleton
<1>4. WindowCounted'
  <2>1. CASE g_apt_b = 0
    <3>1. n % AptWindow = 0
      BY <2>1 DEF WindowCounted
    <3>2. g_apt_a' = x /\ g_apt_b' = 1 /\ g_apt_i' = 1
      BY <1>2, <2>1 DEF AptTest
    <3>3. n + 1 - 1 = n /\ n + 1 - 1 + 1 = n + 1 /\ 1 \in 1 .. n + 1
      OBVIOUS
    <3> QED
      BY <1>1, <1>3, <3>1, <3>2, <3>3 DEF WindowCounted
  <2>2. CASE g_apt_b # 0
    <3>1. /\ g_apt_i \in 1 .. n /\ g_apt_i < AptWindow
          /\ (n - g_apt_i) % AptWindow = 0
          /\ samples[n - g_apt_i + 1] = g_apt_a
          /\ g_apt_b = Cardinality(Copies(samples, n - g_apt_i + 1))
      BY <2>2 DEF WindowCounted, Bounds
    <3>2. g_apt_a' = g_apt_a /\ g_apt_i' = g_apt_i + 1
      BY <1>2, <2>2 DEF AptTest
    <3>3. CASE g_apt_i + 1 >= AptWindow
      <4>1. g_apt_b' = 0
        BY <1>2, <2>2, <3>3 DEF AptTest
      <4>2. n - g_apt_i \in Nat /\ n + 1 = (n - g_apt_i) + AptWindow
        BY <3>1, <3>3
      <4>3. (n + 1) % AptWindow = 0
        BY <3>1, <4>2, WindowStarts
      <4> QED
        BY <1>1, <4>1, <4>3 DEF WindowCounted
    <3>4. CASE g_apt_i + 1 < AptWindow
      <4>1. g_apt_b' = g_apt_b + (IF x = g_apt_a THEN 1 ELSE 0)
        BY <1>2, <2>2, <3>4 DEF AptTest
      <4>2. PICK w \in 1 .. n : w = n - g_apt_i + 1 /\ w + AptWindow - 1 > n
        BY <3>1
      <4>3. Cardinality(Copies(samples', w)) = g_apt_b'
        BY <1>1, <3>1, <4>1, <4>2, CopiesCount
      <4>4. /\ n + 1 - g_apt_i' + 1 = w
            /\ n + 1 - g_apt_i' = n - g_apt_i
            /\ g_apt_i' \in 1 .. n + 1
        BY <3>1, <3>2, <4>2
      <4>5. samples'[w] = g_apt_a'
        BY <1>1, <3>1, <3>2, <4>2
      <4>6. g_apt_b' # 0
        BY <2>2, <4>1
      <4> QED
        BY <1>1, <3>1, <4>3, <4>4, <4>5, <4>6 DEF WindowCounted
    <3> QED
      BY <3>1, <3>3, <3>4
  <2> QED
    BY <2>1, <2>2
<1>5. ASSUME NEW i \in 1 .. n + 1, (i - 1) % AptWindow = 0
      PROVE  ~(Cardinality(Copies(samples', i)) >= AptCutoff)
  <2>1. CASE i = n + 1
    BY <1>3, <2>1
  <2>2. CASE i <= n
    <3>1. i \in 1 .. Len(samples)
      BY <2>2
    <3>2. /\ Cardinality(Copies(samples, i)) \in Nat
          /\ ~(Cardinality(Copies(samples, i)) >= AptCutoff)
      BY <1>5, <3>1, ProportionCopies, CopiesFinite
    <3>3. CASE i + AptWindow - 1 <= n
      BY <1>1, <3>2, <3>3, CopiesAppend
    <3>4. CASE i + AptWindow - 1 > n
      <4>1. /\ g_apt_b # 0 /\ samples[i] = g_apt_a
            /\ g_apt_b = Cardinality(Copies(samples, i))
        BY <1>5, <3>1, <3>4, OpenWindow
      <4>2. Cardinality(Copies(samples', i)) = g_apt_b + (IF x = g_apt_a THEN 1 ELSE 0)
        BY <1>1, <3>1, <3>4, <4>1, CopiesCount
      <4>3. x = g_apt_a => ~(g_apt_b + 1 >= AptCutoff)
        BY <1>2, <4>1 DEF AptFails
      <4> QED
        BY <3>2, <4>1, <4>2, <4>3
    <3> QED
      BY <3>3, <3>4
  <2> QED
    BY <2>1, <2>2
<1>6. ~HasProportion(samples', AptCutoff)
  BY <1>1, <1>5, ProportionCopies
<1> QED
  BY <1>4, <1>6

\* The proportion test rejects only a sample that completes a proportion.
LEMMA ProportionJustified ==
  ASSUME TypeOK, Bounds, WindowCounted, NEW x \in Samples, RejectProportion(x)
  PROVE  HasProportion(samples', AptCutoff)
<1> USE CutoffAssumption DEF TypeOK
<1> PICK n \in Nat : n = Len(samples)
  OBVIOUS
<1>1. /\ ~failed /\ samples' = Append(samples, x) /\ Len(samples') = n + 1
      /\ g_apt_b # 0 /\ x = g_apt_a /\ g_apt_b + 1 >= AptCutoff
  BY DEF RejectProportion, Drawn, AptFails
<1>2. /\ g_apt_i \in 1 .. n /\ g_apt_i < AptWindow
      /\ (n - g_apt_i) % AptWindow = 0
      /\ samples[n - g_apt_i + 1] = g_apt_a
      /\ g_apt_b = Cardinality(Copies(samples, n - g_apt_i + 1))
  BY <1>1 DEF WindowCounted, Bounds
<1>3. PICK w \in 1 .. n : w = n - g_apt_i + 1 /\ w + AptWindow - 1 > n /\ w - 1 = n - g_apt_i
  BY <1>2
<1>4. Cardinality(Copies(samples', w)) >= AptCutoff
  BY <1>1, <1>2, <1>3, CopiesCount
<1>5. w \in 1 .. Len(samples') /\ (w - 1) % AptWindow = 0
  BY <1>1, <1>2, <1>3
<1> QED
  BY <1>4, <1>5, ProportionCopies

\* The repetition count test rejects only a sample that completes a run.
LEMMA RunJustified ==
  ASSUME TypeOK, Bounds, RunCounted, NEW x \in Samples, RejectRepetition(x)
  PROVE  HasRun(samples', RctCutoff)
<1> USE CutoffAssumption DEF TypeOK
<1> PICK n \in Nat : n = Len(samples)
  OBVIOUS
<1>1. /\ ~failed
      /\ Len(samples') = n + 1
      /\ samples'[n + 1] = x
      /\ \A j \in 1 .. n : samples'[j] = samples[j]
      /\ x = g_rct_a
  BY DEF RejectRepetition, Drawn, RctFails, Repeats
<1>2. g_rct_b + 1 = RctCutoff
  BY <1>1 DEF RejectRepetition, RctFails, Bounds
<1>3. /\ g_rct_b <= n
      /\ \A j \in 1 .. n : j > n - g_rct_b => samples[j] = g_rct_a
  BY <1>1 DEF RunCounted
<1>4. PICK i \in Nat : i = n + 1 - g_rct_b
  BY <1>3
<1>5. i \in 1 .. Len(samples') - RctCutoff + 1 /\ i + RctCutoff - 1 = n + 1
  BY <1>1, <1>2, <1>3, <1>4
<1>6. \A j \in i .. n + 1 : samples'[j] = x
  BY <1>1, <1>3, <1>4
<1>7. i \in i .. n + 1
  BY <1>2, <1>4, <1>5
<1>8. \A j \in i .. i + RctCutoff - 1 : samples'[j] = samples'[i]
  BY <1>5, <1>6, <1>7
<1> QED
  BY <1>5, <1>8, Zenon DEF HasRun

\* Without samples there is nothing to reject, and nothing has been.
LEMMA VerdictInit == Init => VerdictInv
<1> SUFFICES ASSUME Init PROVE VerdictInv
  OBVIOUS
<1>1. samples = <<>> /\ Len(samples) = 0 /\ failed = FALSE /\ g_rct_b = 0 /\ g_apt_b = 0
  BY DEF Init
<1>2. ~HasRun(samples, RctCutoff) /\ ~HasProportion(samples, AptCutoff)
  BY <1>1, CutoffAssumption DEF HasRun, HasProportion
<1>3. RunCounted /\ NoRunAccepted
  BY <1>1, <1>2 DEF RunCounted, NoRunAccepted
<1>4. WindowCounted
  BY <1>1, WindowStarts DEF WindowCounted
<1>5. VerdictExact
  BY <1>1, <1>2 DEF VerdictExact
<1> QED
  BY <1>3, <1>4, <1>5, HealthTypeInit DEF VerdictInv

\* qudo_fips_rand_cleanup brings the tests back to where they started.
LEMMA VerdictClean == Cleanup => VerdictInv'
<1>1. Cleanup => Init'
  BY DEF Cleanup, Init
<1>2. Init' => VerdictInv'
  BY VerdictInit, PTL
<1> QED
  BY <1>1, <1>2

\* Every step keeps the inductive invariant.
LEMMA VerdictNext == VerdictInv /\ [Next]_vars => VerdictInv'
<1> SUFFICES ASSUME VerdictInv, [Next]_vars PROVE VerdictInv'
  OBVIOUS
<1>1. TypeOK' /\ Bounds'
  BY HealthTypeNext DEF VerdictInv
<1>2. ASSUME NEW x \in Samples, SamplePasses(x) PROVE VerdictInv'
  <2>1. ~failed /\ ~failed' /\ ~HasProportion(samples, AptCutoff)
    BY <1>2 DEF VerdictInv, VerdictExact, SamplePasses, Drawn
  <2>2. RunCounted' /\ NoRunAccepted'
    BY <1>2, RunStep DEF VerdictInv
  <2>3. WindowCounted' /\ ~HasProportion(samples', AptCutoff)
    BY <1>2, <2>1, WindowStep DEF VerdictInv
  <2>4. ~HasRun(samples', RctCutoff)
    BY <2>1, <2>2 DEF NoRunAccepted, HasRun
  <2>5. VerdictExact'
    BY <2>1, <2>3, <2>4 DEF VerdictExact, HasRun, HasProportion, Window
  <2> QED
    BY <1>1, <2>2, <2>3, <2>5 DEF VerdictInv
<1>3. ASSUME failed', RunCounted', NoRunAccepted', WindowCounted',
             HasRun(samples', RctCutoff) \/ HasProportion(samples', AptCutoff)
      PROVE  VerdictInv'
  <2>1. VerdictExact'
    BY <1>3 DEF VerdictExact, HasRun, HasProportion, Window
  <2> QED
    BY <1>1, <1>3, <2>1 DEF VerdictInv
<1>4. failed' => RunCounted' /\ NoRunAccepted' /\ WindowCounted'
  BY DEF RunCounted, NoRunAccepted, WindowCounted
<1>5. ASSUME NEW x \in Samples, RejectRepetition(x) PROVE VerdictInv'
  BY <1>3, <1>4, <1>5, RunJustified DEF VerdictInv, RejectRepetition
<1>6. ASSUME NEW x \in Samples, RejectProportion(x) PROVE VerdictInv'
  BY <1>3, <1>4, <1>6, ProportionJustified DEF VerdictInv, RejectProportion
<1>7. CASE Cleanup
  BY <1>7, VerdictClean
<1>8. CASE UNCHANGED vars
  BY <1>8 DEF vars, rct, apt, VerdictInv, TypeOK, Bounds, RunCounted, NoRunAccepted,
              WindowCounted, VerdictExact, HasRun, HasProportion, Window, Copies
<1> QED
  BY <1>2, <1>5, <1>6, <1>7, <1>8 DEF Next

\* For every sequence of samples, cutoffs and window: the tests have failed
\* exactly when the samples since the last cleanup contain what SP 800-90B says
\* they must fail on. Nothing bad passes, nothing good is rejected.
THEOREM VerdictIsExact == Spec => []VerdictExact
<1>1. VerdictInv => VerdictExact
  BY DEF VerdictInv
<1> QED
  BY <1>1, VerdictInit, VerdictNext, PTL DEF Spec
=============================================================================
