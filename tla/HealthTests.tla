------------------------------ MODULE HealthTests ------------------------------
(***************************************************************************)
(* The continuous health tests of the entropy source (rct_test, apt_test   *)
(* and continuous_health_test of qudo_fips_rand.c), sample by sample, and  *)
(* what SP 800-90B section 4.4 asks of them: the repetition count test     *)
(* fails on a run of RctCutoff equal samples, the adaptive proportion test *)
(* on a window in which the first sample occurs AptCutoff times.           *)
(*                                                                         *)
(* One thread at a time runs the tests here; FipsRand models who may.      *)
(***************************************************************************)
EXTENDS Integers, Sequences, FiniteSets

CONSTANTS
    Samples,      \* the values of a sample: bytes in the code
    Zero,         \* the value of the static counters' sample before the first
    RctCutoff,    \* rct_critical[FIPS_ENTROPY_H]: 4
    AptCutoff,    \* apt_critical[FIPS_ENTROPY_H]: 13
    AptWindow,    \* FIPS_APT_WINDOW: 512
    MaxSamples    \* bound on the samples between two cleanups

ASSUME SamplesAssumption == Zero \in Samples
ASSUME CutoffAssumption ==
    /\ RctCutoff \in Nat \ {0, 1}
    /\ AptCutoff \in Nat \ {0, 1}
    /\ AptWindow \in Nat \ {0, 1}
    /\ MaxSamples \in Nat

VARIABLES
    g_rct_a, g_rct_b,             \* the last sample and the length of its run
    g_apt_a, g_apt_b, g_apt_i,    \* the window's first sample, its count, the position
    failed,                       \* g_health_failed
    samples                       \* history: the samples tested since the cleanup

rct  == <<g_rct_a, g_rct_b>>
apt  == <<g_apt_a, g_apt_b, g_apt_i>>
vars == <<rct, apt, failed, samples>>

TypeOK ==
    /\ g_rct_a \in Samples
    /\ g_rct_b \in 0 .. RctCutoff
    /\ g_apt_a \in Samples
    /\ g_apt_b \in 0 .. AptCutoff - 1
    /\ g_apt_i \in 0 .. AptWindow
    /\ failed \in BOOLEAN
    /\ samples \in Seq(Samples)

Init ==
    /\ g_rct_a = Zero
    /\ g_rct_b = 0
    /\ g_apt_a = Zero
    /\ g_apt_b = 0
    /\ g_apt_i = 0
    /\ failed = FALSE
    /\ samples = <<>>

-----------------------------------------------------------------------------
Repeats(x) == g_rct_b # 0 /\ x = g_rct_a

\* a variant with ">" for ">="
BadRctFails(x) == Repeats(x) /\ g_rct_b + 1 > RctCutoff

RctFails(x) == Repeats(x) /\ g_rct_b + 1 >= RctCutoff

RctTest(x) ==
    /\ g_rct_a' = x
    /\ g_rct_b' = IF Repeats(x) THEN g_rct_b + 1 ELSE 1

AptFails(x) == g_apt_b # 0 /\ x = g_apt_a /\ g_apt_b + 1 >= AptCutoff

\* a variant whose windows hold one sample too many
BadAptTest(x) ==
    IF g_apt_b = 0
    THEN g_apt_a' = x /\ g_apt_b' = 1 /\ g_apt_i' = 1
    ELSE /\ g_apt_i' = g_apt_i + 1
         /\ g_apt_b' = IF g_apt_i >= AptWindow THEN 0
                       ELSE IF x = g_apt_a THEN g_apt_b + 1 ELSE g_apt_b
         /\ UNCHANGED g_apt_a

\* A window that is over leaves a count of zero: the next sample opens one.
AptTest(x) ==
    IF g_apt_b = 0
    THEN g_apt_a' = x /\ g_apt_b' = 1 /\ g_apt_i' = 1
    ELSE /\ g_apt_i' = g_apt_i + 1
         /\ g_apt_b' = IF g_apt_i + 1 >= AptWindow THEN 0
                       ELSE IF x = g_apt_a THEN g_apt_b + 1 ELSE g_apt_b
         /\ UNCHANGED g_apt_a

\* No sample is drawn once a test has failed (platform_entropy).
Drawn(x) ==
    /\ ~failed
    /\ Len(samples) < MaxSamples
    /\ samples' = Append(samples, x)

SamplePasses(x) ==
    /\ Drawn(x)
    /\ ~RctFails(x) /\ ~AptFails(x)
    /\ RctTest(x)
    /\ AptTest(x)
    /\ UNCHANGED failed

\* The proportion test does not see a sample that the other one rejects.
RejectRepetition(x) ==
    /\ Drawn(x)
    /\ RctFails(x)
    /\ RctTest(x)
    /\ failed' = TRUE
    /\ UNCHANGED apt

RejectProportion(x) ==
    /\ Drawn(x)
    /\ ~RctFails(x) /\ AptFails(x)
    /\ RctTest(x)
    /\ failed' = TRUE
    /\ g_apt_b' = 0
    /\ UNCHANGED <<g_apt_a, g_apt_i>>

\* qudo_fips_rand_cleanup
Cleanup ==
    /\ g_rct_a' = Zero
    /\ g_rct_b' = 0
    /\ g_apt_a' = Zero
    /\ g_apt_b' = 0
    /\ g_apt_i' = 0
    /\ failed' = FALSE
    /\ samples' = <<>>

Next ==
    \/ \E x \in Samples : SamplePasses(x) \/ RejectRepetition(x) \/ RejectProportion(x)
    \/ Cleanup

Spec == Init /\ [][Next]_vars

-----------------------------------------------------------------------------
(***************************************************************************)
(* SP 800-90B 4.4.1 and 4.4.2, on the whole sequence of samples            *)
(***************************************************************************)
HasRun(s, n) ==
    \E i \in 1 .. Len(s) - n + 1 : \A j \in i .. i + n - 1 : s[j] = s[i]

\* The positions of the window that starts at i, as far as there are samples.
Window(s, i) == {j \in i .. i + AptWindow - 1 : j <= Len(s)}

HasProportion(s, n) ==
    \E i \in 1 .. Len(s) :
        /\ (i - 1) % AptWindow = 0
        /\ Cardinality({j \in Window(s, i) : s[j] = s[i]}) >= n

-----------------------------------------------------------------------------
\* The tests fail exactly when the samples since the last cleanup contain a run
\* of RctCutoff equal ones, or a window with AptCutoff copies of its first.
VerdictExact ==
    failed <=> HasRun(samples, RctCutoff) \/ HasProportion(samples, AptCutoff)

\* The counters stop short of their limits: a full run has failed, and an open
\* window is not over.
Bounds ==
    /\ ~failed => g_rct_b < RctCutoff
    /\ g_apt_b # 0 => g_apt_i < AptWindow
=============================================================================
