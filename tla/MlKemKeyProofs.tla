---------------------------- MODULE MlKemKeyProofs ----------------------------
(***************************************************************************)
(* Theorems about MlKemKey, for any slots, seeds and encodings.            *)
(***************************************************************************)
EXTENDS MlKemKey, FiniteSetTheorems, TLAPS

\* A key with no material: its pointers to rho and the hash may be stale.
Blank(key_) ==
    /\ key_ \in KeyRecords
    /\ key_.t = None /\ key_.s = None /\ key_.z = None /\ key_.d = None
    /\ key_.block = 0 /\ key_.encoded_dk = None /\ key_.dkblock = 0

\* A key without vectors and storage that may hold a seed.
Startable(key_) ==
    /\ key_ \in KeyRecords
    /\ key_.t = None /\ key_.s = None
    /\ key_.block = 0 /\ key_.encoded_dk = None /\ key_.dkblock = 0

\* A key with a public part, and all or nothing of the private one.
Whole(key_) ==
    /\ key_ \in KeyRecords
    /\ key_.t \in Ds /\ key_.rho = key_.t /\ key_.pkhash = key_.t
    /\ key_.block # 0 /\ key_.encoded_dk = None /\ key_.dkblock = 0
    /\ \/ key_.s = None /\ key_.z = None /\ key_.d = None
       \/ key_.s \in Ds /\ key_.z \in Zs

\* A retained seed is the one of both halves, and the halves match where the
\* configuration has them tested.
Coherent(c, key_) ==
    /\ key_.d # None => c.retain /\ key_.s = key_.d /\ key_.t = key_.d
    /\ c.pct /\ key_.s # None => key_.s = key_.t

\* A whole key is the one its maker asked for.
Agrees(c, key_, g) ==
    /\ g # Nothing
    /\ key_.s # None <=> g.dk # None \/ g.seed # None
    /\ g.dk # None => EncodePrv(key_) = g.dk
    /\ g.seed # None /\ (g.dk = None \/ c.prefer) => EncodePrv(key_) = Genuine(g.seed)
    /\ key_.d # None => g.seed # None /\ EncodeSeed(key_) = g.seed
    /\ g.pub # None /\ (g.dk # None \/ g.seed = None) => key_.t = g.pub

\* What ossl_ml_kem_d2i_PKCS8 leaves for ml_kem_load.
Stashed(key_, g) ==
    /\ key_ \in KeyRecords
    /\ key_.t = None /\ key_.s = None /\ key_.block = 0
    /\ key_.encoded_dk = g.dk
    /\ IF g.seed = None THEN key_.d = None /\ key_.z = None
                        ELSE key_.d # None /\ EncodeSeed(key_) = g.seed
    /\ g.seed # None \/ g.dk # None
    /\ g.pub = None

SlotOK(c, st, key_, g) ==
    \/ st = "empty" /\ key_ = NewKey
    \/ st = "key" /\ Blank(key_)
    \/ st = "key" /\ Whole(key_) /\ Coherent(c, key_) /\ Agrees(c, key_, g)
    \/ st = "decoded" /\ Stashed(key_, g)

KeyInv ==
    /\ conf \in Confs
    /\ status \in [Slots -> {"empty", "key", "decoded"}]
    /\ key \in [Slots -> KeyRecords]
    /\ given \in [Slots -> Params]
    /\ \A k \in Slots : SlotOK(conf, status[k], key[k], given[k])
    /\ NoSharedStorage

\* The key a call makes from parts that it has checked.
Made(pub, s_, z_, d_) ==
    [t |-> pub, rho |-> pub, pkhash |-> pub, s |-> s_, z |-> z_, d |-> d_,
     block |-> Fresh, encoded_dk |-> None, dkblock |-> 0]

\* What add_storage leaves of a key that holds at most a seed.
Cleared(b) ==
    [t |-> None, rho |-> Zero, pkhash |-> Zero, s |-> None, z |-> None, d |-> None,
     block |-> b, encoded_dk |-> None, dkblock |-> 0]

-----------------------------------------------------------------------------
\* The constants do not run into each other.
LEMMA ValueFacts ==
  /\ None \notin Ds /\ None \notin Zs /\ Bad \notin Ds /\ None # Bad
  /\ None \notin Seeds /\ None \notin Dks
  /\ \A seed \in Seeds : /\ seed = [d |-> seed.d, z |-> seed.z]
                         /\ seed.d \in Ds /\ seed.z \in Zs
                         /\ Genuine(seed) \in Dks
  /\ \A dk \in Dks : /\ dk = [s |-> dk.s, pub |-> dk.pub, hash |-> dk.hash, z |-> dk.z]
                     /\ dk.s \in Ds \cup {Bad} /\ dk.pub \in Pubs
                     /\ dk.hash \in Ds /\ dk.z \in Zs
<1>1. \A seed \in Seeds : seed.d \in Ds /\ seed.z \in Zs
  BY DEF Ds, Zs
<1>2. \A dk \in Dks : dk \in [s : Ds \cup {Bad}, pub : Ds \cup {Bad}, hash : Ds, z : Zs]
  BY KeyValues
<1>3. \A dk \in Dks : /\ dk = [s |-> dk.s, pub |-> dk.pub, hash |-> dk.hash, z |-> dk.z]
                     /\ dk.s \in Ds \cup {Bad} /\ dk.pub \in Pubs
                     /\ dk.hash \in Ds /\ dk.z \in Zs
  BY <1>2 DEF Pubs
<1> QED
  BY <1>1, <1>3, KeyValues

\* A new key is blank, and a blank key can be started.
LEMMA BlankFacts ==
  /\ NewKey \in KeyRecords /\ Blank(NewKey)
  /\ \A key_ : Blank(key_) => Startable(key_)
<1>1. NewKey \in KeyRecords
  BY DEF NewKey, KeyRecords
<1>2. Blank(NewKey)
  BY <1>1 DEF Blank, NewKey
<1> QED
  BY <1>1, <1>2 DEF Blank, Startable

\* There are more blocks than keys with storage: an allocation that no key owns.
LEMMA FreshFacts ==
  ASSUME KeyInv, NEW k \in Slots
  PROVE  /\ Fresh \in Blocks
         /\ \A l \in Slots : Fresh \notin {key[l].block, key[l].dkblock}
<1> DEFINE n == Cardinality(Slots)
           Owned(b) == \E l \in Slots : b \in {key[l].block, key[l].dkblock}
<1>1. \E b \in Blocks : ~Owned(b)
  <2> SUFFICES ASSUME \A b \in Blocks : Owned(b) PROVE FALSE
    OBVIOUS
  <2>1. \A l \in Slots : key[l].block = 0 \/ key[l].dkblock = 0
    BY DEF KeyInv, SlotOK, Blank, Whole, Stashed, NewKey
  <2>2. IsFiniteSet(Slots) /\ n \in Nat /\ n # 0
    BY KeyValues, FS_CardinalityType, FS_EmptySet
  <2>3. IsFiniteSet(Blocks) /\ Cardinality(Blocks) = 2 * n /\ n < 2 * n
    <3> HIDE DEF n
    <3>1. 1 \in Int /\ 2 * n \in Int /\ ~(1 > 2 * n) /\ n < 2 * n
      BY <2>2
    <3>2. /\ IsFiniteSet(1 .. 2 * n)
          /\ Cardinality(1 .. 2 * n) = IF 1 > 2 * n THEN 0 ELSE 2 * n - 1 + 1
      BY <3>1, FS_Interval
    <3>3. Cardinality(1 .. 2 * n) = 2 * n
      BY <2>2, <3>1, <3>2
    <3> QED
      BY <3>1, <3>2, <3>3 DEF Blocks, n
  <2> DEFINE f == [b \in Blocks |->
                     CHOOSE l \in Slots : b \in {key[l].block, key[l].dkblock}]
  <2>4. \A b \in Blocks : f[b] \in Slots /\ b \in {key[f[b]].block, key[f[b]].dkblock}
    OBVIOUS
  <2>5. f \in [Blocks -> Slots]
    BY <2>4
  <2>6. PICK b, c \in Blocks : b # c /\ f[b] = f[c]
    <3> HIDE DEF f
    <3>1. Cardinality(Slots) < Cardinality(Blocks)
      BY <2>3
    <3> QED
      BY <2>2, <2>3, <2>5, <3>1, FS_PigeonHole
  <2>7. \A m \in Blocks : m # 0
    BY <2>2 DEF Blocks
  <2> HIDE DEF f
  <2> QED
    BY <2>1, <2>4, <2>6, <2>7
<1> QED
  BY <1>1 DEF Fresh

-----------------------------------------------------------------------------
(***************************************************************************)
(* What the operations on an ML_KEM_KEY return.  A key is updated field by *)
(* field, so that each update can be reasoned about alone.                 *)
(***************************************************************************)
WithT(key_, v)      == [key_ EXCEPT !.t = v]
WithRho(key_, v)    == [key_ EXCEPT !.rho = v]
WithPkhash(key_, v) == [key_ EXCEPT !.pkhash = v]
WithS(key_, v)      == [key_ EXCEPT !.s = v]
WithZ(key_, v)      == [key_ EXCEPT !.z = v]
WithD(key_, v)      == [key_ EXCEPT !.d = v]
WithBlock(key_, v)  == [key_ EXCEPT !.block = v]

\* Updating a field with a value of its type gives a key.
LEMMA WithType ==
  ASSUME NEW key_ \in KeyRecords
  PROVE  /\ \A v \in Ds \cup {None} : /\ WithT(key_, v) \in KeyRecords
                                     /\ WithS(key_, v) \in KeyRecords
                                     /\ WithD(key_, v) \in KeyRecords
         /\ \A v \in Ds \cup {Zero, None} : /\ WithRho(key_, v) \in KeyRecords
                                           /\ WithPkhash(key_, v) \in KeyRecords
         /\ \A v \in Zs \cup {None} : WithZ(key_, v) \in KeyRecords
         /\ \A v \in Blocks \cup {0} : WithBlock(key_, v) \in KeyRecords
  BY DEF KeyRecords, WithT, WithRho, WithPkhash, WithS, WithZ, WithD, WithBlock

\* Two keys with the same fields are the same.
LEMMA KeyEquality ==
  ASSUME NEW a \in KeyRecords, NEW b \in KeyRecords,
         a.t = b.t, a.rho = b.rho, a.pkhash = b.pkhash, a.s = b.s, a.z = b.z,
         a.d = b.d, a.block = b.block, a.encoded_dk = b.encoded_dk,
         a.dkblock = b.dkblock
  PROVE  a = b
  BY DEF KeyRecords

\* add_storage, applied to a key that holds at most a seed, clears that too.
LEMMA AddStorageResult ==
  ASSUME NEW key_, Startable(key_), NEW b \in Blocks
  PROVE  AddStorage(key_, b) = Cleared(b) /\ Cleared(b) \in KeyRecords
<1>1. AddStorage(key_, b) =
        WithZ(WithD(WithPkhash(WithRho(WithBlock(key_, b), Zero), Zero), None), None)
  BY DEF AddStorage, WithZ, WithD, WithPkhash, WithRho, WithBlock
<1>2. AddStorage(key_, b) \in KeyRecords
  BY <1>1, WithType DEF Startable
<1>3. Cleared(b) \in KeyRecords
  BY DEF Cleared, KeyRecords
<1>4. LET a == AddStorage(key_, b)
          c == Cleared(b)
      IN  /\ a.t = c.t /\ a.rho = c.rho /\ a.pkhash = c.pkhash /\ a.s = c.s
          /\ a.z = c.z /\ a.d = c.d /\ a.block = c.block
          /\ a.encoded_dk = c.encoded_dk /\ a.dkblock = c.dkblock
  BY DEF AddStorage, Cleared, Startable, KeyRecords
<1> QED
  BY <1>2, <1>3, <1>4, KeyEquality

\* The parts of a key, put into the storage one after the other.
LEMMA MadeResult ==
  ASSUME NEW pub \in Ds, NEW s_ \in Ds \cup {None}, NEW z_ \in Zs \cup {None},
         NEW d_ \in Ds \cup {None}, Fresh \in Blocks
  PROVE  /\ Made(pub, s_, z_, d_) \in KeyRecords
         /\ ParsePub(Cleared(Fresh), pub) = Made(pub, None, None, None)
         /\ WithZ(WithS(Made(pub, None, None, None), s_), z_) = Made(pub, s_, z_, None)
         /\ WithD(Made(pub, s_, z_, None), d_) = Made(pub, s_, z_, d_)
<1>1. \A x \in Ds \cup {None}, y \in Zs \cup {None}, w \in Ds \cup {None} :
        Made(pub, x, y, w) \in KeyRecords
  BY DEF Made, KeyRecords
<1>2. Cleared(Fresh) \in KeyRecords
  BY DEF Cleared, KeyRecords
<1>3. ParsePub(Cleared(Fresh), pub) = Made(pub, None, None, None)
  <2>1. ParsePub(Cleared(Fresh), pub) =
          WithPkhash(WithRho(WithT(Cleared(Fresh), pub), pub), pub)
    BY DEF ParsePub, WithT, WithRho, WithPkhash
  <2>2. ParsePub(Cleared(Fresh), pub) \in KeyRecords
    BY <1>2, <2>1, WithType
  <2>3. LET a == ParsePub(Cleared(Fresh), pub)
            c == Made(pub, None, None, None)
        IN  /\ a.t = c.t /\ a.rho = c.rho /\ a.pkhash = c.pkhash /\ a.s = c.s
            /\ a.z = c.z /\ a.d = c.d /\ a.block = c.block
            /\ a.encoded_dk = c.encoded_dk /\ a.dkblock = c.dkblock
    BY DEF ParsePub, Cleared, Made
  <2> QED
    BY <1>1, <2>2, <2>3, KeyEquality
<1>4. WithZ(WithS(Made(pub, None, None, None), s_), z_) = Made(pub, s_, z_, None)
  <2>1. WithZ(WithS(Made(pub, None, None, None), s_), z_) \in KeyRecords
    BY <1>1, WithType
  <2>2. LET a == WithZ(WithS(Made(pub, None, None, None), s_), z_)
            c == Made(pub, s_, z_, None)
        IN  /\ a.t = c.t /\ a.rho = c.rho /\ a.pkhash = c.pkhash /\ a.s = c.s
            /\ a.z = c.z /\ a.d = c.d /\ a.block = c.block
            /\ a.encoded_dk = c.encoded_dk /\ a.dkblock = c.dkblock
    BY DEF WithZ, WithS, Made
  <2> QED
    BY <1>1, <2>1, <2>2, KeyEquality
<1>5. WithD(Made(pub, s_, z_, None), d_) = Made(pub, s_, z_, d_)
  <2>1. WithD(Made(pub, s_, z_, None), d_) \in KeyRecords
    BY <1>1, WithType
  <2>2. LET a == WithD(Made(pub, s_, z_, None), d_)
            c == Made(pub, s_, z_, d_)
        IN  /\ a.t = c.t /\ a.rho = c.rho /\ a.pkhash = c.pkhash /\ a.s = c.s
            /\ a.z = c.z /\ a.d = c.d /\ a.block = c.block
            /\ a.encoded_dk = c.encoded_dk /\ a.dkblock = c.dkblock
    BY DEF WithD, Made
  <2> QED
    BY <1>1, <2>1, <2>2, KeyEquality
<1> QED
  BY <1>1, <1>3, <1>4, <1>5

\* ossl_ml_kem_key_reset takes the storage, and all that is in it, from a key.
LEMMA ResetBlank ==
  ASSUME NEW key_ \in KeyRecords,
         key_.block # 0, key_.encoded_dk = None, key_.dkblock = 0
  PROVE  Blank(Reset(key_))
<1>1. Reset(key_) = WithD(WithZ(WithS(WithT(WithBlock(key_, 0), None), None), None), None)
  BY DEF Reset, WithD, WithZ, WithS, WithT, WithBlock
<1>2. Reset(key_) \in KeyRecords
  BY <1>1, WithType
<1>3. LET a == Reset(key_)
      IN  /\ a.t = None /\ a.s = None /\ a.z = None /\ a.d = None
          /\ a.block = 0 /\ a.encoded_dk = None /\ a.dkblock = 0
  BY DEF Reset, KeyRecords
<1> QED
  BY <1>2, <1>3 DEF Blank

\* A failure after add_storage, and the reset of a key just made, leave a blank
\* key.
LEMMA ResetResult ==
  ASSUME Fresh \in Blocks
  PROVE  /\ \A key_ : Startable(key_) => Blank(Reset(AddStorage(key_, Fresh)))
         /\ \A pub \in Ds, s_ \in Ds \cup {None}, z_ \in Zs \cup {None},
               d_ \in Ds \cup {None} : Blank(Reset(Made(pub, s_, z_, d_)))
<1>1. Fresh # 0
  BY DEF Blocks
<1>2. ASSUME NEW key_, Startable(key_) PROVE Blank(Reset(AddStorage(key_, Fresh)))
  <2>1. /\ Cleared(Fresh).block # 0 /\ Cleared(Fresh).encoded_dk = None
        /\ Cleared(Fresh).dkblock = 0
    BY <1>1 DEF Cleared
  <2> QED
    BY <1>2, <2>1, AddStorageResult, ResetBlank
<1>3. ASSUME NEW pub \in Ds, NEW s_ \in Ds \cup {None}, NEW z_ \in Zs \cup {None},
             NEW d_ \in Ds \cup {None}
      PROVE  Blank(Reset(Made(pub, s_, z_, d_)))
  <2> DEFINE m == Made(pub, s_, z_, d_)
  <2>1. m.block # 0 /\ m.encoded_dk = None /\ m.dkblock = 0
    BY <1>1 DEF Made
  <2>2. m \in KeyRecords
    BY MadeResult
  <2> HIDE DEF m
  <2>3. Blank(Reset(m))
    BY <2>1, <2>2, ResetBlank
  <2> QED
    BY <2>3 DEF m
<1> QED
  BY <1>2, <1>3

\* ossl_ml_kem_parse_public_key makes the public key or leaves no trace.
LEMMA ParsePublicKeyResult ==
  ASSUME NEW key_, Startable(key_), NEW pub \in Pubs, NEW fault \in Faults,
         Fresh \in Blocks
  PROVE  \/ /\ ParsePublicKey(key_, pub, fault) = Success(Made(pub, None, None, None))
            /\ pub \in Ds
         \/ ParsePublicKey(key_, pub, fault) = Failed(key_)
         \/ \E blank : Blank(blank) /\ ParsePublicKey(key_, pub, fault) = Failed(blank)
<1>1. pub \in Ds => ParsePub(AddStorage(key_, Fresh), pub) = Made(pub, None, None, None)
  BY AddStorageResult, MadeResult
<1>2. Blank(Reset(AddStorage(key_, Fresh)))
  BY ResetResult
<1>3. pub # Bad => pub \in Ds
  BY DEF Pubs
<1> QED
  BY <1>1, <1>2, <1>3 DEF ParsePublicKey, PubParses

\* ossl_ml_kem_parse_private_key makes what the encoding says or leaves no trace.
LEMMA ParsePrivateKeyResult ==
  ASSUME NEW key_, Startable(key_), NEW dk \in Dks, NEW fault \in Faults,
         Fresh \in Blocks
  PROVE  \/ /\ ParsePrivateKey(key_, dk, fault) = Success(Made(dk.pub, dk.s, dk.z, None))
            /\ dk.s \in Ds /\ dk.pub \in Ds /\ dk.hash = dk.pub
         \/ ParsePrivateKey(key_, dk, fault) = Failed(key_)
         \/ \E blank : Blank(blank) /\ ParsePrivateKey(key_, dk, fault) = Failed(blank)
<1> DEFINE parsed == ParsePub(AddStorage(key_, Fresh), dk.pub)
<1>1. PrvParses(dk) => dk.s \in Ds /\ dk.pub \in Ds /\ dk.z \in Zs /\ dk.hash = dk.pub
  BY ValueFacts DEF PrvParses, PubParses, Pubs
<1>2. PrvParses(dk) => WithZ(WithS(parsed, dk.s), dk.z) = Made(dk.pub, dk.s, dk.z, None)
  BY <1>1, AddStorageResult, MadeResult
<1>3. [parsed EXCEPT !.s = dk.s, !.z = dk.z] = WithZ(WithS(parsed, dk.s), dk.z)
  BY DEF WithS, WithZ
<1>4. Blank(Reset(AddStorage(key_, Fresh)))
  BY ResetResult
<1> HIDE DEF parsed
<1>5. ParsePrivateKey(key_, dk, fault) \in
        {IF PrvParses(dk) THEN Success([parsed EXCEPT !.s = dk.s, !.z = dk.z])
                          ELSE Failed(key_),
         Failed(key_), Failed(Reset(AddStorage(key_, Fresh)))}
  BY DEF ParsePrivateKey, parsed
<1> QED
  BY <1>1, <1>2, <1>3, <1>4, <1>5

\* ossl_ml_kem_genkey makes the key of the seed or leaves a blank one.
LEMMA GenkeyResult ==
  ASSUME NEW key_, Startable(key_), NEW seed \in Seeds, NEW fault \in Faults,
         Fresh \in Blocks
  PROVE  \/ Genkey(key_, seed, fault) =
              Success(Made(seed.d, seed.d, seed.z, IF conf.retain THEN seed.d ELSE None))
         \/ \E blank : Blank(blank) /\ Genkey(key_, seed, fault) = Failed(blank)
<1> DEFINE d_ == IF conf.retain THEN seed.d ELSE None
           parsed == ParsePub(AddStorage(key_, Fresh), seed.d)
           made == [parsed EXCEPT !.s = seed.d, !.z = seed.z, !.d = d_]
           bare == [key_ EXCEPT !.d = None, !.z = None]
<1>1. seed.d \in Ds /\ seed.z \in Zs /\ d_ \in Ds \cup {None}
  BY ValueFacts
<1>2. made = WithD(WithZ(WithS(parsed, seed.d), seed.z), d_)
  BY DEF WithS, WithZ, WithD
<1>3. WithD(WithZ(WithS(parsed, seed.d), seed.z), d_) = Made(seed.d, seed.d, seed.z, d_)
  <2> HIDE DEF d_
  <2> QED
    BY <1>1, AddStorageResult, MadeResult
<1>4. Blank(Reset(AddStorage(key_, Fresh)))
  BY ResetResult
<1>5. Blank(bare)
  <2>1. bare = WithZ(WithD(key_, None), None)
    BY DEF WithZ, WithD
  <2>2. bare \in KeyRecords
    BY <2>1, WithType DEF Startable
  <2> QED
    BY <2>2 DEF Blank, Startable, KeyRecords
<1>6. ~HavePub(key_) /\ ~HaveDk(key_)
  BY DEF HavePub, HaveDk, Startable
<1>7. Genkey(key_, seed, fault) \in
        {Success(made), Failed(Reset(AddStorage(key_, Fresh))), Failed(bare)}
  BY <1>6 DEF Genkey
<1> HIDE DEF made, bare, parsed
<1> QED
  BY <1>2, <1>3, <1>4, <1>5, <1>7
-----------------------------------------------------------------------------
(***************************************************************************)
(* What the key management makes of them.                                  *)
(***************************************************************************)
\* The result of a call that makes a key or leaves a blank one.
Makes(r, key_) == r = Success(key_)
Fails(r) == \E blank : Blank(blank) /\ r = Failed(blank)

\* A key made from parameters p, before its pairwise test.
Genuinely(c, key_, p) ==
    /\ Whole(key_) /\ key_.block = Fresh
    /\ key_.d # None => c.retain /\ key_.s = key_.d /\ key_.t = key_.d
    /\ Agrees(c, key_, p)

\* What a key that has been made encodes to.
LEMMA MadeFacts ==
  ASSUME NEW pub \in Ds, NEW s_ \in Ds \cup {None}, NEW z_ \in Zs \cup {None},
         NEW d_ \in Ds \cup {None}, Fresh \in Blocks,
         s_ = None => z_ = None /\ d_ = None,
         s_ # None => z_ # None
  PROVE  LET m == Made(pub, s_, z_, d_)
         IN  /\ Whole(m) /\ m.block = Fresh /\ m.t = pub /\ m.s = s_ /\ m.d = d_
             /\ EncodePrv(m) = [s |-> s_, pub |-> pub, hash |-> pub, z |-> z_]
             /\ EncodeSeed(m) = [d |-> d_, z |-> z_]
             /\ EncodePub(m) = pub
<1>1. Made(pub, s_, z_, d_) \in KeyRecords
  BY MadeResult
<1>2. Fresh # 0
  BY DEF Blocks
<1>3. Whole(Made(pub, s_, z_, d_))
  BY <1>1, <1>2 DEF Whole, Made
<1>4. EncodePub(Made(pub, s_, z_, d_)) = pub
  BY DEF EncodePub, Made
<1>5. EncodePrv(Made(pub, s_, z_, d_)) = [s |-> s_, pub |-> pub, hash |-> pub, z |-> z_]
  BY <1>4 DEF EncodePrv, Made
<1>6. EncodeSeed(Made(pub, s_, z_, d_)) = [d |-> d_, z |-> z_]
  BY DEF EncodeSeed, Made
<1> QED
  BY <1>3, <1>4, <1>5, <1>6 DEF Made

\* The two tests look at a success only.
LEMMA TestFacts ==
  ASSUME NEW key_, NEW dk
  PROVE  /\ CheckPrvenc(Failed(key_), dk) = Failed(key_)
         /\ CheckPrvenc(Success(key_), dk) =
              IF dk # None /\ EncodePrv(key_) # dk THEN Failed(Reset(key_)) ELSE Success(key_)
         /\ TestImport(Failed(key_)) = Failed(key_)
         /\ TestImport(Success(key_)) =
              IF Pairwise(key_) THEN Success(key_) ELSE Failed(Reset(key_))
  BY DEF CheckPrvenc, TestImport, Failed, Success

\* ossl_ml_kem_set_seed always succeeds on a blank key.
LEMMA SetSeedResult ==
  ASSUME NEW key_, Blank(key_), NEW seed \in Seeds
  PROVE  LET started == [key_ EXCEPT !.d = seed.d, !.z = seed.z]
         IN  /\ SetSeed(key_, seed) = Success(started)
             /\ Startable(started)
             /\ started.d = seed.d /\ started.z = seed.z
<1> DEFINE started == [key_ EXCEPT !.d = seed.d, !.z = seed.z]
<1>1. started = WithZ(WithD(key_, seed.d), seed.z)
  BY DEF WithZ, WithD
<1>2. started \in KeyRecords
  BY <1>1, WithType, ValueFacts DEF Blank
<1>3. /\ started.t = None /\ started.s = None /\ started.block = 0
      /\ started.encoded_dk = None /\ started.dkblock = 0
      /\ started.d = seed.d /\ started.z = seed.z
  BY DEF Blank, KeyRecords
<1>4. SetSeed(key_, seed) = Success(started)
  BY DEF SetSeed, HavePub, HaveSeed, Blank
<1> HIDE DEF started
<1>5. Startable(started)
  BY <1>2, <1>3 DEF Startable
<1> QED
  BY <1>3, <1>4, <1>5 DEF started

\* check_prvenc after a generation: the key is the seed's and has the dk that
\* came with it.
LEMMA CheckedGenkey ==
  ASSUME NEW key_, Startable(key_), NEW seed \in Seeds, NEW dk \in Dks \cup {None},
         NEW fault \in Faults, Fresh \in Blocks, NEW p \in Params,
         p.seed = seed, p.dk = dk, dk # None /\ p.pub # None => p.pub = dk.pub
  PROVE  LET r == CheckPrvenc(Genkey(key_, seed, fault), dk)
         IN  \/ Fails(r)
             \/ \E m : Makes(r, m) /\ Genuinely(conf, m, p) /\ m.s = m.t
<1> DEFINE d_ == IF conf.retain THEN seed.d ELSE None
           m == Made(seed.d, seed.d, seed.z, d_)
           r == CheckPrvenc(Genkey(key_, seed, fault), dk)
<1>1. seed.d \in Ds /\ seed.z \in Zs /\ d_ \in Ds \cup {None} /\ seed.d # None
      /\ seed.z # None
  BY ValueFacts
<1>2. /\ Whole(m) /\ m.block = Fresh /\ m.t = seed.d /\ m.s = seed.d /\ m.d = d_
      /\ EncodePrv(m) = Genuine(seed)
      /\ EncodeSeed(m) = [d |-> d_, z |-> seed.z]
  <2> HIDE DEF d_
  <2> QED
    BY <1>1, MadeFacts DEF Genuine
<1>3. Blank(Reset(m))
  <2> HIDE DEF d_
  <2> QED
    BY <1>1, ResetResult
<1>4. CASE Fails(Genkey(key_, seed, fault))
  BY <1>4, TestFacts DEF Fails
<1>5. CASE Genkey(key_, seed, fault) = Success(m)
  <2> HIDE DEF m
  <2>1. CASE dk # None /\ EncodePrv(m) # dk
    BY <1>3, <1>5, <2>1, TestFacts DEF Fails
  <2>2. CASE ~(dk # None /\ EncodePrv(m) # dk)
    <3>1. Makes(r, m)
      BY <1>5, <2>2, TestFacts DEF Makes
    <3>2. m.d # None => EncodeSeed(m) = seed /\ conf.retain
      BY <1>2, ValueFacts
    <3>3. dk # None => dk.pub = seed.d
      BY <1>2, <2>2 DEF Genuine
    <3>4. p # Nothing /\ p.seed # None
      BY ValueFacts DEF Nothing
    <3>5. Agrees(conf, m, p)
      BY <1>1, <1>2, <2>2, <3>2, <3>3, <3>4 DEF Agrees
    <3>6. m.d # None => conf.retain /\ m.s = m.d /\ m.t = m.d
      BY <1>2
    <3> QED
      BY <1>2, <3>1, <3>5, <3>6 DEF Genuinely
  <2> QED
    BY <2>1, <2>2
<1> HIDE DEF m, r
<1> QED
  BY <1>4, <1>5, GenkeyResult DEF Fails, m, r

\* A private encoding that parses makes the key it encodes.
LEMMA ParsedPrivate ==
  ASSUME NEW key_, Startable(key_), NEW dk \in Dks, NEW fault \in Faults,
         Fresh \in Blocks, NEW p \in Params, p.dk = dk,
         p.seed = None \/ ~conf.prefer, p.pub # None => p.pub = dk.pub
  PROVE  LET r == ParsePrivateKey(key_, dk, fault)
         IN  \/ Fails(r) \/ r = Failed(key_)
             \/ \E m : Makes(r, m) /\ Genuinely(conf, m, p)
<1> DEFINE m == Made(dk.pub, dk.s, dk.z, None)
<1>1. CASE /\ ParsePrivateKey(key_, dk, fault) = Success(m)
           /\ dk.s \in Ds /\ dk.pub \in Ds /\ dk.hash = dk.pub
  <2>1. dk.z \in Zs /\ dk.s # None /\ dk.z # None /\ dk # None
        /\ dk = [s |-> dk.s, pub |-> dk.pub, hash |-> dk.hash, z |-> dk.z]
    BY <1>1, ValueFacts
  <2>2. /\ Whole(m) /\ m.block = Fresh /\ m.t = dk.pub /\ m.s = dk.s /\ m.d = None
        /\ EncodePrv(m) = [s |-> dk.s, pub |-> dk.pub, hash |-> dk.pub, z |-> dk.z]
    BY <1>1, <2>1, MadeFacts
  <2>3. EncodePrv(m) = dk
    BY <1>1, <2>1, <2>2
  <2>4. p # Nothing
    BY <2>1 DEF Nothing
  <2> HIDE DEF m
  <2>5. Agrees(conf, m, p)
    BY <2>1, <2>2, <2>3, <2>4 DEF Agrees
  <2> QED
    BY <1>1, <2>2, <2>5 DEF Makes, Genuinely
<1>2. CASE ~(/\ ParsePrivateKey(key_, dk, fault) = Success(m)
             /\ dk.s \in Ds /\ dk.pub \in Ds /\ dk.hash = dk.pub)
  BY <1>2, ParsePrivateKeyResult DEF Fails
<1> QED
  BY <1>1, <1>2

\* So does a public one.
LEMMA ParsedPublic ==
  ASSUME NEW key_, Startable(key_), NEW pub \in Pubs, NEW fault \in Faults,
         Fresh \in Blocks, NEW p \in Params, p.pub = pub, p.dk = None, p.seed = None
  PROVE  LET r == ParsePublicKey(key_, pub, fault)
         IN  \/ Fails(r) \/ r = Failed(key_)
             \/ \E m : Makes(r, m) /\ Genuinely(conf, m, p)
<1> DEFINE m == Made(pub, None, None, None)
<1>1. CASE ParsePublicKey(key_, pub, fault) = Success(m) /\ pub \in Ds
  <2>1. /\ Whole(m) /\ m.block = Fresh /\ m.t = pub /\ m.s = None /\ m.d = None
    <3>1. Fresh # 0
      BY DEF Blocks
    <3>2. m \in KeyRecords
      BY <1>1, MadeResult
    <3> QED
      BY <1>1, <3>1, <3>2 DEF Whole, Made
  <2>2. p # Nothing
    BY <1>1, ValueFacts DEF Nothing
  <2> HIDE DEF m
  <2>3. Agrees(conf, m, p)
    BY <2>1, <2>2 DEF Agrees
  <2> QED
    BY <1>1, <2>1, <2>3 DEF Makes, Genuinely
<1>2. CASE ~(ParsePublicKey(key_, pub, fault) = Success(m) /\ pub \in Ds)
  BY <1>2, ParsePublicKeyResult DEF Fails
<1> QED
  BY <1>1, <1>2
\* ml_kem_key_fromdata on a blank key makes what the parameters say.
LEMMA FromDataResult ==
  ASSUME NEW key_, Blank(key_), NEW p \in Params, NEW fault \in Faults, Fresh \in Blocks
  PROVE  LET r == FromData(key_, p, fault)
         IN  Fails(r) \/ \E m : Makes(r, m) /\ Genuinely(conf, m, p)
<1> DEFINE r == FromData(key_, p, fault)
<1>1. Startable(key_) /\ ~HavePub(key_)
  BY BlankFacts DEF Blank, HavePub
<1>2. Fails(Failed(key_))
  BY DEF Fails
<1>3. p.seed \in Seeds \cup {None} /\ p.dk \in Dks \cup {None} /\ p.pub \in Pubs \cup {None}
  BY DEF Params
<1>4. CASE p = Nothing \/ (p.pub # None /\ p.dk # None /\ p.pub # p.dk.pub)
  BY <1>1, <1>2, <1>4 DEF FromData
<1>5. CASE /\ ~(p = Nothing \/ (p.pub # None /\ p.dk # None /\ p.pub # p.dk.pub))
           /\ p.seed # None /\ (p.dk = None \/ conf.prefer)
  <2>1. CASE p.dk # None /\ ~CheckSeed(p.seed, p.dk)
    BY <1>1, <1>2, <1>5, <2>1 DEF FromData
  <2>2. CASE ~(p.dk # None /\ ~CheckSeed(p.seed, p.dk))
    <3>1. r = FromSeed(key_, p.seed, p.dk, fault)
      BY <1>1, <1>5, <2>2 DEF FromData
    <3> DEFINE started == [key_ EXCEPT !.d = p.seed.d, !.z = p.seed.z]
    <3>2. p.seed \in Seeds
      BY <1>3, <1>5
    <3>3. SetSeed(key_, p.seed) = Success(started) /\ Startable(started)
      BY <3>2, SetSeedResult
    <3> HIDE DEF started
    <3>4. r = CheckPrvenc(Genkey(started, p.seed, fault), p.dk)
      BY <3>1, <3>3 DEF FromSeed, Success
    <3> QED
      BY <1>3, <1>5, <3>2, <3>3, <3>4, CheckedGenkey
  <2> QED
    BY <2>1, <2>2
<1>6. CASE /\ ~(p = Nothing \/ (p.pub # None /\ p.dk # None /\ p.pub # p.dk.pub))
           /\ ~(p.seed # None /\ (p.dk = None \/ conf.prefer))
           /\ p.dk # None
  <2>1. r = ParsePrivateKey(key_, p.dk, fault)
    BY <1>1, <1>6 DEF FromData
  <2>2. p.dk \in Dks /\ (p.seed = None \/ ~conf.prefer) /\ (p.pub # None => p.pub = p.dk.pub)
    BY <1>3, <1>6
  <2> QED
    BY <1>1, <1>2, <2>1, <2>2, ParsedPrivate
<1>7. CASE /\ ~(p = Nothing \/ (p.pub # None /\ p.dk # None /\ p.pub # p.dk.pub))
           /\ ~(p.seed # None /\ (p.dk = None \/ conf.prefer))
           /\ p.dk = None
  <2>1. r = ParsePublicKey(key_, p.pub, fault)
    BY <1>1, <1>7 DEF FromData
  <2>2. p.seed = None /\ p.dk = None
    BY <1>7
  <2>3. p.pub # None
    BY <1>7, <2>2 DEF Params, Nothing
  <2>4. p.pub \in Pubs
    BY <1>3, <2>3
  <2> QED
    BY <1>1, <1>2, <2>1, <2>2, <2>4, ParsedPublic
<1> QED
  BY <1>4, <1>5, <1>6, <1>7

\* The pairwise test lets a whole key through only if its halves match.
LEMMA TestImportResult ==
  ASSUME NEW r, NEW p, Fails(r) \/ \E m : Makes(r, m) /\ Genuinely(conf, m, p),
         Fresh \in Blocks
  PROVE  \/ Fails(TestImport(r))
         \/ \E m : /\ Makes(TestImport(r), m)
                  /\ Genuinely(conf, m, p) /\ Coherent(conf, m)
<1>1. CASE Fails(r)
  BY <1>1, TestFacts DEF Fails
<1>2. ASSUME NEW m, Makes(r, m), Genuinely(conf, m, p)
      PROVE  \/ Fails(TestImport(r))
             \/ Makes(TestImport(r), m) /\ Coherent(conf, m)
  <2>1. CASE Pairwise(m)
    <3>1. TestImport(r) = Success(m)
      BY <1>2, <2>1, TestFacts DEF Makes
    <3>2. conf.pct /\ m.s # None => m.s = m.t
      BY <1>2, <2>1, ValueFacts
      DEF Genuinely, Whole, Pairwise, HavePrv, HavePub, EncodePub
    <3> QED
      BY <1>2, <3>1, <3>2 DEF Makes, Coherent, Genuinely
  <2>2. CASE ~Pairwise(m)
    <3>1. TestImport(r) = Failed(Reset(m))
      BY <1>2, <2>2, TestFacts DEF Makes
    <3>2. Blank(Reset(m))
      BY <1>2, ResetBlank DEF Genuinely, Whole
    <3> QED
      BY <3>1, <3>2 DEF Fails
  <2> QED
    BY <2>1, <2>2
<1> QED
  BY <1>1, <1>2
-----------------------------------------------------------------------------
(***************************************************************************)
(* The invariant.                                                          *)
(***************************************************************************)
\* No slot holds anything at the start.
LEMMA KeyInit == Init => KeyInv
<1> SUFFICES ASSUME Init PROVE KeyInv
  OBVIOUS
<1>1. Nothing \in Params
  BY DEF Nothing, Params
<1>2. \A k \in Slots : key[k] = NewKey /\ status[k] = "empty"
  BY DEF Init
<1>3. \A k \in Slots : SlotOK(conf, status[k], key[k], given[k])
  BY <1>2 DEF SlotOK
<1>4. NoSharedStorage
  BY <1>2 DEF NoSharedStorage, NewKey
<1> QED
  BY <1>1, <1>3, <1>4, BlankFacts DEF Init, KeyInv

\* A call that puts a good key into one slot, in storage of its own, keeps the
\* invariant.
LEMMA PutKeeps ==
  ASSUME KeyInv, NEW k \in Slots, NEW st \in {"empty", "key", "decoded"},
         NEW kk \in KeyRecords, NEW g \in Params, Put(k, st, kk, g), conf' = conf,
         SlotOK(conf, st, kk, g),
         {kk.block, kk.dkblock} \subseteq {0, key[k].block, key[k].dkblock, Fresh}
  PROVE  KeyInv'
<1>1. /\ status' \in [Slots -> {"empty", "key", "decoded"}]
      /\ key' \in [Slots -> KeyRecords]
      /\ given' \in [Slots -> Params]
      /\ conf' \in Confs
  BY DEF KeyInv, Put
<1>2. /\ status'[k] = st /\ key'[k] = kk /\ given'[k] = g
      /\ \A l \in Slots \ {k} :
             status'[l] = status[l] /\ key'[l] = key[l] /\ given'[l] = given[l]
  BY DEF KeyInv, Put
<1>3. \A l \in Slots : SlotOK(conf', status'[l], key'[l], given'[l])
  BY <1>2 DEF KeyInv
<1>4. NoSharedStorage'
  <2>1. \A l \in Slots \ {k} :
          {kk.block, kk.dkblock} \cap {key[l].block, key[l].dkblock} \subseteq {0}
    BY FreshFacts DEF KeyInv, NoSharedStorage
  <2> QED
    BY <1>2, <2>1 DEF KeyInv, NoSharedStorage
<1> QED
  BY <1>1, <1>3, <1>4 DEF KeyInv

\* What a slot with a key holds.
LEMMA SlotKey ==
  ASSUME KeyInv, NEW k \in Slots
  PROVE  /\ key[k] \in KeyRecords /\ given[k] \in Params
         /\ status[k] = "key" =>
              \/ Blank(key[k])
              \/ Whole(key[k]) /\ Coherent(conf, key[k]) /\ Agrees(conf, key[k], given[k])
         /\ Complete(k) =>
              Whole(key[k]) /\ Coherent(conf, key[k]) /\ Agrees(conf, key[k], given[k])
         /\ status[k] = "decoded" => Stashed(key[k], given[k])
<1>1. SlotOK(conf, status[k], key[k], given[k])
  BY DEF KeyInv
<1>2. Blank(key[k]) => ~HavePub(key[k])
  BY DEF Blank, HavePub
<1> QED
  BY <1>1, <1>2 DEF KeyInv, SlotOK, Complete

\* A slot that a call fills with a blank or with a good key.
LEMMA PutBlank ==
  ASSUME KeyInv, NEW k \in Slots, NEW kk, Blank(kk), NEW g \in Params,
         Put(k, "key", kk, g), conf' = conf
  PROVE  KeyInv'
<1>1. SlotOK(conf, "key", kk, g)
  BY DEF SlotOK
<1>2. kk \in KeyRecords /\ {kk.block, kk.dkblock} \subseteq {0}
  BY DEF Blank
<1> QED
  BY <1>1, <1>2, PutKeeps

\* A slot that receives a whole, coherent key keeps the invariant.
LEMMA PutGood ==
  ASSUME KeyInv, NEW k \in Slots, NEW kk, NEW g \in Params, Genuinely(conf, kk, g),
         Coherent(conf, kk), Put(k, "key", kk, g), conf' = conf
  PROVE  KeyInv'
<1>1. SlotOK(conf, "key", kk, g)
  BY DEF SlotOK, Genuinely
<1>2. kk \in KeyRecords /\ {kk.block, kk.dkblock} \subseteq {0, Fresh}
  BY DEF Genuinely, Whole
<1> QED
  BY <1>1, <1>2, PutKeeps

\* New and Free.
LEMMA NewFreeKeeps ==
  ASSUME KeyInv, NEW k \in Slots, New(k) \/ Free(k)
  PROVE  KeyInv'
<1>1. Nothing \in Params
  BY DEF Nothing, Params
<1>2. CASE New(k)
  BY <1>1, <1>2, BlankFacts, PutBlank DEF New
<1>3. CASE Free(k)
  <2>1. SlotOK(conf, "empty", NewKey, Nothing)
    BY DEF SlotOK
  <2>2. {NewKey.block, NewKey.dkblock} \subseteq {0}
    BY DEF NewKey
  <2> QED
    BY <1>1, <1>3, <2>1, <2>2, BlankFacts, PutKeeps DEF Free
<1> QED
  BY <1>2, <1>3

\* Generation, with a seed or without.
LEMMA GenKeeps ==
  ASSUME KeyInv, NEW k \in Slots, Gen(k)
  PROVE  KeyInv'
<1>1. Fresh \in Blocks
  BY FreshFacts
<1>2. PICK seed \in Seeds, supplied \in BOOLEAN, fault \in Faults :
        LET start == IF supplied THEN SetSeed(NewKey, seed).key ELSE NewKey
            r == Genkey(start, seed, fault)
        IN  IF r.ok THEN Put(k, "key", r.key, [Nothing EXCEPT !.seed = seed])
                    ELSE UNCHANGED <<status, key, given>>
  BY DEF Gen
<1> DEFINE start == IF supplied THEN SetSeed(NewKey, seed).key ELSE NewKey
           r == Genkey(start, seed, fault)
           p == [Nothing EXCEPT !.seed = seed]
<1>3. Startable(start)
  <2>1. Startable(NewKey)
    BY BlankFacts
  <2>2. Startable(SetSeed(NewKey, seed).key)
    <3> DEFINE started == [NewKey EXCEPT !.d = seed.d, !.z = seed.z]
    <3>1. SetSeed(NewKey, seed) = Success(started) /\ Startable(started)
      BY BlankFacts, SetSeedResult
    <3> HIDE DEF started
    <3> QED
      BY <3>1 DEF Success
  <2> QED
    BY <2>1, <2>2
<1>4. p \in Params /\ p.seed = seed /\ p.dk = None /\ p.pub = None
  BY DEF Params, Nothing
<1> HIDE DEF start, p
<1>5. CheckPrvenc(r, None) = r
  BY DEF CheckPrvenc
<1>6. None \in Dks \cup {None}
  OBVIOUS
<1>7. Fails(r) \/ \E m : Makes(r, m) /\ Genuinely(conf, m, p) /\ m.s = m.t
  <2>1. LET q == CheckPrvenc(Genkey(start, seed, fault), None)
        IN  Fails(q) \/ \E m : Makes(q, m) /\ Genuinely(conf, m, p) /\ m.s = m.t
    BY <1>1, <1>3, <1>4, <1>6, CheckedGenkey
  <2> QED
    BY <1>5, <2>1
<1> HIDE DEF r
<1>8. IF r.ok THEN Put(k, "key", r.key, p) ELSE UNCHANGED <<status, key, given>>
  BY <1>2 DEF r, start, p
<1>9. conf' = conf
  BY DEF Gen
<1>10. CASE Fails(r)
  <2>1. ~r.ok
    BY <1>10 DEF Fails, Failed
  <2> QED
    BY <1>8, <1>9, <2>1 DEF KeyInv, NoSharedStorage
<1>11. ASSUME NEW m, Makes(r, m), Genuinely(conf, m, p), m.s = m.t PROVE KeyInv'
  <2>1. r.ok /\ r.key = m
    BY <1>11 DEF Makes, Success
  <2>2. Coherent(conf, m)
    BY <1>11 DEF Coherent, Genuinely
  <2> QED
    BY <1>4, <1>8, <1>9, <1>11, <2>1, <2>2, PutGood
<1> QED
  BY <1>7, <1>10, <1>11
\* ml_kem_import: a blank key takes the parameters or stays blank; a key with
\* material is left alone.
LEMMA ImportKeeps ==
  ASSUME KeyInv, NEW k \in Slots, NEW p \in Params, NEW private \in BOOLEAN,
         NEW fault \in Faults, ImportInto(k, p, private, fault),
         private \/ (p.seed = None /\ p.dk = None)
  PROVE  KeyInv' /\ (HavePub(key[k]) => key'[k] = key[k])
<1> DEFINE r == FromData(key[k], p, fault)
           tested == IF private THEN TestImport(r) ELSE r
<1>1. /\ status[k] = "key"
      /\ Put(k, "key", tested.key, IF tested.ok THEN p ELSE given[k])
      /\ conf' = conf
  BY DEF ImportInto
<1>2. key[k] \in KeyRecords /\ given[k] \in Params
  BY SlotKey
<1>3. Fresh \in Blocks
  BY FreshFacts
<1>4. CASE Blank(key[k])
  <2>1. ~HavePub(key[k])
    BY <1>4 DEF Blank, HavePub
  <2>2. Fails(r) \/ \E m : Makes(r, m) /\ Genuinely(conf, m, p)
    BY <1>3, <1>4, FromDataResult
  <2> HIDE DEF r
  <2>3. Fails(tested) \/ \E m : /\ Makes(tested, m)
                               /\ Genuinely(conf, m, p) /\ Coherent(conf, m)
    <3>1. CASE private
      BY <1>3, <2>2, <3>1, TestImportResult
    <3>2. CASE ~private
      <4>1. ASSUME NEW m, Genuinely(conf, m, p) PROVE Coherent(conf, m)
        BY <3>2, <4>1 DEF Genuinely, Coherent, Agrees
      <4> QED
        BY <2>2, <3>2, <4>1
    <3> QED
      BY <3>1, <3>2
  <2> HIDE DEF tested
  <2>4. CASE Fails(tested)
    <3>1. PICK blank : Blank(blank) /\ tested = Failed(blank)
      BY <2>4 DEF Fails
    <3>2. Put(k, "key", blank, given[k])
      BY <1>1, <3>1 DEF Failed
    <3> QED
      BY <1>1, <1>2, <2>1, <3>1, <3>2, PutBlank
  <2>5. ASSUME NEW m, Makes(tested, m), Genuinely(conf, m, p), Coherent(conf, m)
        PROVE  KeyInv'
    <3>1. Put(k, "key", m, p)
      BY <1>1, <2>5 DEF Makes, Success
    <3> QED
      BY <1>1, <2>5, <3>1, PutGood
  <2> QED
    BY <2>1, <2>3, <2>4, <2>5
<1>5. CASE Whole(key[k])
  <2>1. HavePub(key[k])
    BY <1>5, ValueFacts DEF Whole, HavePub
  <2>2. r = Failed(key[k])
    BY <2>1 DEF FromData
  <2> HIDE DEF r
  <2>3. tested = Failed(key[k])
    BY <2>2, TestFacts
  <2> HIDE DEF tested
  <2>4. Put(k, "key", key[k], given[k])
    BY <1>1, <2>3 DEF Failed
  <2>5. SlotOK(conf, "key", key[k], given[k])
    BY <1>1 DEF KeyInv
  <2>6. KeyInv'
    BY <1>1, <1>2, <2>4, <2>5, PutKeeps
  <2>7. key'[k] = key[k]
    BY <2>4 DEF Put, KeyInv
  <2> QED
    BY <2>6, <2>7
<1> QED
  BY <1>1, <1>4, <1>5, SlotKey

\* ml_kem_set_params with an encoded public key.
LEMMA SetParamsKeeps ==
  ASSUME KeyInv, NEW k \in Slots, SetParams(k)
  PROVE  KeyInv'
<1>1. PICK pub \in Pubs, fault \in Faults :
        LET r == ParsePublicKey(key[k], pub, fault)
        IN  /\ ~HavePub(key[k])
            /\ Put(k, "key", r.key, IF r.ok THEN [Nothing EXCEPT !.pub = pub] ELSE given[k])
  BY DEF SetParams
<1> DEFINE r == ParsePublicKey(key[k], pub, fault)
           p == [Nothing EXCEPT !.pub = pub]
<1>2. /\ ~HavePub(key[k]) /\ status[k] = "key" /\ conf' = conf
      /\ Put(k, "key", r.key, IF r.ok THEN p ELSE given[k])
  BY <1>1 DEF SetParams
<1>3. Blank(key[k]) /\ given[k] \in Params
  BY <1>2, SlotKey, ValueFacts DEF Whole, HavePub
<1>4. p \in Params /\ p.pub = pub /\ p.dk = None /\ p.seed = None
  BY DEF Params, Nothing
<1>5. Fresh \in Blocks /\ Startable(key[k])
  BY <1>3, FreshFacts, BlankFacts
<1>6. Fails(r) \/ r = Failed(key[k]) \/ \E m : Makes(r, m) /\ Genuinely(conf, m, p)
  <2> HIDE DEF p
  <2> QED
    BY <1>4, <1>5, ParsedPublic
<1> HIDE DEF r, p
<1>7. CASE Fails(r) \/ r = Failed(key[k])
  <2>1. PICK blank : Blank(blank) /\ r = Failed(blank)
    BY <1>3, <1>7 DEF Fails
  <2>2. Put(k, "key", blank, given[k])
    BY <1>2, <2>1 DEF Failed
  <2> QED
    BY <1>2, <1>3, <2>1, <2>2, PutBlank
<1>8. ASSUME NEW m, Makes(r, m), Genuinely(conf, m, p) PROVE KeyInv'
  <2>1. Put(k, "key", m, p)
    BY <1>2, <1>8 DEF Makes, Success
  <2>2. Coherent(conf, m)
    BY <1>4, <1>8 DEF Genuinely, Coherent, Agrees
  <2> QED
    BY <1>2, <1>4, <1>8, <2>1, <2>2, PutGood
<1> QED
  BY <1>6, <1>7, <1>8

\* What a key exports are parameters.
LEMMA ExportedType ==
  ASSUME KeyInv, NEW k \in Slots, status[k] # "empty",
         HavePub(key[k]) \/ Decoded(key[k])
  PROVE  Exported(key[k]) \in Params
<1> DEFINE seed == IF HaveSeed(key[k]) THEN EncodeSeed(key[k]) ELSE None
           dk == IF HavePrv(key[k]) THEN EncodePrv(key[k]) ELSE key[k].encoded_dk
           pub == IF HavePub(key[k]) THEN EncodePub(key[k]) ELSE None
<1>1. given[k].seed \in Seeds \cup {None} /\ given[k].dk \in Dks \cup {None}
  BY SlotKey DEF Params
<1>2. seed \in Seeds \cup {None} /\ dk \in Dks \cup {None} /\ pub \in Pubs \cup {None}
  <2>1. CASE status[k] = "decoded"
    <3>1. Stashed(key[k], given[k])
      BY <2>1, SlotKey
    <3> QED
      BY <1>1, <3>1 DEF Stashed, HaveSeed, HavePrv, HavePub
  <2>2. CASE status[k] = "key" /\ Blank(key[k])
    BY <2>2 DEF Blank, HavePub, HavePrv, HaveSeed
  <2>3. CASE Whole(key[k]) /\ Agrees(conf, key[k], given[k])
    <3>1. seed \in Seeds \cup {None}
      BY <1>1, <2>3 DEF Agrees, HaveSeed
    <3>2. dk \in Dks \cup {None}
      BY <1>1, <2>3, ValueFacts DEF Agrees, HavePrv, Whole
    <3>3. pub \in Pubs \cup {None}
      BY <2>3 DEF Whole, EncodePub, Pubs
    <3> QED
      BY <3>1, <3>2, <3>3
  <2>4. status[k] \in {"key", "decoded"}
    BY DEF KeyInv
  <2> QED
    BY <2>1, <2>2, <2>3, <2>4, SlotKey
<1>3. Exported(key[k]) = [seed |-> seed, dk |-> dk, pub |-> pub]
  BY DEF Exported
<1> HIDE DEF seed, dk, pub
<1> QED
  BY <1>2, <1>3 DEF Params

\* The imports, of parameters and of what another key exports.
LEMMA ImportsKeep ==
  ASSUME KeyInv, NEW k \in Slots,
         \/ Import(k) \/ ImportPublic(k)
         \/ \E l \in Slots : Transfer(l, k)
  PROVE  KeyInv' /\ (HavePub(key[k]) => key'[k] = key[k])
<1>1. CASE Import(k)
  <2>1. PICK p \in Params, fault \in Faults : ImportInto(k, p, TRUE, fault)
    BY <1>1 DEF Import
  <2> QED
    BY <2>1, ImportKeeps
<1>2. CASE ImportPublic(k)
  <2>1. PICK pub \in Pubs \cup {None}, fault \in Faults :
          ImportInto(k, [Nothing EXCEPT !.pub = pub], FALSE, fault)
    BY <1>2 DEF ImportPublic
  <2> DEFINE p == [Nothing EXCEPT !.pub = pub]
  <2>2. p \in Params /\ p.seed = None /\ p.dk = None
    BY DEF Params, Nothing
  <2> HIDE DEF p
  <2> QED
    BY <2>1, <2>2, ImportKeeps DEF p
<1>3. ASSUME NEW l \in Slots, Transfer(l, k)
      PROVE  KeyInv' /\ (HavePub(key[k]) => key'[k] = key[k])
  <2>1. PICK fault \in Faults : ImportInto(k, Exported(key[l]), TRUE, fault)
    BY <1>3 DEF Transfer
  <2>2. Exported(key[l]) \in Params
    BY <1>3, ExportedType DEF Transfer
  <2> QED
    BY <2>1, <2>2, ImportKeeps
<1> QED
  BY <1>1, <1>2, <1>3

\* A decoded dk is put into a key, and taken out of it, with its storage.
WithDk(key_, dk, b) == [key_ EXCEPT !.encoded_dk = dk, !.dkblock = b]

\* Setting the stored decapsulation encoding touches that field alone.
LEMMA WithDkFacts ==
  ASSUME NEW key_ \in KeyRecords, NEW dk \in Dks \cup {None}, NEW b \in Blocks \cup {0}
  PROVE  LET w == WithDk(key_, dk, b)
         IN  /\ w \in KeyRecords
             /\ w.encoded_dk = dk /\ w.dkblock = b
             /\ w.t = key_.t /\ w.s = key_.s /\ w.z = key_.z /\ w.d = key_.d
             /\ w.block = key_.block
<1> DEFINE v == [key_ EXCEPT !.encoded_dk = dk]
<1>1. v \in KeyRecords
  BY DEF KeyRecords
<1>2. WithDk(key_, dk, b) = [v EXCEPT !.dkblock = b]
  BY DEF WithDk
<1>3. WithDk(key_, dk, b) \in KeyRecords
  <2> HIDE DEF v
  <2> QED
    BY <1>1, <1>2 DEF KeyRecords
<1> QED
  BY <1>3 DEF WithDk, KeyRecords

\* ossl_ml_kem_d2i_PKCS8.
LEMMA DecodeKeeps ==
  ASSUME KeyInv, NEW k \in Slots, Decode(k)
  PROVE  KeyInv'
<1>1. PICK seed \in Seeds \cup {None}, dk \in Dks \cup {None} :
        LET start == IF seed = None THEN NewKey ELSE SetSeed(NewKey, seed).key
        IN  /\ seed # None \/ dk # None
            /\ Put(k, "decoded",
                   [start EXCEPT !.encoded_dk = dk,
                                 !.dkblock = IF dk = None THEN 0 ELSE Fresh],
                   [seed |-> seed, dk |-> dk, pub |-> None])
  BY DEF Decode
<1> DEFINE start == IF seed = None THEN NewKey ELSE SetSeed(NewKey, seed).key
           b == IF dk = None THEN 0 ELSE Fresh
           g == [seed |-> seed, dk |-> dk, pub |-> None]
           kk == WithDk(start, dk, b)
<1>2. Fresh \in Blocks
  BY FreshFacts
<1>3. /\ Startable(start)
      /\ IF seed = None THEN start.d = None /\ start.z = None
                        ELSE start.d = seed.d /\ start.z = seed.z
  <2>1. CASE seed = None
    BY <2>1, BlankFacts DEF Blank
  <2>2. CASE seed # None
    <3> DEFINE started == [NewKey EXCEPT !.d = seed.d, !.z = seed.z]
    <3>1. seed \in Seeds
      BY <2>2
    <3>2. /\ SetSeed(NewKey, seed) = Success(started) /\ Startable(started)
          /\ started.d = seed.d /\ started.z = seed.z
      BY <3>1, BlankFacts, SetSeedResult
    <3> HIDE DEF started
    <3>3. start = started
      BY <2>2, <3>2 DEF Success
    <3> QED
      BY <2>2, <3>2, <3>3
  <2> QED
    BY <2>1, <2>2
<1>4. b \in Blocks \cup {0} /\ b \in {0, Fresh}
  BY <1>2
<1>5. g \in Params /\ g.seed = seed /\ g.dk = dk /\ g.pub = None
  BY DEF Params
<1>6. (seed # None \/ dk # None) /\ Put(k, "decoded", kk, g) /\ conf' = conf
  BY <1>1 DEF WithDk, Decode
<1> HIDE DEF start, b, g
<1>7. /\ kk \in KeyRecords
      /\ kk.encoded_dk = dk /\ kk.dkblock = b
      /\ kk.t = start.t /\ kk.s = start.s /\ kk.z = start.z /\ kk.d = start.d
      /\ kk.block = start.block
  BY <1>3, <1>4, WithDkFacts DEF Startable
<1> HIDE DEF kk
<1>8. seed # None => kk.d # None /\ EncodeSeed(kk) = seed
  <2> SUFFICES ASSUME seed # None PROVE kk.d # None /\ EncodeSeed(kk) = seed
    OBVIOUS
  <2>1. seed \in Seeds
    OBVIOUS
  <2>2. kk.d = seed.d /\ kk.z = seed.z
    BY <1>3, <1>7
  <2>3. seed.d # None /\ seed = [d |-> seed.d, z |-> seed.z]
    BY <2>1, ValueFacts
  <2> QED
    BY <2>2, <2>3 DEF EncodeSeed
<1>9. Stashed(kk, g)
  BY <1>3, <1>5, <1>6, <1>7, <1>8 DEF Stashed, Startable
<1>10. SlotOK(conf, "decoded", kk, g)
  BY <1>9 DEF SlotOK
<1>11. {kk.block, kk.dkblock} \subseteq {0, Fresh}
  BY <1>3, <1>4, <1>7 DEF Startable
<1> QED
  BY <1>5, <1>6, <1>7, <1>10, <1>11, PutKeeps

\* ml_kem_load.
LEMMA LoadKeeps ==
  ASSUME KeyInv, NEW k \in Slots, Load(k)
  PROVE  KeyInv'
<1> DEFINE seed == IF HaveSeed(key[k]) THEN EncodeSeed(key[k]) ELSE None
           dk == key[k].encoded_dk
           detached == [key[k] EXCEPT !.encoded_dk = None, !.dkblock = 0]
           loaded(fault) ==
             IF seed # None /\ dk # None /\ ~CheckSeed(seed, dk) THEN Failed(detached)
             ELSE IF seed # None /\ (dk = None \/ conf.prefer)
                  THEN CheckPrvenc(Genkey(detached, seed, fault), dk)
                  ELSE TestImport(ParsePrivateKey(detached, dk, fault))
<1>1. PICK fault \in Faults :
        IF loaded(fault).ok THEN Put(k, "key", loaded(fault).key, given[k])
                            ELSE Put(k, "empty", NewKey, Nothing)
  BY DEF Load
<1> DEFINE r == loaded(fault)
<1>2. status[k] = "decoded" /\ conf' = conf
  BY DEF Load
<1>3. Stashed(key[k], given[k]) /\ given[k] \in Params /\ Fresh \in Blocks
  BY <1>2, SlotKey, FreshFacts
<1>4. /\ seed = given[k].seed /\ dk = given[k].dk /\ given[k].pub = None
      /\ seed \in Seeds \cup {None} /\ dk \in Dks \cup {None}
      /\ seed # None \/ dk # None
  BY <1>3 DEF Stashed, Params, HaveSeed
<1>5. Startable(detached)
  <2>1. detached = WithDk(key[k], None, 0) /\ key[k] \in KeyRecords
    BY <1>3 DEF WithDk, Stashed
  <2> HIDE DEF detached
  <2>2. LET w == WithDk(key[k], None, 0)
        IN  /\ w \in KeyRecords
            /\ w.encoded_dk = None /\ w.dkblock = 0
            /\ w.t = key[k].t /\ w.s = key[k].s /\ w.block = key[k].block
    BY <2>1, WithDkFacts
  <2> QED
    BY <1>3, <2>1, <2>2 DEF Startable, Stashed
<1> HIDE DEF seed, dk, detached
<1>6. \/ ~r.ok
      \/ \E m : Makes(r, m) /\ Genuinely(conf, m, given[k]) /\ Coherent(conf, m)
  <2>1. CASE seed # None /\ dk # None /\ ~CheckSeed(seed, dk)
    <3>1. r = Failed(detached)
      BY <2>1
    <3> QED
      BY <3>1 DEF Failed
  <2>2. CASE /\ ~(seed # None /\ dk # None /\ ~CheckSeed(seed, dk))
             /\ seed # None /\ (dk = None \/ conf.prefer)
    <3>1. r = CheckPrvenc(Genkey(detached, seed, fault), dk)
      BY <2>2
    <3>2. seed \in Seeds
      BY <1>4, <2>2
    <3> HIDE DEF r
    <3>3. \/ Fails(r)
          \/ \E m : Makes(r, m) /\ Genuinely(conf, m, given[k]) /\ m.s = m.t
      BY <1>3, <1>4, <1>5, <3>1, <3>2, CheckedGenkey
    <3>4. Fails(r) => ~r.ok
      BY DEF Fails, Failed
    <3>5. ASSUME NEW m, Genuinely(conf, m, given[k]), m.s = m.t PROVE Coherent(conf, m)
      BY <3>5 DEF Genuinely, Coherent
    <3> QED
      BY <3>3, <3>4, <3>5
  <2>3. CASE /\ ~(seed # None /\ dk # None /\ ~CheckSeed(seed, dk))
             /\ ~(seed # None /\ (dk = None \/ conf.prefer))
    <3> DEFINE q == ParsePrivateKey(detached, dk, fault)
    <3>1. r = TestImport(q)
      BY <2>3
    <3>2. dk \in Dks /\ (seed = None \/ ~conf.prefer)
      BY <1>4, <2>3
    <3>3. Fails(q) \/ q = Failed(detached) \/ \E m : Makes(q, m) /\ Genuinely(conf, m, given[k])
      BY <1>3, <1>4, <1>5, <3>2, ParsedPrivate
    <3> HIDE DEF q, r
    <3>4. q = Failed(detached) => ~r.ok
      BY <3>1, TestFacts DEF Failed
    <3>5. ASSUME Fails(q) \/ \E m : Makes(q, m) /\ Genuinely(conf, m, given[k])
          PROVE  \/ Fails(r)
                 \/ \E m : /\ Makes(r, m)
                          /\ Genuinely(conf, m, given[k]) /\ Coherent(conf, m)
      BY <1>3, <3>1, <3>5, TestImportResult
    <3>6. Fails(r) => ~r.ok
      BY DEF Fails, Failed
    <3> QED
      BY <3>3, <3>4, <3>5, <3>6
  <2> QED
    BY <2>1, <2>2, <2>3
<1>7. IF r.ok THEN Put(k, "key", r.key, given[k]) ELSE Put(k, "empty", NewKey, Nothing)
  BY <1>1
<1> HIDE DEF r
<1>8. CASE ~r.ok
  <2>1. Put(k, "empty", NewKey, Nothing)
    BY <1>7, <1>8
  <2>2. SlotOK(conf, "empty", NewKey, Nothing) /\ Nothing \in Params
    BY DEF SlotOK, Nothing, Params
  <2>3. {NewKey.block, NewKey.dkblock} \subseteq {0}
    BY DEF NewKey
  <2> QED
    BY <1>2, <2>1, <2>2, <2>3, BlankFacts, PutKeeps
<1>9. ASSUME NEW m, Makes(r, m), Genuinely(conf, m, given[k]), Coherent(conf, m)
      PROVE  KeyInv'
  <2>1. Put(k, "key", m, given[k])
    BY <1>7, <1>9 DEF Makes, Success
  <2> QED
    BY <1>2, <1>3, <1>9, <2>1, PutGood
<1> QED
  BY <1>6, <1>8, <1>9

\* The public part of what a whole key was made from is the key's.
LEMMA PublicOfFacts ==
  ASSUME NEW key_, NEW g \in Params, Whole(key_), Agrees(conf, key_, g)
  PROVE  PublicOf(g) = key_.t
<1>1. EncodePub(key_) = key_.t
  BY DEF Whole, EncodePub
<1>2. EncodePrv(key_).pub = key_.t
  BY <1>1 DEF EncodePrv
<1>3. CASE g.dk # None
  BY <1>2, <1>3 DEF Agrees, PublicOf
<1>4. CASE g.dk = None /\ g.seed # None
  <2>1. Genuine(g.seed).pub = g.seed.d
    BY DEF Genuine
  <2> QED
    BY <1>2, <1>4, <2>1 DEF Agrees, PublicOf
<1>5. CASE g.dk = None /\ g.seed = None
  <2>1. g.pub # None
    BY <1>5 DEF Agrees, Params, Nothing
  <2> QED
    BY <1>5, <2>1 DEF Agrees, PublicOf
<1> QED
  BY <1>3, <1>4, <1>5

\* ossl_ml_kem_key_dup of a whole key: nothing, its public part or all of it, in
\* storage of its own.
LEMMA DupKeyResult ==
  ASSUME NEW key_, Whole(key_), NEW selection \in Selections, Fresh \in Blocks
  PROVE  DupKey(key_, selection, Fresh) \in
           {NewKey, Made(key_.t, None, None, None),
            IF key_.s = None THEN NewKey ELSE Made(key_.t, key_.s, key_.z, key_.d)}
<1> DEFINE base == ParsePub(AddStorage(NewKey, Fresh), key_.t)
           part == [AddStorage(NewKey, Fresh)
                      EXCEPT !.t = key_.t, !.rho = key_.rho, !.pkhash = key_.pkhash]
           all  == [AddStorage(NewKey, Fresh)
                      EXCEPT !.t = key_.t, !.rho = key_.rho, !.pkhash = key_.pkhash,
                             !.s = key_.s, !.z = key_.z, !.d = key_.d]
<1>1. /\ key_.t \in Ds /\ key_.s \in Ds \cup {None} /\ key_.z \in Zs \cup {None}
      /\ key_.d \in Ds \cup {None} /\ key_.rho = key_.t /\ key_.pkhash = key_.t
  BY DEF Whole, KeyRecords
<1>2. base = Made(key_.t, None, None, None)
  BY <1>1, BlankFacts, AddStorageResult, MadeResult
<1>3. part = base
  BY <1>1 DEF ParsePub
<1>4. all = WithD(WithZ(WithS(base, key_.s), key_.z), key_.d)
  BY <1>1 DEF ParsePub, WithD, WithZ, WithS
<1> HIDE DEF base, part, all
<1>5. all = Made(key_.t, key_.s, key_.z, key_.d)
  BY <1>1, <1>2, <1>4, MadeResult
<1>6. DupKey(key_, selection, Fresh) \in {NewKey, part, IF key_.s = None THEN NewKey ELSE all}
  BY DEF DupKey, HavePrv, part, all
<1> QED
  BY <1>2, <1>3, <1>5, <1>6

\* ossl_ml_kem_key_dup keeps the invariant.
LEMMA DupKeeps ==
  ASSUME KeyInv, NEW k \in Slots, NEW l \in Slots, Dup(k, l)
  PROVE  KeyInv'
<1>1. PICK selection \in Selections :
        LET copy == DupKey(key[k], selection, Fresh)
        IN  Put(l, "key", copy,
                IF ~HavePub(copy) THEN Nothing
                ELSE IF HavePrv(copy) THEN given[k]
                     ELSE [Nothing EXCEPT !.pub = PublicOf(given[k])])
  BY DEF Dup
<1> DEFINE copy == DupKey(key[k], selection, Fresh)
           public == [Nothing EXCEPT !.pub = PublicOf(given[k])]
           g == IF ~HavePub(copy) THEN Nothing
                ELSE IF HavePrv(copy) THEN given[k] ELSE public
<1>2. Put(l, "key", copy, g) /\ conf' = conf /\ status[k] # "empty" /\ ~Decoded(key[k])
  BY <1>1 DEF Dup
<1>3. Fresh \in Blocks /\ given[k] \in Params /\ Nothing \in Params
  BY FreshFacts, SlotKey DEF Nothing, Params
<1>4. status[k] = "key"
  <2>1. status[k] \in {"key", "decoded"}
    BY <1>2 DEF KeyInv
  <2>2. Stashed(key[k], given[k]) => Decoded(key[k])
    BY DEF Stashed, Decoded, HaveDk, HavePrv, HaveSeed
  <2> QED
    BY <1>2, <2>1, <2>2, SlotKey
<1>5. CASE copy = NewKey
  <2>1. ~HavePub(copy) /\ Blank(copy)
    BY <1>5, BlankFacts DEF NewKey, HavePub
  <2> HIDE DEF copy
  <2>2. g = Nothing
    BY <2>1
  <2> QED
    BY <1>2, <1>3, <2>1, <2>2, PutBlank
<1>6. CASE Blank(key[k])
  <2>1. copy = NewKey
    BY <1>6 DEF DupKey, Blank, HavePub
  <2> QED
    BY <1>5, <2>1
<1>7. CASE Whole(key[k]) /\ Coherent(conf, key[k]) /\ Agrees(conf, key[k], given[k])
  <2>1. /\ key[k].t \in Ds /\ key[k].t # None
        /\ key[k].s \in Ds \cup {None} /\ key[k].z \in Zs \cup {None}
        /\ key[k].d \in Ds \cup {None}
        /\ key[k].s = None => key[k].z = None /\ key[k].d = None
        /\ key[k].s # None => key[k].z # None
    BY <1>7, ValueFacts DEF Whole, KeyRecords
  <2>2. EncodePub(key[k]) = key[k].t
    BY <1>7 DEF Whole, EncodePub
  <2>3. /\ EncodePrv(key[k]) = [s |-> key[k].s, pub |-> key[k].t, hash |-> key[k].t,
                               z |-> key[k].z]
        /\ EncodeSeed(key[k]) = [d |-> key[k].d, z |-> key[k].z]
    BY <1>7, <2>2 DEF EncodePrv, EncodeSeed, Whole
  <2>4. CASE copy = Made(key[k].t, None, None, None)
    <3> DEFINE m == Made(key[k].t, None, None, None)
    <3>1. /\ Whole(m) /\ m.block = Fresh /\ m.t = key[k].t /\ m.s = None /\ m.d = None
      <4>1. Fresh # 0
        BY <1>3 DEF Blocks
      <4>2. m \in KeyRecords
        BY <1>3, <2>1, MadeResult
      <4> QED
        BY <2>1, <4>1, <4>2 DEF Whole, Made
    <3>2. PublicOf(given[k]) = key[k].t
      BY <1>3, <1>7, PublicOfFacts
    <3>3. public \in Params /\ public.seed = None /\ public.dk = None /\ public.pub = key[k].t
      BY <2>1, <3>2 DEF Params, Nothing, Pubs
    <3> HIDE DEF m, public
    <3>4. public # Nothing
      BY <2>1, <3>3 DEF Nothing
    <3>5. Genuinely(conf, m, public) /\ Coherent(conf, m)
      BY <3>1, <3>3, <3>4 DEF Genuinely, Coherent, Agrees
    <3>6. copy = m
      BY <2>4 DEF m
    <3> HIDE DEF copy
    <3>7. g = public
      BY <2>1, <3>1, <3>6 DEF HavePub, HavePrv
    <3> HIDE DEF g
    <3> QED
      BY <1>2, <3>3, <3>5, <3>6, <3>7, PutGood
  <2>5. CASE copy = Made(key[k].t, key[k].s, key[k].z, key[k].d) /\ key[k].s # None
    <3> DEFINE m == Made(key[k].t, key[k].s, key[k].z, key[k].d)
    <3>1. /\ Whole(m) /\ m.block = Fresh /\ m.t = key[k].t /\ m.s = key[k].s
          /\ m.d = key[k].d
          /\ EncodePrv(m) = EncodePrv(key[k]) /\ EncodeSeed(m) = EncodeSeed(key[k])
      <4> DEFINE t_ == key[k].t
                 s_ == key[k].s
                 z_ == key[k].z
                 d_ == key[k].d
      <4>1. /\ t_ \in Ds /\ s_ \in Ds \cup {None} /\ z_ \in Zs \cup {None}
            /\ d_ \in Ds \cup {None}
            /\ s_ = None => z_ = None /\ d_ = None
            /\ s_ # None => z_ # None
        BY <2>1
      <4>2. /\ EncodePrv(key[k]) = [s |-> s_, pub |-> t_, hash |-> t_, z |-> z_]
            /\ EncodeSeed(key[k]) = [d |-> d_, z |-> z_]
        BY <2>3
      <4>3. m = Made(t_, s_, z_, d_)
        OBVIOUS
      <4> HIDE DEF t_, s_, z_, d_, m
      <4>4. LET mm == Made(t_, s_, z_, d_)
            IN  /\ Whole(mm) /\ mm.block = Fresh /\ mm.t = t_ /\ mm.s = s_ /\ mm.d = d_
                /\ EncodePrv(mm) = [s |-> s_, pub |-> t_, hash |-> t_, z |-> z_]
                /\ EncodeSeed(mm) = [d |-> d_, z |-> z_]
        <5>1. Fresh \in Blocks
          BY <1>3
        <5>2. Whole(Made(t_, s_, z_, d_)) /\ Made(t_, s_, z_, d_).block = Fresh
          BY <4>1, <5>1, MadeFacts
        <5>3. /\ Made(t_, s_, z_, d_).t = t_ /\ Made(t_, s_, z_, d_).s = s_
              /\ Made(t_, s_, z_, d_).d = d_
          BY DEF Made
        <5>4. EncodePrv(Made(t_, s_, z_, d_)) = [s |-> s_, pub |-> t_, hash |-> t_, z |-> z_]
          BY <4>1, <5>1, MadeFacts
        <5>5. EncodeSeed(Made(t_, s_, z_, d_)) = [d |-> d_, z |-> z_]
          BY <4>1, <5>1, MadeFacts
        <5> QED
          BY <5>2, <5>3, <5>4, <5>5
      <4>5. /\ Whole(m) /\ m.block = Fresh /\ m.t = t_ /\ m.s = s_ /\ m.d = d_
            /\ EncodePrv(m) = EncodePrv(key[k]) /\ EncodeSeed(m) = EncodeSeed(key[k])
        BY <4>2, <4>3, <4>4
      <4> QED
        BY <4>5 DEF t_, s_, d_
    <3>2. copy = m
      BY <2>5
    <3> HIDE DEF m, copy
    <3>3. Coherent(conf, m) /\ Agrees(conf, m, given[k])
      BY <1>7, <3>1 DEF Coherent, Agrees
    <3>4. Genuinely(conf, m, given[k])
      BY <3>1, <3>3 DEF Genuinely, Coherent
    <3>5. g = given[k]
      BY <2>1, <2>5, <3>1, <3>2 DEF HavePub, HavePrv
    <3> HIDE DEF g
    <3> QED
      BY <1>2, <1>3, <3>2, <3>3, <3>4, <3>5, PutGood
  <2> QED
    BY <1>3, <1>5, <1>7, <2>4, <2>5, DupKeyResult
<1> QED
  BY <1>4, <1>6, <1>7, SlotKey

\* Every step of the specification.
LEMMA KeyNext == KeyInv /\ [Next]_vars => KeyInv'
<1> SUFFICES ASSUME KeyInv, [Next]_vars PROVE KeyInv'
  OBVIOUS
<1>1. ASSUME NEW k \in Slots, New(k) \/ Free(k) PROVE KeyInv'
  BY <1>1, NewFreeKeeps
<1>2. ASSUME NEW k \in Slots, Gen(k) PROVE KeyInv'
  BY <1>2, GenKeeps
<1>3. ASSUME NEW k \in Slots, Import(k) \/ ImportPublic(k) PROVE KeyInv'
  BY <1>3, ImportsKeep
<1>4. ASSUME NEW k \in Slots, SetParams(k) PROVE KeyInv'
  BY <1>4, SetParamsKeeps
<1>5. ASSUME NEW k \in Slots, Decode(k) PROVE KeyInv'
  BY <1>5, DecodeKeeps
<1>6. ASSUME NEW k \in Slots, Load(k) PROVE KeyInv'
  BY <1>6, LoadKeeps
<1>7. ASSUME NEW k \in Slots, NEW l \in Slots, Transfer(k, l) PROVE KeyInv'
  BY <1>7, ImportsKeep
<1>8. ASSUME NEW k \in Slots, NEW l \in Slots, Dup(k, l) PROVE KeyInv'
  BY <1>8, DupKeeps
<1>9. CASE UNCHANGED vars
  BY <1>9 DEF vars, KeyInv, NoSharedStorage
<1> QED
  BY <1>1, <1>2, <1>3, <1>4, <1>5, <1>6, <1>7, <1>8, <1>9 DEF Next

\* The inductive invariant of the ML-KEM keys.
LEMMA KeyInvariant == Spec => []KeyInv
<1>1. Init => KeyInv
  BY KeyInit
<1>2. KeyInv /\ [Next]_vars => KeyInv'
  BY KeyNext
<1> QED
  BY <1>1, <1>2, PTL DEF Spec

-----------------------------------------------------------------------------
(***************************************************************************)
(* What the calls of ml_kem_kmgmt.c promise their callers.                 *)
(***************************************************************************)
\* Whatever call fails half way, the key it leaves is bare or whole.
THEOREM KeysAreWhole == Spec => [](TypeOK /\ WholeKeys)
<1>1. KeyInv => TypeOK
  BY DEF KeyInv, TypeOK, Params
<1>2. KeyInv => WholeKeys
  <2> SUFFICES ASSUME KeyInv, NEW k \in Slots, status[k] = "key"
               PROVE  \/ Bare(key[k])
                      \/ HavePub(key[k]) /\ ~HaveDk(key[k])
                         /\ (HaveSeed(key[k]) => HavePrv(key[k]))
    BY DEF WholeKeys
  <2>1. CASE Blank(key[k])
    BY <2>1 DEF Blank, Bare, HavePub, HaveSeed, HaveDk
  <2>2. CASE Whole(key[k])
    BY <2>2, ValueFacts DEF Whole, HavePub, HaveDk, HaveSeed, HavePrv
  <2> QED
    BY <2>1, <2>2, SlotKey
<1> QED
  BY <1>1, <1>2, KeyInvariant, PTL

\* A key agrees with every private part it was made from.
THEOREM KeysAgreeWithInput == Spec => []AgreesWithInput
<1>1. KeyInv => AgreesWithInput
  <2> SUFFICES ASSUME KeyInv, NEW k \in Slots, Complete(k)
               PROVE  LET g == given[k] IN
                      /\ g.dk # None => EncodePrv(key[k]) = g.dk
                      /\ g.seed # None /\ (g.dk = None \/ conf.prefer) =>
                             EncodePrv(key[k]) = Genuine(g.seed)
                      /\ HaveSeed(key[k]) => EncodeSeed(key[k]) = g.seed
                      /\ g.pub # None /\ (g.dk # None \/ g.seed = None) =>
                             EncodePub(key[k]) = g.pub
    BY DEF AgreesWithInput
  <2>1. Whole(key[k]) /\ Agrees(conf, key[k], given[k])
    BY SlotKey
  <2>2. EncodePub(key[k]) = key[k].t
    BY <2>1 DEF Whole, EncodePub
  <2> QED
    BY <2>1, <2>2 DEF Agrees, HaveSeed
<1> QED
  BY <1>1, KeyInvariant, PTL

\* The two halves of a private key belong together unless the test is off.
THEOREM KeysArePairwiseConsistent == Spec => []PairwiseConsistent
<1>1. KeyInv => PairwiseConsistent
  BY SlotKey DEF PairwiseConsistent, Coherent, HavePrv
<1> QED
  BY <1>1, KeyInvariant, PTL

\* No two keys point to the same storage.
THEOREM KeysShareNoStorage == Spec => []NoSharedStorage
<1>1. KeyInv => NoSharedStorage
  BY DEF KeyInv
<1> QED
  BY <1>1, KeyInvariant, PTL

\* A key with key material changes only by being freed.
THEOREM KeysStayImmutable == Spec => KeysImmutable
<1>1. ASSUME KeyInv, [Next]_vars, NEW k \in Slots, Complete(k)
      PROVE  key'[k] = key[k] \/ status'[k] = "empty"
  <2> USE <1>1
  <2>1. status[k] = "key" /\ HavePub(key[k])
    BY DEF Complete
  <2>2. ASSUME NEW l \in Slots, NEW st, NEW kk, NEW g, l # k, Put(l, st, kk, g)
        PROVE  key'[k] = key[k]
    BY <2>2 DEF Put, KeyInv
  <2>3. ASSUME NEW l \in Slots, New(l) PROVE key'[k] = key[k]
    BY <2>1, <2>2, <2>3 DEF New
  <2>4. ASSUME NEW l \in Slots, Free(l) PROVE key'[k] = key[k] \/ status'[k] = "empty"
    <3>1. CASE l = k
      BY <2>4, <3>1 DEF Free, Put, KeyInv
    <3>2. CASE l # k
      BY <2>2, <2>4, <3>2 DEF Free
    <3> QED
      BY <3>1, <3>2
  <2>5. ASSUME NEW l \in Slots, Gen(l) PROVE key'[k] = key[k]
    <3>1. l # k
      BY <2>1, <2>5 DEF Gen
    <3>2. \/ UNCHANGED key
          \/ \E kk, g : Put(l, "key", kk, g)
      BY <2>5 DEF Gen
    <3> QED
      BY <2>2, <3>1, <3>2
  <2>6. ASSUME NEW l \in Slots,
               \/ Import(l) \/ ImportPublic(l)
               \/ \E m \in Slots : Transfer(m, l)
        PROVE  key'[k] = key[k]
    <3>1. CASE l = k
      BY <2>1, <2>6, <3>1, ImportsKeep
    <3>2. CASE l # k
      <4>1. \E kk, g : Put(l, "key", kk, g)
        BY <2>6 DEF Import, ImportPublic, Transfer, ImportInto
      <4> QED
        BY <2>2, <3>2, <4>1
    <3> QED
      BY <3>1, <3>2
  <2>7. ASSUME NEW l \in Slots, SetParams(l) PROVE key'[k] = key[k]
    <3>1. l # k /\ \E kk, g : Put(l, "key", kk, g)
      BY <2>1, <2>7 DEF SetParams
    <3> QED
      BY <2>2, <3>1
  <2>8. ASSUME NEW l \in Slots, Decode(l) PROVE key'[k] = key[k]
    <3>1. l # k /\ \E kk, g : Put(l, "decoded", kk, g)
      BY <2>1, <2>8 DEF Decode
    <3> QED
      BY <2>2, <3>1
  <2>9. ASSUME NEW l \in Slots, Load(l) PROVE key'[k] = key[k]
    <3>1. l # k /\ \E st, kk, g : Put(l, st, kk, g)
      BY <2>1, <2>9 DEF Load
    <3> QED
      BY <2>2, <3>1
  <2>10. ASSUME NEW l \in Slots, NEW m \in Slots, Dup(m, l) PROVE key'[k] = key[k]
    <3>1. l # k /\ \E kk, g : Put(l, "key", kk, g)
      BY <2>1, <2>10 DEF Dup
    <3> QED
      BY <2>2, <3>1
  <2>11. CASE UNCHANGED vars
    BY <2>11 DEF vars
  <2> QED
    BY <2>3, <2>4, <2>5, <2>6, <2>7, <2>8, <2>9, <2>10, <2>11 DEF Next
<1>2. KeyInv /\ [Next]_vars =>
        [\A k \in Slots : Complete(k) => key'[k] = key[k] \/ status'[k] = "empty"]_vars
  BY <1>1
<1> QED
  BY <1>2, KeyInvariant, PTL DEF Spec, KeysImmutable

-----------------------------------------------------------------------------
\* Nothing keeps a call from making the key but its input and a fault.
LEMMA WithoutFault ==
  ASSUME NEW key_, Startable(key_), Fresh \in Blocks
  PROVE  /\ \A pub \in Ds :
              ParsePublicKey(key_, pub, "none") = Success(Made(pub, None, None, None))
         /\ \A dk \in Dks : PrvParses(dk) =>
              ParsePrivateKey(key_, dk, "none") = Success(Made(dk.pub, dk.s, dk.z, None))
         /\ \A seed \in Seeds :
              Genkey(key_, seed, "none") =
                Success(Made(seed.d, seed.d, seed.z, IF conf.retain THEN seed.d ELSE None))
<1>1. \A x : ~Failed(x).ok /\ Success(x).ok
  BY DEF Failed, Success
<1>2. ~HavePub(key_) /\ ~HaveDk(key_) /\ "none" \in Faults
  BY DEF Startable, HavePub, HaveDk, Faults
<1>3. ASSUME NEW pub \in Ds
      PROVE  ParsePublicKey(key_, pub, "none") = Success(Made(pub, None, None, None))
  <2>1. pub \in Pubs /\ PubParses(pub)
    BY ValueFacts DEF Pubs, PubParses
  <2>2. ParsePublicKey(key_, pub, "none").ok
    BY <1>1, <1>2, <2>1 DEF ParsePublicKey
  <2> QED
    BY <1>1, <1>2, <2>1, <2>2, ParsePublicKeyResult
<1>4. ASSUME NEW dk \in Dks, PrvParses(dk)
      PROVE  ParsePrivateKey(key_, dk, "none") = Success(Made(dk.pub, dk.s, dk.z, None))
  <2>1. ParsePrivateKey(key_, dk, "none").ok
    BY <1>1, <1>2, <1>4 DEF ParsePrivateKey
  <2> QED
    BY <1>1, <1>2, <2>1, ParsePrivateKeyResult
<1>5. ASSUME NEW seed \in Seeds
      PROVE  Genkey(key_, seed, "none") =
               Success(Made(seed.d, seed.d, seed.z, IF conf.retain THEN seed.d ELSE None))
  <2>1. Genkey(key_, seed, "none").ok
    BY <1>1, <1>2 DEF Genkey
  <2> QED
    BY <1>1, <1>2, <2>1, GenkeyResult
<1> QED
  BY <1>3, <1>4, <1>5

\* A whole key in other storage, with or without its seed.
LEMMA SameButStorage ==
  ASSUME NEW key_, Whole(key_), Fresh \in Blocks,
         NEW d_ \in {key_.d, None}
  PROVE  [Made(key_.t, key_.s, key_.z, d_) EXCEPT !.block = key_.block] =
           [key_ EXCEPT !.d = d_]
<1> DEFINE m == Made(key_.t, key_.s, key_.z, d_)
<1>1. /\ key_.t \in Ds /\ key_.s \in Ds \cup {None} /\ key_.z \in Zs \cup {None}
      /\ d_ \in Ds \cup {None} /\ key_ \in KeyRecords
      /\ key_.block \in Blocks \cup {0}
  BY DEF Whole, KeyRecords
<1>2. m \in KeyRecords
  BY <1>1, MadeResult
<1>3. /\ m.t = key_.t /\ m.rho = key_.rho /\ m.pkhash = key_.pkhash /\ m.s = key_.s
      /\ m.z = key_.z /\ m.d = d_ /\ m.encoded_dk = key_.encoded_dk
      /\ m.dkblock = key_.dkblock
  BY DEF Made, Whole
<1> HIDE DEF m
<1>4. WithBlock(m, key_.block) \in KeyRecords /\ WithD(key_, d_) \in KeyRecords
  BY <1>1, <1>2, WithType
<1>5. LET a == WithBlock(m, key_.block)
          c == WithD(key_, d_)
      IN  /\ a.t = c.t /\ a.rho = c.rho /\ a.pkhash = c.pkhash /\ a.s = c.s
          /\ a.z = c.z /\ a.d = c.d /\ a.block = c.block
          /\ a.encoded_dk = c.encoded_dk /\ a.dkblock = c.dkblock
  BY <1>1, <1>2, <1>3 DEF WithBlock, WithD, KeyRecords
<1>6. WithBlock(m, key_.block) = WithD(key_, d_)
  BY <1>4, <1>5, KeyEquality
<1> QED
  BY <1>6 DEF WithBlock, WithD, m

\* What an import makes of what a whole key exports.
LEMMA Reimported ==
  ASSUME NEW key_, Whole(key_), Coherent(conf, key_), Fresh \in Blocks,
         key_.s # None => EncodePrv(key_) \in Dks,
         key_.d # None => EncodeSeed(key_) \in Seeds
  PROVE  TestImport(FromData(NewKey, Exported(key_), "none")) =
           Success(Made(key_.t, key_.s, key_.z, IF conf.prefer THEN key_.d ELSE None))
<1> DEFINE p == Exported(key_)
           e == IF conf.prefer THEN key_.d ELSE None
           m == Made(key_.t, key_.s, key_.z, e)
<1>1. /\ key_.t \in Ds /\ key_.t # None /\ key_.s \in Ds \cup {None}
      /\ key_.z \in Zs \cup {None} /\ key_.d \in Ds \cup {None}
      /\ e \in Ds \cup {None} /\ key_.encoded_dk = None
      /\ key_.s = None => key_.z = None /\ key_.d = None
      /\ key_.s # None => key_.z # None
      /\ EncodePub(key_) = key_.t
  BY ValueFacts DEF Whole, KeyRecords, EncodePub
<1>2. /\ p.seed = IF key_.d # None THEN EncodeSeed(key_) ELSE None
      /\ p.dk = IF key_.s # None THEN EncodePrv(key_) ELSE None
      /\ p.pub = key_.t
  BY <1>1 DEF Exported, HaveSeed, HavePrv, HavePub
<1>3. p # Nothing
  BY <1>1, <1>2 DEF Nothing
<1>4. EncodePrv(key_) = [s |-> key_.s, pub |-> key_.t, hash |-> key_.t, z |-> key_.z]
  BY <1>1 DEF EncodePrv, Whole
<1>5. Startable(NewKey) /\ Blank(NewKey) /\ ~HavePub(NewKey)
  BY BlankFacts DEF Blank, HavePub
<1> HIDE DEF p
<1>6. Pairwise(m)
  <2>1. /\ m.t = key_.t /\ m.rho = key_.t /\ m.pkhash = key_.t /\ m.s = key_.s
    BY DEF Made
  <2> HIDE DEF m
  <2> QED
    BY <2>1 DEF Pairwise, HavePrv, EncodePub, Coherent
<1>7. CASE key_.s = None
  <2>1. p.seed = None /\ p.dk = None /\ e = None
    BY <1>1, <1>2, <1>7
  <2>2. FromData(NewKey, p, "none") = ParsePublicKey(NewKey, key_.t, "none")
    BY <1>2, <1>3, <1>5, <2>1 DEF FromData
  <2>3. ParsePublicKey(NewKey, key_.t, "none") = Success(m)
    BY <1>1, <1>5, <1>7, <2>1, WithoutFault
  <2> HIDE DEF m
  <2> QED
    BY <1>6, <2>2, <2>3, TestFacts DEF p, m
<1>8. CASE key_.s # None /\ (key_.d = None \/ ~conf.prefer)
  <2>1. p.dk = EncodePrv(key_) /\ p.dk \in Dks /\ p.dk # None /\ e = None
        /\ (p.seed = None \/ ~conf.prefer)
    BY <1>2, <1>8, ValueFacts
  <2>2. p.dk.pub = key_.t /\ p.dk.s = key_.s /\ p.dk.z = key_.z /\ p.dk.hash = key_.t
    BY <1>4, <2>1
  <2>3. PrvParses(p.dk)
    BY <1>1, <1>8, <2>2, ValueFacts DEF PrvParses, PubParses
  <2>4. FromData(NewKey, p, "none") = ParsePrivateKey(NewKey, p.dk, "none")
    BY <1>2, <1>3, <1>5, <1>8, <2>1, <2>2 DEF FromData
  <2>5. ParsePrivateKey(NewKey, p.dk, "none") = Success(m)
    BY <1>5, <2>1, <2>2, <2>3, WithoutFault
  <2> HIDE DEF m
  <2> QED
    BY <1>6, <2>4, <2>5, TestFacts DEF p, m
<1>9. CASE key_.s # None /\ key_.d # None /\ conf.prefer
  <2>1. p.dk = EncodePrv(key_) /\ p.dk \in Dks /\ p.dk # None /\ e = key_.d
    BY <1>2, <1>9, ValueFacts
  <2>2. /\ p.seed = EncodeSeed(key_) /\ p.seed.d = key_.d /\ p.seed.z = key_.z
        /\ p.seed \in Seeds /\ p.seed # None
    BY <1>2, <1>9, ValueFacts DEF EncodeSeed
  <2>3. p.dk.pub = key_.t /\ p.dk.z = key_.z
    BY <1>4, <2>1
  <2>4. conf.retain /\ key_.s = key_.d /\ key_.t = key_.d
    BY <1>9 DEF Coherent
  <2>5. FromData(NewKey, p, "none") = FromSeed(NewKey, p.seed, p.dk, "none")
    BY <1>2, <1>3, <1>5, <1>9, <2>1, <2>2, <2>3 DEF FromData, CheckSeed
  <2> DEFINE started == [NewKey EXCEPT !.d = p.seed.d, !.z = p.seed.z]
  <2>6. SetSeed(NewKey, p.seed) = Success(started) /\ Startable(started)
    BY <1>5, <2>2, SetSeedResult
  <2> HIDE DEF started
  <2>7. FromSeed(NewKey, p.seed, p.dk, "none") =
          CheckPrvenc(Genkey(started, p.seed, "none"), p.dk)
    BY <2>6 DEF FromSeed, Success
  <2>8. Genkey(started, p.seed, "none") = Success(m)
    BY <2>1, <2>2, <2>4, <2>6, WithoutFault
  <2>9. EncodePrv(m) = p.dk
    BY <1>4, <2>1 DEF m, Made, EncodePrv, EncodePub
  <2> HIDE DEF m
  <2>10. FromData(NewKey, p, "none") = Success(m)
    BY <2>5, <2>7, <2>8, <2>9, TestFacts
  <2> QED
    BY <1>6, <2>10, TestFacts DEF p, m
<1> QED
  BY <1>7, <1>8, <1>9 DEF p, m, e

\* Whatever complete key is exported is accepted by an import and makes the same
\* key, less the seed where the configuration prefers the private encoding.
THEOREM KeysSurviveReimport == Spec => []ReimportIsIdentity
<1>1. KeyInv => ReimportIsIdentity
  <2> SUFFICES ASSUME KeyInv, NEW k \in Slots, Complete(k)
               PROVE  LET r == TestImport(FromData(NewKey, Exported(key[k]), "none"))
                      IN  r.ok /\ [r.key EXCEPT !.block = key[k].block] =
                                    [key[k] EXCEPT !.d = IF conf.prefer THEN @ ELSE None]
    BY DEF ReimportIsIdentity
  <2> DEFINE r == TestImport(FromData(NewKey, Exported(key[k]), "none"))
             e == IF conf.prefer THEN key[k].d ELSE None
  <2>1. /\ Whole(key[k]) /\ Coherent(conf, key[k]) /\ Agrees(conf, key[k], given[k])
        /\ given[k].seed \in Seeds \cup {None} /\ given[k].dk \in Dks \cup {None}
        /\ Fresh \in Blocks
    BY SlotKey, FreshFacts DEF Params
  <2>2. key[k].s # None => EncodePrv(key[k]) \in Dks
    BY <2>1, ValueFacts DEF Agrees
  <2>3. key[k].d # None => EncodeSeed(key[k]) \in Seeds
    BY <2>1 DEF Agrees
  <2>4. r = Success(Made(key[k].t, key[k].s, key[k].z, e))
    BY <2>1, <2>2, <2>3, Reimported
  <2>5. e \in {key[k].d, None}
    OBVIOUS
  <2> HIDE DEF r, e
  <2>6. [Made(key[k].t, key[k].s, key[k].z, e) EXCEPT !.block = key[k].block] =
          [key[k] EXCEPT !.d = e]
    BY <2>1, <2>5, SameButStorage
  <2>7. r.ok /\ [r.key EXCEPT !.block = key[k].block] = [key[k] EXCEPT !.d = e]
    BY <2>4, <2>6 DEF Success
  <2> QED
    BY <2>7 DEF r, e
<1> QED
  BY <1>1, KeyInvariant, PTL
=============================================================================
