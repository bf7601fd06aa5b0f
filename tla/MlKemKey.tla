-------------------------------- MODULE MlKemKey --------------------------------
(***************************************************************************)
(* The life of an ML-KEM key object in OpenSSL: crypto/ml_kem/ml_kem.c     *)
(* with its generation delegated to libqudo-pqc, the key management of the *)
(* provider (keymgmt/ml_kem_kmgmt.c) and the PKCS#8 decoder that makes     *)
(* half-built keys for it (encode_decode/ml_kem_codecs.c).                 *)
(*                                                                         *)
(* A key object is used by one thread until it is complete, so each call   *)
(* is one step.  A seed is a pair (d, z).  What is derived from d - the    *)
(* vector s, the vector t with its matrix seed rho, and the hash of the    *)
(* two - is named by d; an encoding may hold parts that do not belong      *)
(* together, or that do not decode.  Pointers to allocated storage are     *)
(* numbers, 0 being NULL.  An allocation or the delegated key generation   *)
(* may fail.  The provider is RUNNING (module ProviderSelfTest has the     *)
(* other states); encodings have the right length.                         *)
(***************************************************************************)
EXTENDS Naturals, FiniteSets

CONSTANTS
    Slots,              \* variables of the caller that hold a key
    Seeds,              \* records [d, z] that are drawn or supplied
    Dks,                \* private encodings that are supplied
    None,               \* an absent part, a NULL pointer to d or z
    Bad,                \* a vector that does not decode
    Zero                \* the contents of cleared memory

Ds == {seed.d : seed \in Seeds}
Zs == {seed.z : seed \in Seeds}

\* The FIPS 203 encodings: ek is named by its d, dk is the parts it holds.
Genuine(seed) == [s |-> seed.d, pub |-> seed.d, hash |-> seed.d, z |-> seed.z]

ASSUME KeyValues ==
    /\ IsFiniteSet(Slots)
    /\ {None, Bad, Zero} \cap (Ds \cup Zs) = {}
    /\ None \notin Seeds \cup Dks \cup {Bad, Zero} /\ Bad # Zero
    /\ \A seed \in Seeds : seed = [d |-> seed.d, z |-> seed.z] /\ Genuine(seed) \in Dks
    /\ Dks \subseteq [s : Ds \cup {Bad}, pub : Ds \cup {Bad}, hash : Ds, z : Zs]

Pubs == Ds \cup {Bad}

\* What OSSL_PARAMs or a PKCS#8 object may supply.
Params == [seed : Seeds \cup {None}, dk : Dks \cup {None}, pub : Pubs \cup {None}]

\* At most two allocations belong to a key.
Blocks == 1 .. 2 * Cardinality(Slots)

\* pct: ml-kem.import_pct_type is not "none"; "random" and "fixed" differ in the
\* entropy of the test only.
Confs == [retain : BOOLEAN, prefer : BOOLEAN, pct : BOOLEAN]

VARIABLES
    conf,               \* the provider's configuration
    status,             \* of a slot: empty, key, or decoded and not yet loaded
    key,                \* the ML_KEM_KEY of a slot
    given               \* history: what the key was made from

vars == <<conf, status, key, given>>

KeyRecords ==
    [t : Ds \cup {None}, rho : Ds \cup {Zero, None}, pkhash : Ds \cup {Zero, None},
     s : Ds \cup {None}, z : Zs \cup {None}, d : Ds \cup {None},
     block : Blocks \cup {0}, encoded_dk : Dks \cup {None}, dkblock : Blocks \cup {0}]

\* ossl_ml_kem_key_new
NewKey ==
    [t |-> None, rho |-> None, pkhash |-> None, s |-> None, z |-> None, d |-> None,
     block |-> 0, encoded_dk |-> None, dkblock |-> 0]

Nothing == [seed |-> None, dk |-> None, pub |-> None]

TypeOK ==
    /\ conf \in Confs
    /\ status \in [Slots -> {"empty", "key", "decoded"}]
    /\ key \in [Slots -> KeyRecords]
    /\ \A k \in Slots :
           /\ given[k].seed \in Seeds \cup {None}
           /\ given[k].dk \in Dks \cup {None}
           /\ given[k].pub \in Pubs \cup {None}

Init ==
    /\ conf \in Confs
    /\ status = [k \in Slots |-> "empty"]
    /\ key = [k \in Slots |-> NewKey]
    /\ given = [k \in Slots |-> Nothing]

-----------------------------------------------------------------------------
(***************************************************************************)
(* ML_KEM_KEY.  An operation returns whether it succeeds and the key.      *)
(***************************************************************************)
HavePub(key_)  == key_.t # None
HavePrv(key_)  == key_.s # None
HaveSeed(key_) == key_.d # None
HaveDk(key_)   == key_.encoded_dk # None
Decoded(key_)  == HaveDk(key_) \/ (~HavePrv(key_) /\ HaveSeed(key_))

Bare(key_) == ~HavePub(key_) /\ ~HaveSeed(key_) /\ ~HaveDk(key_)

\* ossl_ml_kem_encode_public_key, _private_key and _seed
EncodePub(key_)  == IF key_.rho = key_.t THEN key_.t ELSE Bad
EncodePrv(key_)  == [s |-> key_.s, pub |-> EncodePub(key_), hash |-> key_.pkhash,
                     z |-> key_.z]
EncodeSeed(key_) == [d |-> key_.d, z |-> key_.z]

\* An allocation that no key owns.
Fresh == CHOOSE b \in Blocks : \A k \in Slots : b \notin {key[k].block, key[k].dkblock}

\* add_storage: rho and pkhash move to the cleared seed buffer.
AddStorage(key_, b) ==
    [key_ EXCEPT !.block = b, !.rho = Zero, !.pkhash = Zero, !.d = None, !.z = None]

\* ossl_ml_kem_key_reset; with no storage it leaves the key alone.
Reset(key_) ==
    IF key_.block = 0 THEN key_
    ELSE [key_ EXCEPT !.block = 0, !.t = None, !.s = None, !.z = None, !.d = None]

Failed(key_)  == [ok |-> FALSE, key |-> key_]
Success(key_) == [ok |-> TRUE, key |-> key_]

\* A call may find no memory for the key, or fail later on.
Faults == {"none", "alloc", "late"}

\* parse_pubkey and parse_prvkey: a hash that is not the public key's is refused.
ParsePub(key_, pub) == [key_ EXCEPT !.t = pub, !.rho = pub, !.pkhash = pub]

PubParses(pub) == pub # Bad

PrvParses(dk) == dk.s # Bad /\ PubParses(dk.pub) /\ dk.hash = dk.pub

\* ossl_ml_kem_parse_public_key and _private_key
ParsePublicKey(key_, pub, fault) ==
    IF HavePub(key_) \/ HaveDk(key_) \/ fault = "alloc" THEN Failed(key_)
    ELSE IF PubParses(pub) /\ fault = "none"
         THEN Success(ParsePub(AddStorage(key_, Fresh), pub))
         ELSE Failed(Reset(AddStorage(key_, Fresh)))

ParsePrivateKey(key_, dk, fault) ==
    IF HavePub(key_) \/ HaveDk(key_) \/ fault = "alloc" THEN Failed(key_)
    ELSE IF PrvParses(dk) /\ fault = "none"
         THEN Success([ParsePub(AddStorage(key_, Fresh), dk.pub)
                          EXCEPT !.s = dk.s, !.z = dk.z])
         ELSE Failed(Reset(AddStorage(key_, Fresh)))

\* ossl_ml_kem_set_seed stashes the seed in the key's own buffer.
SetSeed(key_, seed) ==
    IF HavePub(key_) \/ HaveSeed(key_) THEN Failed(key_)
    ELSE Success([key_ EXCEPT !.d = seed.d, !.z = seed.z])

\* a variant that takes the seed out of the key only when it succeeds
BadGenkey(key_, seed, fault) ==
    IF HavePub(key_) \/ HaveDk(key_) THEN Failed(key_)
    ELSE IF fault = "alloc" THEN Failed(key_)
    ELSE IF fault = "late" THEN Failed(Reset(AddStorage(key_, Fresh)))
    ELSE Success([ParsePub(AddStorage(key_, Fresh), seed.d)
                     EXCEPT !.s = seed.d, !.z = seed.z,
                            !.d = IF conf.retain THEN seed.d ELSE None])

\* ossl_ml_kem_genkey and qudo_genkey, from the stashed seed or a drawn one.
Genkey(key_, seed, fault) ==
    IF HavePub(key_) \/ HaveDk(key_) THEN Failed(key_)
    ELSE IF fault = "alloc" THEN Failed([key_ EXCEPT !.d = None, !.z = None])
    ELSE IF fault = "late" THEN Failed(Reset(AddStorage(key_, Fresh)))
    ELSE Success([ParsePub(AddStorage(key_, Fresh), seed.d)
                     EXCEPT !.s = seed.d, !.z = seed.z,
                            !.d = IF conf.retain THEN seed.d ELSE None])

-----------------------------------------------------------------------------
(***************************************************************************)
(* The provider's key management.                                          *)
(***************************************************************************)
\* ml_kem_pairwise_test: encapsulation to the public part, decapsulation with
\* the private one.
Pairwise(key_) ==
    HavePrv(key_) /\ HavePub(key_) /\ conf.pct =>
        key_.s = EncodePub(key_) /\ key_.pkhash = EncodePub(key_)

\* check_seed and check_prvenc
CheckSeed(seed, dk) == seed.z = dk.z
CheckPrvenc(r, dk) ==
    IF r.ok /\ dk # None /\ EncodePrv(r.key) # dk THEN Failed(Reset(r.key)) ELSE r

\* a variant that trusts the seed when both are supplied
BadFromSeed(key_, seed, dk, fault) ==
    LET stashed == SetSeed(key_, seed)
    IN  IF ~stashed.ok THEN stashed ELSE Genkey(stashed.key, seed, fault)

\* The seed makes the key; a dk that comes with it has to be the same.
FromSeed(key_, seed, dk, fault) ==
    LET stashed == SetSeed(key_, seed)
    IN  IF ~stashed.ok THEN stashed
        ELSE CheckPrvenc(Genkey(stashed.key, seed, fault), dk)

\* a variant that does not ask whether there is a key already
BadFromData(key_, p, fault) ==
    IF p = Nothing \/ (p.pub # None /\ p.dk # None /\ p.pub # p.dk.pub)
    THEN Failed(key_)
    ELSE IF p.seed # None /\ (p.dk = None \/ conf.prefer)
         THEN IF p.dk # None /\ ~CheckSeed(p.seed, p.dk) THEN Failed(key_)
              ELSE FromSeed(NewKey, p.seed, p.dk, fault)
         ELSE IF p.dk # None THEN ParsePrivateKey(NewKey, p.dk, fault)
              ELSE ParsePublicKey(NewKey, p.pub, fault)

\* ml_kem_key_fromdata
FromData(key_, p, fault) ==
    IF HavePub(key_) \/ p = Nothing
       \/ (p.pub # None /\ p.dk # None /\ p.pub # p.dk.pub)
    THEN Failed(key_)
    ELSE IF p.seed # None /\ (p.dk = None \/ conf.prefer)
         THEN IF p.dk # None /\ ~CheckSeed(p.seed, p.dk) THEN Failed(key_)
              ELSE FromSeed(key_, p.seed, p.dk, fault)
         ELSE IF p.dk # None THEN ParsePrivateKey(key_, p.dk, fault)
              ELSE ParsePublicKey(key_, p.pub, fault)

\* a variant that accepts whatever decodes
BadTestImport(r) == r

\* The end of ml_kem_import of private parts.
TestImport(r) == IF r.ok /\ ~Pairwise(r.key) THEN Failed(Reset(r.key)) ELSE r

\* a variant that passes on only a dk that was not parsed
BadExported(key_) ==
    [seed |-> IF HaveSeed(key_) THEN EncodeSeed(key_) ELSE None,
     dk   |-> key_.encoded_dk,
     pub  |-> IF HavePub(key_) THEN EncodePub(key_) ELSE None]

\* The parameters ml_kem_export passes on: everything the key has.
Exported(key_) ==
    [seed |-> IF HaveSeed(key_) THEN EncodeSeed(key_) ELSE None,
     dk   |-> IF HavePrv(key_) THEN EncodePrv(key_) ELSE key_.encoded_dk,
     pub  |-> IF HavePub(key_) THEN EncodePub(key_) ELSE None]

-----------------------------------------------------------------------------
(***************************************************************************)
(* The calls.                                                              *)
(***************************************************************************)
Put(k, s, key_, g) ==
    /\ status' = [status EXCEPT ![k] = s]
    /\ key' = [key EXCEPT ![k] = key_]
    /\ given' = [given EXCEPT ![k] = g]

\* The object is gone.
Free(k) ==
    /\ status[k] # "empty"
    /\ Put(k, "empty", NewKey, Nothing)
    /\ UNCHANGED conf

New(k) ==
    /\ status[k] = "empty"
    /\ Put(k, "key", NewKey, Nothing)
    /\ UNCHANGED conf

\* ml_kem_gen, with or without a seed; the key is freed if generation fails.
Gen(k) ==
    /\ status[k] = "empty"
    /\ \E seed \in Seeds, supplied \in BOOLEAN, fault \in Faults :
           LET start == IF supplied THEN SetSeed(NewKey, seed).key ELSE NewKey
               r == Genkey(start, seed, fault)
           IN  IF r.ok THEN Put(k, "key", r.key, [Nothing EXCEPT !.seed = seed])
                       ELSE UNCHANGED <<status, key, given>>
    /\ UNCHANGED conf

\* ml_kem_import
ImportInto(k, p, private, fault) ==
    LET r == FromData(key[k], p, fault)
        tested == IF private THEN TestImport(r) ELSE r
    IN  /\ status[k] = "key"
        /\ Put(k, "key", tested.key, IF tested.ok THEN p ELSE given[k])
        /\ UNCHANGED conf

Import(k) == \E p \in Params, fault \in Faults : ImportInto(k, p, TRUE, fault)

\* A public selection looks at the public key only.
ImportPublic(k) ==
    \E pub \in Pubs \cup {None}, fault \in Faults :
        ImportInto(k, [Nothing EXCEPT !.pub = pub], FALSE, fault)

\* ml_kem_export of a key, or of one just decoded, into another key.
Transfer(k, l) ==
    /\ status[k] # "empty"
    /\ HavePub(key[k]) \/ Decoded(key[k])
    /\ \E fault \in Faults : ImportInto(l, Exported(key[k]), TRUE, fault)

\* ml_kem_set_params with an encoded public key
SetParams(k) ==
    /\ status[k] = "key"
    /\ \E pub \in Pubs, fault \in Faults :
           LET r == ParsePublicKey(key[k], pub, fault)
           IN  /\ ~HavePub(key[k])
               /\ Put(k, "key", r.key,
                      IF r.ok THEN [Nothing EXCEPT !.pub = pub] ELSE given[k])
    /\ UNCHANGED conf

\* ossl_ml_kem_d2i_PKCS8 stashes the seed, the dk, or both.
Decode(k) ==
    /\ status[k] = "empty"
    /\ \E seed \in Seeds \cup {None}, dk \in Dks \cup {None} :
           LET start == IF seed = None THEN NewKey ELSE SetSeed(NewKey, seed).key
           IN  /\ seed # None \/ dk # None
               /\ Put(k, "decoded",
                      [start EXCEPT !.encoded_dk = dk,
                                    !.dkblock = IF dk = None THEN 0 ELSE Fresh],
                      [seed |-> seed, dk |-> dk, pub |-> None])
    /\ UNCHANGED conf

\* ml_kem_load: the dk is detached first; a key that fails is freed.
Load(k) ==
    /\ status[k] = "decoded"
    /\ \E fault \in Faults :
           LET seed == IF HaveSeed(key[k]) THEN EncodeSeed(key[k]) ELSE None
               dk == key[k].encoded_dk
               detached == [key[k] EXCEPT !.encoded_dk = None, !.dkblock = 0]
               r == IF seed # None /\ dk # None /\ ~CheckSeed(seed, dk) THEN Failed(detached)
                    ELSE IF seed # None /\ (dk = None \/ conf.prefer)
                         THEN CheckPrvenc(Genkey(detached, seed, fault), dk)
                         ELSE TestImport(ParsePrivateKey(detached, dk, fault))
           IN  IF r.ok THEN Put(k, "key", r.key, given[k])
                       ELSE Put(k, "empty", NewKey, Nothing)
    /\ UNCHANGED conf

Selections == {"none", "public", "private", "keypair"}

\* a variant that lets the copy keep the pointers it does not replace
BadDupKey(key_, selection, b) ==
    IF selection = "none" \/ ~HavePub(key_) THEN key_ ELSE [key_ EXCEPT !.block = b]

\* ossl_ml_kem_key_dup: a selection the key cannot fulfil is dropped; rho and
\* the hash are copied after add_storage has cleared them.
DupKey(key_, selection, b) ==
    IF selection = "none" \/ ~HavePub(key_) \/ (selection = "private" /\ ~HavePrv(key_))
    THEN NewKey
    ELSE IF selection = "public" \/ ~HavePrv(key_)
         THEN [AddStorage(NewKey, b)
                  EXCEPT !.t = key_.t, !.rho = key_.rho, !.pkhash = key_.pkhash]
         ELSE [AddStorage(NewKey, b)
                  EXCEPT !.t = key_.t, !.rho = key_.rho, !.pkhash = key_.pkhash,
                         !.s = key_.s, !.z = key_.z, !.d = key_.d]

\* The public part of what a key was made from.
PublicOf(g) == IF g.dk # None THEN g.dk.pub
               ELSE IF g.seed # None THEN g.seed.d ELSE g.pub

Dup(k, l) ==
    /\ status[k] # "empty" /\ ~Decoded(key[k])
    /\ status[l] = "empty"
    /\ \E selection \in Selections :
           LET copy == DupKey(key[k], selection, Fresh)
           IN  Put(l, "key", copy,
                   IF ~HavePub(copy) THEN Nothing
                   ELSE IF HavePrv(copy) THEN given[k]
                        ELSE [Nothing EXCEPT !.pub = PublicOf(given[k])])
    /\ UNCHANGED conf

Next ==
    \/ \E k \in Slots : \/ New(k) \/ Gen(k) \/ Import(k) \/ ImportPublic(k)
                        \/ SetParams(k) \/ Decode(k) \/ Load(k) \/ Free(k)
    \/ \E k, l \in Slots : k # l /\ (Transfer(k, l) \/ Dup(k, l))

Spec == Init /\ [][Next]_vars

-----------------------------------------------------------------------------
Complete(k) == status[k] = "key" /\ HavePub(key[k])

\* A key handed to the caller is bare or whole: a call that fails half way
\* leaves nothing behind that would make the next one fail or mix with it.
WholeKeys ==
    \A k \in Slots :
        status[k] = "key" =>
            \/ Bare(key[k])
            \/ HavePub(key[k]) /\ ~HaveDk(key[k])
               /\ (HaveSeed(key[k]) => HavePrv(key[k]))

\* A key agrees with every private part it was made from: its dk is the one
\* supplied, or the seed's, or both when the seed is preferred; a retained seed
\* is the one supplied; and a public key supplied with a dk is the key's.
\* The comment in ml_kem_key_fromdata and EVP_PKEY-ML-KEM(7) say that parts beside
\* a seed are ignored; the code refuses them unless they match.
AgreesWithInput ==
    \A k \in Slots : Complete(k) =>
        LET g == given[k] IN
        /\ g.dk # None => EncodePrv(key[k]) = g.dk
        /\ g.seed # None /\ (g.dk = None \/ conf.prefer) =>
               EncodePrv(key[k]) = Genuine(g.seed)
        /\ HaveSeed(key[k]) => EncodeSeed(key[k]) = g.seed
        /\ g.pub # None /\ (g.dk # None \/ g.seed = None) => EncodePub(key[k]) = g.pub

\* The two halves of a private key belong together, whichever way it came,
\* unless the import test is switched off.
PairwiseConsistent ==
    \A k \in Slots :
        Complete(k) /\ HavePrv(key[k]) /\ conf.pct => key[k].s = key[k].t

\* No two keys point to the same storage, so that each can be freed alone.
NoSharedStorage ==
    \A k, l \in Slots : k # l =>
        {key[k].block, key[k].dkblock} \cap {key[l].block, key[l].dkblock} \subseteq {0}

\* Whatever complete key is exported is accepted by an import, and makes the
\* same key; the retained seed is lost only where the configuration prefers the
\* private encoding.
ReimportIsIdentity ==
    \A k \in Slots : Complete(k) =>
        LET r == TestImport(FromData(NewKey, Exported(key[k]), "none"))
        IN  r.ok /\ [r.key EXCEPT !.block = key[k].block] =
                        [key[k] EXCEPT !.d = IF conf.prefer THEN @ ELSE None]

\* "Keys with key material are immutable": no call changes one, short of
\* freeing it.
KeysImmutable ==
    [][\A k \in Slots :
           Complete(k) => key'[k] = key[k] \/ status'[k] = "empty"]_vars

===============================================================================
