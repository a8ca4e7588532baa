--------------------------- MODULE FunctionProofs ---------------------------
(***************************************************************************)
(* What the pure functions compute, for inputs of every size.              *)
(***************************************************************************)
EXTENDS Commitments, CertChecks, Startup, SequenceTheorems, WellFoundedInduction, TLAPS

\* Dropping a prefix leaves what was put behind it, and the prefix can be read.
LEMMA DropPrefix ==
  ASSUME NEW p \in Seq(Byte), NEW c \in Seq(Byte)
  PROVE  /\ Len(p \o c) = Len(p) + Len(c)
         /\ \A i \in 1..Len(p) : (p \o c)[i] = p[i]
         /\ Drop(p \o c, Len(p)) = c
<1>1. /\ Len(p \o c) = Len(p) + Len(c)
      /\ \A i \in 1..Len(p) : (p \o c)[i] = p[i]
  BY ConcatProperties
<1>2. SubSeq(p \o c, Len(p) + 1, Len(p) + Len(c)) = c
  <2>1. CASE c = <<>>
    BY <2>1, SubSeqEmpty
  <2>2. CASE c # <<>>
    <3>1. Len(c) \in Nat /\ Len(c) # 0 /\ Len(p) \in Nat
      BY <2>2, EmptySeq
    <3>2. SubSeq(p \o c, Len(p) + 1, Len(p) + Len(c))
            = SubSeq(c, Len(p) + 1 - Len(p), Len(p) + Len(c) - Len(p))
      BY <3>1, SubSeqOfConcat2
    <3> QED BY <3>1, <3>2, SubSeqFull
  <2> QED BY <2>1, <2>2
<1> QED BY <1>1, <1>2 DEF Drop

\* What a POST encodes, the GET of the same mode looks up, for certs of every
\* length (EncodeCommitment, RegisterRoutes, handleGetShared).
THEOREM CommitmentsRoundTrip ==
  ASSUME NEW mode \in Modes, NEW v \in VersionBytes, NEW c \in Seq(Byte)
  PROVE  RoundTrip(mode, v, c)
<1> SUFFICES ASSUME c # <<>>
             PROVE  RouteGet(GetOf(mode, EncodeCommitment(mode, v, c)))
                      = Lookup(mode, IF mode = "keccak" THEN 0 ELSE v, c)
  BY DEF RoundTrip
<1>0. Len(c) \in Nat /\ Len(c) > 0 /\ v \in Byte
  BY EmptySeq DEF VersionBytes, Byte
<1>1. CASE mode = "standard"
  <2> DEFINE p == <<v>>
             r == GetOf(mode, p \o c)
  <2>1. r.standard /\ r.tail = "none" /\ r.bytes = p \o c
    BY <1>1 DEF GetOf
  <2>2. Len(p \o c) = 1 + Len(c) /\ (p \o c)[1] = v /\ Drop(p \o c, 1) = c
    <3>1. p \in Seq(Byte) /\ Len(p) = 1 /\ p[1] = v
      BY <1>0
    <3> HIDE DEF p
    <3>2. /\ Len(p \o c) = Len(p) + Len(c)
          /\ \A i \in 1..Len(p) : (p \o c)[i] = p[i]
          /\ Drop(p \o c, Len(p)) = c
      BY <3>1, DropPrefix
    <3> QED BY <3>1, <3>2
  <2> HIDE DEF p
  <2>3. RouteGet(r) = HandleGetShared("standard", r, 1)
    BY <1>0, <2>1, <2>2 DEF RouteGet, IsStandard
  <2>4. HandleGetShared("standard", r, 1) = Lookup("standard", v, c)
    BY <2>1, <2>2 DEF HandleGetShared
  <2> QED BY <1>1, <2>3, <2>4 DEF EncodeCommitment, p
<1>2. CASE mode = "generic"
  <2> DEFINE p == <<OPGenericCommitmentByte, EigenDALayerByte, v>>
             r == GetOf(mode, p \o c)
  <2>1. ~r.standard /\ r.tail = "none" /\ r.bytes = p \o c
    BY <1>2 DEF GetOf
  <2>2. /\ Len(p \o c) = 3 + Len(c) /\ (p \o c)[1] = 1 /\ (p \o c)[3] = v
        /\ Drop(p \o c, 3) = c
    <3>1. p \in Seq(Byte) /\ Len(p) = 3 /\ p[1] = 1 /\ p[3] = v
      BY <1>0 DEF OPGenericCommitmentByte, EigenDALayerByte, Byte
    <3> HIDE DEF p
    <3>2. /\ Len(p \o c) = Len(p) + Len(c)
          /\ \A i \in 1..Len(p) : (p \o c)[i] = p[i]
          /\ Drop(p \o c, Len(p)) = c
      BY <3>1, DropPrefix
    <3> QED BY <3>1, <3>2
  <2> HIDE DEF p
  <2>3. RouteGet(r) = HandleGetShared("generic", r, 3)
    BY <1>0, <2>1, <2>2 DEF RouteGet, IsStandard, IsKeccak, IsGeneric, Followed,
       OPGenericCommitmentByte, OPKeccak256CommitmentByte
  <2>4. HandleGetShared("generic", r, 3) = Lookup("generic", v, c)
    BY <2>1, <2>2 DEF HandleGetShared
  <2> QED BY <1>2, <2>3, <2>4 DEF EncodeCommitment, p
<1>3. CASE mode = "keccak"
  <2> DEFINE p == <<OPKeccak256CommitmentByte>>
             r == GetOf(mode, p \o c)
  <2>1. ~r.standard /\ r.tail = "none" /\ r.bytes = p \o c
    BY <1>3 DEF GetOf
  <2>2. Len(p \o c) = 1 + Len(c) /\ (p \o c)[1] = 0 /\ Drop(p \o c, 1) = c
    <3>1. p \in Seq(Byte) /\ Len(p) = 1 /\ p[1] = 0
      BY DEF OPKeccak256CommitmentByte, Byte
    <3> HIDE DEF p
    <3>2. /\ Len(p \o c) = Len(p) + Len(c)
          /\ \A i \in 1..Len(p) : (p \o c)[i] = p[i]
          /\ Drop(p \o c, Len(p)) = c
      BY <3>1, DropPrefix
    <3> QED BY <3>1, <3>2
  <2> HIDE DEF p
  <2>3. RouteGet(r) = Lookup("keccak", 0, c)
    BY <1>0, <2>1, <2>2 DEF RouteGet, IsStandard, IsKeccak, Followed,
       HandleGetOPKeccakCommitment, OPKeccak256CommitmentByte
  <2> QED BY <1>3, <2>3 DEF EncodeCommitment, p
<1> QED BY <1>1, <1>2, <1>3 DEF Modes

QuorumParams == [quorum : Nat, adversary : Nat, confirmation : Nat]
QuorumSignatures == [quorum : Nat, signed : Nat]

\* A cert that verifySecurityParams accepts is signed by enough stake in every
\* required quorum, for any number of quorums and any thresholds.
THEOREM AcceptedCertsHaveMargin ==
  ASSUME NEW params \in Seq(QuorumParams), NEW batch \in Seq(QuorumSignatures),
         NEW thresholds \in Seq(Nat), NEW required \in SUBSET Nat,
         NEW exception \in BOOLEAN
  PROVE  SecurityMargin(params, batch, thresholds, required, exception)
<1> SUFFICES ASSUME ParametersAccepted(required, thresholds),
                    VerifySecurityParams(params, batch, thresholds, required, exception) = "ok",
                    NEW q \in RequiredQuorum(required, exception)
             PROVE  \E i \in DOMAIN params :
                      /\ params[i].quorum = q /\ batch[i].quorum = q
                      /\ batch[i].signed >= params[i].confirmation
                      /\ params[i].confirmation >= params[i].adversary
                      /\ q + 1 \in DOMAIN thresholds => params[i].adversary >= thresholds[q + 1]
                      /\ ~exception => q + 1 \in DOMAIN thresholds
  BY DEF SecurityMargin
<1>1. /\ Len(params) <= Len(batch)
      /\ RoundsPass(Len(params), params, batch, thresholds)
      /\ \E i \in DOMAIN params : params[i].quorum = q
  BY DEF VerifySecurityParams
<1>2. PICK i \in DOMAIN params : params[i].quorum = q
  BY <1>1
<1>3. i \in 1..Len(params) /\ i \in 1..Len(batch)
  BY <1>1
<1>4. params[i] \in QuorumParams /\ batch[i] \in QuorumSignatures
  BY <1>3
<1>5. QuorumMeets(params[i], batch[i].quorum, batch[i].signed, thresholds)
  BY <1>1, <1>3 DEF RoundsPass
<1>6. ~exception => q + 1 \in DOMAIN thresholds
  BY DEF RequiredQuorum, ParametersAccepted
<1> QED
  BY <1>2, <1>3, <1>4, <1>5, <1>6 DEF QuorumMeets, QuorumParams, QuorumSignatures

\* verifyCertRBNRecencyCheck accepts exactly the documented window where certRBN + window
\* fits into the integer; where it wraps around, it accepts no cert, and discards those
\* of the documented window as stale.  For every width of the integers.
THEOREM RecencyCheckExact ==
  ASSUME NEW rbn \in 0..(Uint64 - 1), NEW ibn \in 0..(Uint64 - 1),
         NEW window \in 0..(Uint64 - 1)
  PROVE  RecencyWindow(rbn, ibn, window)
<1>1. Uint64 \in Nat /\ rbn \in Nat /\ ibn \in Nat /\ window \in Nat /\ rbn < Uint64
      /\ window < Uint64
  BY Uint64Assumption
<1>2. CASE rbn + window < Uint64
  <2>1. (rbn + window) % Uint64 = rbn + window
    BY <1>1, <1>2
  <2> QED BY <1>1, <1>2, <2>1 DEF RecencyWindow, VerifyCertRBNRecencyCheck
<1>3. CASE rbn + window >= Uint64
  <2>1. (rbn + window) % Uint64 = rbn + window - Uint64
    BY <1>1, <1>3
  <2>2. rbn + window - Uint64 < rbn
    BY <1>1
  <2> QED BY <1>1, <1>3, <2>1, <2>2 DEF RecencyWindow, VerifyCertRBNRecencyCheck
<1> QED BY <1>1, <1>2, <1>3

\* A configuration is a record; these are the fields the two theorems look at.
IsConfig(c) ==
  /\ c = [f \in DOMAIN c |-> c[f]]
  /\ {"verifyCerts", "memstore"} \subseteq DOMAIN c
  /\ c.maxBlobV1 \in Nat /\ c.maxBlobV2 \in Nat /\ c.depth \in Nat
  /\ c.memstore \in BOOLEAN /\ c.verifyCerts \in BOOLEAN
  /\ c.disperser \in {"", "own", "noport", "malformed"}
  /\ c.svcManagerV2 \in {"", "own"} /\ c.blsRetriever \in {"", "own"}

\* What the actions of the flags leave alone, and what they set.
LEMMA ActionsSet ==
  ASSUME NEW c, IsConfig(c)
  PROVE  LET f == SetByActions(c)
         IN /\ f.memstore = c.memstore
            /\ f.verifyCerts = (c.verifyCerts /\ ~c.memstore)
            /\ f.maxBlobV1 = c.maxBlobV1 /\ f.maxBlobV2 = c.maxBlobV2
            /\ f.depth = c.depth /\ f.confirmation = c.confirmation
            /\ f.network = c.network /\ f.disperser = c.disperser
            /\ f.svcManagerV2 = c.svcManagerV2 /\ f.blsRetriever = c.blsRetriever
<1> DEFINE f == SetByActions(c)
<1>1. c = [x \in DOMAIN c |-> c[x]] /\ {"verifyCerts", "memstore"} \subseteq DOMAIN c
  BY DEF IsConfig
<1>2. f.verifyCerts = (c.verifyCerts /\ ~c.memstore)
  BY <1>1 DEF SetByActions
<1>3. f.memstore = c.memstore /\ f.maxBlobV1 = c.maxBlobV1 /\ f.maxBlobV2 = c.maxBlobV2
  BY <1>1 DEF SetByActions
<1>4. f.depth = c.depth /\ f.confirmation = c.confirmation /\ f.network = c.network
  BY <1>1 DEF SetByActions
<1>5. /\ f.disperser = c.disperser /\ f.svcManagerV2 = c.svcManagerV2
      /\ f.blsRetriever = c.blsRetriever
  BY <1>1 DEF SetByActions
<1>6. QED
  BY <1>2, <1>3, <1>4, <1>5

\* A proxy that serves passed every check and was built from the flags.
LEMMA ServingWasChecked ==
  ASSUME NEW c, NEW w, NEW f, f = SetByActions(c),
         NEW m, m = StartProxySvr(c, w), m.outcome = "serving"
  PROVE  /\ ReadConfig(f) /\ Check(f) /\ BuildStores(f, w)
         /\ m.stores = f.enabled /\ m.dispersal = f.dispersal
         /\ m.inMemory = f.memstore
         /\ m.verifiesV1 = ("V1" \in f.enabled /\ f.verifyCerts)
         /\ m.depth = ParseConfirmationFlag(f)
         /\ m.srs = SRSNumberToLoad(f)
         /\ m.disperser = DefaultOf(f.disperser, f.network)
         /\ m.svcManager = DefaultOf(f.svcManagerV2, f.network)
         /\ m.blsRetriever = DefaultOf(f.blsRetriever, f.network)
<1>1. ReadConfig(f) /\ Check(f) /\ m = BuildStoreManager(f, w)
  BY DEF StartProxySvr, Refused
<1>2. QED
  BY <1>1 DEF BuildStoreManager, Refused

\* A point per 32 bytes of a blob of at most MaxAllowedBlobSize, stretched by
\* the encoding, stays within the SRS.
LEMMA PointsFit ==
  ASSUME NEW S \in Nat, NEW M \in Nat \ {0}, NEW k \in Nat, k <= (S * 31) \div M
  PROVE  (k \div 32) * M <= S
<1> DEFINE q == k \div 32
           t == (S * 31) \div M
<1>1. q \in Nat /\ 32 * q <= k
  BY SMT
<1>2. t \in Nat /\ t * M <= S * 31
  BY SMT
<1> HIDE DEF q, t
<1>3. 32 * q <= t
  BY <1>1, <1>2 DEF t
<1>4. (32 * q) * M <= t * M
  BY <1>1, <1>2, <1>3, SMT
<1>5. q * M \in Nat /\ (32 * q) * M = 32 * (q * M)
  BY <1>1, SMT
<1>6. q * M <= S
  BY <1>2, <1>4, <1>5, SMT
<1>7. QED
  BY <1>6 DEF q

\* Whatever flags are given and whatever the services answer, a proxy that
\* serves disperses to a store it has, does not verify the certs of a memory
\* store against a chain, reads no block that only archive nodes have, and loads
\* no more points than the SRS has.
THEOREM ServingConsistent ==
  ASSUME NEW c, NEW w, IsConfig(c)
  PROVE  ServingIsConsistent(c, w)
<1> DEFINE f == SetByActions(c)
           m == StartProxySvr(c, w)
<1> SUFFICES ASSUME m.outcome = "serving"
             PROVE  /\ m.dispersal \in m.stores
                    /\ ~(m.inMemory /\ m.verifiesV1)
                    /\ m.verifiesV1 => m.depth < EthHappyPathFinalizationDepthBlocks
                    /\ m.srs * MaxCodingRatio <= SrsOrder
  BY DEF ServingIsConsistent
<1>1. /\ f.memstore = c.memstore
      /\ f.verifyCerts = (c.verifyCerts /\ ~c.memstore)
      /\ f.maxBlobV1 = c.maxBlobV1 /\ f.maxBlobV2 = c.maxBlobV2
  BY ActionsSet
<1>2. /\ ReadConfig(f) /\ BuildStores(f, w)
      /\ m.stores = f.enabled /\ m.dispersal = f.dispersal
      /\ m.inMemory = f.memstore
      /\ m.verifiesV1 = ("V1" \in f.enabled /\ f.verifyCerts)
      /\ m.depth = ParseConfirmationFlag(f)
      /\ m.srs = SRSNumberToLoad(f)
  BY ServingWasChecked
<1> HIDE DEF f, m
<1>3. m.dispersal \in m.stores
  BY <1>2 DEF BuildStores
<1>4. ~(m.inMemory /\ m.verifiesV1)
  BY <1>1, <1>2
<1>5. m.verifiesV1 => m.depth < EthHappyPathFinalizationDepthBlocks
  BY <1>2 DEF BuildStores, BuildEigenDAV1Backend, NewCertVerifier
<1>6. m.srs * MaxCodingRatio <= SrsOrder
  <2> DEFINE n == IF f.dispersal = "V1" THEN f.maxBlobV1 ELSE f.maxBlobV2
  <2>1. n \in Nat /\ n <= MaxAllowedBlobSize
    BY <1>1, <1>2 DEF IsConfig, ReadConfig, ReadStoreConfig, ReadClientConfigV1,
       ReadClientConfigV2, ParseMaxBlobLength, BuildStores
  <2>2. m.srs = n \div 32
    BY <1>2 DEF SRSNumberToLoad
  <2> HIDE DEF n
  <2>3. MaxAllowedBlobSize = (SrsOrder * 31) \div MaxCodingRatio
    BY DEF MaxAllowedBlobSize, BytesPerSymbol
  <2>4. QED
    BY <2>1, <2>2, <2>3, PointsFit, StartupAssumption
<1>7. QED
  BY <1>3, <1>4, <1>5, <1>6

\* Whatever flags are given and whatever chain the RPC serves, a V2 store that
\* serves took each address from the operator or from a network of that chain.
THEOREM ServingOnItsNetwork ==
  ASSUME NEW c, NEW w, IsConfig(c)
  PROVE  DefaultsMatchChain(c, w)
<1> DEFINE f == SetByActions(c)
           m == StartProxySvr(c, w)
<1> SUFFICES ASSUME m.outcome = "serving", "V2" \in m.stores, ~m.inMemory
             PROVE  \A a \in {m.disperser, m.svcManager, m.blsRetriever} :
                      a = "own" \/ a \in EigenDANetworksFromChainID(w.chain)
  BY DEF DefaultsMatchChain
<1>1. /\ f.network = c.network /\ f.disperser = c.disperser
      /\ f.svcManagerV2 = c.svcManagerV2 /\ f.blsRetriever = c.blsRetriever
  BY ActionsSet
<1>2. /\ ReadConfig(f) /\ Check(f) /\ BuildStores(f, w)
      /\ m.stores = f.enabled /\ m.inMemory = f.memstore
      /\ m.disperser = DefaultOf(f.disperser, f.network)
      /\ m.svcManager = DefaultOf(f.svcManagerV2, f.network)
      /\ m.blsRetriever = DefaultOf(f.blsRetriever, f.network)
  BY ServingWasChecked
<1> HIDE DEF f, m
<1>3. f.network # "" => f.network \in EigenDANetworksFromChainID(w.chain)
  BY <1>2 DEF BuildStores, BuildEigenDAV2Backend, BuildEthClient
<1>4. /\ DefaultOf(f.disperser, f.network) \notin {"", "malformed"}
      /\ DefaultOf(f.svcManagerV2, f.network) # ""
      /\ DefaultOf(f.blsRetriever, f.network) # ""
  BY <1>2 DEF ReadConfig, ReadClientConfigV2, ReadDisperserCfg
<1>5. f.disperser # "noport"
  BY <1>2 DEF Check, CheckClientConfigV2
<1>6. QED
  BY <1>1, <1>2, <1>3, <1>4, <1>5 DEF IsConfig, DefaultOf

-----------------------------------------------------------------------------
(* Inclusion proofs in trees of every depth.  Walk, Tree and Leaves are    *)
(* recursive functions: each is shown to exist, and what it computes is    *)
(* shown, by SetInduction.                                                 *)

\* Induction on a set of numbers, from the least number outside it.
LEMMA SetInduction ==
  ASSUME NEW S, 0 \in S, \A n \in Nat : n \in S => n + 1 \in S
  PROVE  Nat \subseteq S
<1> DEFINE T == Nat \ S
<1> SUFFICES ASSUME T # {} PROVE FALSE
  OBVIOUS
<1>1. PICK x \in T : \A y \in T : <<y, x>> \notin OpToRel(<, Nat)
  <2>1. IsWellFoundedOn(OpToRel(<, Nat), Nat)
    BY NatLessThanWellFounded
  <2> DEFINE R == OpToRel(<, Nat)
  <2>2. IsWellFoundedOn(R, Nat)
    BY <2>1
  <2>3. T \subseteq Nat
    OBVIOUS
  <2> HIDE DEF R, T
  <2>4. \E x \in T : \A y \in T : ~(<<y, x>> \in R)
    BY <2>2, <2>3, WFMin
  <2> QED BY <2>4 DEF R
<1>2. \A y \in T : ~(y < x)
  BY <1>1 DEF OpToRel
<1>3. x - 1 \in Nat /\ x - 1 < x /\ (x - 1) + 1 = x
  OBVIOUS
<1> QED BY <1>2, <1>3

\* Division with remainder has one result.
LEMMA ModUnique ==
  ASSUME NEW P \in Nat \ {0}, NEW q \in Nat, NEW s \in Nat, s < P
  PROVE  (P * q + s) % P = s
<1> DEFINE y == P * q + s
           k == y \div P
           t == y % P
<1>1. y \in Nat /\ k \in Nat /\ t \in Nat /\ t < P /\ y = P * k + t /\ y = P * q + s
  OBVIOUS
<1> HIDE DEF y, k, t
<1>2. CASE k < q
  <2>1. PICK d \in Nat : q = k + 1 + d
    <3>1. q - (k + 1) \in Nat /\ q = k + 1 + (q - (k + 1))
      BY <1>1, <1>2
    <3> QED BY <3>1
  <2>2. P * q = P * k + P + P * d /\ P * d \in Nat /\ P * k \in Nat
    BY <1>1, <2>1
  <2> QED BY <1>1, <2>2
<1>3. CASE q < k
  <2>1. PICK d \in Nat : k = q + 1 + d
    <3>1. k - (q + 1) \in Nat /\ k = q + 1 + (k - (q + 1))
      BY <1>1, <1>3
    <3> QED BY <3>1
  <2>2. P * k = P * q + P + P * d /\ P * d \in Nat /\ P * q \in Nat
    BY <1>1, <2>1
  <2> QED BY <1>1, <2>2
<1>4. CASE k = q
  BY <1>1, <1>4 DEF y, t
<1> QED BY <1>1, <1>2, <1>3, <1>4

\* Halving a position below and above the last bits of it.
LEMMA HalfMod ==
  ASSUME NEW x \in Nat, NEW P \in Nat \ {0}
  PROVE  /\ (x \div 2) % P = (x % (2 * P)) \div 2
         /\ (x % (2 * P)) % 2 = x % 2
<1> DEFINE q == x \div (2 * P)
           r == x % (2 * P)
           m == P * q
<1>1. /\ q \in Nat /\ r \in Nat /\ r < 2 * P /\ m \in Nat
      /\ x = 2 * m + r
  OBVIOUS
<1> HIDE DEF q, r
<1>2. x \div 2 = m + (r \div 2) /\ r \div 2 \in Nat /\ r \div 2 < P /\ x % 2 = r % 2
  <2> HIDE DEF m
  <2> QED BY <1>1
<1>3. (P * q + (r \div 2)) % P = r \div 2
  BY <1>1, <1>2, ModUnique
<1> QED BY <1>2, <1>3 DEF r

\* Halving goes up one level.
LEMMA HalfDiv ==
  ASSUME NEW x \in Nat, NEW P \in Nat \ {0}
  PROVE  (x \div P) \div 2 = x \div (2 * P)
  OBVIOUS

\* Powers of two up to n.
Powers(n) ==
  {f \in [0..n -> Nat \ {0}] : f[0] = 1 /\ \A k \in 1..n : f[k] = 2 * f[k - 1]}

\* There are powers of two up to every n.
LEMMA PowersExist == \A n \in Nat : Powers(n) # {}
<1> DEFINE S == {n \in Nat : Powers(n) # {}}
<1>1. 0 \in S
  <2> DEFINE f == [k \in 0..0 |-> 1]
  <2>1. f \in Powers(0)
    BY DEF Powers
  <2> QED BY <2>1
<1>2. ASSUME NEW n \in Nat, n \in S PROVE n + 1 \in S
  <2>1. PICK f : f \in Powers(n)
    BY <1>2
  <2> DEFINE g == [k \in 0..(n + 1) |-> IF k = n + 1 THEN 2 * f[n] ELSE f[k]]
  <2>2. g \in [0..(n + 1) -> Nat \ {0}]
    BY <2>1 DEF Powers
  <2>3. g[0] = 1
    BY <2>1 DEF Powers
  <2>4. ASSUME NEW k \in 1..(n + 1) PROVE g[k] = 2 * g[k - 1]
    <3>1. k - 1 \in 0..n /\ g[k - 1] = f[k - 1]
      OBVIOUS
    <3>2. CASE k = n + 1
      BY <3>1, <3>2
    <3>3. CASE k # n + 1
      <4>1. k \in 1..n /\ g[k] = f[k]
        BY <3>3
      <4> QED BY <2>1, <3>1, <4>1 DEF Powers
    <3> QED BY <3>2, <3>3
  <2> HIDE DEF g
  <2>5. g \in Powers(n + 1)
    BY <2>2, <2>3, <2>4 DEF Powers
  <2> QED BY <2>5
<1> HIDE DEF S
<1>3. Nat \subseteq S
  BY <1>1, <1>2, SetInduction
<1> QED BY <1>3 DEF S

\* The powers up to m are the same in a longer list.
LEMMA PowersAgree ==
  ASSUME NEW m \in Nat, NEW f \in Powers(m), NEW g \in Powers(m + 1)
  PROVE  f[m] = g[m]
<1> DEFINE S == {n \in Nat : n <= m => f[n] = g[n]}
<1>1. 0 \in S
  BY DEF Powers
<1>2. ASSUME NEW n \in Nat, n \in S PROVE n + 1 \in S
  <2> SUFFICES ASSUME n + 1 <= m PROVE f[n + 1] = g[n + 1]
    OBVIOUS
  <2>1. n + 1 \in 1..m /\ n + 1 \in 1..(m + 1) /\ (n + 1) - 1 = n /\ f[n] = g[n]
    BY <1>2
  <2>2. f[n + 1] = 2 * f[n] /\ g[n + 1] = 2 * g[n]
    BY <2>1 DEF Powers
  <2> QED BY <2>1, <2>2
<1> HIDE DEF S
<1>3. Nat \subseteq S
  BY <1>1, <1>2, SetInduction
<1> QED BY <1>3 DEF S

\* A tree that is deeper by one has twice as many leaves.
LEMMA LeavesDouble ==
  /\ Leaves[0] = 1
  /\ \A d \in Nat : Leaves[d] \in Nat \ {0} /\ Leaves[d + 1] = 2 * Leaves[d]
<1> DEFINE F == [n \in Nat |-> (CHOOSE e \in Powers(n) : TRUE)[n]]
           T == [n \in Nat |-> IF n = 0 THEN 1 ELSE 2 * F[n - 1]]
<1>1. ASSUME NEW n \in Nat
      PROVE  F[n] \in Nat \ {0} /\ F[n + 1] = 2 * F[n] /\ (n = 0 => F[n] = 1)
  <2>1. PICK f \in Powers(n) : f = CHOOSE e \in Powers(n) : TRUE
    BY PowersExist
  <2>2. PICK g \in Powers(n + 1) : g = CHOOSE e \in Powers(n + 1) : TRUE
    BY PowersExist
  <2>3. F[n] = f[n] /\ F[n + 1] = g[n + 1]
    BY <2>1, <2>2
  <2>4. g[n + 1] = 2 * g[n] /\ f[n] \in Nat \ {0} /\ f[0] = 1
    <3>1. n + 1 \in 1..(n + 1) /\ (n + 1) - 1 = n
      OBVIOUS
    <3> QED BY <3>1 DEF Powers
  <2>5. f[n] = g[n]
    BY PowersAgree
  <2> HIDE DEF F
  <2> QED BY <2>3, <2>4, <2>5
<1>2. DOMAIN F = Nat
  OBVIOUS
<1>3. F = T
  <2>1. F = [n \in Nat |-> F[n]]
    OBVIOUS
  <2> HIDE DEF F
  <2>2. ASSUME NEW n \in Nat PROVE F[n] = IF n = 0 THEN 1 ELSE 2 * F[n - 1]
    <3>1. CASE n = 0
      BY <1>1, <3>1
    <3>2. CASE n # 0
      <4>1. n - 1 \in Nat /\ (n - 1) + 1 = n
        BY <3>2
      <4> QED BY <1>1, <3>2, <4>1
    <3> QED BY <3>1, <3>2
  <2> QED BY <2>1, <2>2
<1>4. \E f : f = [n \in Nat |-> IF n = 0 THEN 1 ELSE 2 * f[n - 1]]
  <2> HIDE DEF F
  <2> QED BY <1>3
<1> HIDE DEF F, T
<1>5. Leaves = [n \in Nat |-> IF n = 0 THEN 1 ELSE 2 * Leaves[n - 1]]
  BY <1>4 DEF Leaves
<1>6. Leaves[0] = 1
  BY <1>5
<1>7. ASSUME NEW n \in Nat PROVE Leaves[n + 1] = 2 * Leaves[n]
  <2>1. n + 1 \in Nat /\ n + 1 # 0 /\ (n + 1) - 1 = n
    OBVIOUS
  <2> QED BY <1>5, <2>1
<1> DEFINE S == {n \in Nat : Leaves[n] \in Nat \ {0}}
<1>8. 0 \in S /\ \A n \in Nat : n \in S => n + 1 \in S
  BY <1>6, <1>7
<1> HIDE DEF S
<1>9. Nat \subseteq S
  BY <1>8, SetInduction
<1> QED BY <1>6, <1>7, <1>9 DEF S

\* The walk up exists and takes one element of the proof at each step.
LEMMA WalkSteps ==
  ASSUME NEW W, NEW proof \in Seq(W), NEW leaf, NEW index
  PROVE  LET w == Walk(proof, leaf, index)
         IN /\ w[0] = [hash |-> leaf, index |-> index]
            /\ \A n \in 1..Len(proof) :
                 w[n] = Combine(w[n - 1].hash, proof[n], w[n - 1].index)
<1> DEFINE L == Len(proof)
           Is(f, m) == f = [n \in 0..m |->
                              IF n = 0 THEN [hash |-> leaf, index |-> index]
                              ELSE Combine(f[n - 1].hash, proof[n], f[n - 1].index)]
           S == {m \in Nat : \E f : Is(f, m)}
<1>0. L \in Nat
  OBVIOUS
<1>1. 0 \in S
  <2> DEFINE f == [n \in 0..0 |-> [hash |-> leaf, index |-> index]]
  <2>1. Is(f, 0)
    OBVIOUS
  <2> QED BY <2>1
<1>2. ASSUME NEW m \in Nat, m \in S PROVE m + 1 \in S
  <2>1. PICK f : Is(f, m)
    BY <1>2
  <2> DEFINE g == [n \in 0..(m + 1) |->
                     IF n = m + 1 THEN Combine(f[m].hash, proof[m + 1], f[m].index) ELSE f[n]]
  <2>2. ASSUME NEW n \in 0..(m + 1)
        PROVE  g[n] = IF n = 0 THEN [hash |-> leaf, index |-> index]
                      ELSE Combine(g[n - 1].hash, proof[n], g[n - 1].index)
    <3>1. CASE n = 0
      BY <2>1, <3>1
    <3>2. CASE n = m + 1
      <4>1. n # 0 /\ n - 1 = m /\ g[m] = f[m]
        BY <3>2
      <4> QED BY <3>2, <4>1
    <3>3. CASE n # 0 /\ n # m + 1
      <4>1. n \in 0..m /\ n - 1 \in 0..m /\ g[n - 1] = f[n - 1] /\ g[n] = f[n]
        BY <3>3
      <4>2. f[n] = Combine(f[n - 1].hash, proof[n], f[n - 1].index)
        BY <2>1, <3>3, <4>1
      <4> HIDE DEF g
      <4> QED BY <3>3, <4>1, <4>2
    <3> QED BY <3>1, <3>2, <3>3
  <2>3. g = [n \in 0..(m + 1) |-> g[n]]
    OBVIOUS
  <2> HIDE DEF g
  <2>4. Is(g, m + 1)
    BY <2>2, <2>3
  <2> HIDE DEF Is
  <2> QED BY <2>4
<1> HIDE DEF S
<1>3. L \in S
  BY <1>0, <1>1, <1>2, SetInduction
<1>4. \E f : Is(f, L)
  BY <1>3 DEF S
<1> DEFINE w == Walk(proof, leaf, index)
<1>5. Is(w, L)
  BY <1>4 DEF Walk
<1> HIDE DEF w
<1>6. w[0] = [hash |-> leaf, index |-> index]
  BY <1>0, <1>5
<1>7. ASSUME NEW n \in 1..L
      PROVE  w[n] = Combine(w[n - 1].hash, proof[n], w[n - 1].index)
  BY <1>0, <1>5
<1> QED BY <1>6, <1>7 DEF w

\* The tree exists: leaves at the bottom, above them nodes over their children.
LEMMA TreeNodes ==
  ASSUME NEW headers, NEW depth \in Nat
  PROVE  LET t == Tree(headers, depth)
         IN /\ \A i \in 0..(Leaves[depth] - 1) :
                 t[0][i] = HashEncodeBlobHeader(headers[i + 1])
            /\ \A h \in 1..depth : \A i \in 0..(Leaves[depth - h] - 1) :
                 t[h][i] = Keccak256Hash(t[h - 1][2 * i], t[h - 1][2 * i + 1])
<1> DEFINE Row(f, h) == [i \in 0..(Leaves[depth - h] - 1) |->
                           IF h = 0 THEN HashEncodeBlobHeader(headers[i + 1])
                           ELSE Keccak256Hash(f[h - 1][2 * i], f[h - 1][2 * i + 1])]
           Is(f, m) == f = [h \in 0..m |-> Row(f, h)]
           S == {m \in Nat : \E f : Is(f, m)}
<1>1. 0 \in S
  <2> DEFINE f == [h \in 0..0 |-> [i \in 0..(Leaves[depth - h] - 1) |->
                                     HashEncodeBlobHeader(headers[i + 1])]]
  <2>1. Is(f, 0)
    OBVIOUS
  <2> QED BY <2>1
<1>2. ASSUME NEW m \in Nat, m \in S PROVE m + 1 \in S
  <2>1. PICK f : Is(f, m)
    BY <1>2
  <2> DEFINE g == [h \in 0..(m + 1) |-> IF h = m + 1 THEN Row(f, m + 1) ELSE f[h]]
  <2>2. ASSUME NEW h \in 0..(m + 1) PROVE g[h] = Row(g, h)
    <3>1. CASE h = 0
      <4>1. g[h] = f[h] /\ f[h] = Row(f, h)
        <5> HIDE DEF Row
        <5> QED BY <2>1, <3>1
      <4>2. Row(f, h) = Row(g, h)
        <5> HIDE DEF g
        <5> QED BY <3>1
      <4> QED BY <4>1, <4>2
    <3>2. CASE h # 0
      <4>1. h - 1 \in 0..m /\ g[h - 1] = f[h - 1]
        BY <3>2
      <4>2. Row(f, h) = Row(g, h)
        <5> HIDE DEF g
        <5> QED BY <4>1
      <4>3. g[h] = Row(f, h)
        <5> HIDE DEF Row
        <5> QED BY <2>1
      <4> QED BY <4>2, <4>3
    <3> QED BY <3>1, <3>2
  <2>3. g = [h \in 0..(m + 1) |-> g[h]]
    <3> HIDE DEF Row
    <3> QED OBVIOUS
  <2> HIDE DEF g, Row
  <2>4. Is(g, m + 1)
    BY <2>2, <2>3
  <2> HIDE DEF Is
  <2> QED BY <2>4
<1> HIDE DEF S
<1>3. depth \in S
  BY <1>1, <1>2, SetInduction
<1>4. \E f : Is(f, depth)
  BY <1>3 DEF S
<1> DEFINE t == Tree(headers, depth)
<1>5. Is(t, depth)
  BY <1>4 DEF Tree
<1> HIDE DEF t
<1>6. ASSUME NEW h \in 0..depth PROVE t[h] = Row(t, h)
  <2> HIDE DEF Row
  <2> QED BY <1>5
<1>7. ASSUME NEW i \in 0..(Leaves[depth] - 1)
      PROVE  t[0][i] = HashEncodeBlobHeader(headers[i + 1])
  <2>1. 0 \in 0..depth /\ depth - 0 = depth
    OBVIOUS
  <2>2. t[0] = Row(t, 0)
    BY <1>6, <2>1
  <2> QED BY <2>1, <2>2
<1>8. ASSUME NEW h \in 1..depth, NEW i \in 0..(Leaves[depth - h] - 1)
      PROVE  t[h][i] = Keccak256Hash(t[h - 1][2 * i], t[h - 1][2 * i + 1])
  <2>1. h \in 0..depth /\ h # 0
    OBVIOUS
  <2>2. t[h] = Row(t, h)
    BY <1>6, <2>1
  <2> QED BY <2>1, <2>2
<1> QED BY <1>7, <1>8 DEF t

\* A shorter proof would end at an inner node, a longer one would go on below a
\* leaf: neither reaches the root.
LEMMA OtherLengthRejected ==
  ASSUME NEW W, NEW proof \in Seq(W), NEW headers, NEW depth \in Nat,
         NEW index, NEW header, Len(proof) # depth
  PROVE  Root(headers, depth) # ProcessInclusionProof(proof, HashEncodeBlobHeader(header), index)
<1> DEFINE L == Len(proof)
           w == Walk(proof, HashEncodeBlobHeader(header), index)
           t == Tree(headers, depth)
           Met(k) == \E j \in 0..(Leaves[k] - 1) : w[L - k].hash = t[depth - k][j]
           S == {k \in Nat : k <= L /\ k <= depth => Met(k)}
<1>0. L \in Nat
  OBVIOUS
<1>1. /\ w[0].hash = HashEncodeBlobHeader(header)
      /\ \A n \in 1..L : \E a, b : w[n].hash = Keccak256Hash(a, b)
                                 /\ w[n - 1].hash \in {a, b}
  <2>1. /\ w[0] = [hash |-> HashEncodeBlobHeader(header), index |-> index]
        /\ \A n \in 1..L : w[n] = Combine(w[n - 1].hash, proof[n], w[n - 1].index)
    BY WalkSteps
  <2> HIDE DEF w
  <2>2. ASSUME NEW n \in 1..L
        PROVE  \E a, b : w[n].hash = Keccak256Hash(a, b) /\ w[n - 1].hash \in {a, b}
    <3> DEFINE u == w[n - 1]
    <3>1. w[n] = Combine(u.hash, proof[n], u.index)
      BY <2>1
    <3> HIDE DEF u
    <3>2. \/ w[n].hash = Keccak256Hash(u.hash, proof[n])
          \/ w[n].hash = Keccak256Hash(proof[n], u.hash)
      BY <3>1 DEF Combine
    <3>3. \E a, b : w[n].hash = Keccak256Hash(a, b) /\ u.hash \in {a, b}
      BY <3>2
    <3> QED BY <3>3 DEF u
  <2> QED BY <2>1, <2>2
<1>2. /\ \A i \in 0..(Leaves[depth] - 1) : \E x : t[0][i] = HashEncodeBlobHeader(x)
      /\ \A h \in 1..depth : \A i \in 0..(Leaves[depth - h] - 1) :
           t[h][i] = Keccak256Hash(t[h - 1][2 * i], t[h - 1][2 * i + 1])
  BY TreeNodes
<1> SUFFICES ASSUME t[depth][0] = w[L].hash PROVE FALSE
  BY DEF Root, ProcessInclusionProof
<1> HIDE DEF w, t
<1>3. 0 \in S
  <2>1. L - 0 = L /\ depth - 0 = depth
    BY <1>0
  <2>2. w[L - 0].hash = t[depth - 0][0]
    BY <2>1
  <2>3. 0 \in 0..(Leaves[0] - 1)
    <3>1. \A a \in Nat : a = 1 => 0 \in 0..(a - 1)
      OBVIOUS
    <3> QED BY <3>1, LeavesDouble
  <2> QED BY <2>2, <2>3
<1>4. ASSUME NEW k \in Nat, k \in S PROVE k + 1 \in S
  <2> SUFFICES ASSUME k + 1 <= L, k + 1 <= depth PROVE Met(k + 1)
    OBVIOUS
  <2>1. PICK j \in 0..(Leaves[k] - 1) : w[L - k].hash = t[depth - k][j]
    BY <1>0, <1>4
  <2> DEFINE n == L - k
             h == depth - k
  <2>2. /\ n \in 1..L /\ n - 1 = L - (k + 1) /\ h \in 1..depth
        /\ h - 1 = depth - (k + 1) /\ depth - h = k
    BY <1>0
  <2>3. 2 * j \in 0..(Leaves[k + 1] - 1) /\ 2 * j + 1 \in 0..(Leaves[k + 1] - 1)
    <3>1. Leaves[k] \in Nat /\ Leaves[k + 1] = 2 * Leaves[k]
      BY LeavesDouble
    <3>2. \A p, q \in Nat : j \in 0..(p - 1) /\ q = 2 * p
                             => 2 * j \in 0..(q - 1) /\ 2 * j + 1 \in 0..(q - 1)
      OBVIOUS
    <3> QED BY <3>1, <3>2
  <2>4. t[h][j] = Keccak256Hash(t[h - 1][2 * j], t[h - 1][2 * j + 1])
    BY <1>2, <2>2
  <2>5. PICK a, b : w[n].hash = Keccak256Hash(a, b) /\ w[n - 1].hash \in {a, b}
    BY <1>1, <2>2
  <2>6. w[n].hash = t[h][j]
    BY <2>1
  <2> HIDE DEF n, h
  <2>7. a = t[h - 1][2 * j] /\ b = t[h - 1][2 * j + 1]
    BY <2>4, <2>5, <2>6 DEF Keccak256Hash
  <2>8. \E i \in 0..(Leaves[k + 1] - 1) : w[n - 1].hash = t[h - 1][i]
    BY <2>3, <2>5, <2>7
  <2> QED BY <2>2, <2>8
<1> HIDE DEF S
<1>5. Nat \subseteq S
  BY <1>3, <1>4, SetInduction
<1>6. ASSUME NEW x, NEW a, NEW b PROVE HashEncodeBlobHeader(x) # Keccak256Hash(a, b)
  BY DEF HashEncodeBlobHeader, Keccak256Hash
<1>7. CASE L < depth
  <2>1. Met(L)
    BY <1>0, <1>5, <1>7 DEF S
  <2>2. PICK j \in 0..(Leaves[L] - 1) : w[0].hash = t[depth - L][j]
    BY <1>0, <2>1
  <2>3. depth - L \in 1..depth /\ depth - (depth - L) = L
    BY <1>0, <1>7
  <2> DEFINE h == depth - L
  <2>4. h \in 1..depth /\ j \in 0..(Leaves[depth - h] - 1) /\ w[0].hash = t[h][j]
    BY <2>2, <2>3
  <2> HIDE DEF h
  <2>5. w[0].hash = Keccak256Hash(t[h - 1][2 * j], t[h - 1][2 * j + 1])
    BY <1>2, <2>4
  <2> QED BY <1>1, <1>6, <2>5
<1>8. CASE depth < L
  <2>1. Met(depth)
    BY <1>0, <1>5, <1>8 DEF S
  <2>2. PICK j \in 0..(Leaves[depth] - 1) : w[L - depth].hash = t[0][j]
    BY <2>1
  <2>3. L - depth \in 1..L
    BY <1>0, <1>8
  <2>4. PICK a, b : w[L - depth].hash = Keccak256Hash(a, b)
    BY <1>1, <2>3
  <2>5. PICK x : t[0][j] = HashEncodeBlobHeader(x)
    BY <1>2
  <2> QED BY <1>6, <2>2, <2>4, <2>5
<1> QED BY <1>0, <1>7, <1>8

\* A proof of the right length reaches the root exactly if it starts from the header
\* at its position and has the sibling of every node on the way.
LEMMA SameLengthExact ==
  ASSUME NEW W, NEW proof \in Seq(W), NEW headers, NEW depth \in Nat,
         NEW index \in Nat, NEW header, Len(proof) = depth
  PROVE  LET i == index % Leaves[depth]
         IN Root(headers, depth) = ProcessInclusionProof(proof, HashEncodeBlobHeader(header), index)
            <=> /\ header = headers[i + 1]
                /\ \A h \in 1..depth : proof[h] = ProofOf(headers, depth, i)[h]
<1> DEFINE i == index % Leaves[depth]
           w == Walk(proof, HashEncodeBlobHeader(header), index)
           t == Tree(headers, depth)
           Pos(n) == i \div Leaves[n]
           Sibling(n) == t[n][IF Pos(n) % 2 = 0 THEN Pos(n) + 1 ELSE Pos(n) - 1]
<1>1. /\ w[0] = [hash |-> HashEncodeBlobHeader(header), index |-> index]
      /\ \A n \in 1..depth : w[n] = Combine(w[n - 1].hash, proof[n], w[n - 1].index)
  BY WalkSteps
<1>2. /\ \A j \in 0..(Leaves[depth] - 1) : t[0][j] = HashEncodeBlobHeader(headers[j + 1])
      /\ \A h \in 1..depth : \A j \in 0..(Leaves[depth - h] - 1) :
           t[h][j] = Keccak256Hash(t[h - 1][2 * j], t[h - 1][2 * j + 1])
  BY TreeNodes
<1>3. \A h \in 1..depth : ProofOf(headers, depth, i)[h] = Sibling(h - 1)
  BY DEF ProofOf
<1>4. Root(headers, depth) = t[depth][0]
  BY DEF Root
<1>5. ProcessInclusionProof(proof, HashEncodeBlobHeader(header), index) = w[depth].hash
  BY DEF ProcessInclusionProof
<1>6. i \in Nat /\ i \in 0..(Leaves[depth] - 1)
  <2>1. Leaves[depth] \in Nat \ {0}
    BY LeavesDouble
  <2> QED BY <2>1
<1> HIDE DEF w, t, i
<1>7. ASSUME NEW n \in Nat, n < depth
      PROVE  /\ w[n + 1].index = w[n].index \div 2
             /\ w[n + 1].hash = IF w[n].index % 2 = 0
                                THEN Keccak256Hash(w[n].hash, proof[n + 1])
                                ELSE Keccak256Hash(proof[n + 1], w[n].hash)
  <2> DEFINE u == w[n]
  <2>1. n + 1 \in 1..depth /\ (n + 1) - 1 = n
    BY <1>7
  <2>2. w[n + 1] = Combine(u.hash, proof[n + 1], u.index)
    BY <1>1, <2>1
  <2> HIDE DEF u
  <2>3. /\ w[n + 1].index = u.index \div 2
        /\ w[n + 1].hash = IF u.index % 2 = 0
                           THEN Keccak256Hash(u.hash, proof[n + 1])
                           ELSE Keccak256Hash(proof[n + 1], u.hash)
    BY <2>2 DEF Combine
  <2> QED BY <2>3 DEF u
\* Where the walk is: its index, without the bits above the tree.
<1> DEFINE At(n) == w[n].index \in Nat /\ w[n].index % Leaves[depth - n] = Pos(n)
           S == {n \in Nat : n <= depth => At(n)}
<1>8. 0 \in S
  <2>1. Leaves[0] = 1 /\ depth - 0 = depth /\ w[0].index = index
    BY <1>1, LeavesDouble
  <2>2. Pos(0) = i
    BY <1>6, <2>1
  <2> QED BY <2>1, <2>2 DEF i
<1>9. ASSUME NEW n \in Nat, n < depth
      PROVE  /\ depth - (n + 1) \in Nat
             /\ Leaves[depth - (n + 1)] \in Nat \ {0}
             /\ Leaves[depth - n] = 2 * Leaves[depth - (n + 1)]
             /\ Pos(n + 1) = Pos(n) \div 2
  <2> DEFINE d == depth - (n + 1)
  <2>1. d \in Nat /\ depth - n = d + 1
    BY <1>9
  <2>2. Leaves[d] \in Nat \ {0} /\ Leaves[d + 1] = 2 * Leaves[d]
    BY <2>1, LeavesDouble
  <2>3. Leaves[n] \in Nat \ {0} /\ Leaves[n + 1] = 2 * Leaves[n]
    BY LeavesDouble
  <2>4. (i \div Leaves[n]) \div 2 = i \div (2 * Leaves[n])
    BY <1>6, <2>3, HalfDiv
  <2> QED BY <2>1, <2>2, <2>3, <2>4
<1>10. ASSUME NEW n \in Nat, n < depth, At(n)
       PROVE  At(n + 1) /\ w[n].index % 2 = Pos(n) % 2
  <2> DEFINE x == w[n].index
             P == Leaves[depth - (n + 1)]
  <2>1. P \in Nat \ {0} /\ Leaves[depth - n] = 2 * P
    BY <1>9, <1>10
  <2>2. x \in Nat /\ x % (2 * P) = Pos(n)
    BY <1>10, <2>1
  <2>3. w[n + 1].index = x \div 2 /\ Pos(n + 1) = Pos(n) \div 2
    BY <1>7, <1>9, <1>10
  <2> HIDE DEF x, P, Pos
  <2>4. (x \div 2) % P = Pos(n) \div 2 /\ Pos(n) % 2 = x % 2
    BY <2>1, <2>2, HalfMod
  <2>5. x \div 2 \in Nat
    BY <2>2
  <2>6. w[n + 1].index \in Nat /\ w[n + 1].index % P = Pos(n + 1)
    BY <2>3, <2>4, <2>5
  <2> QED BY <2>4, <2>6 DEF x, P
<1>11. ASSUME NEW n \in Nat, n \in S PROVE n + 1 \in S
  <2> HIDE DEF At
  <2> SUFFICES ASSUME n + 1 <= depth PROVE At(n + 1)
    OBVIOUS
  <2>1. n < depth /\ At(n)
    BY <1>11
  <2> QED BY <1>10, <2>1
<1>12. \A n \in Nat : n <= depth => At(n)
  <2> HIDE DEF At
  <2> HIDE DEF S
  <2>1. Nat \subseteq S
    BY <1>8, <1>11, SetInduction
  <2> QED BY <2>1 DEF S
<1>13. ASSUME NEW n \in Nat, n <= depth PROVE Pos(n) \in 0..(Leaves[depth - n] - 1)
  <2>1. depth - n \in Nat
    BY <1>13
  <2>2. Leaves[depth - n] \in Nat \ {0}
    BY <2>1, LeavesDouble
  <2>3. w[n].index \in Nat /\ w[n].index % Leaves[depth - n] = Pos(n)
    BY <1>12, <1>13
  <2>4. w[n].index % Leaves[depth - n] \in 0..(Leaves[depth - n] - 1)
    BY <2>2, <2>3
  <2> QED BY <2>3, <2>4
\* The walk is in the tree exactly as long as everything below was right.
<1> DEFINE Below(n) == header = headers[i + 1] /\ \A h \in 1..n : proof[h] = Sibling(h - 1)
           Agree(n) == w[n].hash = t[n][Pos(n)] <=> Below(n)
           A == {n \in Nat : n <= depth => Agree(n)}
<1>14. 0 \in A
  <2>1. Pos(0) = i
    <3>1. Leaves[0] = 1
      BY LeavesDouble
    <3> QED BY <1>6, <3>1
  <2>2. t[0][Pos(0)] = HashEncodeBlobHeader(headers[i + 1])
    BY <1>2, <1>6, <2>1
  <2>3. w[0].hash = HashEncodeBlobHeader(header)
    BY <1>1
  <2> HIDE DEF Pos, Sibling
  <2>4. w[0].hash = t[0][Pos(0)] <=> header = headers[i + 1]
    BY <2>2, <2>3 DEF HashEncodeBlobHeader
  <2> QED BY <2>4
<1>15. ASSUME NEW n \in Nat, n \in A PROVE n + 1 \in A
  <2> SUFFICES ASSUME n + 1 <= depth PROVE Agree(n + 1)
    OBVIOUS
  <2> DEFINE p == Pos(n)
             q == Pos(n + 1)
  <2>1. n < depth /\ n <= depth /\ n + 1 \in 1..depth /\ (n + 1) - 1 = n
    OBVIOUS
  <2>2. Agree(n) /\ At(n)
    <3> HIDE DEF Agree, At
    <3> QED BY <1>12, <1>15, <2>1
  <2>3. q = p \div 2 /\ w[n].index % 2 = p % 2
    BY <1>9, <1>10, <2>1, <2>2
  <2>4. p \in Nat
    <3>1. depth - n \in Nat
      BY <2>1
    <3>2. Leaves[depth - n] \in Nat
      BY <3>1, LeavesDouble
    <3> QED BY <1>13, <2>1, <3>2
  <2>5. t[n + 1][q] = Keccak256Hash(t[n][2 * q], t[n][2 * q + 1])
    <3>1. q \in 0..(Leaves[depth - (n + 1)] - 1)
      BY <1>13
    <3> HIDE DEF q
    <3> QED BY <1>2, <2>1, <3>1
  <2>6. Below(n + 1) <=> Below(n) /\ proof[n + 1] = Sibling(n)
    <3> HIDE DEF Sibling
    <3>1. \A h : h \in 1..(n + 1) <=> h \in 1..n \/ h = n + 1
      OBVIOUS
    <3> QED BY <2>1, <3>1
  <2>7. Sibling(n) = IF p % 2 = 0 THEN t[n][p + 1] ELSE t[n][p - 1]
    OBVIOUS
  <2>8. w[n].hash = t[n][p] <=> Below(n)
    BY <2>2
  <2> HIDE DEF p, q, Below, Sibling
  <2>9. w[n + 1].hash = t[n + 1][q] <=> w[n].hash = t[n][p] /\ proof[n + 1] = Sibling(n)
    <3>1. CASE p % 2 = 0
      <4>1. 2 * q = p /\ 2 * q + 1 = p + 1
        BY <2>3, <2>4, <3>1
      <4>2. w[n + 1].hash = Keccak256Hash(w[n].hash, proof[n + 1])
        BY <1>7, <2>1, <2>3, <3>1
      <4>3. t[n + 1][q] = Keccak256Hash(t[n][p], Sibling(n))
        BY <2>5, <2>7, <3>1, <4>1
      <4> QED BY <4>2, <4>3 DEF Keccak256Hash
    <3>2. CASE p % 2 # 0
      <4>1. 2 * q = p - 1 /\ 2 * q + 1 = p
        BY <2>3, <2>4, <3>2
      <4>2. w[n + 1].hash = Keccak256Hash(proof[n + 1], w[n].hash)
        BY <1>7, <2>1, <2>3, <3>2
      <4>3. t[n + 1][q] = Keccak256Hash(Sibling(n), t[n][p])
        BY <2>5, <2>7, <3>2, <4>1
      <4> QED BY <4>2, <4>3 DEF Keccak256Hash
    <3> QED BY <3>1, <3>2
  <2>10. w[n + 1].hash = t[n + 1][q] <=> Below(n + 1)
    BY <2>6, <2>8, <2>9
  <2> QED BY <2>10 DEF q
<1>16. Agree(depth)
  <2> HIDE DEF Agree
  <2> HIDE DEF A
  <2>1. depth \in A
    BY <1>14, <1>15, SetInduction
  <2> QED BY <2>1 DEF A
<1>17. Pos(depth) = 0
  <2>1. Pos(depth) \in 0..(Leaves[depth - depth] - 1)
    BY <1>13
  <2>2. Leaves[depth - depth] = 1
    BY LeavesDouble
  <2> HIDE DEF Pos
  <2> QED BY <2>1, <2>2
<1>18. t[depth][0] = w[depth].hash <=> Below(depth)
  <2> HIDE DEF Pos, Below
  <2> QED BY <1>16, <1>17
<1>19. Below(depth) <=> /\ header = headers[i + 1]
                       /\ \A h \in 1..depth : proof[h] = ProofOf(headers, depth, i)[h]
  <2> HIDE DEF Sibling
  <2> QED BY <1>3
<1> QED BY <1>4, <1>5, <1>18, <1>19 DEF i

\* verifyMerkleProof accepts a header of a batch at its position with its own proof
\* and nothing else, for trees of every depth and all indices.
THEOREM MerkleExact ==
  ASSUME NEW W, NEW proof \in Seq(W), NEW headers, NEW depth \in Nat,
         NEW index \in Nat, NEW header, NEW rest
  PROVE  MerkleSound(headers, depth, proof, rest, index, header)
<1> DEFINE i == index % Leaves[depth]
           leaf == HashEncodeBlobHeader(header)
           q == ProofOf(headers, depth, i)
<1>0. Len(proof) \in Nat /\ DOMAIN proof = 1..Len(proof) /\ DOMAIN q = 1..depth
  BY DEF ProofOf
<1>1. ASSUME Len(proof) = depth
      PROVE  proof = q <=> \A h \in 1..depth : proof[h] = q[h]
  <2>1. proof = [h \in 1..depth |-> proof[h]] /\ q = [h \in 1..depth |-> q[h]]
    BY <1>1 DEF ProofOf
  <2> HIDE DEF q
  <2> QED BY <2>1
<1>2. Root(headers, depth) = ProcessInclusionProof(proof, leaf, index)
      <=> header = headers[i + 1] /\ proof = q
  <2>1. CASE Len(proof) = depth
    <3>1. Root(headers, depth) = ProcessInclusionProof(proof, leaf, index)
          <=> header = headers[i + 1] /\ \A h \in 1..depth : proof[h] = q[h]
      BY <2>1, SameLengthExact
    <3> HIDE DEF q, i, leaf
    <3> QED BY <1>1, <2>1, <3>1
  <2>2. CASE Len(proof) # depth
    <3>1. Root(headers, depth) # ProcessInclusionProof(proof, leaf, index)
      BY <2>2, OtherLengthRejected
    <3> HIDE DEF q, i, leaf
    <3>2. proof # q
      <4>1. SUFFICES ASSUME proof = q PROVE FALSE
        OBVIOUS
      <4>2. 1..Len(proof) = 1..depth
        BY <1>0, <4>1
      <4>3. depth \in 1..depth <=> depth \in 1..Len(proof)
        BY <4>2
      <4>4. Len(proof) \in 1..depth <=> Len(proof) \in 1..Len(proof)
        BY <4>2
      <4>5. CASE Len(proof) < depth
        BY <1>0, <4>3, <4>5
      <4>6. CASE depth < Len(proof)
        BY <1>0, <4>4, <4>6
      <4>7. \A a, b \in Nat : a = b \/ a < b \/ b < a
        OBVIOUS
      <4> QED BY <1>0, <2>2, <4>5, <4>6, <4>7
    <3> QED BY <3>1, <3>2
  <2> QED BY <2>1, <2>2
<1> HIDE DEF q
<1> QED BY <1>2 DEF MerkleSound, VerifyMerkleProof, q
=============================================================================
