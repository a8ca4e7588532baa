----------------------------- MODULE InputProofs -----------------------------
(***************************************************************************)
(* What MCInputs checks on the inputs it picks, for inputs of every size.  *)
(***************************************************************************)
EXTENDS FunctionProofs, MCInputs

\* A path that any client may send.
Paths == [standard : BOOLEAN, bytes : Seq(Byte), tail : Tails]

\* MCInputs without its bounds: certs and paths of every length, any number of
\* quorums, all block numbers, and every configuration in every world.
AnyEncode ==
  \E m \in Modes, v \in VersionBytes, c \in Seq(Byte) :
    Input([function |-> "encode", mode |-> m, version |-> v, cert |-> c])

AnyRoute == \E r \in Paths : Input([function |-> "route", request |-> r])

AnyQuorums ==
  \E ps \in Seq(QuorumParams), bs \in Seq(QuorumSignatures), ts \in Seq(Nat),
     req \in SUBSET Nat, ex \in BOOLEAN :
    Input([function |-> "quorums", params |-> ps, batch |-> bs, thresholds |-> ts,
           required |-> req, exception |-> ex])

\* Any words and any index; the batch is that of MCInputs.
AnyProof ==
  \E W, x : \E d \in 0..2, index, rest \in Nat, p \in Seq(W) :
    Input([function |-> "proof", depth |-> d, proof |-> p, rest |-> rest,
           index |-> index, header |-> x])

AnyRecency ==
  \E rbn, ibn, win \in 0..(Uint64 - 1) :
    Input([function |-> "recency", rbn |-> rbn, ibn |-> ibn, window |-> win])

AnyStart == \E c, w : IsConfig(c) /\ Start(c, w)

AnyNext ==
  \/ AnyEncode \/ AnyRoute
  \/ AnyQuorums \/ AnyProof \/ AnyRecency
  \/ AnyStart
  \/ Return

AnySpec == Init /\ [][AnyNext]_probe

\* What is left of a path.
LEMMA DropType ==
  ASSUME NEW s \in Seq(Byte), NEW n \in 0..Len(s)
  PROVE  /\ Drop(s, n) \in Seq(Byte) /\ Len(Drop(s, n)) = Len(s) - n
         /\ \A i \in 1..(Len(s) - n) : Drop(s, n)[i] = s[n + i]
<1>1. Len(s) \in Nat /\ n \in Nat /\ n <= Len(s)
  OBVIOUS
<1> QED
  BY <1>1, SubSeqProperties DEF Drop

\* A path is its prefix and the rest.
LEMMA PrefixAndRest ==
  ASSUME NEW s \in Seq(Byte), NEW p \in Seq(Byte), Len(p) <= Len(s),
         \A i \in 1..Len(p) : p[i] = s[i]
  PROVE  s = p \o Drop(s, Len(p))
<1> DEFINE d == Drop(s, Len(p))
<1>1. Len(s) \in Nat /\ Len(p) \in Nat /\ Len(p) \in 0..Len(s)
  OBVIOUS
<1>2. /\ d \in Seq(Byte) /\ Len(d) = Len(s) - Len(p)
      /\ \A i \in 1..(Len(s) - Len(p)) : d[i] = s[Len(p) + i]
  BY <1>1, DropType
<1> HIDE DEF d
<1>3. /\ p \o d \in Seq(Byte)
      /\ Len(p \o d) = Len(p) + Len(d)
      /\ \A i \in 1..(Len(p) + Len(d)) :
           (p \o d)[i] = IF i <= Len(p) THEN p[i] ELSE d[i - Len(p)]
  BY <1>2, ConcatProperties
<1>4. Len(p \o d) = Len(s)
  BY <1>1, <1>2, <1>3
<1>5. ASSUME NEW i \in 1..Len(s) PROVE s[i] = (p \o d)[i]
  <2>1. CASE i <= Len(p)
    BY <1>1, <1>2, <1>3, <2>1
  <2>2. CASE ~(i <= Len(p))
    <3>1. i - Len(p) \in 1..(Len(s) - Len(p)) /\ i \in 1..(Len(p) + Len(d))
      BY <1>1, <1>2, <2>2
    <3>2. (p \o d)[i] = d[i - Len(p)]
      BY <1>3, <2>2, <3>1
    <3>3. d[i - Len(p)] = s[Len(p) + (i - Len(p))]
      BY <1>2, <3>1
    <3> QED BY <1>1, <3>2, <3>3
  <2> QED BY <2>1, <2>2
<1>6. s = p \o d
  BY <1>3, <1>4, <1>5, SeqEqual
<1> QED BY <1>6 DEF d

\* What is looked up is the commitment that the path spells.
LEMMA LookedUpCommits ==
  ASSUME NEW r \in Paths, RouteGet(r).mode # "none"
  PROVE  Commits(r, RouteGet(r).mode, RouteGet(r).version, RouteGet(r).key)
<1> DEFINE a == RouteGet(r)
           s == r.bytes
<1>0. s \in Seq(Byte) /\ Len(s) \in Nat /\ r.standard \in BOOLEAN /\ r.tail \in Tails
  BY DEF Paths
<1>1. CASE IsStandard(r)
  <2>1. /\ Len(s) >= 1 /\ r.standard /\ r.tail = "none" /\ s[1] \in VersionBytes
        /\ a = Lookup("standard", s[1], Drop(s, 1))
    BY <1>1 DEF IsStandard, RouteGet, HandleGetShared, Answer
  <2> DEFINE p == <<s[1]>>
  <2>2. p \in Seq(Byte) /\ Len(p) = 1 /\ p[1] = s[1]
    BY <1>0, <2>1
  <2> HIDE DEF p
  <2>3. s = p \o Drop(s, 1)
    <3>1. \A i \in 1..Len(p) : p[i] = s[i]
      BY <2>2
    <3>2. s = p \o Drop(s, Len(p))
      BY <1>0, <2>1, <2>2, <3>1, PrefixAndRest
    <3> QED BY <2>2, <3>2
  <2> QED BY <2>1, <2>3 DEF Lookup, Commits, p
<1>2. CASE ~IsStandard(r) /\ IsKeccak(r)
  <2>1. /\ Len(s) >= 1 /\ Followed(r, 1) /\ r.tail = "none" /\ s[1] = 0
        /\ a = Lookup("keccak", 0, Drop(s, 1))
    BY <1>2 DEF IsKeccak, RouteGet, HandleGetOPKeccakCommitment, Answer,
           OPKeccak256CommitmentByte
  <2>2. ~r.standard /\ Len(s) > 1
    BY <1>0, <1>2, <2>1 DEF IsStandard, Followed
  <2> DEFINE p == <<OPKeccak256CommitmentByte>>
  <2>3. p \in Seq(Byte) /\ Len(p) = 1 /\ p[1] = s[1]
    BY <2>1 DEF OPKeccak256CommitmentByte, Byte
  <2> HIDE DEF p
  <2>4. s = p \o Drop(s, 1)
    <3>1. \A i \in 1..Len(p) : p[i] = s[i]
      BY <2>3
    <3>2. s = p \o Drop(s, Len(p))
      BY <1>0, <2>1, <2>3, <3>1, PrefixAndRest
    <3> QED BY <2>3, <3>2
  <2>5. Drop(s, 1) # <<>>
    <3>1. 1 \in 0..Len(s)
      BY <1>0, <2>2
    <3>2. Len(Drop(s, 1)) = Len(s) - 1
      BY <1>0, <3>1, DropType
    <3> QED BY <1>0, <2>2, <3>2
  <2> QED BY <2>1, <2>2, <2>4, <2>5 DEF Lookup, Commits, p
<1>3. CASE ~IsStandard(r) /\ ~IsKeccak(r) /\ IsGeneric(r)
  <2>1. /\ Len(s) >= 3 /\ Followed(r, 3) /\ r.tail = "none" /\ s[1] = 1
        /\ s[3] \in VersionBytes
        /\ a = Lookup("generic", s[3], Drop(s, 3))
    BY <1>0, <1>3 DEF IsGeneric, RouteGet, HandleGetShared, Answer,
           OPGenericCommitmentByte
  <2>2. ~r.standard /\ Len(s) > 3
    BY <1>0, <1>3, <2>1 DEF IsStandard, Followed
  <2> DEFINE p == <<OPGenericCommitmentByte, s[2], s[3]>>
  <2>3. p \in Seq(Byte) /\ Len(p) = 3 /\ p[1] = s[1] /\ p[2] = s[2] /\ p[3] = s[3]
    <3>1. s[2] \in Byte /\ s[3] \in Byte
      BY <1>0, <2>1
    <3>2. OPGenericCommitmentByte \in Byte /\ OPGenericCommitmentByte = s[1]
      BY <2>1 DEF OPGenericCommitmentByte, Byte
    <3> QED BY <3>1, <3>2
  <2> HIDE DEF p
  <2>4. s = p \o Drop(s, 3)
    <3>1. \A i \in 1..Len(p) : p[i] = s[i]
      BY <2>3
    <3>2. s = p \o Drop(s, Len(p))
      BY <1>0, <2>1, <2>3, <3>1, PrefixAndRest
    <3> QED BY <2>3, <3>2
  <2>5. Drop(s, 3) # <<>>
    <3>1. 3 \in 0..Len(s)
      BY <1>0, <2>2
    <3>2. Len(Drop(s, 3)) = Len(s) - 3
      BY <1>0, <3>1, DropType
    <3> QED BY <1>0, <2>2, <3>2
  <2> QED BY <2>1, <2>2, <2>4, <2>5 DEF Lookup, Commits, p
<1>4. CASE ~IsStandard(r) /\ ~IsKeccak(r) /\ ~IsGeneric(r)
  BY <1>4 DEF RouteGet, Answer
<1>5. QED
  BY <1>1, <1>2, <1>3, <1>4

\* Every commitment is looked up.
LEMMA CommitmentLookedUp ==
  ASSUME NEW r \in Paths, NEW mode \in Modes, NEW v \in VersionBytes,
         NEW c \in Seq(Byte), Commits(r, mode, v, c)
  PROVE  RouteGet(r) = Lookup(mode, v, c)
<1> DEFINE s == r.bytes
<1>0. /\ s \in Seq(Byte) /\ Len(s) \in Nat /\ Len(c) \in Nat
      /\ r.standard \in BOOLEAN /\ r.tail = "none" /\ v \in Byte
  BY DEF Paths, Commits, VersionBytes, Byte
<1>1. CASE mode = "standard"
  <2> DEFINE p == <<v>>
  <2>1. r.standard /\ s = p \o c
    BY <1>1 DEF Commits
  <2>2. p \in Seq(Byte) /\ Len(p) = 1 /\ p[1] = v
    BY <1>0
  <2> HIDE DEF p
  <2>3. Len(s) = 1 + Len(c) /\ s[1] = v /\ Drop(s, 1) = c
    <3>1. /\ Len(p \o c) = Len(p) + Len(c)
          /\ \A i \in 1..Len(p) : (p \o c)[i] = p[i]
          /\ Drop(p \o c, Len(p)) = c
      BY <2>2, DropPrefix
    <3> QED BY <2>1, <2>2, <3>1
  <2>4. RouteGet(r) = HandleGetShared("standard", r, 1)
    BY <1>0, <2>1, <2>3 DEF RouteGet, IsStandard
  <2> QED BY <1>0, <1>1, <2>3, <2>4 DEF HandleGetShared
<1>2. CASE mode = "keccak"
  <2> DEFINE p == <<OPKeccak256CommitmentByte>>
  <2>1. ~r.standard /\ s = p \o c /\ c # <<>> /\ v = 0
    BY <1>2 DEF Commits
  <2>2. p \in Seq(Byte) /\ Len(p) = 1 /\ p[1] = 0
    BY DEF OPKeccak256CommitmentByte, Byte
  <2> HIDE DEF p
  <2>3. Len(s) = 1 + Len(c) /\ s[1] = 0 /\ Drop(s, 1) = c
    <3>1. /\ Len(p \o c) = Len(p) + Len(c)
          /\ \A i \in 1..Len(p) : (p \o c)[i] = p[i]
          /\ Drop(p \o c, Len(p)) = c
      BY <2>2, DropPrefix
    <3> QED BY <2>1, <2>2, <3>1
  <2>4. Len(c) > 0
    BY <1>0, <2>1, EmptySeq
  <2>5. RouteGet(r) = HandleGetOPKeccakCommitment(r)
    BY <1>0, <2>1, <2>3, <2>4 DEF RouteGet, IsStandard, IsKeccak, Followed,
           OPKeccak256CommitmentByte
  <2> QED BY <1>0, <1>2, <2>1, <2>3, <2>5 DEF HandleGetOPKeccakCommitment
<1>3. CASE mode = "generic"
  <2> DEFINE p == <<OPGenericCommitmentByte, s[2], v>>
  <2>1. ~r.standard /\ s = p \o c /\ c # <<>> /\ Len(s) >= 3
    BY <1>3 DEF Commits
  <2>2. p \in Seq(Byte) /\ Len(p) = 3 /\ p[1] = 1 /\ p[3] = v
    <3>1. s[2] \in Byte
      BY <1>0, <2>1
    <3>2. OPGenericCommitmentByte \in Byte /\ OPGenericCommitmentByte = 1
      BY DEF OPGenericCommitmentByte, Byte
    <3> QED BY <1>0, <3>1, <3>2
  <2> HIDE DEF p
  <2>3. Len(s) = 3 + Len(c) /\ s[1] = 1 /\ s[3] = v /\ Drop(s, 3) = c
    <3>1. /\ Len(p \o c) = Len(p) + Len(c)
          /\ \A i \in 1..Len(p) : (p \o c)[i] = p[i]
          /\ Drop(p \o c, Len(p)) = c
      BY <2>2, DropPrefix
    <3> QED BY <2>1, <2>2, <3>1
  <2>4. Len(c) > 0
    BY <1>0, <2>1, EmptySeq
  <2>5. RouteGet(r) = HandleGetShared("generic", r, 3)
    BY <1>0, <2>1, <2>3, <2>4 DEF RouteGet, IsStandard, IsKeccak, IsGeneric, Followed,
           OPKeccak256CommitmentByte, OPGenericCommitmentByte
  <2> QED BY <1>0, <1>3, <2>3, <2>5 DEF HandleGetShared
<1> QED BY <1>1, <1>2, <1>3 DEF Modes

\* A GET is looked up exactly if its path is a well-formed commitment, and then for
\* the mode, version and cert it spells, for paths of every length and whatever the
\* layer byte (RegisterRoutes, handleGetShared, handleGetOPKeccakCommitment).
THEOREM RoutesExact ==
  ASSUME NEW r \in Paths
  PROVE  OnlyCommitments(r)
<1>1. RouteGet(r).mode # "none" =>
        Commits(r, RouteGet(r).mode, RouteGet(r).version, RouteGet(r).key)
  BY LookedUpCommits
<1>2. ASSUME NEW mode \in Modes, NEW v \in VersionBytes, NEW n \in 0..Len(r.bytes),
             Commits(r, mode, v, Drop(r.bytes, n))
      PROVE  RouteGet(r) = Lookup(mode, v, Drop(r.bytes, n))
  <2>1. r.bytes \in Seq(Byte)
    BY DEF Paths
  <2>2. Drop(r.bytes, n) \in Seq(Byte)
    BY <2>1, DropType
  <2> QED BY <1>2, <2>2, CommitmentLookedUp
<1> QED BY <1>1, <1>2 DEF OnlyCommitments

-----------------------------------------------------------------------------
(* The properties of the run, without its bounds.                          *)

\* An input of one function says nothing of the others.
LEMMA ProbeCases ==
  ASSUME [AnyNext]_probe
  PROVE  \/ AnyEncode /\ Testing("encode")'
         \/ AnyRoute /\ Testing("route")'
         \/ AnyQuorums /\ Testing("quorums")'
         \/ AnyProof /\ Testing("proof")'
         \/ AnyRecency /\ Testing("recency")'
         \/ AnyStart /\ Testing("startup")'
         \/ Testing("none")'
         \/ UNCHANGED probe
<1> USE DEF Input, Testing
<1>1. AnyEncode => Testing("encode")'
  BY DEF AnyEncode
<1>2. AnyRoute => Testing("route")'
  BY DEF AnyRoute
<1>3. AnyQuorums => Testing("quorums")'
  BY DEF AnyQuorums
<1>4. AnyProof => Testing("proof")'
  BY DEF AnyProof
<1>5. AnyRecency => Testing("recency")'
  BY DEF AnyRecency
<1>6. AnyStart => Testing("startup")'
  BY DEF AnyStart, Start
<1>7. Return => Testing("none")'
  BY DEF Return, Idle
<1> HIDE DEF Input, Testing
<1>8. QED
  BY <1>1, <1>2, <1>3, <1>4, <1>5, <1>6, <1>7 DEF AnyNext

\* A GET looks up the very cert that a POST of the same mode encoded, for certs of
\* every length.
THEOREM EncodesRoundTrip == AnySpec => []CommitmentRoundTrip
<1>1. Init => CommitmentRoundTrip
  BY DEF Init, Idle, CommitmentRoundTrip, Testing
<1>2. CommitmentRoundTrip /\ [AnyNext]_probe => CommitmentRoundTrip'
  <2> SUFFICES ASSUME CommitmentRoundTrip, [AnyNext]_probe, Testing("encode")'
               PROVE  RoundTrip(probe'.mode, probe'.version, probe'.cert)
    BY DEF CommitmentRoundTrip
  <2>1. CASE UNCHANGED probe
    BY <2>1 DEF CommitmentRoundTrip, Testing
  <2>2. CASE AnyEncode
    BY <2>2, CommitmentsRoundTrip DEF AnyEncode, Input
  <2>3. QED
    BY <2>1, <2>2, ProbeCases DEF Testing
<1>3. QED
  BY <1>1, <1>2, PTL DEF AnySpec

\* The paths that reach the storage manager are exactly the commitments of the route's
\* mode, however long and whatever the layer byte.
THEOREM RoutesAlwaysExact == AnySpec => []RoutesAreExact
<1>1. Init => RoutesAreExact
  BY DEF Init, Idle, RoutesAreExact, Testing
<1>2. RoutesAreExact /\ [AnyNext]_probe => RoutesAreExact'
  <2> SUFFICES ASSUME RoutesAreExact, [AnyNext]_probe, Testing("route")'
               PROVE  OnlyCommitments(probe'.request)
    BY DEF RoutesAreExact
  <2>1. CASE UNCHANGED probe
    BY <2>1 DEF RoutesAreExact, Testing
  <2>2. CASE AnyRoute
    BY <2>2, RoutesExact DEF AnyRoute, Input
  <2>3. QED
    BY <2>1, <2>2, ProbeCases DEF Testing
<1>3. QED
  BY <1>1, <1>2, PTL DEF AnySpec

\* A V1 cert that verifySecurityParams accepts is signed by enough stake, for any
\* number of quorums and all thresholds.
THEOREM AcceptedAlwaysHasMargin == AnySpec => []AcceptedHasMargin
<1>1. Init => AcceptedHasMargin
  BY DEF Init, Idle, AcceptedHasMargin, Testing
<1>2. AcceptedHasMargin /\ [AnyNext]_probe => AcceptedHasMargin'
  <2> SUFFICES ASSUME AcceptedHasMargin, [AnyNext]_probe, Testing("quorums")'
               PROVE  SecurityMargin(probe'.params, probe'.batch, probe'.thresholds,
                                     probe'.required, probe'.exception)
    BY DEF AcceptedHasMargin
  <2>1. CASE UNCHANGED probe
    BY <2>1 DEF AcceptedHasMargin, Testing
  <2>2. CASE AnyQuorums
    BY <2>2, AcceptedCertsHaveMargin DEF AnyQuorums, Input
  <2>3. QED
    BY <2>1, <2>2, ProbeCases DEF Testing
<1>3. QED
  BY <1>1, <1>2, PTL DEF AnySpec

\* verifyMerkleProof accepts exactly the headers of the batch, each at its place and
\* with its own proof, whatever words the proof has and whatever the index.
THEOREM ProofsAlwaysExact == AnySpec => []ProofsAreExact
<1>1. Init => ProofsAreExact
  BY DEF Init, Idle, ProofsAreExact, Testing
<1>2. ProofsAreExact /\ [AnyNext]_probe => ProofsAreExact'
  <2> SUFFICES ASSUME ProofsAreExact, [AnyNext]_probe, Testing("proof")'
               PROVE  MerkleSound(Headers, probe'.depth, probe'.proof, probe'.rest,
                                  probe'.index, probe'.header)
    BY DEF ProofsAreExact
  <2>1. CASE UNCHANGED probe
    BY <2>1 DEF ProofsAreExact, Testing
  <2>2. CASE AnyProof
    <3>1. PICK W, x : \E d \in 0..2, index, rest \in Nat, p \in Seq(W) :
            probe' = [function |-> "proof", depth |-> d, proof |-> p, rest |-> rest,
                      index |-> index, header |-> x]
      BY <2>2 DEF AnyProof, Input
    <3>2. PICK d \in 0..2, index \in Nat, rest \in Nat, p \in Seq(W) :
            probe' = [function |-> "proof", depth |-> d, proof |-> p, rest |-> rest,
                      index |-> index, header |-> x]
      BY <3>1
    <3>3. d \in Nat
      OBVIOUS
    <3>4. MerkleSound(Headers, d, p, rest, index, x)
      BY <3>3, MerkleExact
    <3> QED BY <3>2, <3>4
  <2>3. QED
    BY <2>1, <2>2, ProbeCases DEF Testing
<1>3. QED
  BY <1>1, <1>2, PTL DEF AnySpec

\* verifyCertRBNRecencyCheck accepts the documented window where its sum fits into a
\* uint64 and discards all of it where the sum wraps, for all block numbers and windows.
THEOREM RecencyAlwaysExact == AnySpec => []RecencyIsExact
<1>1. Init => RecencyIsExact
  BY DEF Init, Idle, RecencyIsExact, Testing
<1>2. RecencyIsExact /\ [AnyNext]_probe => RecencyIsExact'
  <2> SUFFICES ASSUME RecencyIsExact, [AnyNext]_probe, Testing("recency")'
               PROVE  RecencyWindow(probe'.rbn, probe'.ibn, probe'.window)
    BY DEF RecencyIsExact
  <2>1. CASE UNCHANGED probe
    BY <2>1 DEF RecencyIsExact, Testing
  <2>2. CASE AnyRecency
    BY <2>2, RecencyCheckExact DEF AnyRecency, Input
  <2>3. QED
    BY <2>1, <2>2, ProbeCases DEF Testing
<1>3. QED
  BY <1>1, <1>2, PTL DEF AnySpec

\* Every configuration that starts, in any world, is consistent.
THEOREM AlwaysStartsConsistently == AnySpec => []StartsConsistently
<1>1. Init => StartsConsistently
  BY DEF Init, Idle, StartsConsistently, Testing
<1>2. StartsConsistently /\ [AnyNext]_probe => StartsConsistently'
  <2> SUFFICES ASSUME StartsConsistently, [AnyNext]_probe, Testing("startup")'
               PROVE  ServingIsConsistent(probe'.config, probe'.world)
    BY DEF StartsConsistently
  <2>1. CASE UNCHANGED probe
    BY <2>1 DEF StartsConsistently, Testing
  <2>2. CASE AnyStart
    BY <2>2, ServingConsistent DEF AnyStart, Start, Input
  <2>3. QED
    BY <2>1, <2>2, ProbeCases DEF Testing
<1>3. QED
  BY <1>1, <1>2, PTL DEF AnySpec

\* No configuration that starts, on any chain, mixes the defaults of one network
\* with the chain of another.
THEOREM AlwaysStartsOnItsNetwork == AnySpec => []StartsOnItsNetwork
<1>1. Init => StartsOnItsNetwork
  BY DEF Init, Idle, StartsOnItsNetwork, Testing
<1>2. StartsOnItsNetwork /\ [AnyNext]_probe => StartsOnItsNetwork'
  <2> SUFFICES ASSUME StartsOnItsNetwork, [AnyNext]_probe, Testing("startup")'
               PROVE  DefaultsMatchChain(probe'.config, probe'.world)
    BY DEF StartsOnItsNetwork
  <2>1. CASE UNCHANGED probe
    BY <2>1 DEF StartsOnItsNetwork, Testing
  <2>2. CASE AnyStart
    BY <2>2, ServingOnItsNetwork DEF AnyStart, Start, Input
  <2>3. QED
    BY <2>1, <2>2, ProbeCases DEF Testing
<1>3. QED
  BY <1>1, <1>2, PTL DEF AnySpec
=============================================================================
