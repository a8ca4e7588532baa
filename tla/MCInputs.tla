------------------------------ MODULE MCInputs ------------------------------
(***************************************************************************)
(* The pure functions of the proxy over bounded inputs: a behaviour picks  *)
(* a function and an input and goes back for the next one.                 *)
(***************************************************************************)
EXTENDS Commitments, CertChecks, Startup, SequencesExt

CONSTANT MaxBlock       \* bound: block numbers and windows

VARIABLE probe          \* the function under test and its input

Idle == [function |-> "none"]
Init == probe = Idle
Input(i) == probe' = i
Return == probe # Idle /\ probe' = Idle

\* Bytes around the prefixes and versions that are told apart.
SomeBytes == 0..3

PickEncode ==
  /\ probe = Idle
  /\ \E m \in Modes, v \in VersionBytes, c \in SeqOf(SomeBytes, 3) :
       Input([function |-> "encode", mode |-> m, version |-> v, cert |-> c])

PickRoute ==
  /\ probe = Idle
  /\ \E r \in [standard : BOOLEAN, bytes : SeqOf(SomeBytes, 4), tail : Tails] :
       Input([function |-> "route", request |-> r])

\* Two quorums, two percentages, and required quorums with and without threshold.
PickQuorums ==
  /\ probe = Idle
  /\ \E ps \in SeqOf([quorum : {0, 1}, adversary : {1, 2}, confirmation : {1, 2}], 2),
        bs \in SeqOf([quorum : {0, 1}, signed : {1, 2}], 2),
        ts \in SeqOf({1, 2}, 2), req \in SUBSET {0, 1}, ex \in BOOLEAN :
       Input([function |-> "quorums", params |-> ps, batch |-> bs, thresholds |-> ts,
              required |-> req, exception |-> ex])

Headers == <<"a", "b", "c", "d">>

\* The nodes of the tree and a leaf that is not in it.
Words(d) ==
  LET t == Tree(Headers, d)
  IN UNION {{t[h][i] : i \in DOMAIN t[h]} : h \in 0..d} \cup {HashEncodeBlobHeader("e")}

PickProof ==
  /\ probe = Idle
  /\ \E d \in 0..2, index \in 0..7, rest \in {0, 1},
        x \in {"a", "b", "c", "d", "e"} :
       \E p \in SeqOf(Words(d), d + 1) :
         Input([function |-> "proof", depth |-> d, proof |-> p, rest |-> rest,
                index |-> index, header |-> x])

PickRecency ==
  /\ probe = Idle
  /\ \E rbn, ibn, win \in 0..MaxBlock :
       Input([function |-> "recency", rbn |-> rbn, ibn |-> ibn, window |-> win])

SomeConfig ==
  [enabled |-> {"V1", "V2"}, dispersal |-> "V1", workers |-> 1,
   fallbacks |-> <<>>, caches |-> <<>>, memstore |-> FALSE, verifyCerts |-> TRUE,
   confirmation |-> "number", depth |-> 8, deprecated |-> FALSE,
   maxBlobV1 |-> 32, maxBlobV2 |-> 64, putTriesV1 |-> 3, putTriesV2 |-> 3,
   svcManagerV1 |-> "own", ethRPCV1 |-> "own", disperserRPC |-> "own",
   network |-> "", disperser |-> "own", svcManagerV2 |-> "own", blsRetriever |-> "own",
   certVerifier |-> "own", signerKey |-> "own", ethRPCV2 |-> "own",
   s3Bucket |-> "", s3Endpoint |-> "", s3Credentials |-> "unknown", s3Keys |-> "",
   redis |-> "", redisPassword |-> ""]

SomeWorld ==
  [s3 |-> TRUE, redis |-> TRUE, ethereum |-> TRUE, disperser |-> TRUE, srs |-> TRUE,
   contracts |-> TRUE, chain |-> 1, verifier |-> "router"]

Flag == {"", "own"}

Start(c, w) == Input([function |-> "startup", config |-> c, world |-> w])

\* Which backends are enabled, how large their blobs are, and the V1 flags.
PickBackends ==
  /\ probe = Idle
  /\ \E e \in SUBSET {"V1", "V2", "V3"}, d \in {"V1", "V2", "V3"}, m, v, up, there \in BOOLEAN,
        b1, b2 \in {0, 32, MaxAllowedBlobSize, MaxAllowedBlobSize + 1}, rpc \in Flag,
        t \in {-1, 0, 3} :
       Start([SomeConfig EXCEPT !.enabled = e, !.dispersal = d, !.memstore = m,
                !.verifyCerts = v, !.maxBlobV1 = b1, !.maxBlobV2 = b2, !.ethRPCV1 = rpc,
                !.putTriesV1 = t, !.putTriesV2 = t],
             [SomeWorld EXCEPT !.ethereum = up, !.contracts = there])

\* Which targets are named, and which secondary stores are configured.
PickTargets ==
  /\ probe = Idle
  /\ \E fs, cs \in SeqOf({"s3", "S3", "redis", "eigenda", "memory_v2", "other"}, 2),
        bucket, redis, password \in Flag, n \in {-1, 1, 99, 100} :
       Start([SomeConfig EXCEPT !.fallbacks = fs, !.caches = cs, !.s3Bucket = bucket,
                !.redis = redis, !.redisPassword = password, !.workers = n],
             SomeWorld)

\* The S3 and Redis services and their credentials, the confirmation depth, and a
\* flag that was renamed.
PickServices ==
  /\ probe = Idle
  /\ \E up, down \in BOOLEAN, ep, keys \in Flag,
        cred \in {"static", "iam", "public", "unknown"},
        conf \in {"finalized", "number", "malformed"}, depth \in {0, 63, 64},
        old \in BOOLEAN :
       Start([SomeConfig EXCEPT !.caches = <<"s3">>, !.fallbacks = <<"redis">>,
                !.s3Bucket = "own", !.s3Endpoint = ep, !.s3Credentials = cred,
                !.s3Keys = keys, !.redis = "own", !.confirmation = conf, !.depth = depth,
                !.deprecated = old],
             [SomeWorld EXCEPT !.s3 = up, !.redis = down])

\* The V2 flags, the network and the chain behind the RPC.
PickNetwork ==
  /\ probe = Idle
  /\ \E n \in Networks \cup {"", "other"}, dis \in {"", "own", "noport", "malformed"},
        svc, bls, ver \in Flag, key \in {"", "own", "malformed"},
        chain \in {1, 17000, 11155111}, kind \in {"router", "reverts", "fails"},
        m, there \in BOOLEAN :
       Start([SomeConfig EXCEPT !.enabled = {"V2"}, !.dispersal = "V2", !.network = n,
                !.disperser = dis, !.svcManagerV2 = svc, !.blsRetriever = bls,
                !.certVerifier = ver, !.signerKey = key, !.memstore = m],
             [SomeWorld EXCEPT !.chain = chain, !.verifier = kind, !.contracts = there])

Next ==
  \/ PickEncode \/ PickRoute
  \/ PickQuorums \/ PickProof \/ PickRecency
  \/ PickBackends \/ PickTargets \/ PickServices \/ PickNetwork
  \/ Return

Spec == Init /\ [][Next]_probe

-----------------------------------------------------------------------------
(* Properties: each function on the input at hand.                         *)

Testing(f) == probe.function = f

\* A GET looks up the very cert that a POST of the same mode encoded.
CommitmentRoundTrip == Testing("encode") => RoundTrip(probe.mode, probe.version, probe.cert)

\* A GET looks up exactly the well-formed commitments of its own mode, whatever the
\* layer byte of a generic one.
RoutesAreExact == Testing("route") => OnlyCommitments(probe.request)

\* A GET never looks up a generic commitment of another DA layer.
LayersAreRefused == Testing("route") => OnlyOurLayer(probe.request)

\* Certs that verifySecurityParams accepts are signed by enough stake.
AcceptedHasMargin ==
  Testing("quorums") =>
    SecurityMargin(probe.params, probe.batch, probe.thresholds, probe.required,
                   probe.exception)

\* verifyMerkleProof accepts exactly the headers of the batch, each at its place.
ProofsAreExact ==
  Testing("proof") =>
    MerkleSound(Headers, probe.depth, probe.proof, probe.rest, probe.index, probe.header)

\* verifyCertRBNRecencyCheck accepts the documented window where its sum fits into a
\* uint64, and discards all of it as stale where the sum wraps.
RecencyIsExact == Testing("recency") => RecencyWindow(probe.rbn, probe.ibn, probe.window)

\* A configuration that starts is consistent.
StartsConsistently ==
  Testing("startup") => ServingIsConsistent(probe.config, probe.world)

\* A V2 store never mixes the defaults of one network with the chain of another.
StartsOnItsNetwork ==
  Testing("startup") => DefaultsMatchChain(probe.config, probe.world)

\* No proxy starts with a target whose store was not built.
StartsWithItsTargets ==
  Testing("startup") => TargetsConfigured(probe.config, probe.world)
=============================================================================
