------------------------------- MODULE Startup -------------------------------
(***************************************************************************)
(* Start-up: the actions of the flags, ReadAppConfig, Check and            *)
(* BuildStoreManager (config, store/config.go, store/builder), as a        *)
(* function of the flags c and of the world w that the constructors meet:  *)
(* whether the services answer, the chain behind the RPC, what the         *)
(* verifier address is, and whether the other contracts are there.         *)
(*                                                                         *)
(* A flag that holds a name or an address is "" when it is not set and     *)
(* "own" when the operator gave a value; target and network names are kept.*)
(***************************************************************************)
EXTENDS Naturals, Sequences, FiniteSets

CONSTANTS
  SrsOrder,        \* points in the SRS files
  MaxCodingRatio   \* how much encoding stretches a blob

ASSUME StartupAssumption == SrsOrder \in Nat /\ MaxCodingRatio \in Nat \ {0}

BytesPerSymbol == 31
MaxAllowedBlobSize == (SrsOrder * BytesPerSymbol) \div MaxCodingRatio

-----------------------------------------------------------------------------
(* Names.                                                                  *)

Networks == {"holesky_testnet", "holesky_preprod", "sepolia_testnet"}

EigenDANetworksFromChainID(chain) ==
  CASE chain = 17000 -> {"holesky_testnet", "holesky_preprod"}
    [] chain = 11155111 -> {"sepolia_testnet"}
    [] OTHER -> {}

\* The names are compared without regard to case.  Those of the EigenDA backends are
\* known, although no target can be one.
StringToBackendType(name) ==
  CASE name \in {"s3", "S3"} -> "S3"
    [] name \in {"redis", "Redis"} -> "Redis"
    [] name \in {"eigenda", "eigenda_v2", "memory_v1", "memory_v2"} -> "EigenDA"
    [] OTHER -> "Unknown"

-----------------------------------------------------------------------------
(* The actions of flags, which run before any of them is read.             *)

\* Two epochs: deeper reads need an archive node.
EthHappyPathFinalizationDepthBlocks == 64

ValidateConfirmationFlag(c) ==
  \/ c.confirmation = "finalized"
  \/ c.confirmation = "number" /\ c.depth < EthHappyPathFinalizationDepthBlocks

\* The action of a flag or variable that was renamed or removed is an error, so that
\* none is silently ignored.
RunFlagActions(c) == ValidateConfirmationFlag(c) /\ ~c.deprecated

\* memstore.enabled turns cert verification off.
SetByActions(c) == [c EXCEPT !.verifyCerts = @ /\ ~c.memstore]

-----------------------------------------------------------------------------
(* ReadAppConfig.                                                          *)

\* "finalized" becomes depth 0 and a setting that NewCertVerifier drops.
ParseConfirmationFlag(c) == IF c.confirmation = "finalized" THEN 0 ELSE c.depth

ReadStoreConfig(c) ==
  c.enabled # {} /\ c.enabled \subseteq {"V1", "V2"} /\ c.dispersal \in {"V1", "V2"}

ParseMaxBlobLength(n) == 0 < n /\ n <= MaxAllowedBlobSize

ReadClientConfigV1(c) == ParseMaxBlobLength(c.maxBlobV1)

\* A flag, or what the network provides for it; "" if neither is there.
DefaultOf(given, network) == IF given # "" THEN given ELSE network

ReadDisperserCfg(c) == DefaultOf(c.disperser, c.network) \notin {"", "malformed"}

ReadClientConfigV2(c) ==
  /\ ReadDisperserCfg(c)
  /\ c.network \in Networks \cup {""}
  /\ ParseMaxBlobLength(c.maxBlobV2)
  /\ DefaultOf(c.svcManagerV2, c.network) # ""
  /\ DefaultOf(c.blsRetriever, c.network) # ""

ReadConfig(c) ==
  /\ ReadStoreConfig(c)
  /\ "V1" \in c.enabled => ReadClientConfigV1(c)
  /\ "V2" \in c.enabled => ReadClientConfigV2(c)

\* ReadKzgConfig: a point per 32 bytes, for the dispersal backend only.
SRSNumberToLoad(c) ==
  (IF c.dispersal = "V1" THEN c.maxBlobV1 ELSE c.maxBlobV2) \div 32

-----------------------------------------------------------------------------
(* Check.                                                                  *)

CheckV1Config(c) ==
  IF c.memstore THEN ~c.verifyCerts
  ELSE c.svcManagerV1 # "" /\ c.ethRPCV1 # "" /\ c.disperserRPC # ""

\* "noport" is an address with an empty port.
CheckClientConfigV2(c) ==
  c.disperser # "noport" /\ c.certVerifier # "" /\ c.putTriesV2 # 0

CheckSecretConfig(c) == c.signerKey # "" /\ c.ethRPCV2 # ""

CheckTargets(targets) ==
  /\ Cardinality({targets[i] : i \in DOMAIN targets}) = Len(targets)
  /\ \A i \in DOMAIN targets : StringToBackendType(targets[i]) # "Unknown"

CheckStoreConfig(c) ==
  /\ CheckTargets(c.fallbacks) /\ CheckTargets(c.caches)
  /\ \A i \in DOMAIN c.fallbacks, j \in DOMAIN c.caches : c.fallbacks[i] # c.caches[j]
  /\ c.workers < 100

Check(c) ==
  /\ "V1" \in c.enabled => CheckV1Config(c)
  /\ "V2" \in c.enabled /\ ~c.memstore => CheckClientConfigV2(c) /\ CheckSecretConfig(c)
  /\ c.s3Endpoint # "" =>
       /\ c.s3Credentials # "unknown"
       /\ c.s3Credentials = "static" => c.s3Keys # ""
  /\ c.redisPassword # "" => c.redis # ""
  /\ CheckStoreConfig(c)

-----------------------------------------------------------------------------
(* BuildStoreManager.                                                      *)

\* NewCertVerifier looks at the depth again, and reads the quorum parameters from
\* the service manager.
NewCertVerifier(c, w) ==
  /\ ParseConfirmationFlag(c) < EthHappyPathFinalizationDepthBlocks
  /\ w.ethereum /\ w.contracts

BuildEigenDAV1Backend(c, w) ==
  /\ c.verifyCerts => NewCertVerifier(c, w)
  /\ ~c.memstore => w.disperser /\ c.putTriesV1 # 0

\* Mutant: the chain is not compared with the network.
BuildEthClientAnyChain(c, w) == w.ethereum

BuildEthClient(c, w) ==
  w.ethereum /\ (c.network # "" => c.network \in EigenDANetworksFromChainID(w.chain))

\* Not a flag: relays are asked first, validators if they fail.
RetrieversToEnable == <<"relay", "validator">>

\* The relay registry and the addresses behind the service manager are read
\* from contracts.
BuildEthReader(w) == w.contracts
BuildRelayPayloadRetriever(w) == w.contracts
BuildValidatorPayloadRetriever(w) == BuildEthReader(w)

BuildRetriever(type, w) ==
  \/ type = "relay" /\ BuildRelayPayloadRetriever(w)
  \/ type = "validator" /\ BuildValidatorPayloadRetriever(w)

\* The balance of the signer's account is looked at and logged only.
BuildLocalSigner(c) == c.signerKey # "malformed"

BuildPayloadDisperser(c, w) == BuildLocalSigner(c) /\ w.disperser /\ w.contracts

\* A call that reverts tells an immutable verifier from a router; a call that
\* fails otherwise is an error.
IsRouterOrImmutable(w) == w.verifier \in {"router", "reverts"}

BuildEigenDAV2Backend(c, w) ==
  \/ c.memstore
  \/ /\ BuildEthClient(c, w)
     /\ IsRouterOrImmutable(w)
     /\ BuildEthReader(w)
     /\ RetrieversToEnable # <<>>
     /\ \A i \in DOMAIN RetrieversToEnable : BuildRetriever(RetrieversToEnable[i], w)
     /\ BuildPayloadDisperser(c, w)

\* Mutant: the dispersal backend need not be enabled.
BuildStoresAnyDispersal(c, w) ==
  /\ w.srs
  /\ "V1" \in c.enabled => BuildEigenDAV1Backend(c, w)
  /\ "V2" \in c.enabled => BuildEigenDAV2Backend(c, w)

BuildStores(c, w) ==
  /\ c.s3Bucket # "" => w.s3
  /\ c.redis # "" => w.redis
  /\ c.dispersal \in c.enabled
  /\ w.srs
  /\ "V1" \in c.enabled => BuildEigenDAV1Backend(c, w)
  /\ "V2" \in c.enabled => BuildEigenDAV2Backend(c, w)

\* buildSecondaries gets the S3 store, a pointer, as an interface value: a nil
\* pointer in it is not the nil interface, and its check for nil never fails.
Panics(c, targets) ==
  \E i \in DOMAIN targets :
    \/ StringToBackendType(targets[i]) \notin {"S3", "Redis"}
    \/ StringToBackendType(targets[i]) = "Redis" /\ c.redis = ""

BuildSecondaries(c, targets) ==
  [i \in DOMAIN targets |->
     LET type == StringToBackendType(targets[i])
     IN [type |-> type,
         isNil |-> IF type = "S3" THEN c.s3Bucket = "" ELSE c.redis = ""]]

Refused(outcome) == [outcome |-> outcome]

\* The manager that a proxy serves with, or why there is none.
BuildStoreManager(c, w) ==
  IF ~BuildStores(c, w) THEN Refused("error")
  ELSE IF Panics(c, c.fallbacks) \/ Panics(c, c.caches) THEN Refused("panic")
  ELSE [outcome |-> "serving",
        stores |-> c.enabled,
        dispersal |-> c.dispersal,
        inMemory |-> c.memstore,
        verifiesV1 |-> "V1" \in c.enabled /\ c.verifyCerts,
        depth |-> ParseConfirmationFlag(c),
        disperser |-> DefaultOf(c.disperser, c.network),
        svcManager |-> DefaultOf(c.svcManagerV2, c.network),
        blsRetriever |-> DefaultOf(c.blsRetriever, c.network),
        router |-> w.verifier = "router",
        srs |-> SRSNumberToLoad(c),
        fallbacks |-> BuildSecondaries(c, c.fallbacks),
        caches |-> BuildSecondaries(c, c.caches),
        workers |-> IF c.fallbacks \o c.caches = <<>> THEN 0 ELSE c.workers]

StartProxySvr(c, w) ==
  LET f == SetByActions(c)
  IN IF RunFlagActions(c) /\ ReadConfig(f) /\ Check(f) THEN BuildStoreManager(f, w)
                                                     ELSE Refused("error")

-----------------------------------------------------------------------------
(* Properties.                                                             *)

\* A serving proxy is consistent: the dispersal backend has a store, a store in
\* memory, whose certs no chain knows, is never combined with verification
\* against the chain, verification reads no block that only archive nodes have,
\* and an encoded blob of the largest size fits into the SRS.
ServingIsConsistent(c, w) ==
  LET m == StartProxySvr(c, w)
  IN m.outcome = "serving" =>
       /\ m.dispersal \in m.stores
       /\ ~(m.inMemory /\ m.verifiesV1)
       /\ m.verifiesV1 => m.depth < EthHappyPathFinalizationDepthBlocks
       /\ m.srs * MaxCodingRatio <= SrsOrder

\* What a V2 store took from the defaults of a network belongs to the chain it
\* talks to; the flags and the chain are compared in different functions.
DefaultsMatchChain(c, w) ==
  LET m == StartProxySvr(c, w)
  IN m.outcome = "serving" /\ "V2" \in m.stores /\ ~m.inMemory =>
       \A a \in {m.disperser, m.svcManager, m.blsRetriever} :
         a = "own" \/ a \in EigenDANetworksFromChainID(w.chain)

\* "S3 backend not configured" and "Redis backend not configured" stop the
\* start-up: every target of a serving proxy is a store that was built.
TargetsConfigured(c, w) ==
  LET m == StartProxySvr(c, w)
  IN m.outcome = "serving" =>
       \A targets \in {m.fallbacks, m.caches} :
         \A i \in DOMAIN targets : ~targets[i].isNil
=============================================================================
