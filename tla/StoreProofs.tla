----------------------------- MODULE StoreProofs -----------------------------
(***************************************************************************)
(* The calls into the EigenDA stores and the S3 bucket, for every number   *)
(* of concurrent calls, batches, values, retries and retrievers and every  *)
(* chain: verification keeps its verdicts final inside the stores, a       *)
(* failover is the last resort and reaches the client if the retries fit   *)
(* into WriteTimeout, keccak pairs hold, and the whole implements the      *)
(* contract that Manager relies on.                                        *)
(***************************************************************************)
EXTENDS StoreCalls, CertVerifierProofs

USE EigenDAStoreAssumption, S3BucketAssumption, StoreCallsAssumption

-----------------------------------------------------------------------------
(* The steps of CertVerifier inside the calls.                             *)

\* A step of a store is a step of its verifier or leaves it alone.
LEMMA StoreStepVerifies ==
  ASSUME NEW v \in Calls, StoreStep(v)
  PROVE  \/ \E b \in Batches, n \in 1..MaxHead, s \in BOOLEAN : Start(v, b, n, s)
         \/ UNCHANGED vars
<1>1. CASE \E e \in AttemptErrors, d \in Durations(v) : AttemptFails(v, e, d)
  BY <1>1 DEF AttemptFails
<1>2. CASE \E d \in Durations(v), b \in Batches, n \in 1..MaxHead, s \in BOOLEAN :
             AttemptSucceedsV1(v, d, b, n, s)
  BY <1>2 DEF AttemptSucceedsV1
<1>3. CASE \E d \in Durations(v) : AttemptSucceedsV2(v, d)
  BY <1>3 DEF AttemptSucceedsV2
<1>4. CASE \E b \in Batches, n \in 1..MaxHead, s \in BOOLEAN : RetrieveV1(v, b, n, s)
  BY <1>4 DEF RetrieveV1
<1>5. CASE RetrieveV2(v)
  BY <1>5 DEF RetrieveV2
<1>6. CASE Verified(v)
  BY <1>6 DEF Verified
<1>7. QED
  BY <1>1, <1>2, <1>3, <1>4, <1>5, <1>6 DEF StoreStep

\* A request arrives without a step of the verifier.
LEMMA RequestKeepsVerifier ==
  ASSUME NEW v \in Calls, Request(v)
  PROVE  UNCHANGED vars
BY DEF Request, Put, GetFrom, PutOPKeccakPairInS3, GetOPKeccakValueFromS3

\* Every step of the calls is a step of CertVerifier or leaves it alone.
LEMMA StepRefinesVerifier == [SNext]_allVars => [Next]_vars
<1> SUFFICES ASSUME [SNext]_allVars PROVE [Next]_vars
  OBVIOUS
<1>1. CASE \E v \in Calls : Step(v)
  <2>1. PICK v \in Calls : Step(v)
    BY <1>1
  <2>2. CASE StoreStep(v)
    BY <2>2, StoreStepVerifies DEF Next
  <2>3. CASE CallStep(v)
    BY <2>3 DEF Next
  <2>4. CASE WritePair(v) \/ ReadPair(v)
    BY <2>4 DEF WritePair, ReadPair
  <2>5. QED
    BY <2>1, <2>2, <2>3, <2>4 DEF Step
<1>2. CASE Environment
  BY <1>2, RequestKeepsVerifier DEF Environment, Next, Disconnect
<1>3. CASE UNCHANGED allVars
  BY <1>3 DEF allVars
<1>4. QED
  BY <1>1, <1>2, <1>3 DEF SNext

\* The calls of the stores run CertVerifier and nothing else on its state.
THEOREM StoresRunVerifier == SSpec => Spec
<1>1. SInit => Init
  BY DEF SInit
<1>2. QED
  BY <1>1, StepRefinesVerifier, PTL DEF SSpec, Spec

\* VerifyCert's verdicts are final when Put and Get of the V1 store make its
\* calls, whatever the other calls do.
THEOREM StoresFinality ==
  ASSUME EthConfirmationDepth >= ReorgDepth
  PROVE  SSpec => []Finality
<1>1. SSpec => [](TypeOK /\ Finality)
  BY StoresRunVerifier, FinalityInvariant, PTL
<1>2. QED
  BY <1>1, PTL

-----------------------------------------------------------------------------
(* The calls.                                                              *)

CallTyped ==
  /\ job \in [Calls -> Jobs \cup {"putPair", "getPair"}]
  /\ backend \in [Calls -> Backends \cup {"none"}]
  /\ stage \in [Calls -> Stages \cup {"pairPut", "pairGet"}]
  /\ used \in [Calls -> Nat]
  /\ result \in [Calls -> Results \cup {"mismatch", "notFound"}]
  /\ gone \in [Calls -> BOOLEAN]
  /\ elapsed \in [Calls -> 0..Late]

\* Where a call can be, and what it has spent there.
InBudget ==
  \A v \in Calls :
    /\ stage[v] = "disperse" =>
         /\ job[v] = "put" /\ backend[v] \in Backends
         /\ PutTries[backend[v]] > 0 => used[v] < PutTries[backend[v]]
    /\ stage[v] \in {"verify", "retrieve"} => job[v] \in {"put", "get"}
    /\ stage[v] = "returned" /\ result[v] = "failover" =>
         /\ job[v] = "put" /\ backend[v] \in Backends
         /\ PutTries[backend[v]] > 0 /\ used[v] = PutTries[backend[v]]

CallInv == CallTyped /\ InBudget

\* Time passes in natural numbers and is capped.
LEMMA SpendTyped ==
  ASSUME CallTyped, NEW v \in Calls, NEW d \in Durations(v), Spend(v, d)
  PROVE  elapsed' \in [Calls -> 0..Late]
<1>1. d \in Nat
  BY DEF Durations, Backends
<1>2. Late \in Nat
  BY DEF Late
<1>3. QED
  BY <1>1, <1>2 DEF Spend, CallTyped

\* A request starts with nothing spent.
LEMMA RequestCalls ==
  ASSUME CallInv, NEW v \in Calls, Request(v)
  PROVE  CallInv'
<1> USE DEF CallInv, CallTyped, Begin, Jobs, Stages, Results, Backends
<1>0. 0 \in 0..Late
  BY DEF Late
<1>1. ASSUME NEW b \in Backends, Put(v, b) PROVE CallInv'
  <2>1. CallTyped'
    <3>1. PICK e \in {"none", "oversized", "internal"}, t \in {"disperse", "returned"} :
            Begin(v, "put", b, t) /\ result' = [result EXCEPT ![v] = e]
      BY <1>1 DEF Put
    <3>2. QED
      BY <1>0, <1>1, <3>1
  <2>2. InBudget'
    BY <1>1 DEF Put, InBudget
  <2>3. QED
    BY <2>1, <2>2
<1>2. ASSUME NEW b \in Backends, GetFrom(v, b) PROVE CallInv'
  <2>1. CallTyped'
    BY <1>0, <1>2 DEF GetFrom
  <2>2. InBudget'
    BY <1>2 DEF GetFrom, InBudget
  <2>3. QED
    BY <2>1, <2>2
<1>3. ASSUME NEW k \in Values, NEW x \in Values, PutOPKeccakPairInS3(v, k, x) PROVE CallInv'
  <2>1. CallTyped'
    BY <1>0, <1>3 DEF PutOPKeccakPairInS3
  <2>2. InBudget'
    BY <1>3 DEF PutOPKeccakPairInS3, InBudget
  <2>3. QED
    BY <2>1, <2>2
<1>4. ASSUME NEW k \in Values, GetOPKeccakValueFromS3(v, k) PROVE CallInv'
  <2>1. CallTyped'
    BY <1>0, <1>4 DEF GetOPKeccakValueFromS3
  <2>2. InBudget'
    BY <1>4 DEF GetOPKeccakValueFromS3, InBudget
  <2>3. QED
    BY <2>1, <2>2
<1>5. QED
  BY <1>1, <1>2, <1>3, <1>4 DEF Request

\* An attempt is counted, and the last one is recognised.
LEMMA StoreStepCalls ==
  ASSUME CallInv, NEW v \in Calls, StoreStep(v)
  PROVE  CallInv'
<1> USE DEF CallInv, CallTyped, Proceed, Return, Jobs, Stages, Results, Backends
<1>1. ASSUME NEW e \in AttemptErrors, NEW d \in Durations(v), AttemptFails(v, e, d)
      PROVE  CallInv'
  <2>1. elapsed' \in [Calls -> 0..Late]
    BY <1>1, SpendTyped DEF AttemptFails
  <2>2. ResultOf(e) \in Results /\ (ResultOf(e) = "failover" => e = "failover")
    BY DEF ResultOf, AttemptErrors
  <2>3. backend[v] \in Backends /\ PutTries[backend[v]] \in Int \ {0} /\ used[v] \in Nat
    BY <1>1 DEF AttemptFails, InBudget
  <2>4. used' \in [Calls -> Nat]
    BY <1>1, <2>3 DEF AttemptFails, Count
  <2>5. CallTyped'
    BY <1>1, <2>1, <2>2, <2>4 DEF AttemptFails
  <2>6. Retryable(e) /\ ~LastAttempt(v) /\ PutTries[backend[v]] > 0
          => used'[v] < PutTries[backend[v]]
    BY <1>1, <2>3 DEF AttemptFails, Count, LastAttempt, ConvertToRetryGoAttempts, InBudget
  <2>7. ~(Retryable(e) /\ ~LastAttempt(v)) /\ ResultOf(e) = "failover"
          => PutTries[backend[v]] > 0 /\ used'[v] = PutTries[backend[v]]
    BY <1>1, <2>2, <2>3 DEF AttemptFails, Count, LastAttempt, ConvertToRetryGoAttempts, Retryable
  <2>8. \A w \in Calls \ {v} : used'[w] = used[w]
    BY <1>1 DEF AttemptFails, Count
  <2>9. InBudget'
    BY <1>1, <2>3, <2>6, <2>7, <2>8 DEF AttemptFails, InBudget
  <2>10. QED
    BY <2>5, <2>9
<1>2. ASSUME NEW d \in Durations(v), NEW b \in Batches, NEW n \in 1..MaxHead,
             NEW s \in BOOLEAN, AttemptSucceedsV1(v, d, b, n, s)
      PROVE  CallInv'
  <2>1. elapsed' \in [Calls -> 0..Late]
    BY <1>2, SpendTyped DEF AttemptSucceedsV1
  <2>2. used' \in [Calls -> Nat] /\ \A w \in Calls \ {v} : used'[w] = used[w]
    BY <1>2 DEF AttemptSucceedsV1, Count
  <2>3. CallTyped'
    BY <1>2, <2>1, <2>2 DEF AttemptSucceedsV1
  <2>4. InBudget'
    BY <1>2, <2>2 DEF AttemptSucceedsV1, InBudget
  <2>5. QED
    BY <2>3, <2>4
<1>3. ASSUME NEW d \in Durations(v), AttemptSucceedsV2(v, d)
      PROVE  CallInv'
  <2>1. elapsed' \in [Calls -> 0..Late]
    BY <1>3, SpendTyped DEF AttemptSucceedsV2
  <2>2. used' \in [Calls -> Nat] /\ \A w \in Calls \ {v} : used'[w] = used[w]
    BY <1>3 DEF AttemptSucceedsV2, Count
  <2>3. CallTyped'
    <3>1. PICK e \in {"ok", "internal"} : Proceed(v, "returned", e)
      BY <1>3 DEF AttemptSucceedsV2
    <3>2. QED
      BY <2>1, <2>2, <3>1
  <2>4. InBudget'
    BY <1>3, <2>2 DEF AttemptSucceedsV2, InBudget
  <2>5. QED
    BY <2>3, <2>4
<1>4. ASSUME NEW b \in Batches, NEW n \in 1..MaxHead, NEW s \in BOOLEAN,
             RetrieveV1(v, b, n, s)
      PROVE  CallInv'
  BY <1>4 DEF RetrieveV1, InBudget
<1>5. CASE RetrieveV2(v)
  BY <1>5 DEF RetrieveV2, InBudget
<1>6. CASE Verified(v)
  BY <1>6 DEF Verified, InBudget
<1>7. QED
  BY <1>1, <1>2, <1>3, <1>4, <1>5, <1>6 DEF StoreStep

\* The other steps.
LEMMA OtherStepsCalls ==
  ASSUME CallInv,
         \/ \E v \in Calls : WritePair(v) \/ ReadPair(v) \/ Disconnect(v)
         \/ UNCHANGED callVars
  PROVE  CallInv'
<1> USE DEF CallInv, CallTyped, Proceed, Return, Jobs, Stages, Results, Backends
<1>1. ASSUME NEW v \in Calls, WritePair(v) PROVE CallInv'
  BY <1>1 DEF WritePair, InBudget
<1>2. ASSUME NEW v \in Calls, ReadPair(v) PROVE CallInv'
  BY <1>2 DEF ReadPair, InBudget
<1>3. ASSUME NEW v \in Calls, Disconnect(v) PROVE CallInv'
  BY <1>3 DEF Disconnect, InBudget
<1>4. CASE UNCHANGED callVars
  BY <1>4 DEF callVars, InBudget
<1>5. QED
  BY <1>1, <1>2, <1>3, <1>4

\* The state of the calls is inductive on its own.
LEMMA CallsInvariant == SSpec => []CallInv
<1>1. SInit => CallInv
  BY DEF SInit, InitCalls, CallInv, CallTyped, InBudget, Jobs, Stages, Results, Backends, Late
<1>2. CallInv /\ [SNext]_allVars => CallInv'
  <2> SUFFICES ASSUME CallInv, [SNext]_allVars PROVE CallInv'
    OBVIOUS
  <2>1. CASE \E v \in Calls : Step(v)
    BY <2>1, StoreStepCalls, OtherStepsCalls DEF Step
  <2>2. CASE Environment
    BY <2>2, RequestCalls, OtherStepsCalls DEF Environment
  <2>3. CASE UNCHANGED allVars
    BY <2>3, OtherStepsCalls DEF allVars
  <2>4. QED
    BY <2>1, <2>2, <2>3 DEF SNext
<1>3. QED
  BY <1>1, <1>2, PTL DEF SSpec

\* "eigenda is temporarily down": the batcher is told to fail over only when
\* every dispersal that PutTries allows has failed.
THEOREM FailoverLastResort == SSpec => []FailoverIsLastResort
<1>1. CallInv => FailoverIsLastResort
  BY DEF CallInv, InBudget, FailoverIsLastResort, ErrServiceUnavailable, Delivered
<1>2. QED
  BY <1>1, CallsInvariant, PTL

-----------------------------------------------------------------------------
(* Pairs in the bucket.                                                    *)

PairTyped ==
  /\ bucket \in [Values -> Values \cup {NoObject}]
  /\ late \subseteq Values \X Values
  /\ routes \in RouteMixes
  /\ key \in [Calls -> Values \cup {NoObject}]
  /\ value \in [Calls -> Values \cup {NoObject}]
  /\ posted \subseteq Values

\* A pair on its way to the bucket was verified; a write that is still to come
\* is that of a verified pair or of a backup.
WritesVerified ==
  /\ \A v \in Calls :
       /\ stage[v] \in {"pairPut", "pairGet"} => key[v] \in Values
       /\ stage[v] = "pairPut" => value[v] = key[v]
  /\ \A k \in Values, x \in Values : <<k, x>> \in late => k = x \/ k \in BackedUp

PairInv == PairTyped /\ WritesVerified /\ KeccakPairsHold

\* An object is written, or the write fails: pairs hold if the object is a
\* verified pair or a backup.
LEMMA WriteHolds ==
  ASSUME PairInv, NEW k \in Values, NEW x \in Values, k = x \/ k \in BackedUp,
         PutObject(k, x) \/ PutObjectFails(k, x)
  PROVE  /\ bucket' \in [Values -> Values \cup {NoObject}]
         /\ late' \subseteq Values \X Values
         /\ \A y \in posted \ BackedUp : bucket'[y] = y
         /\ \A j \in Values, y \in Values : <<j, y>> \in late' => j = y \/ j \in BackedUp
         /\ PutObject(k, x) => bucket'[k] = x
<1> USE DEF PairInv, PairTyped, WritesVerified, KeccakPairsHold
<1>1. CASE PutObject(k, x)
  BY <1>1 DEF PutObject
<1>2. CASE late' = late \cup {<<k, x>>} /\ UNCHANGED bucket
  BY <1>2 DEF PutObject
<1>3. CASE UNCHANGED <<bucket, late>>
  BY <1>3 DEF PutObject
<1>4. QED
  BY <1>1, <1>2, <1>3 DEF PutObjectFails, bucketVars

\* Requests for pairs: the key of a POST is verified first.
LEMMA RequestPairs ==
  ASSUME CallTyped, PairInv, NEW v \in Calls, Request(v)
  PROVE  PairInv'
<1> USE DEF CallTyped, PairInv, PairTyped, WritesVerified, KeccakPairsHold, Arguments, Begin,
            bucketVars
<1>1. ASSUME NEW k \in Values, NEW x \in Values, PutOPKeccakPairInS3(v, k, x) PROVE PairInv'
  BY <1>1 DEF PutOPKeccakPairInS3, Verify
<1>2. ASSUME NEW k \in Values, GetOPKeccakValueFromS3(v, k) PROVE PairInv'
  BY <1>2 DEF GetOPKeccakValueFromS3
<1>3. ASSUME NEW b \in Backends, Put(v, b) \/ GetFrom(v, b),
             Arguments(v, NoObject, NoObject), FramePairs
      PROVE  PairInv'
  BY <1>3 DEF Put, GetFrom, FramePairs
<1>4. QED
  BY <1>1, <1>2, <1>3 DEF Request

\* The steps of a call: only a pair that was written is acknowledged.
LEMMA StepPairs ==
  ASSUME CallTyped, PairInv, NEW v \in Calls, Step(v)
  PROVE  PairInv'
<1> USE DEF CallTyped, PairInv, PairTyped, WritesVerified, KeccakPairsHold, bucketVars
<1>1. CASE WritePair(v)
  <2>1. key[v] \in Values /\ value[v] = key[v]
    BY <1>1 DEF WritePair
  <2>2. PutObject(key[v], value[v]) \/ PutObjectFails(key[v], value[v])
    BY <1>1 DEF WritePair
  <2>3. /\ bucket' \in [Values -> Values \cup {NoObject}]
        /\ late' \subseteq Values \X Values
        /\ \A y \in posted \ BackedUp : bucket'[y] = y
        /\ \A j \in Values, y \in Values : <<j, y>> \in late' => j = y \/ j \in BackedUp
        /\ PutObject(key[v], value[v]) => bucket'[key[v]] = value[v]
    <3> HIDE DEF PairInv
    <3>1. QED
      BY <2>1, <2>2, WriteHolds
  <2>4. \/ PutObject(key[v], value[v]) /\ posted' = posted \cup {key[v]}
        \/ UNCHANGED posted
    BY <1>1 DEF WritePair
  <2>5. \A w \in Calls : stage'[w] \in {"pairPut", "pairGet"} => stage'[w] = stage[w]
    BY <1>1 DEF WritePair, Return, Proceed
  <2>6. UNCHANGED <<routes, key, value>>
    BY <1>1 DEF WritePair
  <2>7. QED
    BY <2>1, <2>3, <2>4, <2>5, <2>6
<1>2. CASE ReadPair(v)
  BY <1>2 DEF ReadPair, Return, Proceed
<1>3. CASE StoreStep(v) /\ FramePairs /\ UNCHANGED <<key, value>>
  <2>1. \A w \in Calls : stage'[w] \in {"pairPut", "pairGet"} => stage'[w] = stage[w]
    BY <1>3 DEF StoreStep, AttemptFails, AttemptSucceedsV1, AttemptSucceedsV2, RetrieveV1,
                RetrieveV2, Verified, Return, Proceed
  <2>2. QED
    BY <1>3, <2>1 DEF FramePairs
<1>4. CASE CallStep(v) /\ UNCHANGED callVars /\ FramePairs /\ UNCHANGED <<key, value>>
  BY <1>4 DEF FramePairs, callVars
<1>5. QED
  BY <1>1, <1>2, <1>3, <1>4 DEF Step

\* The chain, backups, late writes and clients that leave.
LEMMA EnvironmentPairs ==
  ASSUME CallTyped, PairInv, Environment
  PROVE  PairInv'
<1> USE DEF CallTyped, PairInv, PairTyped, WritesVerified, KeccakPairsHold, callVars, pairVars,
            bucketVars
<1>1. CASE (Mine \/ \E h \in Blocks : Reorg(h))
           /\ UNCHANGED <<callVars, bucketVars, routes, pairVars>>
  BY <1>1
<1>2. ASSUME NEW c \in BackedUp, Backup(c), UNCHANGED <<callVars, routes, pairVars>>
      PROVE  PairInv'
  <2>1. c \in Values /\ PayloadOf[c] \in Values
    OBVIOUS
  <2>2. PutObject(c, PayloadOf[c]) \/ PutObjectFails(c, PayloadOf[c])
    BY <1>2 DEF Backup
  <2>3. /\ bucket' \in [Values -> Values \cup {NoObject}]
        /\ late' \subseteq Values \X Values
        /\ \A y \in posted \ BackedUp : bucket'[y] = y
        /\ \A j \in Values, y \in Values : <<j, y>> \in late' => j = y \/ j \in BackedUp
    <3> HIDE DEF PairInv
    <3>1. QED
      BY <2>1, <2>2, WriteHolds
  <2>4. QED
    BY <1>2, <2>3
<1>3. ASSUME NEW k \in Values, NEW x \in Values, LateWrite(k, x),
             UNCHANGED <<callVars, routes, pairVars>>
      PROVE  PairInv'
  BY <1>3 DEF LateWrite
<1>4. ASSUME NEW v \in Calls, Disconnect(v), UNCHANGED <<bucketVars, routes, pairVars>>
      PROVE  PairInv'
  BY <1>4 DEF Disconnect
<1>5. QED
  BY <1>1, <1>2, <1>3, <1>4, RequestPairs DEF Environment

\* The state of the pairs is inductive, given the types of the calls.
LEMMA PairsInvariant == SSpec => []PairInv
<1>1. SInit => PairInv
  BY DEF SInit, InitCalls, InitBucket, PairInv, PairTyped, WritesVerified, KeccakPairsHold
<1>2. CallInv /\ PairInv /\ [SNext]_allVars => PairInv'
  <2> SUFFICES ASSUME CallTyped, PairInv, [SNext]_allVars PROVE PairInv'
    BY DEF CallInv
  <2>1. CASE \E v \in Calls : Step(v)
    BY <2>1, StepPairs
  <2>2. CASE Environment
    BY <2>2, EnvironmentPairs
  <2>3. CASE UNCHANGED allVars
    BY <2>3 DEF allVars, callVars, bucketVars, pairVars, PairInv, PairTyped, WritesVerified,
                KeccakPairsHold
  <2>4. QED
    BY <2>1, <2>2, <2>3 DEF SNext
<1>3. QED
  BY <1>1, <1>2, CallsInvariant, PTL DEF SSpec

\* A keccak pair whose POST was answered 200 stays under its key, through
\* unverified POSTs, writes that happen late and backups in the same bucket.
THEOREM PairsHold == SSpec => []KeccakPairsHold
<1>1. PairInv => KeccakPairsHold
  BY DEF PairInv
<1>2. QED
  BY <1>1, PairsInvariant, PTL

\* Every variable keeps its type, for any number of calls, batches and values.
THEOREM StoreTypes == SSpec => []STypeOK
<1>1. TypeOK /\ CallInv /\ PairInv => STypeOK
  BY DEF STypeOK, CallInv, CallTyped, PairInv, PairTyped
<1>2. QED
  BY <1>1, StoresRunVerifier, VerifierTypes, CallsInvariant, PairsInvariant, PTL

\* A step that ends a GET of a pair is the read from S3.
LEMMA PairGetEnds ==
  ASSUME CallTyped, [SNext]_allVars, NEW v \in Calls, stage[v] = "pairGet", stage'[v] = "returned"
  PROVE  ReadPair(v)
<1> USE DEF CallTyped, callVars, Begin, Return, Proceed
<1>1. ASSUME NEW w \in Calls, Step(w) PROVE ReadPair(v)
  <2>1. CASE StoreStep(w)
    BY <2>1 DEF StoreStep, AttemptFails, AttemptSucceedsV1, AttemptSucceedsV2, RetrieveV1,
                RetrieveV2, Verified
  <2>2. CASE WritePair(w)
    BY <2>2 DEF WritePair
  <2>3. CASE ReadPair(w)
    BY <2>3 DEF ReadPair
  <2>4. CASE UNCHANGED callVars
    BY <2>4
  <2>5. QED
    BY <1>1, <2>1, <2>2, <2>3, <2>4 DEF Step
<1>2. ASSUME NEW w \in Calls, Request(w) PROVE ReadPair(v)
  <2>1. CASE \E b \in Backends : Put(w, b) \/ GetFrom(w, b)
    BY <2>1 DEF Put, GetFrom
  <2>2. CASE \E k \in Values, x \in Values : PutOPKeccakPairInS3(w, k, x)
    BY <2>2 DEF PutOPKeccakPairInS3
  <2>3. CASE \E k \in Values : GetOPKeccakValueFromS3(w, k)
    BY <2>3 DEF GetOPKeccakValueFromS3
  <2>4. QED
    BY <1>2, <2>1, <2>2, <2>3 DEF Request
<1>3. CASE Environment /\ ~\E w \in Calls : Request(w)
  BY <1>3 DEF Environment, Disconnect
<1>4. CASE UNCHANGED allVars
  BY <1>4 DEF allVars
<1>5. QED
  BY <1>1, <1>2, <1>3, <1>4 DEF SNext

\* A GET of a pair returns the pre-image of its key or an error, and does not
\* blame the client for a pair that was acknowledged.
THEOREM PairsServed == SSpec => PostedPairsAreServed
<1> DEFINE Serves == \A v \in Calls :
             stage[v] = "pairGet" /\ stage'[v] = "returned" =>
               /\ result'[v] = "ok" => value'[v] = key[v]
               /\ key[v] \in posted \ BackedUp => result'[v] \in {"ok", "internal"}
<1>1. CallInv /\ PairInv /\ [SNext]_allVars => [Serves]_allVars
  <2> SUFFICES ASSUME CallTyped, PairInv, [SNext]_allVars, NEW v \in Calls,
                      stage[v] = "pairGet", stage'[v] = "returned"
               PROVE  /\ result'[v] = "ok" => value'[v] = key[v]
                      /\ key[v] \in posted \ BackedUp => result'[v] \in {"ok", "internal"}
    BY DEF CallInv
  <2>1. ReadPair(v)
    BY PairGetEnds
  <2>2. key[v] \in posted \ BackedUp => bucket[key[v]] = key[v]
    BY DEF PairInv, KeccakPairsHold
  <2>3. QED
    BY <2>1, <2>2 DEF ReadPair, Return, Proceed, Verify, CallTyped, PairInv, PairTyped
<1>2. QED
  BY <1>1, CallsInvariant, PairsInvariant, PTL DEF SSpec, PostedPairsAreServed

-----------------------------------------------------------------------------
(* The time a Put takes.                                                   *)

\* While attempts are counted, their number bounds the time.
InTime ==
  \A v \in Calls :
    /\ stage[v] = "disperse" \/ (stage[v] = "returned" /\ result[v] = "failover")
    /\ PutTries[backend[v]] > 0
    => elapsed[v] <= used[v] * Timeout[backend[v]]

\* One more attempt takes no more than one more timeout.
LEMMA OneMore ==
  ASSUME NEW n \in Nat, NEW t \in Nat, NEW x \in Nat, NEW d \in Nat, d <= t, x <= n * t
  PROVE  x + d <= (n + 1) * t
<1>1. (n + 1) * t = n * t + t /\ n * t \in Nat
  OBVIOUS
<1>2. QED
  BY <1>1

\* A step either starts or fails an attempt of v, or leaves what InTime says of
\* v alone.
LEMMA StepInTime ==
  ASSUME CallInv, InTime, [SNext]_allVars
  PROVE  InTime'
<1> USE DEF callVars, Begin, Return, Proceed
<1>1. ASSUME NEW v \in Calls, StoreStep(v) PROVE InTime'
  <2>1. ASSUME NEW e \in AttemptErrors, NEW d \in Durations(v), AttemptFails(v, e, d)
        PROVE  InTime'
    <3>1. /\ backend[v] \in Backends /\ used[v] \in Nat /\ elapsed[v] \in Nat
          /\ Timeout[backend[v]] \in Nat /\ PutTries[backend[v]] \in Int
      BY <2>1 DEF AttemptFails, CallInv, CallTyped, InBudget, Late
    <3>2. d \in Nat /\ d <= Timeout[backend[v]]
      BY <3>1 DEF Durations
    <3>3. elapsed'[v] <= elapsed[v] + d
      BY <2>1, <3>1, <3>2 DEF AttemptFails, Spend, Late, CallInv, CallTyped
    <3>4. elapsed'[v] \in Nat
      BY <2>1, SpendTyped DEF AttemptFails, CallInv, Late
    <3>5. PutTries[backend[v]] > 0 =>
            used'[v] = used[v] + 1 /\ elapsed[v] <= used[v] * Timeout[backend[v]]
      <4> SUFFICES ASSUME PutTries[backend[v]] > 0
                   PROVE  used'[v] = used[v] + 1 /\ elapsed[v] <= used[v] * Timeout[backend[v]]
        OBVIOUS
      <4>1. stage[v] = "disperse" /\ Count(v)
        BY <2>1 DEF AttemptFails
      <4>2. elapsed[v] <= used[v] * Timeout[backend[v]]
        BY <4>1 DEF InTime
      <4>3. ~(PutTries[backend[v]] < 0)
        BY <3>1
      <4>4. used' = [used EXCEPT ![v] = @ + 1]
        BY <4>1, <4>3 DEF Count
      <4>5. QED
        BY <4>2, <4>4 DEF CallInv, CallTyped
    <3>6. PutTries[backend[v]] > 0 => elapsed'[v] <= used'[v] * Timeout[backend[v]]
      <4> SUFFICES ASSUME PutTries[backend[v]] > 0
                   PROVE  elapsed'[v] <= used'[v] * Timeout[backend[v]]
        OBVIOUS
      <4>1. elapsed[v] + d <= (used[v] + 1) * Timeout[backend[v]]
        BY <3>1, <3>2, <3>5, OneMore
      <4>2. (used[v] + 1) * Timeout[backend[v]] \in Nat
        BY <3>1
      <4>3. QED
        BY <3>1, <3>2, <3>3, <3>4, <3>5, <4>1, <4>2
    <3>7. /\ backend' = backend
          /\ \A w \in Calls \ {v} : /\ stage'[w] = stage[w] /\ result'[w] = result[w]
                                    /\ used'[w] = used[w] /\ elapsed'[w] = elapsed[w]
      BY <2>1 DEF AttemptFails, Count, Spend, CallInv, CallTyped
    <3>8. QED
      BY <3>6, <3>7 DEF InTime
  <2>2. CASE \E d \in Durations(v), b \in Batches, n \in 1..MaxHead, s \in BOOLEAN :
               AttemptSucceedsV1(v, d, b, n, s)
    BY <2>2 DEF AttemptSucceedsV1, Count, Spend, InTime, CallInv, CallTyped
  <2>3. CASE \E d \in Durations(v) : AttemptSucceedsV2(v, d)
    BY <2>3 DEF AttemptSucceedsV2, Count, Spend, InTime, CallInv, CallTyped
  <2>4. CASE \E b \in Batches, n \in 1..MaxHead, s \in BOOLEAN : RetrieveV1(v, b, n, s)
    BY <2>4 DEF RetrieveV1, InTime, CallInv, CallTyped
  <2>5. CASE RetrieveV2(v)
    BY <2>5 DEF RetrieveV2, InTime, CallInv, CallTyped
  <2>6. CASE Verified(v)
    BY <2>6 DEF Verified, InTime, CallInv, CallTyped
  <2>7. QED
    BY <1>1, <2>1, <2>2, <2>3, <2>4, <2>5, <2>6 DEF StoreStep
<1>2. ASSUME NEW v \in Calls, Request(v) PROVE InTime'
  <2>1. used'[v] = 0 /\ elapsed'[v] = 0 /\ backend'[v] \in Backends \cup {"none"}
    BY <1>2 DEF Request, Put, GetFrom, PutOPKeccakPairInS3, GetOPKeccakValueFromS3, CallInv,
                CallTyped
  <2>2. \A w \in Calls \ {v} :
          /\ stage'[w] = stage[w] /\ result'[w] = result[w] /\ backend'[w] = backend[w]
          /\ used'[w] = used[w] /\ elapsed'[w] = elapsed[w]
    BY <1>2 DEF Request, Put, GetFrom, PutOPKeccakPairInS3, GetOPKeccakValueFromS3, CallInv,
                CallTyped
  <2>3. stage'[v] = "disperse" \/ (stage'[v] = "returned" /\ result'[v] = "failover")
          => backend'[v] \in Backends
    BY <1>2, RequestCalls DEF CallInv, InBudget
  <2>4. backend'[v] \in Backends => used'[v] * Timeout[backend'[v]] = 0
    BY <2>1
  <2>5. QED
    BY <2>1, <2>2, <2>3, <2>4 DEF InTime
<1>3. ASSUME NEW v \in Calls, WritePair(v) \/ ReadPair(v) PROVE InTime'
  BY <1>3 DEF WritePair, ReadPair, InTime, CallInv, CallTyped
<1>4. CASE UNCHANGED <<stage, result, backend, used, elapsed>>
  BY <1>4 DEF InTime
<1>5. QED
  BY <1>1, <1>2, <1>3, <1>4 DEF SNext, Step, Environment, Disconnect, allVars

\* If the retries fit into WriteTimeout, the failover signal reaches a client
\* that still waits for it.
THEOREM FailoverDelivered ==
  ASSUME \A b \in Backends : PutTries[b] > 0 => PutTries[b] * Timeout[b] < WriteTimeout
  PROVE  SSpec => []FailoverIsDelivered
<1>1. SInit => InTime
  BY DEF SInit, InitCalls, InTime
<1>2. CallInv /\ InTime /\ [SNext]_allVars => InTime'
  BY StepInTime
<1>3. CallInv /\ InTime => FailoverIsDelivered
  <2> SUFFICES ASSUME CallInv, InTime, NEW v \in Calls,
                      stage[v] = "returned", result[v] = "failover"
               PROVE  elapsed[v] < WriteTimeout
    BY DEF FailoverIsDelivered, Delivered
  <2>1. /\ backend[v] \in Backends /\ PutTries[backend[v]] > 0
        /\ used[v] = PutTries[backend[v]] /\ elapsed[v] \in Nat
    BY DEF CallInv, CallTyped, InBudget, Late
  <2>2. elapsed[v] <= PutTries[backend[v]] * Timeout[backend[v]]
    BY <2>1 DEF InTime
  <2>3. /\ PutTries[backend[v]] * Timeout[backend[v]] \in Int
        /\ PutTries[backend[v]] * Timeout[backend[v]] < WriteTimeout
    BY <2>1
  <2>4. QED
    BY <2>1, <2>2, <2>3
<1>4. QED
  BY <1>1, <1>2, <1>3, CallsInvariant, PTL DEF SSpec

-----------------------------------------------------------------------------
(* The contract that Manager relies on.                                    *)

Replies == [v \in Calls |-> ReplyOf(v)]

\* The V1 store alone verifies, and a retrieval answers a Get.
StagesFit ==
  \A v \in Calls : /\ stage[v] = "verify" => backend[v] = "V1"
                   /\ stage[v] = "retrieve" => job[v] = "get"
                   /\ stage[v] \in {"pairPut", "pairGet"} => job[v] # "put"

HeadFits == head <= MaxHead

ContractInv == CallInv /\ StagesFit /\ HeadFits

\* The chain does not grow beyond its bound.
LEMMA HeadBounded ==
  ASSUME TypeOK, head <= MaxHead, [Next]_vars
  PROVE  head' <= MaxHead
<1> USE DEF TypeOK, ChainTypes, chain
<1>1. CASE Mine
  <2>1. head' = head + 1 /\ head < MaxHead
    BY <1>1 DEF Mine
  <2>2. QED
    BY <2>1, CertVerifierAssumption
<1>2. CASE \E h \in Blocks : Reorg(h)
  BY <1>2 DEF Reorg, Blocks
<1>3. CASE UNCHANGED head
  BY <1>3
<1>4. QED
  BY <1>1, <1>2, <1>3 DEF Next, Start, CallStep, GetConfDeepBlockNumber,
     RetrieveBatchMetadataHash, Retry, VerifyProofAndParams, vars

\* A call keeps to the stages of its store.
LEMMA StagesFitStep ==
  ASSUME CallInv, StagesFit, [SNext]_allVars
  PROVE  StagesFit'
<1> USE DEF CallInv, CallTyped, StagesFit, callVars, Begin, Return, Proceed
<1>1. ASSUME NEW v \in Calls, Step(v) PROVE StagesFit'
  <2>1. CASE StoreStep(v)
    BY <2>1 DEF StoreStep, AttemptFails, AttemptSucceedsV1, AttemptSucceedsV2, RetrieveV1,
                RetrieveV2, Verified
  <2>2. CASE WritePair(v) \/ ReadPair(v)
    BY <2>2 DEF WritePair, ReadPair
  <2>3. CASE UNCHANGED callVars
    BY <2>3
  <2>4. QED
    BY <1>1, <2>1, <2>2, <2>3 DEF Step
<1>2. ASSUME NEW v \in Calls, Request(v) PROVE StagesFit'
  <2>1. CASE \E b \in Backends : Put(v, b)
    BY <2>1 DEF Put
  <2>2. CASE \E b \in Backends : GetFrom(v, b)
    BY <2>2 DEF GetFrom
  <2>3. CASE \E k \in Values, x \in Values : PutOPKeccakPairInS3(v, k, x)
    BY <2>3 DEF PutOPKeccakPairInS3
  <2>4. CASE \E k \in Values : GetOPKeccakValueFromS3(v, k)
    BY <2>4 DEF GetOPKeccakValueFromS3
  <2>5. QED
    BY <1>2, <2>1, <2>2, <2>3, <2>4 DEF Request
<1>3. CASE UNCHANGED <<job, backend, stage>>
  BY <1>3
<1>4. QED
  BY <1>1, <1>2, <1>3 DEF SNext, Environment, Disconnect, allVars

\* What one call does shows in its own reply only.
LEMMA OneReply ==
  ASSUME NEW v \in Calls,
         \A w \in Calls \ {v} :
           /\ job'[w] = job[w] /\ stage'[w] = stage[w] /\ result'[w] = result[w]
           /\ backend'[w] = backend[w] /\ batch'[w] = batch[w] /\ conf'[w] = conf[w]
  PROVE  Replies' = [Replies EXCEPT ![v] = ReplyOf(v)']
<1>1. ASSUME NEW w \in Calls \ {v} PROVE ReplyOf(w)' = ReplyOf(w)
  BY DEF ReplyOf, Answered
<1>2. Replies' = [w \in Calls |-> ReplyOf(w)']
  BY DEF Replies
<1>3. [Replies EXCEPT ![v] = ReplyOf(v)'] = [w \in Calls |-> ReplyOf(w)']
  BY <1>1 DEF Replies
<1>4. QED
  BY <1>2, <1>3

\* A failed call of Put is answered with an error of its store.
LEMMA FailIsContract ==
  ASSUME NEW v \in Calls, NEW b \in Backends, NEW e \in Contract!Failures(b),
         Answered(v)', result'[v] = e, backend'[v] = b,
         Replies' = [Replies EXCEPT ![v] = ReplyOf(v)'], Final' = Final
  PROVE  Contract!Next
<1>1. e # "ok"
  BY DEF Contract!Failures
<1>2. ReplyOf(v)' = [kind |-> e, backend |-> b, confirmation |-> NoConfirmation]
  BY <1>1 DEF ReplyOf
<1>3. Contract!Fail(v, b, e)
  BY <1>2 DEF Contract!Fail, Replies
<1>4. QED
  BY <1>3 DEF Contract!Next, Backends

\* The steps of a call inside a store.
LEMMA StoreStepContract ==
  ASSUME ContractInv, TypeOK, Finality, NEW v \in Calls, StoreStep(v)
  PROVE  Contract!Next \/ UNCHANGED <<Final, Replies>>
<1> USE DEF ContractInv, HeadFits, CallInv, CallTyped
<1>1. Final' = Final
  BY StoreStepVerifies DEF Start, vars, chain, Final
<1>2. Replies' = [Replies EXCEPT ![v] = ReplyOf(v)']
  <2>1. \A w \in Calls \ {v} : batch'[w] = batch[w] /\ conf'[w] = conf[w]
    BY StoreStepVerifies DEF Start, vars, args, TypeOK, CallTypes
  <2>2. \A w \in Calls \ {v} :
          /\ job'[w] = job[w] /\ stage'[w] = stage[w] /\ result'[w] = result[w]
          /\ backend'[w] = backend[w]
    BY DEF StoreStep, AttemptFails, AttemptSucceedsV1, AttemptSucceedsV2, RetrieveV1,
           RetrieveV2, Verified, Return, Proceed
  <2>3. QED
    BY <2>1, <2>2, OneReply
<1>3. ~Answered(v)
  BY DEF StoreStep, AttemptFails, AttemptSucceedsV1, AttemptSucceedsV2, RetrieveV1,
         RetrieveV2, Verified, Answered
<1>4. Replies[v] = Contract!Pending
  BY <1>3 DEF Replies, ReplyOf, Contract!Pending
<1>5. CASE ~Answered(v)'
  <2>1. ReplyOf(v)' = Contract!Pending
    BY <1>5 DEF ReplyOf, Contract!Pending
  <2>2. DOMAIN Replies = Calls /\ Replies = [w \in Calls |-> Replies[w]]
    BY DEF Replies
  <2>3. [Replies EXCEPT ![v] = Contract!Pending] = Replies
    BY <1>4, <2>2
  <2>4. QED
    BY <1>1, <1>2, <2>1, <2>3
<1>6. ASSUME NEW e \in AttemptErrors, NEW d \in Durations(v), AttemptFails(v, e, d), Answered(v)'
      PROVE  Contract!Next
  <2>1. backend'[v] = backend[v] /\ backend[v] \in Backends /\ result'[v] = ResultOf(e)
    BY <1>6 DEF AttemptFails, InBudget, Return, Proceed, Answered
  <2>2. ResultOf(e) \in Contract!Failures(backend[v])
    BY DEF ResultOf, Contract!Failures
  <2>3. QED
    BY <1>1, <1>2, <1>6, <2>1, <2>2, FailIsContract
<1>7. ASSUME NEW d \in Durations(v), NEW b \in Batches, NEW n \in 1..MaxHead,
             NEW s \in BOOLEAN, AttemptSucceedsV1(v, d, b, n, s), Answered(v)'
      PROVE  Contract!Next
  <2>1. backend'[v] = "V1" /\ result'[v] = "internal"
    BY <1>7 DEF AttemptSucceedsV1, Return, Proceed, Answered
  <2>2. "internal" \in Contract!Failures("V1") /\ "V1" \in Backends
    BY DEF Contract!Failures, Backends
  <2>3. QED
    BY <1>1, <1>2, <1>7, <2>1, <2>2, FailIsContract
<1>8. ASSUME NEW d \in Durations(v), AttemptSucceedsV2(v, d), Answered(v)'
      PROVE  Contract!Next
  <2>1. PICK e \in {"ok", "internal"} : result'[v] = e
    BY <1>8 DEF AttemptSucceedsV2, Return, Proceed
  <2>2. backend'[v] = "V2"
    BY <1>8 DEF AttemptSucceedsV2, Return, Proceed
  <2>3. CASE e = "ok"
    <3>1. ReplyOf(v)' = [kind |-> "ok", backend |-> "V2", confirmation |-> NoConfirmation]
      BY <1>8, <2>1, <2>2, <2>3 DEF ReplyOf
    <3>2. Contract!SucceedV2(v)
      BY <1>1, <1>2, <1>4, <3>1 DEF Contract!SucceedV2, Replies
    <3>3. QED
      BY <3>2 DEF Contract!Next
  <2>4. CASE e = "internal"
    <3>1. "internal" \in Contract!Failures("V2") /\ "V2" \in Backends
      BY DEF Contract!Failures, Backends
    <3>2. QED
      BY <1>1, <1>2, <1>8, <2>1, <2>2, <2>4, <3>1, FailIsContract
  <2>5. QED
    BY <2>3, <2>4
<1>9. ASSUME Verified(v), Answered(v)' PROVE Contract!Next
  <2>1. backend'[v] = "V1" /\ batch'[v] = batch[v] /\ conf'[v] = conf[v]
    BY <1>9 DEF Verified, StagesFit, Return, Proceed, vars, args
  <2>2. CASE pc[v] = "accepted"
    <3>1. result'[v] = "ok"
      BY <1>9, <2>2 DEF Verified, Return, Proceed
    <3>2. ReplyOf(v)' = [kind |-> "ok", backend |-> "V1",
                         confirmation |-> <<batch[v], conf[v]>>]
      BY <1>9, <2>1, <3>1 DEF ReplyOf
    <3>3. minedAt[batch[v]] = conf[v] /\ conf[v] \in 1..finalized
      BY <2>2 DEF Finality, VerdictsAreFinal
    <3>4. conf[v] \in Blocks /\ batch[v] \in Batches
      <4>1. /\ finalized \in Nat /\ head \in Nat /\ finalized <= head /\ head <= MaxHead
            /\ conf[v] \in Nat /\ batch[v] \in Batches
        BY DEF Finality, ChainSound, TypeOK, ChainTypes, CallTypes
      <4>2. QED
        BY <3>3, <4>1, CertVerifierAssumption DEF Blocks
    <3>5. <<batch[v], conf[v]>> \in Final
      BY <3>3, <3>4 DEF Final
    <3>6. Contract!SucceedV1(v, <<batch[v], conf[v]>>)
      BY <1>1, <1>2, <1>4, <3>2, <3>5 DEF Contract!SucceedV1, Replies
    <3>7. QED
      BY <3>4, <3>6 DEF Contract!Next
  <2>3. CASE pc[v] # "accepted"
    <3>1. result'[v] = "internal"
      BY <1>9, <2>3 DEF Verified, Return, Proceed
    <3>2. "internal" \in Contract!Failures("V1") /\ "V1" \in Backends
      BY DEF Contract!Failures, Backends
    <3>3. QED
      BY <1>1, <1>2, <1>9, <2>1, <3>1, <3>2, FailIsContract
  <2>4. QED
    BY <2>2, <2>3
<1>10. CASE (\E b \in Batches, n \in 1..MaxHead, s \in BOOLEAN : RetrieveV1(v, b, n, s))
            \/ RetrieveV2(v)
  <2>1. ~Answered(v)'
    BY <1>10 DEF RetrieveV1, RetrieveV2, StagesFit, Return, Proceed, Answered
  <2>2. QED
    BY <1>5, <2>1
<1>11. QED
  BY <1>5, <1>6, <1>7, <1>8, <1>9, <1>10 DEF StoreStep

\* A request replaces the reply of the call before it.
LEMMA RequestContract ==
  ASSUME ContractInv, NEW v \in Calls, Request(v)
  PROVE  Contract!Next
<1> USE DEF ContractInv, CallInv, CallTyped, Begin
<1>1. UNCHANGED vars
  BY RequestKeepsVerifier
<1>2. Final' = Final /\ UNCHANGED <<batch, conf>>
  BY <1>1 DEF vars, chain, args, Final
<1>3. Replies' = [Replies EXCEPT ![v] = ReplyOf(v)']
  <2>1. \A w \in Calls \ {v} :
          /\ job'[w] = job[w] /\ stage'[w] = stage[w] /\ result'[w] = result[w]
          /\ backend'[w] = backend[w]
    BY DEF Request, Put, GetFrom, PutOPKeccakPairInS3, GetOPKeccakValueFromS3
  <2>2. QED
    BY <1>2, <2>1, OneReply
<1>4. CASE ~Answered(v)'
  <2>1. ReplyOf(v)' = Contract!Pending
    BY <1>4 DEF ReplyOf, Contract!Pending
  <2>2. Contract!Call(v)
    BY <1>2, <1>3, <2>1 DEF Contract!Call, Replies
  <2>3. QED
    BY <2>2 DEF Contract!Next
<1>5. CASE Answered(v)'
  <2>1. backend'[v] = "V1" /\ result'[v] \in {"oversized", "internal"}
    BY <1>5 DEF Request, Put, GetFrom, PutOPKeccakPairInS3, GetOPKeccakValueFromS3, Answered
  <2>2. result'[v] \in Contract!Failures("V1") /\ "V1" \in Backends
    BY <2>1 DEF Contract!Failures, Backends
  <2>3. QED
    BY <1>2, <1>3, <1>5, <2>1, <2>2, FailIsContract
<1>6. QED
  BY <1>4, <1>5

\* The chain only adds confirmations that stay.
LEMMA ChainContract ==
  ASSUME TypeOK, ChainSound, Mine \/ \E h \in Blocks : Reorg(h), UNCHANGED callVars
  PROVE  Contract!Next
<1>1. /\ ChainTypes' /\ finalized <= finalized'
      /\ \A b \in Batches : minedAt[b] \in 1..finalized => minedAt'[b] = minedAt[b]
      /\ UNCHANGED <<batch, conf>>
  BY ChainStep
<1>2. Final \subseteq Final' /\ Final' \in SUBSET (Batches \X Blocks)
  BY <1>1 DEF Final, TypeOK, ChainTypes, Blocks
<1>3. Replies' = Replies
  BY <1>1 DEF Replies, ReplyOf, Answered, callVars
<1>4. Contract!Finalize
  BY <1>2, <1>3 DEF Contract!Finalize, Replies
<1>5. QED
  BY <1>4 DEF Contract!Next


\* The other steps do not show.
LEMMA HiddenSteps ==
  ASSUME ContractInv, [SNext]_allVars,
         ~\E v \in Calls : StoreStep(v) \/ Request(v),
         ~((Mine \/ \E h \in Blocks : Reorg(h)) /\ UNCHANGED callVars)
  PROVE  UNCHANGED <<Final, Replies>>
<1> USE DEF ContractInv, CallInv, CallTyped, vars, chain, args, callVars
<1>1. ASSUME NEW v \in Calls, WritePair(v) \/ ReadPair(v) PROVE UNCHANGED <<Final, Replies>>
  <2>1. /\ job[v] # "put"
        /\ UNCHANGED <<job, backend, minedAt, finalized, batch, conf>>
        /\ \A w \in Calls \ {v} : stage'[w] = stage[w] /\ result'[w] = result[w]
    BY <1>1 DEF WritePair, ReadPair, Return, Proceed, StagesFit
  <2>2. \A w \in Calls : ReplyOf(w)' = ReplyOf(w)
    BY <2>1 DEF ReplyOf, Answered
  <2>3. QED
    BY <2>1, <2>2 DEF Replies, Final
<1>2. CASE UNCHANGED <<minedAt, finalized, batch, conf, job, stage, result, backend>>
  BY <1>2 DEF Final, Replies, ReplyOf, Answered
<1>3. QED
  BY <1>1, <1>2 DEF SNext, Step, Environment, CallStep, GetConfDeepBlockNumber,
     RetrieveBatchMetadataHash, Retry, VerifyProofAndParams, Disconnect, allVars

\* Every step of the calls is a step of the contract, or does not show in it.
LEMMA StepRefinesContract ==
  ASSUME ContractInv, TypeOK, Finality, [SNext]_allVars
  PROVE  Contract!Next \/ UNCHANGED <<Final, Replies>>
<1>1. CASE \E v \in Calls : StoreStep(v)
  BY <1>1, StoreStepContract
<1>2. CASE \E v \in Calls : Request(v)
  BY <1>2, RequestContract
<1>3. CASE (Mine \/ \E h \in Blocks : Reorg(h)) /\ UNCHANGED callVars
  BY <1>3, ChainContract DEF Finality
<1>4. QED
  BY <1>1, <1>2, <1>3, HiddenSteps

\* The EigenDA stores implement the calls of Put that Manager makes, provided
\* that EthConfirmationDepth covers the deepest reorganisation: retries, lagging
\* nodes and reorganisations do not show, and an acknowledged V1 cert names the
\* block that confirms its batch for ever.
THEOREM StoresImplementContract ==
  ASSUME EthConfirmationDepth >= ReorgDepth
  PROVE  SSpec => ImplementsStoreContract
<1>1. SInit => Contract!Init
  BY DEF SInit, Init, InitCalls, Contract!Init, Contract!Pending, ReplyOf, Answered, Final
<1>2. SInit => ContractInv
  <2>1. SInit => CallInv
    BY DEF SInit, InitCalls, CallInv, CallTyped, InBudget, Jobs, Stages, Results, Backends, Late
  <2>2. QED
    BY <2>1, CertVerifierAssumption DEF SInit, Init, InitCalls, ContractInv, StagesFit, HeadFits
<1>3. CallInv /\ TypeOK /\ StagesFit /\ HeadFits /\ [SNext]_allVars
        => StagesFit' /\ HeadFits'
  BY StagesFitStep, HeadBounded, StepRefinesVerifier DEF HeadFits
<1>4. SSpec => [](TypeOK /\ Finality)
  BY StoresRunVerifier, FinalityInvariant, PTL
<1>5. SSpec => [](StagesFit /\ HeadFits)
  <2>1. SInit => StagesFit /\ HeadFits
    BY <1>2 DEF ContractInv
  <2>2. QED
    BY <2>1, <1>3, <1>4, CallsInvariant, PTL DEF SSpec
<1>6. CallInv /\ StagesFit /\ HeadFits /\ TypeOK /\ Finality /\ [SNext]_allVars
        => [Contract!Next]_<<Final, [v \in Calls |-> ReplyOf(v)]>>
  BY StepRefinesContract DEF ContractInv, Replies
<1>7. QED
  BY <1>1, <1>4, <1>5, <1>6, CallsInvariant, PTL DEF SSpec, ImplementsStoreContract, Contract!Spec
==============================================================================
