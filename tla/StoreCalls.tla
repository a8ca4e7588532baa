----------------------------- MODULE StoreCalls -----------------------------
(***************************************************************************)
(* The calls that HTTP requests make, through Manager, into the EigenDA    *)
(* stores and into the S3 bucket, with what their clients see:             *)
(* PutOPKeccakPairInS3 and GetOPKeccakValueFromS3 of store/manager.go next *)
(* to the calls of EigenDAStore, while the chain moves, the targets are    *)
(* backed up and clients disconnect.                                       *)
(*                                                                         *)
(* This opens up the steps that Manager takes as one: its Disperse and     *)
(* DisperseFails are the replies of StoreContract, which the calls here    *)
(* implement.                                                              *)
(***************************************************************************)
EXTENDS EigenDAStore, S3Bucket

CONSTANTS
  S3Enabled,        \* is Manager.s3 not nil?
  RouteMixes,       \* bound: the sets of routes that are used together
  NoConfirmation    \* a call that returned no V1 cert

Routes == {"put", "get"} \X (Backends \cup {"pair"})

ASSUME StoreCallsAssumption ==
  /\ S3Enabled \in BOOLEAN
  /\ RouteMixes \subseteq SUBSET Routes
  /\ NoConfirmation \notin Batches \X Nat

VARIABLES
  routes,           \* the routes that clients use in this behaviour
  key, value,       \* arguments and result of a call for a pair
  posted            \* the values whose POST was answered 200

pairVars == <<key, value, posted>>
allVars == <<vars, callVars, bucketVars, routes, pairVars>>

SInit ==
  /\ Init
  /\ InitCalls
  /\ InitBucket
  /\ routes \in RouteMixes
  /\ key = [v \in Calls |-> NoObject]
  /\ value = [v \in Calls |-> NoObject]
  /\ posted = {}

-----------------------------------------------------------------------------
(* OP keccak pairs.  The other calls leave key and value at NoObject.      *)

Arguments(v, k, x) ==
  /\ key' = [key EXCEPT ![v] = k]
  /\ value' = [value EXCEPT ![v] = x]

\* Mutant: the pair is written before it is verified.
PutPairUnverified(v, k, x) ==
  /\ <<"put", "pair">> \in routes
  /\ Arguments(v, k, x)
  /\ Begin(v, "putPair", "none", IF S3Enabled THEN "pairPut" ELSE "returned")
  /\ result' = [result EXCEPT ![v] = IF S3Enabled THEN "none" ELSE "internal"]
  /\ UNCHANGED <<vars, bucketVars, routes, posted>>

\* PutOPKeccakPairInS3 up to the call of S3.
PutOPKeccakPairInS3(v, k, x) ==
  /\ <<"put", "pair">> \in routes
  /\ Arguments(v, k, x)
  /\ LET e == IF ~S3Enabled THEN "internal" ELSE IF Verify(k, x) THEN "none" ELSE "mismatch"
     IN /\ Begin(v, "putPair", "none", IF e = "none" THEN "pairPut" ELSE "returned")
        /\ result' = [result EXCEPT ![v] = e]
  /\ UNCHANGED <<vars, bucketVars, routes, posted>>

WritePair(v) ==
  /\ stage[v] = "pairPut"
  /\ \/ /\ ~gone[v]
        /\ PutObject(key[v], value[v])
        /\ Return(v, "ok")
        /\ posted' = posted \cup {key[v]}
     \/ /\ PutObjectFails(key[v], value[v])
        /\ Return(v, "internal")
        /\ UNCHANGED posted
  /\ UNCHANGED <<vars, used, elapsed, routes, key, value>>

GetOPKeccakValueFromS3(v, k) ==
  /\ <<"get", "pair">> \in routes
  /\ Arguments(v, k, NoObject)
  /\ Begin(v, "getPair", "none", IF S3Enabled THEN "pairGet" ELSE "returned")
  /\ result' = [result EXCEPT ![v] = IF S3Enabled THEN "none" ELSE "internal"]
  /\ UNCHANGED <<vars, bucketVars, routes, posted>>

\* Mutant: the object is returned as it was read.
ReadPairUnverified(v) ==
  /\ stage[v] = "pairGet"
  /\ bucket[key[v]] # NoObject
  /\ value' = [value EXCEPT ![v] = bucket[key[v]]]
  /\ Return(v, "ok")
  /\ UNCHANGED <<vars, used, elapsed, bucketVars, routes, key, posted>>

\* s3.Get and s3.Verify.  A missing object is reported by GetObject or only when
\* its body is read, which is an untyped error.
ReadPair(v) ==
  /\ stage[v] = "pairGet"
  /\ LET x == bucket[key[v]] IN
       \/ /\ x # NoObject /\ ~gone[v] /\ Verify(key[v], x)
          /\ value' = [value EXCEPT ![v] = x]
          /\ Return(v, "ok")
       \/ /\ x # NoObject /\ ~gone[v] /\ ~Verify(key[v], x)
          /\ Return(v, "mismatch") /\ UNCHANGED value
       \/ /\ x = NoObject /\ ~gone[v]
          /\ Return(v, "notFound") /\ UNCHANGED value
       \/ Return(v, "internal") /\ UNCHANGED value
  /\ UNCHANGED <<vars, used, elapsed, bucketVars, routes, key, posted>>

-----------------------------------------------------------------------------
FramePairs == UNCHANGED <<bucketVars, routes, posted>>

Request(v) ==
  \/ /\ \E b \in Backends :
          \/ <<"put", b>> \in routes /\ Put(v, b)
          \/ <<"get", b>> \in routes /\ GetFrom(v, b)
     /\ Arguments(v, NoObject, NoObject)
     /\ FramePairs
  \/ \E k \in Values, x \in Values : PutOPKeccakPairInS3(v, k, x)
  \/ \E k \in Values : GetOPKeccakValueFromS3(v, k)

\* The steps of call v until it returns.
Step(v) ==
  \/ StoreStep(v) /\ FramePairs /\ UNCHANGED <<key, value>>
  \/ CallStep(v) /\ UNCHANGED callVars /\ FramePairs /\ UNCHANGED <<key, value>>
  \/ WritePair(v)
  \/ ReadPair(v)

Environment ==
  \/ /\ Mine \/ \E h \in Blocks : Reorg(h)
     /\ UNCHANGED <<callVars, bucketVars, routes, pairVars>>
  \/ /\ \/ S3Enabled /\ \E c \in BackedUp : <<"put", "pair">> \in routes /\ Backup(c)
        \/ \E k \in Values, x \in Values : LateWrite(k, x)
     /\ UNCHANGED <<vars, callVars, routes, pairVars>>
  \/ \E v \in Calls : Request(v)
  \/ \E v \in Calls : Disconnect(v) /\ UNCHANGED <<bucketVars, routes, pairVars>>

SNext == Environment \/ \E v \in Calls : Step(v)

SSpec == SInit /\ [][SNext]_allVars

\* Every request has its own goroutine and every call that leaves the process
\* returns.
SFairSpec == SSpec /\ \A v \in Calls : WF_allVars(Step(v))

-----------------------------------------------------------------------------
(* What the client sees.                                                   *)

\* server.go, NewServer: after WriteTimeout nothing can be written.
Delivered(v) == stage[v] = "returned" /\ ~gone[v] /\ elapsed[v] < WriteTimeout

\* SetData: status 503 is the failover signal, other errors and a connection
\* that is closed are plain errors.
ErrServiceUnavailable(v) == Delivered(v) /\ job[v] = "put" /\ result[v] = "failover"

-----------------------------------------------------------------------------
(* Properties.                                                             *)

\* Every variable ranges over the values the program can give it.
STypeOK ==
  /\ TypeOK
  /\ job \in [Calls -> Jobs \cup {"putPair", "getPair"}]
  /\ backend \in [Calls -> Backends \cup {"none"}]
  /\ stage \in [Calls -> Stages \cup {"pairPut", "pairGet"}]
  /\ used \in [Calls -> Nat]
  /\ result \in [Calls -> Results \cup {"mismatch", "notFound"}]
  /\ gone \in [Calls -> BOOLEAN]
  /\ elapsed \in [Calls -> 0..Late]
  /\ bucket \in [Values -> Values \cup {NoObject}]
  /\ late \subseteq Values \X Values
  /\ routes \in RouteMixes
  /\ key \in [Calls -> Values \cup {NoObject}]
  /\ value \in [Calls -> Values \cup {NoObject}]
  /\ posted \subseteq Values

\* The batcher is told to fail over to EthDA ("eigenda is temporarily down")
\* only after every dispersal that PutTries allows was tried, and never by a
\* store that retries indefinitely.
FailoverIsLastResort ==
  \A v \in Calls :
    ErrServiceUnavailable(v) => PutTries[backend[v]] > 0 /\ used[v] = PutTries[backend[v]]

\* "If a blob is not confirmed within this time, the proxy will return a 503
\* status code": a Put that ends with a failover error ends while the client
\* can still be answered.
FailoverIsDelivered ==
  \A v \in Calls :
    stage[v] = "returned" /\ result[v] = "failover" /\ ~gone[v] => Delivered(v)

\* A pair whose POST was answered 200 stays: a POST with a wrong key, a write
\* that happens after its error was reported, or a backup in the same bucket
\* does not replace it, unless the value is a cert whose payload is backed up.
KeccakPairsHold == \A x \in posted \ BackedUp : bucket[x] = x

\* A GET of a pair returns the pre-image of its key or an error, and once the
\* POST of the pair was answered it is not a client error.
PostedPairsAreServed ==
  [][\A v \in Calls :
       stage[v] = "pairGet" /\ stage'[v] = "returned" =>
         /\ result'[v] = "ok" => value'[v] = key[v]
         /\ key[v] \in posted \ BackedUp => result'[v] \in {"ok", "internal"}]_allVars

\* Every call returns, its client gone or not, except for a Put that retries
\* indefinitely.
CallsEnd ==
  \A v \in Calls :
    (stage[v] # "idle" /\ (stage[v] = "disperse" => PutTries[backend[v]] > 0))
      ~> stage[v] = "returned"

-----------------------------------------------------------------------------
(* The stores as Manager sees them.                                        *)

\* Confirmations that no reorganisation removes.
Final == {p \in Batches \X Blocks : p[2] = minedAt[p[1]] /\ p[2] \in 1..finalized}

Answered(v) == job[v] = "put" /\ stage[v] = "returned"

ReplyOf(v) ==
  [kind |-> IF Answered(v) THEN result[v] ELSE "pending",
   backend |-> IF Answered(v) THEN backend[v] ELSE "none",
   confirmation |-> IF Answered(v) /\ result[v] = "ok" /\ backend[v] = "V1"
                    THEN <<batch[v], conf[v]>> ELSE NoConfirmation]

Contract == INSTANCE StoreContract WITH
  Confirmations <- Batches \X Blocks,
  final <- Final,
  reply <- [v \in Calls |-> ReplyOf(v)]

\* Dispersal with its retries, verification on a chain that reorganises and
\* clients that leave implement the calls of Put that Manager makes: an
\* acknowledged V1 cert names the block that confirms its batch for ever.
ImplementsStoreContract == Contract!Spec
=============================================================================
