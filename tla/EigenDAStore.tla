---------------------------- MODULE EigenDAStore ----------------------------
(***************************************************************************)
(* store/generated_key/eigenda/eigenda.go and v2/eigenda.go: what the V1   *)
(* and V2 stores do between a call of the manager and their answer.  Put   *)
(* disperses with retries; the V1 store then verifies the cert it got, by  *)
(* the steps of CertVerifier; Get asks the network and, for V2, one        *)
(* retriever after the other.                                              *)
(*                                                                         *)
(* The EigenDA clients are external: an attempt to disperse takes up to    *)
(* Timeout[backend] units of time and ends with a cert or with an error of *)
(* one of four classes.  Time passes only in attempts, the part of a call  *)
(* that takes minutes.                                                     *)
(***************************************************************************)
EXTENDS CertVerifier, Integers

CONSTANTS
  PutTries,      \* per backend; negative: retry indefinitely
  Retrievers,    \* number of V2 payload retrievers
  Timeout,       \* per backend: the longest an attempt takes
  WriteTimeout   \* http.Server.WriteTimeout, in the same unit

Backends == {"V1", "V2"}

\* NewStoreConfig and NewStore refuse PutTries = 0.
ASSUME EigenDAStoreAssumption ==
  /\ PutTries \in [Backends -> Int \ {0}]
  /\ Retrievers \in Nat
  /\ Timeout \in [Backends -> Nat]
  /\ WriteTimeout \in Nat

VARIABLES
  job,       \* what each call does
  backend,   \* the store it calls
  stage,     \* where it is
  used,      \* dispersals, or retrievers, it has used up
  result,    \* how it ended
  gone,      \* has its client disconnected?
  elapsed    \* time since the request's header was read, capped at Late

callVars == <<job, backend, stage, used, result, gone, elapsed>>

Late == WriteTimeout + 1
Jobs == {"none", "put", "get"}
Stages == {"idle", "disperse", "retrieve", "verify", "returned"}
Results == {"none", "ok", "oversized", "rateLimited", "failover", "internal"}

\* What an attempt may fail with: gRPC InvalidArgument, gRPC ResourceExhausted,
\* api.ErrorFailover, or anything else.
AttemptErrors == {"invalid", "exhausted", "failover", "other"}

InitCalls ==
  /\ job = [v \in Calls |-> "none"]
  /\ backend = [v \in Calls |-> "V1"]
  /\ stage = [v \in Calls |-> "idle"]
  /\ used = [v \in Calls |-> 0]
  /\ result = [v \in Calls |-> "none"]
  /\ gone = [v \in Calls |-> FALSE]
  /\ elapsed = [v \in Calls |-> 0]

Begin(v, j, b, s) ==
  /\ stage[v] \in {"idle", "returned"}
  /\ job' = [job EXCEPT ![v] = j]
  /\ backend' = [backend EXCEPT ![v] = b]
  /\ stage' = [stage EXCEPT ![v] = s]
  /\ used' = [used EXCEPT ![v] = 0]
  /\ gone' = [gone EXCEPT ![v] = FALSE]
  /\ elapsed' = [elapsed EXCEPT ![v] = 0]

Proceed(v, s, e) ==
  /\ stage' = [stage EXCEPT ![v] = s]
  /\ result' = [result EXCEPT ![v] = e]
  /\ UNCHANGED <<job, backend, gone>>

Return(v, e) == Proceed(v, "returned", e)

\* The request's context is cancelled.  The attempts of Put do not look at it; those
\* of the V1 cert verification may stop at it between two attempts, which has the
\* outcome of failing on to the last one.
Disconnect(v) ==
  /\ stage[v] \notin {"idle", "returned"}
  /\ ~gone[v]
  /\ gone' = [gone EXCEPT ![v] = TRUE]
  /\ UNCHANGED <<vars, job, backend, stage, used, result, elapsed>>

-----------------------------------------------------------------------------
(* Put.                                                                    *)

\* Store.Put up to the retry loop: the V1 store may fail to encode the payload
\* or find it too large.
Put(v, b) ==
  /\ \/ Begin(v, "put", b, "disperse") /\ result' = [result EXCEPT ![v] = "none"]
     \/ /\ b = "V1"
        /\ Begin(v, "put", b, "returned")
        /\ \E e \in {"oversized", "internal"} : result' = [result EXCEPT ![v] = e]
  /\ UNCHANGED vars

\* Mutant: a failover error is final.
RetryableUnlessFailover(e) == e \notin {"invalid", "failover"}

\* retry.RetryIf.
Retryable(e) == e # "invalid"

\* ConvertToRetryGoAttempts and retry.Attempts: is the attempt under way the
\* last one?  0 attempts stand for no limit.
ConvertToRetryGoAttempts(n) == IF n < 0 THEN 0 ELSE n

\* Mutant: the number of retries is taken for the number of attempts.
LastAttemptOffByOne(v) == used[v] = ConvertToRetryGoAttempts(PutTries[backend[v]])

LastAttempt(v) == used[v] + 1 = ConvertToRetryGoAttempts(PutTries[backend[v]])

\* retry.LastErrorOnly, then what the error middleware makes of the error.
ResultOf(e) ==
  CASE e = "exhausted" -> "rateLimited"
    [] e = "failover"  -> "failover"
    [] OTHER           -> "internal"

Spend(v, d) ==
  elapsed' = [elapsed EXCEPT ![v] = IF @ + d < Late THEN @ + d ELSE Late]

\* Mutant: the counter of attempts is compared but never advanced.
CountNothing(v) == UNCHANGED used

\* An unlimited loop needs no counter.
Count(v) ==
  used' = IF PutTries[backend[v]] < 0 THEN used ELSE [used EXCEPT ![v] = @ + 1]

\* PutBlob or SendPayload fails, at once or when its time is up.  With its
\* client gone it can only fail, and at once.
AttemptFails(v, e, d) ==
  /\ stage[v] = "disperse"
  /\ gone[v] => e = "other" /\ d = 0
  /\ Spend(v, d)
  /\ Count(v)
  /\ IF Retryable(e) /\ ~LastAttempt(v) THEN Proceed(v, "disperse", "none")
                                        ELSE Return(v, ResultOf(e))
  /\ UNCHANGED vars

\* PutBlob returns a cert, with any block number that the disperser claims:
\* NoNilFields, ValidFieldLengths and VerifyCommitment may reject it.
AttemptSucceedsV1(v, d, b, n, s) ==
  /\ stage[v] = "disperse"
  /\ backend[v] = "V1"
  /\ ~gone[v]
  /\ Spend(v, d)
  /\ Count(v)
  /\ \/ Start(v, b, n, s) /\ Proceed(v, "verify", "none")
     \/ Return(v, "internal") /\ UNCHANGED vars

\* SendPayload returns a cert it has verified; only V3 certs are serialized.
AttemptSucceedsV2(v, d) ==
  /\ stage[v] = "disperse"
  /\ backend[v] = "V2"
  /\ ~gone[v]
  /\ Spend(v, d)
  /\ Count(v)
  /\ \E e \in {"ok", "internal"} : Return(v, e)
  /\ UNCHANGED vars

\* Mutant: the error of VerifyCert is dropped.
IgnoreVerdict(v) ==
  /\ stage[v] = "verify"
  /\ pc[v] \in Verdicts
  /\ Return(v, "ok")
  /\ UNCHANGED <<vars, used, elapsed>>

\* VerifyCert returned: its errors are untyped, a mismatch after a
\* reorganisation included.
Verified(v) ==
  /\ stage[v] = "verify"
  /\ pc[v] \in Verdicts
  /\ Return(v, IF pc[v] = "accepted" THEN "ok" ELSE "internal")
  /\ UNCHANGED <<vars, used, elapsed>>

-----------------------------------------------------------------------------
(* Get.  The manager has a V1 cert verified after the blob was fetched and *)
(* a V2 cert before.                                                       *)

GetFrom(v, b) ==
  /\ Begin(v, "get", b, "retrieve")
  /\ result' = [result EXCEPT ![v] = "none"]
  /\ UNCHANGED vars

\* V1: the cert decodes, GetBlob delivers and the commitment of the blob is
\* recomputed; otherwise the call fails.
RetrieveV1(v, b, n, s) ==
  /\ stage[v] = "retrieve"
  /\ backend[v] = "V1"
  /\ \/ ~gone[v] /\ Start(v, b, n, s) /\ Proceed(v, "verify", "none")
     \/ \E e \in {"internal", "rateLimited"} : Return(v, e) /\ UNCHANGED vars
  /\ UNCHANGED <<used, elapsed>>

\* V2: the cert decodes and the next retriever delivers, or the loop goes on
\* to "all retrievers failed".
RetrieveV2(v) ==
  /\ stage[v] = "retrieve"
  /\ backend[v] = "V2"
  /\ \/ /\ used[v] < Retrievers
        /\ used' = [used EXCEPT ![v] = @ + 1]
        /\ Proceed(v, "retrieve", "none") \/ (~gone[v] /\ Return(v, "ok"))
     \/ used[v] = Retrievers /\ Return(v, "internal") /\ UNCHANGED used
     \/ used[v] = 0 /\ Return(v, "internal") /\ UNCHANGED used
  /\ UNCHANGED <<vars, elapsed>>

\* How long an attempt may take: it fails or succeeds at once, or at the end.
Durations(v) == {0} \cup {Timeout[b] : b \in Backends \cap {backend[v]}}

\* The steps of call v inside a store.
StoreStep(v) ==
  \/ \E e \in AttemptErrors, d \in Durations(v) : AttemptFails(v, e, d)
  \/ \E d \in Durations(v), b \in Batches, n \in 1..MaxHead, s \in BOOLEAN :
       AttemptSucceedsV1(v, d, b, n, s)
  \/ \E d \in Durations(v) : AttemptSucceedsV2(v, d)
  \/ \E b \in Batches, n \in 1..MaxHead, s \in BOOLEAN : RetrieveV1(v, b, n, s)
  \/ RetrieveV2(v)
  \/ Verified(v)
=============================================================================
