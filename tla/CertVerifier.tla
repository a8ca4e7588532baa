---------------------------- MODULE CertVerifier ----------------------------
(***************************************************************************)
(* store/generated_key/eigenda/verify/cert.go and verifier.go: a V1 cert   *)
(* is checked against the batch metadata hash that the EigenDA service     *)
(* manager contract stores on Ethereum, while the chain grows and          *)
(* reorganises.                                                            *)
(*                                                                         *)
(* The contract hashes the block in which a batch was confirmed into the   *)
(* metadata.  A cert that otherwise matches its batch therefore verifies   *)
(* only if it names that very block, and a reorganisation that moves the   *)
(* confirming transaction invalidates it.                                  *)
(*                                                                         *)
(* The chain is external.  Its blocks up to finalized are never replaced,  *)
(* and no reorganisation is deeper than ReorgDepth.                        *)
(***************************************************************************)
EXTENDS Naturals

CONSTANTS
  Calls,                 \* concurrent calls of VerifyCert
  Batches,               \* batch ids
  EthConfirmationDepth,  \* Config.EthConfirmationDepth
  WaitForFinalization,   \* Config.WaitForFinalization
  ReorgDepth,            \* depth of the deepest reorganisation of the chain
  Tries,                 \* attempts of retry.Do, 20 in the code
  MaxHead                \* bound on the length of the chain

\* NewCertVerifier refuses depths of 64 (two epochs) and more.
ASSUME CertVerifierAssumption ==
  /\ Batches # {}
  /\ EthConfirmationDepth \in 0..63
  /\ WaitForFinalization \in BOOLEAN
  /\ ReorgDepth \in Nat
  /\ Tries \in Nat \ {0}
  /\ MaxHead \in Nat

VARIABLES
  head,        \* number of the newest block
  finalized,   \* number of the newest block that will not be replaced
  minedAt,     \* the block that confirmed each batch, 0 if there is none
  pc,          \* where each call is; a verdict once it has returned
  batch,       \* BatchId of the cert it verifies
  conf,        \* the cert's ConfirmationBlockNumber
  sound,       \* do the inclusion proof and the security parameters hold?
  at,          \* the block the contract will be called at
  tries        \* attempts used up

chain == <<head, finalized, minedAt>>
args == <<batch, conf, sound>>
vars == <<chain, pc, args, at, tries>>

Verdicts == {"accepted", "mismatch", "unconfirmed", "unsound"}
Labels == {"idle", "block", "call", "checks"} \cup Verdicts
Blocks == 0..MaxHead

Init ==
  /\ head = 0
  /\ finalized = 0
  /\ minedAt = [b \in Batches |-> 0]
  /\ pc = [v \in Calls |-> "idle"]
  /\ batch = [v \in Calls |-> CHOOSE b \in Batches : TRUE]
  /\ conf = [v \in Calls |-> 0]
  /\ sound = [v \in Calls |-> FALSE]
  /\ at = [v \in Calls |-> 0]
  /\ tries = [v \in Calls |-> 0]

-----------------------------------------------------------------------------
(* Ethereum.                                                               *)

\* A block is appended; it may confirm batches.
Mine ==
  /\ head < MaxHead
  /\ head' = head + 1
  /\ finalized' \in {f \in finalized..(head + 1) : head + 1 <= f + ReorgDepth}
  /\ \E confirmed \in SUBSET {b \in Batches : minedAt[b] = 0} :
       minedAt' = [b \in Batches |-> IF b \in confirmed THEN head + 1 ELSE minedAt[b]]
  /\ UNCHANGED <<pc, args, at, tries>>

\* The blocks above finalized are replaced by a chain that ends at h; the
\* batches they confirmed are confirmed by other blocks or not at all.
Reorg(h) ==
  /\ h \in finalized..head
  /\ head' = h
  /\ minedAt' \in [Batches -> 0..h]
  /\ \A b \in Batches :
       IF minedAt[b] \in 1..finalized THEN minedAt'[b] = minedAt[b]
                                      ELSE minedAt'[b] = 0 \/ minedAt'[b] > finalized
  /\ UNCHANGED <<finalized, pc, args, at, tries>>

-----------------------------------------------------------------------------
(* VerifyCert.                                                             *)

Start(v, b, n, s) ==
  /\ pc[v] \in {"idle"} \cup Verdicts
  /\ pc' = [pc EXCEPT ![v] = "block"]
  /\ batch' = [batch EXCEPT ![v] = b]
  /\ conf' = [conf EXCEPT ![v] = n]
  /\ sound' = [sound EXCEPT ![v] = s]
  /\ at' = [at EXCEPT ![v] = 0]
  /\ tries' = [tries EXCEPT ![v] = 0]
  /\ UNCHANGED chain

\* NewCertVerifier does not copy Config.WaitForFinalization, so the field keeps
\* its zero value.
waitForFinalization == FALSE

\* The block to read, when the node that answers has seen n blocks.
ConfDeep(n) ==
  IF waitForFinalization THEN finalized
  ELSE IF n < EthConfirmationDepth THEN 0 ELSE n - EthConfirmationDepth

\* Nodes may lag behind.
GetConfDeepBlockNumber(v) ==
  /\ pc[v] = "block"
  /\ \E n \in 0..head : at' = [at EXCEPT ![v] = ConfDeep(n)]
  /\ pc' = [pc EXCEPT ![v] = "call"]
  /\ UNCHANGED <<chain, args, tries>>

Found(v) == at[v] <= head /\ minedAt[batch[v]] \in 1..at[v]

\* Mutant: the hash is compared although a younger block holds the batch.
RetrieveAtHead(v) ==
  /\ pc[v] = "call"
  /\ minedAt[batch[v]] > 0
  /\ pc' = [pc EXCEPT ![v] = IF conf[v] = minedAt[batch[v]] THEN "checks" ELSE "mismatch"]
  /\ UNCHANGED <<chain, args, at, tries>>

\* The contract call may reach another node, after a reorganisation: it reads
\* the chain as it is now.  A hash was found: it is compared with the cert's.
\* "mismatch" also stands for a cert whose batch root or record hash is too short:
\* the conversion to [32]byte panics and net/http drops the connection.
RetrieveBatchMetadataHash(v) ==
  /\ pc[v] = "call"
  /\ Found(v)
  /\ pc' = [pc EXCEPT ![v] = IF conf[v] = minedAt[batch[v]] THEN "checks" ELSE "mismatch"]
  /\ UNCHANGED <<chain, args, at, tries>>

\* Mutant: the last attempt is followed by another one.
RetryOnceMore(v) ==
  /\ pc[v] \in {"block", "call"}
  /\ tries' = [tries EXCEPT ![v] = @ + 1]
  /\ pc' = [pc EXCEPT ![v] = IF tries[v] < Tries THEN "block" ELSE "unconfirmed"]
  /\ UNCHANGED <<chain, args, at>>

\* One attempt failed: no hash, no such block, or a call that failed.
Retry(v) ==
  /\ pc[v] \in {"block", "call"}
  /\ tries' = [tries EXCEPT ![v] = @ + 1]
  /\ pc' = [pc EXCEPT ![v] = IF tries[v] + 1 < Tries THEN "block" ELSE "unconfirmed"]
  /\ UNCHANGED <<chain, args, at>>

\* verifyMerkleProof and verifySecurityParams do not read the chain.
VerifyProofAndParams(v) ==
  /\ pc[v] = "checks"
  /\ pc' = [pc EXCEPT ![v] = IF sound[v] THEN "accepted" ELSE "unsound"]
  /\ UNCHANGED <<chain, args, at, tries>>

CallStep(v) ==
  \/ GetConfDeepBlockNumber(v)
  \/ RetrieveBatchMetadataHash(v)
  \/ Retry(v)
  \/ VerifyProofAndParams(v)

Next ==
  \/ Mine
  \/ \E h \in Blocks : Reorg(h)
  \/ \E v \in Calls, b \in Batches, n \in 1..MaxHead, s \in BOOLEAN : Start(v, b, n, s)
  \/ \E v \in Calls : CallStep(v)

Spec == Init /\ [][Next]_vars

-----------------------------------------------------------------------------
(* Properties.                                                             *)

ChainTypes ==
  /\ head \in Nat
  /\ finalized \in Nat
  /\ minedAt \in [Batches -> Nat]

CallTypes ==
  /\ pc \in [Calls -> Labels]
  /\ batch \in [Calls -> Batches]
  /\ conf \in [Calls -> Nat]
  /\ sound \in [Calls -> BOOLEAN]
  /\ at \in [Calls -> Nat]
  /\ tries \in [Calls -> 0..Tries]

\* Every variable ranges over the values the program and the chain can give it.
TypeOK == ChainTypes /\ CallTypes

\* The chain is well formed: batches are confirmed by existing blocks and only
\* the last ReorgDepth blocks may still be replaced.
ChainSound ==
  /\ finalized <= head
  /\ head <= finalized + ReorgDepth
  /\ \A b \in Batches : minedAt[b] <= head

\* verifyBatchConfirmedOnChain reads the contract only at blocks that will not
\* be replaced, although the head it subtracted the depth from may be gone.
ReadsFinalBlocks == \A v \in Calls : pc[v] = "call" => at[v] <= finalized

\* A verdict is final: the cert that was accepted names the block that confirms
\* its batch for ever, and a cert whose hash mismatched will never become valid.
\* A later reorganisation changes neither.
VerdictsAreFinal ==
  \A v \in Calls :
    /\ pc[v] \in {"checks", "accepted"} =>
         minedAt[batch[v]] = conf[v] /\ conf[v] \in 1..finalized
    /\ pc[v] = "mismatch" =>
         minedAt[batch[v]] # conf[v] /\ minedAt[batch[v]] \in 1..finalized

\* A call that has not given up has an attempt left.
TriesLeft == \A v \in Calls : pc[v] \in {"block", "call"} => tries[v] < Tries

\* The conjunction, with TypeOK, is inductive when EthConfirmationDepth covers
\* ReorgDepth.
Finality == ChainSound /\ TriesLeft /\ ReadsFinalBlocks /\ VerdictsAreFinal

\* "waitForFinalization should be used instead of ethConfirmationDepth if the
\* user wants to wait for finality": with the flag set, an accepted cert's batch
\* was confirmed by a finalized block.
AcceptedIsFinalized ==
  WaitForFinalization =>
    \A v \in Calls : pc[v] = "accepted" => minedAt[batch[v]] \in 1..finalized
=============================================================================
