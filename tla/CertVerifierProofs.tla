------------------------- MODULE CertVerifierProofs -------------------------
(***************************************************************************)
(* Verdicts on V1 certs are final for every number of concurrent calls and *)
(* batches, every chain length and every number of attempts, provided that *)
(* EthConfirmationDepth covers the deepest reorganisation.                 *)
(***************************************************************************)
EXTENDS CertVerifier, TLAPS

USE CertVerifierAssumption

\* The initial state satisfies the inductive invariant.
LEMMA InitFinality ==
  ASSUME Init
  PROVE  TypeOK /\ Finality
<1>1. TypeOK
  BY DEF Init, TypeOK, ChainTypes, CallTypes, Labels
<1>2. Finality
  BY DEF Init, Finality, ChainSound, TriesLeft, ReadsFinalBlocks, VerdictsAreFinal
<1>3. QED
  BY <1>1, <1>2

\* getConfDeepBlockNumber: the block it yields is final, no matter how far the
\* node that answers lags behind.
LEMMA ConfDeepIsFinal ==
  ASSUME TypeOK, ChainSound, EthConfirmationDepth >= ReorgDepth, NEW n \in 0..head
  PROVE  ConfDeep(n) \in Nat /\ ConfDeep(n) <= finalized
BY DEF ConfDeep, waitForFinalization, TypeOK, ChainTypes, ChainSound

\* Steps of the chain: it stays well formed, finalized only grows, and what
\* final blocks confirmed stays confirmed by them.
LEMMA ChainStep ==
  ASSUME TypeOK, ChainSound, Mine \/ \E h \in Blocks : Reorg(h)
  PROVE  /\ ChainTypes'
         /\ ChainSound'
         /\ finalized <= finalized'
         /\ \A b \in Batches : minedAt[b] \in 1..finalized => minedAt'[b] = minedAt[b]
         /\ UNCHANGED <<pc, batch, conf, sound, at, tries>>
<1>1. CASE Mine
  <2>1. /\ head \in Nat /\ finalized \in Nat /\ ReorgDepth \in Nat
        /\ minedAt \in [Batches -> Nat]
        /\ \A b \in Batches : minedAt[b] <= head
    BY DEF TypeOK, ChainTypes, ChainSound
  <2>2. /\ head' = head + 1
        /\ finalized' \in finalized..(head + 1)
        /\ head + 1 <= finalized' + ReorgDepth
        /\ UNCHANGED <<pc, batch, conf, sound, at, tries>>
    BY <1>1 DEF Mine, args
  <2>3. PICK confirmed \in SUBSET {b \in Batches : minedAt[b] = 0} :
          minedAt' = [b \in Batches |-> IF b \in confirmed THEN head + 1 ELSE minedAt[b]]
    BY <1>1 DEF Mine
  <2>4. \A b \in Batches : \/ minedAt'[b] = minedAt[b]
                           \/ minedAt[b] = 0 /\ minedAt'[b] = head + 1
    BY <2>3
  <2>5. minedAt' \in [Batches -> Nat]
    BY <2>1, <2>3
  <2>6. /\ head' \in Nat
        /\ finalized' \in Nat
        /\ finalized <= finalized'
        /\ finalized' <= head'
        /\ head' <= finalized' + ReorgDepth
    <3>1. head' = head + 1 /\ finalized' \in finalized..(head + 1)
      BY <2>2
    <3>2. head \in Nat /\ finalized \in Nat
      BY <2>1
    <3>3. head' \in Nat /\ finalized' \in Nat
      BY <3>1, <3>2
    <3>4. finalized <= finalized'
      BY <3>1, <3>2
    <3>5. finalized' <= head'
      BY <3>1, <3>2
    <3>6. head' <= finalized' + ReorgDepth
      BY <2>2
    <3>7. QED
      BY <3>3, <3>4, <3>5, <3>6
  <2>7. \A b \in Batches : minedAt'[b] <= head'
    BY <2>1, <2>2, <2>4
  <2>8. \A b \in Batches : minedAt[b] \in 1..finalized => minedAt'[b] = minedAt[b]
    BY <2>1, <2>4
  <2>9. QED
    BY <2>2, <2>5, <2>6, <2>7, <2>8 DEF ChainTypes, ChainSound
<1>2. CASE \E h \in Blocks : Reorg(h)
  BY <1>2 DEF Reorg, Blocks, TypeOK, ChainTypes, ChainSound, args
<1>3. QED
  BY <1>1, <1>2

\* Steps of the chain preserve the invariant.
LEMMA ChainFinality ==
  ASSUME TypeOK, Finality, Mine \/ \E h \in Blocks : Reorg(h)
  PROVE  TypeOK' /\ Finality'
<1> USE ChainStep DEF Finality
<1>1. TypeOK'
  BY DEF TypeOK, CallTypes
<1>2. ReadsFinalBlocks' /\ TriesLeft'
  BY DEF ReadsFinalBlocks, TriesLeft, TypeOK, ChainTypes, CallTypes
<1>3. VerdictsAreFinal'
  BY DEF VerdictsAreFinal, TypeOK, ChainTypes, CallTypes
<1>4. QED
  BY <1>1, <1>2, <1>3

\* Steps of a call preserve the invariant.
LEMMA CallFinality ==
  ASSUME TypeOK, Finality, EthConfirmationDepth >= ReorgDepth, NEW v \in Calls,
         \/ \E b \in Batches, n \in 1..MaxHead, s \in BOOLEAN : Start(v, b, n, s)
         \/ CallStep(v)
  PROVE  TypeOK' /\ Finality'
<1> USE DEF TypeOK, ChainTypes, CallTypes, Finality, chain, args
<1>1. UNCHANGED <<head, finalized, minedAt>> /\ ChainTypes' /\ ChainSound'
  BY DEF Start, CallStep, GetConfDeepBlockNumber, RetrieveBatchMetadataHash, Retry,
         VerifyProofAndParams, ChainSound
<1>2. CASE \E b \in Batches, n \in 1..MaxHead, s \in BOOLEAN : Start(v, b, n, s)
  <2>1. PICK b \in Batches, n \in 1..MaxHead, s \in BOOLEAN : Start(v, b, n, s)
    BY <1>2
  <2>2. CallTypes'
    BY <2>1 DEF Start, Labels
  <2>3. TriesLeft' /\ ReadsFinalBlocks' /\ VerdictsAreFinal'
    BY <1>1, <2>1 DEF Start, TriesLeft, ReadsFinalBlocks, VerdictsAreFinal
  <2>4. QED
    BY <1>1, <2>2, <2>3
<1>3. CASE GetConfDeepBlockNumber(v)
  <2>1. PICK n \in 0..head : at' = [at EXCEPT ![v] = ConfDeep(n)]
    BY <1>3 DEF GetConfDeepBlockNumber
  <2>2. ConfDeep(n) \in Nat /\ ConfDeep(n) <= finalized
    BY ConfDeepIsFinal
  <2>3. CallTypes'
    BY <1>3, <2>1, <2>2 DEF GetConfDeepBlockNumber, Labels
  <2>4. TriesLeft' /\ ReadsFinalBlocks' /\ VerdictsAreFinal'
    BY <1>1, <1>3, <2>1, <2>2
    DEF GetConfDeepBlockNumber, TriesLeft, ReadsFinalBlocks, VerdictsAreFinal
  <2>5. QED
    BY <1>1, <2>3, <2>4
<1>4. CASE RetrieveBatchMetadataHash(v)
  <2>1. CallTypes'
    BY <1>4 DEF RetrieveBatchMetadataHash, Labels, Verdicts
  <2>2. minedAt[batch[v]] \in 1..finalized
    BY <1>4 DEF RetrieveBatchMetadataHash, Found, ReadsFinalBlocks
  <2>3. TriesLeft' /\ ReadsFinalBlocks' /\ VerdictsAreFinal'
    BY <1>1, <1>4, <2>2
    DEF RetrieveBatchMetadataHash, TriesLeft, ReadsFinalBlocks, VerdictsAreFinal
  <2>4. QED
    BY <1>1, <2>1, <2>3
<1>5. CASE Retry(v)
  <2>1. CallTypes'
    BY <1>5 DEF Retry, Labels, Verdicts, TriesLeft
  <2>2. TriesLeft' /\ ReadsFinalBlocks' /\ VerdictsAreFinal'
    BY <1>1, <1>5 DEF Retry, TriesLeft, ReadsFinalBlocks, VerdictsAreFinal
  <2>3. QED
    BY <1>1, <2>1, <2>2
<1>6. CASE VerifyProofAndParams(v)
  <2>1. CallTypes'
    BY <1>6 DEF VerifyProofAndParams, Labels, Verdicts
  <2>2. TriesLeft' /\ ReadsFinalBlocks' /\ VerdictsAreFinal'
    BY <1>1, <1>6 DEF VerifyProofAndParams, TriesLeft, ReadsFinalBlocks, VerdictsAreFinal
  <2>3. QED
    BY <1>1, <2>1, <2>2
<1>7. QED
  BY <1>2, <1>3, <1>4, <1>5, <1>6 DEF CallStep

\* Types and attempts do not depend on the confirmation depth.
LEMMA StepTypes ==
  ASSUME TypeOK, TriesLeft, [Next]_vars
  PROVE  TypeOK' /\ TriesLeft'
<1> USE DEF TypeOK, ChainTypes, CallTypes, TriesLeft, chain, args
<1>1. CASE Mine
  <2>1. PICK confirmed \in SUBSET {b \in Batches : minedAt[b] = 0} :
          minedAt' = [b \in Batches |-> IF b \in confirmed THEN head + 1 ELSE minedAt[b]]
    BY <1>1 DEF Mine
  <2>2. head' = head + 1 /\ finalized' \in finalized..(head + 1)
    BY <1>1 DEF Mine
  <2>3. head' \in Nat /\ finalized' \in Nat
    BY <2>2
  <2>4. minedAt' \in [Batches -> Nat]
    BY <2>1
  <2>5. QED
    BY <1>1, <2>3, <2>4 DEF Mine
<1>2. CASE \E h \in Blocks : Reorg(h)
  BY <1>2 DEF Reorg, Blocks
<1>3. CASE \E v \in Calls, b \in Batches, n \in 1..MaxHead, s \in BOOLEAN : Start(v, b, n, s)
  BY <1>3 DEF Start, Labels
<1>4. ASSUME NEW v \in Calls, CallStep(v) PROVE TypeOK' /\ TriesLeft'
  <2>1. CASE GetConfDeepBlockNumber(v)
    <3>1. PICK n \in 0..head : at' = [at EXCEPT ![v] = ConfDeep(n)]
      BY <2>1 DEF GetConfDeepBlockNumber
    <3>2. ConfDeep(n) \in Nat
      BY DEF ConfDeep, waitForFinalization
    <3>3. QED
      BY <2>1, <3>1, <3>2 DEF GetConfDeepBlockNumber, Labels
  <2>2. CASE RetrieveBatchMetadataHash(v)
    BY <2>2 DEF RetrieveBatchMetadataHash, Labels, Verdicts
  <2>3. CASE Retry(v)
    BY <2>3 DEF Retry, Labels, Verdicts
  <2>4. CASE VerifyProofAndParams(v)
    BY <2>4 DEF VerifyProofAndParams, Labels, Verdicts
  <2>5. QED
    BY <1>4, <2>1, <2>2, <2>3, <2>4 DEF CallStep
<1>5. CASE UNCHANGED vars
  BY <1>5 DEF vars
<1>6. QED
  BY <1>1, <1>2, <1>3, <1>4, <1>5 DEF Next

\* Every variable keeps its type, whatever the confirmation depth.
THEOREM VerifierTypes == Spec => []TypeOK
<1>1. Init => TypeOK /\ TriesLeft
  BY InitFinality DEF Finality
<1>2. TypeOK /\ TriesLeft /\ [Next]_vars => (TypeOK /\ TriesLeft)'
  BY StepTypes
<1>3. QED
  BY <1>1, <1>2, PTL DEF Spec

\* The inductive invariant holds in every reachable state.
THEOREM FinalityInvariant ==
  ASSUME EthConfirmationDepth >= ReorgDepth
  PROVE  Spec => [](TypeOK /\ Finality)
<1>1. Init => TypeOK /\ Finality
  BY InitFinality
<1>2. TypeOK /\ Finality /\ [Next]_vars => TypeOK' /\ Finality'
  <2> SUFFICES ASSUME TypeOK, Finality, [Next]_vars
               PROVE  TypeOK' /\ Finality'
    OBVIOUS
  <2>1. CASE Next
    BY <2>1, ChainFinality, CallFinality DEF Next
  <2>2. CASE UNCHANGED vars
    BY <2>2 DEF vars, chain, args, TypeOK, ChainTypes, CallTypes, Finality, ChainSound,
                TriesLeft, ReadsFinalBlocks, VerdictsAreFinal
  <2>3. QED
    BY <2>1, <2>2
<1>3. QED
  BY <1>1, <1>2, PTL DEF Spec

\* A verdict of VerifyCert is final when the confirmation depth covers the
\* deepest reorganisation: an accepted V1 cert stays valid, a mismatched one
\* stays invalid.
THEOREM VerdictsFinal ==
  ASSUME EthConfirmationDepth >= ReorgDepth
  PROVE  Spec => []VerdictsAreFinal
<1>1. TypeOK /\ Finality => VerdictsAreFinal
  BY DEF Finality
<1>2. QED
  BY <1>1, FinalityInvariant, PTL
=============================================================================
