----------------------------- MODULE CertChecks -----------------------------
(***************************************************************************)
(* The checks of a cert that read no chain state: quorum parameters and    *)
(* inclusion proof of V1 certs (store/generated_key/eigenda/verify), and   *)
(* the recency of V2 certs (store/generated_key/v2/eigenda.go).            *)
(***************************************************************************)
EXTENDS Naturals, Sequences

CONSTANT Uint64     \* 2^64: block numbers and the recency window wrap here

ASSUME Uint64Assumption == Uint64 \in Nat \ {0}

-----------------------------------------------------------------------------
(* getQuorumParametersAtLatestBlock and verifySecurityParams.              *)

\* The constructor refuses required quorums without threshold; quorum q has the
\* threshold thresholds[q + 1].
ParametersAccepted(required, thresholds) ==
  \A q \in required : q + 1 \in DOMAIN thresholds

\* For a range of blocks on Holesky only quorum 0 was required.
RequiredQuorum(required, exception) == IF exception THEN {0} ELSE required

\* Mutant: the signed stake is compared with the adversary threshold.
QuorumMeetsAdversary(p, number, signed, thresholds) ==
  /\ number = p.quorum
  /\ p.adversary <= p.confirmation
  /\ p.quorum + 1 \in DOMAIN thresholds => p.adversary >= thresholds[p.quorum + 1]
  /\ signed >= p.adversary

\* One round of the loop; a quorum without threshold is only logged.
QuorumMeets(p, number, signed, thresholds) ==
  /\ number = p.quorum
  /\ p.adversary <= p.confirmation
  /\ p.quorum + 1 \in DOMAIN thresholds => p.adversary >= thresholds[p.quorum + 1]
  /\ signed >= p.confirmation

\* The loop has passed the rounds up to n.  The batch header is one confirmed on
\* chain, so that it has one signed percentage per quorum number.
RoundsPass(n, params, batch, thresholds) ==
  \A i \in 1..n : QuorumMeets(params[i], batch[i].quorum, batch[i].signed, thresholds)

\* A blob with more quorums than its batch makes the loop index out of range.
VerifySecurityParams(params, batch, thresholds, required, exception) ==
  IF Len(params) > Len(batch) /\ RoundsPass(Len(batch), params, batch, thresholds)
  THEN "panic"
  ELSE IF Len(params) <= Len(batch)
            /\ RoundsPass(Len(params), params, batch, thresholds)
            /\ \A q \in RequiredQuorum(required, exception) :
                 \E i \in DOMAIN params : params[i].quorum = q
  THEN "ok"
  ELSE "error"

\* An accepted cert is backed by enough stake in every required quorum: the
\* stake that signed covers the confirmation threshold of the blob, that one the
\* adversary threshold of the blob, and that one the threshold of the contract.
\* The loop lets a quorum without threshold pass, but never a required one,
\* because the constructor refused such parameters.
SecurityMargin(params, batch, thresholds, required, exception) ==
  /\ ParametersAccepted(required, thresholds)
  /\ VerifySecurityParams(params, batch, thresholds, required, exception) = "ok"
  => \A q \in RequiredQuorum(required, exception) :
       \E i \in DOMAIN params :
         /\ params[i].quorum = q /\ batch[i].quorum = q
         /\ batch[i].signed >= params[i].confirmation
         /\ params[i].confirmation >= params[i].adversary
         /\ q + 1 \in DOMAIN thresholds => params[i].adversary >= thresholds[q + 1]
         /\ ~exception => q + 1 \in DOMAIN thresholds

-----------------------------------------------------------------------------
(* verifyMerkleProof and ProcessInclusionProof, with hashes as terms: two  *)
(* hashes are equal only if their inputs are.  A leaf of the batch is the  *)
(* double hash of a blob header.                                           *)

HashEncodeBlobHeader(header) == <<"leaf", header>>
Keccak256Hash(left, right) == <<"node", left, right>>

\* Mutant: the index is not halved.
CombineKeepsIndex(h, element, index) ==
  [hash |-> IF index % 2 = 0 THEN Keccak256Hash(h, element) ELSE Keccak256Hash(element, h),
   index |-> index]

Combine(h, element, index) ==
  [hash |-> IF index % 2 = 0 THEN Keccak256Hash(h, element) ELSE Keccak256Hash(element, h),
   index |-> index \div 2]

\* The walk from the leaf up, one element of the proof at a time.
Walk(proof, leaf, index) ==
  LET walk[n \in 0..Len(proof)] ==
        IF n = 0 THEN [hash |-> leaf, index |-> index]
        ELSE Combine(walk[n - 1].hash, proof[n], walk[n - 1].index)
  IN walk

ProcessInclusionProof(proof, leaf, index) == Walk(proof, leaf, index)[Len(proof)].hash

\* A proof is its words of 32 bytes and the number of bytes left over.
VerifyMerkleProof(proof, rest, root, index, header) ==
  rest = 0 /\ root = ProcessInclusionProof(proof, HashEncodeBlobHeader(header), index)

\* Reference: the number of leaves of a full tree of depth d, 2^d, and the nodes of
\* the tree over as many headers, by height and position; headers[1] is the leftmost.
Leaves[d \in Nat] == IF d = 0 THEN 1 ELSE 2 * Leaves[d - 1]

Tree(headers, depth) ==
  LET node[h \in 0..depth] ==
        [i \in 0..(Leaves[depth - h] - 1) |->
           IF h = 0 THEN HashEncodeBlobHeader(headers[i + 1])
           ELSE Keccak256Hash(node[h - 1][2 * i], node[h - 1][2 * i + 1])]
  IN node

Root(headers, depth) == Tree(headers, depth)[depth][0]

\* The sibling of every node on the way up from position index.
ProofOf(headers, depth, index) ==
  [h \in 1..depth |->
     LET i == index \div Leaves[h - 1]
     IN Tree(headers, depth)[h - 1][IF i % 2 = 0 THEN i + 1 ELSE i - 1]]

\* An accepted proof shows that the header is in the batch at its index, of which
\* the walk only looks at the last depth bits, and it is the proof of that
\* position: no shorter, longer or re-ordered one is accepted.
MerkleSound(headers, depth, proof, rest, index, header) ==
  LET i == index % Leaves[depth]
  IN VerifyMerkleProof(proof, rest, Root(headers, depth), index, header)
     <=> rest = 0 /\ header = headers[i + 1] /\ proof = ProofOf(headers, depth, i)

-----------------------------------------------------------------------------
(* verifyCertRBNRecencyCheck.                                              *)

\* Mutant: a cert included in its reference block is accepted.
RecencyFromRBN(certRBN, certL1IBN, window) ==
  IF certL1IBN = 0 \/ window = 0 THEN "ok"
  ELSE IF certRBN = 0 \/ certL1IBN < certRBN THEN "error"
  ELSE IF ~(certL1IBN <= (certRBN + window) % Uint64) THEN "stale"
  ELSE "ok"

\* "stale" becomes the status 418; the two impossible cases are plain errors.
VerifyCertRBNRecencyCheck(certRBN, certL1IBN, window) ==
  IF certL1IBN = 0 \/ window = 0 THEN "ok"
  ELSE IF certRBN = 0 \/ certL1IBN <= certRBN THEN "error"
  ELSE IF ~(certL1IBN <= (certRBN + window) % Uint64) THEN "stale"
  ELSE "ok"

\* "Certs that do not respect the below equation are discarded: certRBN <
\* certL1IBN <= certRBN + RBNRecencyWindowSize."  The others are accepted, except
\* where the sum is not a uint64: it wraps to a block before certRBN, and every cert
\* is discarded as stale, also those that the equation calls valid.
RecencyWindow(certRBN, certL1IBN, window) ==
  LET checked == certL1IBN # 0 /\ window # 0
      recent == certRBN # 0 /\ certRBN < certL1IBN /\ certL1IBN <= certRBN + window
      wraps == certRBN + window >= Uint64
      verdict == VerifyCertRBNRecencyCheck(certRBN, certL1IBN, window)
  IN checked =>
       /\ verdict = "ok" <=> recent /\ ~wraps
       /\ recent /\ wraps => verdict = "stale"
=============================================================================
