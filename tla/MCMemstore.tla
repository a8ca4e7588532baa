----------------------------- MODULE MCMemstore -----------------------------
(* Small instances of Memstore for TLC.                                    *)
EXTENDS Memstore

CONSTANTS k1, p1, p2, u1

\* PATCHes that change one field (MaxBlobSizeBytes within the SRS), and two that
\* stop at a bad duration, before and after a field that is set.
MCUpdates ==
  {u \in Updates :
     \/ \E f \in DOMAIN u :
          /\ u[f] \notin {Absent, Bad} /\ u = [NoUpdate EXCEPT ![f] = u[f]]
          /\ f = "maxSize" => u[f] <= SRSLength
     \/ u = [NoUpdate EXCEPT !.latency = Bad, !.failover = TRUE]
     \/ u = [NoUpdate EXCEPT !.failover = TRUE, !.expiration = Bad]}
=============================================================================
