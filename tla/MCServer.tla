------------------------------ MODULE MCServer ------------------------------
(* Small instances of Server for TLC.                                      *)
EXTENDS Server, TLC

CONSTANTS r1, r2, c1, c2, p1, p2, w1, redis, s3

\* Requests, certs and payloads are interchangeable: no action or invariant
\* names one of them.  Each cfg uses the part that fits its constants.
SymmetryR == Permutations({r1, r2})
Symmetry == SymmetryR \cup Permutations({c1, c2}) \cup Permutations({p1, p2})

\* Sequences of targets.
MCNoTargets == <<>>
MCRedis == <<redis>>
MCS3 == <<s3>>
MCRedisS3 == <<redis, s3>>
=============================================================================
