------------------------------ MODULE S3Bucket ------------------------------
(***************************************************************************)
(* store/secondary/s3/s3.go: one bucket that serves the OP keccak pairs    *)
(* and, if s3 is a secondary target, the backups of payloads.              *)
(*                                                                         *)
(* A key is the keccak hash of a byte string and is represented by that    *)
(* string: the hash is taken to be collision free.  The pair of a value is *)
(* stored under the value's hash, a backup under the hash of the cert.     *)
(* A serialized cert is itself a byte string that a client may store as a  *)
(* pair, so the two uses share the keys of certs.                          *)
(***************************************************************************)
CONSTANTS
  Values,      \* byte strings: pairs, serialized certs, payloads
  BackedUp,    \* the serialized certs that this proxy disperses
  PayloadOf,   \* the payload of each of them
  NoObject     \* nothing under this key

ASSUME S3BucketAssumption ==
  /\ BackedUp \subseteq Values
  /\ PayloadOf \in [BackedUp -> Values]
  /\ NoObject \notin Values

VARIABLES
  bucket,      \* the object under each key
  late         \* writes that were reported as failed and may still happen

bucketVars == <<bucket, late>>

InitBucket ==
  /\ bucket = [k \in Values |-> NoObject]
  /\ late = {}

PutObject(k, x) == bucket' = [bucket EXCEPT ![k] = x] /\ UNCHANGED late

\* PutObject reports an error: the request was lost, or only its answer, or it
\* will be carried out later.
PutObjectFails(k, x) ==
  \/ UNCHANGED bucketVars
  \/ PutObject(k, x)
  \/ late' = late \cup {<<k, x>>} /\ UNCHANGED bucket

LateWrite(k, x) ==
  /\ <<k, x>> \in late
  /\ bucket' = [bucket EXCEPT ![k] = x]
  /\ late' = late \ {<<k, x>>}

\* HandleRedundantWrites backs a dispersed payload up.
Backup(c) == PutObject(c, PayloadOf[c]) \/ PutObjectFails(c, PayloadOf[c])

\* Verify: the key is the hash of the value.
Verify(k, x) == k = x
=============================================================================
