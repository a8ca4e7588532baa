---------------------------- MODULE BlobService ----------------------------
(***************************************************************************)
(* What the proxy promises its clients: a write-once map from certs to     *)
(* payloads.  A POST is answered with a cert under which the posted        *)
(* payload is stored, a GET with the payload stored under its cert, and    *)
(* any request may fail.  Caches, fallbacks, goroutines and restarts do    *)
(* not show.                                                               *)
(***************************************************************************)
CONSTANTS Certs, Payloads, Requests, NoCert, NoData

VARIABLES
  blobs,   \* the payload stored under each cert
  reply    \* the last answer each request slot got

Pending == [kind |-> "pending", cert |-> NoCert, payload |-> NoData]
Failed == [kind |-> "failed", cert |-> NoCert, payload |-> NoData]

Init ==
  /\ blobs = [c \in Certs |-> NoData]
  /\ reply = [r \in Requests |-> Pending]

Store(c, d) ==
  /\ blobs[c] = NoData
  /\ blobs' = [blobs EXCEPT ![c] = d]
  /\ UNCHANGED reply

Ask(r) ==
  /\ reply' = [reply EXCEPT ![r] = Pending]
  /\ UNCHANGED blobs

\* kind "post": r's payload is stored under c; kind "get": r asked for c.
Deliver(r, kind, c) ==
  /\ reply[r] = Pending
  /\ blobs[c] # NoData
  /\ reply' = [reply EXCEPT ![r] = [kind |-> kind, cert |-> c, payload |-> blobs[c]]]
  /\ UNCHANGED blobs

Fail(r) ==
  /\ reply' = [reply EXCEPT ![r] = Failed]
  /\ UNCHANGED blobs

Next ==
  \/ \E c \in Certs, d \in Payloads : Store(c, d)
  \/ \E r \in Requests : Ask(r) \/ Fail(r)
  \/ \E r \in Requests, kind \in {"post", "get"}, c \in Certs : Deliver(r, kind, c)

Spec == Init /\ [][Next]_<<blobs, reply>>
=============================================================================
