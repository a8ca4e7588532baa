------------------------------- MODULE Manager -------------------------------
(***************************************************************************)
(* store/manager.go: the routing layer between the HTTP handlers, the two  *)
(* EigenDA stores (V1 and V2) and the secondary targets.                   *)
(*                                                                         *)
(* A GET runs cache read, EigenDA read, fallback read in this order; a     *)
(* POST disperses to the backend it loaded and then backs the payload up.  *)
(* Either ends in pc = "returned" with err telling the handler how.        *)
(*                                                                         *)
(* The EigenDA network is external.  da records what was dispersed: the    *)
(* payload a cert commits to and the version byte under which the cert     *)
(* decodes (v0: V1 BlobInfo, v1: EigenDACertV2, v2: EigenDACertV3).  The   *)
(* V1 disperser may answer with any payload, the V2 retrieval clients      *)
(* check what they return against the cert.                                *)
(***************************************************************************)
EXTENDS SecondaryManager

CONSTANTS
  Forged,           \* certs that decode but that no dispersal produced
  Stores,           \* the EigenDA stores that are not nil, of "V1" and "V2"
  InitialBackend,   \* the configured dispersal backend
  DAFaults,         \* may calls to EigenDA or Ethereum fail?
  NotDispersed      \* a cert no dispersal has produced

VARIABLES
  op,               \* what a request slot does: "none", "get" or "post"
  ver,              \* version byte of the commitment it reads or returns
  recency,          \* outcome of the recency arithmetic on the GET's arguments
  via,              \* the backend a POST loaded
  err,              \* how the manager call ended
  dispersalBackend, \* Manager.dispersalBackend
  da                \* the EigenDA network

managerVars == <<op, ver, recency, via, err, dispersalBackend, da>>

Backends == {"V1", "V2"}
Versions == {"v0", "v1", "v2"}
Recencies == {"recent", "stale", "impossible"}
Errors == {"oversized", "invalidCert", "rateLimited", "failover", "internal"}

\* NewManager: "Enforce invariants".
ASSUME NewManager ==
  /\ Forged \subseteq Certs
  /\ Stores \subseteq Backends
  /\ InitialBackend \in Stores
  /\ DAFaults \in BOOLEAN
  /\ NotDispersed \notin [ver : Versions, payload : Payloads]

\* The version byte of the certs a backend produces.
VersionOf(backend) == IF backend = "V1" THEN "v0" ELSE "v2"

Committed(c, d) == da[c] # NotDispersed /\ da[c].payload = d
Decodes(c, v) == da[c] # NotDispersed /\ da[c].ver = v

-----------------------------------------------------------------------------
(* Verification.                                                           *)

DAErrors == IF DAFaults THEN {"internal"} ELSE {}

\* Mutant: the payload's commitment is not recomputed.
VerifyV1CertOnly(c, d) ==
  DAErrors \cup {IF Decodes(c, "v0") THEN "none" ELSE "internal"}

\* eigenda/eigenda.go Verify: decodes the cert, recomputes the commitment of
\* the payload, checks the cert against the chain.  Its errors are untyped.
VerifyV1(c, d) ==
  DAErrors \cup {IF Decodes(c, "v0") /\ Committed(c, d) THEN "none" ELSE "internal"}

\* Mutant: the recency check is skipped.
VerifyV2NoRecency(c, v, q) ==
  DAErrors \cup {IF Decodes(c, v) THEN "none" ELSE "invalidCert"}

\* v2/eigenda.go Verify: decodes the cert by its version byte, checks its
\* recency, has the verifier contract check it.  The payload is not looked at.
VerifyV2(c, v, q) ==
  DAErrors \cup
  CASE Decodes(c, v) /\ q = "recent" -> {"none"}
    [] Decodes(c, v) /\ q = "impossible" -> {"internal"}
    [] da[c] = NotDispersed /\ q = "impossible" -> {"internal", "invalidCert"}
    [] OTHER -> {"invalidCert"}

\* getVerifyMethod, applied to the version byte, cert and opts of request r.
Verify(r, d) ==
  IF ver[r] = "v0" THEN VerifyV1(cert[r], d)
                   ELSE VerifyV2(cert[r], ver[r], recency[r])

\* A V2 method is called on a nil store.
CallsNilStore(r) == ver[r] # "v0" /\ "V2" \notin Stores

-----------------------------------------------------------------------------
(* Manager.Get.                                                            *)

\* The guards of Get: there is none for version byte v2.
StoreMissing(v) ==
  \/ v = "v0" /\ "V1" \notin Stores
  \/ v = "v1" /\ "V2" \notin Stores

Return(r, e) ==
  /\ Goto(r, "returned")
  /\ err' = [err EXCEPT ![r] = e]

\* Mutant: the loop over the targets starts at 0.
BeginGetAtZero(r, v, c, q) ==
  /\ op' = [op EXCEPT ![r] = "get"]
  /\ ver' = [ver EXCEPT ![r] = v]
  /\ recency' = [recency EXCEPT ![r] = q]
  /\ cert' = [cert EXCEPT ![r] = c]
  /\ val' = [val EXCEPT ![r] = NoData]
  /\ tier' = [tier EXCEPT ![r] = "cache"]
  /\ idx' = [idx EXCEPT ![r] = 0]
  /\ UNCHANGED <<held, verifyLock, concurrentWrites, via, dispersalBackend, da>>

\* The arguments of a new request replace those of the slot's last one.
BeginGet(r, v, c, q) ==
  /\ op' = [op EXCEPT ![r] = "get"]
  /\ ver' = [ver EXCEPT ![r] = v]
  /\ recency' = [recency EXCEPT ![r] = q]
  /\ cert' = [cert EXCEPT ![r] = c]
  /\ val' = [val EXCEPT ![r] = NoData]
  /\ tier' = [tier EXCEPT ![r] = "cache"]
  /\ idx' = [idx EXCEPT ![r] = 1]
  /\ UNCHANGED <<held, verifyLock, concurrentWrites, via, dispersalBackend, da>>

\* A client asks for a cert it knows: one that was dispersed, or a forged one.
Get(r, v, c, q) ==
  /\ da[c] # NotDispersed \/ c \in Forged
  /\ BeginGet(r, v, c, q)
  /\ \/ StoreMissing(v) /\ Return(r, "internal")
     \/ /\ ~StoreMissing(v)
        /\ Goto(r, IF CachingEnabled THEN "read" ELSE "fetch")
        /\ err' = [err EXCEPT ![r] = "none"]

\* verify runs under verifyLock on an object read from a target.
VerifySource(r) ==
  /\ pc[r] = "verify"
  /\ ~CallsNilStore(r)
  /\ \/ "none" \in Verify(r, val[r]) /\ VerifyAccepts(r)
     \/ Verify(r, val[r]) # {"none"} /\ VerifyRejects(r)
  /\ UNCHANGED managerVars

VerifySourcePanics(r) ==
  /\ CallsNilStore(r)
  /\ VerifyPanics(r)
  /\ UNCHANGED managerVars

\* The caches' error is only logged.
CacheExhausted(r) ==
  /\ ReadExhausted(r)
  /\ tier[r] = "cache"
  /\ Goto(r, "fetch")
  /\ idx' = [idx EXCEPT ![r] = 1]
  /\ UNCHANGED <<cert, val, tier, held, verifyLock, concurrentWrites, managerVars>>

\* EigenDA delivered: back the payload up first when the flag asks for it.
EigenDARead(r, d) ==
  /\ val' = [val EXCEPT ![r] = d]
  /\ Goto(r, IF WriteOnCacheMissEnabled THEN "backup" ELSE "returned")
  /\ UNCHANGED <<tier, idx, err>>

\* EigenDA failed: the fallbacks' outcome replaces its error.
EigenDAFailed(r, e) ==
  /\ val' = [val EXCEPT ![r] = NoData]
  /\ \/ /\ FallbackEnabled
        /\ Goto(r, "read")
        /\ tier' = [tier EXCEPT ![r] = "fallback"]
        /\ idx' = [idx EXCEPT ![r] = 1]
        /\ UNCHANGED err
     \/ ~FallbackEnabled /\ Return(r, e) /\ UNCHANGED <<tier, idx>>

\* What a step of an EigenDA read leaves alone.
readFrame == <<cert, held, verifyLock, concurrentWrites, op, ver, recency, via,
               dispersalBackend, da>>

\* V1: eigenda.Get, then eigenda.Verify of what it returned.  The disperser may
\* limit the rate of GetBlob calls.
GetV1(r) ==
  /\ pc[r] = "fetch"
  /\ ver[r] = "v0"
  /\ \/ \E d \in Payloads :
          /\ Decodes(cert[r], "v0")
          /\ val' = [val EXCEPT ![r] = d]
          /\ Goto(r, "check")
          /\ UNCHANGED <<tier, idx, err>>
     \/ ~Decodes(cert[r], "v0") /\ EigenDAFailed(r, "internal")
     \/ DAFaults /\ \E e \in {"internal", "rateLimited"} : EigenDAFailed(r, e)
  /\ UNCHANGED readFrame

CheckV1(r) ==
  /\ pc[r] = "check"
  /\ ver[r] = "v0"
  /\ \E e \in VerifyV1(cert[r], val[r]) :
       IF e = "none" THEN EigenDARead(r, val[r]) ELSE EigenDAFailed(r, e)
  /\ UNCHANGED readFrame

\* Mutant: every cert is decoded as the newest cert type.
CheckV2AsV3(r) ==
  /\ pc[r] = "fetch"
  /\ ver[r] # "v0"
  /\ ~CallsNilStore(r)
  /\ \E e \in VerifyV2(cert[r], "v2", recency[r]) :
       \/ e = "none" /\ Goto(r, "check") /\ UNCHANGED <<val, tier, idx, err>>
       \/ e # "none" /\ EigenDAFailed(r, e)
  /\ UNCHANGED readFrame

\* V2: eigendaV2.Verify of the cert, then eigendaV2.Get.
CheckV2(r) ==
  /\ pc[r] = "fetch"
  /\ ver[r] # "v0"
  /\ ~CallsNilStore(r)
  /\ \E e \in VerifyV2(cert[r], ver[r], recency[r]) :
       \/ e = "none" /\ Goto(r, "check") /\ UNCHANGED <<val, tier, idx, err>>
       \/ e # "none" /\ EigenDAFailed(r, e)
  /\ UNCHANGED readFrame

CheckV2Panics(r) ==
  /\ pc[r] = "fetch"
  /\ CallsNilStore(r)
  /\ Abort(r)
  /\ UNCHANGED <<held, verifyLock, concurrentWrites, managerVars>>

GetV2(r) ==
  /\ pc[r] = "check"
  /\ ver[r] # "v0"
  /\ \/ EigenDARead(r, da[cert[r]].payload)
     \/ DAFaults /\ EigenDAFailed(r, "internal")
  /\ UNCHANGED readFrame

\* Mutant: the fallbacks' error is only logged, like the caches' error.
FallbackErrorLost(r) ==
  /\ ReadExhausted(r)
  /\ tier[r] = "fallback"
  /\ Return(r, "none")
  /\ UNCHANGED <<val, tier, idx, readFrame>>

FallbackExhausted(r) ==
  /\ ReadExhausted(r)
  /\ tier[r] = "fallback"
  /\ Return(r, "internal")
  /\ UNCHANGED <<val, tier, idx, readFrame>>

-----------------------------------------------------------------------------
(* Manager.Put.  The cert a dispersal will produce is fixed when it starts *)
(* (a prophecy that spares the model a bound on dispersals in flight).     *)

FreshCert(c) ==
  /\ c \notin Forged
  /\ da[c] = NotDispersed
  /\ \A r \in Requests : pc[r] = "disperse" => cert[r] # c

\* putToCorrectEigenDABackend loads the backend once.
Put(r, d, c) ==
  /\ FreshCert(c)
  /\ op' = [op EXCEPT ![r] = "post"]
  /\ cert' = [cert EXCEPT ![r] = c]
  /\ val' = [val EXCEPT ![r] = d]
  /\ via' = [via EXCEPT ![r] = dispersalBackend]
  /\ \/ dispersalBackend \notin Stores /\ Return(r, "internal")
     \/ /\ dispersalBackend \in Stores
        /\ Goto(r, "disperse")
        /\ err' = [err EXCEPT ![r] = "none"]
  /\ UNCHANGED <<tier, idx, held, verifyLock, concurrentWrites, ver, recency,
                 dispersalBackend, da>>

Disperse(r) ==
  /\ pc[r] = "disperse"
  /\ da' = [da EXCEPT ![cert[r]] = [ver |-> VersionOf(via[r]), payload |-> val[r]]]
  /\ Goto(r, IF Enabled THEN "backup" ELSE "returned")
  /\ UNCHANGED <<cert, val, tier, idx, held, verifyLock, concurrentWrites, op, ver,
                 recency, via, err, dispersalBackend>>

\* Only the V1 store checks the size of the encoded blob itself.
PutErrors(backend) ==
  (IF backend = "V1" THEN {"oversized"} ELSE {})
    \cup (IF DAFaults THEN {"rateLimited", "failover", "internal"} ELSE {})

\* Mutants: the error of the store's Put is dropped, with and without backup.
DisperseErrorLost(r) ==
  /\ pc[r] = "disperse"
  /\ PutErrors(via[r]) # {}
  /\ Return(r, "none")
  /\ UNCHANGED <<val, tier, idx, readFrame>>

DisperseErrorBackedUp(r) ==
  /\ pc[r] = "disperse"
  /\ PutErrors(via[r]) # {}
  /\ Goto(r, "backup")
  /\ UNCHANGED <<val, tier, idx, err, readFrame>>

DisperseFails(r) ==
  /\ pc[r] = "disperse"
  /\ \E e \in PutErrors(via[r]) : Return(r, e)
  /\ UNCHANGED <<val, tier, idx, readFrame>>

\* Another proxy, or an earlier version of this one, disperses to the network.
DisperseElsewhere(c, v, d) ==
  /\ FreshCert(c)
  /\ da' = [da EXCEPT ![c] = [ver |-> v, payload |-> d]]
  /\ UNCHANGED <<secondaryVars, op, ver, recency, via, err, dispersalBackend>>

-----------------------------------------------------------------------------
(* backupToSecondary.                                                      *)

\* AsyncWriteEntry reads concurrentWrites without synchronising with the
\* goroutine that sets it, so it may still see the initial FALSE.
BackupToSecondary(r) ==
  /\ pc[r] = "backup"
  /\ \E async \in {concurrentWrites, FALSE} :
       Goto(r, IF async THEN "send" ELSE "write")
  /\ idx' = [idx EXCEPT ![r] = 1]
  /\ UNCHANGED <<cert, val, tier, held, verifyLock, concurrentWrites, managerVars>>

SyncBackupDone(r) ==
  /\ WriteFinished(r)
  /\ Goto(r, "returned")
  /\ UNCHANGED <<cert, val, tier, idx, held, verifyLock, concurrentWrites, managerVars>>

SetDispersalBackend(backend) ==
  /\ dispersalBackend' = backend
  /\ UNCHANGED <<secondaryVars, op, ver, recency, via, err, da>>
=============================================================================
