------------------------------- MODULE Server -------------------------------
(***************************************************************************)
(* server/handlers_cert.go, server/handlers_misc.go, server/middleware and *)
(* cmd/server/entrypoint.go on top of Manager: requests are accepted,      *)
(* answered with an HTTP status, the dispersal backend is switched through *)
(* the admin API, and the process shuts down, crashes and restarts.        *)
(***************************************************************************)
EXTENDS Manager

CONSTANTS
  AdminEnabled,     \* is "admin" among the enabled APIs?
  MaxRestarts,      \* bound on process restarts
  UsedVersions,     \* bound: version bytes of the commitments in use
  OthersVersions,   \* bound: version bytes of the certs of other proxies
  UsedRecencies,    \* bound: recency outcomes of the GETs in use
  NoStatus          \* a request that has no answer

ASSUME ServerAssumption ==
  /\ AdminEnabled \in BOOLEAN
  /\ MaxRestarts \in Nat
  /\ UsedVersions \subseteq Versions
  /\ OthersVersions \subseteq Versions
  /\ UsedRecencies \subseteq Recencies
  /\ NoStatus \notin Nat

VARIABLES
  status,           \* HTTP status each request slot was last answered with
  life,             \* "up", "draining" (Server.Stop), "cancelled" (ctxCancel)
  restarts

vars == <<secondaryVars, managerVars, status, life, restarts>>

Labels == {"idle", "read", "lock", "verify", "fetch", "check", "disperse", "backup",
           "send", "write", "returned", "done", "aborted", "start", "select", "stopped"}

\* A slot between two requests.
Free(r) == pc[r] \in {"idle", "done", "aborted"}
Accepting(r) == life = "up" /\ Free(r)

\* Mutant: cert validation errors are answered like other client errors.
StatusOfNoTeapot(e) ==
  CASE e = "none"        -> 200
    [] e = "oversized"   -> 400
    [] e = "invalidCert" -> 400
    [] e = "rateLimited" -> 429
    [] e = "failover"    -> 503
    [] OTHER             -> 500

\* middleware/error.go withErrorHandling.
StatusOf(e) ==
  CASE e = "none"        -> 200
    [] e = "oversized"   -> 400
    [] e = "invalidCert" -> 418
    [] e = "rateLimited" -> 429
    [] e = "failover"    -> 503
    [] OTHER             -> 500

Init ==
  /\ pc = [p \in Procs |-> IF p \in Requests THEN "idle" ELSE "start"]
  /\ cert = [p \in Procs |-> NoCert]
  /\ val = [p \in Procs |-> NoData]
  /\ tier = [p \in Procs |-> "cache"]
  /\ idx = [p \in Procs |-> 1]
  /\ held = [s \in Sources |-> [c \in Certs |-> NoData]]
  /\ verifyLock = NoProc
  /\ concurrentWrites = FALSE
  /\ op = [r \in Requests |-> "none"]
  /\ ver = [r \in Requests |-> "v0"]
  /\ recency = [r \in Requests |-> "recent"]
  /\ via = [r \in Requests |-> InitialBackend]
  /\ err = [r \in Requests |-> "none"]
  /\ dispersalBackend = InitialBackend
  /\ da = [c \in Certs |-> NotDispersed]
  /\ status = [r \in Requests |-> NoStatus]
  /\ life = "up"
  /\ restarts = 0

-----------------------------------------------------------------------------
(* Handlers.                                                               *)

\* The response is written and the locals of the handler go out of scope; the
\* slot keeps what was asked and answered until its next request.
Answer(r, s) ==
  /\ Goto(r, "done")
  /\ status' = [status EXCEPT ![r] = s]
  /\ val' = [val EXCEPT ![r] = IF s = 200 THEN @ ELSE NoData]
  /\ tier' = [tier EXCEPT ![r] = "cache"]
  /\ idx' = [idx EXCEPT ![r] = 1]
  /\ via' = [via EXCEPT ![r] = InitialBackend]
  /\ err' = [err EXCEPT ![r] = "none"]

\* The path, a hex string or a query parameter does not parse, or the body
\* exceeds its limit: 400 before the manager is called.
RejectRequest(r) ==
  /\ Accepting(r)
  /\ Answer(r, 400)
  /\ op' = [op EXCEPT ![r] = "none"]
  /\ cert' = [cert EXCEPT ![r] = NoCert]
  /\ UNCHANGED <<held, verifyLock, concurrentWrites, ver, recency, dispersalBackend, da,
                 life, restarts>>

\* handleGetShared.
HandleGet(r, v, c, q) ==
  /\ Accepting(r)
  /\ Get(r, v, c, q)
  /\ status' = [status EXCEPT ![r] = NoStatus]
  /\ UNCHANGED <<life, restarts>>

RespondGet(r) ==
  /\ pc[r] = "returned"
  /\ op[r] = "get"
  /\ Answer(r, StatusOf(err[r]))
  /\ UNCHANGED <<cert, held, verifyLock, concurrentWrites, op, ver, recency,
                 dispersalBackend, da, life, restarts>>

\* handlePostShared.
HandlePost(r, d, c) ==
  /\ Accepting(r)
  /\ Put(r, d, c)
  /\ status' = [status EXCEPT ![r] = NoStatus]
  /\ UNCHANGED <<life, restarts>>

\* Mutant: the version byte is not adapted to the backend.
RespondPostAsV0(r) ==
  /\ pc[r] = "returned"
  /\ op[r] = "post"
  /\ Answer(r, StatusOf(err[r]))
  /\ ver' = [ver EXCEPT ![r] = "v0"]
  /\ UNCHANGED <<cert, held, verifyLock, concurrentWrites, op, recency,
                 dispersalBackend, da, life, restarts>>

\* The backend is read a second time to choose the version byte.
RespondPost(r) ==
  /\ pc[r] = "returned"
  /\ op[r] = "post"
  /\ Answer(r, StatusOf(err[r]))
  /\ ver' = [ver EXCEPT ![r] = IF err[r] = "none" THEN VersionOf(dispersalBackend) ELSE @]
  /\ UNCHANGED <<cert, held, verifyLock, concurrentWrites, op, recency,
                 dispersalBackend, da, life, restarts>>

\* handleSetEigenDADispersalBackend: any backend name that parses is stored.
HandleSetBackend(backend) ==
  /\ AdminEnabled
  /\ life = "up"
  /\ backend # dispersalBackend
  /\ SetDispersalBackend(backend)
  /\ UNCHANGED <<status, life, restarts>>

-----------------------------------------------------------------------------
(* StartProxySvr: after an interrupt the deferred calls run in the order   *)
(* proxyServer.Stop, ctxCancel; then the process ends.                     *)

Stop ==
  /\ life = "up"
  /\ restarts < MaxRestarts
  /\ life' = "draining"
  /\ UNCHANGED <<secondaryVars, managerVars, status, restarts>>

\* Shutdown returned, because every request ended or after 5 seconds.
CtxCancel ==
  /\ life = "draining"
  /\ life' = "cancelled"
  /\ UNCHANGED <<secondaryVars, managerVars, status, restarts>>

\* The process ends, at the end of main or by a crash, and is started again:
\* what was in memory is lost, the targets and the network are not.
Restart ==
  /\ restarts < MaxRestarts
  /\ restarts' = restarts + 1
  /\ life' = "up"
  /\ LET kept == {r \in Requests : Free(r)} IN
       /\ pc' = [p \in Procs |-> IF p \in Workers THEN "start"
                                 ELSE IF p \in kept THEN pc[p] ELSE "aborted"]
       /\ cert' = [p \in Procs |-> IF p \in kept THEN cert[p] ELSE NoCert]
       /\ val' = [p \in Procs |-> IF p \in kept THEN val[p] ELSE NoData]
       /\ tier' = [p \in Procs |-> "cache"]
       /\ idx' = [p \in Procs |-> 1]
  /\ verifyLock' = NoProc
  /\ concurrentWrites' = FALSE
  /\ dispersalBackend' = InitialBackend
  /\ UNCHANGED <<held, op, ver, recency, via, err, da, status>>

-----------------------------------------------------------------------------
FrameServer == UNCHANGED <<status, life, restarts>>

\* The steps of one request, from its start to its answer.
ReadStep(r) ==
  /\ \/ SourceMiss(r) /\ UNCHANGED managerVars
     \/ SourceHit(r) /\ UNCHANGED managerVars
     \/ AcquireVerifyLock(r) /\ UNCHANGED managerVars
     \/ VerifySource(r)
     \/ VerifySourcePanics(r)
     \/ CacheExhausted(r)
     \/ GetV1(r)
     \/ CheckV1(r)
     \/ CheckV2(r)
     \/ CheckV2Panics(r)
     \/ GetV2(r)
     \/ FallbackExhausted(r)
  /\ FrameServer

WriteStep(r) ==
  /\ \/ Disperse(r)
     \/ DisperseFails(r)
     \/ BackupToSecondary(r)
     \/ SourcePut(r) /\ UNCHANGED managerVars
     \/ SyncBackupDone(r)
  /\ FrameServer

Respond(r) == RespondGet(r) \/ RespondPost(r)

Receive(w, r) == WorkerReceive(w, r) /\ UNCHANGED managerVars /\ FrameServer

\* Mutant: the interrupt cancels the context before Server.Stop drains.
WorkerStepEarlyCancel(w) ==
  /\ \/ WorkerStart(w)
     \/ SourcePut(w)
     \/ WorkerFinish(w)
     \/ life # "up" /\ WorkerStop(w)
  /\ UNCHANGED managerVars
  /\ FrameServer

WorkerStep(w) ==
  /\ \/ WorkerStart(w)
     \/ SourcePut(w)
     \/ WorkerFinish(w)
     \/ life = "cancelled" /\ WorkerStop(w)
  /\ UNCHANGED managerVars
  /\ FrameServer

\* The V1 store ignores the inclusion block of a GET.
RecencyOutcomes(v) == IF v = "v0" THEN {"recent"} ELSE UsedRecencies

Environment ==
  \/ \E r \in Requests : RejectRequest(r)
  \/ \E r \in Requests, v \in UsedVersions, c \in Certs :
       \E q \in RecencyOutcomes(v) : HandleGet(r, v, c, q)
  \/ \E r \in Requests, d \in Payloads, c \in Certs : HandlePost(r, d, c)
  \/ \E backend \in Backends : HandleSetBackend(backend)
  \/ \E c \in Certs, v \in OthersVersions, d \in Payloads :
       DisperseElsewhere(c, v, d) /\ FrameServer
  \/ \E s \in Sources, c \in Certs :
       (Evict(s, c) \/ Corrupt(s, c)) /\ UNCHANGED managerVars /\ FrameServer
  \/ Stop
  \/ CtxCancel
  \/ Restart

Next ==
  \/ Environment
  \/ \E r \in Requests : ReadStep(r) \/ WriteStep(r) \/ Respond(r)
  \/ \E w \in Workers : WorkerStep(w) \/ \E r \in Requests : Receive(w, r)

Spec == Init /\ [][Next]_vars

\* Goroutines are scheduled; a Go mutex and the queue of a Go channel are
\* handed over in order of arrival, so a waiter is not overtaken for ever.
\* Shutdown gives up after 5 seconds, and the process ends with main.
Fairness ==
  /\ \A r \in Requests :
       /\ WF_vars(ReadStep(r))
       /\ SF_vars(AcquireVerifyLock(r) /\ UNCHANGED managerVars /\ FrameServer)
       /\ WF_vars(WriteStep(r))
       /\ WF_vars(Respond(r))
       /\ SF_vars(\E w \in Workers : Receive(w, r))
  /\ \A w \in Workers : WF_vars(WorkerStep(w))
  /\ WF_vars(CtxCancel)
  /\ WF_vars(life = "cancelled" /\ Restart)

FairSpec == Spec /\ Fairness

-----------------------------------------------------------------------------
(* Properties.                                                             *)

Served(r) == pc[r] = "done" /\ op[r] = "get" /\ status[r] = 200
Acked(r) == pc[r] = "done" /\ op[r] = "post" /\ status[r] = 200

LoopTypes ==
  /\ pc \in [Procs -> Labels]
  /\ cert \in [Procs -> Certs \cup {NoCert}]
  /\ val \in [Procs -> Payloads \cup {NoData}]
  /\ tier \in [Procs -> Tiers]
  /\ idx \in [Procs -> Nat \ {0}]

SecondaryTypes ==
  /\ held \in [Sources -> [Certs -> Payloads \cup {NoData}]]
  /\ verifyLock \in Procs \cup {NoProc}
  /\ concurrentWrites \in BOOLEAN

CallTypes ==
  /\ op \in [Requests -> {"none", "get", "post"}]
  /\ ver \in [Requests -> Versions]
  /\ recency \in [Requests -> Recencies]
  /\ via \in [Requests -> Backends]
  /\ err \in [Requests -> Errors \cup {"none"}]
  /\ status \in [Requests -> Nat \cup {NoStatus}]

SystemTypes ==
  /\ dispersalBackend \in Backends
  /\ da \in [Certs -> [ver : Versions, payload : Payloads] \cup {NotDispersed}]
  /\ life \in {"up", "draining", "cancelled"}
  /\ restarts \in Nat

\* Every variable ranges over the values the program can give it.
TypeOK == LoopTypes /\ SecondaryTypes /\ CallTypes /\ SystemTypes

\* A GET is answered 200 only with the payload its cert commits to, whether it
\* came from a cache, from EigenDA or from a fallback (Manager.Get "validates
\* the value retrieved and returns an error if the value is invalid").
ServedIsCommitted == \A r \in Requests : Served(r) => Committed(cert[r], val[r])

\* For V1 certs this holds even when objects in the targets are altered and the
\* disperser returns a wrong blob: every path recomputes the commitment.
V1ServedIsCommitted ==
  \A r \in Requests : Served(r) /\ ver[r] = "v0" => Committed(cert[r], val[r])

\* A GET is answered 200 only if the cert is valid under its version byte and,
\* for V2 certs, recent: a cached copy never bypasses cert verification.
ServedIsVerified ==
  \A r \in Requests :
    Served(r) => Decodes(cert[r], ver[r]) /\ (ver[r] # "v0" => recency[r] = "recent")

\* What HandleRedundantWrites stores under a cert's key, from a POST, a cache
\* miss or a goroutine that outlived its request, is the cert's payload.
BackedUpIsCommitted ==
  \A s \in Sources, c \in Certs : held[s][c] # NoData => Committed(c, held[s][c])

\* The write loops in flight carry matching (cert, payload) pairs, whatever the
\* targets hold: nothing read back from a target is ever written to another.
WritesAreCommitted ==
  \A p \in Procs : pc[p] \in {"backup", "send", "write"} => Committed(cert[p], val[p])

\* A commitment returned by a POST refers to a blob that was dispersed with the
\* posted payload.
AckedIsDispersed == \A r \in Requests : Acked(r) => Committed(cert[r], val[r])

\* The commitment returned by a POST carries the version byte its cert decodes
\* under, so that the same-mode GET route can retrieve the payload.
AckedIsReadable == \A r \in Requests : Acked(r) => Decodes(cert[r], ver[r])

\* verifyLock is held exactly by the process that is verifying an object: two
\* verifications never overlap and no path of MultiSourceRead leaks the lock.
VerifyLockOwned ==
  \A p \in Procs : pc[p] = "verify" <=> verifyLock = p

\* A request blocked on the topic has a live subscription goroutine to take its
\* notification, at start-up, after a restart and while Server.Stop drains.
SendHasReceiver ==
  life # "cancelled" /\ (\E r \in Requests : pc[r] = "send")
    => \E w \in Workers : pc[w] \in {"select", "write"}

\* A valid and recent cert is never answered with 418, the status on which the
\* derivation pipeline drops the cert for good.
ValidCertNeverTeapot ==
  \A r \in Requests :
    /\ pc[r] = "done"
    /\ op[r] = "get"
    /\ Decodes(cert[r], ver[r])
    /\ recency[r] = "recent"
    => status[r] # 418

\* "We return a 418 TEAPOT error for any cert validation error": when nothing
\* is wrong with EigenDA or Ethereum, an invalid V2 cert is answered with 418.
InvalidCertIsTeapot ==
  \A r \in Requests :
    /\ pc[r] = "done"
    /\ op[r] = "get"
    /\ ver[r] # "v0"
    /\ IF Decodes(cert[r], ver[r]) THEN recency[r] = "stale"
                                   ELSE recency[r] # "impossible"
    => status[r] = 418

\* "The commitment is returned to POST requests, and can be passed back to the
\* same-mode GET routes": the guards of Get never let a GET of a commitment that a
\* POST returned through to a store that is nil.
AckedFindsItsStore ==
  [][\A q, r \in Requests :
       /\ Acked(q) /\ q # r
       /\ Free(r) /\ op'[r] = "get" /\ cert'[r] = cert[q] /\ ver'[r] = ver[q]
       /\ pc'[r] \in {"read", "fetch"}
       => ~CallsNilStore(r)']_vars

\* A request that panicked left verifyLock locked (V2 store missing).
LockLeaked == verifyLock # NoProc /\ pc[verifyLock] # "verify"

\* Every request is answered, or ends with the process, at a graceful stop too;
\* unless the verify lock was leaked by a panic.
EveryRequestAnswered == \A r \in Requests : ~Free(r) ~> (Free(r) \/ LockLeaked)

\* What a POST acknowledged reaches every target, also when a goroutine writes it
\* after the answer; a copy is missing only if the process ended before.
AckedEventuallyBackedUp ==
  \A c \in Certs, n \in 0..MaxRestarts :
    (\E r \in Requests : /\ pc[r] = "returned" /\ op[r] = "post" /\ err[r] = "none"
                         /\ cert[r] = c /\ restarts = n)
      ~> \/ \A i \in 1..Len(AllTargets) : held[AllTargets[i]][c] # NoData
         \/ restarts > n
-----------------------------------------------------------------------------
(* The inductive strengthening behind the integrity properties.            *)

\* Labels at which a process works on a cert.
Working == {"read", "lock", "verify", "fetch", "check", "disperse", "backup", "send", "write"}

\* Answers that were checked against the cert or never left the proxy: a V2
\* payload is as good as the target it was read from.
Trusted(r) == op[r] = "post" \/ ver[r] = "v0" \/ ~Corruption

CertKnown == \A p \in Procs : pc[p] \in Working => cert[p] \in Certs

\* Only GETs read from targets and from EigenDA.
ReadsAreGets ==
  \A r \in Requests : pc[r] \in {"read", "lock", "verify", "fetch", "check"} => op[r] = "get"

\* A dispersal in flight owns a cert that nobody has produced yet.
DispersalOwnsCert ==
  /\ \A r \in Requests : pc[r] = "disperse" => val[r] \in Payloads /\ da[cert[r]] = NotDispersed
  /\ \A q, r \in Requests :
       pc[q] = "disperse" /\ pc[r] = "disperse" /\ q # r => cert[q] # cert[r]

\* A verified V2 cert stays verified until its payload is fetched.
V2CheckedIsDispersed ==
  \A r \in Requests : pc[r] = "check" /\ ver[r] # "v0" => da[cert[r]] # NotDispersed

ReturnedIsCommitted ==
  \A r \in Requests :
    pc[r] = "returned" /\ err[r] = "none" /\ Trusted(r)
      => cert[r] \in Certs /\ Committed(cert[r], val[r])

AnsweredIsCommitted ==
  \A r \in Requests :
    pc[r] = "done" /\ op[r] # "none" /\ status[r] = 200 /\ Trusted(r)
      => cert[r] \in Certs /\ Committed(cert[r], val[r])

\* Unless targets are altered, what a read loop took from one is the payload.
ReadIsCommitted ==
  ~Corruption =>
    \A r \in Requests : pc[r] \in {"lock", "verify"} => Committed(cert[r], val[r])

\* The conjunction is inductive together with TypeOK; it yields
\* WritesAreCommitted, V1ServedIsCommitted, AckedIsDispersed and, without
\* Corruption, BackedUpIsCommitted and ServedIsCommitted.
Integrity ==
  /\ CertKnown
  /\ ReadsAreGets
  /\ DispersalOwnsCert
  /\ V2CheckedIsDispersed
  /\ WritesAreCommitted
  /\ ReturnedIsCommitted
  /\ AnsweredIsCommitted
  /\ ReadIsCommitted
  /\ ~Corruption => BackedUpIsCommitted

\* The strengthening behind SendHasReceiver.
TopicServed ==
  /\ \A r \in Requests : pc[r] = "send" => concurrentWrites
  /\ concurrentWrites /\ life # "cancelled"
       => \E w \in Workers : pc[w] \in {"select", "write"}

-----------------------------------------------------------------------------
(* The inductive strengthening behind the verdicts: which answer a cert or *)
(* a dispersal earns.                                                      *)

\* The request is past every check, or was answered so.
Passed(r) ==
  \/ pc[r] \in {"backup", "send", "write"}
  \/ pc[r] = "returned" /\ err[r] = "none"
  \/ pc[r] = "done" /\ status[r] = 200

Teapot(r) ==
  \/ pc[r] = "returned" /\ err[r] = "invalidCert"
  \/ pc[r] = "done" /\ status[r] = 418

Verified(r) == Decodes(cert[r], ver[r]) /\ (ver[r] # "v0" => recency[r] = "recent")

\* What is wrong with a V2 cert that neither EigenDA nor Ethereum is to blame for.
AsksInvalid(r) ==
  /\ op[r] = "get"
  /\ ver[r] # "v0"
  /\ IF Decodes(cert[r], ver[r]) THEN recency[r] = "stale" ELSE recency[r] # "impossible"

\* A dispersal in flight is a POST's, and makes no forged cert valid.
DispersalIsOurs ==
  /\ \A c \in Forged : da[c] = NotDispersed
  /\ \A r \in Requests :
       pc[r] = "disperse" => op[r] = "post" /\ cert[r] \notin Forged

\* No dispersal changes what a GET was asked about: its cert is dispersed already
\* or never will be.
AskedIsSettled ==
  \A r \in Requests :
    op[r] = "get" /\ pc[r] \notin {"idle", "aborted"}
      => cert[r] \in Certs /\ (da[cert[r]] # NotDispersed \/ cert[r] \in Forged)

NoErrorYet == \A r \in Requests : pc[r] \in Working => err[r] = "none"

GetPassedIsVerified ==
  \A r \in Requests : op[r] = "get" /\ (pc[r] = "check" \/ Passed(r)) => Verified(r)

TeapotIsInvalid ==
  \A r \in Requests :
    op[r] = "get" /\ Teapot(r) => ~(Decodes(cert[r], ver[r]) /\ recency[r] = "recent")

\* The conjunction is inductive together with TypeOK and Integrity; it yields
\* ServedIsVerified and ValidCertNeverTeapot.
Verdicts ==
  /\ DispersalIsOurs
  /\ AskedIsSettled
  /\ NoErrorYet
  /\ GetPassedIsVerified
  /\ TeapotIsInvalid

\* Without the admin API: every dispersal goes through the initial backend, whose
\* version byte the answer carries.  The strengthening behind AckedIsReadable.
OneBackend ==
  /\ dispersalBackend = InitialBackend
  /\ \A r \in Requests : pc[r] = "disperse" => via[r] = InitialBackend
  /\ \A r \in Requests :
       op[r] = "post" /\ Passed(r)
         => /\ cert[r] \in Certs /\ Decodes(cert[r], VersionOf(InitialBackend))
            /\ pc[r] = "done" => ver[r] = VersionOf(InitialBackend)

\* Without fallbacks and faults: the verdict on an invalid cert is not replaced on
\* its way to the client.  The strengthening behind InvalidCertIsTeapot.
InvalidIsRefused ==
  /\ \A r \in Requests : tier[r] = "cache"
  /\ \A r \in Requests : AsksInvalid(r) /\ pc[r] \in {"returned", "done"} => Teapot(r)

-----------------------------------------------------------------------------
(* The proxy as a blob service.                                            *)

BlobsOf == [c \in Certs |-> IF da[c] = NotDispersed THEN NoData ELSE da[c].payload]

ReplyOf(r) ==
  [kind |-> IF pc[r] # "done" THEN "pending"
            ELSE IF status[r] = 200 THEN op[r] ELSE "failed",
   cert |-> IF Served(r) \/ Acked(r) THEN cert[r] ELSE NoCert,
   payload |-> IF Served(r) \/ Acked(r) THEN val[r] ELSE NoData]

Replies == [r \in Requests |-> ReplyOf(r)]

Service == INSTANCE BlobService WITH blobs <- BlobsOf, reply <- Replies

\* The proxy, with its caches, fallbacks, goroutines and restarts, implements
\* the write-once blob service: every 200 answer is an entry of the map.
ImplementsBlobService == Service!Spec
=============================================================================
