---------------------------- MODULE VerdictProofs ----------------------------
(***************************************************************************)
(* Theorems about the answers of Server: which GETs are answered 200 and   *)
(* 418, and which commitments a POST is answered with, for every set of    *)
(* requests, certs and targets.  What a step may do to one request is      *)
(* stated once, in Moved; the invariants follow from it.                   *)
(***************************************************************************)
EXTENDS ServerProofs

USE SecondaryAssumption, NewManager, ServerAssumption DEF Procs

-----------------------------------------------------------------------------
(* The life of one request, seen from its slot.                            *)

AsAsked(r) == UNCHANGED <<op[r], ver[r], recency[r], cert[r]>>

Kept(r) == AsAsked(r) /\ UNCHANGED <<pc[r], via[r], err[r], status[r]>>

\* RejectRequest, HandleGet and HandlePost fill the slot.
Refused(r) == pc'[r] = "done" /\ op'[r] = "none"

StartedGet(r) ==
  /\ op'[r] = "get"
  /\ cert'[r] \in Certs
  /\ da[cert'[r]] # NotDispersed \/ cert'[r] \in Forged
  /\ \/ pc'[r] = "returned" /\ err'[r] = "internal" /\ StoreMissing(ver'[r])
     \/ pc'[r] \in {"read", "fetch"} /\ err'[r] = "none"

StartedPost(r) ==
  /\ op'[r] = "post"
  /\ \/ pc'[r] = "returned" /\ err'[r] = "internal"
     \/ /\ pc'[r] = "disperse" /\ err'[r] = "none"
        /\ cert'[r] \notin Forged
        /\ via'[r] = dispersalBackend /\ dispersalBackend \in Stores

\* The read loop goes on, or gives up on the caches.
Scanned(r) ==
  /\ AsAsked(r) /\ UNCHANGED err[r]
  /\ pc[r] \in {"read", "lock", "verify"}
  /\ pc'[r] \in {"read", "lock", "verify", "fetch"}

\* The read loop returned a copy that verify accepted.
Accepted(r) ==
  /\ AsAsked(r) /\ UNCHANGED err[r]
  /\ pc[r] = "verify" /\ pc'[r] = "returned"
  /\ "none" \in Verify(r, val[r])

FallbacksFailed(r) ==
  /\ AsAsked(r)
  /\ pc[r] = "read" /\ tier[r] = "fallback"
  /\ pc'[r] = "returned" /\ err'[r] = "internal"

\* EigenDA's part of a GET: the first half, a failure, the second half.
Checked(r) ==
  /\ AsAsked(r) /\ UNCHANGED err[r]
  /\ pc[r] = "fetch" /\ pc'[r] = "check"
  /\ Verified(r)

Failed(r) ==
  /\ AsAsked(r)
  /\ pc[r] \in {"fetch", "check"}
  /\ \/ pc'[r] = "read" /\ UNCHANGED err[r]
     \/ /\ pc'[r] = "returned"
        /\ \/ /\ err'[r] \in {"internal", "rateLimited"}
              /\ ver[r] = "v0" \/ pc[r] = "check"
           \/ /\ pc[r] = "fetch" /\ ver[r] # "v0" /\ err'[r] # "none"
              /\ err'[r] \in VerifyV2(cert[r], ver[r], recency[r])

Delivered(r) ==
  /\ AsAsked(r) /\ UNCHANGED err[r]
  /\ pc[r] = "check" /\ pc'[r] \in {"backup", "returned"}

\* EigenDA's part of a POST.
Dispersed(r) ==
  /\ AsAsked(r) /\ UNCHANGED <<err[r], via[r]>>
  /\ pc[r] = "disperse" /\ pc'[r] \in {"backup", "returned"}
  /\ Decodes(cert[r], VersionOf(via[r]))'

DispersalFailed(r) ==
  /\ AsAsked(r)
  /\ pc[r] = "disperse" /\ pc'[r] = "returned" /\ err'[r] # "none"

BackedUp(r) ==
  /\ AsAsked(r) /\ UNCHANGED err[r]
  /\ pc[r] \in {"backup", "send", "write"} /\ pc'[r] \in {"send", "write", "returned"}

Answered(r) ==
  /\ UNCHANGED <<op[r], recency[r], cert[r]>>
  /\ op[r] = "get" => UNCHANGED ver[r]
  /\ op[r] = "post" /\ err[r] = "none" => ver'[r] = VersionOf(dispersalBackend)
  /\ pc[r] = "returned" /\ pc'[r] = "done"
  /\ status'[r] = StatusOf(err[r])

\* A panic, or the end of the process.
Ended(r) == pc'[r] = "aborted"

Moved(r) ==
  \/ Kept(r)
  \/ Refused(r) \/ StartedGet(r) \/ StartedPost(r)
  \/ Scanned(r) \/ Accepted(r) \/ FallbacksFailed(r)
  \/ Checked(r) \/ Failed(r) \/ Delivered(r)
  \/ Dispersed(r) \/ DispersalFailed(r) \/ BackedUp(r)
  \/ Answered(r) \/ Ended(r)

-----------------------------------------------------------------------------
(* Every step moves every request this way.                                *)

\* What verify accepts is verified.
LEMMA VerifyAcceptsVerified ==
  ASSUME NEW r, NEW d, "none" \in Verify(r, d)
  PROVE  Verified(r)
BY DEF Verify, VerifyV1, VerifyV2, DAErrors, Verified

\* EigenDA failed, with or without fallbacks.
LEMMA EigenDAFailedMoves ==
  ASSUME TypeOK, NEW r \in Requests, NEW e, EigenDAFailed(r, e), UNCHANGED readFrame,
         pc[r] \in {"fetch", "check"},
         \/ e \in {"internal", "rateLimited"} /\ (ver[r] = "v0" \/ pc[r] = "check")
         \/ /\ pc[r] = "fetch" /\ ver[r] # "v0" /\ e # "none"
            /\ e \in VerifyV2(cert[r], ver[r], recency[r]),
         FrameServer, NEW q \in Requests
  PROVE  Moved(q)
<1> USE DEF TypeOK, LoopTypes, CallTypes, AsAsked, Kept, readFrame, FrameServer
<1>1. CASE q = r
  <2>1. CASE FallbackEnabled
    <3>1. Failed(q)
      BY <1>1, <2>1 DEF EigenDAFailed, Failed, Goto
    <3>2. QED
      BY <3>1 DEF Moved
  <2>2. CASE ~FallbackEnabled
    <3>1. pc'[r] = "returned" /\ err'[r] = e
      BY <2>2 DEF EigenDAFailed, Return, Goto
    <3>2. Failed(q)
      BY <1>1, <3>1 DEF Failed
    <3>3. QED
      BY <3>2 DEF Moved
  <2>3. QED
    BY <2>1, <2>2
<1>2. CASE q # r
  <2>1. Kept(q)
    BY <1>2 DEF EigenDAFailed, Return, Goto
  <2>2. QED
    BY <2>1 DEF Moved
<1>3. QED
  BY <1>1, <1>2

LEMMA EigenDAReadMoves ==
  ASSUME TypeOK, NEW r \in Requests, NEW d, EigenDARead(r, d), UNCHANGED readFrame,
         pc[r] = "check", FrameServer, NEW q \in Requests
  PROVE  Moved(q)
<1> USE DEF TypeOK, LoopTypes, CallTypes, AsAsked, Kept, readFrame, FrameServer
<1>1. q = r => Delivered(q)
  BY DEF EigenDARead, Delivered, Goto
<1>2. q # r => Kept(q)
  BY DEF EigenDARead, Goto
<1>3. QED
  BY <1>1, <1>2 DEF Moved

LEMMA ReadStepMoves ==
  ASSUME TypeOK, NEW r \in Requests, ReadStep(r), NEW q \in Requests
  PROVE  Moved(q)
<1> USE DEF TypeOK, LoopTypes, CallTypes, AsAsked, Kept, FrameServer, managerVars
<1>1. CASE SourceMiss(r) /\ UNCHANGED managerVars
  <2>1. Kept(q)
    BY <1>1 DEF SourceMiss, ReadStep
  <2>2. QED
    BY <2>1 DEF Moved
<1>2. CASE (SourceHit(r) \/ AcquireVerifyLock(r)) /\ UNCHANGED managerVars
  <2>1. q = r => Scanned(q)
    BY <1>2 DEF SourceHit, AcquireVerifyLock, Goto, Scanned
  <2>2. q # r => Kept(q)
    BY <1>2 DEF SourceHit, AcquireVerifyLock, Goto, ReadStep
  <2>3. QED
    BY <2>1, <2>2 DEF Moved
<1>3. CASE VerifySource(r)
  <2>1. CASE "none" \in Verify(r, val[r]) /\ VerifyAccepts(r)
    <3>1. q = r => Accepted(q)
      BY <1>3, <2>1 DEF VerifySource, VerifyAccepts, Goto, Accepted
    <3>2. q # r => Kept(q)
      BY <1>3, <2>1 DEF VerifySource, VerifyAccepts, Goto, ReadStep
    <3>3. QED
      BY <3>1, <3>2 DEF Moved
  <2>2. CASE VerifyRejects(r)
    <3>1. q = r => Scanned(q)
      BY <1>3, <2>2 DEF VerifySource, VerifyRejects, Goto, Scanned
    <3>2. q # r => Kept(q)
      BY <1>3, <2>2 DEF VerifySource, VerifyRejects, Goto, ReadStep
    <3>3. QED
      BY <3>1, <3>2 DEF Moved
  <2>3. QED
    BY <1>3, <2>1, <2>2 DEF VerifySource
<1>4. CASE VerifySourcePanics(r) \/ CheckV2Panics(r)
  <2>1. q = r => Ended(q)
    BY <1>4 DEF VerifySourcePanics, VerifyPanics, CheckV2Panics, Abort, Goto, Ended
  <2>2. q # r => Kept(q)
    BY <1>4 DEF VerifySourcePanics, VerifyPanics, CheckV2Panics, Abort, Goto, ReadStep
  <2>3. QED
    BY <2>1, <2>2 DEF Moved
<1>5. CASE CacheExhausted(r)
  <2>1. q = r => Scanned(q)
    BY <1>5 DEF CacheExhausted, ReadExhausted, Goto, Scanned
  <2>2. q # r => Kept(q)
    BY <1>5 DEF CacheExhausted, ReadExhausted, Goto, ReadStep
  <2>3. QED
    BY <2>1, <2>2 DEF Moved
<1>6. CASE GetV1(r)
  <2>1. CASE \E e \in {"internal", "rateLimited"} : EigenDAFailed(r, e)
    BY <1>6, <2>1, EigenDAFailedMoves DEF GetV1, ReadStep
  <2>2. CASE ~\E e \in {"internal", "rateLimited"} : EigenDAFailed(r, e)
    <3>1. /\ pc[r] = "fetch" /\ pc' = [pc EXCEPT ![r] = "check"]
          /\ ver[r] = "v0" /\ Decodes(cert[r], "v0")
          /\ UNCHANGED <<err, readFrame>>
      BY <1>6, <2>2 DEF GetV1, Goto
    <3>2. q = r => Checked(q)
      BY <3>1 DEF readFrame, Checked, Verified
    <3>3. q # r => Kept(q)
      BY <3>1 DEF readFrame, ReadStep
    <3>4. QED
      BY <3>2, <3>3 DEF Moved
  <2>3. QED
    BY <2>1, <2>2
<1>7. CASE CheckV1(r)
  <2>1. PICK e \in VerifyV1(cert[r], val[r]) :
          IF e = "none" THEN EigenDARead(r, val[r]) ELSE EigenDAFailed(r, e)
    BY <1>7 DEF CheckV1
  <2>2. pc[r] = "check" /\ ver[r] = "v0" /\ UNCHANGED readFrame /\ FrameServer
    BY <1>7 DEF CheckV1, ReadStep
  <2>3. e # "none" => e = "internal"
    BY DEF VerifyV1, DAErrors
  <2>4. QED
    BY <2>1, <2>2, <2>3, EigenDAReadMoves, EigenDAFailedMoves
<1>8. CASE CheckV2(r)
  <2>1. PICK e \in VerifyV2(cert[r], ver[r], recency[r]) :
          \/ e = "none" /\ Goto(r, "check") /\ UNCHANGED <<val, tier, idx, err>>
          \/ e # "none" /\ EigenDAFailed(r, e)
    BY <1>8 DEF CheckV2
  <2>2. pc[r] = "fetch" /\ ver[r] # "v0" /\ UNCHANGED readFrame /\ FrameServer
    BY <1>8 DEF CheckV2, ReadStep
  <2>3. CASE e # "none"
    BY <2>1, <2>2, <2>3, EigenDAFailedMoves
  <2>4. CASE e = "none"
    <3>1. Verified(r)
      BY <2>4 DEF VerifyV2, DAErrors, Verified
    <3>2. pc' = [pc EXCEPT ![r] = "check"] /\ UNCHANGED err
      BY <2>1, <2>4 DEF Goto
    <3>3. q = r => Checked(q)
      BY <2>2, <3>1, <3>2 DEF readFrame, Checked
    <3>4. q # r => Kept(q)
      BY <2>2, <3>2 DEF readFrame
    <3>5. QED
      BY <3>3, <3>4 DEF Moved
  <2>5. QED
    BY <2>3, <2>4
<1>9. CASE GetV2(r)
  BY <1>9, EigenDAReadMoves, EigenDAFailedMoves DEF GetV2, ReadStep
<1>10. CASE FallbackExhausted(r)
  <2>1. q = r => FallbacksFailed(q)
    BY <1>10 DEF FallbackExhausted, ReadExhausted, Return, Goto, readFrame, FallbacksFailed
  <2>2. q # r => Kept(q)
    BY <1>10 DEF FallbackExhausted, ReadExhausted, Return, Goto, readFrame, ReadStep
  <2>3. QED
    BY <2>1, <2>2 DEF Moved
<1>11. QED
  BY <1>1, <1>2, <1>3, <1>4, <1>5, <1>6, <1>7, <1>8, <1>9, <1>10 DEF ReadStep

LEMMA WriteStepMoves ==
  ASSUME IInv, NEW r \in Requests, WriteStep(r), NEW q \in Requests
  PROVE  Moved(q)
<1> USE DEF IInv, TypeOK, LoopTypes, CallTypes, SystemTypes, AsAsked, Kept, FrameServer, managerVars
<1>1. CASE Disperse(r)
  <2>1. cert[r] \in Certs /\ val[r] \in Payloads /\ VersionOf(via[r]) \in Versions
    BY <1>1 DEF Disperse, Integrity, CertKnown, Working, DispersalOwnsCert, VersionOf, Versions
  <2>2. Decodes(cert[r], VersionOf(via[r]))'
    BY <1>1, <2>1 DEF Disperse, Decodes
  <2>3. q = r => Dispersed(q)
    BY <1>1, <2>2 DEF Disperse, Goto, Dispersed
  <2>4. q # r => Kept(q)
    BY <1>1 DEF Disperse, Goto, WriteStep
  <2>5. QED
    BY <2>3, <2>4 DEF Moved
<1>2. CASE DisperseFails(r)
  <2>1. q = r => DispersalFailed(q)
    BY <1>2 DEF DisperseFails, PutErrors, Return, Goto, readFrame, DispersalFailed
  <2>2. q # r => Kept(q)
    BY <1>2 DEF DisperseFails, Return, Goto, readFrame, WriteStep
  <2>3. QED
    BY <2>1, <2>2 DEF Moved
<1>3. CASE BackupToSecondary(r)
  <2>1. q = r => BackedUp(q)
    BY <1>3 DEF BackupToSecondary, Goto, BackedUp
  <2>2. q # r => Kept(q)
    BY <1>3 DEF BackupToSecondary, Goto, WriteStep
  <2>3. QED
    BY <2>1, <2>2 DEF Moved
<1>4. CASE SourcePut(r) /\ UNCHANGED managerVars
  <2>1. Kept(q)
    BY <1>4 DEF SourcePut, WriteStep
  <2>2. QED
    BY <2>1 DEF Moved
<1>5. CASE SyncBackupDone(r)
  <2>1. q = r => BackedUp(q)
    BY <1>5 DEF SyncBackupDone, WriteFinished, Goto, BackedUp
  <2>2. q # r => Kept(q)
    BY <1>5 DEF SyncBackupDone, WriteFinished, Goto, WriteStep
  <2>3. QED
    BY <2>1, <2>2 DEF Moved
<1>6. QED
  BY <1>1, <1>2, <1>3, <1>4, <1>5 DEF WriteStep

\* A request is accepted or answered.
LEMMA HandlerMoves ==
  ASSUME TypeOK, NEW r \in Requests, NEW q \in Requests,
         \/ RejectRequest(r)
         \/ \E v \in Versions, c \in Certs, t \in Recencies : HandleGet(r, v, c, t)
         \/ \E d \in Payloads, c \in Certs : HandlePost(r, d, c)
         \/ Respond(r)
  PROVE  Moved(q)
<1> USE DEF TypeOK, LoopTypes, CallTypes, AsAsked, Kept, Goto
<1>1. CASE RejectRequest(r)
  <2>1. q = r => Refused(q)
    BY <1>1 DEF RejectRequest, Answer, Refused
  <2>2. q # r => Kept(q)
    BY <1>1 DEF RejectRequest, Answer
  <2>3. QED
    BY <2>1, <2>2 DEF Moved
<1>2. CASE \E v \in Versions, c \in Certs, t \in Recencies : HandleGet(r, v, c, t)
  <2>1. PICK v \in Versions, c \in Certs, t \in Recencies : HandleGet(r, v, c, t)
    BY <1>2
  <2>2. q = r => StartedGet(q)
    BY <2>1 DEF HandleGet, Get, BeginGet, Return, StartedGet, StoreMissing
  <2>3. q # r => Kept(q)
    BY <2>1 DEF HandleGet, Get, BeginGet, Return
  <2>4. QED
    BY <2>2, <2>3 DEF Moved
<1>3. CASE \E d \in Payloads, c \in Certs : HandlePost(r, d, c)
  <2>1. PICK d \in Payloads, c \in Certs : HandlePost(r, d, c)
    BY <1>3
  <2>2. q = r => StartedPost(q)
    BY <2>1 DEF HandlePost, Put, FreshCert, Return, StartedPost
  <2>3. q # r => Kept(q)
    BY <2>1 DEF HandlePost, Put, Return
  <2>4. QED
    BY <2>2, <2>3 DEF Moved
<1>4. CASE Respond(r)
  <2>1. q = r => Answered(q)
    BY <1>4 DEF Respond, RespondGet, RespondPost, Answer, Answered
  <2>2. q # r => Kept(q)
    BY <1>4 DEF Respond, RespondGet, RespondPost, Answer
  <2>3. QED
    BY <2>1, <2>2 DEF Moved
<1>5. QED
  BY <1>1, <1>2, <1>3, <1>4

\* A goroutine of the topic works, or takes a notification from a request.
LEMMA WorkerMoves ==
  ASSUME TypeOK, NEW w \in Workers, NEW q \in Requests,
         WorkerStep(w) \/ \E r \in Requests : Receive(w, r)
  PROVE  Moved(q)
<1> USE DEF TypeOK, LoopTypes, CallTypes, AsAsked, Kept, Goto, managerVars, FrameServer
<1>1. q # w
  OBVIOUS
<1>2. CASE WorkerStep(w)
  <2>1. Kept(q)
    BY <1>1, <1>2 DEF WorkerStep, WorkerStart, SourcePut, WorkerFinish, WorkerStop
  <2>2. QED
    BY <2>1 DEF Moved
<1>3. CASE \E r \in Requests : Receive(w, r)
  <2>1. PICK r \in Requests : Receive(w, r)
    BY <1>3
  <2>2. q = r => BackedUp(q)
    BY <1>1, <2>1 DEF Receive, WorkerReceive, BackedUp
  <2>3. q # r => Kept(q)
    BY <1>1, <2>1 DEF Receive, WorkerReceive
  <2>4. QED
    BY <2>2, <2>3 DEF Moved
<1>4. QED
  BY <1>2, <1>3

\* The process ends and starts again.
LEMMA RestartMoves ==
  ASSUME Restart, NEW q \in Requests
  PROVE  Moved(q)
<1>1. CASE Free(q)
  <2>1. Kept(q)
    BY <1>1 DEF Restart, Kept, AsAsked
  <2>2. QED
    BY <2>1 DEF Moved
<1>2. CASE ~Free(q)
  <2>1. Ended(q)
    BY <1>2 DEF Restart, Ended
  <2>2. QED
    BY <2>1 DEF Moved
<1>3. QED
  BY <1>1, <1>2

\* A step of the operator, the network, the targets or the shutdown.
Elsewhere ==
  \/ \E backend \in Backends : HandleSetBackend(backend)
  \/ \E c \in Certs, v \in OthersVersions, d \in Payloads :
       DisperseElsewhere(c, v, d) /\ FrameServer
  \/ \E s \in Sources, c \in Certs :
       (Evict(s, c) \/ Corrupt(s, c)) /\ UNCHANGED managerVars /\ FrameServer
  \/ Stop
  \/ CtxCancel

\* Next, as the proofs of this module take it apart.
LEMMA NextCases ==
  ASSUME Next
  PROVE  \/ \E r \in Requests : ReadStep(r) \/ WriteStep(r) \/ Respond(r) \/ RejectRequest(r)
         \/ \E r \in Requests, v \in Versions, c \in Certs, t \in Recencies :
              HandleGet(r, v, c, t)
         \/ \E r \in Requests, d \in Payloads, c \in Certs : HandlePost(r, d, c)
         \/ \E w \in Workers : WorkerStep(w) \/ \E r \in Requests : Receive(w, r)
         \/ Elsewhere
         \/ Restart
<1>1. CASE \E r \in Requests, v \in UsedVersions, c \in Certs :
             \E t \in RecencyOutcomes(v) : HandleGet(r, v, c, t)
  <2>1. PICK r \in Requests, v \in UsedVersions, c \in Certs :
          \E t \in RecencyOutcomes(v) : HandleGet(r, v, c, t)
    BY <1>1
  <2>2. v \in Versions /\ RecencyOutcomes(v) \subseteq Recencies
    BY DEF RecencyOutcomes, Recencies
  <2>3. QED
    BY <2>1, <2>2
<1>2. QED
  BY <1>1 DEF Next, Environment, Elsewhere

\* Every step of the system moves every request along its life.
LEMMA EveryRequestMoves ==
  ASSUME IInv, [Next]_vars, NEW q \in Requests
  PROVE  Moved(q)
<1> USE DEF IInv
<1>1. CASE UNCHANGED vars \/ Elsewhere
  <2>1. Kept(q)
    BY <1>1 DEF vars, Elsewhere, HandleSetBackend, SetDispersalBackend, DisperseElsewhere, Evict,
           Corrupt, Stop, CtxCancel, FrameServer, secondaryVars, loopVars, managerVars, Kept, AsAsked
  <2>2. QED
    BY <2>1 DEF Moved
<1>2. CASE \E r \in Requests : ReadStep(r) \/ WriteStep(r) \/ Respond(r) \/ RejectRequest(r)
  BY <1>2, ReadStepMoves, WriteStepMoves, HandlerMoves
<1>3. CASE \E r \in Requests, v \in Versions, c \in Certs, t \in Recencies : HandleGet(r, v, c, t)
  BY <1>3, HandlerMoves
<1>4. CASE \E r \in Requests, d \in Payloads, c \in Certs : HandlePost(r, d, c)
  BY <1>4, HandlerMoves
<1>5. CASE \E w \in Workers : WorkerStep(w) \/ \E r \in Requests : Receive(w, r)
  BY <1>5, WorkerMoves
<1>6. CASE Restart
  BY <1>6, RestartMoves
<1>7. QED
  BY <1>1, <1>2, <1>3, <1>4, <1>5, <1>6, NextCases

-----------------------------------------------------------------------------
(* The network.                                                            *)

\* A cert that was dispersed keeps its meaning, and no forged cert gets one.
Settled(c) == da[c] # NotDispersed \/ c \in Forged

LEMMA SettledStays ==
  ASSUME IInv, DispersalIsOurs, [Next]_vars, NEW c \in Certs, Settled(c)
  PROVE  da'[c] = da[c]
<1> USE DEF IInv, TypeOK, SystemTypes, Settled
<1>1. CASE UNCHANGED da
  BY <1>1
<1>2. CASE \E r \in Requests : Disperse(r)
  <2>1. PICK r \in Requests : Disperse(r)
    BY <1>2
  <2>2. cert[r] # c
    BY <2>1 DEF Disperse, Integrity, DispersalOwnsCert, DispersalIsOurs
  <2>3. QED
    BY <2>1, <2>2 DEF Disperse
<1>3. CASE \E x \in Certs, v \in OthersVersions, d \in Payloads : DisperseElsewhere(x, v, d)
  BY <1>3 DEF DisperseElsewhere, FreshCert
<1>4. \/ UNCHANGED da
      \/ \E r \in Requests : Disperse(r)
      \/ \E x \in Certs, v \in OthersVersions, d \in Payloads : DisperseElsewhere(x, v, d)
  <2> USE DEF managerVars
  <2>1. CASE UNCHANGED vars
    BY <2>1 DEF vars
  <2>2. CASE Elsewhere
    BY <2>2 DEF Elsewhere, HandleSetBackend, SetDispersalBackend, Stop, CtxCancel
  <2>3. ASSUME NEW r \in Requests, ReadStep(r) PROVE UNCHANGED da
    BY <2>3 DEF ReadStep, VerifySource, VerifySourcePanics, CacheExhausted, GetV1, CheckV1,
           CheckV2, CheckV2Panics, GetV2, FallbackExhausted, readFrame
  <2>4. ASSUME NEW r \in Requests, WriteStep(r) PROVE UNCHANGED da \/ Disperse(r)
    BY <2>4 DEF WriteStep, DisperseFails, BackupToSecondary, SyncBackupDone, readFrame
  <2>5. ASSUME NEW r \in Requests, Respond(r) \/ RejectRequest(r) PROVE UNCHANGED da
    BY <2>5 DEF Respond, RespondGet, RespondPost, RejectRequest
  <2>6. CASE \E r \in Requests, v \in Versions, x \in Certs, t \in Recencies : HandleGet(r, v, x, t)
    BY <2>6 DEF HandleGet, Get, BeginGet
  <2>7. CASE \E r \in Requests, d \in Payloads, x \in Certs : HandlePost(r, d, x)
    BY <2>7 DEF HandlePost, Put
  <2>8. CASE \E w \in Workers : WorkerStep(w) \/ \E r \in Requests : Receive(w, r)
    BY <2>8 DEF WorkerStep, Receive
  <2>9. CASE Restart
    BY <2>9 DEF Restart
  <2>10. QED
    BY <2>1, <2>2, <2>3, <2>4, <2>5, <2>6, <2>7, <2>8, <2>9, NextCases
<1>5. QED
  BY <1>1, <1>2, <1>3, <1>4

-----------------------------------------------------------------------------
(* The verdicts.                                                           *)

LEMMA DispersalStaysOurs ==
  ASSUME IInv, Verdicts, [Next]_vars
  PROVE  DispersalIsOurs'
<1>1. ASSUME NEW c \in Forged PROVE da'[c] = NotDispersed
  BY <1>1, SettledStays DEF Verdicts, DispersalIsOurs, Settled
<1>2. ASSUME NEW r \in Requests, pc'[r] = "disperse"
      PROVE  op'[r] = "post" /\ cert'[r] \notin Forged
  <2>1. Moved(r)
    BY EveryRequestMoves
  <2>2. StartedPost(r) \/ Kept(r)
    BY <1>2, <2>1 DEF Moved, Refused, StartedGet, Scanned, Accepted, FallbacksFailed, Checked,
           Failed, Delivered, Dispersed, DispersalFailed, BackedUp, Answered, Ended
  <2>3. QED
    BY <1>2, <2>2 DEF StartedPost, Kept, AsAsked, Verdicts, DispersalIsOurs
<1>3. QED
  BY <1>1, <1>2 DEF DispersalIsOurs

\* The cert of a GET in progress keeps its meaning.
LEMMA AskedStaysSettled ==
  ASSUME IInv, Verdicts, [Next]_vars, NEW r \in Requests,
         op[r] = "get", pc[r] \notin {"idle", "aborted"}
  PROVE  cert[r] \in Certs /\ Settled(cert[r]) /\ da'[cert[r]] = da[cert[r]]
BY SettledStays DEF Verdicts, AskedIsSettled, Settled

LEMMA AskedSettledStep ==
  ASSUME IInv, Verdicts, [Next]_vars
  PROVE  AskedIsSettled'
<1> SUFFICES ASSUME NEW r \in Requests, op'[r] = "get", pc'[r] \notin {"idle", "aborted"}
             PROVE  cert'[r] \in Certs /\ (da'[cert'[r]] # NotDispersed \/ cert'[r] \in Forged)
  BY DEF AskedIsSettled
<1>1. Moved(r)
  BY EveryRequestMoves
<1>2. CASE StartedGet(r)
  BY <1>2, SettledStays DEF StartedGet, Verdicts, Settled
<1>3. CASE ~StartedGet(r)
  <2>1. op[r] = "get" /\ cert'[r] = cert[r] /\ pc[r] \notin {"idle", "aborted"}
    BY <1>1, <1>3 DEF Moved, Kept, AsAsked, Refused, StartedPost, Scanned, Accepted, FallbacksFailed,
           Checked, Failed, Delivered, Dispersed, DispersalFailed, BackedUp, Answered, Ended
  <2>2. QED
    BY <2>1, AskedStaysSettled DEF Settled
<1>4. QED
  BY <1>2, <1>3

LEMMA NoErrorYetStep ==
  ASSUME IInv, Verdicts, [Next]_vars
  PROVE  NoErrorYet'
<1> SUFFICES ASSUME NEW r \in Requests, pc'[r] \in Working
             PROVE  err'[r] = "none"
  BY DEF NoErrorYet
<1>1. Moved(r)
  BY EveryRequestMoves
<1>2. QED
  BY <1>1 DEF Moved, Kept, AsAsked, Refused, StartedGet, StartedPost, Scanned, Accepted,
         FallbacksFailed, Checked, Failed, Delivered, Dispersed, DispersalFailed, BackedUp, Answered,
         Ended, Verdicts, NoErrorYet, Working

\* The answers 200 and 418 stand for one outcome of the manager each.
LEMMA StatusTells ==
  ASSUME NEW e
  PROVE  /\ StatusOf(e) = 200 <=> e = "none"
         /\ StatusOf(e) = 418 <=> e = "invalidCert"
BY DEF StatusOf

\* What is known of a verified request stays true while it keeps its question.
LEMMA VerifiedStays ==
  ASSUME IInv, Verdicts, [Next]_vars, NEW r \in Requests, op[r] = "get",
         pc[r] \notin {"idle", "aborted"}, UNCHANGED <<ver[r], recency[r], cert[r]>>
  PROVE  /\ Verified(r)' <=> Verified(r)
         /\ Decodes(cert[r], ver[r])' <=> Decodes(cert[r], ver[r])
BY AskedStaysSettled DEF Verified, Decodes

LEMMA GetPassedStep ==
  ASSUME IInv, Verdicts, [Next]_vars
  PROVE  GetPassedIsVerified'
<1> SUFFICES ASSUME NEW r \in Requests, op'[r] = "get", (pc[r] = "check" \/ Passed(r))'
             PROVE  Verified(r)'
  BY DEF GetPassedIsVerified
<1>1. Moved(r)
  BY EveryRequestMoves
<1>2. pc'[r] \in {"check", "backup", "send", "write", "returned", "done"}
  BY DEF Passed
<1>3. op[r] = "get" /\ UNCHANGED <<ver[r], recency[r], cert[r]>>
  BY <1>1, <1>2, StatusTells
     DEF Moved, Kept, AsAsked, Refused, StartedGet, StartedPost, Scanned, Accepted,
         FallbacksFailed, Checked, Failed, Delivered, Dispersed, DispersalFailed, BackedUp, Answered,
         Ended, Passed, Verdicts, DispersalIsOurs
<1>4. \/ Kept(r) \/ Accepted(r) \/ Checked(r) \/ Delivered(r) \/ BackedUp(r)
      \/ Answered(r) /\ err[r] = "none"
  BY <1>1, <1>2, StatusTells
     DEF Moved, Kept, AsAsked, Refused, StartedGet, StartedPost, Scanned, Accepted,
         FallbacksFailed, Checked, Failed, Delivered, Dispersed, DispersalFailed, BackedUp, Answered,
         Ended, Passed, Verdicts, DispersalIsOurs
<1>5. pc[r] \notin {"idle", "aborted"}
  BY <1>2, <1>4 DEF Kept, Accepted, Checked, Delivered, BackedUp, Answered
<1>6. Verified(r)
  <2>1. CASE Kept(r)
    BY <1>3, <2>1 DEF Kept, Passed, Verdicts, GetPassedIsVerified
  <2>2. CASE Accepted(r)
    BY <2>2, VerifyAcceptsVerified DEF Accepted
  <2>3. CASE Checked(r)
    BY <2>3 DEF Checked
  <2>4. CASE Delivered(r) \/ BackedUp(r) \/ (Answered(r) /\ err[r] = "none")
    BY <1>3, <2>4 DEF Delivered, BackedUp, Answered, Passed, Verdicts, GetPassedIsVerified
  <2>5. QED
    BY <1>4, <2>1, <2>2, <2>3, <2>4
<1>7. QED
  BY <1>3, <1>5, <1>6, VerifiedStays

LEMMA TeapotStep ==
  ASSUME IInv, Verdicts, [Next]_vars
  PROVE  TeapotIsInvalid'
<1> SUFFICES ASSUME NEW r \in Requests, op'[r] = "get", Teapot(r)'
             PROVE  ~(Decodes(cert[r], ver[r]) /\ recency[r] = "recent")'
  BY DEF TeapotIsInvalid
<1>1. Moved(r)
  BY EveryRequestMoves
<1>2. pc'[r] \in {"returned", "done"}
  BY DEF Teapot
<1>3. op[r] = "get" /\ UNCHANGED <<ver[r], recency[r], cert[r]>>
  BY <1>1, <1>2, StatusTells
     DEF Moved, Kept, AsAsked, Refused, StartedGet, StartedPost, Scanned, Accepted,
         FallbacksFailed, Checked, Failed, Delivered, Dispersed, DispersalFailed, BackedUp, Answered,
         Ended, Teapot, Verdicts, DispersalIsOurs, NoErrorYet, Working
<1>4. \/ Kept(r)
      \/ Answered(r) /\ err[r] = "invalidCert"
      \/ Failed(r) /\ err'[r] = "invalidCert"
  BY <1>1, <1>2, StatusTells
     DEF Moved, Kept, AsAsked, Refused, StartedGet, StartedPost, Scanned, Accepted,
         FallbacksFailed, Checked, Failed, Delivered, Dispersed, DispersalFailed, BackedUp, Answered,
         Ended, Teapot, Verdicts, DispersalIsOurs, NoErrorYet, Working
<1>5. pc[r] \notin {"idle", "aborted"}
  BY <1>2, <1>4 DEF Kept, Failed, Answered
<1>6. ~(Decodes(cert[r], ver[r]) /\ recency[r] = "recent")
  <2>1. CASE Kept(r) \/ (Answered(r) /\ err[r] = "invalidCert")
    BY <1>3, <2>1 DEF Kept, Answered, Teapot, Verdicts, TeapotIsInvalid
  <2>2. CASE Failed(r) /\ err'[r] = "invalidCert"
    <3>1. "invalidCert" \in VerifyV2(cert[r], ver[r], recency[r])
      BY <1>2, <2>2 DEF Failed
    <3>2. QED
      BY <3>1 DEF VerifyV2, DAErrors
  <2>3. QED
    BY <1>4, <2>1, <2>2
<1>7. QED
  BY <1>3, <1>5, <1>6, VerifiedStays

\* Integrity and Verdicts hold in every reachable state.
THEOREM VerdictInvariant == Spec => [](IInv /\ Verdicts)
<1>1. Init => Verdicts
  BY DEF Init, Verdicts, DispersalIsOurs, AskedIsSettled, NoErrorYet, GetPassedIsVerified, Passed,
         TeapotIsInvalid, Working
<1>2. IInv /\ Verdicts /\ [Next]_vars => Verdicts'
  BY DispersalStaysOurs, AskedSettledStep, NoErrorYetStep, GetPassedStep, TeapotStep
  DEF Verdicts
<1>3. QED
  BY <1>1, <1>2, IntegrityInvariant, PTL DEF Spec

\* What a request knows of its cert, its verdict and its dispersal at each label
\* holds whatever the other requests, proxies and targets do meanwhile.
THEOREM VerdictsHold == Spec => []Verdicts
BY VerdictInvariant, PTL

\* A GET is answered 200 only if its cert is valid under its version byte and, for
\* V2 certs, recent: neither a cache nor a fallback bypasses cert verification,
\* also when targets are altered and EigenDA fails (verify in MultiSourceRead).
THEOREM ServedVerified == Spec => []ServedIsVerified
<1>1. Verdicts => ServedIsVerified
  BY DEF Verdicts, GetPassedIsVerified, Passed, Verified, ServedIsVerified, Served
<1>2. QED
  BY <1>1, VerdictsHold, PTL

\* A valid and recent cert is never answered with 418, whatever fails on the way
\* (withErrorHandling, CertVerificationFailedError).
THEOREM ValidNeverTeapot == Spec => []ValidCertNeverTeapot
<1>1. Verdicts => ValidCertNeverTeapot
  BY DEF Verdicts, TeapotIsInvalid, Teapot, ValidCertNeverTeapot
<1>2. QED
  BY <1>1, VerdictsHold, PTL

-----------------------------------------------------------------------------
(* The version byte of a POST's answer.                                    *)

\* Only the admin API switches the backend; a restart puts it back.
LEMMA BackendStays ==
  ASSUME ~AdminEnabled, dispersalBackend = InitialBackend, [Next]_vars
  PROVE  dispersalBackend' = InitialBackend
<1> USE DEF managerVars
<1>1. CASE UNCHANGED vars
  BY <1>1 DEF vars
<1>2. CASE Elsewhere
  BY <1>2 DEF Elsewhere, HandleSetBackend, DisperseElsewhere, Stop, CtxCancel
<1>3. ASSUME NEW r \in Requests, ReadStep(r) PROVE UNCHANGED dispersalBackend
  BY <1>3 DEF ReadStep, VerifySource, VerifySourcePanics, CacheExhausted, GetV1, CheckV1,
         CheckV2, CheckV2Panics, GetV2, FallbackExhausted, readFrame
<1>4. ASSUME NEW r \in Requests, WriteStep(r) PROVE UNCHANGED dispersalBackend
  BY <1>4 DEF WriteStep, Disperse, DisperseFails, BackupToSecondary, SyncBackupDone, readFrame
<1>5. ASSUME NEW r \in Requests, Respond(r) \/ RejectRequest(r) PROVE UNCHANGED dispersalBackend
  BY <1>5 DEF Respond, RespondGet, RespondPost, RejectRequest
<1>6. CASE \E r \in Requests, v \in Versions, x \in Certs, t \in Recencies : HandleGet(r, v, x, t)
  BY <1>6 DEF HandleGet, Get, BeginGet
<1>7. CASE \E r \in Requests, d \in Payloads, x \in Certs : HandlePost(r, d, x)
  BY <1>7 DEF HandlePost, Put
<1>8. CASE \E w \in Workers : WorkerStep(w) \/ \E r \in Requests : Receive(w, r)
  BY <1>8 DEF WorkerStep, Receive
<1>9. CASE Restart
  BY <1>9 DEF Restart
<1>10. QED
  BY <1>1, <1>2, <1>3, <1>4, <1>5, <1>6, <1>7, <1>8, <1>9, NextCases

LEMMA OneBackendStep ==
  ASSUME ~AdminEnabled, IInv, Verdicts, OneBackend, [Next]_vars
  PROVE  OneBackend'
<1>1. dispersalBackend' = InitialBackend
  BY BackendStays DEF OneBackend
<1>2. ASSUME NEW r \in Requests, pc'[r] = "disperse"
      PROVE  via'[r] = InitialBackend
  <2>1. Moved(r)
    BY EveryRequestMoves
  <2>2. QED
    BY <1>2, <2>1 DEF Moved, Kept, Refused, StartedGet, StartedPost, Scanned, Accepted,
           FallbacksFailed, Checked, Failed, Delivered, Dispersed, DispersalFailed, BackedUp,
           Answered, Ended, OneBackend
<1>3. ASSUME NEW r \in Requests, op'[r] = "post", Passed(r)'
      PROVE  /\ cert'[r] \in Certs /\ Decodes(cert[r], VersionOf(InitialBackend))'
             /\ pc'[r] = "done" => ver'[r] = VersionOf(InitialBackend)
  <2>1. Moved(r)
    BY EveryRequestMoves
  <2>2. op[r] = "post" /\ UNCHANGED cert[r]
    BY <1>3, <2>1
       DEF Moved, Kept, AsAsked, Refused, StartedGet, StartedPost, Scanned, Accepted,
           FallbacksFailed, Checked, Failed, Delivered, Dispersed, DispersalFailed, BackedUp,
           Answered, Ended, Passed, IInv, Integrity, ReadsAreGets
  <2>3. Dispersed(r) \/ Passed(r)
    BY <1>3, <2>1, StatusTells
       DEF Moved, Kept, AsAsked, Refused, StartedGet, StartedPost, Scanned, Accepted,
           FallbacksFailed, Checked, Failed, Delivered, Dispersed, DispersalFailed, BackedUp,
           Answered, Ended, Passed, IInv, Integrity, ReadsAreGets
  <2>4. CASE Dispersed(r)
    <3>1. cert[r] \in Certs /\ via[r] = InitialBackend
      BY <2>4 DEF Dispersed, IInv, Integrity, CertKnown, Working, OneBackend
    <3>2. Decodes(cert[r], VersionOf(via[r]))' /\ via'[r] = via[r]
      BY <2>4 DEF Dispersed
    <3>3. pc'[r] # "done"
      BY <2>4 DEF Dispersed
    <3>4. QED
      BY <2>2, <3>1, <3>2, <3>3
  <2>5. CASE Passed(r)
    <3>1. /\ cert[r] \in Certs /\ Decodes(cert[r], VersionOf(InitialBackend))
          /\ pc[r] = "done" => ver[r] = VersionOf(InitialBackend)
      BY <2>2, <2>5 DEF OneBackend
    <3>2. da'[cert[r]] = da[cert[r]]
      BY <3>1, SettledStays DEF Verdicts, Decodes, Settled
    <3>3. Decodes(cert[r], VersionOf(InitialBackend))'
      BY <2>2, <3>1, <3>2 DEF Decodes, VersionOf
    <3>4. pc'[r] = "done" => Kept(r) \/ (Answered(r) /\ err[r] = "none")
      BY <1>3, <2>1, <2>2, StatusTells
         DEF Moved, Refused, StartedGet, StartedPost, Scanned, Accepted,
             FallbacksFailed, Checked, Failed, Delivered, Dispersed, DispersalFailed, BackedUp,
             Answered, Ended, Passed
    <3>5. pc'[r] = "done" => ver'[r] = VersionOf(InitialBackend)
      BY <2>2, <3>1, <3>4 DEF Kept, AsAsked, Answered, OneBackend
    <3>6. QED
      BY <2>2, <3>1, <3>3, <3>5
  <2>6. QED
    BY <2>3, <2>4, <2>5
<1>4. QED
  BY <1>1, <1>2, <1>3 DEF OneBackend

\* Unless the admin API can switch the backend between the dispersal and the answer
\* (which it can: see the run "race"), the commitment a POST returns carries the
\* version byte its cert decodes under.
THEOREM AckedReadable ==
  ASSUME ~AdminEnabled
  PROVE  Spec => []AckedIsReadable
<1>1. Init => OneBackend
  BY DEF Init, OneBackend, Passed
<1>2. IInv /\ Verdicts /\ OneBackend /\ [Next]_vars => OneBackend'
  BY OneBackendStep
<1>3. OneBackend => AckedIsReadable
  BY DEF OneBackend, Passed, AckedIsReadable, Acked
<1>4. QED
  BY <1>1, <1>2, <1>3, VerdictInvariant, PTL DEF Spec

-----------------------------------------------------------------------------
(* Invalid certs.                                                          *)

\* Without fallbacks no read loop walks them.
LEMMA TierStays ==
  ASSUME ~FallbackEnabled, TypeOK, [Next]_vars, NEW q \in Requests, tier[q] = "cache"
  PROVE  tier'[q] = "cache"
<1> USE DEF TypeOK, LoopTypes, secondaryVars, loopVars
<1>1. CASE UNCHANGED vars
  BY <1>1 DEF vars
<1>2. CASE Elsewhere
  BY <1>2 DEF Elsewhere, HandleSetBackend, SetDispersalBackend, DisperseElsewhere, Evict, Corrupt,
         Stop, CtxCancel
<1>3. ASSUME NEW r \in Requests, ReadStep(r) PROVE tier'[q] = "cache"
  <2>1. CASE VerifySourcePanics(r) \/ CheckV2Panics(r)
    BY <2>1 DEF VerifySourcePanics, VerifyPanics, CheckV2Panics, Abort
  <2>2. CASE ~(VerifySourcePanics(r) \/ CheckV2Panics(r))
    <3>1. UNCHANGED tier
      BY <1>3, <2>2 DEF ReadStep, SourceMiss, SourceHit, AcquireVerifyLock, VerifySource,
             VerifyAccepts, VerifyRejects, CacheExhausted, GetV1, CheckV1, CheckV2, GetV2,
             EigenDARead, EigenDAFailed, FallbackExhausted
    <3>2. QED
      BY <3>1
  <2>3. QED
    BY <2>1, <2>2
<1>4. ASSUME NEW r \in Requests, WriteStep(r) PROVE tier'[q] = "cache"
  BY <1>4 DEF WriteStep, Disperse, DisperseFails, BackupToSecondary, SourcePut, SyncBackupDone
<1>5. ASSUME NEW r \in Requests, Respond(r) \/ RejectRequest(r) PROVE tier'[q] = "cache"
  BY <1>5 DEF Respond, RespondGet, RespondPost, RejectRequest, Answer
<1>6. CASE \E r \in Requests, v \in Versions, x \in Certs, t \in Recencies : HandleGet(r, v, x, t)
  BY <1>6 DEF HandleGet, Get, BeginGet
<1>7. CASE \E r \in Requests, d \in Payloads, x \in Certs : HandlePost(r, d, x)
  BY <1>7 DEF HandlePost, Put
<1>8. CASE \E w \in Workers : WorkerStep(w) \/ \E r \in Requests : Receive(w, r)
  BY <1>8 DEF WorkerStep, WorkerStart, SourcePut, WorkerFinish, WorkerStop, Receive, WorkerReceive
<1>9. CASE Restart
  BY <1>9 DEF Restart
<1>10. QED
  BY <1>1, <1>2, <1>3, <1>4, <1>5, <1>6, <1>7, <1>8, <1>9, NextCases

\* An invalid V2 cert was never verified, and stays invalid.
LEMMA InvalidStays ==
  ASSUME IInv, Verdicts, [Next]_vars, NEW r \in Requests, AsksInvalid(r)', op[r] = "get",
         pc[r] \notin {"idle", "aborted"}, UNCHANGED <<ver[r], recency[r], cert[r]>>
  PROVE  AsksInvalid(r) /\ ~Verified(r)
BY VerifiedStays DEF AsksInvalid, Verified, Recencies

LEMMA InvalidRefusedStep ==
  ASSUME ~FallbackEnabled, ~DAFaults, "V2" \in Stores,
         IInv, Verdicts, InvalidIsRefused, [Next]_vars
  PROVE  InvalidIsRefused'
<1>1. ASSUME NEW r \in Requests PROVE tier'[r] = "cache"
  BY TierStays DEF InvalidIsRefused, IInv
<1>2. ASSUME NEW r \in Requests, AsksInvalid(r)', pc'[r] \in {"returned", "done"}
      PROVE  Teapot(r)'
  <2>1. Moved(r)
    BY EveryRequestMoves
  <2>2. op'[r] = "get" /\ ver'[r] # "v0"
    BY <1>2 DEF AsksInvalid
  <2>3. \/ Kept(r) \/ Accepted(r) \/ Delivered(r) \/ BackedUp(r)
        \/ Failed(r) \/ Answered(r)
    BY <1>2, <2>1, <2>2
       DEF Moved, AsAsked, Refused, StartedGet, StartedPost, Scanned, FallbacksFailed, Checked,
           Dispersed, DispersalFailed, Ended, StoreMissing, InvalidIsRefused, Verdicts,
           DispersalIsOurs
  <2>4. op[r] = "get" /\ pc[r] \notin {"idle", "aborted"} /\ UNCHANGED <<ver[r], recency[r], cert[r]>>
    BY <1>2, <2>2, <2>3 DEF Kept, AsAsked, Accepted, Delivered, BackedUp, Failed, Answered
  <2>5. AsksInvalid(r) /\ ~Verified(r)
    BY <1>2, <2>4, InvalidStays
  <2>6. /\ ~Accepted(r)
        /\ pc[r] # "check" /\ ~Passed(r)
    BY <2>4, <2>5, VerifyAcceptsVerified DEF Accepted, Verdicts, GetPassedIsVerified
  <2>7. CASE Kept(r)
    BY <1>2, <2>5, <2>7 DEF Kept, Teapot, InvalidIsRefused
  <2>8. CASE Delivered(r) \/ BackedUp(r)
    BY <2>6, <2>8 DEF Delivered, BackedUp, Passed
  <2>9. CASE Failed(r)
    <3>1. pc'[r] = "returned" /\ err'[r] \in VerifyV2(cert[r], ver[r], recency[r])
      BY <1>2, <2>2, <2>4, <2>6, <2>9 DEF Failed
    <3>2. VerifyV2(cert[r], ver[r], recency[r]) = {"invalidCert"}
      BY <2>5 DEF AsksInvalid, VerifyV2, DAErrors, Decodes
    <3>3. QED
      BY <3>1, <3>2 DEF Teapot
  <2>10. CASE Answered(r)
    <3>1. err[r] = "invalidCert"
      BY <2>5, <2>10 DEF Answered, Teapot, InvalidIsRefused
    <3>2. QED
      BY <2>10, <3>1, StatusTells DEF Answered, Teapot
  <2>11. QED
    BY <2>3, <2>6, <2>7, <2>8, <2>9, <2>10
<1>3. QED
  BY <1>1, <1>2 DEF InvalidIsRefused

\* Without faults of EigenDA and Ethereum, with the V2 store configured and without
\* a fallback, whose error would replace the verdict (as the run "masked" shows), a
\* GET of an invalid or stale V2 cert is answered with 418, also when the caches
\* hold an object under its key.
THEOREM InvalidTeapot ==
  ASSUME ~FallbackEnabled, ~DAFaults, "V2" \in Stores
  PROVE  Spec => []InvalidCertIsTeapot
<1>1. Init => InvalidIsRefused
  BY DEF Init, InvalidIsRefused
<1>2. IInv /\ Verdicts /\ InvalidIsRefused /\ [Next]_vars => InvalidIsRefused'
  BY InvalidRefusedStep
<1>3. InvalidIsRefused => InvalidCertIsTeapot
  BY DEF InvalidIsRefused, AsksInvalid, Teapot, InvalidCertIsTeapot
<1>4. QED
  BY <1>1, <1>2, <1>3, VerdictInvariant, PTL DEF Spec
=============================================================================
