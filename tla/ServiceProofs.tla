---------------------------- MODULE ServiceProofs ----------------------------
(***************************************************************************)
(* Server implements BlobService when nobody else writes to the targets:   *)
(* each step of the proxy is a step of the write-once blob service, or one *)
(* its clients do not see.                                                 *)
(***************************************************************************)
EXTENDS ServerProofs

USE SecondaryAssumption, NewManager, ServerAssumption DEF Procs

\* A slot whose request is in flight before and after a step, or that the step
\* leaves alone, shows the same reply.
SameReply(r) ==
  \/ pc[r] # "done" /\ pc'[r] # "done"
  \/ /\ pc'[r] = pc[r]
     /\ cert'[r] = cert[r]
     /\ val'[r] = val[r]
     /\ op'[r] = op[r]
     /\ status'[r] = status[r]

\* Unchanged fields give unchanged replies.
LEMMA SameReplies ==
  ASSUME \A r \in Requests : SameReply(r)
  PROVE  Replies' = Replies
<1>1. ASSUME NEW r \in Requests PROVE ReplyOf(r)' = ReplyOf(r)
  <2>1. CASE pc[r] # "done" /\ pc'[r] # "done"
    BY <2>1 DEF ReplyOf, Served, Acked
  <2>2. CASE ~(pc[r] # "done" /\ pc'[r] # "done")
    BY <2>2 DEF SameReply, ReplyOf, Served, Acked
  <2>3. QED
    BY <2>1, <2>2
<1>2. QED
  BY <1>1 DEF Replies

\* A step of one process that keeps its request in flight.
LEMMA InFlight ==
  ASSUME TypeOK, NEW p \in Procs,
         \E label \in Labels \ {"done"} : pc' = [pc EXCEPT ![p] = label],
         pc[p] # "done",
         \A q \in Procs \ {p} : cert'[q] = cert[q] /\ val'[q] = val[q],
         UNCHANGED <<op, status>>
  PROVE  Replies' = Replies
<1>1. PICK label \in Labels \ {"done"} : pc' = [pc EXCEPT ![p] = label]
  OBVIOUS
<1>2. ASSUME NEW r \in Requests PROVE SameReply(r)
  <2>1. CASE r = p
    <3>1. pc'[p] = label
      BY <1>1 DEF TypeOK, LoopTypes
    <3>2. QED
      BY <2>1, <3>1 DEF SameReply
  <2>2. CASE r # p
    <3>1. pc'[r] = pc[r]
      BY <1>1, <2>2 DEF TypeOK, LoopTypes
    <3>2. QED
      BY <2>2, <3>1 DEF SameReply
  <2>3. QED
    BY <2>1, <2>2
<1>3. QED
  BY <1>2, SameReplies

\* A slot without an answer shows none.
LEMMA InFlightIsPending ==
  ASSUME NEW r \in Requests, pc[r] # "done"
  PROVE  Replies[r] = Service!Pending
BY DEF Replies, ReplyOf, Served, Acked, Service!Pending

\* The blobs only depend on the network.
LEMMA SameBlobs ==
  ASSUME UNCHANGED da
  PROVE  BlobsOf' = BlobsOf
BY DEF BlobsOf

\* A step that changes the slot of one request.
LEMMA OneReply ==
  ASSUME NEW r \in Requests, \A q \in Requests \ {r} : SameReply(q)
  PROVE  Replies' = [Replies EXCEPT ![r] = ReplyOf(r)']
<1>1. ASSUME NEW q \in Requests, q # r PROVE ReplyOf(q)' = ReplyOf(q)
  <2>1. CASE pc[q] # "done" /\ pc'[q] # "done"
    BY <2>1 DEF ReplyOf, Served, Acked
  <2>2. CASE ~(pc[q] # "done" /\ pc'[q] # "done")
    BY <1>1, <2>2 DEF SameReply, ReplyOf, Served, Acked
  <2>3. QED
    BY <2>1, <2>2
<1>2. QED
  BY <1>1 DEF Replies

-----------------------------------------------------------------------------
\* What the clients of the blob service may see of a step.
ServiceStep == Service!Next \/ UNCHANGED <<BlobsOf, Replies>>

\* Reading is invisible until the answer.
LEMMA ReadStepService ==
  ASSUME TypeOK, NEW r \in Requests, ReadStep(r)
  PROVE  ServiceStep
<1> USE DEF loopVars, secondaryVars, managerVars, FrameServer, Goto, readFrame
<1>1. UNCHANGED da /\ UNCHANGED <<op, status>>
  BY DEF ReadStep, SourceMiss, SourceHit, AcquireVerifyLock, VerifySource, VerifySourcePanics,
         CacheExhausted, GetV1, CheckV1, CheckV2, CheckV2Panics, GetV2, FallbackExhausted
<1>2. /\ pc[r] # "done"
      /\ \E label \in Labels \ {"done"} : pc' = [pc EXCEPT ![r] = label]
      /\ \A q \in Procs \ {r} : cert'[q] = cert[q] /\ val'[q] = val[q]
  <2> USE DEF TypeOK, LoopTypes, Labels
  <2>1. CASE SourceMiss(r)
    BY <2>1 DEF SourceMiss
  <2>2. CASE SourceHit(r)
    BY <2>2 DEF SourceHit
  <2>3. CASE AcquireVerifyLock(r) \/ CacheExhausted(r) \/ FallbackExhausted(r)
    BY <2>3 DEF AcquireVerifyLock, CacheExhausted, FallbackExhausted, ReadExhausted, Return
  <2>4. CASE VerifySource(r)
    BY <2>4 DEF VerifySource, VerifyAccepts, VerifyRejects
  <2>5. CASE VerifySourcePanics(r) \/ CheckV2Panics(r)
    BY <2>5 DEF VerifySourcePanics, VerifyPanics, CheckV2Panics, Abort
  <2>6. CASE GetV1(r)
    BY <2>6 DEF GetV1, EigenDAFailed, Return
  <2>7. CASE CheckV1(r)
    BY <2>7 DEF CheckV1, EigenDARead, EigenDAFailed, Return
  <2>8. CASE CheckV2(r)
    BY <2>8 DEF CheckV2, EigenDAFailed, Return
  <2>9. CASE GetV2(r)
    BY <2>9 DEF GetV2, EigenDARead, EigenDAFailed, Return
  <2>10. QED
    BY <2>1, <2>2, <2>3, <2>4, <2>5, <2>6, <2>7, <2>8, <2>9 DEF ReadStep
<1>3. QED
  BY <1>1, <1>2, SameBlobs, InFlight DEF ServiceStep

\* The network takes a new blob: Store.
LEMMA StoreService ==
  ASSUME TypeOK, NEW c \in Certs, NEW v \in Versions, NEW d \in Payloads,
         da[c] = NotDispersed, da' = [da EXCEPT ![c] = [ver |-> v, payload |-> d]],
         Replies' = Replies
  PROVE  ServiceStep
<1>1. BlobsOf[c] = NoData /\ BlobsOf' = [BlobsOf EXCEPT ![c] = d]
  <2> DEFINE blob == [ver |-> v, payload |-> d]
  <2>1. blob # NotDispersed /\ blob.payload = d
    OBVIOUS
  <2> HIDE DEF blob
  <2>2. da' = [da EXCEPT ![c] = blob] /\ DOMAIN da = Certs
    BY DEF blob, TypeOK, SystemTypes
  <2> DEFINE F == [x \in Certs |-> IF da[x] = NotDispersed THEN NoData ELSE da[x].payload]
             G == [x \in Certs |-> IF da'[x] = NotDispersed THEN NoData ELSE da'[x].payload]
  <2>3. BlobsOf = F /\ BlobsOf' = G
    BY Zenon DEF BlobsOf
  <2>4. da'[c] = blob /\ \A x \in Certs : x # c => da'[x] = da[x]
    BY <2>2
  <2>5. G[c] = d /\ \A x \in Certs : x # c => G[x] = F[x]
    BY <2>1, <2>4
  <2>6. F[c] = NoData
    OBVIOUS
  <2>7. G = [F EXCEPT ![c] = d]
    BY <2>5
  <2>8. QED
    BY <2>3, <2>6, <2>7
<1>2. QED
  BY <1>1 DEF ServiceStep, Service!Next, Service!Store

\* A dispersal stores a blob; the other steps of a write are invisible.
LEMMA WriteStepService ==
  ASSUME TypeOK, Integrity, NEW r \in Requests, WriteStep(r)
  PROVE  ServiceStep
<1> USE DEF loopVars, secondaryVars, managerVars, FrameServer, Goto, readFrame
<1>1. Replies' = Replies
  <2>1. /\ pc[r] # "done"
        /\ \E label \in Labels \ {"done"} : pc' = [pc EXCEPT ![r] = label]
    <3> USE DEF TypeOK, LoopTypes, Labels
    <3>1. CASE Disperse(r)
      BY <3>1 DEF Disperse
    <3>2. CASE DisperseFails(r)
      BY <3>2 DEF DisperseFails, Return
    <3>3. CASE BackupToSecondary(r)
      BY <3>3 DEF BackupToSecondary
    <3>4. CASE SourcePut(r)
      BY <3>4 DEF SourcePut
    <3>5. CASE SyncBackupDone(r)
      BY <3>5 DEF SyncBackupDone, WriteFinished
    <3>6. QED
      BY <3>1, <3>2, <3>3, <3>4, <3>5 DEF WriteStep
  <2>2. UNCHANGED <<cert, val, op, status>>
    BY DEF WriteStep, Disperse, DisperseFails, BackupToSecondary, SourcePut, SyncBackupDone
  <2>3. QED
    BY <2>1, <2>2, InFlight
<1>2. CASE Disperse(r)
  <2>1. /\ cert[r] \in Certs
        /\ val[r] \in Payloads
        /\ da[cert[r]] = NotDispersed
    BY <1>2 DEF Disperse, Integrity, CertKnown, DispersalOwnsCert, Working
  <2>2. VersionOf(via[r]) \in Versions
    BY DEF VersionOf, Versions
  <2>3. da' = [da EXCEPT ![cert[r]] = [ver |-> VersionOf(via[r]), payload |-> val[r]]]
    BY <1>2 DEF Disperse
  <2>4. QED
    BY <1>1, <2>1, <2>2, <2>3, StoreService
<1>3. CASE ~Disperse(r)
  <2>1. UNCHANGED da
    BY <1>3 DEF WriteStep, DisperseFails, BackupToSecondary, SyncBackupDone
  <2>2. QED
    BY <1>1, <2>1, SameBlobs DEF ServiceStep
<1>4. QED
  BY <1>2, <1>3

\* Subscription goroutines are invisible.
LEMMA WorkerStepService ==
  ASSUME TypeOK, NEW w \in Workers,
         WorkerStep(w) \/ \E r \in Requests : Receive(w, r)
  PROVE  ServiceStep
<1> USE DEF loopVars, secondaryVars, managerVars, FrameServer, Goto
<1>1. UNCHANGED <<da, op, status>>
  BY DEF WorkerStep, Receive
<1>2. ASSUME NEW r \in Requests PROVE SameReply(r)
  <2> USE DEF TypeOK, LoopTypes
  <2>1. CASE WorkerStep(w)
    <3>1. pc'[r] = pc[r] /\ cert'[r] = cert[r] /\ val'[r] = val[r]
      BY <2>1 DEF WorkerStep, WorkerStart, SourcePut, WorkerFinish, WorkerStop
    <3>2. QED
      BY <1>1, <3>1 DEF SameReply
  <2>2. ASSUME NEW q \in Requests, Receive(w, q) PROVE SameReply(r)
    <3>1. cert'[r] = cert[r] /\ val'[r] = val[r]
      BY <2>2 DEF Receive, WorkerReceive
    <3>2. r # q => pc'[r] = pc[r]
      BY <2>2 DEF Receive, WorkerReceive
    <3>3. pc[q] # "done" /\ pc'[q] # "done"
      BY <2>2 DEF Receive, WorkerReceive
    <3>4. QED
      BY <1>1, <3>1, <3>2, <3>3 DEF SameReply
  <2>3. QED
    BY <2>1, <2>2
<1>3. QED
  BY <1>1, <1>2, SameBlobs, SameReplies DEF ServiceStep

\* A new request hides the slot's last answer: Ask.
LEMMA AskService ==
  ASSUME TypeOK, NEW r \in Requests,
         \/ \E v \in Versions, c \in Certs, q \in Recencies : HandleGet(r, v, c, q)
         \/ \E d \in Payloads, c \in Certs : HandlePost(r, d, c)
  PROVE  ServiceStep
<1> USE DEF Goto
<1>1. UNCHANGED da
  BY DEF HandleGet, Get, BeginGet, HandlePost, Put
<1>2. \E label \in Labels \ {"done"} : pc' = [pc EXCEPT ![r] = label]
  BY DEF HandleGet, Get, HandlePost, Put, Return, Labels
<1>3. \A q \in Requests \ {r} :
        /\ cert'[q] = cert[q]
        /\ val'[q] = val[q]
        /\ op'[q] = op[q]
        /\ status'[q] = status[q]
  BY DEF HandleGet, Get, BeginGet, HandlePost, Put, TypeOK, LoopTypes, CallTypes
<1>4. \A q \in Requests \ {r} : SameReply(q)
  BY <1>2, <1>3 DEF SameReply, TypeOK, LoopTypes
<1>5. ReplyOf(r)' = Service!Pending
  <2>1. pc'[r] # "done"
    BY <1>2 DEF TypeOK, LoopTypes
  <2>2. QED
    BY <2>1 DEF ReplyOf, Served, Acked, Service!Pending
<1>6. QED
  BY <1>1, <1>4, <1>5, SameBlobs, OneReply DEF ServiceStep, Service!Next, Service!Ask

\* An answer: the blob stored under the cert, or a failure.
LEMMA AnswerService ==
  ASSUME TypeOK, Integrity, ~Corruption, NEW r \in Requests, Respond(r)
  PROVE  ServiceStep
<1> USE DEF Goto
<1>1. /\ pc[r] = "returned"
      /\ op[r] \in {"get", "post"}
      /\ Answer(r, StatusOf(err[r]))
      /\ UNCHANGED <<cert, op, da>>
  BY DEF Respond, RespondGet, RespondPost
<1>2. \A q \in Requests \ {r} : SameReply(q)
  BY <1>1 DEF Answer, SameReply, TypeOK, LoopTypes, CallTypes
<1>3. Replies' = [Replies EXCEPT ![r] = ReplyOf(r)']
  BY <1>2, OneReply
<1>4. pc'[r] = "done" /\ status'[r] = StatusOf(err[r])
  BY <1>1 DEF Answer, TypeOK, LoopTypes, CallTypes
<1>5. CASE err[r] = "none"
  <2>1. cert[r] \in Certs /\ Committed(cert[r], val[r])
    BY <1>1, <1>5 DEF Integrity, ReturnedIsCommitted, Trusted
  <2>2. status'[r] = 200
    BY <1>4, <1>5 DEF StatusOf
  <2>3. val'[r] = val[r]
    BY <1>1, <1>5 DEF Answer, StatusOf, TypeOK, LoopTypes
  <2>4. ReplyOf(r)' = [kind |-> op[r], cert |-> cert[r], payload |-> val[r]]
    BY <1>1, <1>4, <2>2, <2>3 DEF ReplyOf, Served, Acked
  <2>5. BlobsOf[cert[r]] = val[r] /\ val[r] # NoData
    BY <2>1 DEF BlobsOf, Committed, TypeOK, SystemTypes
  <2>6. Replies[r] = Service!Pending
    BY <1>1, InFlightIsPending
  <2>7. Service!Deliver(r, op[r], cert[r])
    BY <1>1, <1>3, <2>4, <2>5, <2>6, SameBlobs DEF Service!Deliver
  <2>8. QED
    BY <1>1, <2>1, <2>7 DEF ServiceStep, Service!Next
<1>6. CASE err[r] # "none"
  <2>1. status'[r] # 200
    BY <1>4, <1>6 DEF StatusOf, TypeOK, CallTypes, Errors
  <2>2. ReplyOf(r)' = Service!Failed
    BY <1>4, <2>1 DEF ReplyOf, Served, Acked, Service!Failed
  <2>3. QED
    BY <1>1, <1>3, <2>2, SameBlobs DEF ServiceStep, Service!Next, Service!Fail
<1>7. QED
  BY <1>5, <1>6

\* A request that does not parse fails.
LEMMA RejectService ==
  ASSUME TypeOK, NEW r \in Requests, RejectRequest(r)
  PROVE  ServiceStep
<1> USE DEF Goto
<1>1. \A q \in Requests \ {r} : SameReply(q)
  BY DEF RejectRequest, Answer, SameReply, TypeOK, LoopTypes, CallTypes
<1>2. pc'[r] = "done" /\ status'[r] = 400
  BY DEF RejectRequest, Answer, TypeOK, LoopTypes, CallTypes
<1>3. ReplyOf(r)' = Service!Failed
  BY <1>2 DEF ReplyOf, Served, Acked, Service!Failed
<1>4. UNCHANGED da
  BY DEF RejectRequest
<1>5. QED
  BY <1>1, <1>3, <1>4, OneReply, SameBlobs DEF ServiceStep, Service!Next, Service!Fail

\* A restart forgets the requests in flight and nothing a client has seen.
LEMMA RestartService ==
  ASSUME TypeOK, Restart
  PROVE  ServiceStep
<1>1. ASSUME NEW r \in Requests PROVE SameReply(r)
  <2>1. CASE Free(r)
    <3>1. pc'[r] = pc[r] /\ cert'[r] = cert[r] /\ val'[r] = val[r]
      BY <2>1 DEF Restart
    <3>2. op' = op /\ status' = status
      BY DEF Restart
    <3>3. QED
      BY <3>1, <3>2 DEF SameReply
  <2>2. CASE ~Free(r)
    <3>1. pc'[r] = "aborted"
      BY <2>2 DEF Restart
    <3>2. QED
      BY <2>2, <3>1 DEF SameReply, Free
  <2>3. QED
    BY <2>1, <2>2
<1>2. UNCHANGED da
  BY DEF Restart
<1>3. QED
  BY <1>1, <1>2, SameReplies, SameBlobs DEF ServiceStep

\* Steps outside the proxy: another dispersal is a Store, the rest is invisible.
LEMMA OutsideService ==
  ASSUME TypeOK,
         \/ \E backend \in Backends : HandleSetBackend(backend)
         \/ \E c \in Certs, v \in Versions, d \in Payloads :
              DisperseElsewhere(c, v, d) /\ FrameServer
         \/ \E s \in Sources, c \in Certs :
              (Evict(s, c) \/ Corrupt(s, c)) /\ UNCHANGED managerVars /\ FrameServer
         \/ Stop
         \/ CtxCancel
  PROVE  ServiceStep
<1> USE DEF loopVars, secondaryVars, managerVars, FrameServer
<1>1. UNCHANGED <<pc, cert, val, op, status>>
  BY DEF HandleSetBackend, SetDispersalBackend, DisperseElsewhere, Evict, Corrupt, Stop, CtxCancel
<1>2. Replies' = Replies
  <2>1. ASSUME NEW r \in Requests PROVE SameReply(r)
    BY <1>1 DEF SameReply
  <2>2. QED
    BY <2>1, SameReplies
<1>3. CASE \E c \in Certs, v \in Versions, d \in Payloads : DisperseElsewhere(c, v, d)
  BY <1>2, <1>3, StoreService DEF DisperseElsewhere, FreshCert
<1>4. CASE UNCHANGED da
  BY <1>2, <1>4, SameBlobs DEF ServiceStep
<1>5. QED
  BY <1>3, <1>4 DEF HandleSetBackend, SetDispersalBackend, Evict, Corrupt, Stop, CtxCancel

\* Every answer of the proxy, from a cache, from EigenDA or from a fallback,
\* before and after restarts, is an answer of the write-once blob service.
THEOREM ServerImplementsBlobService ==
  ASSUME ~Corruption
  PROVE  Spec => ImplementsBlobService
<1>1. Init => Service!Init
  <2> SUFFICES ASSUME Init PROVE Service!Init
    OBVIOUS
  <2>1. BlobsOf = [c \in Certs |-> NoData]
    BY DEF Init, BlobsOf
  <2>2. Replies = [r \in Requests |-> Service!Pending]
    <3>1. \A r \in Requests : pc[r] # "done"
      BY DEF Init
    <3>2. \A r \in Requests : Replies[r] = Service!Pending
      BY <3>1, InFlightIsPending
    <3>3. QED
      BY <3>2 DEF Replies
  <2>3. QED
    BY <2>1, <2>2 DEF Service!Init
<1>2. IInv /\ [Next]_vars => [Service!Next]_<<BlobsOf, Replies>>
  <2> SUFFICES ASSUME TypeOK, Integrity, [Next]_vars PROVE ServiceStep
    BY DEF IInv, ServiceStep
  <2>1. CASE Environment
    <3>1. CASE \E r \in Requests : RejectRequest(r)
      BY <3>1, RejectService
    <3>2. CASE \E r \in Requests, v \in UsedVersions, c \in Certs :
                 \E q \in RecencyOutcomes(v) : HandleGet(r, v, c, q)
      <4>1. PICK r \in Requests, v \in UsedVersions, c \in Certs :
              \E q \in RecencyOutcomes(v) : HandleGet(r, v, c, q)
        BY <3>2
      <4>2. v \in Versions /\ RecencyOutcomes(v) \subseteq Recencies
        BY DEF RecencyOutcomes, Recencies
      <4>3. QED
        BY <4>1, <4>2, AskService
    <3>3. CASE \E r \in Requests, d \in Payloads, c \in Certs : HandlePost(r, d, c)
      BY <3>3, AskService
    <3>4. CASE Restart
      BY <3>4, RestartService
    <3>5. CASE ~Restart /\ ~(\E r \in Requests : RejectRequest(r))
      BY <2>1, <3>2, <3>3, <3>5, OutsideService DEF Environment
    <3>6. QED
      BY <3>1, <3>4, <3>5
  <2>2. CASE \E r \in Requests : ReadStep(r) \/ WriteStep(r) \/ Respond(r)
    BY <2>2, ReadStepService, WriteStepService, AnswerService
  <2>3. CASE \E w \in Workers : WorkerStep(w) \/ \E r \in Requests : Receive(w, r)
    BY <2>3, WorkerStepService
  <2>4. CASE UNCHANGED vars
    <3>1. UNCHANGED <<pc, cert, val, op, status, da>>
      BY <2>4 DEF vars, loopVars, secondaryVars, managerVars
    <3>2. \A r \in Requests : SameReply(r)
      BY <3>1 DEF SameReply
    <3>3. QED
      BY <3>1, <3>2, SameReplies, SameBlobs DEF ServiceStep
  <2>5. QED
    BY <2>1, <2>2, <2>3, <2>4 DEF Next
<1>3. QED
  BY <1>1, <1>2, IntegrityInvariant, PTL DEF Spec, ImplementsBlobService, Service!Spec
=============================================================================
