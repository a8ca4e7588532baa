---------------------------- MODULE ServerProofs ----------------------------
(***************************************************************************)
(* Theorems about Server, for every set of requests, goroutines, certs,    *)
(* payloads and targets, and every order of caches and fallbacks.          *)
(***************************************************************************)
EXTENDS Server, TLAPS

USE SecondaryAssumption, NewManager, ServerAssumption DEF Procs

-----------------------------------------------------------------------------
(* Integrity: the payload that leaves the proxy, or is stored by it, is    *)
(* the one its cert commits to.                                            *)

IInv == TypeOK /\ Integrity

\* What verify accepts is a V1 payload that matches its cert, or a V2 cert.
LEMMA VerifyAcceptsV1 ==
  ASSUME NEW c, NEW d, "none" \in VerifyV1(c, d)
  PROVE  Committed(c, d)
BY DEF VerifyV1, DAErrors

LEMMA VerifyAcceptsV2 ==
  ASSUME NEW c, NEW v, NEW q, "none" \in VerifyV2(c, v, q)
  PROVE  da[c] # NotDispersed
BY DEF VerifyV2, DAErrors, Decodes

\* Verification ends in success or in an error the manager knows.
LEMMA VerifyV1Outcomes ==
  ASSUME NEW c, NEW d, NEW e \in VerifyV1(c, d)
  PROVE  e = "none" \/ e \in Errors
BY DEF VerifyV1, DAErrors, Errors

LEMMA VerifyV2Outcomes ==
  ASSUME NEW c, NEW v, NEW q, NEW e \in VerifyV2(c, v, q)
  PROVE  e = "none" \/ e \in Errors
BY DEF VerifyV2, DAErrors, Errors

\* EigenDA delivered the payload a cert commits to.
LEMMA EigenDAReadIntegrity ==
  ASSUME IInv, NEW r \in Requests, pc[r] \in {"fetch", "check"}, NEW d \in Payloads,
         Committed(cert[r], d), EigenDARead(r, d), UNCHANGED readFrame, FrameServer
  PROVE  IInv'
<1> USE DEF IInv, TypeOK, LoopTypes, SecondaryTypes, CallTypes, SystemTypes, Labels, Tiers, Versions,
           Backends, Recencies, Errors, loopVars, secondaryVars, managerVars, FrameServer, Goto
<1>1. LoopTypes'
  BY DEF EigenDARead, readFrame
<1>2. SecondaryTypes'
  BY DEF EigenDARead, readFrame
<1>3. CallTypes'
  BY DEF EigenDARead, readFrame
<1>4. SystemTypes'
  BY DEF EigenDARead, readFrame
<1>5. Integrity'
  BY DEF Integrity, CertKnown, ReadsAreGets, DispersalOwnsCert, V2CheckedIsDispersed,
         WritesAreCommitted, ReturnedIsCommitted, AnsweredIsCommitted, ReadIsCommitted,
         BackedUpIsCommitted, Working, Trusted, Committed,
         EigenDARead, readFrame
<1>6. QED
  BY <1>1, <1>2, <1>3, <1>4, <1>5

\* EigenDA failed: on to the fallbacks, or an error.
LEMMA EigenDAFailedIntegrity ==
  ASSUME IInv, NEW r \in Requests, pc[r] \in {"fetch", "check"}, NEW e \in Errors,
         EigenDAFailed(r, e), UNCHANGED readFrame, FrameServer
  PROVE  IInv'
<1> USE DEF IInv, TypeOK, LoopTypes, SecondaryTypes, CallTypes, SystemTypes, Labels, Tiers, Versions,
           Backends, Recencies, Errors, loopVars, secondaryVars, managerVars, FrameServer, Goto
<1>1. CASE FallbackEnabled
  <2>1. /\ pc' = [pc EXCEPT ![r] = "read"]
        /\ val' = [val EXCEPT ![r] = NoData]
        /\ tier' = [tier EXCEPT ![r] = "fallback"]
        /\ idx' = [idx EXCEPT ![r] = 1]
        /\ UNCHANGED err
    BY <1>1 DEF EigenDAFailed
  <2>2. LoopTypes'
    BY <2>1 DEF readFrame
  <2>3. SecondaryTypes'
    BY <2>1 DEF readFrame
  <2>4. CallTypes'
    BY <2>1 DEF readFrame
  <2>5. SystemTypes'
    BY <2>1 DEF readFrame
  <2>6. Integrity'
    BY <2>1 DEF Integrity, CertKnown, ReadsAreGets, DispersalOwnsCert, V2CheckedIsDispersed,
           WritesAreCommitted, ReturnedIsCommitted, AnsweredIsCommitted, ReadIsCommitted,
           BackedUpIsCommitted, Working, Trusted, Committed,
           readFrame
  <2>7. QED
    BY <2>2, <2>3, <2>4, <2>5, <2>6
<1>2. CASE ~FallbackEnabled
  <2>1. /\ pc' = [pc EXCEPT ![r] = "returned"]
        /\ val' = [val EXCEPT ![r] = NoData]
        /\ err' = [err EXCEPT ![r] = e]
        /\ UNCHANGED <<tier, idx>>
    BY <1>2 DEF EigenDAFailed, Return
  <2>2. LoopTypes'
    BY <2>1 DEF readFrame
  <2>3. SecondaryTypes'
    BY <2>1 DEF readFrame
  <2>4. CallTypes'
    BY <2>1 DEF readFrame
  <2>5. SystemTypes'
    BY <2>1 DEF readFrame
  <2>6. Integrity'
    BY <2>1 DEF Integrity, CertKnown, ReadsAreGets, DispersalOwnsCert, V2CheckedIsDispersed,
           WritesAreCommitted, ReturnedIsCommitted, AnsweredIsCommitted, ReadIsCommitted,
           BackedUpIsCommitted, Working, Trusted, Committed,
           readFrame
  <2>7. QED
    BY <2>2, <2>3, <2>4, <2>5, <2>6
<1>3. QED
  BY <1>1, <1>2

\* A write to a target.
LEMMA SourcePutIntegrity ==
  ASSUME IInv, NEW p \in Procs, SourcePut(p), UNCHANGED managerVars, FrameServer
  PROVE  IInv'
<1> USE DEF IInv, TypeOK, LoopTypes, SecondaryTypes, CallTypes, SystemTypes, Labels, Tiers, Versions,
           Backends, Recencies, Errors, loopVars, secondaryVars, managerVars, FrameServer, Goto
<1> DEFINE s == AllTargets[idx[p]]
<1>1. s \in Sources /\ cert[p] \in Certs /\ Committed(cert[p], val[p])
  <2>1. AllTargets \in Seq(Sources)
    BY DEF AllTargets
  <2>2. s \in Sources
    BY <2>1 DEF SourcePut
  <2>3. QED
    BY <2>2 DEF SourcePut, Integrity, CertKnown, WritesAreCommitted, Working
<1>2. held' = [held EXCEPT ![s][cert[p]] = val[p]] \/ UNCHANGED held
  BY DEF SourcePut
<1> HIDE DEF s
<1>3. CASE held' = [held EXCEPT ![s][cert[p]] = val[p]]
  <2>1. LoopTypes'
    BY <1>1, <1>3 DEF SourcePut
  <2>2. SecondaryTypes'
    BY <1>1, <1>3 DEF SourcePut
  <2>3. CallTypes'
    BY <1>1, <1>3 DEF SourcePut
  <2>4. SystemTypes'
    BY <1>1, <1>3 DEF SourcePut
  <2>5. Integrity'
    BY <1>1, <1>3 DEF Integrity, CertKnown, ReadsAreGets, DispersalOwnsCert, V2CheckedIsDispersed,
           WritesAreCommitted, ReturnedIsCommitted, AnsweredIsCommitted, ReadIsCommitted,
           BackedUpIsCommitted, Working, Trusted, Committed,
           SourcePut
  <2>6. QED
    BY <2>1, <2>2, <2>3, <2>4, <2>5
<1>4. CASE UNCHANGED held
  <2>1. LoopTypes'
    BY <1>4 DEF SourcePut
  <2>2. SecondaryTypes'
    BY <1>4 DEF SourcePut
  <2>3. CallTypes'
    BY <1>4 DEF SourcePut
  <2>4. SystemTypes'
    BY <1>4 DEF SourcePut
  <2>5. Integrity'
    BY <1>4 DEF Integrity, CertKnown, ReadsAreGets, DispersalOwnsCert, V2CheckedIsDispersed,
           WritesAreCommitted, ReturnedIsCommitted, AnsweredIsCommitted, ReadIsCommitted,
           BackedUpIsCommitted, Working, Trusted, Committed,
           SourcePut
  <2>6. QED
    BY <2>1, <2>2, <2>3, <2>4, <2>5
<1>5. QED
  BY <1>2, <1>3, <1>4

\* A step of a read: from the targets or from EigenDA.
LEMMA ReadStepIntegrity ==
  ASSUME IInv, NEW r \in Requests, ReadStep(r)
  PROVE  IInv'
<1> USE DEF IInv, TypeOK, LoopTypes, SecondaryTypes, CallTypes, SystemTypes, Labels, Tiers, Versions,
           Backends, Recencies, Errors, loopVars, secondaryVars, managerVars, FrameServer, Goto
<1>1. CASE SourceMiss(r) /\ UNCHANGED managerVars /\ FrameServer
  <2>1. LoopTypes'
    BY <1>1 DEF SourceMiss
  <2>2. SecondaryTypes'
    BY <1>1 DEF SourceMiss
  <2>3. CallTypes'
    BY <1>1 DEF SourceMiss
  <2>4. SystemTypes'
    BY <1>1 DEF SourceMiss
  <2>5. Integrity'
    BY <1>1 DEF Integrity, CertKnown, ReadsAreGets, DispersalOwnsCert, V2CheckedIsDispersed,
           WritesAreCommitted, ReturnedIsCommitted, AnsweredIsCommitted, ReadIsCommitted,
           BackedUpIsCommitted, Working, Trusted, Committed,
           SourceMiss
  <2>6. QED
    BY <2>1, <2>2, <2>3, <2>4, <2>5
<1>2. CASE SourceHit(r) /\ UNCHANGED managerVars /\ FrameServer
  <2>1. LoopTypes'
    BY <1>2 DEF SourceHit, Targets, Integrity, CertKnown, Working
  <2>2. SecondaryTypes'
    BY <1>2 DEF SourceHit, Targets, Integrity, CertKnown, Working
  <2>3. CallTypes'
    BY <1>2 DEF SourceHit, Targets, Integrity, CertKnown, Working
  <2>4. SystemTypes'
    BY <1>2 DEF SourceHit, Targets, Integrity, CertKnown, Working
  <2>5. Integrity'
    BY <1>2 DEF Integrity, CertKnown, ReadsAreGets, DispersalOwnsCert, V2CheckedIsDispersed,
           WritesAreCommitted, ReturnedIsCommitted, AnsweredIsCommitted, ReadIsCommitted,
           BackedUpIsCommitted, Working, Trusted, Committed,
           SourceHit, Targets
  <2>6. QED
    BY <2>1, <2>2, <2>3, <2>4, <2>5
<1>3. CASE AcquireVerifyLock(r) /\ UNCHANGED managerVars /\ FrameServer
  <2>1. LoopTypes'
    BY <1>3 DEF AcquireVerifyLock
  <2>2. SecondaryTypes'
    BY <1>3 DEF AcquireVerifyLock
  <2>3. CallTypes'
    BY <1>3 DEF AcquireVerifyLock
  <2>4. SystemTypes'
    BY <1>3 DEF AcquireVerifyLock
  <2>5. Integrity'
    BY <1>3 DEF Integrity, CertKnown, ReadsAreGets, DispersalOwnsCert, V2CheckedIsDispersed,
           WritesAreCommitted, ReturnedIsCommitted, AnsweredIsCommitted, ReadIsCommitted,
           BackedUpIsCommitted, Working, Trusted, Committed,
           AcquireVerifyLock
  <2>6. QED
    BY <2>1, <2>2, <2>3, <2>4, <2>5
<1>4. CASE VerifySource(r) /\ FrameServer
  <2>1. CASE "none" \in Verify(r, val[r]) /\ VerifyAccepts(r)
    <3>1. Trusted(r) => Committed(cert[r], val[r])
      BY <1>4, <2>1, VerifyAcceptsV1
         DEF Verify, VerifySource, Trusted, Integrity, ReadsAreGets, ReadIsCommitted
    <3>2. LoopTypes'
      BY <1>4, <2>1, <3>1 DEF VerifySource, VerifyAccepts
    <3>3. SecondaryTypes'
      BY <1>4, <2>1, <3>1 DEF VerifySource, VerifyAccepts
    <3>4. CallTypes'
      BY <1>4, <2>1, <3>1 DEF VerifySource, VerifyAccepts
    <3>5. SystemTypes'
      BY <1>4, <2>1, <3>1 DEF VerifySource, VerifyAccepts
    <3>6. Integrity'
      BY <1>4, <2>1, <3>1 DEF Integrity, CertKnown, ReadsAreGets, DispersalOwnsCert, V2CheckedIsDispersed,
             WritesAreCommitted, ReturnedIsCommitted, AnsweredIsCommitted, ReadIsCommitted,
             BackedUpIsCommitted, Working, Trusted, Committed,
             VerifySource, VerifyAccepts
    <3>7. QED
      BY <3>2, <3>3, <3>4, <3>5, <3>6
  <2>2. CASE VerifyRejects(r)
    <3>1. LoopTypes'
      BY <1>4, <2>2 DEF VerifySource, VerifyRejects
    <3>2. SecondaryTypes'
      BY <1>4, <2>2 DEF VerifySource, VerifyRejects
    <3>3. CallTypes'
      BY <1>4, <2>2 DEF VerifySource, VerifyRejects
    <3>4. SystemTypes'
      BY <1>4, <2>2 DEF VerifySource, VerifyRejects
    <3>5. Integrity'
      BY <1>4, <2>2 DEF Integrity, CertKnown, ReadsAreGets, DispersalOwnsCert, V2CheckedIsDispersed,
             WritesAreCommitted, ReturnedIsCommitted, AnsweredIsCommitted, ReadIsCommitted,
             BackedUpIsCommitted, Working, Trusted, Committed,
             VerifySource, VerifyRejects
    <3>6. QED
      BY <3>1, <3>2, <3>3, <3>4, <3>5
  <2>3. QED
    BY <1>4, <2>1, <2>2 DEF VerifySource
<1>5. CASE VerifySourcePanics(r) /\ FrameServer
  <2>1. LoopTypes'
    BY <1>5 DEF VerifySourcePanics, VerifyPanics, Abort
  <2>2. SecondaryTypes'
    BY <1>5 DEF VerifySourcePanics, VerifyPanics, Abort
  <2>3. CallTypes'
    BY <1>5 DEF VerifySourcePanics, VerifyPanics, Abort
  <2>4. SystemTypes'
    BY <1>5 DEF VerifySourcePanics, VerifyPanics, Abort
  <2>5. Integrity'
    BY <1>5 DEF Integrity, CertKnown, ReadsAreGets, DispersalOwnsCert, V2CheckedIsDispersed,
           WritesAreCommitted, ReturnedIsCommitted, AnsweredIsCommitted, ReadIsCommitted,
           BackedUpIsCommitted, Working, Trusted, Committed,
           VerifySourcePanics, VerifyPanics, Abort
  <2>6. QED
    BY <2>1, <2>2, <2>3, <2>4, <2>5
<1>6. CASE CacheExhausted(r) /\ FrameServer
  <2>1. LoopTypes'
    BY <1>6 DEF CacheExhausted, ReadExhausted
  <2>2. SecondaryTypes'
    BY <1>6 DEF CacheExhausted, ReadExhausted
  <2>3. CallTypes'
    BY <1>6 DEF CacheExhausted, ReadExhausted
  <2>4. SystemTypes'
    BY <1>6 DEF CacheExhausted, ReadExhausted
  <2>5. Integrity'
    BY <1>6 DEF Integrity, CertKnown, ReadsAreGets, DispersalOwnsCert, V2CheckedIsDispersed,
           WritesAreCommitted, ReturnedIsCommitted, AnsweredIsCommitted, ReadIsCommitted,
           BackedUpIsCommitted, Working, Trusted, Committed,
           CacheExhausted, ReadExhausted
  <2>6. QED
    BY <2>1, <2>2, <2>3, <2>4, <2>5
<1>7. CASE GetV1(r) /\ FrameServer
  <2>1. CASE \E e \in {"internal", "rateLimited"} : EigenDAFailed(r, e)
    <3>1. PICK e \in {"internal", "rateLimited"} : EigenDAFailed(r, e)
      BY <2>1
    <3>2. e \in Errors
      BY <3>1 DEF Errors
    <3>3. pc[r] \in {"fetch", "check"} /\ UNCHANGED readFrame /\ FrameServer
      BY <1>7 DEF GetV1
    <3> HIDE DEF IInv, FrameServer
    <3>4. QED
      BY <3>1, <3>2, <3>3, EigenDAFailedIntegrity
  <2>2. CASE ~\E e \in {"internal", "rateLimited"} : EigenDAFailed(r, e)
    <3>1. PICK d \in Payloads : /\ val' = [val EXCEPT ![r] = d]
                               /\ pc' = [pc EXCEPT ![r] = "check"]
                               /\ UNCHANGED <<tier, idx, err>>
      BY <1>7, <2>2 DEF GetV1
    <3>2. pc[r] = "fetch" /\ ver[r] = "v0" /\ UNCHANGED readFrame /\ FrameServer
      BY <1>7 DEF GetV1
    <3>3. LoopTypes'
      BY <3>1, <3>2 DEF readFrame
    <3>4. SecondaryTypes'
      BY <3>1, <3>2 DEF readFrame
    <3>5. CallTypes'
      BY <3>1, <3>2 DEF readFrame
    <3>6. SystemTypes'
      BY <3>1, <3>2 DEF readFrame
    <3>7. Integrity'
      BY <3>1, <3>2 DEF Integrity, CertKnown, ReadsAreGets, DispersalOwnsCert, V2CheckedIsDispersed,
             WritesAreCommitted, ReturnedIsCommitted, AnsweredIsCommitted, ReadIsCommitted,
             BackedUpIsCommitted, Working, Trusted, Committed,
             readFrame
    <3>8. QED
      BY <3>3, <3>4, <3>5, <3>6, <3>7
  <2>3. QED
    BY <2>1, <2>2
<1>8. CASE CheckV1(r) /\ FrameServer
  <2>1. PICK e \in VerifyV1(cert[r], val[r]) :
          IF e = "none" THEN EigenDARead(r, val[r]) ELSE EigenDAFailed(r, e)
    BY <1>8 DEF CheckV1
  <2>2. pc[r] = "check" /\ UNCHANGED readFrame /\ FrameServer
    BY <1>8 DEF CheckV1
  <2>3. CASE e = "none"
    <3>1. Committed(cert[r], val[r])
      BY <2>3, VerifyAcceptsV1
    <3>2. val[r] \in Payloads
      BY <2>2, <3>1 DEF Committed, Integrity, CertKnown, Working
    <3>3. QED
      BY <2>1, <2>2, <2>3, <3>1, <3>2, EigenDAReadIntegrity
  <2>4. CASE e # "none"
    <3>1. e \in Errors
      BY <2>4, VerifyV1Outcomes
    <3>2. EigenDAFailed(r, e)
      BY <2>1, <2>4
    <3>3. pc[r] \in {"fetch", "check"} /\ UNCHANGED readFrame /\ FrameServer
      BY <2>2
    <3> HIDE DEF IInv, FrameServer
    <3>4. QED
      BY <3>1, <3>2, <3>3, EigenDAFailedIntegrity
  <2>5. QED
    BY <2>3, <2>4
<1>9. CASE CheckV2(r) /\ FrameServer
  <2>1. PICK e \in VerifyV2(cert[r], ver[r], recency[r]) :
          \/ e = "none" /\ Goto(r, "check") /\ UNCHANGED <<val, tier, idx, err>>
          \/ e # "none" /\ EigenDAFailed(r, e)
    BY <1>9 DEF CheckV2
  <2>2. pc[r] = "fetch" /\ UNCHANGED readFrame /\ FrameServer
    BY <1>9 DEF CheckV2
  <2>3. CASE e = "none"
    <3>1. da[cert[r]] # NotDispersed
      BY <2>3, VerifyAcceptsV2
    <3>2. pc' = [pc EXCEPT ![r] = "check"] /\ UNCHANGED <<val, tier, idx, err>>
      BY <2>1, <2>3
    <3>3. LoopTypes'
      BY <2>2, <3>1, <3>2 DEF readFrame
    <3>4. SecondaryTypes'
      BY <2>2, <3>1, <3>2 DEF readFrame
    <3>5. CallTypes'
      BY <2>2, <3>1, <3>2 DEF readFrame
    <3>6. SystemTypes'
      BY <2>2, <3>1, <3>2 DEF readFrame
    <3>7. Integrity'
      BY <2>2, <3>1, <3>2 DEF Integrity, CertKnown, ReadsAreGets, DispersalOwnsCert, V2CheckedIsDispersed,
             WritesAreCommitted, ReturnedIsCommitted, AnsweredIsCommitted, ReadIsCommitted,
             BackedUpIsCommitted, Working, Trusted, Committed,
             readFrame
    <3>8. QED
      BY <3>3, <3>4, <3>5, <3>6, <3>7
  <2>4. CASE e # "none"
    <3>1. e \in Errors
      BY <2>4, VerifyV2Outcomes
    <3>2. EigenDAFailed(r, e)
      BY <2>1, <2>4
    <3>3. pc[r] \in {"fetch", "check"} /\ UNCHANGED readFrame /\ FrameServer
      BY <2>2
    <3> HIDE DEF IInv, FrameServer
    <3>4. QED
      BY <3>1, <3>2, <3>3, EigenDAFailedIntegrity
  <2>5. QED
    BY <2>3, <2>4
<1>10. CASE CheckV2Panics(r) /\ FrameServer
  <2>1. LoopTypes'
    BY <1>10 DEF CheckV2Panics, Abort
  <2>2. SecondaryTypes'
    BY <1>10 DEF CheckV2Panics, Abort
  <2>3. CallTypes'
    BY <1>10 DEF CheckV2Panics, Abort
  <2>4. SystemTypes'
    BY <1>10 DEF CheckV2Panics, Abort
  <2>5. Integrity'
    BY <1>10 DEF Integrity, CertKnown, ReadsAreGets, DispersalOwnsCert, V2CheckedIsDispersed,
           WritesAreCommitted, ReturnedIsCommitted, AnsweredIsCommitted, ReadIsCommitted,
           BackedUpIsCommitted, Working, Trusted, Committed,
           CheckV2Panics, Abort
  <2>6. QED
    BY <2>1, <2>2, <2>3, <2>4, <2>5
<1>11. CASE GetV2(r) /\ FrameServer
  <2>1. CASE EigenDARead(r, da[cert[r]].payload)
    <3>1. /\ Committed(cert[r], da[cert[r]].payload)
          /\ da[cert[r]].payload \in Payloads
      BY <1>11 DEF GetV2, Integrity, CertKnown, V2CheckedIsDispersed, Working, Committed
    <3>2. QED
      BY <1>11, <2>1, <3>1, EigenDAReadIntegrity DEF GetV2
  <2>2. CASE EigenDAFailed(r, "internal")
    BY <1>11, <2>2, EigenDAFailedIntegrity DEF GetV2
  <2>3. QED
    BY <1>11, <2>1, <2>2 DEF GetV2
<1>12. CASE FallbackExhausted(r) /\ FrameServer
  <2>1. LoopTypes'
    BY <1>12 DEF FallbackExhausted, ReadExhausted, Return, readFrame
  <2>2. SecondaryTypes'
    BY <1>12 DEF FallbackExhausted, ReadExhausted, Return, readFrame
  <2>3. CallTypes'
    BY <1>12 DEF FallbackExhausted, ReadExhausted, Return, readFrame
  <2>4. SystemTypes'
    BY <1>12 DEF FallbackExhausted, ReadExhausted, Return, readFrame
  <2>5. Integrity'
    BY <1>12 DEF Integrity, CertKnown, ReadsAreGets, DispersalOwnsCert, V2CheckedIsDispersed,
           WritesAreCommitted, ReturnedIsCommitted, AnsweredIsCommitted, ReadIsCommitted,
           BackedUpIsCommitted, Working, Trusted, Committed,
           FallbackExhausted, ReadExhausted, Return, readFrame
  <2>6. QED
    BY <2>1, <2>2, <2>3, <2>4, <2>5
<1>13. QED
  BY <1>1, <1>2, <1>3, <1>4, <1>5, <1>6, <1>7, <1>8, <1>9, <1>10, <1>11, <1>12 DEF ReadStep

\* A step of a POST after it loaded the backend, or of a backup.
LEMMA WriteStepIntegrity ==
  ASSUME IInv, NEW r \in Requests, WriteStep(r)
  PROVE  IInv'
<1> USE DEF IInv, TypeOK, LoopTypes, SecondaryTypes, CallTypes, SystemTypes, Labels, Tiers, Versions,
           Backends, Recencies, Errors, loopVars, secondaryVars, managerVars, FrameServer, Goto
<1>1. CASE Disperse(r) /\ FrameServer
  <2>1. LoopTypes'
    BY <1>1 DEF Disperse, VersionOf, Integrity, DispersalOwnsCert, CertKnown, Working
  <2>2. SecondaryTypes'
    BY <1>1 DEF Disperse, VersionOf, Integrity, DispersalOwnsCert, CertKnown, Working
  <2>3. CallTypes'
    BY <1>1 DEF Disperse, VersionOf, Integrity, DispersalOwnsCert, CertKnown, Working
  <2>4. SystemTypes'
    BY <1>1 DEF Disperse, VersionOf, Integrity, DispersalOwnsCert, CertKnown, Working
  <2>5. Integrity'
    BY <1>1 DEF Integrity, CertKnown, ReadsAreGets, DispersalOwnsCert, V2CheckedIsDispersed,
           WritesAreCommitted, ReturnedIsCommitted, AnsweredIsCommitted, ReadIsCommitted,
           BackedUpIsCommitted, Working, Trusted, Committed,
           Disperse, VersionOf
  <2>6. QED
    BY <2>1, <2>2, <2>3, <2>4, <2>5
<1>2. CASE DisperseFails(r) /\ FrameServer
  <2>1. LoopTypes'
    BY <1>2 DEF DisperseFails, PutErrors, Return, readFrame
  <2>2. SecondaryTypes'
    BY <1>2 DEF DisperseFails, PutErrors, Return, readFrame
  <2>3. CallTypes'
    BY <1>2 DEF DisperseFails, PutErrors, Return, readFrame
  <2>4. SystemTypes'
    BY <1>2 DEF DisperseFails, PutErrors, Return, readFrame
  <2>5. Integrity'
    BY <1>2 DEF Integrity, CertKnown, ReadsAreGets, DispersalOwnsCert, V2CheckedIsDispersed,
           WritesAreCommitted, ReturnedIsCommitted, AnsweredIsCommitted, ReadIsCommitted,
           BackedUpIsCommitted, Working, Trusted, Committed,
           DisperseFails, PutErrors, Return, readFrame
  <2>6. QED
    BY <2>1, <2>2, <2>3, <2>4, <2>5
<1>3. CASE BackupToSecondary(r) /\ FrameServer
  <2>1. LoopTypes'
    BY <1>3 DEF BackupToSecondary
  <2>2. SecondaryTypes'
    BY <1>3 DEF BackupToSecondary
  <2>3. CallTypes'
    BY <1>3 DEF BackupToSecondary
  <2>4. SystemTypes'
    BY <1>3 DEF BackupToSecondary
  <2>5. Integrity'
    BY <1>3 DEF Integrity, CertKnown, ReadsAreGets, DispersalOwnsCert, V2CheckedIsDispersed,
           WritesAreCommitted, ReturnedIsCommitted, AnsweredIsCommitted, ReadIsCommitted,
           BackedUpIsCommitted, Working, Trusted, Committed,
           BackupToSecondary
  <2>6. QED
    BY <2>1, <2>2, <2>3, <2>4, <2>5
<1>4. CASE SourcePut(r) /\ UNCHANGED managerVars /\ FrameServer
  BY <1>4, SourcePutIntegrity
<1>5. CASE SyncBackupDone(r) /\ FrameServer
  <2>1. LoopTypes'
    BY <1>5 DEF SyncBackupDone, WriteFinished
  <2>2. SecondaryTypes'
    BY <1>5 DEF SyncBackupDone, WriteFinished
  <2>3. CallTypes'
    BY <1>5 DEF SyncBackupDone, WriteFinished
  <2>4. SystemTypes'
    BY <1>5 DEF SyncBackupDone, WriteFinished
  <2>5. Integrity'
    BY <1>5 DEF Integrity, CertKnown, ReadsAreGets, DispersalOwnsCert, V2CheckedIsDispersed,
           WritesAreCommitted, ReturnedIsCommitted, AnsweredIsCommitted, ReadIsCommitted,
           BackedUpIsCommitted, Working, Trusted, Committed,
           SyncBackupDone, WriteFinished
  <2>6. QED
    BY <2>1, <2>2, <2>3, <2>4, <2>5
<1>6. QED
  BY <1>1, <1>2, <1>3, <1>4, <1>5 DEF WriteStep

\* A step of a subscription goroutine.
LEMMA WorkerStepIntegrity ==
  ASSUME IInv, NEW w \in Workers,
         WorkerStep(w) \/ \E r \in Requests : Receive(w, r)
  PROVE  IInv'
<1> USE DEF IInv, TypeOK, LoopTypes, SecondaryTypes, CallTypes, SystemTypes, Labels, Tiers, Versions,
           Backends, Recencies, Errors, loopVars, secondaryVars, managerVars, FrameServer, Goto
<1>1. CASE WorkerStart(w) /\ UNCHANGED managerVars /\ FrameServer
  <2>1. LoopTypes'
    BY <1>1 DEF WorkerStart
  <2>2. SecondaryTypes'
    BY <1>1 DEF WorkerStart
  <2>3. CallTypes'
    BY <1>1 DEF WorkerStart
  <2>4. SystemTypes'
    BY <1>1 DEF WorkerStart
  <2>5. Integrity'
    BY <1>1 DEF Integrity, CertKnown, ReadsAreGets, DispersalOwnsCert, V2CheckedIsDispersed,
           WritesAreCommitted, ReturnedIsCommitted, AnsweredIsCommitted, ReadIsCommitted,
           BackedUpIsCommitted, Working, Trusted, Committed,
           WorkerStart
  <2>6. QED
    BY <2>1, <2>2, <2>3, <2>4, <2>5
<1>2. CASE SourcePut(w) /\ UNCHANGED managerVars /\ FrameServer
  BY <1>2, SourcePutIntegrity
<1>3. CASE WorkerFinish(w) /\ UNCHANGED managerVars /\ FrameServer
  <2>1. LoopTypes'
    BY <1>3 DEF WorkerFinish, WriteFinished
  <2>2. SecondaryTypes'
    BY <1>3 DEF WorkerFinish, WriteFinished
  <2>3. CallTypes'
    BY <1>3 DEF WorkerFinish, WriteFinished
  <2>4. SystemTypes'
    BY <1>3 DEF WorkerFinish, WriteFinished
  <2>5. Integrity'
    BY <1>3 DEF Integrity, CertKnown, ReadsAreGets, DispersalOwnsCert, V2CheckedIsDispersed,
           WritesAreCommitted, ReturnedIsCommitted, AnsweredIsCommitted, ReadIsCommitted,
           BackedUpIsCommitted, Working, Trusted, Committed,
           WorkerFinish, WriteFinished
  <2>6. QED
    BY <2>1, <2>2, <2>3, <2>4, <2>5
<1>4. CASE WorkerStop(w) /\ UNCHANGED managerVars /\ FrameServer
  <2>1. LoopTypes'
    BY <1>4 DEF WorkerStop
  <2>2. SecondaryTypes'
    BY <1>4 DEF WorkerStop
  <2>3. CallTypes'
    BY <1>4 DEF WorkerStop
  <2>4. SystemTypes'
    BY <1>4 DEF WorkerStop
  <2>5. Integrity'
    BY <1>4 DEF Integrity, CertKnown, ReadsAreGets, DispersalOwnsCert, V2CheckedIsDispersed,
           WritesAreCommitted, ReturnedIsCommitted, AnsweredIsCommitted, ReadIsCommitted,
           BackedUpIsCommitted, Working, Trusted, Committed,
           WorkerStop
  <2>6. QED
    BY <2>1, <2>2, <2>3, <2>4, <2>5
<1>5. CASE \E r \in Requests : Receive(w, r)
  <2>1. PICK r \in Requests : Receive(w, r)
    BY <1>5
  <2>2. LoopTypes'
    <3>1. w \in Procs /\ r \in Procs
      OBVIOUS
    <3>2. pc' \in [Procs -> Labels]
      BY <2>1, <3>1 DEF Receive, WorkerReceive
    <3>3. cert' \in [Procs -> Certs \cup {NoCert}]
      BY <2>1, <3>1 DEF Receive, WorkerReceive
    <3>4. val' \in [Procs -> Payloads \cup {NoData}]
      BY <2>1, <3>1 DEF Receive, WorkerReceive
    <3>5. tier' \in [Procs -> Tiers] /\ idx' \in [Procs -> Nat \ {0}]
      BY <2>1, <3>1 DEF Receive, WorkerReceive
    <3>6. QED
      BY <3>2, <3>3, <3>4, <3>5
  <2>3. SecondaryTypes'
    BY <2>1 DEF Receive, WorkerReceive
  <2>4. CallTypes'
    BY <2>1 DEF Receive, WorkerReceive
  <2>5. SystemTypes'
    BY <2>1 DEF Receive, WorkerReceive
  <2>6. Integrity'
    BY <2>1 DEF Integrity, CertKnown, ReadsAreGets, DispersalOwnsCert, V2CheckedIsDispersed,
           WritesAreCommitted, ReturnedIsCommitted, AnsweredIsCommitted, ReadIsCommitted,
           BackedUpIsCommitted, Working, Trusted, Committed,
           Receive, WorkerReceive
  <2>7. QED
    BY <2>2, <2>3, <2>4, <2>5, <2>6
<1>6. QED
  BY <1>1, <1>2, <1>3, <1>4, <1>5 DEF WorkerStep

\* A request is accepted or answered.
LEMMA HandlerIntegrity ==
  ASSUME IInv, NEW r \in Requests,
         \/ RejectRequest(r)
         \/ \E v \in Versions, c \in Certs, q \in Recencies : HandleGet(r, v, c, q)
         \/ \E d \in Payloads, c \in Certs : HandlePost(r, d, c)
         \/ Respond(r)
  PROVE  IInv'
<1> USE DEF IInv, TypeOK, LoopTypes, SecondaryTypes, CallTypes, SystemTypes, Labels, Tiers, Versions,
           Backends, Recencies, Errors, loopVars, secondaryVars, managerVars, FrameServer, Goto
<1>1. CASE RejectRequest(r)
  <2>1. LoopTypes'
    BY <1>1 DEF RejectRequest, Answer, Accepting, Free
  <2>2. SecondaryTypes'
    BY <1>1 DEF RejectRequest, Answer, Accepting, Free
  <2>3. CallTypes'
    BY <1>1 DEF RejectRequest, Answer, Accepting, Free
  <2>4. SystemTypes'
    BY <1>1 DEF RejectRequest, Answer, Accepting, Free
  <2>5. Integrity'
    BY <1>1 DEF Integrity, CertKnown, ReadsAreGets, DispersalOwnsCert, V2CheckedIsDispersed,
           WritesAreCommitted, ReturnedIsCommitted, AnsweredIsCommitted, ReadIsCommitted,
           BackedUpIsCommitted, Working, Trusted, Committed,
           RejectRequest, Answer, Accepting, Free
  <2>6. QED
    BY <2>1, <2>2, <2>3, <2>4, <2>5
<1>2. CASE \E v \in Versions, c \in Certs, q \in Recencies : HandleGet(r, v, c, q)
  <2>1. PICK v \in Versions, c \in Certs, q \in Recencies : HandleGet(r, v, c, q)
    BY <1>2
  <2>2. PICK label \in {"returned", "read", "fetch"}, e \in {"none", "internal"} :
          /\ pc' = [pc EXCEPT ![r] = label]
          /\ err' = [err EXCEPT ![r] = e]
          /\ label = "returned" => e = "internal"
    BY <2>1 DEF HandleGet, Get, Return
  <2>3. LoopTypes'
    BY <2>1, <2>2 DEF HandleGet, Get, BeginGet
  <2>4. SecondaryTypes'
    BY <2>1, <2>2 DEF HandleGet, Get, BeginGet
  <2>5. CallTypes'
    BY <2>1, <2>2 DEF HandleGet, Get, BeginGet
  <2>6. SystemTypes'
    BY <2>1, <2>2 DEF HandleGet, Get, BeginGet
  <2>7. Integrity'
    BY <2>1, <2>2 DEF Integrity, CertKnown, ReadsAreGets, DispersalOwnsCert, V2CheckedIsDispersed,
           WritesAreCommitted, ReturnedIsCommitted, AnsweredIsCommitted, ReadIsCommitted,
           BackedUpIsCommitted, Working, Trusted, Committed,
           HandleGet, Get, BeginGet
  <2>8. QED
    BY <2>3, <2>4, <2>5, <2>6, <2>7
<1>3. CASE \E d \in Payloads, c \in Certs : HandlePost(r, d, c)
  <2>1. PICK d \in Payloads, c \in Certs : HandlePost(r, d, c)
    BY <1>3
  <2>2. PICK label \in {"returned", "disperse"}, e \in {"none", "internal"} :
          /\ pc' = [pc EXCEPT ![r] = label]
          /\ err' = [err EXCEPT ![r] = e]
          /\ label = "returned" => e = "internal"
    BY <2>1 DEF HandlePost, Put, Return
  <2>3. LoopTypes'
    BY <2>1, <2>2 DEF HandlePost, Put, FreshCert
  <2>4. SecondaryTypes'
    BY <2>1, <2>2 DEF HandlePost, Put, FreshCert
  <2>5. CallTypes'
    BY <2>1, <2>2 DEF HandlePost, Put, FreshCert
  <2>6. SystemTypes'
    BY <2>1, <2>2 DEF HandlePost, Put, FreshCert
  <2>7. Integrity'
    BY <2>1, <2>2 DEF Integrity, CertKnown, ReadsAreGets, DispersalOwnsCert, V2CheckedIsDispersed,
           WritesAreCommitted, ReturnedIsCommitted, AnsweredIsCommitted, ReadIsCommitted,
           BackedUpIsCommitted, Working, Trusted, Committed,
           HandlePost, Put, FreshCert
  <2>8. QED
    BY <2>3, <2>4, <2>5, <2>6, <2>7
<1>4. CASE RespondGet(r)
  <2>1. LoopTypes'
    BY <1>4 DEF RespondGet, Answer, StatusOf
  <2>2. SecondaryTypes'
    BY <1>4 DEF RespondGet, Answer, StatusOf
  <2>3. CallTypes'
    BY <1>4 DEF RespondGet, Answer, StatusOf
  <2>4. SystemTypes'
    BY <1>4 DEF RespondGet, Answer, StatusOf
  <2>5. Integrity'
    BY <1>4 DEF Integrity, CertKnown, ReadsAreGets, DispersalOwnsCert, V2CheckedIsDispersed,
           WritesAreCommitted, ReturnedIsCommitted, AnsweredIsCommitted, ReadIsCommitted,
           BackedUpIsCommitted, Working, Trusted, Committed,
           RespondGet, Answer, StatusOf
  <2>6. QED
    BY <2>1, <2>2, <2>3, <2>4, <2>5
<1>5. CASE RespondPost(r)
  <2>1. LoopTypes'
    BY <1>5 DEF RespondPost, Answer, StatusOf, VersionOf
  <2>2. SecondaryTypes'
    BY <1>5 DEF RespondPost, Answer, StatusOf, VersionOf
  <2>3. CallTypes'
    BY <1>5 DEF RespondPost, Answer, StatusOf, VersionOf
  <2>4. SystemTypes'
    BY <1>5 DEF RespondPost, Answer, StatusOf, VersionOf
  <2>5. Integrity'
    BY <1>5 DEF Integrity, CertKnown, ReadsAreGets, DispersalOwnsCert, V2CheckedIsDispersed,
           WritesAreCommitted, ReturnedIsCommitted, AnsweredIsCommitted, ReadIsCommitted,
           BackedUpIsCommitted, Working, Trusted, Committed,
           RespondPost, Answer, StatusOf, VersionOf
  <2>6. QED
    BY <2>1, <2>2, <2>3, <2>4, <2>5
<1>6. QED
  BY <1>1, <1>2, <1>3, <1>4, <1>5 DEF Respond

\* The network, the targets, the operator and the process life cycle.
LEMMA EnvironmentIntegrity ==
  ASSUME IInv,
         \/ \E backend \in Backends : HandleSetBackend(backend)
         \/ \E c \in Certs, v \in Versions, d \in Payloads :
              DisperseElsewhere(c, v, d) /\ FrameServer
         \/ \E s \in Sources, c \in Certs :
              (Evict(s, c) \/ Corrupt(s, c)) /\ UNCHANGED managerVars /\ FrameServer
         \/ Stop
         \/ CtxCancel
         \/ Restart
  PROVE  IInv'
<1> USE DEF IInv, TypeOK, LoopTypes, SecondaryTypes, CallTypes, SystemTypes, Labels, Tiers, Versions,
           Backends, Recencies, Errors, loopVars, secondaryVars, managerVars, FrameServer, Goto
<1>1. CASE \E backend \in Backends : HandleSetBackend(backend)
  <2>1. LoopTypes'
    BY <1>1 DEF HandleSetBackend, SetDispersalBackend
  <2>2. SecondaryTypes'
    BY <1>1 DEF HandleSetBackend, SetDispersalBackend
  <2>3. CallTypes'
    BY <1>1 DEF HandleSetBackend, SetDispersalBackend
  <2>4. SystemTypes'
    BY <1>1 DEF HandleSetBackend, SetDispersalBackend
  <2>5. Integrity'
    BY <1>1 DEF Integrity, CertKnown, ReadsAreGets, DispersalOwnsCert, V2CheckedIsDispersed,
           WritesAreCommitted, ReturnedIsCommitted, AnsweredIsCommitted, ReadIsCommitted,
           BackedUpIsCommitted, Working, Trusted, Committed,
           HandleSetBackend, SetDispersalBackend
  <2>6. QED
    BY <2>1, <2>2, <2>3, <2>4, <2>5
<1>2. CASE \E c \in Certs, v \in Versions, d \in Payloads :
              DisperseElsewhere(c, v, d) /\ FrameServer
  <2>1. LoopTypes'
    BY <1>2 DEF DisperseElsewhere, FreshCert
  <2>2. SecondaryTypes'
    BY <1>2 DEF DisperseElsewhere, FreshCert
  <2>3. CallTypes'
    BY <1>2 DEF DisperseElsewhere, FreshCert
  <2>4. SystemTypes'
    BY <1>2 DEF DisperseElsewhere, FreshCert
  <2>5. Integrity'
    BY <1>2 DEF Integrity, CertKnown, ReadsAreGets, DispersalOwnsCert, V2CheckedIsDispersed,
           WritesAreCommitted, ReturnedIsCommitted, AnsweredIsCommitted, ReadIsCommitted,
           BackedUpIsCommitted, Working, Trusted, Committed,
           DisperseElsewhere, FreshCert
  <2>6. QED
    BY <2>1, <2>2, <2>3, <2>4, <2>5
<1>3. CASE \E s \in Sources, c \in Certs :
              (Evict(s, c) \/ Corrupt(s, c)) /\ UNCHANGED managerVars /\ FrameServer
  <2>1. PICK s \in Sources, c \in Certs :
          (Evict(s, c) \/ Corrupt(s, c)) /\ UNCHANGED managerVars /\ FrameServer
    BY <1>3
  <2>2. CASE Evict(s, c)
    <3>1. LoopTypes'
      BY <2>1, <2>2 DEF Evict
    <3>2. SecondaryTypes'
      BY <2>1, <2>2 DEF Evict
    <3>3. CallTypes'
      BY <2>1, <2>2 DEF Evict
    <3>4. SystemTypes'
      BY <2>1, <2>2 DEF Evict
    <3>5. Integrity'
      BY <2>1, <2>2 DEF Integrity, CertKnown, ReadsAreGets, DispersalOwnsCert, V2CheckedIsDispersed,
             WritesAreCommitted, ReturnedIsCommitted, AnsweredIsCommitted, ReadIsCommitted,
             BackedUpIsCommitted, Working, Trusted, Committed,
             Evict
    <3>6. QED
      BY <3>1, <3>2, <3>3, <3>4, <3>5
  <2>3. CASE Corrupt(s, c)
    <3>1. LoopTypes'
      BY <2>1, <2>3 DEF Corrupt
    <3>2. SecondaryTypes'
      BY <2>1, <2>3 DEF Corrupt
    <3>3. CallTypes'
      BY <2>1, <2>3 DEF Corrupt
    <3>4. SystemTypes'
      BY <2>1, <2>3 DEF Corrupt
    <3>5. Integrity'
      BY <2>1, <2>3 DEF Integrity, CertKnown, ReadsAreGets, DispersalOwnsCert, V2CheckedIsDispersed,
             WritesAreCommitted, ReturnedIsCommitted, AnsweredIsCommitted, ReadIsCommitted,
             BackedUpIsCommitted, Working, Trusted, Committed,
             Corrupt
    <3>6. QED
      BY <3>1, <3>2, <3>3, <3>4, <3>5
  <2>4. QED
    BY <2>1, <2>2, <2>3
<1>4. CASE Stop
  <2>1. LoopTypes'
    BY <1>4 DEF Stop
  <2>2. SecondaryTypes'
    BY <1>4 DEF Stop
  <2>3. CallTypes'
    BY <1>4 DEF Stop
  <2>4. SystemTypes'
    BY <1>4 DEF Stop
  <2>5. Integrity'
    BY <1>4 DEF Integrity, CertKnown, ReadsAreGets, DispersalOwnsCert, V2CheckedIsDispersed,
           WritesAreCommitted, ReturnedIsCommitted, AnsweredIsCommitted, ReadIsCommitted,
           BackedUpIsCommitted, Working, Trusted, Committed,
           Stop
  <2>6. QED
    BY <2>1, <2>2, <2>3, <2>4, <2>5
<1>5. CASE CtxCancel
  <2>1. LoopTypes'
    BY <1>5 DEF CtxCancel
  <2>2. SecondaryTypes'
    BY <1>5 DEF CtxCancel
  <2>3. CallTypes'
    BY <1>5 DEF CtxCancel
  <2>4. SystemTypes'
    BY <1>5 DEF CtxCancel
  <2>5. Integrity'
    BY <1>5 DEF Integrity, CertKnown, ReadsAreGets, DispersalOwnsCert, V2CheckedIsDispersed,
           WritesAreCommitted, ReturnedIsCommitted, AnsweredIsCommitted, ReadIsCommitted,
           BackedUpIsCommitted, Working, Trusted, Committed,
           CtxCancel
  <2>6. QED
    BY <2>1, <2>2, <2>3, <2>4, <2>5
<1>6. CASE Restart
  <2>1. LoopTypes'
    BY <1>6 DEF Restart, Free
  <2>2. SecondaryTypes'
    BY <1>6 DEF Restart, Free
  <2>3. CallTypes'
    BY <1>6 DEF Restart, Free
  <2>4. SystemTypes'
    BY <1>6 DEF Restart, Free
  <2>5. Integrity'
    BY <1>6 DEF Integrity, CertKnown, ReadsAreGets, DispersalOwnsCert, V2CheckedIsDispersed,
           WritesAreCommitted, ReturnedIsCommitted, AnsweredIsCommitted, ReadIsCommitted,
           BackedUpIsCommitted, Working, Trusted, Committed,
           Restart, Free
  <2>6. QED
    BY <2>1, <2>2, <2>3, <2>4, <2>5
<1>7. QED
  BY <1>1, <1>2, <1>3, <1>4, <1>5, <1>6

\* Types and Integrity hold in every reachable state: the inductive invariant.
THEOREM IntegrityInvariant == Spec => []IInv
<1>1. Init => IInv
  <2> SUFFICES ASSUME Init PROVE IInv
    OBVIOUS
  <2>1. LoopTypes
    BY DEF Init, LoopTypes, Labels, Tiers
  <2>2. SecondaryTypes
    BY DEF Init, SecondaryTypes
  <2>3. CallTypes
    BY DEF Init, CallTypes, Versions, Backends, Recencies, Errors
  <2>4. SystemTypes
    BY DEF Init, SystemTypes, Backends
  <2>5. Integrity
    BY DEF Init, Integrity, CertKnown, ReadsAreGets, DispersalOwnsCert, V2CheckedIsDispersed,
           WritesAreCommitted, ReturnedIsCommitted, AnsweredIsCommitted, ReadIsCommitted,
           BackedUpIsCommitted, Working
  <2>6. QED
    BY <2>1, <2>2, <2>3, <2>4, <2>5 DEF IInv, TypeOK
<1>2. IInv /\ [Next]_vars => IInv'
  <2> SUFFICES ASSUME IInv, [Next]_vars PROVE IInv'
    OBVIOUS
  <2>1. CASE Environment
    BY <2>1, HandlerIntegrity, EnvironmentIntegrity
       DEF Environment, RecencyOutcomes, Versions, Recencies
  <2>2. CASE \E r \in Requests : ReadStep(r) \/ WriteStep(r) \/ Respond(r)
    BY <2>2, ReadStepIntegrity, WriteStepIntegrity, HandlerIntegrity
  <2>3. CASE \E w \in Workers : WorkerStep(w) \/ \E r \in Requests : Receive(w, r)
    BY <2>3, WorkerStepIntegrity
  <2>4. CASE UNCHANGED vars
    BY <2>4 DEF vars, IInv, loopVars, secondaryVars, managerVars, TypeOK, LoopTypes,
           SecondaryTypes, CallTypes, SystemTypes, Integrity, CertKnown, ReadsAreGets, DispersalOwnsCert,
           V2CheckedIsDispersed, WritesAreCommitted, ReturnedIsCommitted, AnsweredIsCommitted,
           ReadIsCommitted, BackedUpIsCommitted, Trusted, Committed
  <2>5. QED
    BY <2>1, <2>2, <2>3, <2>4 DEF Next
<1>3. QED
  BY <1>1, <1>2, PTL DEF Spec

\* Every variable keeps its type.
THEOREM TypeCorrect == Spec => []TypeOK
BY IntegrityInvariant, PTL DEF IInv

\* What each process knows at each label: from the read of a target, a dispersal
\* or a verification up to the answer, no other request or goroutine invalidates it.
THEOREM IntegrityHolds == Spec => []Integrity
BY IntegrityInvariant, PTL DEF IInv

\* Every write loop, of a request or of a goroutine that outlived it, carries
\* the payload its cert commits to, whatever the targets hold.
THEOREM WritesCommitted == Spec => []WritesAreCommitted
<1>1. IInv => WritesAreCommitted
  BY DEF IInv, Integrity
<1>2. QED
  BY <1>1, IntegrityInvariant, PTL

\* A GET of a V1 cert is answered 200 only with the payload the cert commits
\* to, also when targets are altered or the disperser answers wrongly.
THEOREM V1ServedCommitted == Spec => []V1ServedIsCommitted
<1>1. IInv => V1ServedIsCommitted
  BY DEF IInv, Integrity, AnsweredIsCommitted, V1ServedIsCommitted, Served, Trusted
<1>2. QED
  BY <1>1, IntegrityInvariant, PTL

\* A POST is answered 200 only with a cert that was dispersed with its payload.
THEOREM AckedDispersed == Spec => []AckedIsDispersed
<1>1. IInv => AckedIsDispersed
  BY DEF IInv, Integrity, AnsweredIsCommitted, AckedIsDispersed, Acked, Trusted
<1>2. QED
  BY <1>1, IntegrityInvariant, PTL

\* When nobody else writes to the targets, what they hold under a cert's key is
\* the payload the cert commits to.
THEOREM BackedUpCommitted ==
  ASSUME ~Corruption
  PROVE  Spec => []BackedUpIsCommitted
<1>1. IInv => BackedUpIsCommitted
  BY DEF IInv, Integrity
<1>2. QED
  BY <1>1, IntegrityInvariant, PTL

\* When nobody else writes to the targets, every GET, of any version byte and
\* from any source, is answered 200 only with the payload of its cert.
THEOREM ServedCommitted ==
  ASSUME ~Corruption
  PROVE  Spec => []ServedIsCommitted
<1>1. IInv => ServedIsCommitted
  BY DEF IInv, Integrity, AnsweredIsCommitted, ServedIsCommitted, Served, Trusted
<1>2. QED
  BY <1>1, IntegrityInvariant, PTL

-----------------------------------------------------------------------------
(* The lock of MultiSourceRead and the topic.                              *)

\* A step of the operator, the network, the targets or the life cycle that no
\* goroutine notices.
QuietStep ==
  /\ UNCHANGED <<pc, verifyLock, concurrentWrites>>
  /\ life' = life \/ life # "cancelled"

\* The environment starts a request, restarts the process, or takes a quiet step.
LEMMA EnvironmentCases ==
  ASSUME Environment
  PROVE  \/ \E r \in Requests : RejectRequest(r)
         \/ \E r \in Requests, v \in Versions, c \in Certs, q \in Recencies :
              HandleGet(r, v, c, q)
         \/ \E r \in Requests, d \in Payloads, c \in Certs : HandlePost(r, d, c)
         \/ Restart
         \/ QuietStep
<1>1. CASE \E r \in Requests, v \in UsedVersions, c \in Certs :
             \E q \in RecencyOutcomes(v) : HandleGet(r, v, c, q)
  <2>1. PICK r \in Requests, v \in UsedVersions, c \in Certs :
          \E q \in RecencyOutcomes(v) : HandleGet(r, v, c, q)
    BY <1>1
  <2>2. v \in Versions /\ RecencyOutcomes(v) \subseteq Recencies
    BY DEF RecencyOutcomes, Recencies
  <2>3. QED
    BY <2>1, <2>2
<1>2. CASE \E backend \in Backends : HandleSetBackend(backend)
  BY <1>2 DEF HandleSetBackend, SetDispersalBackend, QuietStep, secondaryVars, loopVars
<1>3. CASE \E c \in Certs, v \in OthersVersions, d \in Payloads :
             DisperseElsewhere(c, v, d) /\ FrameServer
  BY <1>3 DEF DisperseElsewhere, FrameServer, QuietStep, secondaryVars, loopVars
<1>4. CASE \E s \in Sources, c \in Certs :
             (Evict(s, c) \/ Corrupt(s, c)) /\ UNCHANGED managerVars /\ FrameServer
  BY <1>4 DEF Evict, Corrupt, FrameServer, QuietStep, loopVars
<1>5. CASE Stop \/ CtxCancel
  BY <1>5 DEF Stop, CtxCancel, QuietStep, secondaryVars, loopVars
<1>6. QED
  BY <1>1, <1>2, <1>3, <1>4, <1>5 DEF Environment

\* Only MultiSourceRead moves a process in or out of "verify".
Verifying(p) == pc[p] = "verify"

\* A step that does not touch the lock and keeps who is verifying.
LEMMA LockFrame ==
  ASSUME VerifyLockOwned, UNCHANGED verifyLock,
         \A p \in Procs : Verifying(p)' <=> Verifying(p)
  PROVE  VerifyLockOwned'
BY DEF VerifyLockOwned, Verifying

\* verifyLock belongs to the verifying process when the V2 store is configured:
\* then no verification panics with the lock held.
THEOREM LockOwned ==
  ASSUME "V2" \in Stores
  PROVE  Spec => []VerifyLockOwned
<1> USE DEF LoopTypes, SecondaryTypes, loopVars, secondaryVars, managerVars, FrameServer, Goto
<1>1. Init => VerifyLockOwned
  BY DEF Init, VerifyLockOwned
<1>2. ASSUME TypeOK, VerifyLockOwned, [Next]_vars PROVE VerifyLockOwned'
  <2> USE <1>2 DEF TypeOK
  <2>1. ASSUME NEW r \in Requests, ReadStep(r) PROVE VerifyLockOwned'
    <3>1. CASE SourceMiss(r)
      BY <3>1 DEF SourceMiss, VerifyLockOwned
    <3>2. CASE SourceHit(r)
      BY <3>2, LockFrame DEF SourceHit, Verifying
    <3>3. CASE AcquireVerifyLock(r)
      BY <3>3 DEF AcquireVerifyLock, VerifyLockOwned
    <3>4. CASE VerifySource(r)
      <4>1. pc[r] = "verify" /\ verifyLock' = NoProc
        BY <3>4 DEF VerifySource, VerifyAccepts, VerifyRejects
      <4>2. \E label \in {"returned", "read"} : pc' = [pc EXCEPT ![r] = label]
        BY <3>4 DEF VerifySource, VerifyAccepts, VerifyRejects
      <4>3. QED
        BY <4>1, <4>2 DEF VerifyLockOwned
    <3>5. CASE VerifySourcePanics(r)
      BY <3>5 DEF VerifySourcePanics, CallsNilStore
    <3>6. CASE CacheExhausted(r)
      BY <3>6, LockFrame DEF CacheExhausted, ReadExhausted, Verifying
    <3>7. CASE GetV1(r) \/ CheckV1(r) \/ CheckV2(r) \/ GetV2(r)
      <4>1. pc[r] \in {"fetch", "check"} /\ UNCHANGED verifyLock
        BY <3>7 DEF GetV1, CheckV1, CheckV2, GetV2, readFrame
      <4>2. \E label \in {"check", "backup", "returned", "read"} : pc' = [pc EXCEPT ![r] = label]
        <5>1. CASE GetV1(r)
          BY <5>1 DEF GetV1, EigenDAFailed, Return
        <5>2. CASE CheckV1(r)
          BY <5>2 DEF CheckV1, EigenDARead, EigenDAFailed, Return
        <5>3. CASE CheckV2(r)
          BY <5>3 DEF CheckV2, EigenDAFailed, Return
        <5>4. CASE GetV2(r)
          BY <5>4 DEF GetV2, EigenDARead, EigenDAFailed, Return
        <5>5. QED
          BY <3>7, <5>1, <5>2, <5>3, <5>4
      <4>3. QED
        BY <4>1, <4>2, LockFrame DEF Verifying
    <3>8. CASE CheckV2Panics(r)
      BY <3>8, LockFrame DEF CheckV2Panics, Abort, Verifying
    <3>9. CASE FallbackExhausted(r)
      BY <3>9, LockFrame DEF FallbackExhausted, ReadExhausted, Return, readFrame, Verifying
    <3>10. QED
      BY <2>1, <3>1, <3>2, <3>3, <3>4, <3>5, <3>6, <3>7, <3>8, <3>9 DEF ReadStep
  <2>2. ASSUME NEW r \in Requests, WriteStep(r) PROVE VerifyLockOwned'
    <3>1. UNCHANGED verifyLock
      BY <2>2 DEF WriteStep, Disperse, DisperseFails, BackupToSecondary, SourcePut, SyncBackupDone,
             readFrame
    <3>2. pc[r] # "verify" /\ \E label \in Labels \ {"verify"} : pc' = [pc EXCEPT ![r] = label]
      <4>1. CASE Disperse(r)
        BY <4>1 DEF Disperse, Labels
      <4>2. CASE DisperseFails(r)
        BY <4>2 DEF DisperseFails, Return, Labels
      <4>3. CASE BackupToSecondary(r)
        BY <4>3 DEF BackupToSecondary, Labels
      <4>4. CASE SourcePut(r)
        BY <4>4 DEF SourcePut, Labels
      <4>5. CASE SyncBackupDone(r)
        BY <4>5 DEF SyncBackupDone, WriteFinished, Labels
      <4>6. QED
        BY <2>2, <4>1, <4>2, <4>3, <4>4, <4>5 DEF WriteStep
    <3>3. QED
      BY <3>1, <3>2, LockFrame DEF Verifying
  <2>3. ASSUME NEW w \in Workers, WorkerStep(w) PROVE VerifyLockOwned'
    <3>1. UNCHANGED verifyLock
      BY <2>3 DEF WorkerStep, WorkerStart, SourcePut, WorkerFinish, WorkerStop
    <3>2. pc[w] # "verify" /\ \E label \in {"select", "write", "stopped"} : pc' = [pc EXCEPT ![w] = label]
      BY <2>3 DEF WorkerStep, WorkerStart, SourcePut, WorkerFinish, WriteFinished, WorkerStop
    <3>3. QED
      BY <3>1, <3>2, LockFrame DEF Verifying
  <2>4. ASSUME NEW w \in Workers, NEW r \in Requests, Receive(w, r) PROVE VerifyLockOwned'
    <3>1. \A p \in Procs : Verifying(p)' <=> Verifying(p)
      BY <2>4 DEF Receive, WorkerReceive, Verifying
    <3>2. QED
      BY <2>4, <3>1, LockFrame DEF Receive, WorkerReceive
  <2>5. ASSUME NEW r \in Requests,
               NEW v \in Versions, NEW c \in Certs, NEW q \in Recencies, HandleGet(r, v, c, q)
        PROVE VerifyLockOwned'
    <3>1. \E label \in {"returned", "read", "fetch"} : pc' = [pc EXCEPT ![r] = label]
      BY <2>5 DEF HandleGet, Get, Return
    <3>2. QED
      BY <2>5, <3>1, LockFrame DEF HandleGet, Get, BeginGet, Accepting, Free, Verifying
  <2>6. ASSUME NEW r \in Requests, NEW d \in Payloads, NEW c \in Certs, HandlePost(r, d, c)
        PROVE VerifyLockOwned'
    <3>1. \E label \in {"returned", "disperse"} : pc' = [pc EXCEPT ![r] = label]
      BY <2>6 DEF HandlePost, Put, Return
    <3>2. QED
      BY <2>6, <3>1, LockFrame DEF HandlePost, Put, Accepting, Free, Verifying
  <2>7. ASSUME NEW r \in Requests, RejectRequest(r) \/ Respond(r) PROVE VerifyLockOwned'
    <3>1. pc[r] # "verify" /\ pc' = [pc EXCEPT ![r] = "done"] /\ UNCHANGED verifyLock
      BY <2>7 DEF RejectRequest, Respond, RespondGet, RespondPost, Answer, Accepting, Free
    <3>2. QED
      BY <3>1, LockFrame DEF Verifying
  <2>8. CASE Restart
    BY <2>8 DEF Restart, Free, VerifyLockOwned
  <2>9. CASE UNCHANGED <<pc, verifyLock>>
    BY <2>9 DEF VerifyLockOwned
  <2>10. QED
    <3>1. CASE Environment
      <4>1. CASE QuietStep
        BY <4>1, <2>9 DEF QuietStep
      <4>2. CASE \E r \in Requests, v \in Versions, c \in Certs, q \in Recencies :
                   HandleGet(r, v, c, q)
        BY <4>2, <2>5
      <4>3. CASE \E r \in Requests, d \in Payloads, c \in Certs : HandlePost(r, d, c)
        BY <4>3, <2>6
      <4>4. CASE \E r \in Requests : RejectRequest(r)
        BY <4>4, <2>7
      <4>5. QED
        BY <3>1, <4>1, <4>2, <4>3, <4>4, <2>8, EnvironmentCases
    <3>2. CASE UNCHANGED vars
      <4>1. UNCHANGED <<pc, verifyLock>>
        BY <3>2 DEF vars
      <4>2. QED
        BY <4>1, <2>9
    <3>3. QED
      BY <3>1, <3>2, <2>1, <2>2, <2>3, <2>4, <2>7 DEF Next
<1>3. QED
  BY <1>1, <1>2, TypeCorrect, PTL DEF Spec

\* A sender always has a receiver until ctxCancel: the goroutine that set
\* concurrentWrites only leaves its loop once the context is cancelled.
THEOREM TopicAlwaysServed == Spec => []TopicServed
<1> USE DEF LoopTypes, SecondaryTypes, CallTypes, SystemTypes, loopVars, secondaryVars, managerVars, FrameServer, Goto
<1>1. Init => TopicServed
  BY DEF Init, TopicServed
<1>2. ASSUME TypeOK, TopicServed, [Next]_vars PROVE TopicServed'
  <2> USE <1>2 DEF TypeOK
  <2>1. ASSUME NEW r \in Requests, ReadStep(r) PROVE TopicServed'
    <3>1. UNCHANGED <<concurrentWrites, life>>
      BY <2>1 DEF ReadStep, SourceMiss, SourceHit, AcquireVerifyLock, VerifySource, VerifyAccepts,
             VerifyRejects, VerifySourcePanics, VerifyPanics, CacheExhausted, GetV1, CheckV1, CheckV2,
             CheckV2Panics, GetV2, FallbackExhausted, readFrame
    <3>2. \E label \in Labels \ {"send"} : pc' = [pc EXCEPT ![r] = label]
      <4>1. CASE SourceMiss(r)
        BY <4>1 DEF SourceMiss, Labels
      <4>2. CASE SourceHit(r) \/ AcquireVerifyLock(r) \/ CacheExhausted(r)
        BY <4>2 DEF SourceHit, AcquireVerifyLock, CacheExhausted, Labels
      <4>3. CASE VerifySource(r)
        BY <4>3 DEF VerifySource, VerifyAccepts, VerifyRejects, Labels
      <4>4. CASE VerifySourcePanics(r) \/ CheckV2Panics(r) \/ FallbackExhausted(r)
        BY <4>4 DEF VerifySourcePanics, VerifyPanics, CheckV2Panics, FallbackExhausted, Abort, Return,
               Labels
      <4>5. CASE GetV1(r)
        BY <4>5 DEF GetV1, EigenDAFailed, Return, Labels
      <4>6. CASE CheckV1(r)
        BY <4>6 DEF CheckV1, EigenDARead, EigenDAFailed, Return, Labels
      <4>7. CASE CheckV2(r)
        BY <4>7 DEF CheckV2, EigenDAFailed, Return, Labels
      <4>8. CASE GetV2(r)
        BY <4>8 DEF GetV2, EigenDARead, EigenDAFailed, Return, Labels
      <4>9. QED
        BY <2>1, <4>1, <4>2, <4>3, <4>4, <4>5, <4>6, <4>7, <4>8 DEF ReadStep
    <3>3. QED
      BY <3>1, <3>2 DEF TopicServed
  <2>2. ASSUME NEW r \in Requests, WriteStep(r) PROVE TopicServed'
    <3>1. UNCHANGED <<concurrentWrites, life>>
      BY <2>2 DEF WriteStep, Disperse, DisperseFails, BackupToSecondary, SourcePut, SyncBackupDone,
             readFrame
    <3>2. \E label \in Labels :
            /\ pc' = [pc EXCEPT ![r] = label]
            /\ label = "send" => concurrentWrites \/ pc[r] = "send"
      <4>1. CASE Disperse(r)
        BY <4>1 DEF Disperse, Labels
      <4>2. CASE DisperseFails(r)
        BY <4>2 DEF DisperseFails, Return, Labels
      <4>3. CASE BackupToSecondary(r)
        <5>1. PICK async \in {concurrentWrites, FALSE} :
                pc' = [pc EXCEPT ![r] = IF async THEN "send" ELSE "write"]
          BY <4>3 DEF BackupToSecondary
        <5>2. CASE async
          <6>1. concurrentWrites /\ pc' = [pc EXCEPT ![r] = "send"]
            BY <5>1, <5>2
          <6>2. QED
            BY <6>1 DEF Labels
        <5>3. CASE ~async
          <6>1. pc' = [pc EXCEPT ![r] = "write"]
            BY <5>1, <5>3
          <6>2. QED
            BY <6>1 DEF Labels
        <5>4. QED
          BY <5>2, <5>3
      <4>4. CASE SourcePut(r)
        BY <4>4 DEF SourcePut, Labels
      <4>5. CASE SyncBackupDone(r)
        BY <4>5 DEF SyncBackupDone, Labels
      <4>6. QED
        BY <2>2, <4>1, <4>2, <4>3, <4>4, <4>5 DEF WriteStep
    <3>3. \A q \in Requests : pc'[q] = "send" => pc[q] = "send" \/ concurrentWrites
      BY <3>2
    <3>4. \A w \in Workers : pc'[w] = pc[w]
      BY <3>2
    <3>5. QED
      BY <3>1, <3>3, <3>4 DEF TopicServed
  <2>3. ASSUME NEW w \in Workers, WorkerStep(w) PROVE TopicServed'
    <3>1. CASE WorkerStart(w)
      BY <2>3, <3>1 DEF WorkerStep, WorkerStart, TopicServed
    <3>2. CASE SourcePut(w)
      BY <2>3, <3>2 DEF WorkerStep, SourcePut, TopicServed
    <3>3. CASE WorkerFinish(w)
      BY <2>3, <3>3 DEF WorkerStep, WorkerFinish, TopicServed
    <3>4. CASE life = "cancelled" /\ WorkerStop(w)
      BY <2>3, <3>4 DEF WorkerStep, WorkerStop, TopicServed
    <3>5. QED
      BY <2>3, <3>1, <3>2, <3>3, <3>4 DEF WorkerStep
  <2>4. ASSUME NEW w \in Workers, NEW r \in Requests, Receive(w, r) PROVE TopicServed'
    BY <2>4 DEF Receive, WorkerReceive, TopicServed
  <2>5. ASSUME NEW r \in Requests,
               NEW v \in Versions, NEW c \in Certs, NEW q \in Recencies, HandleGet(r, v, c, q)
        PROVE TopicServed'
    <3>1. \E label \in {"returned", "read", "fetch"} : pc' = [pc EXCEPT ![r] = label]
      BY <2>5 DEF HandleGet, Get, Return
    <3>2. QED
      BY <2>5, <3>1 DEF HandleGet, Get, BeginGet, TopicServed
  <2>6. ASSUME NEW r \in Requests, NEW d \in Payloads, NEW c \in Certs, HandlePost(r, d, c)
        PROVE TopicServed'
    <3>1. \E label \in {"returned", "disperse"} : pc' = [pc EXCEPT ![r] = label]
      BY <2>6 DEF HandlePost, Put, Return
    <3>2. QED
      BY <2>6, <3>1 DEF HandlePost, Put, TopicServed
  <2>7. ASSUME NEW r \in Requests, RejectRequest(r) \/ Respond(r) PROVE TopicServed'
    <3>1. pc' = [pc EXCEPT ![r] = "done"] /\ UNCHANGED <<concurrentWrites, life>>
      BY <2>7 DEF RejectRequest, Respond, RespondGet, RespondPost, Answer
    <3>2. QED
      BY <3>1 DEF TopicServed
  <2>8. CASE Restart
    BY <2>8 DEF Restart, Free, TopicServed
  <2>9. CASE UNCHANGED <<pc, concurrentWrites>> /\ (life' = life \/ life # "cancelled")
    BY <2>9 DEF TopicServed
  <2>10. QED
    <3>1. CASE Environment
      <4>1. CASE QuietStep
        BY <4>1, <2>9 DEF QuietStep
      <4>2. CASE \E r \in Requests, v \in Versions, c \in Certs, q \in Recencies :
                   HandleGet(r, v, c, q)
        BY <4>2, <2>5
      <4>3. CASE \E r \in Requests, d \in Payloads, c \in Certs : HandlePost(r, d, c)
        BY <4>3, <2>6
      <4>4. CASE \E r \in Requests : RejectRequest(r)
        BY <4>4, <2>7
      <4>5. QED
        BY <3>1, <4>1, <4>2, <4>3, <4>4, <2>8, EnvironmentCases
    <3>2. CASE UNCHANGED vars
      <4>1. UNCHANGED <<pc, concurrentWrites, life>>
        BY <3>2 DEF vars
      <4>2. QED
        BY <4>1, <2>9
    <3>3. QED
      BY <3>1, <3>2, <2>1, <2>2, <2>3, <2>4, <2>7 DEF Next
<1>3. QED
  BY <1>1, <1>2, TypeCorrect, PTL DEF Spec

\* No request is left blocked on the topic without a goroutine that will take
\* its notification, until the context is cancelled.
THEOREM SendReceived == Spec => []SendHasReceiver
<1>1. TopicServed => SendHasReceiver
  BY DEF TopicServed, SendHasReceiver
<1>2. QED
  BY <1>1, TopicAlwaysServed, PTL
=============================================================================
