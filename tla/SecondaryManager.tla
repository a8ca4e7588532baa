-------------------------- MODULE SecondaryManager --------------------------
(***************************************************************************)
(* store/secondary/secondary.go: the secondary storage targets (caches and *)
(* fallbacks), the read loop over them (MultiSourceRead), the write loop   *)
(* over them (HandleRedundantWrites) and the goroutines that consume write *)
(* notifications from the un-buffered topic (WriteSubscriptionLoop).       *)
(*                                                                         *)
(* A process is an HTTP request slot or a subscription goroutine; both run *)
(* the write loop, only requests run the read loop.  The module holds the  *)
(* steps inside secondary.go; Manager decides when a loop is entered and   *)
(* what follows it.                                                        *)
(*                                                                         *)
(* Targets are addressed by keccak(serialized cert).  The hash is taken to *)
(* be collision free and leaves out the version byte, so a target is a     *)
(* function of the cert itself.                                            *)
(***************************************************************************)
EXTENDS Naturals, Sequences

CONSTANTS
  Certs,             \* serialized certificates
  Payloads,          \* rollup payloads
  Requests,          \* HTTP request slots (goroutines of net/http)
  Workers,           \* goroutines running WriteSubscriptionLoop
  Sources,           \* secondary storage targets
  Caches,            \* cache targets, in the order they are tried
  Fallbacks,         \* fallback targets, in the order they are tried
  WriteOnCacheMiss,  \* the flag of the same name
  Faults,            \* may a target fail a call or lose an object?
  Corruption,        \* may a stored object be altered outside the proxy?
  NoData,            \* nil
  NoCert,            \* a process that works on no cert
  NoProc             \* owner of a free lock

Procs == Requests \cup Workers

ASSUME SecondaryAssumption ==
  /\ Requests \cap Workers = {}
  /\ NoProc \notin Procs
  /\ NoData \notin Payloads
  /\ NoCert \notin Certs
  /\ Caches \in Seq(Sources)
  /\ Fallbacks \in Seq(Sources)
  /\ WriteOnCacheMiss \in BOOLEAN
  /\ Faults \in BOOLEAN
  /\ Corruption \in BOOLEAN

VARIABLES
  pc,                \* where each process is
  cert,              \* the cert a process reads or writes
  val,               \* the payload it holds
  tier,              \* which targets a read loop walks
  idx,               \* position of a read or write loop
  held,              \* what each target holds under each key
  verifyLock,        \* SecondaryManager.verifyLock
  concurrentWrites   \* SecondaryManager.concurrentWrites

loopVars == <<pc, cert, val, tier, idx>>
secondaryVars == <<loopVars, held, verifyLock, concurrentWrites>>

Tiers == {"cache", "fallback"}

Targets(t) == IF t = "cache" THEN Caches ELSE Fallbacks
AllTargets == Caches \o Fallbacks

CachingEnabled == Len(Caches) > 0
FallbackEnabled == Len(Fallbacks) > 0
Enabled == CachingEnabled \/ FallbackEnabled
WriteOnCacheMissEnabled == CachingEnabled /\ WriteOnCacheMiss

Goto(p, label) == pc' = [pc EXCEPT ![p] = label]

-----------------------------------------------------------------------------
(* MultiSourceRead.                                                        *)

\* The loop has tried every target: "no data found in any redundant backend".
ReadExhausted(p) == pc[p] = "read" /\ idx[p] > Len(Targets(tier[p]))

\* src.Get fails or finds nothing: continue with the next target.
SourceMiss(p) ==
  /\ pc[p] = "read"
  /\ idx[p] <= Len(Targets(tier[p]))
  /\ Faults \/ held[Targets(tier[p])[idx[p]]][cert[p]] = NoData
  /\ idx' = [idx EXCEPT ![p] = @ + 1]
  /\ UNCHANGED <<pc, cert, val, tier, held, verifyLock, concurrentWrites>>

\* src.Get returns an object: it has to be verified under verifyLock.
SourceHit(p) ==
  /\ pc[p] = "read"
  /\ idx[p] <= Len(Targets(tier[p]))
  /\ held[Targets(tier[p])[idx[p]]][cert[p]] # NoData
  /\ val' = [val EXCEPT ![p] = held[Targets(tier[p])[idx[p]]][cert[p]]]
  /\ Goto(p, "lock")
  /\ UNCHANGED <<cert, tier, idx, held, verifyLock, concurrentWrites>>

AcquireVerifyLock(p) ==
  /\ pc[p] = "lock"
  /\ verifyLock = NoProc
  /\ verifyLock' = p
  /\ Goto(p, "verify")
  /\ UNCHANGED <<cert, val, tier, idx, held, concurrentWrites>>

\* verify returned nil: unlock and return the object.
VerifyAccepts(p) ==
  /\ pc[p] = "verify"
  /\ verifyLock' = NoProc
  /\ Goto(p, "returned")
  /\ UNCHANGED <<cert, val, tier, idx, held, concurrentWrites>>

\* Mutant: no Unlock before the continue.
VerifyRejectsKeepsLock(p) ==
  /\ pc[p] = "verify"
  /\ Goto(p, "read")
  /\ idx' = [idx EXCEPT ![p] = @ + 1]
  /\ val' = [val EXCEPT ![p] = NoData]
  /\ UNCHANGED <<cert, tier, held, verifyLock, concurrentWrites>>

\* verify returned an error: unlock and continue with the next target.
VerifyRejects(p) ==
  /\ pc[p] = "verify"
  /\ verifyLock' = NoProc
  /\ Goto(p, "read")
  /\ idx' = [idx EXCEPT ![p] = @ + 1]
  /\ val' = [val EXCEPT ![p] = NoData]
  /\ UNCHANGED <<cert, tier, held, concurrentWrites>>

\* A goroutine that ends without an answer leaves its locals behind.
Abort(p) ==
  /\ Goto(p, "aborted")
  /\ cert' = [cert EXCEPT ![p] = NoCert]
  /\ val' = [val EXCEPT ![p] = NoData]
  /\ tier' = [tier EXCEPT ![p] = "cache"]
  /\ idx' = [idx EXCEPT ![p] = 1]

\* verify panicked: net/http recovers the goroutine and closes the
\* connection; the Unlock calls of MultiSourceRead are not deferred.
VerifyPanics(p) ==
  /\ pc[p] = "verify"
  /\ Abort(p)
  /\ UNCHANGED <<held, verifyLock, concurrentWrites>>

-----------------------------------------------------------------------------
(* HandleRedundantWrites.  The five tries per target are one step: they    *)
(* either end in an acknowledged write or in an error, and an error may    *)
(* still have left the object behind (a lost acknowledgement).  The number *)
(* of successes only decides what the callers log.                         *)

WriteFinished(p) == pc[p] = "write" /\ idx[p] > Len(AllTargets)

\* Mutant: the loop ends with the first target that takes the object.
SourcePutFirst(p) ==
  /\ pc[p] = "write"
  /\ idx[p] <= Len(AllTargets)
  /\ \/ /\ held' = [held EXCEPT ![AllTargets[idx[p]]][cert[p]] = val[p]]
        /\ idx' = [idx EXCEPT ![p] = Len(AllTargets) + 1]
     \/ Faults /\ UNCHANGED held /\ idx' = [idx EXCEPT ![p] = @ + 1]
  /\ UNCHANGED <<pc, cert, val, tier, verifyLock, concurrentWrites>>

SourcePut(p) ==
  /\ pc[p] = "write"
  /\ idx[p] <= Len(AllTargets)
  /\ \/ held' = [held EXCEPT ![AllTargets[idx[p]]][cert[p]] = val[p]]
     \/ Faults /\ UNCHANGED held
  /\ idx' = [idx EXCEPT ![p] = @ + 1]
  /\ UNCHANGED <<pc, cert, val, tier, verifyLock, concurrentWrites>>

-----------------------------------------------------------------------------
(* WriteSubscriptionLoop.                                                  *)

WorkerStart(w) ==
  /\ pc[w] = "start"
  /\ concurrentWrites' = TRUE
  /\ Goto(w, "select")
  /\ UNCHANGED <<cert, val, tier, idx, held, verifyLock>>

\* Mutant: the notification carries the commitment only.
WorkerReceiveCert(w, r) ==
  /\ pc[w] = "select"
  /\ pc[r] = "send"
  /\ pc' = [pc EXCEPT ![w] = "write", ![r] = "returned"]
  /\ cert' = [cert EXCEPT ![w] = cert[r]]
  /\ idx' = [idx EXCEPT ![w] = 1]
  /\ UNCHANGED <<val, tier, held, verifyLock, concurrentWrites>>

\* The topic is un-buffered: the sender leaves its send together with the
\* receiver; the sender r returns from backupToSecondary.
WorkerReceive(w, r) ==
  /\ pc[w] = "select"
  /\ pc[r] = "send"
  /\ pc' = [pc EXCEPT ![w] = "write", ![r] = "returned"]
  /\ cert' = [cert EXCEPT ![w] = cert[r]]
  /\ val' = [val EXCEPT ![w] = val[r]]
  /\ idx' = [idx EXCEPT ![w] = 1]
  /\ UNCHANGED <<tier, held, verifyLock, concurrentWrites>>

\* Mutant: the goroutine returns after its first notification.
WorkerFinishStops(w) ==
  /\ WriteFinished(w)
  /\ Goto(w, "stopped")
  /\ cert' = [cert EXCEPT ![w] = NoCert]
  /\ val' = [val EXCEPT ![w] = NoData]
  /\ idx' = [idx EXCEPT ![w] = 1]
  /\ UNCHANGED <<tier, held, verifyLock, concurrentWrites>>

WorkerFinish(w) ==
  /\ WriteFinished(w)
  /\ Goto(w, "select")
  /\ cert' = [cert EXCEPT ![w] = NoCert]
  /\ val' = [val EXCEPT ![w] = NoData]
  /\ idx' = [idx EXCEPT ![w] = 1]
  /\ UNCHANGED <<tier, held, verifyLock, concurrentWrites>>

\* <-ctx.Done(): concurrentWrites is left as it is.
WorkerStop(w) ==
  /\ pc[w] = "select"
  /\ Goto(w, "stopped")
  /\ UNCHANGED <<cert, val, tier, idx, held, verifyLock, concurrentWrites>>

-----------------------------------------------------------------------------
(* The targets on their own.                                               *)

\* Redis drops an object after its eviction time; an operator may purge one.
Evict(s, c) ==
  /\ Faults
  /\ held[s][c] # NoData
  /\ held' = [held EXCEPT ![s][c] = NoData]
  /\ UNCHANGED <<loopVars, verifyLock, concurrentWrites>>

Corrupt(s, c) ==
  /\ Corruption
  /\ held[s][c] # NoData
  /\ \E d \in Payloads : held' = [held EXCEPT ![s][c] = d]
  /\ UNCHANGED <<loopVars, verifyLock, concurrentWrites>>
=============================================================================
