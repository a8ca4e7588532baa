# A TLA+ development for eigenda-proxy

eigenda-proxy is an HTTP server between a rollup and the EigenDA network. A
rollup POSTs a payload and gets back a commitment (a version byte and a
serialized cert); later it GETs the payload for a commitment. The proxy can
keep copies of payloads in secondary targets (Redis, S3) as caches in front of
EigenDA and as fallbacks behind it.

The modules here model that program from its source, TLC checks them on small
instances, and TLAPS proves every safety property of the passing runs for all
sizes of the system: every number of requests, goroutines, certs, payloads and
targets, and inputs of every length.

## Inventory

| Component | State | Operations | Interaction | What is hard |
|---|---|---|---|---|
| HTTP handlers (`server/handlers_cert.go`, `handlers_misc.go`, `middleware/error.go`) | none of their own | GET and POST of standard and generic commitments, keccak pairs, admin switch, health | one goroutine per request, calls the manager, maps errors to statuses | the backend is read twice per POST; statuses steer the rollup's derivation pipeline |
| Storage manager (`store/manager.go`) | dispersal backend (atomic), stores | Get, Put, backup, backend switch, keccak pair | calls the V1 and V2 stores and the secondary manager | order cache, EigenDA, fallback; which error survives |
| Secondary manager (`store/secondary/secondary.go`) | caches, fallbacks, verify lock, un-buffered topic, concurrentWrites flag | read loop, write loop, subscription goroutines | shared by all requests | lock, channel, unsynchronised flag, partial writes |
| EigenDA V1 store (`store/generated_key/eigenda`) | none | Get, Put, Verify | disperser, Ethereum RPC | retries against timeouts, the failover verdict of several tries; what a cert proves after an L1 reorg |
| V1 cert verifier (`.../eigenda/verify`) | quorum parameters read once | batch confirmation, inclusion proof, security parameters | Ethereum RPC | reads of a chain that reorganises, retries, boundary values |
| EigenDA V2 store (`store/generated_key/v2`) | none | Get, Put, Verify with recency check | disperser, relays, validators, verifier contract | retries, recency arithmetic |
| Memory store (`store/generated_key/memstore`) | map of blobs, start times, live configuration | insert, fetch, prune, PATCH of the configuration | replaces both EigenDA stores in tests | pruning goroutine races with inserts and configuration changes |
| S3 and Redis targets (`store/secondary/s3`, `redis`) | remote | Get, Put, Verify | external services; one bucket serves backups and keccak pairs | eviction, lost acknowledgements, late writes |
| Builder and configuration (`store/builder`, `config`) | none | reads flags, builds stores, starts goroutines | run once at start-up | consistency of flags |
| Lifecycle (`cmd/server/entrypoint.go`) | context | start, interrupt, deferred stop and cancel | owns server and goroutines | order of the deferred calls |
| Go client (`clients/standard_client`) | none | SetData, GetData, Health | one HTTP call each | 503 is the signal to fail over, a closed connection is not |
| Metrics, logging | counters | - | - | nothing the properties depend on |

## Modules

* `SecondaryManager` - the steps of `MultiSourceRead`, `HandleRedundantWrites`
  and `WriteSubscriptionLoop`. A process (request slot or goroutine) has a
  label `pc`, the cert and payload it works on, and its position `idx` in the
  list of targets. `held` is what the targets hold, `verifyLock` and
  `concurrentWrites` are the fields of the same names. The rendezvous on the
  un-buffered topic is one joint step of sender and receiver
  (`WorkerReceive`).
* `Manager` - extends it with `Get`, `Put`, `backupToSecondary` and the two
  EigenDA stores. `da` is the EigenDA network: the payload each cert commits
  to and the version byte under which the cert decodes. A read is split at
  every call that leaves the process (target, EigenDA, Ethereum).
* `Server` - handlers, status mapping, admin switch, shutdown, crash and
  restart; `Next`, fairness and the properties.
* `BlobService` - what a client may rely on: a write-once map from certs to
  payloads. `Server` implements it under the mapping `BlobsOf`, `Replies`.
* `MCServer` - model values, sequences of targets and symmetry sets for TLC.
* `ServerProofs`, `VerdictProofs`, `ServiceProofs` - theorems.
* `EigenDAStore` - extends `CertVerifier` with what the V1 and V2 stores do
  inside a call: the retry loop of `Put` with its classes of errors, the
  checks of a V1 cert, the list of V2 retrievers. Each of the `Calls` has a
  `stage`, the tries it has `used`, its `result`, whether its client is `gone`
  and the time `elapsed` since the request arrived.
* `S3Bucket` - the bucket with the writes that were reported as failed and may
  still happen (`late`).
* `StoreCalls` - the calls of requests into both, with the operations on OP
  keccak pairs and what a client sees (`Delivered`, `ErrServiceUnavailable`).
* `StoreContract` - what `Manager` relies on when it calls `Put` of a store; the
  calls of `StoreCalls` implement it under the mapping `Final`, `ReplyOf`.
* `MCStoreCalls`, `StoreProofs` - instances for TLC, theorems.
* `CertVerifier` - `verifyBatchConfirmedOnChain` and its retries against a
  chain that grows and reorganises. `head` and `finalized` are block numbers,
  `minedAt` the block that confirmed each batch; each of the `Calls` reads the
  block number, reads the contract at the chosen block, compares the hash and
  checks proof and parameters. Nodes may lag behind the head.
* `Memstore` - the memory store's two maps (`store`, start times), the
  pruning goroutine, `Put` that computes a commitment within the SRS and then
  reads the live configuration in two critical sections, `Get`, the PATCH
  handler, and time as an age per entry.
* `Commitments` - the encoding of commitments and the GET routes with their
  parsing, as functions on byte sequences.
* `CertChecks` - `verifySecurityParams`, the inclusion proof, and the
  recency check with integers of a fixed width (`Uint64`).
* `Startup` - the actions of flags, then reading, checking and building a
  proxy, as a function of the flags and of what the external services answer.
* `MCCertVerifier`, `MCMemstore`, `MCInputs` - instances for TLC. `MCInputs`
  has one variable, the input under test: each `Pick...` action chooses an
  input of one function and the invariants compare the result with a reference
  definition.
* `CertVerifierProofs`, `MemstoreProofs`, `FunctionProofs`, `InputProofs` -
  theorems.

`Manager` extends `SecondaryManager`, `Server` extends `Manager`, and the
`MCServer` runs check the composition; the parts are not checked in isolation
because their hazards lie between them (the lock and the topic are shared by
all requests, and the version byte is derived in the handler from state of the
manager). `StoreCalls` opens up the single steps "disperse" and "read from
EigenDA" of `Manager`, and `StoreContract` is the seam between the two: it has
the outcomes that `Manager` allows. `CertVerifier` and `CertChecks` open up
"verify the V1 cert"; `Memstore` is a drop-in for the two EigenDA stores.

### How steps correspond to the code

An action is a stretch of code between two points where another goroutine or
an external service can act: a call to a target, EigenDA or Ethereum, a lock, a
channel operation, or a read of a shared atomic. The following choices matter.

* The five attempts per target in `HandleRedundantWrites` are one step that
  ends in success or failure. A failed attempt may still have stored the
  object (`Faults`), so a failed write leaves either state.
* `concurrentWrites` is written by the goroutines and read by requests with no
  synchronisation. A read that races with the write returns either value.
* The verify lock is held over a `verify` callback and released on every
  return of it. A panic inside the callback does not release it: a request
  that panics (V2 store missing) leaves the lock held, as the code does.
* The deferred calls of `StartProxySvr` run in the order Stop, then
  ctxCancel, then exit. A restart begins with the configured backend, so an
  admin switch does not survive it.
* A client that disconnects cancels its request's context. Its effect is that
  a call fails, which `Faults` and `DAFaults` allow at every call.
* Targets are external: an object may be evicted, and with `Corruption` set it
  may be altered. Hashes are symbolic and collision free: a key of a bucket is
  represented by the byte string it is the hash of. A backup is stored under
  the hash of its cert and a keccak pair under the hash of its value, so the
  two share a key exactly when a client posts a serialized cert as a pair
  (`BackedUp`).
* An attempt to disperse takes no time or all of its timeout; other steps take
  none. The retry loops of `Put` do not watch the request's context: a client
  that leaves makes attempts fail at once but ends no loop. The loop of
  `verifyBatchConfirmedOnChain` does; in the model it may go on to its last
  attempt, which adds behaviours and has the same result, an error.
* A cert with a batch root or record hash of fewer than 32 bytes makes the verifier
  panic (`verify/cert.go:149`, `154`), and net/http drops the connection. The
  model counts it with the certs whose hash does not match.
* `c.deprecated` of `Startup` says that a deprecated flag or variable is set,
  whichever it is: its action is an error.
* A `PutObject` that reports an error was lost, or done, or will be done later.
* V1 cert verification is taken as enabled (`VerifyCerts`), the setting for
  which the code makes promises.

## Runs

A named bound of a model is a constant of its cfg. `UsedVersions`,
`UsedRecencies` and `UsedUpdates` restrict which inputs a run enumerates.

| Run | Expected | What it shows |
|---|---|---|
| `async` | pass | Two requests, a subscription goroutine, a Redis cache and an S3 fallback, two certs and payloads, every call may fail. No interleaving serves, stores or acknowledges a payload that its cert does not commit to; without the admin switch an acknowledged commitment decodes under its version byte; the verify lock belongs to the verifying process; the whole implements `BlobService`. |
| `lifecycle` | pass | Start, graceful stop, crash and one restart of a proxy with the V1 store only, a goroutine, two targets and the admin switch, under the fairness below. A request blocked on the un-buffered topic has a live receiver until the context is cancelled; every request is answered or ends with the process; every acknowledged payload reaches every target unless the process ends first. |
| `verdicts` | pass | Altered caches, no fallback; valid, forged, stale and wrongly versioned certs. 200 only for a verified cert and, for V1, only with the committed payload; 418 only for an invalid cert, and always when nothing but the cert is wrong. `Verdicts`, the invariant from which the proofs derive most of this, holds in every state. |
| `stores` | pass | One call at a time into the V1 store, the V2 store or the bucket, with retries, timeouts, a client that may leave, a chain that grows and reorganises, backups and late writes. The failover signal comes after the last try and in time; verdicts on certs are not overturned; acknowledged keccak pairs stay and are served; calls end; `Put` implements `StoreContract`. |
| `memstore` | pass | Two calls, pruning and a PATCH interleave: the two maps agree, an entry never changes, untimed entries stay, timed entries go, a PATCH sets only the fields it names, and every call returns. |
| `inputs` | pass | The pure functions agree with reference definitions over bounded inputs. |
| `race` | violation | See findings 1 and 3. |
| `masked` | violation | See finding 2. |
| `finality` | violation | See finding 4. |
| `s3_nil` | violation | See finding 5. |
| `late_503` | violation | See finding 6. |
| `layer_byte` | violation | See finding 7. |

### Bounds and why they are enough

* Two requests are the least for which the lock, the topic, the backend
  variable and a cached object are contended. Every safety theorem below is
  proved without this bound. One goroutine makes requests wait for each other
  on the topic; with several, one can end while another lives, which
  `SendReceived` and `TopicAlwaysServed` cover for every number.
* Two certs and two payloads are needed for a wrong answer to exist; a third
  would be a copy of the second. One cache and one fallback give the three
  phases of a read; a list of two targets of one kind is covered by `idx`
  walking over it in the proofs. `lifecycle` needs one cert and one payload,
  since it asks whether things happen and not which; `OthersVersions` has other
  proxies disperse V1 certs only.
* `verdicts` has no goroutines, so that backups are written synchronously, and
  no fallback, because a fallback changes the verdict (finding 2).
* `MaxRestarts = 1`: a second restart begins in the same state as the first,
  but for what targets and EigenDA hold.
* `stores`: one call, because calls share nothing but the chain, which moves by
  itself, and the bucket, whose other writers (`Backup`, `LateWrite`) do what a
  second call would; `StoreProofs` has no such bound. `RouteMixes` keeps apart
  routes without common state. The unit of time is five minutes: a V1 attempt
  takes up to three units, a V2 attempt one, `WriteTimeout` is eight.
  `PutTries` is 2 for V1, the largest number that fits, and negative for V2.
  `EthConfirmationDepth = ReorgDepth = 2`, the tightest case the code is meant
  for; `MaxHead = 4` lets a batch be confirmed, removed and confirmed again;
  `Tries = 2` gives a retry after the chain moved. One of the two `Values` is
  a cert that is backed up, the other its payload.
* `late_503`: the same with the defaults of the flags.
* `memstore`: one key, since entries are independent but for the maps' lock;
  two calls for that key race; `MaxAge = 1` separates an expired entry from a
  fresh one; of three blob sizes one is beyond `SRSLength` and one may exceed
  the size limit in force.
* `inputs`: 64-bit integers become integers modulo `Uint64 = 16`, where the
  wrap-around of the recency sum is reached; bytes are 0..3, which includes
  every byte the routes tell apart (0, 1, 2 and one unknown); commitments
  have up to four bytes, one more than the longest prefix; trees have depth
  at most two, which has proofs with a left and a right step in both orders.
* Symmetry is used over requests, certs and payloads, or goroutines, only in
  runs without liveness properties; `lifecycle`, `stores` and `memstore` use none.

### Fairness

`FairSpec` of `Server` has weak fairness of each request's and goroutine's own
steps: the Go scheduler runs every runnable goroutine, and each external call
returns, because it has a timeout or a bounded number of retries. It has strong
fairness for taking the verify lock and for being received from the topic:
`sync.Mutex` hands over to a waiter in FIFO order once it starves, and senders
blocked on a channel queue up. The arrival of requests, failures, the admin
switch, crashes and the begin of a shutdown are not fair; a shutdown that has
begun goes on, because `Stop` gives up after a timeout and main then returns.
`SFairSpec` of `StoreCalls` has weak fairness of each call's own steps, for the
same reason as above. `FairSpec` of `Memstore` has weak fairness of time and of
the pruning goroutine, and strong fairness of each call, which competes with
pruning for the lock. `AckedEventuallyBackedUp` is checked with targets that do
not fail: the code promises no more than five attempts and keeps no journal. It
has a way out for a process that ends, since the stop waits for requests and
not for goroutines. `CallsEnd` leaves out a `Put` with negative `PutTries`.

## Proofs

TLAPS proves the following for every choice of the constants that satisfies
their assumptions.

`ServerProofs`. The safety invariants are not inductive: what a GET serves was
decided several steps earlier, in a different process state. `Integrity`
says what each process knows at each label, and `IInv` is
`TypeOK /\ Integrity`. Its parts state

* `CertKnown`, `ReadsAreGets`: a process that works has a cert, and only GETs
  read (so the read loop's result can only reach a GET's answer);
* `DispersalOwnsCert`: a dispersal in flight owns a cert nobody else produced
  or is producing (so a dispersal never changes what another cert commits to);
* `V2CheckedIsDispersed`: a V2 cert that passed verification exists at EigenDA
  when its payload is fetched, some steps later;
* `WritesAreCommitted`: backups in flight, of requests and of goroutines, carry
  matching pairs (a goroutine may write after its request was answered and the
  slot reused);
* `ReturnedIsCommitted`, `AnsweredIsCommitted`: results on the way from the
  manager to the client. They cover POSTs and V1 GETs always, and V2 GETs
  unless targets are altered, which is what `Trusted` says;
* `ReadIsCommitted`, `BackedUpIsCommitted`: unless targets are altered, what
  they hold, and what a read loop took from them before verification, is the
  payload of the cert.

`IntegrityInvariant` proves `Spec => []IInv`, one step per action. From it
follow `TypeCorrect`, `IntegrityHolds`, `WritesCommitted`, `V1ServedCommitted`
and `AckedDispersed` with no further assumption, and `BackedUpCommitted` and `ServedCommitted` under
`~Corruption`. `LockOwned` and `TopicAlwaysServed` are inductive relative to
`TypeOK`; the first assumes `"V2" \in Stores` (without it, finding 3 leaks the
lock), and the second yields `SendReceived`.

`ServiceProofs`: `ServerImplementsBlobService`, under `~Corruption`. Initial
states map to initial states; each action maps to a dispersal, a reply or a
stutter, and `IInv` supplies the guard of the reply.

`VerdictProofs`. What a client is told depends on the cert it named and on what
the checks found several steps before. The properties of `verdicts` are about
answered requests only, so they are not inductive; `Verdicts` says the same at
every label on the way, and `VerdictInvariant` proves `Spec => [](IInv /\ Verdicts)`.
Its parts state

* `DispersalIsOurs`: a dispersal in flight is a POST's and never produces a forged
  cert;
* `AskedIsSettled`: a cert a GET names is dispersed already or never will be.
  Without it a dispersal of another request could change whether the cert is
  valid between the check and the answer;
* `NoErrorYet`: a request that still works has no error, so that the result of
  `Get` is that of the last check;
* `GetPassedIsVerified`, `TeapotIsInvalid`: what holds of a GET that passed and of
  one that was refused.

All of them but the first speak of one request and of the cert it names.
`Moved(r)` lists what one step can do to a request: leave it where it is or take
it along one edge of its life. `EveryRequestMoves` shows that every action of
`Next` does this to every request, and then each part needs one case per edge and
not one per action and pair of requests. `ServedVerified` and `ValidNeverTeapot`
follow with no further assumption. Two more results have assumptions, nearly all
of which a violation run shows to be needed:

* `AckedReadable`, under `~AdminEnabled` (without it: `race`). `OneBackend` says
  that every dispersal went through the initial backend, so that the second
  read of the backend gives the byte of the first;
* `InvalidTeapot`, under `~FallbackEnabled` (without it: `masked`),
  `"V2" \in Stores` (without it: `race`) and `~DAFaults` (when Ethereum
  does not answer there is no verdict). `InvalidIsRefused` says that an invalid
  cert takes none of the edges that lead past a check.

`CertVerifierProofs`: `FinalityInvariant`, under
`EthConfirmationDepth >= ReorgDepth`: the block a call reads is so deep that no
reorganisation removes it, although head and contract are read at different
times and perhaps from different nodes. `VerdictsFinal` is the statement about
verdicts that follows. `VerifierTypes` needs no such assumption.

`StoreProofs`. `StoresRunVerifier` shows that every step of `StoreCalls` is a
step of `CertVerifier` or leaves its variables alone, so `StoresFinality` is
`FinalityInvariant` again. The other results rest on three invariants:

* `CallInv` is `CallTyped /\ InBudget`: a call has not used more tries than
  `PutTries` allows, and a failover result means that it used all of them. It
  yields `FailoverLastResort` and, with `InTime` (time elapsed is at most tries
  used times the timeout), `FailoverDelivered`, under the assumption
  `PutTries * Timeout < WriteTimeout` that the defaults do not meet (finding 6);
* `PairInv` is `PairTyped /\ WritesVerified /\ KeccakPairsHold`: what is about
  to be written for a pair, or may still be written late, was verified or is a
  backup. Without it a late write could replace a pair. It yields `PairsHold`
  and `PairsServed`;
* `ContractInv` adds to `CallInv` that the stage of a call fits its job
  (`StagesFit`) and the bound on the chain. With finality it gives each step of
  the stores its step of `StoreContract` in `StoresImplementContract`, under
  `EthConfirmationDepth >= ReorgDepth`.

`MemstoreProofs`. `MInv` is `TypeOK /\ MapsAgree /\ HasBlob`, where `HasBlob`
says that a Put under way has a blob. `MapsAgree` is needed for the action
properties: a pruning pass deletes what is in `todo`, and only `MapsAgree` says
that this is timed.

`FunctionProofs`: `CommitmentsRoundTrip` for certs of any length, by a lemma
that dropping a prefix undoes prepending it; `AcceptedCertsHaveMargin` for any
number of quorums; `RecencyCheckExact` for any integer width, which has both
halves of the check and what a wrap of the sum does to them;
`ServingConsistent` and `ServingOnItsNetwork` for every configuration and every
answer of the services (the run `inputs` tries some of them): what
`BuildStoreManager` returns is traced back through the checks, and `PointsFit`
is the arithmetic behind the SRS.

`MerkleExact` is for trees of every depth, all headers, words and indices.
`Walk` (the loop of `ProcessInclusionProof`), `Tree` and `Leaves` (the powers of
two) are recursive functions, so that they have to be shown to exist before
anything can be said about them. The induction behind all of this is
`SetInduction`, which follows from the well-founded order on `Nat` and is stated
for a set of numbers. A proof of another length than the depth is
refused by `OtherLengthRejected`: from the root down, the walk stays in the tree,
until a leaf would have to be a node. A proof of the right length is compared
level by level in `SameLengthExact`: the index of the walk without the bits above
the tree is the position divided by a power of two (`HalfMod`, `HalfDiv`), and
the walk is in the tree exactly as long as header and siblings were right.

`InputProofs`. `AnySpec` is `MCInputs` with its bounds removed: certs, paths and
proofs of every length, any number of quorums, all block numbers, every
configuration in every world (the batch of headers is that of the run;
`MerkleExact` has no such restriction). Each invariant of the run `inputs` is
shown for it from a theorem of `FunctionProofs` or from `RoutesExact`, which says
that a GET looks up a version and a cert exactly if its path is the commitment of
them in the request's mode. A generic commitment is one of any DA layer there,
since the code does not tell them apart (finding 7).

Only model-checked: the five liveness properties (`EveryRequestAnswered`,
`AckedEventuallyBackedUp`, `TimedEntriesExpire`, `CallsReturn`, `CallsEnd`), which
depend on fairness and on when actions are enabled, outside the prover's reach.
Every invariant and every action property that a passing run checks is a theorem.

## Findings

1. `race` - `handlePostShared` reads the dispersal backend again after `Put`
   returned (`server/handlers_cert.go:194`). An admin switch in between gives
   the commitment the other backend's version byte, and it cannot be read back.
2. `masked` - with fallbacks configured, `Get` returns the fallback's error in
   place of the cert verification error (`store/manager.go:144`); the answer is
   500 where `4xx.go:34` promises 418 for any cert validation error.
3. `race`, its last step - `Get` guards version byte 1 but not byte 2 against a
   missing V2 store (`store/manager.go:109`). The proxy of the run has the V1
   store only, and the GET of the commitment from finding 1 reaches a nil store.
   The call panics, and if that happens in `MultiSourceRead` the verify lock
   stays locked (`LockLeaked`).
4. `finality` - `NewCertVerifier` does not copy `WaitForFinalization`
   (`verify/cert.go:97`), so "finalized" reads the contract at the head.
5. `s3_nil` - `buildSecondaries` compares an interface that holds a nil pointer
   with nil (`storage_manager_builder.go:175`), so the target s3 without a
   bucket starts.
6. `late_503` - with the defaults (three tries, 15 minutes to confirm each) a
   POST whose blob is never confirmed ends after 45 minutes, and the server
   writes nothing after 40 (`server/server.go:64`). The README (line 303)
   promises a 503 after the confirmation timeout; the batcher gets a closed
   connection, which `SetData` does not take for the failover signal.
7. `layer_byte` - the generic route takes every DA layer byte
   (`server/routing.go:47`) and the handlers do not look at it, so a commitment
   of another DA layer is looked up at EigenDA. The comment on that line has such
   commitments answered with 404, and the README (line 371) has them unsupported.

Noted while modelling, without a run of their own:

* The verify callback for V2 checks the cert and not the payload
  (`store/manager.go:208`), so an altered cache entry is served;
  `ServedCommitted` assumes `~Corruption` for this reason.
* A PATCH of the memory store's expiration to 0 makes the pruner delete every
  timed entry at its next tick. The pruner is not started at all when the
  initial expiration is 0, so a later PATCH to a positive value has no effect.
* `RBN + window` of the recency check wraps around (`v2/eigenda.go:294`). Where it
  does, every cert is stale, those that `client_config_v2.go:43` calls valid too;
  with the window set to the largest `uint64` that is every cert there is.
  `RecencyIsExact` says so: accepted exactly inside the window and without a
  wrap.
* The check for duplicate and overlapping targets in `store/config.go` is case
  sensitive, `StringToBackendType` is not.
* The input checks of the recency check return plain errors, hence 500, where
  the comment at `v2/eigenda.go:234` says "Already a structured error converted
  to a 418 HTTP error".
* Targets that parse but cannot be built ("eigenda"), and redis without an
  endpoint, end in a panic or error at start-up rather than in the check of the
  configuration.
* A keccak pair whose value is a serialized cert has the key of the backup of
  that cert's payload. With one bucket for both, each replaces the other; a GET
  of the pair then answers 400, and a V2 read through S3 serves the wrong object
  as an altered one (`KeccakPairsHold` excepts these values).
* The graceful stop waits for requests but not for subscription goroutines, so
  a backup that was taken from the topic may be lost with the process.
* With negative `PutTries` a client that leaves does not stop the retries: the
  goroutine of its request runs as long as the process.
* The SRS points that are loaded follow the blob size of the dispersal backend
  only. With both backends enabled and a larger limit for the other one, blobs
  of that one beyond the points loaded cannot be committed to.
* The memory store computes the commitment before it checks the size, so a blob
  beyond the SRS is a 500 and not a 400; and it returns the failover error
  before it sleeps, where `memconfig/config.go:16` has the latency first.
* The action of `--memstore.enabled` turns cert verification off, so the check
  in `builder/config.go:152` for the two together is not reached from the
  command line.
* `SetData` uses `http.DefaultClient` and not the client it was configured with.

## Not modelled

* KZG commitments, ABI encoding, signatures: cryptography stands behind the
  symbolic "commits to" relation.
* Metrics, logging, the remaining middleware, and the client library but for
  `SetData`: no state that a property depends on.
* The declarations of flags (names, defaults, help), durations, and the settings
  of server, logging and metrics: values that are passed on unchanged.
* The construction of the S3 and Redis clients and their credentials.

## Plan

1. Start-up and shutdown as steps, with partial failures, in place of a
   function.
2. The properties of the violation runs under the condition that would make them
   true, as theorems: a guard for byte 2, a copied `WaitForFinalization`, a check of
   the layer byte.
