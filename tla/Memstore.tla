------------------------------ MODULE Memstore ------------------------------
(***************************************************************************)
(* store/generated_key/memstore: the in-memory stand-in for EigenDA.       *)
(* ephemeraldb/ephemeral_db.go keeps blobs under the hash of a random cert *)
(* and prunes them in a goroutine; memconfig lets clients PATCH the        *)
(* configuration that both read while they run.                            *)
(*                                                                         *)
(* Time is the age of each timed entry, in ticks, capped at MaxAge.  A     *)
(* blob is represented by its encoded length.  The artificial latencies    *)
(* only delay a call, so of the two latency fields of a PATCH the model    *)
(* keeps whether they parse.                                               *)
(***************************************************************************)
EXTENDS Naturals, Sequences

CONSTANTS
  Keys,               \* hashes of random certs
  Blobs,              \* lengths of the blobs in use
  SRSLength,          \* the longest blob the loaded SRS can commit to
  Calls,              \* concurrent calls of Put and Get
  Patches,            \* concurrent PATCH /memstore/config requests
  Expirations,        \* values of BlobExpiration in use
  InitialExpiration,  \* the flag memstore.expiration
  UsedUpdates,        \* bound: the ConfigUpdates in use
  MaxAge,             \* bound on ages; no expiration in use exceeds it
  Absent,             \* a field that a PATCH leaves out
  Bad,                \* a duration that does not parse
  None                \* no blob, no start time

\* A PATCH body; the latencies matter only when they do not parse.
Updates == [latency : {Absent, Bad},
            failover : BOOLEAN \cup {Absent},
            maxSize : Blobs \cup {Absent},
            expiration : Expirations \cup {Absent, Bad}]

ASSUME MemstoreAssumption ==
  /\ UsedUpdates \subseteq Updates
  /\ Blobs \subseteq Nat
  /\ SRSLength \in Blobs
  /\ Expirations \subseteq 0..MaxAge
  /\ InitialExpiration \in Expirations
  /\ MaxAge \in Nat
  /\ Keys # {} /\ Blobs # {}
  /\ None \notin Nat
  /\ Absent \notin Nat \cup BOOLEAN
  /\ Bad \notin Nat \cup BOOLEAN \cup {Absent}

VARIABLES
  config,     \* memconfig.SafeConfig
  store,      \* DB.store: the blob under each key
  age,        \* DB.keyStarts: time since the start of each timed key
  pruner,     \* pruningLoop: "off" if it was not started, "waiting", "pruning"
  todo,       \* keys pruneExpired has still to visit; it holds db.mu
  pc,         \* where each call is, or how it ended
  key, blob,  \* its arguments
  field,      \* the field each PATCH looks at next; 0 when it has ended
  update      \* its ConfigUpdate

dbVars == <<store, age>>
pruneVars == <<pruner, todo>>
callVars == <<pc, key, blob>>
patchVars == <<field, update>>
vars == <<config, dbVars, pruneVars, callVars, patchVars>>

\* The order in which handleUpdateConfig looks at the fields.
Fields == <<"latency", "failover", "maxSize", "expiration">>

Configs == [failover : BOOLEAN, maxSize : Blobs, expiration : Expirations]

NoUpdate == [latency |-> Absent, failover |-> Absent, maxSize |-> Absent,
             expiration |-> Absent]

Ended == {"idle", "ok", "failover", "failed"}
Timed(k) == age[k] # None

\* New: the pruning goroutine is started only if blobs expire at that time.  The
\* SRS is loaded for blobs of the configured size.
Init ==
  /\ config \in {c \in Configs : c.expiration = InitialExpiration /\ c.maxSize = SRSLength}
  /\ store = [k \in Keys |-> None]
  /\ age = [k \in Keys |-> None]
  /\ pruner = IF InitialExpiration # 0 THEN "waiting" ELSE "off"
  /\ todo = {}
  /\ pc = [p \in Calls |-> "idle"]
  /\ key = [p \in Calls |-> CHOOSE k \in Keys : TRUE]
  /\ blob = [p \in Calls |-> None]
  /\ field = [r \in Patches |-> 0]
  /\ update = [r \in Patches |-> NoUpdate]

Tick ==
  /\ age' = [k \in Keys |-> IF Timed(k) /\ age[k] < MaxAge THEN age[k] + 1 ELSE age[k]]
  /\ UNCHANGED <<config, store, pruneVars, callVars, patchVars>>

-----------------------------------------------------------------------------
(* MemStore.Put and DB.InsertEntry.                                        *)

\* A call goes on or ends; the arguments of one that ended are gone.
Goto(p, label) ==
  /\ pc' = [pc EXCEPT ![p] = label]
  /\ blob' = [blob EXCEPT ![p] = IF label \in Ended THEN None ELSE @]

\* The keys that the cert of a blob may get: hashes of random certs, so a clash
\* is unlikely, not impossible.  There is none for a blob that the SRS cannot
\* commit to.
GenerateRandomCert(b) == IF b <= SRSLength THEN Keys ELSE {}

\* The cert is generated before the length is compared with MaxBlobSizeBytes.
PutFails(p, b) ==
  /\ pc[p] \in Ended
  /\ GenerateRandomCert(b) = {}
  /\ Goto(p, "failed")
  /\ UNCHANGED <<config, dbVars, pruneVars, key, patchVars>>

\* PutReturnsFailoverError is the first thing InsertEntry reads.
Put(p, k, b) ==
  /\ pc[p] \in Ended
  /\ k \in GenerateRandomCert(b)
  /\ key' = [key EXCEPT ![p] = k]
  /\ blob' = [blob EXCEPT ![p] = IF config.failover THEN None ELSE b]
  /\ pc' = [pc EXCEPT ![p] = IF config.failover THEN "failover" ELSE "size"]
  /\ UNCHANGED <<config, dbVars, pruneVars, patchVars>>

CheckSize(p) ==
  /\ pc[p] = "size"
  /\ Goto(p, IF blob[p] > config.maxSize THEN "failed" ELSE "insert")
  /\ UNCHANGED <<config, dbVars, pruneVars, key, patchVars>>

\* Mutant: the key is not looked up first.
InsertOverwrites(p) ==
  /\ pc[p] = "insert"
  /\ pruner # "pruning"
  /\ Goto(p, "ok")
  /\ store' = [store EXCEPT ![key[p]] = blob[p]]
  /\ age' = [age EXCEPT ![key[p]] = IF config.expiration > 0 THEN 0 ELSE @]
  /\ UNCHANGED <<config, pruneVars, key, patchVars>>

\* After the sleep, under db.mu.
Insert(p) ==
  /\ pc[p] = "insert"
  /\ pruner # "pruning"
  /\ \/ /\ store[key[p]] # None
        /\ Goto(p, "failed")
        /\ UNCHANGED dbVars
     \/ /\ store[key[p]] = None
        /\ Goto(p, "ok")
        /\ store' = [store EXCEPT ![key[p]] = blob[p]]
        /\ age' = [age EXCEPT ![key[p]] = IF config.expiration > 0 THEN 0 ELSE @]
  /\ UNCHANGED <<config, pruneVars, key, patchVars>>

-----------------------------------------------------------------------------
(* MemStore.Get and DB.FetchEntry.  Verify of both stores accepts anything.*)

Get(p, k) ==
  /\ pc[p] \in Ended
  /\ key' = [key EXCEPT ![p] = k]
  /\ Goto(p, "fetch")
  /\ UNCHANGED <<config, dbVars, pruneVars, patchVars>>

\* After the sleep, under the read lock.
FetchEntry(p) ==
  /\ pc[p] = "fetch"
  /\ pruner # "pruning"
  /\ Goto(p, IF store[key[p]] # None THEN "ok" ELSE "failed")
  /\ UNCHANGED <<config, dbVars, pruneVars, key, patchVars>>

-----------------------------------------------------------------------------
(* pruningLoop and pruneExpired.                                           *)

PruneBegin ==
  /\ pruner = "waiting"
  /\ pruner' = "pruning"
  /\ todo' = {k \in Keys : Timed(k)}
  /\ UNCHANGED <<config, dbVars, callVars, patchVars>>

\* Mutant: the start time of a pruned entry stays behind.
PruneKeyKeepsStart(k) ==
  /\ pruner = "pruning"
  /\ k \in todo
  /\ todo' = todo \ {k}
  /\ \/ /\ age[k] >= config.expiration
        /\ store' = [store EXCEPT ![k] = None]
        /\ UNCHANGED age
     \/ age[k] < config.expiration /\ UNCHANGED dbVars
  /\ UNCHANGED <<config, pruner, callVars, patchVars>>

\* Mutant: the store is walked instead of the start times; a missing start time
\* is the zero time, long ago.
PruneKeyOfStore(k) ==
  /\ pruner = "pruning"
  /\ store[k] # None
  /\ todo' = todo \ {k}
  /\ \/ /\ IF Timed(k) THEN age[k] >= config.expiration ELSE TRUE
        /\ store' = [store EXCEPT ![k] = None]
        /\ age' = [age EXCEPT ![k] = None]
     \/ Timed(k) /\ age[k] < config.expiration /\ UNCHANGED dbVars
  /\ UNCHANGED <<config, pruner, callVars, patchVars>>

\* The expiration is read anew for every entry.
PruneKey(k) ==
  /\ pruner = "pruning"
  /\ k \in todo
  /\ todo' = todo \ {k}
  /\ \/ /\ age[k] >= config.expiration
        /\ store' = [store EXCEPT ![k] = None]
        /\ age' = [age EXCEPT ![k] = None]
     \/ age[k] < config.expiration /\ UNCHANGED dbVars
  /\ UNCHANGED <<config, pruner, callVars, patchVars>>

\* Mutant: pruning returns without unlocking db.mu.
PruneEndLocked ==
  /\ pruner = "pruning"
  /\ todo = {}
  /\ UNCHANGED vars

PruneEnd ==
  /\ pruner = "pruning"
  /\ todo = {}
  /\ pruner' = "waiting"
  /\ UNCHANGED <<config, dbVars, todo, callVars, patchVars>>

-----------------------------------------------------------------------------
(* handleUpdateConfig.                                                     *)

HandleUpdateConfig(r, u) ==
  /\ field[r] = 0
  /\ field' = [field EXCEPT ![r] = 1]
  /\ update' = [update EXCEPT ![r] = u]
  /\ UNCHANGED <<config, dbVars, pruneVars, callVars>>

NextField(r) == IF field[r] = Len(Fields) THEN 0 ELSE field[r] + 1

\* Mutant: a field that was left out is set to its zero value.
UpdateFieldOrZero(r) ==
  /\ field[r] # 0
  /\ LET f == Fields[field[r]]
         u == update[r][f]
         zero == IF f = "failover" THEN FALSE ELSE 0
         next == IF u = Bad THEN 0 ELSE NextField(r)
     IN /\ field' = [field EXCEPT ![r] = next]
        /\ update' = [update EXCEPT ![r] = IF next = 0 THEN NoUpdate ELSE @]
        /\ config' = IF f = "latency" \/ u = Bad THEN config
                     ELSE [config EXCEPT ![f] = IF u = Absent THEN zero ELSE u]
  /\ UNCHANGED <<dbVars, pruneVars, callVars>>

\* One setter of SafeConfig per field; a duration that does not parse ends the
\* request with 400 and leaves the fields before it set.
UpdateField(r) ==
  /\ field[r] # 0
  /\ LET f == Fields[field[r]]
         u == update[r][f]
         next == IF u = Bad THEN 0 ELSE NextField(r)
     IN /\ field' = [field EXCEPT ![r] = next]
        /\ update' = [update EXCEPT ![r] = IF next = 0 THEN NoUpdate ELSE @]
        /\ config' = IF u \in {Absent, Bad} THEN config ELSE [config EXCEPT ![f] = u]
  /\ UNCHANGED <<dbVars, pruneVars, callVars>>

-----------------------------------------------------------------------------
CallStep(p) == CheckSize(p) \/ Insert(p) \/ FetchEntry(p)
PruneStep == PruneBegin \/ PruneEnd \/ \E k \in Keys : PruneKey(k)

Next ==
  \/ Tick
  \/ \E p \in Calls, k \in Keys, b \in Blobs : Put(p, k, b)
  \/ \E p \in Calls, b \in Blobs : PutFails(p, b)
  \/ \E p \in Calls, k \in Keys : Get(p, k)
  \/ \E p \in Calls : CallStep(p)
  \/ PruneStep
  \/ \E r \in Patches, u \in UsedUpdates : HandleUpdateConfig(r, u)
  \/ \E r \in Patches : UpdateField(r)

Spec == Init /\ [][Next]_vars

\* Time passes, the ticker fires every 500 ms and goroutines are scheduled; a
\* waiter on db.mu is not passed over for ever.
FairSpec ==
  /\ Spec
  /\ WF_vars(Tick)
  /\ WF_vars(PruneStep)
  /\ \A p \in Calls : SF_vars(CallStep(p))

-----------------------------------------------------------------------------
(* Properties.                                                             *)

\* Every variable ranges over the values the program can give it.
TypeOK ==
  /\ config \in Configs
  /\ store \in [Keys -> Blobs \cup {None}]
  /\ age \in [Keys -> 0..MaxAge \cup {None}]
  /\ pruner \in {"off", "waiting", "pruning"}
  /\ todo \in SUBSET Keys
  /\ pc \in [Calls -> Ended \cup {"size", "insert", "fetch"}]
  /\ key \in [Calls -> Keys]
  /\ blob \in [Calls -> Blobs \cup {None}]
  /\ field \in [Patches -> 0..Len(Fields)]
  /\ update \in [Patches -> Updates]

\* The two maps of DB agree while puts, pruning and PATCHes interleave: a start
\* time belongs to a stored blob, and what pruneExpired will look at is timed.
MapsAgree ==
  /\ \A k \in Keys : Timed(k) => store[k] # None
  /\ \A k \in todo : pruner = "pruning" /\ Timed(k)

\* The blob of a cert never changes: a second insert under its key is refused
\* and the entry can only disappear.
WriteOnce ==
  [][\A k \in Keys : store[k] # None => store'[k] \in {store[k], None}]_vars

\* A blob inserted while expiration was off is kept for ever, whatever PATCHes
\* and pruning do later, also if its key was used and pruned before.
UntimedStay ==
  [][\A k \in Keys : store[k] # None /\ ~Timed(k) => store'[k] = store[k]]_vars

\* A PATCH changes only the fields it names: "The other fields will be left
\* intact", also if it stops half-way at a duration that does not parse.
OtherFieldsIntact ==
  [][\A f \in DOMAIN config :
       config'[f] # config[f] => \E r \in Patches : config'[f] = update[r][f]]_vars

\* Every Put and Get returns although pruning takes the lock again and again.
CallsReturn == \A p \in Calls : pc[p] \notin Ended ~> pc[p] \in Ended

\* A timed blob is eventually pruned.
TimedEntriesExpire == \A k \in Keys : Timed(k) ~> ~Timed(k)
=============================================================================
