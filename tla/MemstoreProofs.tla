--------------------------- MODULE MemstoreProofs ---------------------------
(***************************************************************************)
(* The memory store, for every number of keys, concurrent calls and PATCH  *)
(* requests and every set of updates: its two maps agree, a blob never     *)
(* changes, an entry without start time stays, and a PATCH touches only    *)
(* the fields it names.                                                    *)
(***************************************************************************)
EXTENDS Memstore, TLAPS

USE MemstoreAssumption

\* A call that is on its way to the store has a blob.
HasBlob == \A p \in Calls : pc[p] \in {"size", "insert"} => blob[p] # None

MInv == TypeOK /\ MapsAgree /\ HasBlob

\* The initial state satisfies the inductive invariant.
LEMMA InitMInv ==
  ASSUME Init
  PROVE  MInv
<1>1. TypeOK
  <2>1. NoUpdate \in Updates
    BY DEF NoUpdate, Updates
  <2>2. (CHOOSE k \in Keys : TRUE) \in Keys
    OBVIOUS
  <2>3. config \in Configs
    BY DEF Init
  <2>4. /\ pc \in [Calls -> Ended \cup {"size", "insert", "fetch"}]
        /\ key \in [Calls -> Keys]
        /\ blob \in [Calls -> Blobs \cup {None}]
    BY <2>2 DEF Init, Ended
  <2>5. /\ store \in [Keys -> Blobs \cup {None}]
        /\ age \in [Keys -> 0..MaxAge \cup {None}]
        /\ pruner \in {"off", "waiting", "pruning"}
        /\ todo \in SUBSET Keys
    BY DEF Init
  <2>6. field \in [Patches -> 0..Len(Fields)] /\ update \in [Patches -> Updates]
    BY <2>1 DEF Init, Fields
  <2>7. QED
    BY <2>3, <2>4, <2>5, <2>6 DEF TypeOK
<1>2. MapsAgree /\ HasBlob
  BY DEF Init, MapsAgree, HasBlob, Timed
<1>3. QED
  BY <1>1, <1>2 DEF MInv

\* Put, Get and their steps.
LEMMA CallMInv ==
  ASSUME MInv, NEW p \in Calls,
         \/ \E k \in Keys, b \in Blobs : Put(p, k, b)
         \/ \E b \in Blobs : PutFails(p, b)
         \/ \E k \in Keys : Get(p, k)
         \/ CallStep(p)
  PROVE  MInv'
<1> USE DEF MInv, TypeOK, Goto, Ended, dbVars, pruneVars, callVars, patchVars
<1>1. ASSUME NEW k \in Keys, NEW b \in Blobs, Put(p, k, b) PROVE MInv'
  BY <1>1 DEF Put, MapsAgree, HasBlob, Timed
<1>2. ASSUME NEW k \in Keys, Get(p, k) PROVE MInv'
  BY <1>2 DEF Get, MapsAgree, HasBlob, Timed
<1>3. CASE CheckSize(p)
  BY <1>3 DEF CheckSize, MapsAgree, HasBlob, Timed
<1>4. CASE Insert(p)
  <2>1. CASE UNCHANGED dbVars /\ Goto(p, "failed")
    BY <1>4, <2>1 DEF Insert, MapsAgree, HasBlob, Timed
  <2>2. CASE /\ Goto(p, "ok")
             /\ store' = [store EXCEPT ![key[p]] = blob[p]]
             /\ age' = [age EXCEPT ![key[p]] = IF config.expiration > 0 THEN 0 ELSE @]
    <3>1. key[p] \in Keys /\ blob[p] \in Blobs /\ blob[p] # None /\ todo = {}
      BY <1>4 DEF Insert, HasBlob, MapsAgree
    <3>2. store' \in [Keys -> Blobs \cup {None}] /\ age' \in [Keys -> 0..MaxAge \cup {None}]
      BY <2>2, <3>1
    <3>3. TypeOK'
      BY <1>4, <2>2, <3>2 DEF Insert
    <3>4. MapsAgree' /\ HasBlob'
      BY <1>4, <2>2, <3>1 DEF Insert, MapsAgree, HasBlob, Timed
    <3>5. QED
      BY <3>3, <3>4
  <2>3. QED
    BY <1>4, <2>1, <2>2 DEF Insert
<1>5. CASE FetchEntry(p)
  BY <1>5 DEF FetchEntry, MapsAgree, HasBlob, Timed
<1>6. ASSUME NEW b \in Blobs, PutFails(p, b) PROVE MInv'
  BY <1>6 DEF PutFails, MapsAgree, HasBlob, Timed
<1>7. QED
  BY <1>1, <1>2, <1>3, <1>4, <1>5, <1>6 DEF CallStep

\* Time and pruning.
LEMMA PruneMInv ==
  ASSUME MInv, Tick \/ PruneStep
  PROVE  MInv'
<1> USE DEF MInv, TypeOK, MapsAgree, HasBlob, Timed, dbVars, pruneVars, callVars, patchVars
<1>1. CASE Tick
  BY <1>1 DEF Tick
<1>2. CASE PruneBegin
  BY <1>2 DEF PruneBegin
<1>3. CASE PruneEnd
  BY <1>3 DEF PruneEnd
<1>4. ASSUME NEW k \in Keys, PruneKey(k) PROVE MInv'
  BY <1>4 DEF PruneKey
<1>5. QED
  BY <1>1, <1>2, <1>3, <1>4 DEF PruneStep

\* What one step of a PATCH does to the configuration.
LEMMA UpdateFieldEffect ==
  ASSUME TypeOK, NEW r \in Patches, UpdateField(r)
  PROVE  /\ config' \in Configs
         /\ \A f \in DOMAIN config : config'[f] # config[f] => config'[f] = update[r][f]
<1>1. field[r] \in 1..4 /\ update[r] \in Updates /\ config \in Configs
  BY DEF UpdateField, TypeOK, Fields
<1>2. CASE field[r] = 1
  BY <1>1, <1>2 DEF UpdateField, Fields, Updates
<1>3. CASE field[r] = 2
  BY <1>1, <1>3 DEF UpdateField, Fields, Updates, Configs
<1>4. CASE field[r] = 3
  BY <1>1, <1>4 DEF UpdateField, Fields, Updates, Configs
<1>5. CASE field[r] = 4
  BY <1>1, <1>5 DEF UpdateField, Fields, Updates, Configs
<1>6. QED
  BY <1>1, <1>2, <1>3, <1>4, <1>5

\* A PATCH.
LEMMA PatchMInv ==
  ASSUME MInv, NEW r \in Patches,
         (\E u \in UsedUpdates : HandleUpdateConfig(r, u)) \/ UpdateField(r)
  PROVE  MInv'
<1> USE DEF MInv, TypeOK, MapsAgree, HasBlob, Timed, dbVars, pruneVars, callVars
<1>1. ASSUME NEW u \in UsedUpdates, HandleUpdateConfig(r, u) PROVE MInv'
  BY <1>1 DEF HandleUpdateConfig, Fields
<1>2. CASE UpdateField(r)
  <2>1. config' \in Configs
    BY <1>2, UpdateFieldEffect
  <2>2. NoUpdate \in Updates
    BY DEF NoUpdate, Updates
  <2>3. field' \in [Patches -> 0..Len(Fields)]
    BY <1>2 DEF UpdateField, NextField, Fields
  <2>4. update' \in [Patches -> Updates]
    BY <1>2, <2>2 DEF UpdateField
  <2>5. QED
    BY <1>2, <2>1, <2>3, <2>4 DEF UpdateField
<1>3. QED
  BY <1>1, <1>2

\* The inductive invariant holds in every reachable state.
THEOREM MemstoreInvariant == Spec => []MInv
<1>1. Init => MInv
  BY InitMInv
<1>2. MInv /\ [Next]_vars => MInv'
  <2> SUFFICES ASSUME MInv, [Next]_vars PROVE MInv'
    OBVIOUS
  <2>1. CASE Next
    BY <2>1, CallMInv, PruneMInv, PatchMInv DEF Next
  <2>2. CASE UNCHANGED vars
    BY <2>2 DEF vars, dbVars, pruneVars, callVars, patchVars, MInv, TypeOK, MapsAgree, HasBlob,
                Timed
  <2>3. QED
    BY <2>1, <2>2
<1>3. QED
  BY <1>1, <1>2, PTL DEF Spec

\* Every variable keeps its type.
THEOREM MemstoreTypes == Spec => []TypeOK
<1>1. MInv => TypeOK
  BY DEF MInv
<1>2. QED
  BY <1>1, MemstoreInvariant, PTL

\* The maps of DB agree while inserts, pruning and PATCHes interleave.
THEOREM MapsAlwaysAgree == Spec => []MapsAgree
<1>1. MInv => MapsAgree
  BY DEF MInv
<1>2. QED
  BY <1>1, MemstoreInvariant, PTL

\* A step of the invariant's states, action by action: what it does to entries.
LEMMA EntriesStay ==
  ASSUME MInv, [Next]_vars, NEW k \in Keys, store[k] # None
  PROVE  /\ store'[k] \in {store[k], None}
         /\ ~Timed(k) => store'[k] = store[k]
<1> USE DEF MInv, TypeOK, dbVars
<1>1. ASSUME NEW p \in Calls, Insert(p) PROVE store'[k] = store[k]
  BY <1>1 DEF Insert
<1>2. ASSUME NEW j \in Keys, PruneKey(j)
      PROVE  store'[k] \in {store[k], None} /\ (~Timed(k) => store'[k] = store[k])
  BY <1>2 DEF PruneKey, MapsAgree
<1>3. CASE UNCHANGED store
  BY <1>3
<1>4. QED
  BY <1>1, <1>2, <1>3 DEF Next, Tick, Put, PutFails, Get, CallStep, CheckSize, FetchEntry, PruneStep,
     PruneBegin, PruneEnd, HandleUpdateConfig, UpdateField, vars

\* The blob of a cert never changes.
THEOREM BlobsWrittenOnce == Spec => WriteOnce
<1>1. MInv /\ [Next]_vars =>
        [\A k \in Keys : store[k] # None => store'[k] \in {store[k], None}]_vars
  BY EntriesStay
<1>2. QED
  BY <1>1, MemstoreInvariant, PTL DEF Spec, WriteOnce

\* A blob that was inserted while expiration was off stays.
THEOREM UntimedBlobsStay == Spec => UntimedStay
<1>1. MInv /\ [Next]_vars =>
        [\A k \in Keys : store[k] # None /\ ~Timed(k) => store'[k] = store[k]]_vars
  BY EntriesStay
<1>2. QED
  BY <1>1, MemstoreInvariant, PTL DEF Spec, UntimedStay

\* A PATCH changes only the fields it names, also if it stops half-way.
THEOREM PatchesKeepFields == Spec => OtherFieldsIntact
<1>1. MInv /\ [Next]_vars =>
        [\A f \in DOMAIN config :
           config'[f] # config[f] => \E r \in Patches : config'[f] = update[r][f]]_vars
  <2> SUFFICES ASSUME MInv, Next
               PROVE  \A f \in DOMAIN config :
                        config'[f] # config[f] => \E r \in Patches : config'[f] = update[r][f]
    OBVIOUS
  <2>1. ASSUME NEW r \in Patches, UpdateField(r)
        PROVE  \A f \in DOMAIN config : config'[f] # config[f] => config'[f] = update[r][f]
    BY <2>1, UpdateFieldEffect DEF MInv
  <2>2. CASE UNCHANGED config
    BY <2>2
  <2>3. QED
    BY <2>1, <2>2 DEF Next, Tick, Put, PutFails, Get, CallStep, CheckSize, Insert, FetchEntry, PruneStep,
       PruneBegin, PruneKey, PruneEnd, HandleUpdateConfig
<1>2. QED
  BY <1>1, MemstoreInvariant, PTL DEF Spec, OtherFieldsIntact
=============================================================================
