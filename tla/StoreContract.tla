---------------------------- MODULE StoreContract ----------------------------
(***************************************************************************)
(* What Manager relies on when it calls Put of an EigenDA store (its steps *)
(* Disperse and DisperseFails): a call ends with a cert or with one error  *)
(* of the backend, and a V1 cert was confirmed by a block that stays.      *)
(* Attempts, retries, nodes that lag and reorganisations do not show.      *)
(***************************************************************************)
CONSTANTS Calls, Confirmations, NoConfirmation

VARIABLES
  final,   \* (batch, block) pairs that are on the chain for ever
  reply    \* the answer to each call of Put

Pending == [kind |-> "pending", backend |-> "none", confirmation |-> NoConfirmation]

Failures(b) ==
  {"rateLimited", "failover", "internal"} \cup (IF b = "V1" THEN {"oversized"} ELSE {})

Init ==
  /\ final = {}
  /\ reply = [v \in Calls |-> Pending]

Finalize ==
  /\ final' \in SUBSET Confirmations
  /\ final \subseteq final'
  /\ UNCHANGED reply

Call(v) ==
  /\ reply' = [reply EXCEPT ![v] = Pending]
  /\ UNCHANGED final

SucceedV1(v, c) ==
  /\ reply[v] = Pending
  /\ c \in final
  /\ reply' = [reply EXCEPT ![v] = [kind |-> "ok", backend |-> "V1", confirmation |-> c]]
  /\ UNCHANGED final

SucceedV2(v) ==
  /\ reply[v] = Pending
  /\ reply' = [reply EXCEPT ![v] =
                 [kind |-> "ok", backend |-> "V2", confirmation |-> NoConfirmation]]
  /\ UNCHANGED final

\* A call may fail as soon as it is made, replacing the last call's answer.
Fail(v, b, e) ==
  /\ e \in Failures(b)
  /\ reply' = [reply EXCEPT ![v] =
                 [kind |-> e, backend |-> b, confirmation |-> NoConfirmation]]
  /\ UNCHANGED final

Next ==
  \/ Finalize
  \/ \E v \in Calls :
       \/ Call(v)
       \/ \E c \in Confirmations : SucceedV1(v, c)
       \/ SucceedV2(v)
       \/ \E b \in {"V1", "V2"} : \E e \in Failures(b) : Fail(v, b, e)

Spec == Init /\ [][Next]_<<final, reply>>
==============================================================================
