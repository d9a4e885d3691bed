----------------------------- MODULE RecordStore -----------------------------
(***************************************************************************)
(* What the DNS updates of the API amount to, seen from outside: a store   *)
(* of the texts each owner has in each zone, and requests that each ask to *)
(* replace the texts of one owner.  A request is applied in one step or is *)
(* dropped; it is never applied twice, never undone by a request that knew *)
(* nothing of it, and never touches what another owner holds.              *)
(*                                                                         *)
(* Whether the client is told the truth about it is another matter, which  *)
(* this specification leaves open.                                         *)
(***************************************************************************)
EXTENDS Integers, Sequences

CONSTANTS
    Requests,     \* the calls of the API
    Asks,         \* what a request may ask for: [zone, owner, texts]
    Zones         \* the zones there may be a file for

VARIABLES
    store,        \* store[zone][owner], the set of texts
    ask,          \* ask[request]
    status        \* status[request]

vars == <<store, ask, status>>

Idle == [r \in Requests |-> "idle"]

Submit(r) ==
    /\ status[r] = "idle"
    /\ \E a \in Asks : ask' = [ask EXCEPT ![r] = a]
    /\ status' = [status EXCEPT ![r] = "pending"]
    /\ UNCHANGED store

Apply(r) ==
    /\ status[r] = "pending"
    /\ store' = [store EXCEPT ![ask[r].zone][ask[r].owner] = ask[r].texts]
    /\ status' = [status EXCEPT ![r] = "applied"]
    /\ UNCHANGED ask

Drop(r) ==
    /\ status[r] = "pending"
    /\ status' = [status EXCEPT ![r] = "dropped"]
    /\ UNCHANGED <<store, ask>>

\* Others who may push to the repository change one zone as they like.
ChangeFromOutside ==
    /\ \E z \in Zones : \A y \in Zones \ {z} : store'[y] = store[y]
    /\ UNCHANGED <<ask, status>>

Next ==
    \/ \E r \in Requests : Submit(r) \/ Apply(r) \/ Drop(r)
    \/ ChangeFromOutside

Init == status = Idle

Safety == Init /\ [][Next]_vars

Spec == Safety /\ \A r \in Requests : WF_vars(Apply(r) \/ Drop(r))

=============================================================================
