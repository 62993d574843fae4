-------------------------- MODULE PaymentLifecycle --------------------------
(***************************************************************************)
(* What a payment request promises, without the processes that move it:    *)
(* the lifecycle behind PaymentStatus and the functions of                 *)
(* repositories/payment_request.py.  A request occupies a slot (a holding  *)
(* and who builds for it) while it is in flight, leaves the lifecycle only *)
(* by confirmation or cancellation, never comes back, and is confirmed by  *)
(* a transaction that confirms no other request.                           *)
(***************************************************************************)
CONSTANTS Requests, Slots, NoSlot, Txs, NoTx

VARIABLES status, slot, tx

lifecycleVars == <<status, slot, tx>>

InFlight == {"awaiting_signature", "awaiting_broadcast", "broadcast"}

Init ==
  /\ status = [r \in Requests |-> "none"]
  /\ slot = [r \in Requests |-> NoSlot]
  /\ tx = [r \in Requests |-> NoTx]

Move(r, from, to) == status[r] \in from /\ status' = [status EXCEPT ![r] = to]

Create(r, s) ==
  /\ Move(r, {"none"}, "awaiting_signature")
  /\ \A q \in Requests : slot[q] = s => status[q] \notin InFlight
  /\ slot' = [slot EXCEPT ![r] = s]
  /\ UNCHANGED tx

Sign(r) ==
  /\ Move(r, {"awaiting_signature"}, "awaiting_broadcast")
  /\ UNCHANGED <<slot, tx>>

Broadcast(r, t) ==
  /\ Move(r, {"awaiting_broadcast"}, "broadcast")
  /\ tx' = [tx EXCEPT ![r] = t]
  /\ UNCHANGED slot

Confirm(r) ==
  /\ Move(r, {"broadcast"}, "confirmed")
  /\ \A q \in Requests : tx[q] = tx[r] => status[q] # "confirmed"
  /\ UNCHANGED <<slot, tx>>

Cancel(r) ==
  /\ Move(r, {"awaiting_signature", "awaiting_broadcast"}, "cancelled")
  /\ UNCHANGED <<slot, tx>>

Next ==
  \E r \in Requests :
    \/ \E s \in Slots : Create(r, s)
    \/ \E t \in Txs : Broadcast(r, t)
    \/ Sign(r) \/ Confirm(r) \/ Cancel(r)

Spec == Init /\ [][Next]_lifecycleVars
=============================================================================
