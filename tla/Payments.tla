------------------------------ MODULE Payments ------------------------------
(***************************************************************************)
(* Outgoing on-chain payments of TallyKeep, from the PSBT a request is     *)
(* built with to the block that confirms it.                               *)
(*                                                                         *)
(* Four parties share the state:                                           *)
(*   - the backend (api), whose handlers in api/v1/banking.py are `async'  *)
(*     functions without an await: one handler runs at a time, and it      *)
(*     blocks the event loop while it waits for bitcoind;                  *)
(*   - the SelfCustodyPoller thread of the worker process, which builds    *)
(*     payment requests for threshold sweeps with the same service code;   *)
(*   - the ChainListener thread of the worker process, which consumes      *)
(*     bitcoind's ZMQ notifications and links confirmed transactions;      *)
(*   - bitcoind, with its mempool, its chain and its notifications.        *)
(* The database is Postgres at READ COMMITTED: a transaction sees what is  *)
(* committed when it reads, and its writes appear at its commit.           *)
(*                                                                         *)
(* The PSBT of request r spends to one transaction, named r as well.       *)
(***************************************************************************)
EXTENDS Naturals, Sequences

CONSTANTS
  Holdings,     \* self-custody holdings that can send
  Requests,     \* ids of payment_request rows, and the txids of their PSBTs
  Execs,        \* ids of sweep_execution rows
  ForeignTxs,   \* transactions that no PSBT built here describes
  External,     \* a destination address that belongs to no holding
  None,         \* a NULL column
  Autoflush,    \* the autoflush argument of the session factory, FALSE in the code
  MaxCalls,     \* bound: sendrawtransaction calls per request
  MaxQueue,     \* bound: ZMQ notifications waiting at the listener
  MaxFaults     \* bound: failed RPCs, lost notifications and crashes

ASSUME PaymentsAssumption ==
  /\ Requests \cap ForeignTxs = {}
  /\ External \notin Holdings
  /\ None \notin Holdings \cup Requests \cup Execs \cup ForeignTxs \cup {External}
  /\ Autoflush \in BOOLEAN
  /\ MaxCalls \in Nat /\ MaxQueue \in Nat /\ MaxFaults \in Nat

VARIABLES
  pr,        \* table payment_request
  attempts,  \* table broadcast_attempt: the committed statuses per request
  exec,      \* table sweep_execution: the status per execution
  ledger,    \* on-chain ledger entries, one per <<txid, holding>>
  api,       \* the handler the backend is running
  poller,    \* the build the SelfCustodyPoller is running
  listener,  \* the notification the ChainListener is working on
  mempool, mined, notif,   \* bitcoind
  calls,     \* history: sendrawtransaction calls issued per request
  faults     \* faults that happened so far

dbVars   == <<pr, attempts, exec, ledger>>
nodeVars == <<mempool, mined, notif>>
vars     == <<pr, attempts, exec, ledger, api, poller, listener,
              mempool, mined, notif, calls, faults>>

Txs          == Requests \cup ForeignTxs
Destinations == Holdings \cup {External}
Entries      == Txs \X Holdings

(***************************************************************************)
(* Rows.  DRAFT, EXPIRED and FAILED are never written by the code.         *)
(***************************************************************************)
InFlightStatus    == {"awaiting_signature", "awaiting_broadcast", "broadcast"}
CancellableStatus == {"awaiting_signature", "awaiting_broadcast"}
Status            == InFlightStatus \cup {"none", "confirmed", "cancelled"}

\* "open" stands for REQUESTED and AWAITING_USER_CONFIRMATION.
ExecStatus == {"none", "open", "failed", "completed"}

Row == [status  : Status,
        holding : Holdings \cup {None},
        dest    : Destinations \cup {None},
        origin  : {"api", "poller", None},
        signed  : Txs \cup {None},
        txid    : Txs \cup {None},
        entry   : Entries \cup {None},
        exec    : Execs \cup {None}]

NoRow == [status |-> "none", holding |-> None, dest |-> None, origin |-> None,
          signed |-> None, txid |-> None, entry |-> None, exec |-> None]

\* The row build_payment_request inserts.
NewRow(h, d, o, e) ==
  [NoRow EXCEPT !.status = "awaiting_signature", !.holding = h, !.dest = d,
                !.origin = o, !.exec = e]

\* Seeded fault: BROADCAST is left out of the in-flight statuses.
InFlightUnlessBroadcast(h) ==
  \E r \in Requests : pr[r].holding = h /\ pr[r].status \in CancellableStatus

InFlight(h) == \E r \in Requests : pr[r].holding = h /\ pr[r].status \in InFlightStatus

IdleApi      == [pc |-> "idle", req |-> None, holding |-> None, dest |-> None]
IdlePoller   == [pc |-> "idle", exec |-> None, holding |-> None, dest |-> None]
IdleListener == [pc |-> "idle", tx |-> None, confirmed |-> FALSE]

Init ==
  /\ pr = [r \in Requests |-> NoRow]
  /\ attempts = [r \in Requests |-> <<>>]
  /\ exec = [e \in Execs |-> "none"]
  /\ ledger = {}
  /\ api = IdleApi /\ poller = IdlePoller /\ listener = IdleListener
  /\ mempool = {} /\ mined = {} /\ notif = <<>>
  /\ calls = [r \in Requests |-> 0]
  /\ faults = 0

Fault == faults < MaxFaults /\ faults' = faults + 1

-----------------------------------------------------------------------------
(***************************************************************************)
(* The backend's handlers.                                                 *)
(***************************************************************************)

\* POST /payment-requests, up to the first RPC: the in-flight rule is read
\* here, and bitcoind is asked for fees and parents before the insert.
BuildCheck(h, d) ==
  /\ api.pc = "idle"
  /\ ~InFlight(h)
  /\ api' = [api EXCEPT !.pc = "building", !.holding = h, !.dest = d]
  /\ UNCHANGED <<dbVars, nodeVars, poller, listener, calls, faults>>

\* The rest of the handler: insert and commit.
BuildCommit(r) ==
  /\ api.pc = "building"
  /\ pr[r].status = "none"
  /\ pr' = [pr EXCEPT ![r] = NewRow(api.holding, api.dest, "api", None)]
  /\ api' = IdleApi
  /\ UNCHANGED <<attempts, exec, ledger, nodeVars, poller, listener, calls, faults>>

\* Any of the handler's error returns: no balance, a bad address, no parent.
BuildFails ==
  /\ api.pc = "building"
  /\ api' = IdleApi
  /\ UNCHANGED <<dbVars, nodeVars, poller, listener, calls, faults>>

\* Seeded fault: a request that is already signed can be signed anew.
MarkSignedAgain(r, t) ==
  /\ api.pc = "idle"
  /\ pr[r].status \in CancellableStatus
  /\ pr' = [pr EXCEPT ![r].signed = t, ![r].status = "awaiting_broadcast"]
  /\ UNCHANGED <<attempts, exec, ledger, nodeVars, api, poller, listener, calls, faults>>

MarkSigned(r, t) ==
  /\ api.pc = "idle"
  /\ pr[r].status = "awaiting_signature"
  /\ pr' = [pr EXCEPT ![r].signed = t, ![r].status = "awaiting_broadcast"]
  /\ UNCHANGED <<attempts, exec, ledger, nodeVars, api, poller, listener, calls, faults>>

\* An unfinalised PSBT is combined with the stored one, so it is this request's.
SubmitPsbt(r) == MarkSigned(r, r)

\* A finalised PSBT or a raw transaction is taken as it is, whichever
\* transaction it holds: one of another request, or one made elsewhere.
SubmitFinalised(r, t) ==
  /\ t \in Requests => pr[t].status # "none"
  /\ MarkSigned(r, t)

\* POST .../broadcast up to the RPC.  The attempt row is flushed, not committed.
BroadcastBegin(r) ==
  /\ api.pc = "idle"
  /\ pr[r].status = "awaiting_broadcast"
  /\ calls[r] < MaxCalls
  /\ calls' = [calls EXCEPT ![r] = @ + 1]
  /\ api' = [api EXCEPT !.pc = "sending", !.req = r]
  /\ UNCHANGED <<dbVars, nodeVars, poller, listener, faults>>

\* The two answers of bitcoind reach the handler, which commits.
BroadcastAccepted ==
  /\ api.pc = "accepted"
  /\ LET r == api.req IN
       /\ pr' = [pr EXCEPT ![r].txid = pr[r].signed, ![r].status = "broadcast"]
       /\ attempts' = [attempts EXCEPT ![r] = Append(@, "accepted")]
  /\ api' = IdleApi
  /\ UNCHANGED <<exec, ledger, nodeVars, poller, listener, calls, faults>>

BroadcastRejected ==
  /\ api.pc = "rejected"
  /\ attempts' = [attempts EXCEPT ![api.req] = Append(@, "rejected")]
  /\ api' = IdleApi
  /\ UNCHANGED <<pr, exec, ledger, nodeVars, poller, listener, calls, faults>>

\* No answer arrives (refused, timed out), or the backend stops: the handler
\* ends with 503 or not at all, and its transaction is rolled back.
BroadcastLost ==
  /\ api.pc \in {"sending", "accepted", "rejected"}
  /\ api' = IdleApi
  /\ Fault
  /\ UNCHANGED <<dbVars, nodeVars, poller, listener, calls>>

\* Seeded fault: a request that is already broadcast can be cancelled.
CancelAnyInFlight(r) ==
  /\ api.pc = "idle"
  /\ pr[r].status \in InFlightStatus
  /\ pr' = [pr EXCEPT ![r].status = "cancelled"]
  /\ UNCHANGED <<attempts, exec, ledger, nodeVars, api, poller, listener, calls, faults>>

\* Seeded fault: the cancel handler runs while a broadcast waits for bitcoind.
CancelDuringBroadcast(r) ==
  /\ pr[r].status \in CancellableStatus
  /\ pr' = [pr EXCEPT ![r].status = "cancelled"]
  /\ UNCHANGED <<attempts, exec, ledger, nodeVars, api, poller, listener, calls, faults>>

Cancel(r) ==
  /\ api.pc = "idle"
  /\ pr[r].status \in CancellableStatus
  /\ pr' = [pr EXCEPT ![r].status = "cancelled"]
  /\ UNCHANGED <<attempts, exec, ledger, nodeVars, api, poller, listener, calls, faults>>

-----------------------------------------------------------------------------
(***************************************************************************)
(* The SelfCustodyPoller.  An execution is added to the session and then   *)
(* looked up again with session.get; without autoflush the pending row is  *)
(* not found and the update is skipped.                                    *)
(***************************************************************************)
UpdatePending(new, old) == IF Autoflush THEN new ELSE old

PollerCheck(e, h, d) ==
  /\ poller.pc = "idle"
  /\ exec[e] = "none"
  /\ ~InFlight(h)
  /\ poller' = [pc |-> "building", exec |-> e, holding |-> h, dest |-> d]
  /\ UNCHANGED <<dbVars, nodeVars, api, listener, calls, faults>>

\* build_payment_request raises InFlightPaymentExists.
PollerRefused(e, h) ==
  /\ poller.pc = "idle"
  /\ exec[e] = "none"
  /\ InFlight(h)
  /\ exec' = [exec EXCEPT ![e] = UpdatePending("failed", "open")]
  /\ UNCHANGED <<pr, attempts, ledger, nodeVars, api, poller, listener, calls, faults>>

\* It raises for another reason, after the in-flight rule was read.
PollerBuildFails ==
  /\ poller.pc = "building"
  /\ exec' = [exec EXCEPT ![poller.exec] = UpdatePending("failed", "open")]
  /\ poller' = IdlePoller
  /\ UNCHANGED <<pr, attempts, ledger, nodeVars, api, listener, calls, faults>>

PollerCommit(r) ==
  /\ poller.pc = "building"
  /\ pr[r].status = "none"
  /\ pr' = [pr EXCEPT ![r] = NewRow(poller.holding, poller.dest, "poller",
                                    UpdatePending(poller.exec, None))]
  /\ exec' = [exec EXCEPT ![poller.exec] = "open"]
  /\ poller' = IdlePoller
  /\ UNCHANGED <<attempts, ledger, nodeVars, api, listener, calls, faults>>

PollerDryRun(e) ==
  /\ poller.pc = "idle"
  /\ exec[e] = "none"
  /\ exec' = [exec EXCEPT ![e] = UpdatePending("completed", "open")]
  /\ UNCHANGED <<pr, attempts, ledger, nodeVars, api, poller, listener, calls, faults>>

-----------------------------------------------------------------------------
(***************************************************************************)
(* bitcoind (external).  It answers for a transaction it already has,      *)
(* refuses one that is in a block, and may refuse any other.               *)
(***************************************************************************)
NodeAccepts ==
  /\ api.pc = "sending"
  /\ LET t == pr[api.req].signed IN
       /\ t \notin mined
       /\ t \in mempool \/ Len(notif) < MaxQueue
       /\ mempool' = mempool \cup {t}
       /\ notif' = IF t \in mempool THEN notif ELSE Append(notif, <<"tx", t>>)
  /\ api' = [api EXCEPT !.pc = "accepted"]
  /\ UNCHANGED <<dbVars, mined, poller, listener, calls, faults>>

NodeRejects ==
  /\ api.pc = "sending"
  /\ pr[api.req].signed \notin mempool
  /\ api' = [api EXCEPT !.pc = "rejected"]
  /\ UNCHANGED <<dbVars, nodeVars, poller, listener, calls, faults>>

\* A block with t: its transaction is announced, then the block.
Mine(t) ==
  /\ t \in mempool
  /\ Len(notif) + 2 <= MaxQueue
  /\ mempool' = mempool \ {t}
  /\ mined' = mined \cup {t}
  /\ notif' = notif \o << <<"tx", t>>, <<"block", t>> >>
  /\ UNCHANGED <<dbVars, api, poller, listener, calls, faults>>

\* Replaced, expired or evicted.
Evict(t) ==
  /\ t \in mempool
  /\ mempool' = mempool \ {t}
  /\ UNCHANGED <<dbVars, mined, notif, api, poller, listener, calls, faults>>

-----------------------------------------------------------------------------
(***************************************************************************)
(* The ChainListener.                                                      *)
(***************************************************************************)

\* The holdings whose UTXOs or addresses the transaction of a request touches.
Touched(t) ==
  IF t \in Requests THEN {pr[t].holding, pr[t].dest} \cap Holdings ELSE {}

KnownEntries(t) == {e \in ledger : e[1] = t}
NewEntries(t)   == ({t} \X Touched(t)) \ ledger
Owners(t)       == {r \in Requests : pr[r].txid = t}

\* The entry a confirmed payment is linked to: the first new one, or the one
\* stored before.
LinkEntries(t) == IF NewEntries(t) # {} THEN NewEntries(t) ELSE KnownEntries(t)

MoreThanOne(S) == \E x, y \in S : x # y

\* Seeded fault: the request is looked up with first() instead.
LookupTakesFirst(t) == NewEntries(t) = {} /\ MoreThanOne(KnownEntries(t))

\* scalar_one_or_none raises on two rows: two entries of one transaction when
\* none is new, or two requests with the same broadcast_txid.
LookupRaises(t) ==
  \/ NewEntries(t) = {} /\ MoreThanOne(KnownEntries(t))
  \/ LinkEntries(t) # {} /\ MoreThanOne(Owners(t))

\* Seeded fault: a new block does not drive confirmations.
DispatchTxOnly(m) == m[2] \in mempool \cup mined /\ m[1] = "tx"

Dispatchable(m) ==
  /\ m[2] \in mempool \cup mined
  /\ m[1] = "block" => KnownEntries(m[2]) # {}

\* getrawtransaction: what bitcoind says of the transaction now.
ListenerFetch ==
  /\ listener.pc = "idle"
  /\ notif # <<>>
  /\ Dispatchable(Head(notif))
  /\ listener' = [pc |-> "fetched", tx |-> Head(notif)[2],
                  confirmed |-> Head(notif)[2] \in mined]
  /\ notif' = Tail(notif)
  /\ UNCHANGED <<dbVars, mempool, mined, api, poller, calls, faults>>

\* The same for a hashtx notification, but getblockheader fails: the height
\* is not known and the transaction is taken for a mempool one.
ListenerFetchNoHeader ==
  /\ listener.pc = "idle"
  /\ notif # <<>>
  /\ Dispatchable(Head(notif)) /\ Head(notif)[1] = "tx"
  /\ listener' = [pc |-> "fetched", tx |-> Head(notif)[2], confirmed |-> FALSE]
  /\ notif' = Tail(notif)
  /\ Fault
  /\ UNCHANGED <<dbVars, mempool, mined, api, poller, calls>>

\* Error -5 for an evicted transaction; a block with no transaction of ours.
ListenerSkip ==
  /\ listener.pc = "idle"
  /\ notif # <<>>
  /\ ~Dispatchable(Head(notif))
  /\ notif' = Tail(notif)
  /\ UNCHANGED <<dbVars, mempool, mined, api, poller, listener, calls, faults>>

\* The database transaction when there is no payment to confirm.
ListenerRecord ==
  /\ listener.pc = "fetched"
  /\ LET t == listener.tx IN
       /\ listener.confirmed =>
            /\ ~LookupRaises(t)
            /\ LinkEntries(t) # {} => \A r \in Owners(t) : pr[r].status # "broadcast"
       /\ ledger' = ledger \cup NewEntries(t)
  /\ listener' = IdleListener
  /\ UNCHANGED <<pr, attempts, exec, nodeVars, api, poller, calls, faults>>

CompleteExec(e) ==
  IF e # None /\ exec[e] \notin {"completed", "failed"}
  THEN [exec EXCEPT ![e] = "completed"]
  ELSE exec

\* Seeded fault: mempool acceptance promotes a request.
ListenerConfirmUnmined(r, e) ==
  /\ listener.pc = "fetched"
  /\ ~LookupRaises(listener.tx)
  /\ e \in LinkEntries(listener.tx)
  /\ r \in Owners(listener.tx)
  /\ pr[r].status = "broadcast"
  /\ ledger' = ledger \cup NewEntries(listener.tx)
  /\ pr' = [pr EXCEPT ![r].status = "confirmed", ![r].entry = e]
  /\ exec' = CompleteExec(pr[r].exec)
  /\ listener' = IdleListener
  /\ UNCHANGED <<attempts, nodeVars, api, poller, calls, faults>>

\* The database transaction that confirms the payment of request r.
ListenerConfirm(r, e) ==
  /\ listener.pc = "fetched"
  /\ listener.confirmed
  /\ ~LookupRaises(listener.tx)
  /\ e \in LinkEntries(listener.tx)
  /\ r \in Owners(listener.tx)
  /\ pr[r].status = "broadcast"
  /\ ledger' = ledger \cup NewEntries(listener.tx)
  /\ pr' = [pr EXCEPT ![r].status = "confirmed", ![r].entry = e]
  /\ exec' = CompleteExec(pr[r].exec)
  /\ listener' = IdleListener
  /\ UNCHANGED <<attempts, nodeVars, api, poller, calls, faults>>

\* The lookup raises; the read loop logs it and the transaction rolls back.
ListenerRaises ==
  /\ listener.pc = "fetched"
  /\ listener.confirmed
  /\ LookupRaises(listener.tx)
  /\ listener' = IdleListener
  /\ UNCHANGED <<dbVars, nodeVars, api, poller, calls, faults>>

\* A notification that is dropped at the high-water mark, or whose RPC fails.
NotificationLost ==
  /\ notif # <<>>
  /\ notif' = Tail(notif)
  /\ Fault
  /\ UNCHANGED <<dbVars, mempool, mined, api, poller, listener, calls>>

\* Both threads stop, and what waited in the ZMQ socket is gone.
WorkerCrash ==
  /\ Fault
  /\ notif' = <<>>
  /\ poller' = IdlePoller
  /\ listener' = IdleListener
  /\ UNCHANGED <<dbVars, mempool, mined, api, calls>>

-----------------------------------------------------------------------------
ApiNext ==
  \/ \E h \in Holdings, d \in Destinations : BuildCheck(h, d)
  \/ \E r \in Requests : BuildCommit(r) \/ SubmitPsbt(r) \/ BroadcastBegin(r) \/ Cancel(r)
  \/ \E r \in Requests, t \in Txs : SubmitFinalised(r, t)
  \/ BuildFails \/ BroadcastAccepted \/ BroadcastRejected \/ BroadcastLost

PollerNext ==
  \/ \E e \in Execs, h \in Holdings, d \in Holdings : PollerCheck(e, h, d)
  \/ \E e \in Execs, h \in Holdings : PollerRefused(e, h)
  \/ \E e \in Execs : PollerDryRun(e)
  \/ \E r \in Requests : PollerCommit(r)
  \/ PollerBuildFails

NodeNext == NodeAccepts \/ NodeRejects \/ \E t \in Txs : Mine(t) \/ Evict(t)

ListenerTx == ListenerRecord \/ ListenerRaises
              \/ \E r \in Requests, e \in Entries : ListenerConfirm(r, e)

ListenerNext == ListenerFetch \/ ListenerFetchNoHeader \/ ListenerSkip \/ ListenerTx
                \/ NotificationLost \/ WorkerCrash

Next == ApiNext \/ PollerNext \/ NodeNext \/ ListenerNext

\* The read loop takes the next notification whenever there is one and
\* finishes what it took; the backend finishes the handler it runs.
Fairness ==
  /\ WF_vars(ListenerFetch \/ ListenerSkip)
  /\ WF_vars(ListenerTx)
  /\ WF_vars(BroadcastAccepted \/ BroadcastRejected)

Spec     == Init /\ [][Next]_vars
FairSpec == Spec /\ Fairness

-----------------------------------------------------------------------------
(***************************************************************************)
(* Properties.                                                             *)
(***************************************************************************)
ApiState == [pc      : {"idle", "building", "sending", "accepted", "rejected"},
             req     : Requests \cup {None},
             holding : Holdings \cup {None},
             dest    : Destinations \cup {None}]

PollerState == [pc      : {"idle", "building"},
                exec    : Execs \cup {None},
                holding : Holdings \cup {None},
                dest    : Holdings \cup {None}]

ListenerState == [pc : {"idle", "fetched"}, tx : Txs \cup {None}, confirmed : BOOLEAN]

\* The type invariant: every column, queue and control state holds a value of
\* the kind the code writes to it.
TypeOK ==
  /\ pr \in [Requests -> Row]
  /\ attempts \in [Requests -> Seq({"accepted", "rejected"})]
  /\ exec \in [Execs -> ExecStatus]
  /\ ledger \subseteq Entries
  /\ api \in ApiState
  /\ poller \in PollerState
  /\ listener \in ListenerState
  /\ mempool \subseteq Txs /\ mined \subseteq Txs
  /\ notif \in Seq({"tx", "block"} \X Txs)
  /\ calls \in [Requests -> Nat]
  /\ faults \in Nat

\* What the in-flight check of build_payment_request buys although it is read
\* long before the insert and without a lock: each builder (the backend, the
\* poller) has at most one request in flight per holding.
OneInFlightPerOrigin ==
  \A r, s \in Requests :
    /\ pr[r].status \in InFlightStatus /\ pr[s].status \in InFlightStatus
    /\ pr[r].holding = pr[s].holding /\ pr[r].origin = pr[s].origin
    => r = s

\* A request is CONFIRMED only for the transaction it was signed with, when
\* that transaction is in a block and has the ledger entry the request links.
ConfirmedIsSettled ==
  \A r \in Requests : pr[r].status = "confirmed" =>
    /\ pr[r].txid \in mined
    /\ pr[r].txid = pr[r].signed
    /\ pr[r].entry \in KnownEntries(pr[r].txid)

\* One transaction settles at most one request, although signers may hand the
\* same transaction in for two of them.
OneConfirmedPerTx ==
  \A r, s \in Requests :
    /\ pr[r].status = "confirmed" /\ pr[s].status = "confirmed"
    /\ pr[r].txid = pr[s].txid
    => r = s

Accepted(r) == {i \in DOMAIN attempts[r] : attempts[r][i] = "accepted"}

\* The audit table agrees with the request: an accepted attempt exists exactly
\* when the request was marked broadcast, and there is never a second one.
AcceptedAttemptMatches ==
  \A r \in Requests :
    /\ Accepted(r) # {} <=> pr[r].status \in {"broadcast", "confirmed"}
    /\ ~MoreThanOne(Accepted(r))

\* A call for request r whose outcome is not in the audit table: it is under
\* way, or its answer was lost.
CallOpen(r) == calls[r] > Len(attempts[r])

\* Nothing reaches bitcoind unnoticed: a transaction in the mempool or in a block
\* belongs to a request that is marked broadcast, or to one with a call whose
\* answer was lost (which the user can cancel, although it is under way).
NodeTxIsKnown ==
  \A t \in mempool \cup mined : \E r \in Requests :
    pr[r].signed = t /\ (pr[r].status \in {"broadcast", "confirmed"} \/ CallOpen(r))

Queued(m) == \E i \in DOMAIN notif : notif[i] = m

\* The request is BROADCAST, no other request was signed with its transaction,
\* and the block that holds it has been announced to the listener.
Settling(r) ==
  /\ pr[r].status = "broadcast"
  /\ \A s \in Requests \ {r} : pr[s].signed # pr[r].txid
  /\ Queued(<<"block", pr[r].txid>>)

Settled(r) == pr[r].status = "confirmed"

\* Without faults, the listener confirms a payment that touches one holding
\* once its block was announced to it (chain_listener._handle_block).
PaymentSettles ==
  \A r \in Requests :
    (Settling(r) /\ pr[r].txid = r /\ ~MoreThanOne(Touched(r))) ~> Settled(r)

\* The requests behave as PaymentLifecycle promises: every status is reached
\* along the lifecycle, by whichever process and in whichever order it runs.
Lifecycle == INSTANCE PaymentLifecycle WITH
  Slots  <- Holdings \X {"api", "poller"},
  NoSlot <- <<None, None>>,
  NoTx   <- None,
  status <- [r \in Requests |-> pr[r].status],
  slot   <- [r \in Requests |-> <<pr[r].holding, pr[r].origin>>],
  tx     <- [r \in Requests |-> pr[r].txid]

ImplementsLifecycle == Lifecycle!Spec

-----------------------------------------------------------------------------
(***************************************************************************)
(* What the repository's text says and the code does not do.  No run has   *)
(* these: TLC refutes each of them on the instance of the passing run.     *)
(***************************************************************************)

\* "Only one in-flight PaymentRequest per Holding at a time"
\* (payment_request.has_in_flight_for_holding).
OneInFlight ==
  \A r, s \in Requests :
    /\ pr[r].status \in InFlightStatus /\ pr[s].status \in InFlightStatus
    /\ pr[r].holding = pr[s].holding
    => r = s

\* "If this PaymentRequest was created by the SweepEngine, complete the linked
\* SweepExecution now" (_link_payment_request_if_any).
SweepPaymentCompletesExec ==
  \A r \in Requests : pr[r].origin = "poller" /\ pr[r].status = "confirmed" =>
    pr[r].exec # None /\ exec[pr[r].exec] = "completed"
=============================================================================
