--------------------------- MODULE PaymentsProofs ---------------------------
(***************************************************************************)
(* Proofs about Payments for every set of holdings, requests, executions   *)
(* and foreign transactions, every bound, and both values of Autoflush.    *)
(***************************************************************************)
EXTENDS Payments, TLAPS

(***************************************************************************)
(* The inductive invariant.  The properties alone are not inductive: a     *)
(* commit acts on what its process read earlier, so the invariant says     *)
(* what each process may still rely on when it commits.                    *)
(***************************************************************************)

\* A builder's check is still true, for its own origin, when it inserts: the
\* backend runs one handler at a time and the poller is one thread.
BuilderSafe(o, pc, h) ==
  pc = "building" =>
    /\ h \in Holdings
    /\ \A r \in Requests : pr[r].origin = o /\ pr[r].holding = h =>
         pr[r].status \notin InFlightStatus

\* While a handler waits for bitcoind its request stays in AWAITING_BROADCAST.
SendingSafe ==
  api.pc \in {"sending", "accepted", "rejected"} =>
    /\ api.req \in Requests
    /\ pr[api.req].status = "awaiting_broadcast"

\* What is known of a row from its status.
RowSafe ==
  \A r \in Requests :
    /\ pr[r].status \in {"awaiting_broadcast", "broadcast", "confirmed"} => pr[r].signed \in Txs
    /\ pr[r].status \in {"broadcast", "confirmed"} => pr[r].txid = pr[r].signed
    /\ pr[r].txid # None => pr[r].status \in {"broadcast", "confirmed"}

\* What the listener fetched is still true when it commits: there are no reorgs.
ListenerSafe ==
  listener.pc = "fetched" =>
    /\ listener.tx \in Txs
    /\ listener.confirmed => listener.tx \in mined

PollerHasExec == poller.pc = "building" => poller.exec \in Execs

IInv ==
  /\ TypeOK
  /\ BuilderSafe("api", api.pc, api.holding)
  /\ BuilderSafe("poller", poller.pc, poller.holding)
  /\ PollerHasExec
  /\ SendingSafe
  /\ RowSafe
  /\ ListenerSafe
  /\ OneInFlightPerOrigin
  /\ ConfirmedIsSettled
  /\ OneConfirmedPerTx
  /\ AcceptedAttemptMatches

-----------------------------------------------------------------------------
LEMMA InitIInv == Init => IInv
<1> SUFFICES ASSUME Init PROVE IInv
  OBVIOUS
<1> USE PaymentsAssumption DEF Init, NoRow, IdleApi, IdlePoller, IdleListener
<1>1. TypeOK
  BY DEF TypeOK, Row, Status, InFlightStatus, ExecStatus, ApiState, PollerState, ListenerState,
         Destinations, Txs, Entries
<1>2. BuilderSafe("api", api.pc, api.holding) /\ BuilderSafe("poller", poller.pc, poller.holding)
  BY DEF BuilderSafe
<1>3. PollerHasExec /\ SendingSafe /\ RowSafe /\ ListenerSafe
  BY DEF PollerHasExec, SendingSafe, RowSafe, ListenerSafe
<1>4. OneInFlightPerOrigin /\ ConfirmedIsSettled /\ OneConfirmedPerTx
  BY DEF OneInFlightPerOrigin, ConfirmedIsSettled, OneConfirmedPerTx, InFlightStatus
<1>5. AcceptedAttemptMatches
  BY DEF AcceptedAttemptMatches, Accepted, MoreThanOne
<1> QED BY <1>1, <1>2, <1>3, <1>4, <1>5 DEF IInv

-----------------------------------------------------------------------------
(***************************************************************************)
(* Row updates.  The facts that the actions share.                         *)
(***************************************************************************)
LEMMA NewRowFields ==
  ASSUME NEW h \in Holdings, NEW d \in Destinations \cup {None}, NEW o \in {"api", "poller"},
         NEW e \in Execs \cup {None}
  PROVE  /\ NewRow(h, d, o, e) \in Row
         /\ NewRow(h, d, o, e).status = "awaiting_signature"
         /\ NewRow(h, d, o, e).holding = h
         /\ NewRow(h, d, o, e).origin = o
         /\ NewRow(h, d, o, e).signed = None
         /\ NewRow(h, d, o, e).txid = None
         /\ NewRow(h, d, o, e).exec = e
BY DEF NewRow, NoRow, Row, Status, InFlightStatus

\* A request that becomes in flight, or stays so, keeps the rows of its origin
\* apart when its slot is free of others.
LEMMA InsertIInv ==
  ASSUME IInv, NEW r \in Requests, NEW h \in Holdings, NEW d \in Destinations \cup {None},
         NEW o \in {"api", "poller"}, NEW e \in Execs \cup {None},
         pr[r].status = "none",
         BuilderSafe(o, "building", h),
         pr' = [pr EXCEPT ![r] = NewRow(h, d, o, e)],
         UNCHANGED <<attempts, ledger, nodeVars, listener, calls, faults>>
  PROVE  /\ pr' \in [Requests -> Row]
         /\ RowSafe' /\ OneInFlightPerOrigin' /\ ConfirmedIsSettled' /\ OneConfirmedPerTx'
         /\ ListenerSafe' /\ AcceptedAttemptMatches'
         /\ \A s \in Requests : s # r => pr'[s] = pr[s]
         /\ pr'[r].origin = o /\ pr'[r].status = "awaiting_signature"
<1> DEFINE n == NewRow(h, d, o, e)
<1>1. pr \in [Requests -> Row]
  BY DEF IInv, TypeOK
<1>2. /\ n \in Row /\ n.status = "awaiting_signature" /\ n.holding = h /\ n.origin = o
      /\ n.signed = None /\ n.txid = None
  BY NewRowFields
<1> HIDE DEF n
<1>3. pr' \in [Requests -> Row] /\ pr'[r] = n /\ \A s \in Requests : s # r => pr'[s] = pr[s]
  BY <1>1, <1>2 DEF n
<1>4. RowSafe'
  BY <1>2, <1>3, PaymentsAssumption DEF IInv, RowSafe, Txs
<1>5. OneInFlightPerOrigin'
  BY <1>2, <1>3 DEF IInv, OneInFlightPerOrigin, BuilderSafe
<1>6. ConfirmedIsSettled'
  BY <1>2, <1>3 DEF IInv, ConfirmedIsSettled, KnownEntries, nodeVars
<1>7. OneConfirmedPerTx'
  BY <1>2, <1>3 DEF IInv, OneConfirmedPerTx
<1>8. ListenerSafe'
  BY DEF IInv, ListenerSafe, nodeVars
<1>9. AcceptedAttemptMatches'
  BY <1>2, <1>3 DEF IInv, AcceptedAttemptMatches, Accepted, MoreThanOne
<1> QED BY <1>2, <1>3, <1>4, <1>5, <1>6, <1>7, <1>8, <1>9

\* An update of one row that takes it forward along the lifecycle and neither
\* moves it to another holding nor confirms it.
LEMMA AdvanceIInv ==
  ASSUME IInv, NEW r \in Requests, pr' \in [Requests -> Row],
         \A s \in Requests : s # r => pr'[s] = pr[s],
         pr'[r].holding = pr[r].holding, pr'[r].origin = pr[r].origin,
         pr[r].status \in InFlightStatus,
         pr'[r].status # "confirmed",
         UNCHANGED <<ledger, mined>>
  PROVE  /\ OneInFlightPerOrigin' /\ ConfirmedIsSettled' /\ OneConfirmedPerTx'
         /\ \A o, pc, h : BuilderSafe(o, pc, h) => BuilderSafe(o, pc, h)'
<1>1. OneInFlightPerOrigin'
  BY DEF IInv, OneInFlightPerOrigin
<1>2. ConfirmedIsSettled'
  BY DEF IInv, ConfirmedIsSettled, KnownEntries
<1>3. OneConfirmedPerTx'
  BY DEF IInv, OneConfirmedPerTx
<1>4. ASSUME NEW o, NEW pc, NEW h, BuilderSafe(o, pc, h) PROVE BuilderSafe(o, pc, h)'
  BY <1>4 DEF BuilderSafe
<1> QED BY <1>1, <1>2, <1>3, <1>4

-----------------------------------------------------------------------------
(***************************************************************************)
(* The backend's actions.                                                  *)
(***************************************************************************)

\* Steps that leave the payment_request and ledger tables and the chain alone
\* keep the properties of the rows.
LEMMA RowsUntouched ==
  ASSUME IInv, UNCHANGED <<pr, ledger, mined>>
  PROVE  /\ RowSafe' /\ OneInFlightPerOrigin' /\ ConfirmedIsSettled' /\ OneConfirmedPerTx'
         /\ attempts' = attempts => AcceptedAttemptMatches'
         /\ \A o, pc, h : BuilderSafe(o, pc, h) => BuilderSafe(o, pc, h)'
<1>1. RowSafe' /\ OneInFlightPerOrigin' /\ OneConfirmedPerTx'
  BY DEF IInv, RowSafe, OneInFlightPerOrigin, OneConfirmedPerTx
<1>2. ConfirmedIsSettled'
  BY DEF IInv, ConfirmedIsSettled, KnownEntries
<1>3. ASSUME NEW o, NEW pc, NEW h, BuilderSafe(o, pc, h) PROVE BuilderSafe(o, pc, h)'
  BY <1>3 DEF BuilderSafe
<1>4. ASSUME attempts' = attempts PROVE AcceptedAttemptMatches'
  BY <1>4 DEF IInv, AcceptedAttemptMatches, Accepted, MoreThanOne
<1> QED BY <1>1, <1>2, <1>3, <1>4

LEMMA BuildCheckIInv ==
  ASSUME IInv, NEW h \in Holdings, NEW d \in Destinations, BuildCheck(h, d)
  PROVE  IInv'
<1> USE DEF BuildCheck, dbVars, nodeVars
<1>1. TypeOK'
  BY DEF IInv, TypeOK, ApiState
<1>2. api'.pc = "building" /\ api'.holding = h
  BY DEF IInv, TypeOK, ApiState
<1>3. BuilderSafe("api", api.pc, api.holding)'
  BY <1>2 DEF BuilderSafe, InFlight
<1>4. SendingSafe' /\ PollerHasExec' /\ ListenerSafe'
  BY <1>2 DEF IInv, SendingSafe, PollerHasExec, ListenerSafe
<1>5. BuilderSafe("poller", poller.pc, poller.holding)'
  BY DEF IInv, BuilderSafe
<1> QED BY <1>1, <1>3, <1>4, <1>5, RowsUntouched DEF IInv

LEMMA BuildCommitIInv ==
  ASSUME IInv, NEW r \in Requests, BuildCommit(r)
  PROVE  IInv'
<1> DEFINE h == api.holding
           d == api.dest
<1>1. /\ h \in Holdings /\ d \in Destinations \cup {None} /\ BuilderSafe("api", "building", h)
      /\ pr' = [pr EXCEPT ![r] = NewRow(h, d, "api", None)] /\ pr[r].status = "none"
  BY DEF IInv, BuildCommit, BuilderSafe, TypeOK, ApiState
<1> HIDE DEF h, d
<1>2. UNCHANGED <<attempts, exec, ledger, nodeVars, poller, listener, calls, faults>>
  BY DEF BuildCommit
<1>3. /\ pr' \in [Requests -> Row] /\ AcceptedAttemptMatches'
      /\ RowSafe' /\ OneInFlightPerOrigin' /\ ConfirmedIsSettled' /\ OneConfirmedPerTx'
      /\ ListenerSafe'
      /\ \A s \in Requests : s # r => pr'[s] = pr[s]
      /\ pr'[r].origin = "api"
  BY <1>1, <1>2, InsertIInv
<1>4. api' = IdleApi
  BY DEF BuildCommit
<1>5. TypeOK'
  BY <1>2, <1>3, <1>4 DEF IInv, TypeOK, nodeVars, IdleApi, ApiState
<1>6. BuilderSafe("api", api.pc, api.holding)' /\ SendingSafe'
  BY <1>4 DEF BuilderSafe, SendingSafe, IdleApi
<1>7. BuilderSafe("poller", poller.pc, poller.holding)' /\ PollerHasExec'
  BY <1>2, <1>3 DEF IInv, BuilderSafe, PollerHasExec
<1> QED BY <1>3, <1>5, <1>6, <1>7 DEF IInv

LEMMA BuildFailsIInv ==
  ASSUME IInv, BuildFails
  PROVE  IInv'
<1> USE DEF BuildFails, dbVars, nodeVars, IdleApi
<1>1. TypeOK'
  BY DEF IInv, TypeOK, ApiState
<1>2. BuilderSafe("api", api.pc, api.holding)' /\ SendingSafe'
  BY DEF BuilderSafe, SendingSafe
<1>3. BuilderSafe("poller", poller.pc, poller.holding)' /\ PollerHasExec' /\ ListenerSafe'
  BY DEF IInv, BuilderSafe, PollerHasExec, ListenerSafe
<1> QED BY <1>1, <1>2, <1>3, RowsUntouched DEF IInv

LEMMA MarkSignedIInv ==
  ASSUME IInv, NEW r \in Requests, NEW t \in Txs, MarkSigned(r, t)
  PROVE  IInv'
<1>1. /\ pr[r] \in Row /\ pr[r].status = "awaiting_signature"
      /\ pr' = [pr EXCEPT ![r] = [pr[r] EXCEPT !.signed = t, !.status = "awaiting_broadcast"]]
  BY DEF IInv, TypeOK, MarkSigned
<1>2. /\ pr' \in [Requests -> Row] /\ \A s \in Requests : s # r => pr'[s] = pr[s]
      /\ pr'[r].holding = pr[r].holding /\ pr'[r].origin = pr[r].origin
      /\ pr'[r].status = "awaiting_broadcast" /\ pr'[r].signed = t /\ pr'[r].txid = pr[r].txid
  BY <1>1 DEF IInv, TypeOK, Row, Status, InFlightStatus
<1>3. UNCHANGED <<attempts, exec, ledger, nodeVars, api, poller, listener, calls, faults>>
      /\ api.pc = "idle"
  BY DEF MarkSigned
<1>4. /\ OneInFlightPerOrigin' /\ ConfirmedIsSettled' /\ OneConfirmedPerTx'
      /\ \A o, pc, h : BuilderSafe(o, pc, h) => BuilderSafe(o, pc, h)'
  BY <1>1, <1>2, <1>3, AdvanceIInv DEF InFlightStatus, nodeVars
<1>5. TypeOK'
  BY <1>2, <1>3 DEF IInv, TypeOK, nodeVars
<1>6. RowSafe'
  BY <1>1, <1>2 DEF IInv, RowSafe
<1>7. SendingSafe' /\ PollerHasExec' /\ ListenerSafe'
  BY <1>3 DEF IInv, SendingSafe, PollerHasExec, ListenerSafe, nodeVars
<1>8. AcceptedAttemptMatches'
  BY <1>1, <1>2, <1>3 DEF IInv, AcceptedAttemptMatches, Accepted, MoreThanOne
<1>9. BuilderSafe("api", api.pc, api.holding)' /\ BuilderSafe("poller", poller.pc, poller.holding)'
  BY <1>3, <1>4 DEF IInv, BuilderSafe
<1> QED BY <1>4, <1>5, <1>6, <1>7, <1>8, <1>9 DEF IInv

LEMMA CancelIInv ==
  ASSUME IInv, NEW r \in Requests, Cancel(r)
  PROVE  IInv'
<1>1. /\ pr[r] \in Row /\ pr[r].status \in CancellableStatus
      /\ pr' = [pr EXCEPT ![r] = [pr[r] EXCEPT !.status = "cancelled"]]
  BY DEF IInv, TypeOK, Cancel
<1>2. /\ pr' \in [Requests -> Row] /\ \A s \in Requests : s # r => pr'[s] = pr[s]
      /\ pr'[r].holding = pr[r].holding /\ pr'[r].origin = pr[r].origin
      /\ pr'[r].status = "cancelled" /\ pr'[r].txid = pr[r].txid
  BY <1>1 DEF IInv, TypeOK, Row, Status, InFlightStatus
<1>3. UNCHANGED <<attempts, exec, ledger, nodeVars, api, poller, listener, calls, faults>>
      /\ api.pc = "idle"
  BY DEF Cancel
<1>4. /\ OneInFlightPerOrigin' /\ ConfirmedIsSettled' /\ OneConfirmedPerTx'
      /\ \A o, pc, h : BuilderSafe(o, pc, h) => BuilderSafe(o, pc, h)'
  BY <1>1, <1>2, <1>3, AdvanceIInv DEF InFlightStatus, CancellableStatus, nodeVars
<1>5. TypeOK'
  BY <1>2, <1>3 DEF IInv, TypeOK, nodeVars
<1>6. RowSafe'
  BY <1>1, <1>2 DEF IInv, RowSafe, CancellableStatus
<1>7. SendingSafe' /\ PollerHasExec' /\ ListenerSafe'
  BY <1>3 DEF IInv, SendingSafe, PollerHasExec, ListenerSafe, nodeVars
<1>8. AcceptedAttemptMatches'
  BY <1>1, <1>2, <1>3 DEF IInv, AcceptedAttemptMatches, Accepted, MoreThanOne, CancellableStatus
<1>9. BuilderSafe("api", api.pc, api.holding)' /\ BuilderSafe("poller", poller.pc, poller.holding)'
  BY <1>3, <1>4 DEF IInv, BuilderSafe
<1> QED BY <1>4, <1>5, <1>6, <1>7, <1>8, <1>9 DEF IInv

LEMMA BroadcastBeginIInv ==
  ASSUME IInv, NEW r \in Requests, BroadcastBegin(r)
  PROVE  IInv'
<1> USE DEF BroadcastBegin, dbVars, nodeVars
<1>1. api' \in ApiState /\ api'.pc = "sending" /\ api'.req = r
  BY DEF IInv, TypeOK, ApiState
<1>2. TypeOK'
  BY <1>1 DEF IInv, TypeOK
<1>3. SendingSafe' /\ BuilderSafe("api", api.pc, api.holding)'
  BY <1>1 DEF SendingSafe, BuilderSafe
<1>4. BuilderSafe("poller", poller.pc, poller.holding)' /\ PollerHasExec' /\ ListenerSafe'
  BY DEF IInv, BuilderSafe, PollerHasExec, ListenerSafe
<1> QED BY <1>2, <1>3, <1>4, RowsUntouched DEF IInv

LEMMA BroadcastAcceptedIInv ==
  ASSUME IInv, BroadcastAccepted
  PROVE  IInv'
<1>1. PICK r \in Requests : r = api.req /\ pr[r].status = "awaiting_broadcast"
  BY DEF IInv, BroadcastAccepted, SendingSafe
<1>2. /\ pr[r] \in Row /\ pr[r].signed \in Txs
      /\ pr' = [pr EXCEPT ![r] = [pr[r] EXCEPT !.txid = pr[r].signed, !.status = "broadcast"]]
      /\ attempts' = [attempts EXCEPT ![r] = Append(attempts[r], "accepted")]
  BY <1>1 DEF IInv, TypeOK, BroadcastAccepted, RowSafe
<1>3. UNCHANGED <<exec, ledger, nodeVars, poller, listener, calls, faults>> /\ api' = IdleApi
  BY DEF BroadcastAccepted
<1>4. /\ pr' \in [Requests -> Row] /\ \A s \in Requests : s # r => pr'[s] = pr[s]
      /\ pr'[r].holding = pr[r].holding /\ pr'[r].origin = pr[r].origin
      /\ pr'[r].status = "broadcast" /\ pr'[r].txid = pr[r].signed /\ pr'[r].signed = pr[r].signed
  BY <1>1, <1>2 DEF IInv, TypeOK, Row, Status, InFlightStatus
<1>5. /\ OneInFlightPerOrigin' /\ ConfirmedIsSettled' /\ OneConfirmedPerTx'
      /\ \A o, pc, h : BuilderSafe(o, pc, h) => BuilderSafe(o, pc, h)'
  BY <1>1, <1>2, <1>3, <1>4, AdvanceIInv DEF InFlightStatus, nodeVars
<1>6. attempts' \in [Requests -> Seq({"accepted", "rejected"})]
  BY <1>1, <1>2 DEF IInv, TypeOK
<1>7. TypeOK'
  BY <1>3, <1>4, <1>6 DEF IInv, TypeOK, nodeVars, IdleApi, ApiState
<1>8. RowSafe'
  BY <1>1, <1>2, <1>4 DEF IInv, RowSafe
<1>9. SendingSafe' /\ PollerHasExec' /\ ListenerSafe' /\ BuilderSafe("api", api.pc, api.holding)'
  BY <1>3 DEF IInv, SendingSafe, PollerHasExec, ListenerSafe, nodeVars, IdleApi, BuilderSafe
<1>10. BuilderSafe("poller", poller.pc, poller.holding)'
  BY <1>3, <1>5 DEF IInv, BuilderSafe
<1>11. AcceptedAttemptMatches'
  <2>1. attempts[r] \in Seq({"accepted", "rejected"}) /\ Accepted(r) = {}
    BY <1>1 DEF IInv, TypeOK, AcceptedAttemptMatches
  <2>2. \A i \in 1..Len(attempts[r]) : attempts[r][i] # "accepted"
    BY <2>1 DEF Accepted
  <2>3. attempts'[r] = Append(attempts[r], "accepted")
    BY <1>1, <1>2 DEF IInv, TypeOK
  <2>4. Accepted(r)' = {Len(attempts[r]) + 1}
    BY <2>1, <2>2, <2>3 DEF Accepted
  <2>5. ASSUME NEW s \in Requests, s # r
        PROVE  Accepted(s)' = Accepted(s) /\ pr'[s].status = pr[s].status
    BY <1>1, <1>2, <1>4, <2>5 DEF Accepted, IInv, TypeOK
  <2>6. Accepted(r)' # {} /\ ~MoreThanOne(Accepted(r))'
    BY <2>4 DEF MoreThanOne
  <2>7. ASSUME NEW s \in Requests, s # r
        PROVE  /\ Accepted(s)' # {} <=> pr'[s].status \in {"broadcast", "confirmed"}
               /\ ~MoreThanOne(Accepted(s))'
    BY <2>5, <2>7 DEF IInv, AcceptedAttemptMatches, MoreThanOne
  <2> QED BY <1>4, <2>6, <2>7 DEF AcceptedAttemptMatches
<1> QED BY <1>5, <1>7, <1>8, <1>9, <1>10, <1>11 DEF IInv

LEMMA BroadcastRejectedIInv ==
  ASSUME IInv, BroadcastRejected
  PROVE  IInv'
<1> USE DEF BroadcastRejected, nodeVars, IdleApi
<1>1. PICK r \in Requests : /\ attempts[r] \in Seq({"accepted", "rejected"})
                           /\ attempts' = [attempts EXCEPT ![r] = Append(attempts[r], "rejected")]
  BY DEF IInv, SendingSafe, TypeOK
<1>2. TypeOK'
  BY <1>1 DEF IInv, TypeOK, ApiState
<1>3. SendingSafe' /\ BuilderSafe("api", api.pc, api.holding)'
  BY DEF SendingSafe, BuilderSafe
<1>4. BuilderSafe("poller", poller.pc, poller.holding)' /\ PollerHasExec' /\ ListenerSafe'
  BY DEF IInv, BuilderSafe, PollerHasExec, ListenerSafe
<1>5. AcceptedAttemptMatches'
  <2>1. ASSUME NEW s \in Requests PROVE Accepted(s)' = Accepted(s)
    <3>1. CASE s = r
      <4>1. attempts'[r] = Append(attempts[r], "rejected")
        BY <1>1 DEF IInv, TypeOK
      <4> QED BY <1>1, <3>1, <4>1 DEF Accepted
    <3>2. CASE s # r
      BY <1>1, <3>2 DEF Accepted, IInv, TypeOK
    <3> QED BY <3>1, <3>2
  <2> QED BY <2>1 DEF IInv, AcceptedAttemptMatches, MoreThanOne
<1> QED BY <1>2, <1>3, <1>4, <1>5, RowsUntouched DEF IInv

LEMMA BroadcastLostIInv ==
  ASSUME IInv, BroadcastLost
  PROVE  IInv'
<1> USE DEF BroadcastLost, dbVars, nodeVars, IdleApi, Fault
<1>1. TypeOK'
  BY DEF IInv, TypeOK, ApiState
<1>2. BuilderSafe("api", api.pc, api.holding)' /\ SendingSafe'
  BY DEF BuilderSafe, SendingSafe
<1>3. BuilderSafe("poller", poller.pc, poller.holding)' /\ PollerHasExec' /\ ListenerSafe'
  BY DEF IInv, BuilderSafe, PollerHasExec, ListenerSafe
<1> QED BY <1>1, <1>2, <1>3, RowsUntouched DEF IInv

-----------------------------------------------------------------------------
(***************************************************************************)
(* The poller's actions.                                                   *)
(***************************************************************************)
LEMMA PollerCheckIInv ==
  ASSUME IInv, NEW e \in Execs, NEW h \in Holdings, NEW d \in Holdings, PollerCheck(e, h, d)
  PROVE  IInv'
<1> USE DEF PollerCheck, dbVars, nodeVars
<1>1. TypeOK' /\ PollerHasExec'
  BY DEF IInv, TypeOK, PollerState, PollerHasExec
<1>2. BuilderSafe("poller", poller.pc, poller.holding)'
  BY DEF BuilderSafe, InFlight
<1>3. BuilderSafe("api", api.pc, api.holding)' /\ SendingSafe' /\ ListenerSafe'
  BY DEF IInv, BuilderSafe, SendingSafe, ListenerSafe
<1> QED BY <1>1, <1>2, <1>3, RowsUntouched DEF IInv

\* Refusals, failed builds and dry runs change an execution, and the poller's
\* own state at most.
LEMMA PollerEndsIInv ==
  ASSUME IInv, NEW e \in Execs, NEW x \in ExecStatus, exec' = [exec EXCEPT ![e] = x],
         poller' \in {poller, IdlePoller},
         UNCHANGED <<pr, attempts, ledger, nodeVars, api, listener, calls, faults>>
  PROVE  IInv'
<1> USE DEF nodeVars, IdlePoller
<1>1. TypeOK'
  BY DEF IInv, TypeOK, PollerState
<1>2. BuilderSafe("poller", poller.pc, poller.holding)' /\ PollerHasExec'
  BY DEF IInv, BuilderSafe, PollerHasExec
<1>3. BuilderSafe("api", api.pc, api.holding)' /\ SendingSafe' /\ ListenerSafe'
  BY DEF IInv, BuilderSafe, SendingSafe, ListenerSafe
<1> QED BY <1>1, <1>2, <1>3, RowsUntouched DEF IInv

LEMMA PollerRefusedIInv ==
  ASSUME IInv, NEW e \in Execs, NEW h \in Holdings, PollerRefused(e, h)
  PROVE  IInv'
<1>1. UpdatePending("failed", "open") \in ExecStatus
  BY DEF UpdatePending, ExecStatus
<1> QED BY <1>1, PollerEndsIInv DEF PollerRefused

LEMMA PollerBuildFailsIInv ==
  ASSUME IInv, PollerBuildFails
  PROVE  IInv'
<1>1. UpdatePending("failed", "open") \in ExecStatus /\ poller.exec \in Execs
  BY DEF UpdatePending, ExecStatus, IInv, PollerHasExec, PollerBuildFails
<1> QED BY <1>1, PollerEndsIInv DEF PollerBuildFails

LEMMA PollerDryRunIInv ==
  ASSUME IInv, NEW e \in Execs, PollerDryRun(e)
  PROVE  IInv'
<1>1. UpdatePending("completed", "open") \in ExecStatus
  BY DEF UpdatePending, ExecStatus
<1> QED BY <1>1, PollerEndsIInv DEF PollerDryRun

LEMMA PollerCommitIInv ==
  ASSUME IInv, NEW r \in Requests, PollerCommit(r)
  PROVE  IInv'
<1> DEFINE h == poller.holding
           d == poller.dest
           e == UpdatePending(poller.exec, None)
<1>1. /\ h \in Holdings /\ d \in Destinations \cup {None} /\ BuilderSafe("poller", "building", h)
      /\ e \in Execs \cup {None}
      /\ pr' = [pr EXCEPT ![r] = NewRow(h, d, "poller", e)] /\ pr[r].status = "none"
  BY DEF IInv, PollerCommit, BuilderSafe, TypeOK, PollerState, UpdatePending, Destinations
<1> HIDE DEF h, d, e
<1>2. UNCHANGED <<attempts, ledger, nodeVars, api, listener, calls, faults>>
  BY DEF PollerCommit
<1>3. /\ pr' \in [Requests -> Row] /\ AcceptedAttemptMatches'
      /\ RowSafe' /\ OneInFlightPerOrigin' /\ ConfirmedIsSettled' /\ OneConfirmedPerTx'
      /\ ListenerSafe'
      /\ \A s \in Requests : s # r => pr'[s] = pr[s]
      /\ pr'[r].origin = "poller"
  BY <1>1, <1>2, InsertIInv
<1>4. poller' = IdlePoller /\ exec' = [exec EXCEPT ![poller.exec] = "open"]
  BY DEF PollerCommit
<1>5. TypeOK'
  BY <1>2, <1>3, <1>4 DEF IInv, TypeOK, nodeVars, IdlePoller, PollerState, ExecStatus
<1>6. BuilderSafe("poller", poller.pc, poller.holding)' /\ PollerHasExec'
  BY <1>4 DEF BuilderSafe, PollerHasExec, IdlePoller
<1>7. BuilderSafe("api", api.pc, api.holding)' /\ SendingSafe'
  BY <1>1, <1>2, <1>3 DEF IInv, BuilderSafe, SendingSafe
<1> QED BY <1>3, <1>5, <1>6, <1>7 DEF IInv

-----------------------------------------------------------------------------
(***************************************************************************)
(* bitcoind's actions.                                                     *)
(***************************************************************************)

\* bitcoind's pool and notifications matter to the type invariant alone, and
\* what it mined stays mined.
LEMMA NodeIInv ==
  ASSUME IInv, UNCHANGED <<pr, attempts, exec, ledger, poller, listener, calls, faults>>,
         api' \in ApiState, api'.holding = api.holding, api'.req = api.req,
         api' = api \/ (api.pc = "sending" /\ api'.pc \in {"accepted", "rejected"}),
         mempool' \subseteq Txs, mined' \subseteq Txs, mined \subseteq mined',
         notif' \in Seq({"tx", "block"} \X Txs)
  PROVE  IInv'
<1>1. TypeOK'
  BY DEF IInv, TypeOK
<1>2. BuilderSafe("api", api.pc, api.holding)' /\ SendingSafe'
  BY DEF IInv, BuilderSafe, SendingSafe
<1>3. BuilderSafe("poller", poller.pc, poller.holding)' /\ PollerHasExec' /\ ListenerSafe'
  BY DEF IInv, BuilderSafe, PollerHasExec, ListenerSafe
<1>4. RowSafe' /\ OneInFlightPerOrigin' /\ OneConfirmedPerTx'
  BY DEF IInv, RowSafe, OneInFlightPerOrigin, OneConfirmedPerTx
<1>5. ConfirmedIsSettled' /\ AcceptedAttemptMatches'
  BY DEF IInv, ConfirmedIsSettled, KnownEntries, AcceptedAttemptMatches, Accepted, MoreThanOne
<1> QED BY <1>1, <1>2, <1>3, <1>4, <1>5 DEF IInv

LEMMA NodeAcceptsIInv ==
  ASSUME IInv, NodeAccepts
  PROVE  IInv'
<1>1. pr[api.req].signed \in Txs
  BY DEF IInv, NodeAccepts, SendingSafe, RowSafe
<1>2. /\ api' \in ApiState /\ api'.holding = api.holding /\ api'.req = api.req
      /\ api.pc = "sending" /\ api'.pc = "accepted"
  BY DEF IInv, TypeOK, ApiState, NodeAccepts
<1>3. mempool' \subseteq Txs /\ mined' = mined /\ mined \subseteq Txs
  BY <1>1 DEF IInv, TypeOK, NodeAccepts
<1>4. notif' \in Seq({"tx", "block"} \X Txs)
  <2> DEFINE m == <<"tx", pr[api.req].signed>>
  <2>1. m \in {"tx", "block"} \X Txs /\ notif \in Seq({"tx", "block"} \X Txs)
    BY <1>1 DEF IInv, TypeOK
  <2>2. notif' = notif \/ notif' = Append(notif, m)
    BY DEF NodeAccepts
  <2> HIDE DEF m
  <2> QED BY <2>1, <2>2
<1>5. UNCHANGED <<pr, attempts, exec, ledger, poller, listener, calls, faults>>
  BY DEF NodeAccepts, dbVars
<1> QED BY <1>2, <1>3, <1>4, <1>5, NodeIInv

LEMMA NodeRejectsIInv ==
  ASSUME IInv, NodeRejects
  PROVE  IInv'
<1>1. /\ api' \in ApiState /\ api'.holding = api.holding /\ api'.req = api.req
      /\ api.pc = "sending" /\ api'.pc = "rejected"
  BY DEF IInv, TypeOK, ApiState, NodeRejects
<1>2. /\ UNCHANGED <<pr, attempts, exec, ledger, poller, listener, calls, faults>>
      /\ UNCHANGED <<mempool, mined, notif>>
  BY DEF NodeRejects, dbVars, nodeVars
<1> QED BY <1>1, <1>2, NodeIInv DEF IInv, TypeOK

LEMMA MineIInv ==
  ASSUME IInv, NEW t \in Txs, Mine(t)
  PROVE  IInv'
<1>1. << <<"tx", t>>, <<"block", t>> >> \in Seq({"tx", "block"} \X Txs)
  OBVIOUS
<1>2. notif' \in Seq({"tx", "block"} \X Txs)
  <2> DEFINE M == {"tx", "block"} \X Txs
             new == << <<"tx", t>>, <<"block", t>> >>
  <2>1. new \in Seq(M) /\ notif \in Seq(M) /\ notif' = notif \o new
    BY <1>1 DEF IInv, TypeOK, Mine
  <2> HIDE DEF M, new
  <2>2. notif' \in Seq(M)
    BY <2>1
  <2> QED BY <2>2 DEF M
<1>3. mempool' \subseteq Txs /\ mined' \subseteq Txs /\ mined \subseteq mined'
  BY DEF IInv, TypeOK, Mine
<1>4. UNCHANGED <<pr, attempts, exec, ledger, poller, listener, calls, faults, api>>
  BY DEF Mine, dbVars
<1> QED BY <1>2, <1>3, <1>4, NodeIInv DEF IInv, TypeOK

LEMMA EvictIInv ==
  ASSUME IInv, NEW t \in Txs, Evict(t)
  PROVE  IInv'
<1>1. mempool' \subseteq Txs /\ UNCHANGED <<mined, notif>>
  BY DEF IInv, TypeOK, Evict
<1>2. UNCHANGED <<pr, attempts, exec, ledger, poller, listener, calls, faults, api>>
  BY DEF Evict, dbVars
<1> QED BY <1>1, <1>2, NodeIInv DEF IInv, TypeOK

-----------------------------------------------------------------------------
(***************************************************************************)
(* The listener's actions.                                                 *)
(***************************************************************************)
LEMMA TailOK ==
  ASSUME IInv, notif # <<>>
  PROVE  /\ Tail(notif) \in Seq({"tx", "block"} \X Txs)
         /\ Head(notif)[2] \in Txs
<1> DEFINE M == {"tx", "block"} \X Txs
<1>1. notif \in Seq(M)
  BY DEF IInv, TypeOK
<1>2. ASSUME NEW m \in M PROVE m[2] \in Txs
  OBVIOUS
<1> HIDE DEF M
<1>3. Tail(notif) \in Seq(M) /\ Head(notif) \in M
  BY <1>1
<1>4. Head(notif)[2] \in Txs
  BY <1>2, <1>3
<1> QED BY <1>3, <1>4 DEF M

\* Steps of the worker that leave the tables alone.
LEMMA WorkerIInv ==
  ASSUME IInv, UNCHANGED <<pr, attempts, exec, ledger, mempool, mined, api, calls>>,
         notif' \in Seq({"tx", "block"} \X Txs), faults' \in Nat,
         poller' \in {poller, IdlePoller},
         listener' \in ListenerState, ListenerSafe'
  PROVE  IInv'
<1>1. TypeOK'
  BY DEF IInv, TypeOK, PollerState, IdlePoller
<1>2. BuilderSafe("api", api.pc, api.holding)' /\ SendingSafe'
  BY DEF IInv, BuilderSafe, SendingSafe
<1>3. BuilderSafe("poller", poller.pc, poller.holding)' /\ PollerHasExec'
  BY DEF IInv, BuilderSafe, PollerHasExec, IdlePoller
<1> QED BY <1>1, <1>2, <1>3, RowsUntouched DEF IInv

LEMMA IdleListenerOK == IdleListener \in ListenerState /\ IdleListener.pc = "idle"
BY DEF IdleListener, ListenerState

LEMMA ListenerFetchIInv ==
  ASSUME IInv, ListenerFetch
  PROVE  IInv'
<1>1. notif' \in Seq({"tx", "block"} \X Txs) /\ Head(notif)[2] \in Txs
  BY TailOK DEF ListenerFetch
<1> DEFINE t == Head(notif)[2]
           b == t \in mined
<1>2. listener' \in ListenerState /\ ListenerSafe'
  <2>1. b \in BOOLEAN
    OBVIOUS
  <2>2. listener' = [pc |-> "fetched", tx |-> t, confirmed |-> b] /\ mined' = mined /\ t \in Txs
    BY <1>1 DEF ListenerFetch
  <2>3. listener' \in ListenerState
    BY <2>1, <2>2, Zenon DEF ListenerState
  <2>4. listener'.tx = t /\ listener'.confirmed = b
    BY <2>2
  <2>5. ListenerSafe'
    BY <2>2, <2>4 DEF ListenerSafe
  <2> QED BY <2>3, <2>5
<1>3. UNCHANGED <<pr, attempts, exec, ledger, mempool, mined, api, calls, poller, faults>>
  BY DEF ListenerFetch, dbVars
<1> QED BY <1>1, <1>2, <1>3, WorkerIInv DEF IInv, TypeOK

LEMMA ListenerFetchNoHeaderIInv ==
  ASSUME IInv, ListenerFetchNoHeader
  PROVE  IInv'
<1>1. notif' \in Seq({"tx", "block"} \X Txs) /\ Head(notif)[2] \in Txs /\ faults' \in Nat
  BY TailOK DEF ListenerFetchNoHeader, Fault, IInv, TypeOK
<1>2. listener' \in ListenerState /\ ListenerSafe'
  BY <1>1 DEF ListenerFetchNoHeader, ListenerState, ListenerSafe
<1>3. UNCHANGED <<pr, attempts, exec, ledger, mempool, mined, api, calls, poller>>
  BY DEF ListenerFetchNoHeader, dbVars
<1> QED BY <1>1, <1>2, <1>3, WorkerIInv

LEMMA ListenerSkipIInv ==
  ASSUME IInv, ListenerSkip
  PROVE  IInv'
<1>1. notif' \in Seq({"tx", "block"} \X Txs)
  BY TailOK DEF ListenerSkip
<1>2. UNCHANGED <<pr, attempts, exec, ledger, mempool, mined, api, calls, poller, faults, listener>>
  BY DEF ListenerSkip, dbVars
<1>3. listener' \in ListenerState /\ ListenerSafe' /\ faults' \in Nat
  BY <1>1, <1>2 DEF IInv, TypeOK, ListenerSafe
<1> QED BY <1>1, <1>2, <1>3, WorkerIInv

LEMMA ListenerRaisesIInv ==
  ASSUME IInv, ListenerRaises
  PROVE  IInv'
<1>1. UNCHANGED <<pr, attempts, exec, ledger, mempool, mined, notif, api, calls, poller, faults>>
      /\ listener' = IdleListener
  BY DEF ListenerRaises, dbVars, nodeVars
<1>2. listener' \in ListenerState /\ ListenerSafe'
  BY <1>1, IdleListenerOK DEF ListenerSafe
<1> QED BY <1>1, <1>2, WorkerIInv DEF IInv, TypeOK

LEMMA NotificationLostIInv ==
  ASSUME IInv, NotificationLost
  PROVE  IInv'
<1>1. notif' \in Seq({"tx", "block"} \X Txs) /\ faults' \in Nat
  BY TailOK DEF NotificationLost, Fault, IInv, TypeOK
<1>2. UNCHANGED <<pr, attempts, exec, ledger, mempool, mined, api, calls, poller, listener>>
  BY DEF NotificationLost, dbVars
<1>3. listener' \in ListenerState /\ ListenerSafe' /\ faults' \in Nat
  BY <1>1, <1>2 DEF IInv, TypeOK, ListenerSafe
<1> QED BY <1>1, <1>2, <1>3, WorkerIInv

LEMMA WorkerCrashIInv ==
  ASSUME IInv, WorkerCrash
  PROVE  IInv'
<1>1. notif' \in Seq({"tx", "block"} \X Txs) /\ faults' \in Nat
  BY DEF WorkerCrash, Fault, IInv, TypeOK
<1>2. UNCHANGED <<pr, attempts, exec, ledger, mempool, mined, api, calls>>
      /\ poller' = IdlePoller /\ listener' = IdleListener
  BY DEF WorkerCrash, dbVars
<1>3. listener' \in ListenerState /\ ListenerSafe'
  BY <1>2, IdleListenerOK DEF ListenerSafe
<1> QED BY <1>1, <1>2, <1>3, WorkerIInv

\* The entries a transaction brings are entries, and belong to it.
LEMMA NewEntriesOK ==
  ASSUME IInv, NEW t \in Txs
  PROVE  /\ ledger \cup NewEntries(t) \subseteq Entries
         /\ \A e \in LinkEntries(t) : e \in ledger \cup NewEntries(t) /\ e[1] = t
<1>1. Touched(t) \subseteq Holdings
  BY DEF Touched
<1>2. ({t} \X Touched(t)) \subseteq Entries /\ \A e \in {t} \X Touched(t) : e[1] = t
  BY <1>1 DEF Entries
<1> QED BY <1>2 DEF NewEntries, LinkEntries, KnownEntries, IInv, TypeOK

LEMMA ListenerRecordIInv ==
  ASSUME IInv, ListenerRecord
  PROVE  IInv'
<1>1. PICK t \in Txs : ledger' = ledger \cup NewEntries(t)
  BY DEF IInv, ListenerRecord, ListenerSafe
<1>2. ledger' \subseteq Entries
  BY <1>1, NewEntriesOK
<1>3. UNCHANGED <<pr, attempts, exec, nodeVars, api, poller, calls, faults>>
      /\ listener' = IdleListener
  BY DEF ListenerRecord
<1>4. TypeOK' /\ ListenerSafe'
  BY <1>2, <1>3, IdleListenerOK DEF IInv, TypeOK, nodeVars, ListenerSafe
<1>5. BuilderSafe("api", api.pc, api.holding)' /\ SendingSafe'
  BY <1>3 DEF IInv, BuilderSafe, SendingSafe
<1>6. BuilderSafe("poller", poller.pc, poller.holding)' /\ PollerHasExec'
  BY <1>3 DEF IInv, BuilderSafe, PollerHasExec
<1>7. RowSafe' /\ OneInFlightPerOrigin' /\ OneConfirmedPerTx'
  BY <1>3 DEF IInv, RowSafe, OneInFlightPerOrigin, OneConfirmedPerTx
<1>8. ConfirmedIsSettled'
  BY <1>1, <1>3 DEF IInv, ConfirmedIsSettled, KnownEntries, nodeVars
<1>9. AcceptedAttemptMatches'
  BY <1>3 DEF IInv, AcceptedAttemptMatches, Accepted, MoreThanOne
<1> QED BY <1>4, <1>5, <1>6, <1>7, <1>8, <1>9 DEF IInv

\* The owner of a confirmed transaction is the only request that broadcast it.
LEMMA ConfirmsOwner ==
  ASSUME IInv, NEW r \in Requests, NEW e \in Entries, ListenerConfirm(r, e)
  PROVE  \A q \in Requests : pr[q].txid = pr[r].txid => q = r
<1>1. LinkEntries(listener.tx) # {} /\ ~LookupRaises(listener.tx) /\ r \in Owners(listener.tx)
  BY DEF ListenerConfirm
<1>2. ~MoreThanOne(Owners(listener.tx))
  BY <1>1 DEF LookupRaises
<1> QED BY <1>1, <1>2 DEF MoreThanOne, Owners

LEMMA ListenerConfirmIInv ==
  ASSUME IInv, NEW r \in Requests, NEW e \in Entries, ListenerConfirm(r, e)
  PROVE  IInv'
<1>1. PICK t \in Txs : /\ ledger' = ledger \cup NewEntries(t) /\ e \in LinkEntries(t)
                       /\ pr[r].txid = t /\ t \in mined
  BY DEF IInv, ListenerConfirm, ListenerSafe, Owners
<1>2. ledger' \subseteq Entries /\ e \in ledger' /\ e[1] = t
  BY <1>1, NewEntriesOK
<1>3. UNCHANGED <<attempts, nodeVars, api, poller, calls, faults>>
      /\ listener' = IdleListener
  BY DEF ListenerConfirm
<1>4. /\ pr[r] \in Row /\ pr[r].status = "broadcast"
      /\ pr' = [pr EXCEPT ![r] = [pr[r] EXCEPT !.status = "confirmed", !.entry = e]]
  BY DEF IInv, TypeOK, ListenerConfirm
<1>5. /\ pr' \in [Requests -> Row] /\ \A s \in Requests : s # r => pr'[s] = pr[s]
      /\ pr'[r].holding = pr[r].holding /\ pr'[r].origin = pr[r].origin
      /\ pr'[r].status = "confirmed" /\ pr'[r].txid = t /\ pr'[r].signed = pr[r].signed
      /\ pr'[r].entry = e
  BY <1>1, <1>4 DEF IInv, TypeOK, Row, Status, InFlightStatus
<1>6. exec' \in [Execs -> ExecStatus]
  <2>1. exec' = CompleteExec(pr[r].exec) /\ pr[r].exec \in Execs \cup {None}
    BY <1>4 DEF ListenerConfirm, Row
  <2> QED BY <2>1 DEF CompleteExec, IInv, TypeOK, ExecStatus
<1>7. TypeOK' /\ ListenerSafe'
  BY <1>2, <1>3, <1>5, <1>6, IdleListenerOK DEF IInv, TypeOK, nodeVars, ListenerSafe
<1>8. BuilderSafe("api", api.pc, api.holding)' /\ BuilderSafe("poller", poller.pc, poller.holding)'
  BY <1>3, <1>4, <1>5 DEF IInv, BuilderSafe, InFlightStatus
<1>9. SendingSafe' /\ PollerHasExec'
  BY <1>3, <1>4, <1>5 DEF IInv, SendingSafe, PollerHasExec
<1>10. RowSafe'
  BY <1>1, <1>4, <1>5 DEF IInv, RowSafe
<1>11. OneInFlightPerOrigin'
  BY <1>4, <1>5 DEF IInv, OneInFlightPerOrigin, InFlightStatus
<1>12. ConfirmedIsSettled'
  <2>1. pr'[r].txid = pr'[r].signed
    BY <1>1, <1>4, <1>5 DEF IInv, RowSafe
  <2>2. pr'[r].entry \in KnownEntries(pr[r].txid)'
    BY <1>2, <1>5 DEF KnownEntries
  <2> QED BY <1>1, <1>3, <1>5, <2>1, <2>2 DEF IInv, ConfirmedIsSettled, KnownEntries, nodeVars
<1>13. OneConfirmedPerTx'
  BY <1>1, <1>5, ConfirmsOwner DEF IInv, OneConfirmedPerTx
<1>14. AcceptedAttemptMatches'
  BY <1>3, <1>4, <1>5 DEF IInv, AcceptedAttemptMatches, Accepted, MoreThanOne
<1> QED BY <1>7, <1>8, <1>9, <1>10, <1>11, <1>12, <1>13, <1>14 DEF IInv

-----------------------------------------------------------------------------
LEMMA StutterIInv ==
  ASSUME IInv, UNCHANGED vars
  PROVE  IInv'
<1> USE DEF vars
<1>1. TypeOK' /\ SendingSafe' /\ PollerHasExec' /\ ListenerSafe'
  BY DEF IInv, TypeOK, SendingSafe, PollerHasExec, ListenerSafe
<1>2. BuilderSafe("api", api.pc, api.holding)' /\ BuilderSafe("poller", poller.pc, poller.holding)'
  BY DEF IInv, BuilderSafe
<1> QED BY <1>1, <1>2, RowsUntouched DEF IInv

LEMMA NextIInv == IInv /\ [Next]_vars => IInv'
<1> SUFFICES ASSUME IInv, [Next]_vars PROVE IInv'
  OBVIOUS
<1>1. CASE ApiNext
  <2>1. ASSUME NEW r \in Requests, SubmitPsbt(r) PROVE IInv'
    BY <2>1, MarkSignedIInv DEF SubmitPsbt, Txs
  <2>2. ASSUME NEW r \in Requests, NEW t \in Txs, SubmitFinalised(r, t) PROVE IInv'
    BY <2>2, MarkSignedIInv DEF SubmitFinalised
  <2> QED BY <1>1, <2>1, <2>2, BuildCheckIInv, BuildCommitIInv, BuildFailsIInv,
             BroadcastBeginIInv, BroadcastAcceptedIInv, BroadcastRejectedIInv,
             BroadcastLostIInv, CancelIInv DEF ApiNext
<1>2. CASE PollerNext
  BY <1>2, PollerCheckIInv, PollerRefusedIInv, PollerDryRunIInv, PollerCommitIInv,
     PollerBuildFailsIInv DEF PollerNext
<1>3. CASE NodeNext
  BY <1>3, NodeAcceptsIInv, NodeRejectsIInv, MineIInv, EvictIInv DEF NodeNext
<1>4. CASE ListenerNext
  BY <1>4, ListenerFetchIInv, ListenerFetchNoHeaderIInv, ListenerSkipIInv, ListenerRecordIInv, ListenerRaisesIInv,
     ListenerConfirmIInv, NotificationLostIInv, WorkerCrashIInv DEF ListenerNext, ListenerTx
<1>5. CASE UNCHANGED vars
  BY <1>5, StutterIInv
<1> QED BY <1>1, <1>2, <1>3, <1>4, <1>5 DEF Next

\* The inductive invariant holds in every reachable state of Payments.
THEOREM PaymentsIInv == Spec => []IInv
BY InitIInv, NextIInv, PTL DEF Spec

\* Every table, queue and control state keeps its type: no interleaving of the
\* backend's handlers, the poller and the listener writes anything else.
THEOREM PaymentsTypeOK == Spec => []TypeOK
<1>1. IInv => TypeOK
  BY DEF IInv
<1> QED BY <1>1, PaymentsIInv, PTL

\* The unlocked in-flight check of build_payment_request keeps each builder to
\* one request in flight per holding.
THEOREM PaymentsOneInFlightPerOrigin == Spec => []OneInFlightPerOrigin
<1>1. IInv => OneInFlightPerOrigin
  BY DEF IInv
<1> QED BY <1>1, PaymentsIInv, PTL

\* _link_payment_request_if_any confirms a request only for the transaction it
\* was signed with, in a block, with a stored ledger entry of that transaction.
THEOREM PaymentsConfirmedIsSettled == Spec => []ConfirmedIsSettled
<1>1. IInv => ConfirmedIsSettled
  BY DEF IInv
<1> QED BY <1>1, PaymentsIInv, PTL

\* No transaction confirms two requests, whatever the signers submit.
THEOREM PaymentsOneConfirmedPerTx == Spec => []OneConfirmedPerTx
<1>1. IInv => OneConfirmedPerTx
  BY DEF IInv
<1> QED BY <1>1, PaymentsIInv, PTL

\* The broadcast_attempt table has one accepted row for exactly the requests
\* that were marked broadcast.
THEOREM PaymentsAcceptedAttemptMatches == Spec => []AcceptedAttemptMatches
<1>1. IInv => AcceptedAttemptMatches
  BY DEF IInv
<1> QED BY <1>1, PaymentsIInv, PTL

-----------------------------------------------------------------------------
(***************************************************************************)
(* What reaches bitcoind.  The rows alone do not tell which transactions   *)
(* the node may hold: a second invariant, on top of IInv, counts the calls *)
(* of each request against its committed attempts.                         *)
(***************************************************************************)
Sending == {"sending", "accepted", "rejected"}

\* The call under way whose transaction bitcoind has not taken (yet).
Undecided(r) == IF api.pc \in {"sending", "rejected"} /\ api.req = r THEN 1 ELSE 0

\* An earlier call of r, or the accepted one under way, has no attempt row.
Lost(r) == calls[r] > Len(attempts[r]) + Undecided(r)

Known(r, t) == pr[r].signed = t /\ (pr[r].status \in {"broadcast", "confirmed"} \/ Lost(r))

\* Calls are issued for signed requests only, and none has two attempt rows.
CallsCounted ==
  \A r \in Requests :
    /\ Len(attempts[r]) <= calls[r]
    /\ CallOpen(r) => pr[r].status \notin {"none", "awaiting_signature"}

SenderOpen == api.pc \in Sending => CallOpen(api.req)

NodeKnown == \A t \in mempool \cup mined : \E r \in Requests : Known(r, t)

AuditInv == CallsCounted /\ SenderOpen /\ NodeKnown

LEMMA CountsAreNat ==
  ASSUME TypeOK, NEW r \in Requests
  PROVE  /\ calls[r] \in Nat /\ attempts[r] \in Seq({"accepted", "rejected"})
         /\ Len(attempts[r]) \in Nat /\ Undecided(r) \in {0, 1}
BY DEF TypeOK, Undecided

LEMMA InitAudit == Init => AuditInv
<1> SUFFICES ASSUME Init PROVE AuditInv
  OBVIOUS
<1>1. CallsCounted
  BY DEF Init, CallsCounted, CallOpen
<1>2. SenderOpen /\ NodeKnown
  BY DEF Init, SenderOpen, NodeKnown, IdleApi, Sending
<1> QED BY <1>1, <1>2 DEF AuditInv

\* A row that was never sent may change at will; another one keeps what it was
\* signed with and does not leave the statuses that a broadcast brings.
RowKept(s) ==
  \/ pr[s].status \in {"none", "awaiting_signature"}
  \/ /\ pr'[s].signed = pr[s].signed
     /\ pr'[s].status \notin {"none", "awaiting_signature"}
     /\ pr[s].status \in {"broadcast", "confirmed"} => pr'[s].status \in {"broadcast", "confirmed"}

\* Steps that issue no call and commit no attempt.
LEMMA QuietStep ==
  ASSUME IInv, IInv', AuditInv, UNCHANGED <<calls, attempts>>, SenderOpen',
         \A s \in Requests : RowKept(s),
         \A s \in Requests : Undecided(s)' <= Undecided(s),
         \A t \in mempool' \cup mined' :
            t \in mempool \cup mined \/ \E r \in Requests : Known(r, t)'
  PROVE  AuditInv'
<1>1. \A s \in Requests : /\ calls'[s] = calls[s] /\ attempts'[s] = attempts[s]
                          /\ calls[s] \in Nat /\ Len(attempts[s]) \in Nat
                          /\ Undecided(s) \in {0, 1} /\ Undecided(s)' \in {0, 1}
  BY CountsAreNat DEF IInv, TypeOK, Undecided
<1>2. CallsCounted'
  BY <1>1 DEF AuditInv, CallsCounted, CallOpen, RowKept
<1>3. ASSUME NEW s \in Requests, NEW t, Known(s, t) PROVE Known(s, t)'
  <2>1. Lost(s) => Lost(s)' /\ CallOpen(s)
    BY <1>1 DEF Lost, CallOpen
  <2>2. pr[s].status \notin {"none", "awaiting_signature"}
    BY <1>3, <2>1 DEF Known, AuditInv, CallsCounted
  <2> QED BY <1>3, <2>1, <2>2 DEF Known, RowKept
<1>4. NodeKnown'
  BY <1>3 DEF AuditInv, NodeKnown
<1> QED BY <1>2, <1>4 DEF AuditInv

\* Steps outside a call: the builds, the signatures, the poller, the listener,
\* and the node's own steps.
LEMMA OutsideCall ==
  ASSUME IInv, IInv', AuditInv, UNCHANGED <<calls, attempts>>,
         \/ api' = api
         \/ api.pc \notin Sending /\ api'.pc \notin Sending,
         \A s \in Requests : RowKept(s),
         mempool' \cup mined' \subseteq mempool \cup mined
  PROVE  AuditInv'
<1>1. SenderOpen'
  BY DEF AuditInv, SenderOpen, CallOpen
<1>2. \A s \in Requests : Undecided(s)' <= Undecided(s)
  BY CountsAreNat DEF Undecided, Sending
<1> QED BY <1>1, <1>2, QuietStep

\* An update of one row keeps the others.
LEMMA OneRowKept ==
  ASSUME IInv, NEW r \in Requests, NEW row, pr' = [pr EXCEPT ![r] = row],
         \/ pr[r].status \in {"none", "awaiting_signature"}
         \/ /\ row.signed = pr[r].signed
            /\ row.status \notin {"none", "awaiting_signature"}
            /\ pr[r].status \in {"broadcast", "confirmed"} => row.status \in {"broadcast", "confirmed"}
  PROVE  \A s \in Requests : RowKept(s)
<1>1. pr'[r] = row /\ \A s \in Requests : s # r => pr'[s] = pr[s]
  BY DEF IInv, TypeOK
<1> QED BY <1>1 DEF RowKept

LEMMA SameRowsKept == ASSUME pr' = pr PROVE \A s \in Requests : RowKept(s)
BY DEF RowKept

LEMMA ApiAudit ==
  ASSUME IInv, IInv', AuditInv
  PROVE  /\ \A h, d : BuildCheck(h, d) => AuditInv'
         /\ \A r \in Requests : BuildCommit(r) => AuditInv'
         /\ BuildFails => AuditInv'
         /\ \A r \in Requests : \A t : MarkSigned(r, t) => AuditInv'
         /\ \A r \in Requests : Cancel(r) => AuditInv'
<1> USE DEF dbVars, nodeVars, IdleApi, Sending
<1>1. ASSUME NEW h, NEW d, BuildCheck(h, d) PROVE AuditInv'
  BY <1>1, OutsideCall, SameRowsKept DEF BuildCheck, IInv, TypeOK, ApiState
<1>2. ASSUME NEW r \in Requests, BuildCommit(r) PROVE AuditInv'
  BY <1>2, OutsideCall, OneRowKept DEF BuildCommit
<1>3. ASSUME BuildFails PROVE AuditInv'
  BY <1>3, OutsideCall, SameRowsKept DEF BuildFails
<1>4. ASSUME NEW r \in Requests, NEW t, MarkSigned(r, t) PROVE AuditInv'
  <2>1. pr' = [pr EXCEPT ![r] = [pr[r] EXCEPT !.signed = t, !.status = "awaiting_broadcast"]]
    BY <1>4 DEF MarkSigned, IInv, TypeOK
  <2> QED BY <1>4, <2>1, OutsideCall, OneRowKept DEF MarkSigned
<1>5. ASSUME NEW r \in Requests, Cancel(r) PROVE AuditInv'
  <2>1. pr' = [pr EXCEPT ![r] = [pr[r] EXCEPT !.status = "cancelled"]] /\ pr[r] \in Row
    BY <1>5 DEF Cancel, IInv, TypeOK
  <2>2. PICK row : row = [pr[r] EXCEPT !.status = "cancelled"]
    OBVIOUS
  <2>3. row.status = "cancelled" /\ row.signed = pr[r].signed
    BY <2>1, <2>2 DEF Row
  <2> QED BY <1>5, <2>1, <2>2, <2>3, OutsideCall, OneRowKept DEF Cancel, CancellableStatus
<1> QED BY <1>1, <1>2, <1>3, <1>4, <1>5

\* A call is counted before it is issued, so it is open while it runs.
LEMMA BroadcastBeginAudit ==
  ASSUME IInv, IInv', AuditInv, NEW r \in Requests, BroadcastBegin(r)
  PROVE  AuditInv'
<1> USE DEF BroadcastBegin, dbVars, nodeVars
<1>1. /\ calls'[r] = calls[r] + 1 /\ attempts' = attempts /\ pr' = pr
      /\ \A s \in Requests : s # r => calls'[s] = calls[s]
      /\ api'.pc = "sending" /\ api'.req = r /\ api.pc = "idle"
  BY DEF IInv, TypeOK, ApiState
<1>2. \A s \in Requests : calls[s] \in Nat /\ Len(attempts[s]) \in Nat
  BY CountsAreNat DEF IInv
<1>3. CallsCounted' /\ SenderOpen'
  BY <1>1, <1>2 DEF AuditInv, CallsCounted, SenderOpen, CallOpen
<1>4. ASSUME NEW s \in Requests, NEW t, Known(s, t) PROVE Known(s, t)'
  <2>1. Undecided(s) = 0 /\ Undecided(s)' = IF s = r THEN 1 ELSE 0
    BY <1>1 DEF Undecided
  <2>2. PICK n \in {0, 1} : n = Undecided(s)' /\ calls'[s] = calls[s] + n
    BY <1>1, <1>2, <2>1
  <2>3. Lost(s) => Lost(s)'
    <3>1. calls[s] \in Nat /\ Len(attempts[s]) \in Nat /\ attempts'[s] = attempts[s]
      BY <1>1, <1>2
    <3>2. calls[s] > Len(attempts[s]) => calls[s] + n > Len(attempts[s]) + n
      BY <2>2, <3>1
    <3>3. Lost(s) <=> calls[s] > Len(attempts[s])
      BY <2>1, <3>1 DEF Lost
    <3>4. Lost(s)' <=> calls[s] + n > Len(attempts[s]) + n
      BY <2>2, <3>1 DEF Lost
    <3> QED BY <3>2, <3>3, <3>4
  <2> QED BY <1>1, <1>4, <2>3 DEF Known
<1> QED BY <1>3, <1>4 DEF AuditInv, NodeKnown

\* The transaction bitcoind takes is the one of the call that is open.
LEMMA NodeAudit ==
  ASSUME IInv, IInv', AuditInv
  PROVE  /\ NodeAccepts => AuditInv'
         /\ NodeRejects => AuditInv'
         /\ \A t : Mine(t) => AuditInv'
         /\ \A t : Evict(t) => AuditInv'
<1> USE DEF dbVars, nodeVars
<1>1. ASSUME NodeAccepts PROVE AuditInv'
  <2>1. /\ api.pc = "sending" /\ api'.pc = "accepted" /\ api'.req = api.req
        /\ UNCHANGED <<pr, attempts, calls, mined>>
        /\ mempool' = mempool \cup {pr[api.req].signed}
    BY <1>1 DEF NodeAccepts, IInv, TypeOK, ApiState
  <2>2. api.req \in Requests /\ calls[api.req] > Len(attempts[api.req])
    BY <2>1 DEF IInv, SendingSafe, AuditInv, SenderOpen, CallOpen, Sending
  <2>3. Undecided(api.req)' = 0 /\ \A s \in Requests : Undecided(s)' <= Undecided(s)
    BY <2>1 DEF Undecided
  <2>4. Known(api.req, pr[api.req].signed)'
    BY <2>1, <2>2, <2>3, CountsAreNat DEF Known, Lost, IInv
  <2>5. SenderOpen'
    BY <2>1, <2>2 DEF SenderOpen, CallOpen
  <2>6. PICK r \in Requests : r = api.req /\ pr'[r].signed = pr[r].signed
    BY <2>1, <2>2
  <2>7. Known(r, pr[r].signed)'
    BY <2>1, <2>4, <2>6
  <2> QED BY <2>1, <2>3, <2>5, <2>6, <2>7, QuietStep, SameRowsKept DEF Known
<1>2. ASSUME NodeRejects PROVE AuditInv'
  <2>1. /\ api.pc = "sending" /\ api'.pc = "rejected" /\ api'.req = api.req
    BY <1>2 DEF NodeRejects, IInv, TypeOK, ApiState
  <2>2. \A s \in Requests : Undecided(s)' <= Undecided(s)
    BY <2>1 DEF Undecided
  <2>3. SenderOpen'
    BY <1>2, <2>1 DEF NodeRejects, AuditInv, SenderOpen, CallOpen, Sending
  <2> QED BY <1>2, <2>2, <2>3, QuietStep, SameRowsKept DEF NodeRejects
<1>3. ASSUME NEW t, Mine(t) PROVE AuditInv'
  BY <1>3, OutsideCall, SameRowsKept DEF Mine
<1>4. ASSUME NEW t, Evict(t) PROVE AuditInv'
  BY <1>4, OutsideCall, SameRowsKept DEF Evict
<1> QED BY <1>1, <1>2, <1>3, <1>4

\* The answer is committed, and the attempt row closes the call.
LEMMA AnswerAudit ==
  ASSUME IInv, IInv', AuditInv, NEW r \in Requests, NEW a, api.pc \in Sending, api.req = r,
         attempts' = [attempts EXCEPT ![r] = Append(attempts[r], a)],
         a \in {"accepted", "rejected"}, api'.pc = "idle",
         UNCHANGED <<calls, mempool, mined>>,
         \A s \in Requests : pr'[s].signed = pr[s].signed,
         \A s \in Requests : s # r => pr'[s].status = pr[s].status,
         IF api.pc = "rejected" THEN pr'[r].status = pr[r].status
                                ELSE pr'[r].status = "broadcast"
  PROVE  AuditInv'
<1>1. /\ \A s \in Requests : calls[s] \in Nat /\ Len(attempts[s]) \in Nat
      /\ attempts[r] \in Seq({"accepted", "rejected"})
  BY CountsAreNat DEF IInv
<1>2. /\ Len(attempts'[r]) = Len(attempts[r]) + 1
      /\ \A s \in Requests : s # r => attempts'[s] = attempts[s]
  BY <1>1 DEF IInv, TypeOK
<1>3. calls[r] > Len(attempts[r])
  BY DEF AuditInv, SenderOpen, CallOpen
<1>4. pr[r].status = "awaiting_broadcast"
  BY DEF IInv, SendingSafe, Sending
<1>5. CallsCounted'
  BY <1>1, <1>2, <1>3, <1>4 DEF AuditInv, CallsCounted, CallOpen
<1>6. ASSUME NEW s \in Requests, NEW t, Known(s, t) PROVE Known(s, t)'
  <2>1. Undecided(s)' = 0
    BY DEF Undecided
  <2>2. CASE s # r
    <3>1. Undecided(s) = 0
      BY <2>2 DEF Undecided
    <3> QED BY <1>1, <1>2, <1>6, <2>1, <2>2, <3>1 DEF Known, Lost
  <2>3. CASE s = r /\ api.pc = "rejected"
    <3>1. Undecided(r) = 1
      BY <2>3 DEF Undecided
    <3>2. Lost(r) => Lost(r)'
      BY <1>1, <1>2, <2>1, <2>3, <3>1 DEF Lost
    <3> QED BY <1>6, <2>3, <3>2 DEF Known
  <2>4. CASE s = r /\ api.pc # "rejected"
    BY <1>6, <2>4 DEF Known
  <2> QED BY <2>2, <2>3, <2>4
<1>7. NodeKnown'
  BY <1>6 DEF AuditInv, NodeKnown
<1> QED BY <1>5, <1>7 DEF AuditInv, SenderOpen, Sending

LEMMA BroadcastEndAudit ==
  ASSUME IInv, IInv', AuditInv
  PROVE  (BroadcastAccepted \/ BroadcastRejected \/ BroadcastLost) => AuditInv'
<1> USE DEF dbVars, nodeVars, IdleApi, Sending
<1>1. ASSUME BroadcastAccepted PROVE AuditInv'
  <2>1. PICK r \in Requests : r = api.req
    BY <1>1 DEF IInv, SendingSafe, BroadcastAccepted
  <2>2. /\ \A s \in Requests : pr'[s].signed = pr[s].signed
        /\ \A s \in Requests : s # r => pr'[s].status = pr[s].status
        /\ pr'[r].status = "broadcast"
    BY <1>1, <2>1 DEF BroadcastAccepted, IInv, TypeOK, Row
  <2> QED BY <1>1, <2>1, <2>2, AnswerAudit DEF BroadcastAccepted
<1>2. ASSUME BroadcastRejected PROVE AuditInv'
  <2>1. PICK r \in Requests : r = api.req
    BY <1>2 DEF IInv, SendingSafe, BroadcastRejected
  <2> QED BY <1>2, <2>1, AnswerAudit DEF BroadcastRejected
<1>3. ASSUME BroadcastLost PROVE AuditInv'
  <2>1. SenderOpen' /\ \A s \in Requests : Undecided(s)' <= Undecided(s)
    BY <1>3, CountsAreNat DEF BroadcastLost, SenderOpen, Undecided
  <2> QED BY <1>3, <2>1, QuietStep, SameRowsKept DEF BroadcastLost
<1> QED BY <1>1, <1>2, <1>3

LEMMA WorkerAudit ==
  ASSUME IInv, IInv', AuditInv, PollerNext \/ ListenerNext \/ UNCHANGED vars
  PROVE  AuditInv'
<1> USE DEF dbVars, nodeVars
<1>1. ASSUME NEW r \in Requests, PollerCommit(r) PROVE AuditInv'
  BY <1>1, OutsideCall, OneRowKept DEF PollerCommit
<1>2. ASSUME NEW r \in Requests, NEW e \in Entries, ListenerConfirm(r, e) PROVE AuditInv'
  <2>1. /\ pr' = [pr EXCEPT ![r] = [pr[r] EXCEPT !.status = "confirmed", !.entry = e]]
        /\ pr[r] \in Row
    BY <1>2 DEF ListenerConfirm, IInv, TypeOK
  <2>2. PICK row : row = [pr[r] EXCEPT !.status = "confirmed", !.entry = e]
    OBVIOUS
  <2>3. row.status = "confirmed" /\ row.signed = pr[r].signed
    BY <2>1, <2>2 DEF Row
  <2> QED BY <1>2, <2>1, <2>2, <2>3, OutsideCall, OneRowKept DEF ListenerConfirm
<1>3. ASSUME UNCHANGED <<pr, attempts, calls, api, mempool, mined>> PROVE AuditInv'
  BY <1>3, OutsideCall, SameRowsKept
<1>4. ASSUME PollerNext, \A r \in Requests : ~PollerCommit(r)
      PROVE  UNCHANGED <<pr, attempts, calls, api, mempool, mined>>
  BY <1>4 DEF PollerNext, PollerCheck, PollerRefused, PollerDryRun, PollerBuildFails
<1>5. ASSUME ListenerNext, \A r \in Requests, e \in Entries : ~ListenerConfirm(r, e)
      PROVE  UNCHANGED <<pr, attempts, calls, api, mempool, mined>>
  BY <1>5 DEF ListenerNext, ListenerTx, ListenerFetch, ListenerFetchNoHeader, ListenerSkip,
     ListenerRecord, ListenerRaises, NotificationLost, WorkerCrash
<1>6. ASSUME UNCHANGED vars PROVE UNCHANGED <<pr, attempts, calls, api, mempool, mined>>
  BY <1>6 DEF vars
<1> QED BY <1>1, <1>2, <1>3, <1>4, <1>5, <1>6

LEMMA NextAudit == IInv /\ IInv' /\ AuditInv /\ [Next]_vars => AuditInv'
<1> SUFFICES ASSUME IInv, IInv', AuditInv, [Next]_vars PROVE AuditInv'
  OBVIOUS
<1>1. CASE ApiNext
  BY <1>1, ApiAudit, BroadcastBeginAudit, BroadcastEndAudit DEF ApiNext, SubmitPsbt, SubmitFinalised
<1>2. CASE NodeNext
  BY <1>2, NodeAudit DEF NodeNext
<1>3. CASE PollerNext \/ ListenerNext \/ UNCHANGED vars
  BY <1>3, WorkerAudit
<1> QED BY <1>1, <1>2, <1>3 DEF Next

\* broadcast_payment_request never leaves bitcoind with a transaction that no
\* request accounts for: its request is marked broadcast, or it has a call
\* whose outcome is missing from the attempts, which a retry would resolve.
THEOREM PaymentsNodeTxIsKnown == Spec => []NodeTxIsKnown
<1>1. IInv /\ AuditInv => NodeTxIsKnown
  BY CountsAreNat DEF AuditInv, NodeKnown, Known, Lost, NodeTxIsKnown, CallOpen, IInv
<1> QED BY <1>1, InitAudit, NextAudit, PaymentsIInv, PTL DEF Spec

-----------------------------------------------------------------------------
(***************************************************************************)
(* Refinement: what the three tables show of a request is a behaviour of   *)
(* PaymentLifecycle.                                                       *)
(***************************************************************************)
LEMMA InitLifecycle == Init => Lifecycle!Init
BY DEF Init, Lifecycle!Init, NoRow

LEMMA CreateStep ==
  ASSUME IInv, NEW r \in Requests, NEW h \in Holdings, NEW d \in Destinations \cup {None},
         NEW o \in {"api", "poller"}, NEW e \in Execs \cup {None},
         pr[r].status = "none", BuilderSafe(o, "building", h),
         pr' = [pr EXCEPT ![r] = NewRow(h, d, o, e)]
  PROVE  Lifecycle!Next
<1> DEFINE st == [q \in Requests |-> pr[q].status]
           sl == [q \in Requests |-> <<pr[q].holding, pr[q].origin>>]
           tx == [q \in Requests |-> pr[q].txid]
<1>1. pr \in [Requests -> Row] /\ pr[r].txid = None
  BY DEF IInv, TypeOK, RowSafe
<1>2. /\ pr' \in [Requests -> Row] /\ \A s \in Requests : s # r => pr'[s] = pr[s]
      /\ pr'[r].status = "awaiting_signature" /\ pr'[r].txid = None
      /\ pr'[r].holding = h /\ pr'[r].origin = o
  BY <1>1, NewRowFields
<1>3. /\ st' = [st EXCEPT ![r] = "awaiting_signature"]
      /\ tx' = tx
      /\ sl' = [sl EXCEPT ![r] = <<h, o>>]
  <2>1. st' = [st EXCEPT ![r] = "awaiting_signature"]
    BY <1>2
  <2>2. tx' = tx
    BY <1>1, <1>2
  <2>3. sl' = [sl EXCEPT ![r] = <<h, o>>]
    BY <1>2
  <2> QED BY <2>1, <2>2, <2>3
<1>4. <<h, o>> \in Holdings \X {"api", "poller"}
  OBVIOUS
<1>5. \A q \in Requests : sl[q] = <<h, o>> => st[q] \notin Lifecycle!InFlight
  BY DEF BuilderSafe, InFlightStatus, Lifecycle!InFlight
<1>6. Lifecycle!Create(r, <<h, o>>)
  BY <1>3, <1>5 DEF Lifecycle!Create, Lifecycle!Move
<1> QED BY <1>4, <1>6 DEF Lifecycle!Next

\* The mapped variables when a row changes its status and at most its txid.
LEMMA MovedRow ==
  ASSUME NEW r \in Requests, pr \in [Requests -> Row],
         NEW row \in Row, row.holding = pr[r].holding, row.origin = pr[r].origin,
         pr' = [pr EXCEPT ![r] = row]
  PROVE  /\ [q \in Requests |-> pr'[q].status] =
              [[q \in Requests |-> pr[q].status] EXCEPT ![r] = row.status]
         /\ [q \in Requests |-> <<pr'[q].holding, pr'[q].origin>>] =
              [q \in Requests |-> <<pr[q].holding, pr[q].origin>>]
         /\ [q \in Requests |-> pr'[q].txid] =
              [[q \in Requests |-> pr[q].txid] EXCEPT ![r] = row.txid]
         /\ row.txid = pr[r].txid =>
              [q \in Requests |-> pr'[q].txid] = [q \in Requests |-> pr[q].txid]
<1>1. [q \in Requests |-> pr'[q].status] =
        [[q \in Requests |-> pr[q].status] EXCEPT ![r] = row.status]
  OBVIOUS
<1>2. [q \in Requests |-> <<pr'[q].holding, pr'[q].origin>>] =
        [q \in Requests |-> <<pr[q].holding, pr[q].origin>>]
  OBVIOUS
<1>3. [q \in Requests |-> pr'[q].txid] =
        [[q \in Requests |-> pr[q].txid] EXCEPT ![r] = row.txid]
  OBVIOUS
<1>4. row.txid = pr[r].txid =>
        [q \in Requests |-> pr'[q].txid] = [q \in Requests |-> pr[q].txid]
  OBVIOUS
<1> QED BY <1>1, <1>2, <1>3, <1>4

LEMMA SignStep ==
  ASSUME IInv, NEW r \in Requests, NEW t \in Txs, MarkSigned(r, t)
  PROVE  Lifecycle!Next
<1>1. PICK row \in Row : /\ pr' = [pr EXCEPT ![r] = row]
                         /\ row.holding = pr[r].holding /\ row.origin = pr[r].origin
                         /\ row.txid = pr[r].txid /\ row.status = "awaiting_broadcast"
  <2> DEFINE row == [pr[r] EXCEPT !.signed = t, !.status = "awaiting_broadcast"]
  <2>1. pr[r] \in Row /\ pr' = [pr EXCEPT ![r] = row]
    BY DEF IInv, TypeOK, MarkSigned
  <2>2. /\ row \in Row /\ row.holding = pr[r].holding /\ row.origin = pr[r].origin
        /\ row.txid = pr[r].txid /\ row.status = "awaiting_broadcast"
    BY <2>1 DEF Row, Status, InFlightStatus
  <2> HIDE DEF row
  <2> QED BY <2>1, <2>2
<1>2. Lifecycle!Sign(r)
  BY <1>1, MovedRow DEF Lifecycle!Sign, Lifecycle!Move, IInv, TypeOK, MarkSigned
<1> QED BY <1>2 DEF Lifecycle!Next

LEMMA CancelStep ==
  ASSUME IInv, NEW r \in Requests, Cancel(r)
  PROVE  Lifecycle!Next
<1>1. PICK row \in Row : /\ pr' = [pr EXCEPT ![r] = row]
                         /\ row.holding = pr[r].holding /\ row.origin = pr[r].origin
                         /\ row.txid = pr[r].txid /\ row.status = "cancelled"
  <2> DEFINE row == [pr[r] EXCEPT !.status = "cancelled"]
  <2>1. pr[r] \in Row /\ pr' = [pr EXCEPT ![r] = row]
    BY DEF IInv, TypeOK, Cancel
  <2>2. /\ row \in Row /\ row.holding = pr[r].holding /\ row.origin = pr[r].origin
        /\ row.txid = pr[r].txid /\ row.status = "cancelled"
    BY <2>1 DEF Row, Status, InFlightStatus
  <2> HIDE DEF row
  <2> QED BY <2>1, <2>2
<1>2. Lifecycle!Cancel(r)
  BY <1>1, MovedRow DEF Lifecycle!Cancel, Lifecycle!Move, IInv, TypeOK, Cancel, CancellableStatus
<1> QED BY <1>2 DEF Lifecycle!Next

LEMMA BroadcastStep ==
  ASSUME IInv, BroadcastAccepted
  PROVE  Lifecycle!Next
<1>1. PICK r \in Requests : r = api.req /\ pr[r].status = "awaiting_broadcast"
  BY DEF IInv, BroadcastAccepted, SendingSafe
<1>2. PICK row \in Row : /\ pr' = [pr EXCEPT ![r] = row]
                         /\ row.holding = pr[r].holding /\ row.origin = pr[r].origin
                         /\ row.txid \in Txs /\ row.status = "broadcast"
  <2> DEFINE row == [pr[r] EXCEPT !.txid = pr[r].signed, !.status = "broadcast"]
  <2>1. pr[r] \in Row /\ pr' = [pr EXCEPT ![r] = row] /\ pr[r].signed \in Txs
    BY <1>1 DEF IInv, TypeOK, BroadcastAccepted, RowSafe
  <2>2. /\ row \in Row /\ row.holding = pr[r].holding /\ row.origin = pr[r].origin
        /\ row.txid \in Txs /\ row.status = "broadcast"
    BY <2>1 DEF Row, Status, InFlightStatus
  <2> HIDE DEF row
  <2> QED BY <2>1, <2>2
<1>3. Lifecycle!Broadcast(r, row.txid)
  BY <1>1, <1>2, MovedRow DEF Lifecycle!Broadcast, Lifecycle!Move, IInv, TypeOK
<1> QED BY <1>2, <1>3 DEF Lifecycle!Next

LEMMA ConfirmStep ==
  ASSUME IInv, NEW r \in Requests, NEW e \in Entries, ListenerConfirm(r, e)
  PROVE  Lifecycle!Next
<1>1. PICK row \in Row : /\ pr' = [pr EXCEPT ![r] = row]
                         /\ row.holding = pr[r].holding /\ row.origin = pr[r].origin
                         /\ row.txid = pr[r].txid /\ row.status = "confirmed"
  <2> DEFINE row == [pr[r] EXCEPT !.status = "confirmed", !.entry = e]
  <2>1. pr[r] \in Row /\ pr' = [pr EXCEPT ![r] = row]
    BY DEF IInv, TypeOK, ListenerConfirm
  <2>2. /\ row \in Row /\ row.holding = pr[r].holding /\ row.origin = pr[r].origin
        /\ row.txid = pr[r].txid /\ row.status = "confirmed"
    BY <2>1 DEF Row, Status, InFlightStatus
  <2> HIDE DEF row
  <2> QED BY <2>1, <2>2
<1>2. pr[r].status = "broadcast" /\ \A q \in Requests : pr[q].txid = pr[r].txid => q = r
  BY ConfirmsOwner DEF ListenerConfirm
<1>3. Lifecycle!Confirm(r)
  BY <1>1, <1>2, MovedRow DEF Lifecycle!Confirm, Lifecycle!Move, IInv, TypeOK
<1> QED BY <1>3 DEF Lifecycle!Next

LEMMA LifecycleStutter ==
  ASSUME pr' = pr
  PROVE  UNCHANGED Lifecycle!lifecycleVars
BY DEF Lifecycle!lifecycleVars

LEMMA NextLifecycle == IInv /\ [Next]_vars => [Lifecycle!Next]_Lifecycle!lifecycleVars
<1> SUFFICES ASSUME IInv, [Next]_vars
             PROVE  Lifecycle!Next \/ pr' = pr
  BY LifecycleStutter
<1>1. CASE ApiNext
  <2>1. ASSUME NEW r \in Requests, BuildCommit(r) PROVE Lifecycle!Next
    BY <2>1, CreateStep DEF BuildCommit, IInv, BuilderSafe, TypeOK, ApiState
  <2>2. ASSUME NEW r \in Requests, SubmitPsbt(r) PROVE Lifecycle!Next
    BY <2>2, SignStep DEF SubmitPsbt, Txs
  <2>3. ASSUME NEW r \in Requests, NEW t \in Txs, SubmitFinalised(r, t) PROVE Lifecycle!Next
    BY <2>3, SignStep DEF SubmitFinalised
  <2>4. ASSUME NEW h \in Holdings, NEW d \in Destinations, BuildCheck(h, d) PROVE pr' = pr
    BY <2>4 DEF BuildCheck, dbVars
  <2>5. ASSUME NEW r \in Requests, BroadcastBegin(r) PROVE pr' = pr
    BY <2>5 DEF BroadcastBegin, dbVars
  <2>6. BuildFails \/ BroadcastRejected \/ BroadcastLost => pr' = pr
    BY DEF BuildFails, BroadcastRejected, BroadcastLost, dbVars
  <2> QED BY <1>1, <2>1, <2>2, <2>3, <2>4, <2>5, <2>6, CancelStep, BroadcastStep DEF ApiNext
<1>2. CASE PollerNext
  <2>1. ASSUME NEW r \in Requests, PollerCommit(r) PROVE Lifecycle!Next
    <3>1. /\ poller.holding \in Holdings /\ BuilderSafe("poller", "building", poller.holding)
          /\ poller.dest \in Destinations \cup {None}
          /\ UpdatePending(poller.exec, None) \in Execs \cup {None}
      BY <2>1 DEF PollerCommit, IInv, BuilderSafe, TypeOK, PollerState, UpdatePending, Destinations
    <3> QED BY <2>1, <3>1, CreateStep DEF PollerCommit
  <2>2. ASSUME NEW e \in Execs, NEW h \in Holdings, NEW d \in Holdings, PollerCheck(e, h, d)
        PROVE  pr' = pr
    BY <2>2 DEF PollerCheck, dbVars
  <2>3. ASSUME NEW e \in Execs, NEW h \in Holdings, PollerRefused(e, h) PROVE pr' = pr
    BY <2>3 DEF PollerRefused
  <2>4. ASSUME NEW e \in Execs, PollerDryRun(e) PROVE pr' = pr
    BY <2>4 DEF PollerDryRun
  <2>5. PollerBuildFails => pr' = pr
    BY DEF PollerBuildFails
  <2> QED BY <1>2, <2>1, <2>2, <2>3, <2>4, <2>5 DEF PollerNext
<1>3. CASE NodeNext
  <2>1. NodeAccepts \/ NodeRejects => pr' = pr
    BY DEF NodeAccepts, NodeRejects, dbVars
  <2>2. ASSUME NEW t \in Txs, Mine(t) \/ Evict(t) PROVE pr' = pr
    BY <2>2 DEF Mine, Evict, dbVars
  <2> QED BY <1>3, <2>1, <2>2 DEF NodeNext
<1>4. CASE ListenerNext
  <2>1. ListenerFetch \/ ListenerFetchNoHeader \/ ListenerSkip \/ ListenerRecord
          \/ ListenerRaises \/ NotificationLost \/ WorkerCrash => pr' = pr
    BY DEF ListenerFetch, ListenerFetchNoHeader, ListenerSkip, ListenerRecord, ListenerRaises, NotificationLost,
           WorkerCrash, dbVars
  <2> QED BY <1>4, <2>1, ConfirmStep DEF ListenerNext, ListenerTx
<1>5. CASE UNCHANGED vars
  BY <1>5 DEF vars
<1> QED BY <1>1, <1>2, <1>3, <1>4, <1>5 DEF Next

\* Backend, poller, listener and bitcoind together implement the lifecycle of
\* a payment request.
THEOREM PaymentsImplementsLifecycle == Spec => ImplementsLifecycle
BY PaymentsIInv, InitLifecycle, NextLifecycle, PTL DEF Spec, ImplementsLifecycle, Lifecycle!Spec
=============================================================================
