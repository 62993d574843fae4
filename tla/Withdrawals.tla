---------------------------- MODULE Withdrawals -----------------------------
(***************************************************************************)
(* Sweeps out of an Account: execute-now asks the custodial provider for a *)
(* withdrawal, poll cycles learn its transaction id and mirror the         *)
(* provider's ledger, the CustodialReconciler links ledger entries to      *)
(* executions, and the ChainListener completes an execution when its       *)
(* transaction is in a block.                                              *)
(*                                                                         *)
(* The backend runs one handler at a time; a handler waits for the         *)
(* provider in the middle, and what it has not committed is lost when it   *)
(* fails.  Reconciler and listener are threads of the worker process.      *)
(* There is one provider and one enabled policy; all executions fall into  *)
(* one period of 24 hours and one reconciliation window.                   *)
(***************************************************************************)
EXTENDS Integers, FiniteSets

CONSTANTS
  Execs,      \* ids of sweep_execution rows, and of their withdrawals
  Foreign,    \* withdrawals the user makes on the provider's site
  Txs,        \* transaction ids
  None,       \* SQL NULL
  MaxBalance, \* bound on the balance of the Account
  Minimum,    \* minimum_balance_sats
  Cap,        \* maximum_per_period_sats (MaxBalance when there is none)
  Explicit,   \* amounts a user may pass to execute-now
  Floor,      \* _TOLERANCE_FLOOR_SATS
  Smallest,   \* the smallest withdrawal the provider accepts
  Batching,   \* the provider may pay several withdrawals in one transaction
  MaxFaults   \* bound on crashes, lost messages and failed calls

ASSUME WithdrawalsAssumption ==
  /\ MaxBalance \in Nat /\ Minimum \in Nat /\ Cap \in Nat /\ Floor \in Nat
  /\ Smallest \in Nat \ {0}
  /\ MaxFaults \in Nat
  /\ Explicit \subseteq Int
  /\ None \notin Txs /\ None \notin Execs
  /\ Execs \cap Foreign = {}
  /\ Batching \in BOOLEAN

VARIABLES
  balance,  \* what the provider holds
  known,    \* custodial_provider.last_known_balance_sats
  wd,       \* withdrawals at the provider
  exec,     \* table sweep_execution
  backend,  \* the handler that is running
  entry,    \* table custodial_ledger_entry: reconciled or not
  link,     \* its linked_sweep_execution_id
  bus,      \* ledger_entry_added events under way
  recon,    \* the CustodialReconciler between its query and its commit
  mined,    \* transactions in blocks
  notices,  \* notifications of a transaction that the listener has not handled
  faults    \* faults so far

chainVars   == <<mined, notices>>
ledgerVars  == <<entry, link, bus, recon>>
vars == <<balance, known, wd, exec, backend, chainVars, ledgerVars, faults>>

Entries == Execs \cup Foreign
Amount  == 0 .. MaxBalance
Status  == {"absent", "requested", "dispatched", "onchain_pending", "completed", "failed"}

Withdrawal == [state : {"none", "taken", "sent"}, amount : Amount, tx : Txs \cup {None}]
Row        == [status : Status, amount : Int, wid : {"none", "set"}, txid : Txs \cup {None}]
Handler    == [pc : {"idle", "call", "taken", "error", "publish", "check"},
               exec : Execs \cup {None}, amount : Int, entries : SUBSET Entries]

NoWithdrawal == [state |-> "none", amount |-> 0, tx |-> None]
NoRow        == [status |-> "absent", amount |-> 0, wid |-> "none", txid |-> None]
Idle         == [pc |-> "idle", exec |-> None, amount |-> 0, entries |-> {}]
NoMatch      == [entry |-> None, exec |-> None, seen |-> "absent"]

Init ==
  /\ balance \in Amount
  /\ known = balance
  /\ wd = [x \in Entries |-> NoWithdrawal]
  /\ exec = [e \in Execs |-> NoRow]
  /\ backend = Idle
  /\ entry = [x \in Entries |-> "absent"]
  /\ link = [x \in Entries |-> None]
  /\ bus = {}
  /\ recon = NoMatch
  /\ mined = {}
  /\ notices = [tx \in Txs |-> 0]
  /\ faults = 0

Fault == faults < MaxFaults /\ faults' = faults + 1

-----------------------------------------------------------------------------
(***************************************************************************)
(* POST /sweep-policies/{id}/execute-now (execute_sweep_now).              *)
(***************************************************************************)

\* The amount is computed from the balance of the last poll.
SweepAmount == IF known - Minimum > Cap THEN Cap ELSE known - Minimum

\* The new row is flushed, not committed.  The policy's is_dry_run and
\* requires_user_confirmation are not looked at.
ExecuteBegin(e, a) ==
  /\ backend.pc = "idle"
  /\ exec[e].status = "absent" /\ wd[e].state = "none"
  /\ a > 0
  /\ backend' = [Idle EXCEPT !.pc = "call", !.exec = e, !.amount = a]
  /\ UNCHANGED <<balance, known, wd, exec, chainVars, ledgerVars, faults>>

\* Seeded fault: the handler returns without a commit.
ExecuteUncommitted ==
  /\ backend.pc = "taken"
  /\ backend' = Idle
  /\ UNCHANGED <<balance, known, wd, exec, chainVars, ledgerVars, faults>>

ExecuteCommit ==
  /\ backend.pc = "taken"
  /\ exec' = [exec EXCEPT ![backend.exec] =
       [status |-> "requested", amount |-> backend.amount, wid |-> "set", txid |-> None]]
  /\ backend' = Idle
  /\ UNCHANGED <<balance, known, wd, chainVars, ledgerVars, faults>>

\* ProviderAuthError or ProviderError, which a timeout is too.
ExecuteFails ==
  /\ backend.pc = "error"
  /\ exec' = [exec EXCEPT ![backend.exec] =
       [status |-> "failed", amount |-> backend.amount, wid |-> "none", txid |-> None]]
  /\ backend' = Idle
  /\ UNCHANGED <<balance, known, wd, chainVars, ledgerVars, faults>>

\* The backend stops, or an exception that no clause names (such as
\* ProviderRateLimitError) ends the handler.
BackendCrash ==
  /\ backend.pc # "idle"
  /\ Fault
  /\ backend' = Idle
  /\ UNCHANGED <<balance, known, wd, exec, chainVars, ledgerVars>>

-----------------------------------------------------------------------------
(***************************************************************************)
(* The provider and the chain.                                             *)
(***************************************************************************)
ProviderTakes ==
  /\ backend.pc = "call"
  /\ backend.amount >= Smallest /\ backend.amount <= balance
  /\ balance' = balance - backend.amount
  /\ wd' = [wd EXCEPT ![backend.exec] =
       [state |-> "taken", amount |-> backend.amount, tx |-> None]]
  /\ backend' = [backend EXCEPT !.pc = "taken"]
  /\ UNCHANGED <<known, exec, chainVars, ledgerVars, faults>>

ProviderRefuses ==
  /\ backend.pc = "call"
  /\ backend' = [backend EXCEPT !.pc = "error"]
  /\ UNCHANGED <<balance, known, wd, exec, chainVars, ledgerVars, faults>>

\* The withdrawal is taken and the call times out.
AnswerLost ==
  /\ backend.pc = "taken"
  /\ Fault
  /\ backend' = [backend EXCEPT !.pc = "error"]
  /\ UNCHANGED <<balance, known, wd, exec, chainVars, ledgerVars>>

ForeignWithdrawal(f, a) ==
  /\ wd[f].state = "none"
  /\ a >= Smallest /\ a <= balance
  /\ balance' = balance - a
  /\ wd' = [wd EXCEPT ![f] = [state |-> "taken", amount |-> a, tx |-> None]]
  /\ UNCHANGED <<known, exec, backend, chainVars, ledgerVars, faults>>

Deposit ==
  /\ balance < MaxBalance
  /\ balance' = balance + 1
  /\ UNCHANGED <<known, wd, exec, backend, chainVars, ledgerVars, faults>>

Sent(tx) == {x \in Entries : wd[x].tx = tx}

ProviderSends(S, tx) ==
  /\ S # {} /\ \A e \in S : wd[e].state = "taken"
  /\ Cardinality(S) > 1 => Batching
  /\ Sent(tx) = {}
  /\ wd' = [x \in Entries |->
       IF x \in S THEN [wd[x] EXCEPT !.state = "sent", !.tx = tx] ELSE wd[x]]
  /\ notices' = [notices EXCEPT ![tx] = 1]   \* hashtx
  /\ UNCHANGED <<balance, known, exec, backend, mined, ledgerVars, faults>>

Mine(tx) ==
  /\ Sent(tx) # {} /\ tx \notin mined
  /\ mined' = mined \cup {tx}
  /\ notices' = [notices EXCEPT ![tx] = @ + 1]   \* hashblock
  /\ UNCHANGED <<balance, known, wd, exec, backend, ledgerVars, faults>>

NoticeLost(tx) ==
  /\ notices[tx] > 0
  /\ Fault
  /\ notices' = [notices EXCEPT ![tx] = @ - 1]
  /\ UNCHANGED <<balance, known, wd, exec, backend, mined, ledgerVars>>

-----------------------------------------------------------------------------
(***************************************************************************)
(* POST /internal/custodial/{id}/poll-cycle.                               *)
(***************************************************************************)
NewEntries == {x \in Entries : wd[x].state # "none" /\ entry[x] = "absent"}

\* The first commit: balance and new ledger entries.  A failed ledger call of
\* the adapter looks like an empty answer.
PollFetch(new) ==
  /\ backend.pc = "idle"
  /\ new \in {NewEntries, {}}
  /\ known' = balance
  /\ entry' = [x \in Entries |-> IF x \in new THEN "new" ELSE entry[x]]
  /\ backend' = [Idle EXCEPT !.pc = "publish", !.entries = new]
  /\ UNCHANGED <<balance, wd, exec, chainVars, link, bus, recon, faults>>

PollPublish ==
  /\ backend.pc = "publish"
  /\ bus' = bus \cup backend.entries
  /\ backend' = [Idle EXCEPT !.pc = "check"]
  /\ UNCHANGED <<balance, known, wd, exec, chainVars, entry, link, recon, faults>>

\* Seeded fault: executions in every status are looked at.
AwaitsTxidAnyStatus(e) == exec[e].wid = "set"

AwaitsTxid(e) == exec[e].status = "requested" /\ exec[e].wid = "set"

\* _check_withdrawal_txids, with or without an answer of the provider.
PollCheck(answered) ==
  /\ backend.pc = "check"
  /\ exec' = [e \in Execs |->
       IF answered /\ AwaitsTxid(e) /\ wd[e].state = "sent"
       THEN [exec[e] EXCEPT !.status = "onchain_pending", !.txid = wd[e].tx]
       ELSE exec[e]]
  /\ backend' = Idle
  /\ UNCHANGED <<balance, known, wd, chainVars, ledgerVars, faults>>

-----------------------------------------------------------------------------
(***************************************************************************)
(* The CustodialReconciler.                                                *)
(***************************************************************************)
Abs(n) == IF n < 0 THEN -n ELSE n

\* _within_tolerance: two percent, at least the floor.
WithinTolerance(observed, intended) ==
  Abs(observed - intended) <= (IF (intended * 2) \div 100 > Floor THEN (intended * 2) \div 100 ELSE Floor)

\* The ledger has debits as negative amounts (KrakenAdapter.fetch_ledger_since).
LedgerAmount(x) == -wd[x].amount

Candidates(x) ==
  {e \in Execs : /\ exec[e].status \in {"requested", "dispatched"}
                 /\ WithinTolerance(LedgerAmount(x), exec[e].amount)}

\* One candidate: the reconciler goes on to its commit.
ReconcileMatch(x, e) ==
  /\ recon = NoMatch /\ x \in bus
  /\ Candidates(x) = {e}
  /\ bus' = bus \ {x}
  /\ recon' = [entry |-> x, exec |-> e, seen |-> exec[e].status]
  /\ UNCHANGED <<balance, known, wd, exec, backend, chainVars, entry, link, faults>>

\* None, or several: mark_unmatched.
ReconcileUnmatched(x) ==
  /\ recon = NoMatch /\ x \in bus
  /\ \A e \in Execs : Candidates(x) # {e}
  /\ bus' = bus \ {x}
  /\ entry' = [entry EXCEPT ![x] = "reconciled"]
  /\ UNCHANGED <<balance, known, wd, exec, backend, chainVars, link, recon, faults>>

\* set_reconciled; the status is written whatever it is by now.
ReconcileCommit ==
  /\ recon # NoMatch
  /\ entry' = [entry EXCEPT ![recon.entry] = "reconciled"]
  /\ link' = [link EXCEPT ![recon.entry] = recon.exec]
  /\ exec' = IF recon.seen = "dispatched" THEN exec
             ELSE [exec EXCEPT ![recon.exec].status = "dispatched"]
  /\ recon' = NoMatch
  /\ UNCHANGED <<balance, known, wd, backend, chainVars, bus, faults>>

\* Redis keeps no messages for a worker that is down.
EventLost(x) ==
  /\ x \in bus
  /\ Fault
  /\ bus' = bus \ {x}
  /\ UNCHANGED <<balance, known, wd, exec, backend, chainVars, entry, link, recon>>

-----------------------------------------------------------------------------
(***************************************************************************)
(* The ChainListener (_link_sweep_execution_if_any).                       *)
(***************************************************************************)
ByExpectedTxid(tx) == {e \in Execs : exec[e].txid = tx}

\* Seeded fault: a transaction in the mempool counts as confirmed.
CompletesUnconfirmed(e, tx) ==
  ByExpectedTxid(tx) = {e} /\ exec[e].status = "onchain_pending"

\* Seeded fault: the listener waits for the status that the reconciler sets.
CompletesDispatched(e, tx) ==
  tx \in mined /\ ByExpectedTxid(tx) = {e} /\ exec[e].status = "dispatched"

\* Two executions with one expected_txid make scalar_one_or_none raise.
Completes(e, tx) ==
  tx \in mined /\ ByExpectedTxid(tx) = {e} /\ exec[e].status = "onchain_pending"

ListenerHandles(tx) ==
  /\ notices[tx] > 0
  /\ notices' = [notices EXCEPT ![tx] = @ - 1]
  /\ exec' = [e \in Execs |->
       IF Completes(e, tx) THEN [exec[e] EXCEPT !.status = "completed"] ELSE exec[e]]
  /\ UNCHANGED <<balance, known, wd, backend, mined, ledgerVars, faults>>

-----------------------------------------------------------------------------
ExecuteNext ==
  \/ \E e \in Execs : \E a \in Explicit \cup {SweepAmount} : ExecuteBegin(e, a)
  \/ ExecuteCommit \/ ExecuteFails \/ BackendCrash

ProviderNext ==
  \/ ProviderTakes \/ ProviderRefuses \/ AnswerLost \/ Deposit
  \/ \E f \in Foreign, a \in Amount : ForeignWithdrawal(f, a)
  \/ \E S \in SUBSET Execs, tx \in Txs : ProviderSends(S, tx)
  \/ \E tx \in Txs : Mine(tx) \/ NoticeLost(tx)

Fetch == \E new \in SUBSET Entries : PollFetch(new)

PollNext == Fetch \/ PollPublish \/ \E answered \in BOOLEAN : PollCheck(answered)

ReconcileNext ==
  \/ \E x \in Entries : \E e \in Execs : ReconcileMatch(x, e)
  \/ \E x \in Entries : ReconcileUnmatched(x)
  \/ ReconcileCommit

Next ==
  \/ ExecuteNext \/ ProviderNext \/ PollNext \/ ReconcileNext
  \/ \E x \in Entries : EventLost(x)
  \/ \E tx \in Txs : ListenerHandles(tx)

Spec == Init /\ [][Next]_vars

\* Handlers finish, polls go on and are answered again and again, and the
\* worker's threads handle what they are sent.  Nothing is assumed of users,
\* and of the provider and the chain only that a call returns.
FairSpec ==
  /\ Spec
  /\ WF_vars(ExecuteCommit) /\ WF_vars(ExecuteFails)
  /\ WF_vars(ProviderTakes \/ ProviderRefuses)
  /\ WF_vars(Fetch) /\ WF_vars(PollPublish) /\ SF_vars(PollCheck(TRUE))
  /\ WF_vars(ReconcileNext)
  /\ \A tx \in Txs : WF_vars(ListenerHandles(tx))

-----------------------------------------------------------------------------
(***************************************************************************)
(* Properties.                                                             *)
(***************************************************************************)

\* The type invariant.
TypeOK ==
  /\ balance \in Amount
  /\ known \in Amount
  /\ wd \in [Entries -> Withdrawal]
  /\ exec \in [Execs -> Row]
  /\ backend \in Handler
  /\ entry \in [Entries -> {"absent", "new", "reconciled"}]
  /\ link \in [Entries -> Execs \cup {None}]
  /\ bus \subseteq Entries
  /\ recon \in [entry : Entries \cup {None}, exec : Execs \cup {None}, seen : Status]
  /\ mined \subseteq Txs
  /\ notices \in [Txs -> 0 .. 2]
  /\ faults \in 0 .. MaxFaults

\* A completed execution is a withdrawal of just this amount that the provider
\* took and that is in a block: neither a batch, nor a withdrawal the user made
\* on the side, nor a stale notification completes the wrong one.
CompletedIsConfirmed ==
  \A e \in Execs : exec[e].status = "completed" =>
    /\ wd[e].state = "sent" /\ wd[e].amount = exec[e].amount
    /\ wd[e].tx = exec[e].txid /\ wd[e].tx \in mined

Rank(s) ==
  CASE s = "absent" -> 0 [] s = "requested" -> 1 [] s = "dispatched" -> 2
    [] s = "onchain_pending" -> 3 [] s \in {"completed", "failed"} -> 4

MovesForward(e) ==
  exec'[e].status = exec[e].status \/ Rank(exec'[e].status) > Rank(exec[e].status)

\* An execution only moves forward, and a finished one does not move, although
\* update_status of handler, poll, reconciler and listener is unconditional.
\* The one exception is a link within the floor of the tolerance: the
\* reconciler writes "dispatched" over what happened since its query.
ExecForward ==
  [][\A e \in Execs :
       \/ MovesForward(e)
       \/ recon.exec = e /\ wd[recon.entry].amount + exec[e].amount <= Floor]_vars

\* Withdrawals that the provider took and that no row follows: the row was never
\* committed, or says FAILED.
Untracked ==
  {e \in Execs : /\ wd[e].state # "none" /\ backend.exec # e
                 /\ exec[e].status \in {"absent", "failed"}}

\* The row is only flushed when the provider is asked, so a crash or a lost
\* answer leaves a withdrawal that nothing follows; each one costs a fault of
\* its own, and without faults every withdrawal is followed.
UntrackedCostsFault == Cardinality(Untracked) <= faults

\* An execution whose transaction id was learned before the block is completed
\* after the block, unless the provider paid it together with another one.
PendingCompletes ==
  \A e \in Execs, tx \in Txs :
    (/\ exec[e].status = "onchain_pending" /\ exec[e].txid = tx /\ Sent(tx) = {e}
     /\ tx \notin mined /\ <>(tx \in mined))
      ~> exec[e].status = "completed"

-----------------------------------------------------------------------------
(***************************************************************************)
(* What the repository's text says and the code does not do.  No run has   *)
(* these: TLC refutes OwnEntryIsLinked on the instance of withdrawals,     *)
(* WithdrawalCompletes on that of withdrawals_live, and MinimumKept on one *)
(* with Minimum = 1, Cap = 2 and MaxBalance = 4.                           *)
(***************************************************************************)

\* custodial_reconciler.py:3 "For each new deposit or withdrawal entry, attempts
\* to match against pending sweep_executions by direction, amount tolerance,
\* and time window": the entry of an execution is not put away as the user's
\* own while the execution waits and none other has its amount.
OwnEntryIsLinked ==
  [][\A e \in Execs :
       ~ /\ ReconcileUnmatched(e)
         /\ exec[e].status \in {"requested", "dispatched"}
         /\ \A o \in Execs \ {e} : exec[o].amount # exec[e].amount]_vars

\* How far it falls short: the reconciler compares a negative ledger amount
\* with a positive intended one, so it links an entry only when the two
\* together are within the floor.
LinkedIsTiny ==
  \A x \in Entries : link[x] # None =>
    wd[x].amount + exec[link[x]].amount <= Floor

\* "leave this much on the source": a computed withdrawal keeps the minimum.
MinimumKept == [][ProviderTakes => balance' >= Minimum]_vars

\* "both sides may fire in either order": a withdrawal that has its row and is
\* in a block completes its execution.
WithdrawalCompletes ==
  \A e \in Execs :
    (exec[e].wid = "set" /\ wd[e].tx \in mined) ~> exec[e].status = "completed"
=============================================================================
