-------------------------- MODULE ChainProjection ---------------------------
(***************************************************************************)
(* How bitcoind's chain becomes coins and ledger entries: the ChainListener *)
(* of the worker process applies one transaction per notification, and a   *)
(* rescan of a descriptor, run by the backend, imports the unspent outputs *)
(* that bitcoind reports.  Both write the same tables, each in one         *)
(* database transaction, without a lock between them.                      *)
(*                                                                         *)
(* Transactions and their outputs are constants.  An output may pay an     *)
(* address that was derived from a descriptor; a descriptor belongs to a   *)
(* holding.  A block holds one transaction, and there are no reorgs.       *)
(* Hygiene flags, labels and the direction of an entry are left out.       *)
(***************************************************************************)
EXTENDS Integers, Sequences, FiniteSets, Functions

CONSTANTS
  Txs, Outs,      \* transactions and their outputs
  Inputs,         \* Inputs[t]: the outputs that t spends
  Creator,        \* Creator[o]: the transaction that has output o
  Value,          \* Value[o]: its amount in satoshis
  Address,        \* Address[o]: derivation index of its address, or Foreign
  Foreign,        \* an address that no descriptor derives
  Descriptors,
  DescriptorOf,   \* DescriptorOf[a]: the descriptor that derives address a
  Change,         \* addresses of the change branches
  Holdings,
  HoldingOf,      \* HoldingOf[d]: the holding of descriptor d
  Primary,        \* Primary[h]: the descriptor the holding is created with
  Early,          \* descriptors that are attached before the first transaction
  Invoices,
  None,           \* a NULL column
  MaxQueue,       \* bound: ZMQ notifications waiting at the listener
  MaxFaults       \* bound: lost notifications, failed RPCs and crashes

Addresses == DOMAIN DescriptorOf

ASSUME ChainAssumption ==
  /\ IsFiniteSet(Outs)
  /\ Inputs \in [Txs -> SUBSET Outs]
  /\ Creator \in [Outs -> Txs]
  /\ Value \in [Outs -> Nat \ {0}]
  /\ Addresses \subseteq Nat /\ Foreign \notin Addresses
  /\ Address \in [Outs -> Addresses \cup {Foreign}]
  /\ DescriptorOf \in [Addresses -> Descriptors]
  /\ HoldingOf \in [Descriptors -> Holdings]
  /\ Change \subseteq Addresses
  /\ Primary \in [Holdings -> Descriptors]
  /\ \A h \in Holdings : HoldingOf[Primary[h]] = h
  /\ Early \subseteq Descriptors
  /\ \A d \in Early : Primary[HoldingOf[d]] \in Early
  /\ None \notin Txs \cup Outs \cup Addresses \cup Descriptors \cup Invoices
  /\ MaxQueue \in Nat /\ MaxFaults \in Nat

VARIABLES
  attached,   \* descriptors with their addresses in the database
  coin,       \* table utxo: "absent", "unspent" or "spent" per output
  spentBy,    \* column spent_in_txid
  height,     \* outputs whose confirmation_height is set
  known,      \* table onchain_transaction
  linked,     \* table ledger_entry_holding_link: <<transaction, holding>>
  amount,     \* column holding_amount_sats of a link
  entries,    \* table ledger_entry: number of rows per transaction
  invoice,    \* table invoice; "paid" stands for PAID and OVERPAID
  cancelling, \* the invoice that a cancel request has read as open
  listener,   \* the notification the ChainListener is working on
  scan,       \* the rescan the backend is running
  mempool, mined, notif,   \* bitcoind
  imported,   \* history: a rescan has inserted a row
  dropped,    \* history: a notification was lost, or was not applied to a
              \* transaction that is not known
  faults      \* faults that happened so far

coinVars   == <<coin, spentBy, height, known>>
ledgerVars == <<linked, amount, entries>>
paidVars   == <<invoice, cancelling>>
nodeVars   == <<mempool, mined, notif>>
histVars   == <<imported, dropped>>
vars       == <<attached, coin, spentBy, height, known, linked, amount, entries, invoice,
                cancelling, listener, scan, mempool, mined, notif, imported, dropped, faults>>

Outputs(t) == {o \in Outs : Creator[o] = t}

\* Outputs whose address is in the address table, and the holding they credit.
Owned(o)   == Address[o] # Foreign
Watched(o) == Owned(o) /\ DescriptorOf[Address[o]] \in attached
Holder(o)  == HoldingOf[DescriptorOf[Address[o]]]

IdleListener == [pc |-> "idle", tx |-> None, confirmed |-> FALSE]
IdleScan     == [pc |-> "idle", descriptor |-> None, new |-> {}, first |-> {}]

Init ==
  /\ attached = Early
  /\ coin = [o \in Outs |-> "absent"]
  /\ spentBy = [o \in Outs |-> None]
  /\ height = {} /\ known = {}
  /\ linked = {} /\ amount = [l \in Txs \X Holdings |-> 0]
  /\ entries = [t \in Txs |-> 0]
  /\ invoice = [i \in Invoices |-> [status |-> "none", address |-> None, tx |-> None]]
  /\ cancelling = None
  /\ listener = IdleListener /\ scan = IdleScan
  /\ mempool = {} /\ mined = {} /\ notif = <<>>
  /\ imported = FALSE /\ dropped = FALSE
  /\ faults = 0

Fault == faults < MaxFaults /\ faults' = faults + 1

-----------------------------------------------------------------------------
(***************************************************************************)
(* bitcoind (external).  A replacement is an eviction followed by the      *)
(* acceptance of the transaction that conflicts.                           *)
(***************************************************************************)
Spent(o, S) == \E t \in S : o \in Inputs[t]

Accept(t) ==
  /\ t \notin mempool \cup mined
  /\ \A i \in Inputs[t] : Creator[i] \in mempool \cup mined /\ ~Spent(i, mempool \cup mined)
  /\ Len(notif) < MaxQueue
  /\ mempool' = mempool \cup {t}
  /\ notif' = Append(notif, <<"tx", t>>)
  /\ UNCHANGED <<attached, coinVars, ledgerVars, paidVars, listener, scan, mined,
                 histVars, faults>>

Mine(t) ==
  /\ t \in mempool
  /\ \A i \in Inputs[t] : Creator[i] \in mined
  /\ Len(notif) + 2 <= MaxQueue
  /\ mempool' = mempool \ {t}
  /\ mined' = mined \cup {t}
  /\ notif' = notif \o << <<"tx", t>>, <<"block", t>> >>
  /\ UNCHANGED <<attached, coinVars, ledgerVars, paidVars, listener, scan,
                 histVars, faults>>

Evict(t) ==
  /\ t \in mempool
  /\ ~\E o \in Outputs(t) : Spent(o, mempool)
  /\ mempool' = mempool \ {t}
  /\ UNCHANGED <<attached, coinVars, ledgerVars, paidVars, listener, scan, mined, notif,
                 histVars, faults>>

-----------------------------------------------------------------------------
(***************************************************************************)
(* process_decoded_transaction: what one transaction does to the tables.   *)
(***************************************************************************)
SpentInputs(t) == {i \in Inputs[t] : coin[i] # "absent"}
Discovered(t)  == {o \in Outputs(t) : Watched(o)}
Affected(t)    == {Holder(o) : o \in SpentInputs(t) \cup Discovered(t)}

NewCoins(t)    == {o \in Discovered(t) : coin[o] = "absent"}

\* Seeded fault: entries are looked up by transaction and not by holding.
NewLinksPerTx(t) == IF \E h \in Holdings : <<t, h>> \in linked THEN {} ELSE {t} \X Affected(t)

NewLinks(t) == {l \in {t} \X Affected(t) : l \notin linked}

SumValues(S) == SumFunctionOnSet(Value, S)

\* Seeded fault: inputs are looked up among the rows that are not spent, after
\* all of them were marked.
NetAmountAfterMarking(t, h) == SumValues({o \in Discovered(t) : Holder(o) = h})

\* What the transaction adds to a holding, from the rows that are known now.
NetAmount(t, h) ==
  SumValues({o \in Discovered(t) : Holder(o) = h}) - SumValues({i \in SpentInputs(t) : Holder(i) = h})

\* scalar_one_or_none raises on two rows.  _link_payment_request_if_any looks
\* for the entry of every confirmed transaction that has no new one.
PaymentLookupRaises(t, confirmed) == confirmed /\ NewLinks(t) = {} /\ entries[t] > 1

EntriesAfter(t) == entries[t] + Cardinality(NewLinks(t))

\* Open invoices that an output pays.  _link_invoice_if_any looks only when a
\* coin or an entry is new, and settles the first one it meets.
PaidBy(t) ==
  IF NewCoins(t) = {} /\ NewLinks(t) = {} THEN {}
  ELSE {i \in Invoices : invoice[i].status = "open"
                         /\ \E o \in Outputs(t) : Address[o] = invoice[i].address}

InvoiceLookupRaises(t) == PaidBy(t) # {} /\ EntriesAfter(t) > 1

Raises(t, confirmed) == PaymentLookupRaises(t, confirmed) \/ InvoiceLookupRaises(t)

\* Seeded fault: the spender is not recorded.
MarkCoinsOnly(t) ==
  /\ coin' = [o \in Outs |-> IF o \in SpentInputs(t) THEN "spent"
                          ELSE IF o \in NewCoins(t) THEN "unspent" ELSE coin[o]]
  /\ UNCHANGED spentBy

MarkCoins(t) ==
  /\ coin' = [o \in Outs |-> IF o \in SpentInputs(t) THEN "spent"
                          ELSE IF o \in NewCoins(t) THEN "unspent" ELSE coin[o]]
  /\ spentBy' = [o \in Outs |-> IF o \in SpentInputs(t) /\ coin[o] = "unspent"
                                THEN t ELSE spentBy[o]]

\* Seeded fault: a row that is there already does not get its height.
HeightsOfNew(t, confirmed) == IF confirmed THEN height \cup NewCoins(t) ELSE height

HeightsAfter(t, confirmed) == IF confirmed THEN height \cup Discovered(t) ELSE height

LinkHoldings(t) ==
  /\ linked' = linked \cup NewLinks(t)
  /\ amount' = [l \in Txs \X Holdings |->
                  IF l \in NewLinks(t) THEN NetAmount(t, l[2]) ELSE amount[l]]
  /\ entries' = [entries EXCEPT ![t] = EntriesAfter(t)]

SettleInvoice(t) ==
  \/ PaidBy(t) = {} /\ invoice' = invoice
  \/ \E i \in PaidBy(t) : invoice' = [invoice EXCEPT ![i].status = "paid", ![i].tx = t]

-----------------------------------------------------------------------------
(***************************************************************************)
(* The ChainListener.                                                      *)
(***************************************************************************)
Dispatchable(m) == m[2] \in mempool \cup mined /\ (m[1] = "block" => m[2] \in known)

\* Nothing is kept of these transactions, and some may be unknown.
Drop(S) == dropped' = (dropped \/ ~(S \subseteq known))

ListenerFetch ==
  /\ listener.pc = "idle" /\ notif # <<>>
  /\ Dispatchable(Head(notif))
  /\ listener' = [pc |-> "fetched", tx |-> Head(notif)[2], confirmed |-> Head(notif)[2] \in mined]
  /\ notif' = Tail(notif)
  /\ UNCHANGED <<attached, coinVars, ledgerVars, paidVars, scan, mempool, mined, histVars, faults>>

\* getblockheader fails: a mined transaction is taken for a mempool one.
ListenerFetchNoHeader ==
  /\ listener.pc = "idle" /\ notif # <<>>
  /\ Dispatchable(Head(notif)) /\ Head(notif)[1] = "tx" /\ Head(notif)[2] \in mined
  /\ listener' = [pc |-> "fetched", tx |-> Head(notif)[2], confirmed |-> FALSE]
  /\ notif' = Tail(notif)
  /\ Fault
  /\ UNCHANGED <<attached, coinVars, ledgerVars, paidVars, scan, mempool, mined, histVars>>

\* An evicted transaction, or a block with no transaction that is known.
ListenerSkip ==
  /\ listener.pc = "idle" /\ notif # <<>>
  /\ ~Dispatchable(Head(notif))
  /\ notif' = Tail(notif)
  /\ IF Head(notif)[1] = "tx" THEN Drop({Head(notif)[2]}) ELSE UNCHANGED dropped
  /\ UNCHANGED <<attached, coinVars, ledgerVars, paidVars, listener, scan, mempool, mined,
                 imported, faults>>

\* Seeded fault: the utxo table has no unique constraint on the outpoint.
NeverBlocked(t) == FALSE

\* A row that an open rescan has inserted makes an insert of the same outpoint
\* wait for the end of the rescan.
Blocked(t) == scan.pc # "idle" /\ NewCoins(t) \cap scan.new # {}

Concerns(t) == SpentInputs(t) \cup Discovered(t) # {}

ListenerIgnores ==
  /\ listener.pc = "fetched" /\ ~Concerns(listener.tx)
  /\ listener' = IdleListener
  /\ UNCHANGED <<attached, coinVars, ledgerVars, paidVars, scan, nodeVars, histVars, faults>>

ListenerApplies ==
  /\ listener.pc = "fetched" /\ Concerns(listener.tx)
  /\ LET t == listener.tx IN
       /\ ~Blocked(t)
       /\ ~Raises(t, listener.confirmed)
       /\ known' = known \cup {t}
       /\ MarkCoins(t)
       /\ height' = HeightsAfter(t, listener.confirmed)
       /\ LinkHoldings(t)
       /\ SettleInvoice(t)
  /\ listener' = IdleListener
  /\ UNCHANGED <<attached, cancelling, scan, nodeVars, histVars, faults>>

\* The read loop logs the exception, and nothing of the transaction is kept.
ListenerRaises ==
  /\ listener.pc = "fetched" /\ Concerns(listener.tx)
  /\ ~Blocked(listener.tx)
  /\ Raises(listener.tx, listener.confirmed)
  /\ Drop({listener.tx})
  /\ listener' = IdleListener
  /\ UNCHANGED <<attached, coinVars, ledgerVars, paidVars, scan, nodeVars, imported, faults>>

\* ZMQ loses a message, or bitcoind does not answer for it.
NotificationLost ==
  /\ listener.pc = "idle" /\ notif # <<>>
  /\ notif' = Tail(notif)
  /\ dropped' = TRUE
  /\ Fault
  /\ UNCHANGED <<attached, coinVars, ledgerVars, paidVars, listener, scan, mempool, mined, imported>>

\* The worker ends; what bitcoind announces until it is back is not queued.
WorkerCrash ==
  /\ Fault
  /\ notif' = <<>>
  /\ listener' = IdleListener
  /\ dropped' = TRUE
  /\ UNCHANGED <<attached, coinVars, ledgerVars, paidVars, scan, mempool, mined, imported>>

-----------------------------------------------------------------------------
(***************************************************************************)
(* The backend.  A handler keeps the event loop until it is done, so no    *)
(* other handler runs during a rescan or a cancel request.                 *)
(***************************************************************************)
BackendIdle == scan.pc = "idle" /\ cancelling = None

\* The first descriptor comes with its holding, later ones are added to it.
AttachDescriptor(d) ==
  /\ BackendIdle
  /\ d \notin attached
  /\ d = Primary[HoldingOf[d]] \/ Primary[HoldingOf[d]] \in attached
  /\ attached' = attached \cup {d}
  /\ UNCHANGED <<coinVars, ledgerVars, paidVars, listener, scan, nodeVars, histVars, faults>>

\* scantxoutset for a branch: the outputs at its addresses that no block spends.
Unspent(d, change) ==
  {o \in Outs : /\ Owned(o) /\ DescriptorOf[Address[o]] = d
                /\ (Address[o] \in Change) = change
                /\ Creator[o] \in mined /\ ~Spent(o, mined)}

NewUnspent(d, change) == {o \in Unspent(d, change) : coin[o] = "absent"}

\* For every transaction the output that comes first in the result: the one
\* the entry or the link gets its amount from.
Firsts(S) ==
  {F \in SUBSET S : /\ \A o \in S : \E f \in F : Creator[f] = Creator[o]
                    /\ \A f, g \in F : Creator[f] = Creator[g] => f = g}

\* The outputs that a branch adds: all of them, or none when bitcoind refuses
\* the expression of the branch.
Branch(d, change) == {NewUnspent(d, change), {}}

ScanExternal(d) ==
  /\ BackendIdle
  /\ d \in attached
  /\ \E new \in Branch(d, FALSE) : \E first \in Firsts(new) :
       scan' = [pc |-> "external", descriptor |-> d, new |-> new, first |-> first]
  /\ UNCHANGED <<attached, coinVars, ledgerVars, paidVars, listener, nodeVars, histVars, faults>>

ScanChange ==
  /\ scan.pc = "external"
  /\ \E new \in Branch(scan.descriptor, TRUE) :
       \E first \in Firsts({o \in new : \A f \in scan.first : Creator[f] # Creator[o]}) :
         scan' = [pc |-> "change", descriptor |-> scan.descriptor,
                  new |-> scan.new \cup new, first |-> scan.first \cup first]
  /\ UNCHANGED <<attached, coinVars, ledgerVars, paidVars, listener, nodeVars, histVars, faults>>

\* get_by_source raises for a transaction with two entries.
ScanRaises == \E o \in scan.new : entries[Creator[o]] > 1

ScanLinks == {<<Creator[o], HoldingOf[scan.descriptor]>> : o \in scan.new} \ linked

\* A listener that waits for a row of the rescan meets the unique constraint
\* when the rescan commits, one that has not tried to insert it does not.
ConflictsWithScan ==
  listener.pc = "fetched" /\ NewCoins(listener.tx) \cap scan.new # {}

ScanCommit ==
  /\ scan.pc = "change" /\ ~ScanRaises
  /\ coin' = [o \in Outs |-> IF o \in scan.new THEN "unspent" ELSE coin[o]]
  /\ height' = height \cup scan.new
  /\ known' = known \cup {Creator[o] : o \in scan.new}
  /\ linked' = linked \cup ScanLinks
  /\ amount' = [l \in Txs \X Holdings |->
       IF l \in ScanLinks THEN SumValues({o \in scan.first : Creator[o] = l[1]}) ELSE amount[l]]
  /\ entries' = [t \in Txs |->
       IF entries[t] = 0 /\ \E o \in scan.new : Creator[o] = t THEN 1 ELSE entries[t]]
  /\ imported' = (imported \/ scan.new # {})
  /\ scan' = IdleScan
  /\ listener' = listener \/ (ConflictsWithScan /\ listener' = IdleListener)
  /\ UNCHANGED <<attached, spentBy, paidVars, nodeVars, dropped, faults>>

\* bitcoind does not answer (503), or an exception (500): all is rolled back.
ScanFails ==
  /\ scan.pc # "idle"
  /\ scan' = IdleScan
  /\ UNCHANGED <<attached, coinVars, ledgerVars, paidVars, listener, nodeVars, histVars, faults>>

\* Addresses of the holding's first descriptor that no open invoice holds.
\* The other condition of the query, that first_seen_height is not set, is
\* always true: nothing ever sets it.
Available(h) ==
  {a \in Addresses \ Change : DescriptorOf[a] = Primary[h]
       /\ ~\E i \in Invoices : invoice[i].status = "open" /\ invoice[i].address = a}

CreateInvoice(i, h) ==
  /\ BackendIdle
  /\ invoice[i].status = "none"
  /\ Primary[h] \in attached
  /\ \E a \in Available(h) :
       /\ \A b \in Available(h) : a <= b
       /\ invoice' = [invoice EXCEPT ![i] = [status |-> "open", address |-> a, tx |-> None]]
  /\ UNCHANGED <<attached, coinVars, ledgerVars, cancelling, listener, scan, nodeVars, histVars, faults>>

\* The status is read in one statement and written in another, without a lock:
\* the listener may settle the invoice in between, or write after the commit.
CancelReads(i) ==
  /\ BackendIdle
  /\ invoice[i].status = "open"
  /\ cancelling' = i
  /\ UNCHANGED <<attached, coinVars, ledgerVars, invoice, listener, scan, nodeVars, histVars, faults>>

CancelWrites ==
  /\ cancelling # None
  /\ \/ invoice' = [invoice EXCEPT ![cancelling].status = "cancelled"]
     \/ invoice[cancelling].status = "paid" /\ invoice' = invoice
  /\ cancelling' = None
  /\ UNCHANGED <<attached, coinVars, ledgerVars, listener, scan, nodeVars, histVars, faults>>

-----------------------------------------------------------------------------
NodeNext == \E t \in Txs : Accept(t) \/ Mine(t) \/ Evict(t)

ListenerTx == ListenerIgnores \/ ListenerApplies \/ ListenerRaises

ListenerNext == ListenerFetch \/ ListenerFetchNoHeader \/ ListenerSkip \/ ListenerTx
                \/ NotificationLost \/ WorkerCrash

BackendNext ==
  \/ \E d \in Descriptors : AttachDescriptor(d) \/ ScanExternal(d)
  \/ ScanChange \/ ScanCommit \/ ScanFails
  \/ \E i \in Invoices, h \in Holdings : CreateInvoice(i, h)
  \/ \E i \in Invoices : CancelReads(i)
  \/ CancelWrites

Next == NodeNext \/ ListenerNext \/ BackendNext

Spec == Init /\ [][Next]_vars

-----------------------------------------------------------------------------
(***************************************************************************)
(* Properties.                                                             *)
(***************************************************************************)
InvoiceRow == [status  : {"none", "open", "paid", "cancelled"},
               address : Addresses \cup {None}, tx : Txs \cup {None}]

ListenerState == [pc : {"idle", "fetched"}, tx : Txs \cup {None}, confirmed : BOOLEAN]

ScanState == [pc : {"idle", "external", "change"}, descriptor : Descriptors \cup {None},
              new : SUBSET Outs, first : SUBSET Outs]

\* The type invariant: a coin is spent exactly when its spender is recorded,
\* and the other tables hold what the code writes to them.
TypeOK ==
  /\ attached \subseteq Descriptors
  /\ coin \in [Outs -> {"absent", "unspent", "spent"}]
  /\ spentBy \in [Outs -> Txs \cup {None}]
  /\ \A o \in Outs : coin[o] = "spent" <=> spentBy[o] # None
  /\ height \subseteq Outs /\ known \subseteq Txs
  /\ linked \subseteq Txs \X Holdings
  /\ amount \in [Txs \X Holdings -> Int]
  /\ entries \in [Txs -> Nat]
  /\ invoice \in [Invoices -> InvoiceRow]
  /\ listener \in ListenerState /\ scan \in ScanState
  /\ mempool \subseteq Txs /\ mined \subseteq Txs
  /\ notif \in Seq({"tx", "block"} \X Txs)
  /\ cancelling \in Invoices \cup {None}
  /\ imported \in BOOLEAN /\ dropped \in BOOLEAN
  /\ faults \in Nat

\* Listener and rescan write the utxo table without a lock between them; the
\* unique constraint alone keeps a row from going backward: a coin never
\* disappears, is never unspent again, and keeps the transaction that spent it.
CoinForward(o) ==
  /\ coin[o] # "absent" => coin'[o] # "absent"
  /\ coin[o] = "spent" => coin'[o] = "spent" /\ spentBy'[o] = spentBy[o]

CoinsForward == [][\A o \in Outs : CoinForward(o)]_vars

\* The ledger accounts for every coin: the holding of a coin has an entry for
\* the transaction that brought it and for the one that spent it, whichever of
\* the listener and the rescan saw which of them first.
CoinsAreInLedger ==
  \A o \in Outs :
    /\ coin[o] # "absent" => Creator[o] \in known /\ <<Creator[o], Holder(o)>> \in linked
    /\ coin[o] = "spent"  => spentBy[o] \in known /\ <<spentBy[o], Holder(o)>> \in linked

Balance(h) == SumValues({o \in Outs : coin[o] = "unspent" /\ Holder(o) = h})

LedgerTotal(h) == SumFunctionOnSet(amount, {l \in linked : l[2] = h})

\* The holding was watched from the start, every transaction of the listener's
\* was applied when it was announced, and no known transaction replaced another.
Undisturbed(h) ==
  /\ \A d \in attached : HoldingOf[d] = h => d \in Early
  /\ ~dropped
  /\ \A t, u \in known : t # u => Inputs[t] \cap Inputs[u] = {}

\* From notifications alone the ledger of a holding adds up to its balance, at
\* every moment and in whichever order the transactions are mined.
LedgerAddsUp ==
  \A h \in Holdings : Undisturbed(h) /\ ~imported => LedgerTotal(h) = Balance(h)

\* An invoice that is settled was credited: the entry it refers to is an entry
\* of the holding that asked for the payment, whatever the listener, a rescan
\* and a cancel request did to the transaction and to the invoice before.
PaidInvoiceIsCredited ==
  \A i \in Invoices : invoice[i].tx # None =>
    <<invoice[i].tx, HoldingOf[DescriptorOf[invoice[i].address]]>> \in linked

OneDescriptor(t) ==
  \A x, y \in {o \in Outputs(t) \cup Inputs[t] : Owned(o)} :
    DescriptorOf[Address[x]] = DescriptorOf[Address[y]]

InListener == {notif[k][2] : k \in DOMAIN notif}
              \cup (IF listener.pc = "fetched" THEN {listener.tx} ELSE {})

\* Nothing that can still set the height of a coin is left to do.
MinedAndHandled(t) == t \in mined /\ t \notin InListener /\ ~dropped

\* A coin can only be spent by a payment once its height is set.  When the
\* listener has handled the block of a transaction that concerns a single
\* descriptor, every coin of it has its height: whether it was found in the
\* mempool, after the block, without a header, or by a rescan at the same time.
MinedCoinsConfirmed ==
  \A o \in Outs :
    coin[o] # "absent" /\ MinedAndHandled(Creator[o]) /\ OneDescriptor(Creator[o]) => o \in height

-----------------------------------------------------------------------------
(***************************************************************************)
(* What the repository's text says and the code does not do.               *)
(***************************************************************************)

\* "Mempool acceptance via hashtx will have already taught us about ours; this
\* pass just refreshes confirmation_height" (ChainListener._handle_block).
BlockConfirms ==
  \A o \in Outs : coin[o] # "absent" /\ MinedAndHandled(Creator[o]) => o \in height
=============================================================================
