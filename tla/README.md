# TallyKeep in TLA+

TallyKeep is a self-hosted treasury for Bitcoin: it watches the user's own
descriptors through bitcoind, mirrors Accounts at custodial providers (Kraken,
Bitstamp), builds payments for an external signer, and moves funds between the
two by sweep policies.  This directory holds TLA+ models of its core, TLC runs on
small instances, and TLAPS proofs for every instance.  `PROJECT.json` maps each
definition to the source lines it stands for.  Source paths below are relative to
`src/backend/tallykeep/`.

## 1. The system

### Processes and shared state

| Process | What runs in it |
| --- | --- |
| backend | FastAPI handlers (`api/v1`).  They are `async def` without an `await`, so one handler runs at a time and keeps the event loop while it waits for bitcoind or a provider. |
| worker | Threads: `ChainListener` (ZMQ), `SelfCustodyPoller` (every 900 s), the event bus's read loop (`CustodialPoller`, `CustodialReconciler`, `Categorizer`, `SweepEngine`), the poll scheduler, the job thread, and an audit loop. |
| Postgres | READ COMMITTED; sessions with `autoflush=False`.  No row is locked explicitly. |
| Redis | Pub/sub without persistence: an event that nobody hears is gone. |
| bitcoind, providers | External.  RPC answers, ZMQ notifications and HTTP answers may be lost after the effect has happened. |

### Inventory

| Component | State | Operations | Hard part | Module |
| --- | --- | --- | --- | --- |
| Payments (`services/banking_service.py`, `api/v1/banking.py`, `repositories/payment_request.py`) | `payment_request`, `broadcast_attempt` | build, submit signature, broadcast, cancel | a check long before the insert it protects; an RPC in the middle of a transaction; answers that are lost | `Payments`, `PaymentLifecycle` |
| ChainListener: links (`workers/listeners/chain_listener.py`) | status of requests, executions, invoices | one handler per notification | order of notifications, lookups that raise | `Payments`, `Withdrawals`, `ChainProjection` |
| SelfCustodyPoller (`workers/schedulers/self_custody_poller.py`) | `sweep_execution` | one cycle over the enabled policies | works from a list it read before; an exception ends the cycle | `SweepPolicies`, `Payments` |
| Sweep policies (`services/treasury_service.py`) | `sweep_policy` with warnings and acknowledgements | create, update, acknowledge, enable, disable, delete, pause-all, resume-all | rows that cannot be read back; bulk updates behind the checks | `SweepPolicies` |
| Account sweeps (`execute_sweep_now`, `api/v1/internal_custodial.py`) | `sweep_execution`, provider balance | execute-now, poll cycle | the provider is called before the row is committed; transaction id and block in either order | `Withdrawals` |
| CustodialReconciler | links of `custodial_ledger_entry` | on ledger_entry_added | signs and tolerances; unconditional status writes | `Withdrawals` |
| Chain projection (`services/chain_processing_service.py`) | `utxo`, `onchain_transaction`, `ledger_entry` and links | apply one transaction | parents after children, replacements, several holdings in one transaction | `ChainProjection` |
| Chain scan (`services/chain_scan_service.py`) | the same tables | rescan of a descriptor | overlaps the listener without a lock | `ChainProjection` |
| Descriptors, invoices | `descriptor`, `address`, `invoice` | attach, create, settle, cancel | reuse of addresses, cancel against settlement | `ChainProjection` |
| Secret store and unlock (`infrastructure/secrets.py`, `cryptography.py`) | parameters, canary, encrypted secrets, the key in memory | initialise, unlock, lock, set, get, delete | three commits of one initialisation; a crash between two of them | `SecretStore`, `Custody` |
| Custodial providers (`api/v1/custodial_providers.py`, `services/treasury_service.py`) | `custodial_provider` with references to secrets | create, rotate credentials, delete, refresh | secrets are committed one by one, before the row that refers to them | `Custody` |
| Custodial polling (`workers/subscribers/custodial_poller.py`, `api/v1/internal_custodial.py`, `infrastructure/job_queue.py`) | `_dispatch_enabled`, connection status and error count, job queue | tick, burst, one-shot job, poll cycle | lock and unlock events that are lost or late | `Custody`, `Withdrawals` |
| Authentication (`api/auth_middleware.py`, `api/lock_middleware.py`, `api/v1/auth.py`, `api/v1/pairing.py`) | pairing tokens, `paired_device`, credential cache, attempt counters | issue, redeem, admit, revoke, unlock attempt | a cache that outlives its row; windows that meet | `Access` |
| Event bus (`infrastructure/event_bus.py`) | subscriptions, active patterns, the reader thread | subscribe, unsubscribe, publish, dispatch | subscription against delivery; lost connections | `EventBus` |
| Outbox, categorizer, event stream (`infrastructure/event_emission.py`, `workers/subscribers/categorizer_suggester.py`, `api/v1/events_stream.py`) | event log, suggestions, one queue per client | emit, acknowledge, republish, suggest, send | at least once over a bus that loses; a subscriber of its own topic; a full queue | `EventDelivery` |
| Holdings (`services/holding_service.py`, `repositories/holding.py`, `domain/holding.py`) | `holding` with subtype_data and descriptors | create (four types), patch, change type, attach, delete | rows that the constructor refuses to read; two commits per creation | `Holdings` |
| Security health (`services/security_health_service.py`, `api/v1/security_health.py`) | `security_health_item` | emit, resolve, revive, fix metadata | a repair that writes behind the domain class | `Holdings` |
| Descriptor adapter (`adapters/descriptor_adapter.py`) | none | parse, classify | two readings of one text | `Descriptors` |
| SweepEngine, provider adapters, analysis and hygiene, migrations, frontend | | | see section 6 | not modelled |

Components call each other inside a process, meet in the database across
processes, and notify each other over Redis.  Three of them rely on an event being
delivered: the reconciler (`Withdrawals`), the custodial poller, which an unlock wakes up
(`Custody`), and whoever is to hear of a critical event, which has the outbox behind it
(`EventDelivery`; in this version nothing calls `emit_critical` or `acknowledge` yet).

## 2. Modules

Each component has a module `X` (state, one action per handler or step, the
properties), `MCX` with its instance for TLC and `XProofs` with its theorems.
`PaymentLifecycle` is the abstract specification that `Payments` implements.

**Payments.**  `pr`, `attempts`, `exec` and `ledger` are tables; `api`, `poller` and
`listener` are what a process holds between its reads and its commit.  Building is
two steps (check and read; insert and commit) because the backend and the poller
run it concurrently.  Broadcast is: read, `sendrawtransaction`, commit, with the
loss of the answer and a crash in between.  The listener fetches a notification,
then projects and links in one transaction.  A transaction is named by the request
whose PSBT describes it; a signer may hand in any transaction, as the code does not
compare it with the PSBT.

**SweepPolicies.**  A policy row is turned into an object whenever it is read, and
the constructor raises for an enabled row with an open warning.  `Loads` is that
constructor; every handler that reads has it as a guard, the bulk updates of
pause-all and resume-all do not.  The poller takes a list and works it off.  `source` is
what it finds of a policy's source holding: below the threshold or gone (`quiet`), over it
(`due`), or a row that the constructor of `Holding` refuses (`refused`), which ends the
cycle (`PollRaises`).

**Withdrawals.**  The handler of execute-now, the provider, the poll cycle, the
reconciler (query and commit apart) and the listener's completion.  Amounts are
integers, the tolerance is the code's arithmetic, the sign of a ledger amount is
the provider adapter's.

**ChainProjection.**  Transactions, outputs, addresses, descriptors and holdings
are constants.  `ListenerApplies` is `process_decoded_transaction` with its links and
the settlement of an invoice, as one transaction.  A rescan has a step per branch
(`scantxoutset` takes minutes) and one commit.  `Blocked` is the wait at the unique
constraint of the outpoint; after the rescan's commit the listener either fails or
sees the new row.  Cancelling an invoice reads and writes in two steps.

**SecretStore** has the operators of the store, one per committed step, and is extended
by `Custody` and `Access`.  A key is named by its passphrase, so "decrypts" is equality.

**Custody.**  A backend handler that writes secrets is a list of store operations
(`handler.todo`), each committed by itself, and a last step that commits the row.
Between two steps the process may end or the database fail; `torn` remembers whose
handler that was.  The worker hears `system.locked` and `system.unlocked` over `wire`
only while it is up.  Ticks, bursts and jobs put a provider into `requests`; a poll
cycle ends as dropped, answered, refused or failed and writes status and error count,
and then publishes (`told`).

**Access.**  Time is kept as what an expiry has left and how old an event is, so the
clock needs no bound.  A request is admitted by the middleware and served by its
handler in two steps, because `call_next` is awaited.  The handler of the event stream has
no end of its own: once opened (`EventsStream`), only the client ends it (`Disconnect`).
`wrongs` is a history: for each age up to the window, how many wrong attempts were judged
since then.

**EventBus** and **EventDelivery.**  `EventBus` is `RedisEventBus`: `subscribe` changes the
list and the active patterns and then asks Redis for the new ones (`asked`), which may
raise half-way (`SubscribeFails`); Redis learns of the patterns later, sends one copy per
matching pattern, and the reader takes a snapshot of the list at the start of a dispatch
(`snap`) and goes through it to the next handler that matches (`Dispatch`), one call per
step.  `EventDelivery` composes it with its users: the outbox
(`emit_critical`, `acknowledge`, `AuditReconciler`; the first two for any event at any time,
as they have no caller), the categorizer, and the generator
of the event stream, which stands at a `yield` until the client has read.

**Descriptors** and **Holdings.**  An expression is a record of the facts that `parse`,
`classify_descriptor` and `_extract_multisig_params` look at, the number of extended keys
among them, which is what the signers of a Vault are counted by.  A descriptor row has its
raw text, and uniqueness is that of the text.  `Constructs` is the constructor of the domain class, run on
every read of a row.  A creation commits the holding and then its item (`pending`), and
may end in between.  The handlers that write behind the constructor (attachment, repair,
deletion) do so in the model as well.

## 3. Runs

| Run | Instance | What it shows |
| --- | --- | --- |
| `payments` | 1 holding, 2 requests, 2 executions, 2 calls per request, queue of 3, 1 fault | Safety of payments through lost answers, lost notifications and crashes, and that requests follow `PaymentLifecycle`. |
| `payments_settle` | 2 holdings, 2 requests, a foreign transaction, no faults, fair | A payment from one holding is confirmed once its block was announced. |
| `sweep_policies` | 2 policies, one with a Vault as its source, either source may become unreadable, 1 warning, fair | Who can make a policy unreadable and who can repair it; acknowledgements survive; the poller serves every policy that no other one's exception stands before; a pause takes effect. |
| `withdrawals` | 2 executions, 1 foreign withdrawal, balance up to 2, batching, 1 fault | What completes and moves an execution, and what an untracked withdrawal costs. |
| `withdrawals_live` | 2 executions, 2 transactions, no faults, fair | Known transactions complete. |
| `chain` | 3 transactions (a payment, a transfer between two holdings, its replacement), 2 descriptors of which one is attached late, 1 invoice, queue of 2, 1 fault | Listener and rescan keep coins and ledger together in every overlap. |
| `chain_internal` | violation | A transfer between own holdings never gets its height. |
| `custody` | 1 account, 2 passphrases, 2 generations of credentials, 1 fault, 2 events under way, unreachable after 3 errors, fair | Key, canary and secrets fit; committed accounts have their secrets unless a handler was interrupted; without one no secret is left over; polling resumes. |
| `access` | 2 tokens, 2 devices, 1 client, cache and window of length 1, tokens that expire at the next tick, set up with one of two passphrases, fair | A token makes one device; a revoked device is admitted until the cache's period is over and never after, and its requests come to an end, an open event stream apart; a window lets at most twice the limit through. |
| `event_delivery` | 2 processes, the categorizer and a stream with overlapping patterns, 1 critical event, 1 entry, queue of 1, 1 fault, fair | Bus and users stay consistent; a handler is called at most once after its unsubscribe; a persisted critical event is published again and again until it is acknowledged, and not for good after that. |
| `categorizer_storm` | the same without faults; violation | The categorizer answers its own publication for ever. |
| `holdings` | 2 holdings, 3 texts (single key, multisig, raw keys), 2 items, 2 descriptors per holding, 1 fault | Only a repair makes a row unreadable; risks stay reported; what the wizard suggests can be created and what it rejects cannot, for every shape of an expression but three that are named. |

**Bounds.**  Two of each kind is enough for the conflicts in question: every race here is
between two writers of one row or two readers of one check, and a third adds no new
conflict.  Queues hold the two notifications of a block and one more where a child
waits behind its parent.  One fault at any moment reaches every single failure;
what a property says after faults is that one fault breaks nothing else.  In `custody`
one account is enough, since nothing of one account is read for another.  Its three errors
stand for the code's five (`_N_UNREACHABLE`): the number is only compared, the theorems
hold for any from two on, and TLC has passed the run with five as well, in three and a half
minutes.  In `access` a period of one already has an inside, an end and an
outside, and the limit of one failure is met and passed; two clients share nothing; the
passphrases are interchangeable, so the one of the setup is fixed (`MCSpec`).  In
`event_delivery` a queue of one overflows at the second event and a wire of two holds both
copies of a message with two matching patterns.  Symmetry is used in `payments`,
`withdrawals` and `holdings`, which check no liveness.  Deadlock is not checked in
`payments*`, `chain*`, `custody` and `event*`, where a finite supply of requests,
transactions, faults or references simply runs out.

**Fairness.**  Only steps that a loop of the program takes by itself are fair: the
listener takes what is queued and finishes it; a handler that was started ends; the
pollers wake up again; the reconcilers handle what they are sent and read again.  Nothing
is assumed of users and signers, nor that a transaction is mined, nor that anything
restarts.
* `Withdrawals` has strong fairness of a poll that reaches the provider, since one attempt
  may fail and the next one comes.
* `Custody` has strong fairness of the end of a poll request: it is an HTTP request with a
  timeout, and waits only while another handler runs.
* `Access`: time passes, and an admitted request is served, or becomes an event stream.
  That a stream is closed is not assumed.
* `EventDelivery` has strong fairness of handlers and of the republication, because in the
  model they wait for `MaxWire`, and in the code they do not.  That anybody acknowledges is
  not assumed.

## 4. Proofs

Every safety property that a run checks, invariant or action property, is also a theorem,
for all values of the constants that satisfy the named assumptions: distinct names, NULL
is no value, constants of the right type, a transaction has finitely many outputs
(`ChainAssumption`), a subscription finitely many patterns (`BusConstants`).  TLC checks the
assumptions on the instances.  Bounds such as `MaxFaults` or `MaxWire` are constants of the
theorems like all others: they hold for any number of faults.  The new conjuncts of an
inductive invariant were checked with TLC before they were proved.

* **PaymentsProofs.**  A commit acts on what its process read earlier, so the
  invariant says what each process may still rely on: the builder's check is still
  true for its own origin (`BuilderSafe`, as each origin has one builder at a time),
  the request of a handler that waits for bitcoind does not move (`SendingSafe`), what
  the listener fetched stays mined (`ListenerSafe`), and what a status says of a row
  (`RowSafe`).  It gives `TypeOK`, `OneInFlightPerOrigin`, `ConfirmedIsSettled`,
  `OneConfirmedPerTx`, `AcceptedAttemptMatches`.  A second invariant on top relates
  calls, audit rows and the node and gives `NodeTxIsKnown`.  `ImplementsLifecycle` is
  proved step by step: each action is one step of `PaymentLifecycle` or a stutter.
* **SweepPoliciesProofs.**  `TypeOK` and `RunsHavePolicy` are inductive together; the
  action properties follow from `TypeOK`.
* **WithdrawalsProofs.**  `CompletedIsConfirmed` needs what the handler holds between
  call and commit (`HandlerOK`) and what the poll copied (`RowOK`).  `LinkedIsTiny`, which
  no run has, says how little the reconciler links; it needs the pending link
  (`ReconcilerOK`) and an arithmetic lemma on the tolerance.  `WithdrawalsNeverBack`: if the smallest withdrawal is more than half the
  floor, no execution ever moves backward.  `UntrackedCostsFault` counts: a withdrawal
  that nothing follows is paid for when its answer is lost, which is before the row says
  FAILED, so the invariant (`LostInv`) counts from there (`Doomed`), and each step adds at
  most one to the set and then uses up a fault.
* **ChainProjectionProofs.**  `CoinsForward` needs `ScanOK` (what an open rescan
  inserted is absent for everyone else), `PaidInvoiceIsCredited` needs `InvoicesOK` (the
  address of an invoice is watched); `CoinsAreInLedger` and `TypeOK` come with them.
  `LedgerAddsUp` needs the order of the queue (`OrderOK`: a spender is notified after what it
  spends) so that the first entry of a transaction has its whole effect (`SeenOK`), that
  only outputs of attached descriptors become coins (`WatchedOK`), and that the links
  are finite.  The sums are folds over finite sets; the first section of the module shows,
  by a smallest counterexample among the finite subsets, that a fold of integers is
  the difference of two cardinalities (its units and its debts), and from that how a sum splits.  `MinedCoinsConfirmed`
  needs that the block of a transaction is queued behind its announcement (`BlocksOK`), that
  a transaction of one descriptor never gets two entries (`OneEntry`), so that its lookups
  do not raise, and that the listener finds all outputs of such a transaction together
  (`FoundWhole`).
* **HoldingsProofs.**  `HoldingsInv` and `RiskIsReported` follow from one inductive
  invariant `HInv`.  It adds that exactly the Accounts have no descriptors (`DescShape`:
  without it a change of type could give a descriptorless holding), and what the handler
  between its commits may rely on (`PendingKnown`: the holding is stored and shows no risk
  but that of the pending item).  Its row parts are kept by any write of one row that is
  legal or marked and repeats no expression (`OneRowInv`), which every action is reduced
  to.  `DeadVault`, which no run has, is an action property that says how far a repair
  falls short: a row with signers and the mark passes no type's
  rules, and every handler leaves both in place.  `SuggestionWorks` is proved for the
  descriptor rules themselves, the count of the signers included, by the form of the
  expression, for every number of keys.
* **AccessProofs.**  `AccessInv` is not inductive.  One device per token needs that every
  token a device came from is used up (`TokensUsed`).  The bound of twice the limit needs
  what an entry says of the attempts (`EntryCovers`): those as young as the entry are in its
  count, those before it were all judged in one earlier window, and an entry that has
  expired has no attempt at the present moment.  `RevocationTakesEffect` follows from
  `CacheOutlivesByTTL`.
* **CustodyProofs.**  The properties speak of the store between handlers, the invariant
  `CInv` of what an open handler still owes: its operations touch its own provider's
  references only (`OnlyOwn`), each secret its commit refers to is stored or still to be set
  (`WillBeSet`), and without faults each secret that it leaves behind is still to be deleted
  (`WillBeDeleted`).  For the poller, the last event under way tells how the store is
  (`WireInv`).  It gives `CustodyInv`, `RowsHaveSecrets` and `NoOrphanSecrets`;
  `HalfInitializedForever`, which no run has, is an action property that says how an
  interrupted initialisation falls short of what its text promises.
* **EventDeliveryProofs.**  The invariant `EInv` has one part for each group of variables.
  `DeliveryConsistent` needs that no subscription is twice on a list and that the active
  patterns are finitely many (`SubsInv`: the number of copies of a message is a number), and
  that messages about an entry exist only once it was announced (`WireInv`, `SnapInv`).
  `UnsubscribeStops` needs that a handler which was removed is on no list, and once it
  was called is not ahead of the dispatch either (`LateInv`).  That without a fault Redis was
  asked for every active pattern is an invariant of its own on top (`AskedInv`).  Lemmas on lists say what
  appending, removing at a position, and going on to the next match leave.

`TypeOK` of `Payments`, `SweepPolicies` and `Withdrawals` is proved and has no run of its own;
that of the other modules is part of an invariant above.

**Only model-checked: liveness** (`PaymentSettles`, `PollerServes`, `PauseTakesEffect`,
`PendingCompletes`, `PolledAgain`, `RevokedRequestsEnd`, `CriticalIsRepeated`,
`AcknowledgedIsQuiet`).  The prover does not do ENABLED, and so not fairness.  What the
recursive function of `TopicMatches` computes is not looked into by any proof: the
theorems about the bus hold for any matching of topics and patterns.

## 5. Limits of the models

* No reorgs (the code has no handling of one); one transaction per block.
* The deletion of a holding (`delete_cascade`, `repositories/holding.py:267`) is in `Holdings`
  and, for policies and their executions, in `SweepPolicies`.  What else it deletes
  (`:328` to `:413`) is left out: coins, addresses and ledger entries in `ChainProjection`,
  requests and broadcast attempts in `Payments`, provider and mirrored entries in `Withdrawals`
  and executions of account sweeps there.  Their properties, `CoinsForward` and
  `ConfirmedIsSettled` for example, are about holdings that are kept.
* Payments: "open" is REQUESTED and AWAITING_USER_CONFIRMATION; the ledger entries of a
  transaction stand for its `onchain_transaction` row; a payment to an invoice is only
  in `ChainProjection`.  `Autoflush` is FALSE in the code; the proofs hold for both values.
* Withdrawals: one provider and policy, one 24 h period and one reconciliation window;
  page limits (50, 100 rows, 7 days) are left out; the provider's minimum is external;
  the inflow side of the reconciler matches no status that occurs and is left out.
  There is no property that every mirrored entry is reconciled, because it is not so: the
  entries that `create_account_holding` writes (`services/treasury_service.py:379`) are never
  published, trades and fees return early (`workers/subscribers/custodial_reconciler.py:84`),
  and a publication that is lost is not repeated.
* SweepPolicies: whether the destination holding loads is not tracked; a policy that
  raises in every cycle starves those behind it, which `Serviceable` excludes.
* ChainProjection: hygiene flags, labels and directions are left out, and with them a
  lock conflict on the flags of a sibling coin.  Amounts are positive.  PAID and
  OVERPAID are one status.  `last_scanned_height` is left out.

* Custody: the provider accepts the credentials before the handler writes (a refused
  attempt changes nothing); a reference is a fresh uuid, here the next free generation;
  errors are counted up to the threshold.  A setup token of the wizard is not modelled: it
  only skips a second validation.
* Access: hashing is the identity of a device; the limit's dictionary never loses a client.
* EventBus: only messages that `publish` itself formed are on the wire; any other for which
  `_envelope_to_event` raises (`infrastructure/event_bus.py:352`) would end the reader thread.
* EventDelivery: the in-memory bus and queue of the tests are left out; events that no user
  here looks at are left out.
* Holdings: names, risk profile and notes are left out, as no operation reads them back;
  so is the notice of the profile (`principles_ack`), which belongs to no holding.  The address
  check of a repair passes, as the user repairs with the same wallet's descriptor.  A
  creation brings one descriptor; the code takes a list (`services/holding_service.py:206`),
  and which of its rows is the first afterwards is open when they have the same
  `created_at`.  The instance has one spelling per wallet, so that a second spelling of a
  wallet, which the code accepts, is only in the theorems.

Some properties leave out, by a premise or by the instance, the very case that a hazard is
about; `PROJECT.json` says so at the hazard.  `OneInFlightPerOrigin` is about the requests
of one builder and says nothing of the race between the two.  `PendingCompletes` starts from a
row with a transaction id and a block that comes after it, so not from the other order or
from a lost publication.  `PaidInvoiceIsCredited` does not see a cancel that overwrites the
status.  `PolledAgain` is about runs without a fault, so a lost unlock event is not in it.
`RevocationTakesEffect` and `RevokedRequestsEnd` allow the period of the cache, and the
second one streams that are open.  `HoldingsInv` allows rows that a repair marked, and
`RiskIsReported` a creation that ended between its two commits.  In each case the
code has the case and does nothing about it, and the text below says so.

### Disagreements

Those with a run are in `PROJECT.json` under `findings`.  The others that can be stated as a
property are in the modules, under the heading that no run has them, with the instance on
which TLC refutes each:

| Property | The code | The text |
| --- | --- | --- |
| `Payments!OneInFlight` | the poller and the backend both pass the check before either inserts (`services/banking_service.py:209`, `:332`) | `repositories/payment_request.py:108`, and the advisory lock of `outflow.md:308` |
| `Payments!SweepPaymentCompletesExec` | with `autoflush=False` the execution's link is not found (`workers/listeners/chain_listener.py:372`) | `workers/schedulers/self_custody_poller.py:229` |
| `SweepPolicies!EnabledIsAcknowledged` | `resume_all` enables rows with open warnings (`repositories/sweep_policy.py:176`) | `domain/sweep_policy.py:76`, `specs/concerns/sweep_policies.md:98` |
| `Withdrawals!WithdrawalCompletes` | block first, transaction id second: ONCHAIN_PENDING for ever (`api/v1/internal_custodial.py:293`) | `sweep_policies.md:201` |
| `Withdrawals!MinimumKept` | two executions from one stale balance go below the minimum (`services/treasury_service.py:898`) | `sweep_policies.md:154`, `02_domain_model.md:626` |
| `Withdrawals!OwnEntryIsLinked` | debits are negative in the mirrored ledger and intended amounts positive, so the reconciler links an entry only when both are within the floor (`LinkedIsTiny`), and there also foreign withdrawals; a real withdrawal becomes UNMATCHED while its execution waits | `workers/subscribers/custodial_reconciler.py:3`, `sweep_policies.md:223`, `:235`, `:246` |
| `Custody!InitializeRecoverable` | a crash between the parameters and the canary leaves a store that neither initialises nor unlocks (`HalfInitializedForever`) | `infrastructure/secrets.py:175` "recoverable", `:191` "treat as not initialized to force re-initialization" |
| `Access!RevokedIsRefused` | a revoked device is admitted until its cache entry expires | `api/auth_middleware.py:16` "entries are evicted on revocation", `api/v1/auth.py:140` |
| `Holdings!RepairKeepsReadable` | a Vault or Purse that `fix_metadata` repaired cannot be read again, a Vault never (`DeadVaultForever`) | `services/security_health_service.py:81` "for Strongbox / Vault", ADR 0019:61 |

Met while modelling, without a property of their own:

* The audit row of a broadcast is flushed, not committed, before the RPC; a crash
  loses it.  A request whose answer was lost can be cancelled although it is under way.
* A finalised PSBT or raw transaction is not compared with the request.
* A payment between own holdings is never confirmed: the lookup by transaction raises
  (the same cause as `chain_internal`).
* A pause is not seen by the poller's cycle under way; a Vault, a deleted policy,
  or a source holding that does not load ends the cycle for the policies after it; the cap is not accumulated over a period;
  execute-now ignores the dry-run flag.
* Withdrawals that share a transaction id are never completed (the lookup raises).
* Events between commit and publication are lost in a crash.
* `next_unused_address` filters on `first_seen_height`, which nothing sets: an address is
  given out again as soon as its invoice is settled or cancelled.
* A rescan books the first of several outputs of one transaction only, never marks
  coins spent, and adds a link to an existing entry where the module's text says
  "one LedgerEntry per holding, not one global entry".  After it, or after a parent
  that is seen behind its child, the ledger of a holding does not add up to its
  balance.
* A replaced transaction is booked as well as its replacement, and leaves its change
  behind as a coin.
* A transaction that pays an open invoice and touches two holdings raises at every
  notification and is not recorded; one that pays two invoices settles the first.
* A cancel request that overlaps the settlement of an invoice overwrites its status.
* A rotation deletes the old secrets before it writes the new ones: interrupted, the
  account is without credentials, and a poll of it is answered like a locked store (423),
  so that no status shows it.  A PATCH with nothing but a passphrase is ignored.
* An Account with a wrong claim is refused by the constructor after its secrets were
  written.  A setup token is not bound to the credentials it was issued for and is used up
  when the creation fails.
* An authentication failure is published again at every poll.
* The cursor of the custodial ledger goes by time and does not see a later change of an
  entry's status.  `BitstampAdapter` lacks the abstract `fetch_ledger_since`.
* A cancelled job is gone from the list of jobs.
* An event stream that was open at the revocation goes on until the client leaves
  (`Access!RevokedStreamsEnd`, which TLC refutes): nobody looks at the device again.
* A `psubscribe` that raises leaves its pattern active and unknown to Redis, and no later
  subscription asks for it again (`infrastructure/event_bus.py:295`).
* Overlapping patterns of a connection deliver an event once per pattern
  (`infrastructure/event_bus.py:296`); `unsubscribe` "stops delivery", but a dispatch under
  way may call the handler once more (`UnsubscribeStops`).
* The event stream clears its counter of dropped events after the yield, so drops during
  it are not told (`api/v1/events_stream.py:109`, against `:18`), and keeps its subscription
  when the client leaves at the first yield (`:96`), which stands before the `try`.
* `delete_cascade` has a "FK-safe order" (`repositories/holding.py:268`), but deletes addresses
  before the invoices that refer to them: a holding with an invoice cannot be deleted.
* `revive_item` does not look for another open item of its type, and a fix leaves a
  dismissed item to be revived.
* `classify_descriptor` suggests a Vault for `wsh(pk)`, which no handler accepts
  (`PlainWsh`), and for multisigs whose raw keys are not counted as signers, which the
  constructor refuses (`Undercounted`), and rejects Taproot branches that `parse` accepts
  (`HiddenBranch`).

## 6. Not modelled

* **SweepEngine**: its topic `custodial_provider.balance_updated` has no publisher, so its
  handler never runs.
* **Provider adapters**: HTTP clients without state; their outcomes are inputs of
  `Withdrawals` and `Custody`.
* **Analysis and UTXO hygiene**: read-only reports.
* **Migrations and schemas**: declarations without behaviour.
* **Frontend**: keeps no state that the backend relies on.
* Key derivation and the cryptography itself are library code.

## 7. Plan

Done: the components above, their runs, and a theorem for every safety property of a run.
Next, all of it proof:

1. The refinement of `Withdrawals` to an abstract execution, as `Payments` has with
   `PaymentLifecycle`.
2. A reference definition of `TopicMatches` (a choice of how many words each wildcard
   stands for) and the proof that both agree.
