-------------------------------- MODULE Custody --------------------------------
(***************************************************************************)
(* Accounts at custodial providers: their credentials in the secret store, *)
(* their rows in custodial_provider, and the polling that reads the one    *)
(* through the other.                                                      *)
(*                                                                         *)
(* Backend handlers are async functions without an await: one runs at a    *)
(* time.  What can come between the steps of a handler is a failing        *)
(* database or the end of the process.  A handler that writes secrets is a *)
(* list of store operations, each committed by itself, and one commit of   *)
(* the row at its end.  The worker is a process of its own; system.locked  *)
(* and system.unlocked reach it over Redis, if it is listening.            *)
(***************************************************************************)
EXTENDS SecretStore, Naturals, Sequences

CONSTANTS Providers,    \* ids of custodial_provider rows
          MaxVersion,   \* bound: generations of references per provider
          Unreachable,  \* _N_UNREACHABLE: errors in a row that make "unreachable"
          MaxFaults,    \* bound: failures of database, process, publication and claims
          MaxWire       \* bound: events on their way to the worker

(* The three parts of a credential.                                        *)
Parts == {"key", "secret", "pass"}

(* References are made unique by a generation: a fresh uuid in the code.   *)
RefOf(p, part, v) == [prov |-> p, part |-> part, ver |-> v]
ProviderRefs == [prov: Providers, part: Parts, ver: 0..MaxVersion]

VARIABLES
    up,        \* the backend process runs
    handler,   \* the handler between two of its writes, or NULL
    row,       \* custodial_provider: row or NULL per provider
    told,      \* the status last published in connection_state_changed
    wire,      \* system.* events sent to the worker and not yet handled
    worker,    \* [up, enabled]: CustodialPoller and its _dispatch_enabled
    burst,     \* a catch-up burst was started and has not listed providers
    jobs,      \* providers with a one_shot_custodial_poll in the job queue
    requests,  \* providers with a poll-cycle request under way
    faults,    \* failures so far
    torn       \* history: providers whose last handler was interrupted

vars == <<params, canary, key, secrets, up, handler, row, told, wire, worker, burst, jobs,
          requests, faults, torn>>

rowVars == <<row, told, torn>>
workerVars == <<wire, worker, burst, jobs, requests>>

Statuses == {"healthy", "degraded", "unreachable", "auth_failed"}

Row == [ver: 0..MaxVersion, parts: SUBSET Parts, status: Statuses, errs: 0..Unreachable]

Op == [op: {"set", "delete"}, ref: Refs]

Handler ==
    [kind: {"init", "create", "rotate", "forget"}, prov: Providers \union {NULL},
     pass: KeyOrNull, ver: 0..MaxVersion, parts: SUBSET Parts, todo: Seq(Op)]

ASSUME CustodyConstants ==
    /\ NULL \notin Providers /\ NULL \notin Row /\ NULL \notin Handler
    /\ MaxVersion \in Nat
    /\ Unreachable \in Nat \ {0, 1}
    /\ MaxFaults \in Nat
    /\ MaxWire \in Nat
    /\ Refs = ProviderRefs

TypeOK ==
    /\ StoreTypeOK
    /\ up \in BOOLEAN
    /\ handler \in Handler \union {NULL}
    /\ row \in [Providers -> Row \union {NULL}]
    /\ told \in [Providers -> Statuses]
    /\ wire \in Seq({"locked", "unlocked"})
    /\ worker \in [up: BOOLEAN, enabled: BOOLEAN]
    /\ burst \in BOOLEAN
    /\ jobs \in SUBSET Providers
    /\ requests \in SUBSET Providers
    /\ faults \in 0..MaxFaults
    /\ torn \in SUBSET Providers

Init ==
    /\ StoreInit
    /\ up = FALSE
    /\ handler = NULL
    /\ row = [p \in Providers |-> NULL]
    /\ told = [p \in Providers |-> "healthy"]
    /\ wire = <<>>
    /\ worker = [up |-> FALSE, enabled |-> TRUE]
    /\ burst = FALSE
    /\ jobs = {}
    /\ requests = {}
    /\ faults = 0
    /\ torn = {}

-----------------------------------------------------------------------------
(* Events.  Redis keeps nothing: an event reaches the worker only if it is *)
(* subscribed when the event is published.  A publication that fails is    *)
(* swallowed by the publisher.                                             *)

Publish(topic) ==
    \/ /\ Len(wire) < MaxWire
       /\ wire' = IF worker.up THEN Append(wire, topic) ELSE wire
       /\ UNCHANGED faults
    \/ /\ faults < MaxFaults
       /\ faults' = faults + 1
       /\ UNCHANGED wire

(* _lifespan: a backend starts locked and says so.                         *)
BackendStarts ==
    /\ ~up
    /\ up' = TRUE
    /\ Publish("locked")
    /\ UNCHANGED <<storeVars, handler, rowVars, worker, burst, jobs, requests>>

(* Shutdown between two requests: the key is discarded.                    *)
BackendStops ==
    /\ up
    /\ handler = NULL
    /\ up' = FALSE
    /\ Lock
    /\ UNCHANGED <<handler, rowVars, workerVars, faults>>

(* A handler may be interrupted: the session is rolled back.               *)
Interrupted ==
    /\ handler' = NULL
    /\ torn' = IF handler # NULL /\ handler.prov # NULL THEN torn \union {handler.prov} ELSE torn
    /\ faults < MaxFaults
    /\ faults' = faults + 1

BackendCrashes ==
    /\ up
    /\ handler # NULL
    /\ up' = FALSE
    /\ Lock
    /\ Interrupted
    /\ UNCHANGED <<row, told, workerVars>>

Idle == up /\ handler = NULL

(* LockMiddleware and AuthMiddleware let a request through to its handler. *)
Serving == Idle /\ IsUnlocked

-----------------------------------------------------------------------------
(* First run and unlock.                                                   *)

PostUnlockInitialize(p) ==
    /\ Idle
    /\ StoreKdfParameters
    /\ handler' = [kind |-> "init", prov |-> NULL, pass |-> p, ver |-> 0, parts |-> {}, todo |-> <<>>]
    /\ UNCHANGED <<up, rowVars, workerVars, faults>>

InitializeWritesCanary ==
    /\ handler # NULL
    /\ handler.kind = "init"
    /\ canary = NULL
    /\ StoreCanary(handler.pass)
    /\ UNCHANGED <<up, handler, rowVars, workerVars, faults>>

InitializeEnds ==
    /\ handler # NULL
    /\ handler.kind = "init"
    /\ canary # NULL
    /\ HoldKey(handler.pass)
    /\ handler' = NULL
    /\ Publish("unlocked")
    /\ UNCHANGED <<up, rowVars, worker, burst, jobs, requests>>

PostPassphraseValidate(p) ==
    /\ Idle
    /\ Unlock(p)
    /\ Publish("unlocked")
    /\ UNCHANGED <<up, handler, rowVars, worker, burst, jobs, requests>>

-----------------------------------------------------------------------------
(* Handlers that write secrets.                                            *)

(* Store operations on the given parts, in the order the code has them.    *)
OpOn(op, p, v, parts, part) ==
    IF part \in parts THEN <<[op |-> op, ref |-> RefOf(p, part, v)]>> ELSE <<>>

Ops(op, p, v, parts) ==
    OpOn(op, p, v, parts, "key") \o OpOn(op, p, v, parts, "secret") \o OpOn(op, p, v, parts, "pass")

(* A generation no stored secret and no row of p has.                      *)
Fresh(p, v) ==
    /\ \A part \in Parts: secrets[RefOf(p, part, v)] = NULL
    /\ row[p] # NULL => row[p].ver # v

(* With or without the third part.                                         *)
WholeCredentials == {{"key", "secret"}, Parts}

Starts(h) ==
    /\ handler' = h
    /\ UNCHANGED <<storeVars, up, rowVars, workerVars, faults>>

(* create_account_holding, once the provider accepted the credentials.     *)
CreateAccountHolding(p, v, parts) ==
    /\ Serving
    /\ row[p] = NULL
    /\ Fresh(p, v)
    /\ Starts([kind |-> "create", prov |-> p, pass |-> NULL, ver |-> v, parts |-> parts,
               todo |-> Ops("set", p, v, parts)])

(* patch_provider with new credentials that the provider accepted.  A part *)
(* that is not given is read from the store, which raises if it is gone.   *)
PatchProvider(p, v, given, parts) ==
    /\ Serving
    /\ row[p] # NULL
    /\ Fresh(p, v)
    /\ \A part \in {"key", "secret"} \ given: Readable(RefOf(p, part, row[p].ver))
    /\ Starts([kind |-> "rotate", prov |-> p, pass |-> NULL, ver |-> v, parts |-> parts,
               todo |-> Ops("delete", p, row[p].ver, row[p].parts) \o Ops("set", p, v, parts)])

(* Mutant: the cascade without the clean-up of secrets.                    *)
DeleteHoldingOnly(p) ==
    /\ Serving
    /\ row[p] # NULL
    /\ Starts([kind |-> "forget", prov |-> p, pass |-> NULL, ver |-> row[p].ver,
               parts |-> row[p].parts, todo |-> <<>>])

(* delete_holding of an Account: the secrets first, then the cascade.      *)
DeleteHolding(p) ==
    /\ Serving
    /\ row[p] # NULL
    /\ Starts([kind |-> "forget", prov |-> p, pass |-> NULL, ver |-> row[p].ver,
               parts |-> row[p].parts, todo |-> Ops("delete", p, row[p].ver, row[p].parts)])

Writing == handler # NULL /\ handler.kind # "init"

Advances == handler' = [handler EXCEPT !.todo = Tail(@)]

HandlerWrites ==
    /\ Writing
    /\ handler.todo # <<>>
    /\ LET next == Head(handler.todo)
       IN  IF next.op = "set" THEN SetSecret(next.ref) ELSE DeleteSecret(next.ref)
    /\ Advances
    /\ UNCHANGED <<up, rowVars, workerVars, faults>>

(* Mutant: a rotation that forgets update_credentials.                     *)
RowAfterOldReferences ==
    IF handler.kind = "forget" THEN NULL
    ELSE IF handler.kind = "rotate" THEN row[handler.prov]
    ELSE [ver |-> handler.ver, parts |-> handler.parts, status |-> "healthy", errs |-> 0]

(* The row the handler leaves.  Rotation changes nothing but references.   *)
RowAfter ==
    LET p == handler.prov
    IN  IF handler.kind = "forget" THEN NULL
        ELSE IF handler.kind = "rotate"
        THEN [ver |-> handler.ver, parts |-> handler.parts, status |-> row[p].status,
              errs |-> row[p].errs]
        ELSE [ver |-> handler.ver, parts |-> handler.parts, status |-> "healthy", errs |-> 0]

HandlerCommits ==
    /\ Writing
    /\ handler.todo = <<>>
    /\ row' = [row EXCEPT ![handler.prov] = RowAfter]
    /\ told' = IF handler.kind = "create" THEN [told EXCEPT ![handler.prov] = "healthy"] ELSE told
    /\ torn' = torn \ {handler.prov}
    /\ handler' = NULL
    /\ UNCHANGED <<storeVars, up, workerVars, faults>>

(* The database refuses a write or the commit, or the constructor of the   *)
(* Holding refuses the claim of a new Account, which it does after the     *)
(* secrets were written.  delete_holding swallows an error of the store    *)
(* and goes on; everything else ends the handler.                          *)
HandlerFails ==
    /\ handler # NULL
    /\ \/ /\ handler.kind = "forget"
          /\ handler.todo # <<>>
          /\ faults < MaxFaults
          /\ faults' = faults + 1
          /\ Advances
          /\ UNCHANGED torn
       \/ /\ handler.kind = "forget" => handler.todo = <<>>
          /\ Interrupted
    /\ UNCHANGED <<storeVars, up, row, told, workerVars>>

-----------------------------------------------------------------------------
(* Worker: CustodialPoller, CustodialPollScheduler and the job thread.     *)

WorkerStarts ==
    /\ ~worker.up
    /\ worker' = [up |-> TRUE, enabled |-> TRUE]
    /\ UNCHANGED <<storeVars, up, handler, rowVars, wire, burst, jobs, requests, faults>>

(* What it was told is in memory: the next worker dispatches at once.      *)
WorkerStops ==
    /\ worker.up
    /\ worker' = [up |-> FALSE, enabled |-> TRUE]
    /\ wire' = <<>>
    /\ burst' = FALSE
    /\ UNCHANGED <<storeVars, up, handler, rowVars, jobs, requests, faults>>

(* _on_event for system.locked and system.unlocked.                        *)
PollerHandlesEvent ==
    /\ worker.up
    /\ wire # <<>>
    /\ wire' = Tail(wire)
    /\ worker' = [worker EXCEPT !.enabled = (Head(wire) = "unlocked")]
    /\ burst' = (burst \/ Head(wire) = "unlocked")
    /\ UNCHANGED <<storeVars, up, handler, rowVars, jobs, requests, faults>>

Rows == {p \in Providers: row[p] # NULL}

(* _catch_up_burst: one request for every provider there is.               *)
CatchUpBurst ==
    /\ burst
    /\ burst' = FALSE
    /\ requests' = requests \union Rows
    /\ UNCHANGED <<storeVars, up, handler, rowVars, wire, worker, jobs, faults>>

(* Mutant: ticks only for providers that answer.                           *)
PollTickHealthy(p) ==
    /\ worker.up
    /\ worker.enabled
    /\ p \in Rows \ requests
    /\ row[p].status = "healthy"
    /\ requests' = requests \union {p}
    /\ UNCHANGED <<storeVars, up, handler, rowVars, wire, worker, burst, jobs, faults>>

(* A poll_tick of the scheduler, handled if dispatching is enabled.        *)
PollTick(p) ==
    /\ worker.up
    /\ worker.enabled
    /\ p \in Rows \ requests
    /\ requests' = requests \union {p}
    /\ UNCHANGED <<storeVars, up, handler, rowVars, wire, worker, burst, jobs, faults>>

(* The job queue in Redis, read by one thread of the worker.               *)
EnqueueJob(p) == jobs' = jobs \union {p}

TakeJob(p) ==
    /\ worker.up
    /\ p \in jobs
    /\ jobs' = jobs \ {p}

(* POST refresh puts a job into the queue; the job thread sends a request. *)
RefreshProvider(p) ==
    /\ Serving
    /\ p \in Rows \ jobs
    /\ EnqueueJob(p)
    /\ UNCHANGED <<storeVars, up, handler, rowVars, wire, worker, burst, requests, faults>>

(* DELETE on a job that still waits; a started one is not stopped.         *)
CancelJob(p) ==
    /\ Serving
    /\ p \in jobs
    /\ jobs' = jobs \ {p}
    /\ UNCHANGED <<storeVars, up, handler, rowVars, wire, worker, burst, requests, faults>>

OneShotCustodialPoll(p) ==
    /\ TakeJob(p)
    /\ requests' = requests \union {p}
    /\ UNCHANGED <<storeVars, up, handler, rowVars, wire, worker, burst, faults>>

-----------------------------------------------------------------------------
(* The poll cycle.                                                         *)

CanRead(p) == \A part \in row[p].parts: Readable(RefOf(p, part, row[p].ver))

Answered(p) == requests' = requests \ {p}

(* No backend (connection refused), locked or secrets unreadable (423), no *)
(* row (404): the worker drops the cycle and nothing is recorded.          *)
PollDropped(p) ==
    /\ p \in requests
    /\ \/ ~up
       \/ handler = NULL /\ (~IsUnlocked \/ row[p] = NULL)
       \/ handler = NULL /\ IsUnlocked /\ row[p] # NULL /\ ~CanRead(p)
    /\ Answered(p)
    /\ UNCHANGED <<storeVars, up, handler, rowVars, wire, worker, burst, jobs, faults>>

SetStatus(p, status, errs) ==
    row' = [row EXCEPT ![p] = [ver |-> row[p].ver, parts |-> row[p].parts,
                               status |-> status, errs |-> errs]]

(* After its commit the handler publishes; a fault loses the event.        *)
Tells(p, status) ==
    \/ told' = [told EXCEPT ![p] = status] /\ UNCHANGED faults
    \/ faults < MaxFaults /\ faults' = faults + 1 /\ UNCHANGED told

PollAnswered(p) ==
    /\ Serving
    /\ p \in requests
    /\ row[p] # NULL
    /\ CanRead(p)
    /\ Answered(p)
    /\ UNCHANGED <<storeVars, up, handler, torn, wire, worker, burst, jobs>>

PollSucceeds(p) ==
    /\ PollAnswered(p)
    /\ SetStatus(p, "healthy", 0)
    /\ IF row[p].status # "healthy" THEN Tells(p, "healthy") ELSE UNCHANGED <<told, faults>>

(* _handle_auth_error                                                      *)
PollAuthError(p) ==
    /\ PollAnswered(p)
    /\ IF row[p].status = "auth_failed" THEN UNCHANGED row ELSE SetStatus(p, "auth_failed", 0)
    /\ Tells(p, "auth_failed")

(* Mutant: the threshold is passed, not reached.                           *)
ErrorStatusLate(r) ==
    IF r.errs + 1 > Unreachable THEN "unreachable"
    ELSE IF r.status = "healthy" THEN "degraded" ELSE r.status

(* _handle_transient_error.  Errors are counted up to the threshold: more  *)
(* of them change nothing.                                                 *)
ErrorStatus(r) ==
    IF r.errs + 1 >= Unreachable THEN "unreachable"
    ELSE IF r.status = "healthy" THEN "degraded" ELSE r.status

PollTransientError(p) ==
    /\ PollAnswered(p)
    /\ IF row[p].status = "auth_failed" THEN UNCHANGED <<row, told, faults>>
       ELSE LET status == ErrorStatus(row[p])
                errs == IF row[p].errs < Unreachable THEN row[p].errs + 1 ELSE Unreachable
            IN  /\ SetStatus(p, status, errs)
                /\ IF row[p].status # status THEN Tells(p, status) ELSE UNCHANGED <<told, faults>>

-----------------------------------------------------------------------------
BackendNext ==
    \/ BackendStarts
    \/ BackendStops
    \/ BackendCrashes
    \/ \E p \in Passphrases: PostUnlockInitialize(p) \/ PostPassphraseValidate(p)
    \/ InitializeWritesCanary
    \/ InitializeEnds
    \/ HandlerWrites
    \/ HandlerCommits
    \/ HandlerFails

ProviderNext(p) ==
    \/ \E v \in 0..MaxVersion, parts \in WholeCredentials:
          \/ CreateAccountHolding(p, v, parts)
          \/ \E given \in (SUBSET {"key", "secret"}) \ {{}}: PatchProvider(p, v, given, parts)
    \/ DeleteHolding(p)
    \/ RefreshProvider(p)
    \/ CancelJob(p)
    \/ PollSucceeds(p)
    \/ PollAuthError(p)
    \/ PollTransientError(p)

WorkerNext ==
    \/ WorkerStarts
    \/ WorkerStops
    \/ PollerHandlesEvent
    \/ CatchUpBurst
    \/ \E p \in Providers: PollTick(p) \/ OneShotCustodialPoll(p) \/ PollDropped(p)

Next == BackendNext \/ WorkerNext \/ \E p \in Providers: ProviderNext(p)

(* Fair is what the program does by itself: a handler that was started     *)
(* ends; the worker handles what it is sent, ticks, and its requests are   *)
(* answered.  Users, restarts and faults are not.                          *)
PollEnds(p) == PollSucceeds(p) \/ PollAuthError(p) \/ PollTransientError(p) \/ PollDropped(p)

Fairness ==
    /\ WF_vars(InitializeWritesCanary)
    /\ WF_vars(InitializeEnds)
    /\ WF_vars(HandlerWrites)
    /\ WF_vars(HandlerCommits)
    /\ WF_vars(PollerHandlesEvent)
    /\ WF_vars(CatchUpBurst)
    /\ \A p \in Providers: WF_vars(PollTick(p)) /\ SF_vars(PollEnds(p))

Spec == Init /\ [][Next]_vars /\ Fairness

-----------------------------------------------------------------------------
(* Properties.                                                             *)

(* The key in memory opens the canary and every secret: unlock accepts no  *)
(* other key, and initialize never replaces the parameters.                *)
KeyOpensStore ==
    /\ key # NULL => params /\ canary = key
    /\ \A r \in Refs: secrets[r] # NULL => secrets[r] = canary

HandlerOn(p) == handler # NULL /\ handler.prov = p

(* A committed account can be polled: every part its row refers to is in   *)
(* the store, except while a handler works on it or after one of its       *)
(* handlers was interrupted.  A rotation that reaches its commit repairs   *)
(* the account: torn then no longer holds it.                              *)
RowsHaveSecrets ==
    \A p \in Providers:
        row[p] # NULL /\ ~HandlerOn(p) /\ p \notin torn =>
            \A part \in row[p].parts: secrets[RefOf(p, part, row[p].ver)] # NULL

Referenced(r) == row[r.prov] # NULL /\ row[r.prov].ver = r.ver /\ r.part \in row[r.prov].parts

(* Credentials do not outlive their account: without a failed handler and  *)
(* between handlers, a stored secret belongs to a row.                     *)
NoOrphanSecrets ==
    faults = 0 /\ handler = NULL => \A r \in Refs: secrets[r] # NULL => Referenced(r)

(* The status of a connection and its error count agree: "unreachable" is  *)
(* exactly a run of Unreachable errors, "degraded" a shorter one, and an   *)
(* authentication failure clears the count.                                *)
StatusCounts ==
    \A p \in Rows:
        LET r == row[p]
        IN  /\ r.status \in {"healthy", "auth_failed"} <=> r.errs = 0
            /\ r.status = "unreachable" <=> r.errs = Unreachable

(* Who follows connection_state_changed knows the status of every          *)
(* provider, unless a fault came between a commit and its event.           *)
StatusIsTold == faults = 0 => \A p \in Rows: told[p] = row[p].status

(* A poller that is suspended waits for an unlock that is still to come:   *)
(* with everything handled and no event lost, the store is locked.         *)
SuspendedMeansLocked ==
    faults = 0 /\ worker.up /\ ~worker.enabled /\ wire = <<>> => ~IsUnlocked

(* The parts above that hold of every state, with the type invariant.      *)
CustodyInv == TypeOK /\ KeyOpensStore /\ StatusCounts /\ StatusIsTold /\ SuspendedMeansLocked

(* An account in an unlocked system is polled again, unless its row goes,  *)
(* the store or the worker stops, or an event was lost.                    *)
PolledAgain ==
    \A p \in Providers:
        row[p] # NULL /\ IsUnlocked /\ worker.up
            ~> p \in requests \/ row[p] = NULL \/ ~IsUnlocked \/ ~worker.up \/ faults > 0

-----------------------------------------------------------------------------
(* What the repository's text says and the code does not do.  No run has   *)
(* this: TLC refutes it on the instance of the passing run.                *)

(* secrets.py:176 "If any step fails the database state is recoverable",   *)
(* and :191 "treat as not initialized to force re-initialization": a       *)
(* backend that waits for requests can be initialised or be unlocked.      *)
InitializeRecoverable == Idle => ~params \/ \E p \in Passphrases: Unlocks(p)

HalfInitialized == params /\ canary = NULL /\ handler = NULL

(* How far it falls short: a store that lost its canary to a failure in    *)
(* the middle of initialize stays that way.  initialize says that it is    *)
(* initialised, unlock that it is not.                                     *)
HalfInitializedForever == [][HalfInitialized => HalfInitialized']_vars
=============================================================================
