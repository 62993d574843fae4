-------------------------------- MODULE Access ---------------------------------
(***************************************************************************)
(* Who gets through to a handler: pairing of devices, the device           *)
(* credential and its cache, revocation, the lock, and the limit on        *)
(* passphrase attempts (api/auth_middleware.py, api/lock_middleware.py,    *)
(* api/v1/auth.py, api/v1/pairing.py).                                     *)
(*                                                                         *)
(* Time is kept as distances from now, so that it needs no bound: what an  *)
(* expiry has left (-1 once it has passed, "now > expires_at"), and the    *)
(* age of an event, which stops counting where nobody looks any more.      *)
(* A request passes the middleware in one step and runs its handler in     *)
(* another: call_next is awaited in between.                               *)
(***************************************************************************)
EXTENDS SecretStore, Integers

CONSTANTS Tokens,       \* pairing tokens, random and never issued twice
          Devices,      \* ids of paired_device rows
          Clients,      \* client addresses
          TokenTTL,     \* PAIRING_TOKEN_TTL_SECONDS
          CacheTTL,     \* _CREDENTIAL_CACHE_TTL_SECONDS
          Window,       \* _RATE_LIMIT_WINDOW_SECONDS
          MaxFailures   \* _RATE_LIMIT_MAX_FAILURES

ASSUME AccessConstants ==
    /\ NULL \notin Tokens /\ NULL \notin Devices
    /\ TokenTTL \in Nat /\ CacheTTL \in Nat /\ Window \in Nat
    /\ MaxFailures \in Nat \ {0}
    /\ NULL \notin -1..CacheTTL
    /\ NULL \notin [failures: 0..MaxFailures, age: 0..Window + 1]

VARIABLES
    token,    \* app.state.pairing_tokens: [st, left] per token
    device,   \* paired_device: [st, origin, since] per device
    cache,    \* app.state.credential_cache: time left per device, NULL if absent
    admitted, \* devices with a request between the middleware and its handler
    streaming,\* devices that read the event stream
    limit,    \* app.state.passphrase_rate_limits: [failures, age] or NULL
    wrongs    \* history: judged wrong attempts since the last right one,
              \* per client and age a those that are at most a old

accessVars == <<token, device, cache, admitted, streaming>>
limitVars == <<limit, wrongs>>
vars == <<params, canary, key, secrets, token, device, cache, admitted, streaming, limit,
          wrongs>>

Token == [st: {"new", "live", "redeemed", "gone"}, left: -1..TokenTTL]
Device == [st: {"none", "paired", "revoked"}, origin: Tokens \union {NULL}, since: 0..CacheTTL + 1]
Limit == [failures: 0..MaxFailures, age: 0..Window + 1]

TypeOK ==
    /\ StoreTypeOK
    /\ token \in [Tokens -> Token]
    /\ device \in [Devices -> Device]
    /\ cache \in [Devices -> -1..CacheTTL \union {NULL}]
    /\ admitted \in SUBSET Devices
    /\ streaming \in SUBSET Devices
    /\ limit \in [Clients -> Limit \union {NULL}]
    /\ wrongs \in [Clients -> [0..Window -> Nat]]

NoWrongs == [a \in 0..Window |-> 0]

(* A backend that was set up before, or never.                             *)
Init ==
    /\ params \in BOOLEAN
    /\ canary \in IF params THEN Passphrases ELSE {NULL}
    /\ key = NULL
    /\ secrets = [r \in Refs |-> NULL]
    /\ token = [t \in Tokens |-> [st |-> "new", left |-> -1]]
    /\ device = [d \in Devices |-> [st |-> "none", origin |-> NULL, since |-> 0]]
    /\ cache = [d \in Devices |-> NULL]
    /\ admitted = {}
    /\ streaming = {}
    /\ limit = [c \in Clients |-> NULL]
    /\ wrongs = [c \in Clients |-> NoWrongs]

-----------------------------------------------------------------------------
(* One unit of time.                                                       *)

(* _cache_lookup and _purge_expired compare with the clock; all that they  *)
(* can tell of an expiry is this.                                          *)
Less(left) == IF left = -1 THEN -1 ELSE left - 1
More(age, bound) == IF age > bound THEN age ELSE age + 1

TimePasses ==
    /\ token' = [t \in Tokens |-> [st |-> token[t].st, left |-> Less(token[t].left)]]
    /\ device' = [d \in Devices |->
                    IF device[d].st = "revoked"
                    THEN [st |-> "revoked", origin |-> device[d].origin,
                          since |-> More(device[d].since, CacheTTL)]
                    ELSE device[d]]
    /\ cache' = [d \in Devices |-> IF cache[d] = NULL THEN NULL ELSE Less(cache[d])]
    /\ limit' = [c \in Clients |->
                    IF limit[c] = NULL THEN NULL
                    ELSE [failures |-> limit[c].failures, age |-> More(limit[c].age, Window)]]
    /\ wrongs' = [c \in Clients |-> [a \in 0..Window |-> IF a = 0 THEN 0 ELSE wrongs[c][a - 1]]]
    /\ UNCHANGED <<storeVars, admitted, streaming>>

-----------------------------------------------------------------------------
(* Pairing.  Expired tokens are purged first.                              *)
Purged == [t \in Tokens |->
              IF token[t].st \in {"live", "redeemed"} /\ token[t].left < 0
              THEN [st |-> "gone", left |-> -1] ELSE token[t]]

PostPairingIssue(t) ==
    /\ token[t].st = "new"
    /\ token' = [Purged EXCEPT ![t] = [st |-> "live", left |-> TokenTTL]]
    /\ UNCHANGED <<storeVars, device, cache, admitted, streaming, limitVars>>

Redeemable(t) == Purged[t].st = "live" /\ Purged[t].left >= 0

(* An unknown, expired or used token: 401, after the purge.                *)
RedeemRefused(t) ==
    /\ ~Redeemable(t)
    /\ token' = Purged
    /\ UNCHANGED <<storeVars, device, cache, admitted, streaming, limitVars>>

(* Mutant: the mark that prevents double use is missing.                   *)
MarkNothing(t) == Purged

(* The token is marked before the row is written.                          *)
MarkRedeemed(t) == [Purged EXCEPT ![t] = [st |-> "redeemed", left |-> Purged[t].left]]

PostPairingRedeem(t, d) ==
    /\ device[d].st = "none"
    /\ Redeemable(t)
    /\ token' = MarkRedeemed(t)
    /\ \/ device' = [device EXCEPT ![d] = [st |-> "paired", origin |-> t, since |-> 0]]
       \/ UNCHANGED device   \* the commit fails and the token is used up
    /\ UNCHANGED <<storeVars, cache, admitted, streaming, limitVars>>

-----------------------------------------------------------------------------
(* The middlewares.  A locked backend answers 423 before it looks at the   *)
(* credential.  A cached credential is not looked up in the database.      *)
Cached(d) == cache[d] # NULL /\ cache[d] >= 0

(* Mutant: every use of a cached credential extends it.                    *)
AdmittedCacheSliding(d) == [cache EXCEPT ![d] = CacheTTL]

AdmittedCache(d) == IF Cached(d) THEN cache ELSE [cache EXCEPT ![d] = CacheTTL]

(* Mutant: the query does not look at revoked_at.                          *)
ValidInDbAny(d) == device[d].st # "none"

ValidInDb(d) == device[d].st = "paired"

Admit(d) ==
    /\ IsUnlocked
    /\ d \notin admitted
    /\ Cached(d) \/ ValidInDb(d)
    /\ cache' = AdmittedCache(d)
    /\ admitted' = admitted \union {d}
    /\ UNCHANGED <<storeVars, token, device, streaming, limitVars>>

(* An expired entry is dropped from the cache when it is met.              *)
Refuse(d) ==
    /\ IsUnlocked
    /\ ~Cached(d) /\ ~ValidInDb(d)
    /\ cache' = [cache EXCEPT ![d] = NULL]
    /\ UNCHANGED <<storeVars, token, device, admitted, streaming, limitVars>>

(* Any handler but the next two.                                           *)
Serve(d) ==
    /\ d \in admitted
    /\ admitted' = admitted \ {d}
    /\ UNCHANGED <<storeVars, token, device, cache, streaming, limitVars>>

(* events_stream: the handler has returned, its generator goes on.  It     *)
(* waits for the next event again and again and looks neither at the lock  *)
(* nor at the device: nothing but the client or the end of the process     *)
(* closes it.                                                              *)
EventsStream(d) ==
    /\ d \in admitted
    /\ admitted' = admitted \ {d}
    /\ streaming' = streaming \union {d}
    /\ UNCHANGED <<storeVars, token, device, cache, limitVars>>

Disconnect(d) ==
    /\ d \in streaming
    /\ streaming' = streaming \ {d}
    /\ UNCHANGED <<storeVars, token, device, cache, admitted, limitVars>>

(* delete_device, called by device c.                                      *)
DeleteDevice(c, d) ==
    /\ c \in admitted
    /\ admitted' = admitted \ {c}
    /\ device[d].st # "none"
    /\ device' = IF device[d].st = "revoked" THEN device
                 ELSE [device EXCEPT ![d] = [st |-> "revoked", origin |-> device[d].origin, since |-> 0]]
    /\ UNCHANGED <<storeVars, token, cache, streaming, limitVars>>

-----------------------------------------------------------------------------
(* Passphrase attempts.                                                    *)

(* _check_rate_limit: the entry of a client, renewed when it is too old.   *)
Entry(c) ==
    IF limit[c] = NULL \/ limit[c].age > Window THEN [failures |-> 0, age |-> 0] ELSE limit[c]

Limited(c) == Entry(c).failures >= MaxFailures

SetLimit(c, n) == limit' = [limit EXCEPT ![c] = [failures |-> n, age |-> Entry(c).age]]

(* Mutant: a wrong attempt is not counted.                                 *)
CountNothing(n) == n

CountFailure(n) == n + 1

AttemptRefused(c) ==
    /\ Limited(c) \/ ~params
    /\ SetLimit(c, Entry(c).failures)
    /\ UNCHANGED <<storeVars, accessVars, wrongs>>

AttemptWrong(c, p) ==
    /\ ~Limited(c)
    /\ params /\ ~Unlocks(p)
    /\ SetLimit(c, CountFailure(Entry(c).failures))
    /\ wrongs' = [wrongs EXCEPT ![c] = [a \in 0..Window |-> wrongs[c][a] + 1]]
    /\ UNCHANGED <<storeVars, accessVars>>

AttemptRight(c, p) ==
    /\ ~Limited(c)
    /\ Unlock(p)
    /\ SetLimit(c, 0)
    /\ wrongs' = [wrongs EXCEPT ![c] = NoWrongs]
    /\ UNCHANGED accessVars

(* A restart: everything in app.state and the key are gone.                *)
Restart ==
    /\ Lock
    /\ token' = [t \in Tokens |-> IF token[t].st = "new" THEN token[t]
                                  ELSE [st |-> "gone", left |-> -1]]
    /\ cache' = [d \in Devices |-> NULL]
    /\ admitted' = {}
    /\ streaming' = {}
    /\ limit' = [c \in Clients |-> NULL]
    /\ wrongs' = [c \in Clients |-> NoWrongs]
    /\ UNCHANGED device

Next ==
    \/ TimePasses
    \/ \E t \in Tokens: PostPairingIssue(t) \/ RedeemRefused(t) \/ \E d \in Devices: PostPairingRedeem(t, d)
    \/ \E d \in Devices:
          \/ Admit(d) \/ Refuse(d) \/ Serve(d) \/ EventsStream(d) \/ Disconnect(d)
          \/ \E c \in Devices: DeleteDevice(c, d)
    \/ \E c \in Clients:
          \/ AttemptRefused(c)
          \/ \E p \in Passphrases: AttemptWrong(c, p) \/ AttemptRight(c, p)
    \/ Restart

(* Time goes on, and a request that was admitted reaches its handler.      *)
(* Nothing is assumed of a client that reads a stream.                     *)
Fairness == WF_vars(TimePasses) /\ \A d \in Devices: WF_vars(Serve(d) \/ EventsStream(d))

Spec == Init /\ [][Next]_vars /\ Fairness

-----------------------------------------------------------------------------
(* Properties.                                                             *)

(* A pairing token makes at most one device, also when its commit fails,   *)
(* time passes or the backend restarts in between.                         *)
OneDevicePerToken ==
    \A d, e \in Devices: device[d].origin # NULL /\ device[d].origin = device[e].origin => d = e

(* What the cache still grants a revoked device ends CacheTTL after the    *)
(* revocation: no later request renews it.                                 *)
CacheOutlivesByTTL ==
    \A d \in Devices:
        device[d].st = "revoked" /\ cache[d] # NULL => cache[d] + device[d].since <= CacheTTL

(* No request of a device is admitted more than CacheTTL after its         *)
(* revocation.                                                             *)
RevocationTakesEffect ==
    [][\A d \in Devices: d \in admitted' \ admitted /\ device[d].st = "revoked"
                            => device[d].since <= CacheTTL]_vars

(* After a revocation a time comes from which on no request of the device  *)
(* reaches a handler, so that it can do nothing and open no stream.  The   *)
(* streams it has stay open: that is all it keeps.                         *)
RevokedRequestsEnd == \A d \in Devices: device[d].st = "revoked" ~> [](d \notin admitted)

(* Within any Window, no client has more than twice MaxFailures wrong      *)
(* attempts judged: the fixed window can be met at its end and again at    *)
(* the beginning of the next one, and no better.                           *)
AttemptsBounded == \A c \in Clients: wrongs[c][Window] <= 2 * MaxFailures

(* Within one fixed window the limit is exact.                             *)
FailuresMatch ==
    \A c \in Clients:
        limit[c] # NULL =>
            \A a \in 0..Window: a <= limit[c].age => wrongs[c][a] <= limit[c].failures

(* The parts above that hold of every state, with the type invariant.      *)
AccessInv ==
    TypeOK /\ OneDevicePerToken /\ CacheOutlivesByTTL /\ AttemptsBounded /\ FailuresMatch

-----------------------------------------------------------------------------
(* What the repository's text says, or a user would expect, and the code   *)
(* does not do.  No run has these: TLC refutes them on the instance of the *)
(* passing run.                                                            *)

(* auth_middleware.py:16 "entries are evicted on revocation", auth.py:140  *)
(* "After revocation, subsequent requests from that device return 401."    *)
RevokedIsRefused == [][\A d \in Devices: Admit(d) => device[d].st # "revoked"]_vars

(* What a user expects of a revocation: the device gets no more events.    *)
RevokedStreamsEnd == \A d \in Devices: device[d].st = "revoked" ~> d \notin streaming
=============================================================================
