----------------------------- MODULE EventDelivery -----------------------------
(***************************************************************************)
(* What goes over the event bus: critical events with their log and the    *)
(* AuditReconciler that repeats them (infrastructure/event_emission.py),   *)
(* the CategorizerSuggester that answers on the topic it listens to, and   *)
(* the event stream of a browser (api/v1/events_stream.py) with its        *)
(* limited queue.                                                          *)
(***************************************************************************)
EXTENDS EventBus

CONSTANTS Critical,      \* critical events, by their id
          Entries,       \* ledger entries
          Internal,      \* the ones whose direction is INTERNAL
          Worker, Backend,
          Suggester,     \* the subscription of the CategorizerSuggester
          Streams,       \* the subscriptions of event streams
          QueueMax,      \* _QUEUE_MAX
          MaxPending,    \* bound: callbacks the event loop has not run yet
          MaxDropped,    \* bound: where the counter of drops stops
          MaxFaults      \* bound: faults of all kinds

(* The mark of a replay is left out: no subscriber looks at it.            *)
Critically(e) == [kind |-> "critical", of |-> e]
Categorize(l) == [kind |-> "categorize", of |-> l]

ASSUME DeliveryConstants ==
    /\ Conns = {Worker, Backend} /\ Subs = {Suggester} \union Streams
    /\ Home[Suggester] = Worker /\ \A s \in Streams: Home[s] = Backend
    /\ Messages = {Critically(e): e \in Critical} \union {Categorize(l): l \in Entries}
    /\ Internal \subseteq Entries
    /\ QueueMax \in Nat \ {0} /\ MaxPending \in Nat \ {0} /\ MaxDropped \in Nat \ {0}
    /\ MaxFaults \in Nat

VARIABLES
    log,       \* event_emission_log: "none", "open" (no acknowledged_at) or "acked"
    old,       \* rows older than the grace period
    emitting,  \* events between emit_critical's commit and its publish
    todo,      \* rows read by run_once and not published yet
    suggested, \* entries with a suggested_category
    announced, \* entries whose categorization was asked for
    stream,    \* per stream: [pend, queue, dropped, phase]
    faults

outboxVars == <<log, old, emitting, todo>>
entryVars == <<suggested, announced>>
vars == <<busVars, outboxVars, entryVars, stream, faults>>

State(pend, queue, dropped, phase) ==
    [pend |-> pend, queue |-> queue, dropped |-> dropped, phase |-> phase]
NewStream == State(0, 0, 0, "closed")
Stream == [pend: 0..MaxPending, queue: 0..QueueMax, dropped: 0..MaxDropped,
           phase: {"closed", "greeting", "waiting", "telling", "sending"}]

TypeOK ==
    /\ BusTypeOK
    /\ log \in [Critical -> {"none", "open", "acked"}]
    /\ old \in SUBSET Critical /\ emitting \in SUBSET Critical /\ todo \in SUBSET Critical
    /\ suggested \in SUBSET Entries /\ announced \in SUBSET Entries
    /\ stream \in [Streams -> Stream]
    /\ faults \in 0..MaxFaults

Init ==
    /\ BusInit
    /\ log = [e \in Critical |-> "none"]
    /\ old = {} /\ emitting = {} /\ todo = {}
    /\ suggested = {} /\ announced = {}
    /\ stream = [s \in Streams |-> NewStream]
    /\ faults = 0

Fault == faults < MaxFaults /\ faults' = faults + 1

-----------------------------------------------------------------------------
(* The outbox.  Who calls emit_critical and acknowledge is open: they are  *)
(* operations of PersistentEmitter that this version has no caller for.    *)
(* emit_critical commits the row and then publishes; a publish that fails  *)
(* is logged and left to the reconciler.                                   *)
EmitCritical(e) ==
    /\ log[e] = "none"
    /\ log' = [log EXCEPT ![e] = "open"]
    /\ emitting' = emitting \union {e}
    /\ UNCHANGED <<busVars, old, todo, entryVars, stream, faults>>

EmitPublish(e) ==
    /\ e \in emitting
    /\ emitting' = emitting \ {e}
    /\ \/ Room(Critically(e), {Worker}) /\ Publish(Critically(e)) /\ UNCHANGED faults
       \/ Fault /\ UNCHANGED wire
    /\ UNCHANGED <<subs, active, asked, server, snap, late, log, old, todo, entryVars, stream>>

GraceEnds(e) ==
    /\ log[e] = "open" /\ e \notin old
    /\ old' = old \union {e}
    /\ UNCHANGED <<busVars, log, emitting, todo, entryVars, stream, faults>>

(* Mutant: acknowledged rows are repeated like the others.                 *)
UnacknowledgedOrNot == old

(* Mutant: only what is still being emitted is repeated.                   *)
UnacknowledgedYoung == {e \in Critical: log[e] = "open" /\ e \notin old}

Unacknowledged == {e \in Critical: log[e] = "open" /\ e \in old}

(* run_once reads the rows and publishes them one after the other; an      *)
(* acknowledgement may come in between.                                    *)
ReconcilerReads ==
    /\ todo = {} /\ Unacknowledged # {}
    /\ todo' = Unacknowledged
    /\ UNCHANGED <<busVars, log, old, emitting, entryVars, stream, faults>>

ReconcilerPublishes(e) ==
    /\ e \in todo
    /\ todo' = todo \ {e}
    /\ \/ Room(Critically(e), {Worker}) /\ Publish(Critically(e)) /\ UNCHANGED faults
       \/ Fault /\ UNCHANGED wire
    /\ UNCHANGED <<subs, active, asked, server, snap, late, log, old, emitting, entryVars, stream>>

(* acknowledge updates a row that is not acknowledged yet.                 *)
Acknowledge(e) ==
    /\ log[e] = "open"
    /\ log' = [log EXCEPT ![e] = "acked"]
    /\ UNCHANGED <<busVars, old, emitting, todo, entryVars, stream, faults>>

-----------------------------------------------------------------------------
(* The categorizer.                                                        *)

(* The listener has recorded a transaction.                                *)
ListenerAnnounces(l) ==
    /\ l \notin announced
    /\ announced' = announced \union {l}
    /\ Room(Categorize(l), {Worker}) /\ Publish(Categorize(l))
    /\ UNCHANGED <<subs, active, asked, server, snap, late, outboxVars, suggested, stream, faults>>

(* suggest_category: only INTERNAL gives a suggestion; the other two       *)
(* heuristics return None.                                                 *)
Suggestible(l) == l \in suggested \/ l \in Internal

(* The handler writes the suggestion, commits and publishes on the topic   *)
(* it is subscribed to.                                                    *)
SuggesterHandles(l) ==
    /\ Calls(Worker, Suggester, Categorize(l))
    /\ IF ~Suggestible(l) THEN UNCHANGED <<suggested, wire, faults>>
       ELSE \/ /\ suggested' = suggested \union {l}
               /\ Room(Categorize(l), {}) /\ Publish(Categorize(l))
               /\ UNCHANGED faults
            \/ /\ Fault   \* Redis does not answer
               /\ suggested' = suggested \union {l}
               /\ UNCHANGED wire
            \/ /\ Fault   \* nor does the database
               /\ UNCHANGED <<suggested, wire>>
    /\ UNCHANGED <<outboxVars, announced, stream>>

-----------------------------------------------------------------------------
(* The event stream.  The bus's thread hands an event to the event loop,   *)
(* which puts it in the queue; the generator waits for the queue and       *)
(* stands at a yield until the client has taken what it was sent.          *)
SetStream(s, r) == stream' = [stream EXCEPT ![s] = r]

StreamOpens(s) ==
    /\ stream[s].phase = "closed" /\ stream[s].pend = 0
    /\ Subscribe(s, NewPatterns(s))
    /\ SetStream(s, State(0, 0, 0, "greeting"))
    /\ UNCHANGED <<outboxVars, entryVars, faults>>

(* The client has taken the first comment.                                 *)
StreamGreeted(s) ==
    /\ stream[s].phase = "greeting"
    /\ SetStream(s, [stream[s] EXCEPT !.phase = "waiting"])
    /\ UNCHANGED <<busVars, outboxVars, entryVars, faults>>

OnBusEvent(s, msg) ==
    /\ Calls(Backend, s, msg)
    /\ stream[s].pend < MaxPending
    /\ SetStream(s, [stream[s] EXCEPT !.pend = @ + 1])
    /\ UNCHANGED <<wire, outboxVars, entryVars, faults>>

(* A full queue loses its oldest event, which is counted.                  *)
PutDropOldest(r) ==
    IF r.queue < QueueMax THEN [r EXCEPT !.queue = @ + 1]
    ELSE [r EXCEPT !.dropped = IF @ = MaxDropped THEN @ ELSE @ + 1]

Enqueue(s) ==
    /\ stream[s].pend > 0
    /\ LET r == [stream[s] EXCEPT !.pend = @ - 1] IN
       SetStream(s, IF r.phase = "closed" THEN r ELSE PutDropOldest(r))
    /\ UNCHANGED <<busVars, outboxVars, entryVars, faults>>

StreamGets(s) ==
    /\ stream[s].phase = "waiting" /\ stream[s].queue > 0
    /\ SetStream(s, State(stream[s].pend, stream[s].queue - 1, stream[s].dropped,
                          IF stream[s].dropped > 0 THEN "telling" ELSE "sending"))
    /\ UNCHANGED <<busVars, outboxVars, entryVars, faults>>

(* The counter is cleared when the client has taken the comment.           *)
StreamTold(s) ==
    /\ stream[s].phase = "telling"
    /\ SetStream(s, State(stream[s].pend, stream[s].queue, 0, "sending"))
    /\ UNCHANGED <<busVars, outboxVars, entryVars, faults>>

StreamSent(s) ==
    /\ stream[s].phase = "sending"
    /\ SetStream(s, [stream[s] EXCEPT !.phase = "waiting"])
    /\ UNCHANGED <<busVars, outboxVars, entryVars, faults>>

(* The first yield stands before the try: a client that leaves there has   *)
(* its subscription kept for good.                                         *)
StreamCloses(s) ==
    /\ stream[s].phase # "closed"
    /\ IF stream[s].phase = "greeting" THEN UNCHANGED busVars ELSE Unsubscribe(s)
    /\ SetStream(s, State(stream[s].pend, 0, 0, "closed"))
    /\ UNCHANGED <<outboxVars, entryVars, faults>>

-----------------------------------------------------------------------------
(* The processes.                                                          *)
WorkerSubscribes ==
    /\ Subscribe(Suggester, NewPatterns(Suggester))
    /\ UNCHANGED <<outboxVars, entryVars, stream, faults>>

(* psubscribe raises.  Whoever subscribed goes without: the worker logs it *)
(* and starts no CategorizerSuggester, the generator of a stream ends.     *)
(* The handler stays on the list, its pattern stays active, and nobody     *)
(* asks Redis for this pattern again as long as the process lives.         *)
SubscribeFails(s) ==
    /\ s \in Streams => stream[s].phase = "closed" /\ stream[s].pend = 0
    /\ Fault
    /\ \E told \in SUBSET NewPatterns(s): told # NewPatterns(s) /\ Subscribe(s, told)
    /\ UNCHANGED <<outboxVars, entryVars, stream>>

Reads(c) == TakeMessage(c) /\ UNCHANGED <<outboxVars, entryVars, stream, faults>>

Registers(c) == RedisRegisters(c) /\ UNCHANGED <<outboxVars, entryVars, stream, faults>>

Disconnected(c) ==
    /\ Fault
    /\ ConnectionLost(c)
    /\ UNCHANGED <<outboxVars, entryVars, stream>>

Restarts(c) ==
    /\ Fault
    /\ ProcessRestarts(c)
    /\ emitting' = IF c = Backend THEN {} ELSE emitting
    /\ todo' = IF c = Worker THEN {} ELSE todo
    /\ stream' = IF c = Backend THEN [s \in Streams |-> NewStream] ELSE stream
    /\ UNCHANGED <<log, old, entryVars>>

Handles(c) ==
    \/ \E s \in Streams, msg \in Messages: c = Backend /\ OnBusEvent(s, msg)
    \/ \E l \in Entries: c = Worker /\ SuggesterHandles(l)

Next ==
    \/ \E e \in Critical: \/ EmitCritical(e) \/ EmitPublish(e) \/ GraceEnds(e)
                          \/ ReconcilerPublishes(e) \/ Acknowledge(e)
    \/ ReconcilerReads
    \/ \E l \in Entries: ListenerAnnounces(l)
    \/ \E s \in Streams: \/ StreamOpens(s) \/ StreamGreeted(s) \/ Enqueue(s) \/ StreamGets(s)
                         \/ StreamTold(s) \/ StreamSent(s) \/ StreamCloses(s)
    \/ WorkerSubscribes
    \/ \E s \in Subs: SubscribeFails(s)
    \/ \E c \in Conns: Reads(c) \/ Handles(c) \/ Registers(c) \/ Disconnected(c) \/ Restarts(c)

Spec == Init /\ [][Next]_vars

(* The loops of the program go on.  In the code a publication never waits: *)
(* where it does here, for MaxWire, its turn comes when there is room      *)
(* again and again.                                                        *)
FairSpec ==
    /\ Spec
    /\ \A c \in Conns: WF_vars(Reads(c)) /\ WF_vars(Registers(c)) /\ SF_vars(Handles(c))
    /\ WF_vars(WorkerSubscribes)
    /\ \A s \in Streams: WF_vars(Enqueue(s))
    /\ WF_vars(ReconcilerReads)
    /\ \A e \in Critical: WF_vars(GraceEnds(e)) /\ SF_vars(ReconcilerPublishes(e))

-----------------------------------------------------------------------------
(* Properties.                                                             *)

(* The state of the bus and of its users fits together: the bus is         *)
(* consistent, without a fault every active pattern was asked of Redis, an *)
(* open stream is subscribed, and only INTERNAL entries that were          *)
(* announced have a suggestion.                                            *)
DeliveryConsistent ==
    /\ TypeOK
    /\ BusConsistent
    /\ faults = 0 => asked = active
    /\ \A s \in Streams: stream[s].phase # "closed" => Registered(s)
    /\ suggested \subseteq announced \cap Internal

Republishes(e) == ReconcilerPublishes(e) /\ UNCHANGED faults

(* emit_critical: "the row remains unacknowledged and the reconciler       *)
(* re-emits it later".  An event that was persisted is published again and *)
(* again until it is acknowledged, through failed publications, lost       *)
(* connections and restarts of either process, as long as there are        *)
(* finitely many.                                                          *)
CriticalIsRepeated ==
    \A e \in Critical:
        <>(log[e] = "open") => <>(log[e] = "acked") \/ []<><<Republishes(e)>>_vars

(* Once it is acknowledged, only a run_once that has read its row before   *)
(* repeats an event, and no later one.                                     *)
AcknowledgedIsQuiet == \A e \in Critical: log[e] = "acked" ~> [](e \notin todo)

(* CategorizerSuggester "re-emits ... after writing the suggestion" and    *)
(* suggest_category is "idempotent": an entry is announced finitely often. *)
CategorizerSettles == <>[][\A l \in Entries: ~SuggesterHandles(l)]_vars
=============================================================================
