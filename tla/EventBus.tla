------------------------------- MODULE EventBus --------------------------------
(***************************************************************************)
(* RedisEventBus (infrastructure/event_bus.py): one object per process,    *)
(* with one pub/sub connection and one thread that reads it.               *)
(*                                                                         *)
(* A topic is a sequence of words; a pattern may also hold Wild, the "*"   *)
(* of the code.  Redis sends a connection one copy of a message for each   *)
(* of its patterns that match, and every copy is dispatched to every       *)
(* handler that matches.                                                   *)
(***************************************************************************)
EXTENDS Integers, Sequences, SequencesExt, FiniteSets

CONSTANTS Conns,        \* one bus, and so one connection, per process
          Subs,         \* subscriptions
          Home,         \* the bus of a subscription
          PatternsOf,   \* its patterns
          Wild,         \* the wildcard
          Messages,     \* what is published
          TopicOf,      \* and on which topic
          None,
          MaxWire       \* bound: messages under way to one connection

ASSUME BusConstants ==
    /\ Home \in [Subs -> Conns]
    /\ \A s \in Subs: PatternsOf[s] # {} /\ IsFiniteSet(PatternsOf[s])
    /\ None \notin Messages
    /\ MaxWire \in Nat

VARIABLES
    subs,     \* _subs: the registered subscriptions of each bus, in order
    active,   \* _active_patterns
    asked,    \* the patterns that psubscribe was called for and did not raise
    server,   \* the patterns Redis knows of each connection
    wire,     \* sent to each connection and not read yet
    snap,     \* the dispatch under way: [msg, rest], msg = None if there is none
    late      \* history: -1, or the calls of a handler since its unsubscribe, up to 2

busVars == <<subs, active, asked, server, wire, snap, late>>

Patterns == UNION {PatternsOf[s]: s \in Subs}
Idle == [msg |-> None, rest |-> <<>>]

BusTypeOK ==
    /\ subs \in [Conns -> Seq(Subs)]
    /\ active \in [Conns -> SUBSET Patterns]
    /\ asked \in [Conns -> SUBSET Patterns]
    /\ server \in [Conns -> SUBSET Patterns]
    /\ wire \in [Conns -> Seq(Messages)]
    /\ snap \in [Conns -> [msg: Messages \union {None}, rest: Seq(Subs)]]
    /\ late \in [Subs -> -1..2]

BusInit ==
    /\ subs = [c \in Conns |-> <<>>]
    /\ active = [c \in Conns |-> {}]
    /\ asked = [c \in Conns |-> {}]
    /\ server = [c \in Conns |-> {}]
    /\ wire = [c \in Conns |-> <<>>]
    /\ snap = [c \in Conns |-> Idle]
    /\ late = [s \in Subs |-> -1]

-----------------------------------------------------------------------------
(* topic_matches_pattern: Wild stands for any run of words, the empty one  *)
(* too; everything else stands for itself; both ends are anchored.  Redis  *)
(* matches by the same rule.                                               *)
TopicMatches(topic, pattern) ==
    LET m[i \in 0..Len(topic), j \in 0..Len(pattern)] ==
            IF j = 0 THEN i = 0
            ELSE IF pattern[j] = Wild THEN m[i, j - 1] \/ (i > 0 /\ m[i - 1, j])
            ELSE i > 0 /\ topic[i] = pattern[j] /\ m[i - 1, j - 1]
    IN  m[Len(topic), Len(pattern)]

Hears(s, msg) == \E p \in PatternsOf[s]: TopicMatches(TopicOf[msg], p)

Registered(s) == s \in ToSet(subs[Home[s]])

(* Mutant: psubscribe stands behind the loop, for one pattern.             *)
OneNewPattern(s) ==
    LET new == PatternsOf[s] \ active[Home[s]] IN
    IF new = {} THEN {} ELSE {CHOOSE p \in new: TRUE}

(* The patterns that no subscription of this bus had before.               *)
NewPatterns(s) == PatternsOf[s] \ active[Home[s]]

(* psubscribe is called for the new patterns only, after they were entered *)
(* as active; it went well for those in `told`, and the next one raised.   *)
Subscribe(s, told) ==
    /\ ~Registered(s) /\ s \notin ToSet(snap[Home[s]].rest)
    /\ subs' = [subs EXCEPT ![Home[s]] = Append(@, s)]
    /\ active' = [active EXCEPT ![Home[s]] = @ \union PatternsOf[s]]
    /\ asked' = [asked EXCEPT ![Home[s]] = @ \union told]
    /\ late' = [late EXCEPT ![s] = -1]
    /\ UNCHANGED <<server, wire, snap>>

(* The patterns are new to Redis when it has read the command.             *)
RedisRegisters(c) ==
    /\ server[c] # asked[c]
    /\ server' = [server EXCEPT ![c] = asked[c]]
    /\ UNCHANGED <<subs, active, asked, wire, snap, late>>

(* Mutant: the subscription stays on the list.                             *)
RemoveNothing(s) == subs[Home[s]]

(* _remove_subscription: the patterns stay, and so does a dispatch that    *)
(* has begun.                                                              *)
RemoveSubscription(s) ==
    LET q == subs[Home[s]] IN RemoveAt(q, CHOOSE i \in DOMAIN q: q[i] = s)

Unsubscribe(s) ==
    /\ Registered(s)
    /\ subs' = [subs EXCEPT ![Home[s]] = RemoveSubscription(s)]
    /\ late' = [late EXCEPT ![s] = 0]
    /\ UNCHANGED <<active, asked, server, wire, snap>>

-----------------------------------------------------------------------------
Copies(c, msg) == {p \in server[c]: TopicMatches(TopicOf[msg], p)}

(* Room for one publication, with a place left on the buses in `kept`.     *)
Room(msg, kept) ==
    \A c \in Conns: Len(wire[c]) + Cardinality(Copies(c, msg)) + (IF c \in kept THEN 1 ELSE 0) <= MaxWire

Publish(msg) ==
    wire' = [c \in Conns |-> wire[c] \o [i \in 1..Cardinality(Copies(c, msg)) |-> msg]]

(* _dispatch goes through its snapshot of the subscriptions, of which q is *)
(* left, to the next one that matches; after the last one that does, it    *)
(* has nothing more to do.                                                 *)
Dispatch(q, msg) ==
    LET hearing == {i \in DOMAIN q: Hears(q[i], msg)} IN
    IF hearing = {} THEN Idle ELSE [msg |-> msg, rest |-> SubSeq(q, Min(hearing), Max(hearing))]

TakeMessage(c) ==
    /\ snap[c].msg = None
    /\ wire[c] # <<>>
    /\ snap' = [snap EXCEPT ![c] = Dispatch(subs[c], Head(wire[c]))]
    /\ wire' = [wire EXCEPT ![c] = Tail(@)]
    /\ UNCHANGED <<subs, active, asked, server, late>>

(* The next handler of a dispatch is s, with message msg.                  *)
Calls(c, s, msg) ==
    /\ snap[c].rest # <<>>
    /\ s = Head(snap[c].rest) /\ msg = snap[c].msg
    /\ snap' = [snap EXCEPT ![c] = Dispatch(Tail(snap[c].rest), msg)]
    /\ late' = IF late[s] \in {-1, 2} THEN late ELSE [late EXCEPT ![s] = @ + 1]
    /\ UNCHANGED <<subs, active, asked, server>>

(* The connection breaks: what was under way is lost, and the client       *)
(* library connects again and repeats the patterns.                        *)
ConnectionLost(c) ==
    /\ server' = [server EXCEPT ![c] = {}]
    /\ wire' = [wire EXCEPT ![c] = <<>>]
    /\ UNCHANGED <<subs, active, asked, snap, late>>

(* The process ends and starts again with a new bus.                       *)
ProcessRestarts(c) ==
    /\ subs' = [subs EXCEPT ![c] = <<>>]
    /\ active' = [active EXCEPT ![c] = {}]
    /\ asked' = [asked EXCEPT ![c] = {}]
    /\ server' = [server EXCEPT ![c] = {}]
    /\ wire' = [wire EXCEPT ![c] = <<>>]
    /\ snap' = [snap EXCEPT ![c] = Idle]
    /\ late' = [s \in Subs |-> IF Home[s] = c THEN -1 ELSE late[s]]

-----------------------------------------------------------------------------
(* A list of subscriptions of bus c in which none comes twice.             *)
ListOf(c, q) ==
    /\ \A i \in DOMAIN q: Home[q[i]] = c
    /\ \A i, j \in DOMAIN q: q[i] = q[j] => i = j

(* What a bus may rely on: Redis knows no pattern that was not asked for,  *)
(* a subscription is on its own bus once and has its patterns there, and a *)
(* dispatch calls each handler once and only with what its patterns match. *)
BusConsistent ==
    \A c \in Conns:
        /\ server[c] \subseteq asked[c] /\ asked[c] \subseteq active[c]
        /\ ListOf(c, subs[c])
        /\ \A s \in ToSet(subs[c]): PatternsOf[s] \subseteq active[c]
        /\ ListOf(c, snap[c].rest)
        /\ snap[c].rest # <<>> => Hears(Head(snap[c].rest), snap[c].msg)
        /\ snap[c].msg = None <=> snap[c].rest = <<>>
        /\ \A i \in DOMAIN wire[c]: \E p \in active[c]: TopicMatches(TopicOf[wire[c][i]], p)

(* Subscription.unsubscribe "stops delivery": a handler is called at most  *)
(* once more, from the dispatch that was under way.                        *)
UnsubscribeStops == \A s \in Subs: late[s] <= 1
=============================================================================
