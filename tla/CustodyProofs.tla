----------------------------- MODULE CustodyProofs -----------------------------
(***************************************************************************)
(* Theorems about Custody, for all sets of providers and passphrases and   *)
(* any bounds on generations, faults, events and errors.                   *)
(*                                                                         *)
(* The properties speak of the state between handlers; the invariant has   *)
(* to say what a handler on its way still owes: it touches its own         *)
(* provider's references only, each part of the credentials it is going to *)
(* commit is stored or still to be set and will not be deleted again, and  *)
(* (without faults) every other secret of the provider is still to be      *)
(* deleted.  For the poller, the last event on its way tells how the store *)
(* is, and no event waits for a worker that is not there.                  *)
(***************************************************************************)
EXTENDS Custody, TLAPS

(* Operation x is in the list of a handler.                                *)
Waits(todo, x) == \E i \in 1..Len(todo): todo[i] = x

SetOp(p, part, v) == [op |-> "set", ref |-> RefOf(p, part, v)]
DeleteOp(r) == [op |-> "delete", ref |-> r]

(* Key, canary and parameters, also in the middle of initialize.           *)
StoreInv ==
    /\ KeyOpensStore
    /\ canary # NULL => params
    /\ ~up => key = NULL /\ handler = NULL
    /\ handler # NULL /\ handler.kind = "init" =>
          /\ params /\ handler.prov = NULL
          /\ handler.pass \in Passphrases /\ canary \in {NULL, handler.pass}

(* What the operations of a handler touch.                                 *)
OnlyOwn(h) ==
    \A x \in Op:
        Waits(h.todo, x) =>
            /\ x.ref.prov = h.prov
            /\ x.op = "set" => h.kind # "forget" /\ x.ref.ver = h.ver /\ x.ref.part \in h.parts
            /\ x.op = "delete" => h.kind = "forget" \/ x.ref.ver # h.ver

(* What its commit refers to.                                              *)
WillBeSet(h) ==
    h.kind # "forget" =>
        \A part \in h.parts:
            secrets[RefOf(h.prov, part, h.ver)] # NULL \/ Waits(h.todo, SetOp(h.prov, part, h.ver))

(* What its commit no longer refers to.                                    *)
WillBeDeleted(h) ==
    \A r \in Refs:
        secrets[r] # NULL /\ r.prov = h.prov =>
            \/ h.kind # "forget" /\ r.ver = h.ver /\ r.part \in h.parts
            \/ Waits(h.todo, DeleteOp(r))

WriteInv ==
    /\ Writing =>
          /\ handler.prov \in Providers
          /\ handler.kind \in {"rotate", "forget"} => row[handler.prov] # NULL
          /\ OnlyOwn(handler)
          /\ WillBeSet(handler)
          /\ faults = 0 => WillBeDeleted(handler)
    /\ RowsHaveSecrets
    /\ faults = 0 => \A r \in Refs: secrets[r] # NULL => Referenced(r) \/ (Writing /\ HandlerOn(r.prov))

StatusInv == StatusCounts /\ StatusIsTold

WireInv ==
    /\ ~worker.up => wire = <<>>
    /\ faults = 0 /\ worker.up /\ IsUnlocked =>
          IF wire = <<>> THEN worker.enabled ELSE wire[Len(wire)] = "unlocked"

CInv == TypeOK /\ StoreInv /\ WriteInv /\ StatusInv /\ WireInv

-----------------------------------------------------------------------------
(* Lists of store operations.                                              *)

LEMMA WaitsConcat ==
    ASSUME NEW s \in Seq(Op), NEW t \in Seq(Op), NEW x
    PROVE  Waits(s \o t, x) <=> Waits(s, x) \/ Waits(t, x)
<1>1. Len(s) \in Nat /\ Len(t) \in Nat /\ Len(s \o t) = Len(s) + Len(t)
  OBVIOUS
<1>2. \A i \in 1..Len(s): i \in 1..Len(s \o t) /\ (s \o t)[i] = s[i]
  BY <1>1
<1>3. \A i \in 1..Len(t): i + Len(s) \in 1..Len(s \o t) /\ (s \o t)[i + Len(s)] = t[i]
  BY <1>1
<1>4. \A i \in 1..Len(s \o t): i \in 1..Len(s) \/ (i - Len(s) \in 1..Len(t) /\ (s \o t)[i] = t[i - Len(s)])
  BY <1>1
<1>5. ASSUME Waits(s \o t, x) PROVE Waits(s, x) \/ Waits(t, x)
  <2>1. PICK i \in 1..Len(s \o t): (s \o t)[i] = x
    BY <1>5 DEF Waits
  <2> QED
    BY <2>1, <1>2, <1>4 DEF Waits
<1>6. ASSUME Waits(s, x) PROVE Waits(s \o t, x)
  BY <1>2, <1>6 DEF Waits
<1>7. ASSUME Waits(t, x) PROVE Waits(s \o t, x)
  <2>1. PICK i \in 1..Len(t): t[i] = x
    BY <1>7 DEF Waits
  <2> QED
    BY <2>1, <1>3 DEF Waits
<1> QED
  BY <1>5, <1>6, <1>7

LEMMA WaitsTail ==
    ASSUME NEW s \in Seq(Op), s # <<>>, NEW x
    PROVE  /\ Tail(s) \in Seq(Op)
           /\ Head(s) \in Op
           /\ Waits(s, Head(s))
           /\ Waits(s, x) => x = Head(s) \/ Waits(Tail(s), x)
           /\ Waits(Tail(s), x) => Waits(s, x)
<1>1. Len(s) \in Nat \ {0} /\ Len(Tail(s)) = Len(s) - 1 /\ Tail(s) \in Seq(Op) /\ Head(s) = s[1] /\ Head(s) \in Op
  OBVIOUS
<1>2. \A i \in 1..Len(Tail(s)): i + 1 \in 1..Len(s) /\ Tail(s)[i] = s[i + 1]
  BY <1>1
<1>3. \A i \in 1..Len(s): i = 1 \/ (i - 1 \in 1..Len(Tail(s)) /\ Tail(s)[i - 1] = s[i])
  BY <1>1
<1>4. Waits(s, Head(s))
  BY <1>1 DEF Waits
<1>5. ASSUME Waits(s, x) PROVE x = Head(s) \/ Waits(Tail(s), x)
  <2>1. PICK i \in 1..Len(s): s[i] = x
    BY <1>5 DEF Waits
  <2> QED
    BY <2>1, <1>1, <1>3 DEF Waits
<1>6. ASSUME Waits(Tail(s), x) PROVE Waits(s, x)
  <2>1. PICK i \in 1..Len(Tail(s)): Tail(s)[i] = x
    BY <1>6 DEF Waits
  <2> QED
    BY <2>1, <1>2 DEF Waits
<1> QED
  BY <1>1, <1>4, <1>5, <1>6

LEMMA WaitsNone == \A x: ~Waits(<<>>, x)
BY DEF Waits

(* A reference is what its three fields say.                               *)
LEMMA RefFields ==
    /\ \A p \in Providers: \A part \in Parts: \A v \in 0..MaxVersion:
          /\ RefOf(p, part, v) \in Refs
          /\ RefOf(p, part, v).prov = p /\ RefOf(p, part, v).part = part /\ RefOf(p, part, v).ver = v
    /\ \A r \in Refs:
          /\ r.prov \in Providers /\ r.part \in Parts /\ r.ver \in 0..MaxVersion
          /\ r = RefOf(r.prov, r.part, r.ver)
<1>1. Refs = [prov: Providers, part: Parts, ver: 0..MaxVersion]
  BY CustodyConstants DEF ProviderRefs
<1>2. \A p \in Providers: \A part \in Parts: \A v \in 0..MaxVersion:
          /\ RefOf(p, part, v) \in Refs
          /\ RefOf(p, part, v).prov = p /\ RefOf(p, part, v).part = part /\ RefOf(p, part, v).ver = v
  BY <1>1 DEF RefOf
<1>3. \A r \in Refs: r.prov \in Providers /\ r.part \in Parts /\ r.ver \in 0..MaxVersion
  BY <1>1
<1>4. \A r \in Refs: r = RefOf(r.prov, r.part, r.ver)
  BY <1>1 DEF RefOf
<1> QED
  BY <1>2, <1>3, <1>4

(* Ops has one operation per given part, and no other.                     *)
LEMMA OpOnWaits ==
    ASSUME NEW op \in {"set", "delete"}, NEW p \in Providers, NEW v \in 0..MaxVersion,
           NEW parts \in SUBSET Parts, NEW part \in Parts, NEW x
    PROVE  /\ OpOn(op, p, v, parts, part) \in Seq(Op)
           /\ Waits(OpOn(op, p, v, parts, part), x)
                 <=> part \in parts /\ x = [op |-> op, ref |-> RefOf(p, part, v)]
<1>1. PICK y \in Op: y = [op |-> op, ref |-> RefOf(p, part, v)]
  <2>1. [op |-> op, ref |-> RefOf(p, part, v)] \in Op
    BY RefFields DEF Op
  <2> QED
    BY <2>1, Zenon
<1>2. CASE part \in parts
  <2>1. OpOn(op, p, v, parts, part) = <<y>>
    BY <1>1, <1>2 DEF OpOn
  <2>2. Waits(<<y>>, x) <=> x = y
    <3>1. Len(<<y>>) = 1 /\ <<y>>[1] = y /\ \A i \in 1..1: i = 1
      OBVIOUS
    <3>2. 1 \in 1..1
      OBVIOUS
    <3> QED
      BY <3>1, <3>2, Zenon DEF Waits
  <2>3. <<y>> \in Seq(Op)
    OBVIOUS
  <2> QED
    BY <2>1, <2>2, <2>3, <1>1, <1>2, Zenon
<1>3. CASE part \notin parts
  <2>1. OpOn(op, p, v, parts, part) = <<>>
    BY <1>3 DEF OpOn
  <2> QED
    BY <2>1, <1>3, WaitsNone
<1> QED
  BY <1>2, <1>3

LEMMA OpsWaits ==
    ASSUME NEW op \in {"set", "delete"}, NEW p \in Providers, NEW v \in 0..MaxVersion,
           NEW parts \in SUBSET Parts
    PROVE  /\ Ops(op, p, v, parts) \in Seq(Op)
           /\ \A x: Waits(Ops(op, p, v, parts), x)
                       <=> \E part \in parts: x = [op |-> op, ref |-> RefOf(p, part, v)]
<1>0. "key" \in Parts /\ "secret" \in Parts /\ "pass" \in Parts
  BY DEF Parts
<1>1. PICK a \in Seq(Op): a = OpOn(op, p, v, parts, "key")
  BY OpOnWaits DEF Parts
<1>2. PICK b \in Seq(Op): b = OpOn(op, p, v, parts, "secret")
  BY OpOnWaits DEF Parts
<1>3. PICK c \in Seq(Op): c = OpOn(op, p, v, parts, "pass")
  BY OpOnWaits DEF Parts
<1>4. Ops(op, p, v, parts) = (a \o b) \o c
  BY <1>1, <1>2, <1>3 DEF Ops
<1>5. a \o b \in Seq(Op) /\ (a \o b) \o c \in Seq(Op)
  OBVIOUS
<1>6. ASSUME NEW x
      PROVE  Waits((a \o b) \o c, x) <=> \E part \in parts: x = [op |-> op, ref |-> RefOf(p, part, v)]
  <2>0. \A part \in Parts: Waits(OpOn(op, p, v, parts, part), x)
                              <=> part \in parts /\ x = [op |-> op, ref |-> RefOf(p, part, v)]
    BY OpOnWaits, Zenon
  <2>1. Waits((a \o b) \o c, x) <=> Waits(a, x) \/ Waits(b, x) \/ Waits(c, x)
    BY <1>5, WaitsConcat
  <2>2. Waits(a, x) <=> "key" \in parts /\ x = [op |-> op, ref |-> RefOf(p, "key", v)]
    BY <1>1, <2>0, <1>0, Zenon
  <2>3. Waits(b, x) <=> "secret" \in parts /\ x = [op |-> op, ref |-> RefOf(p, "secret", v)]
    BY <1>2, <2>0, <1>0, Zenon
  <2>4. Waits(c, x) <=> "pass" \in parts /\ x = [op |-> op, ref |-> RefOf(p, "pass", v)]
    BY <1>3, <2>0, <1>0, Zenon
  <2>5. \A part \in parts: part = "key" \/ part = "secret" \/ part = "pass"
    BY DEF Parts
  <2> QED
    BY <2>1, <2>2, <2>3, <2>4, <2>5, Zenon
<1> QED
  BY <1>4, <1>5, <1>6

-----------------------------------------------------------------------------
(* What holds at first, and what the invariant implies.                    *)

LEMMA InitCInv == Init => CInv
<1> SUFFICES ASSUME Init PROVE CInv
  OBVIOUS
<1> USE CustodyConstants, StoreConstants
<1>1. StoreTypeOK
  BY DEF Init, StoreInit, StoreTypeOK, KeyOrNull
<1>a. wire \in Seq({"locked", "unlocked"})
  BY DEF Init
<1>b. worker \in [up: BOOLEAN, enabled: BOOLEAN] /\ told \in [Providers -> Statuses]
  BY DEF Init, Statuses
<1>c. row \in [Providers -> Row \union {NULL}] /\ faults \in 0..MaxFaults
  BY DEF Init
<1>2. TypeOK
  BY <1>1, <1>a, <1>b, <1>c DEF Init, TypeOK
<1>3. StoreInv
  BY DEF Init, StoreInit, StoreInv, KeyOpensStore
<1>4. WriteInv
  BY DEF Init, StoreInit, WriteInv, Writing, RowsHaveSecrets
<1>5. StatusInv
  BY DEF Init, StatusInv, StatusCounts, StatusIsTold, Rows
<1>6. WireInv
  BY DEF Init, StoreInit, WireInv, IsUnlocked
<1> QED
  BY <1>2, <1>3, <1>4, <1>5, <1>6 DEF CInv

LEMMA CInvImplies == CInv => CustodyInv /\ RowsHaveSecrets /\ NoOrphanSecrets
<1> SUFFICES ASSUME CInv PROVE CustodyInv /\ RowsHaveSecrets /\ NoOrphanSecrets
  OBVIOUS
<1>1. SuspendedMeansLocked
  BY DEF CInv, WireInv, SuspendedMeansLocked
<1>2. RowsHaveSecrets
  BY DEF CInv, WriteInv
<1>3. NoOrphanSecrets
  BY DEF CInv, WriteInv, NoOrphanSecrets, Writing
<1> QED
  BY <1>1, <1>2, <1>3 DEF CInv, CustodyInv, StoreInv, StatusInv

-----------------------------------------------------------------------------
(* Steps that leave a part of the state alone.                             *)

LEMMA StatusKept ==
    ASSUME StatusInv, UNCHANGED <<row, told>>, faults' = 0 => faults = 0
    PROVE  StatusInv'
BY DEF StatusInv, StatusCounts, StatusIsTold, Rows

LEMMA WireKept ==
    ASSUME WireInv, UNCHANGED <<wire, worker>>, key' \in {key, NULL}, faults' = 0 => faults = 0
    PROVE  WireInv'
BY DEF WireInv, IsUnlocked

LEMMA WriteKept ==
    ASSUME WriteInv, UNCHANGED <<secrets, handler, row, torn>>, faults' = 0 => faults = 0
    PROVE  WriteInv'
<1>1. Writing' = Writing /\ \A p: HandlerOn(p)' = HandlerOn(p)
  BY DEF Writing, HandlerOn
<1>2. RowsHaveSecrets'
  BY <1>1 DEF WriteInv, RowsHaveSecrets
<1>3. \A r: Referenced(r)' = Referenced(r)
  BY DEF Referenced
<1>4. Writing => OnlyOwn(handler)' /\ WillBeSet(handler)'
  BY DEF WriteInv, OnlyOwn, WillBeSet
<1>5. Writing /\ faults' = 0 => WillBeDeleted(handler)'
  BY DEF WriteInv, WillBeDeleted
<1>6. Writing' => /\ handler'.prov \in Providers
                  /\ handler'.kind \in {"rotate", "forget"} => row'[handler'.prov] # NULL
  BY <1>1 DEF WriteInv
<1>7. faults' = 0 => \A r \in Refs: secrets'[r] # NULL => Referenced(r)' \/ (Writing' /\ HandlerOn(r.prov)')
  BY <1>1, <1>3 DEF WriteInv
<1> QED
  BY <1>1, <1>2, <1>4, <1>5, <1>6, <1>7 DEF WriteInv

LEMMA StoreKept ==
    ASSUME StoreInv, UNCHANGED <<params, canary, key, secrets, up, handler>>
    PROVE  StoreInv'
BY DEF StoreInv, KeyOpensStore

(* A step of the worker, or of a handler that only touches its queue.      *)
LEMMA WorkerStep ==
    ASSUME CInv, UNCHANGED <<storeVars, up, handler, rowVars, faults>>,
           wire' \in Seq({"locked", "unlocked"}), worker' \in [up: BOOLEAN, enabled: BOOLEAN],
           burst' \in BOOLEAN, jobs' \in SUBSET Providers, requests' \in SUBSET Providers,
           WireInv'
    PROVE  CInv'
<1>1. UNCHANGED <<params, canary, key, secrets, row, told, torn, up, handler, faults>>
  BY DEF storeVars, rowVars
<1>2. TypeOK'
  BY <1>1 DEF CInv, TypeOK, StoreTypeOK
<1>3. StoreInv' /\ WriteInv' /\ StatusInv'
  BY <1>1, StoreKept, WriteKept, StatusKept DEF CInv
<1> QED
  BY <1>2, <1>3 DEF CInv

(* The same when no event is involved.                                     *)
LEMMA QueueStep ==
    ASSUME CInv, UNCHANGED <<storeVars, up, handler, rowVars, faults, wire, worker>>,
           burst' \in BOOLEAN, jobs' \in SUBSET Providers, requests' \in SUBSET Providers
    PROVE  CInv'
<1>1. WireInv'
  BY WireKept DEF CInv, storeVars
<1>2. wire' \in Seq({"locked", "unlocked"}) /\ worker' \in [up: BOOLEAN, enabled: BOOLEAN]
  BY DEF CInv, TypeOK
<1> QED
  BY <1>1, <1>2, WorkerStep

LEMMA QueueSteps ==
    ASSUME CInv,
           \/ CatchUpBurst
           \/ \E p \in Providers: \/ PollTick(p) \/ OneShotCustodialPoll(p) \/ PollDropped(p)
                                  \/ RefreshProvider(p) \/ CancelJob(p)
    PROVE  CInv'
<1>0. burst \in BOOLEAN /\ jobs \in SUBSET Providers /\ requests \in SUBSET Providers /\ Rows \subseteq Providers
  BY DEF CInv, TypeOK, Rows
<1>1. CASE CatchUpBurst
  <2>1. burst' \in BOOLEAN /\ jobs' \in SUBSET Providers /\ requests' \in SUBSET Providers
    BY <1>0, <1>1 DEF CatchUpBurst
  <2> QED
    BY <1>1, <2>1, QueueStep DEF CatchUpBurst
<1>2. ASSUME NEW p \in Providers, PollTick(p)
      PROVE  CInv'
  BY <1>0, <1>2, QueueStep DEF PollTick
<1>3. ASSUME NEW p \in Providers, OneShotCustodialPoll(p)
      PROVE  CInv'
  BY <1>0, <1>3, QueueStep DEF OneShotCustodialPoll, TakeJob
<1>4. ASSUME NEW p \in Providers, PollDropped(p)
      PROVE  CInv'
  <2>1. requests' \in SUBSET Providers
    BY <1>0, <1>4 DEF PollDropped, Answered
  <2>2. UNCHANGED <<storeVars, up, handler, rowVars, wire, worker, burst, jobs, faults>>
    BY <1>4 DEF PollDropped
  <2> QED
    BY <1>0, <2>1, <2>2, QueueStep
<1>5. ASSUME NEW p \in Providers, RefreshProvider(p)
      PROVE  CInv'
  BY <1>0, <1>5, QueueStep DEF RefreshProvider, EnqueueJob
<1>6. ASSUME NEW p \in Providers, CancelJob(p)
      PROVE  CInv'
  BY <1>0, <1>6, QueueStep DEF CancelJob
<1> QED
  BY <1>1, <1>2, <1>3, <1>4, <1>5, <1>6

-----------------------------------------------------------------------------
(* Events and the worker.                                                  *)

LEMMA LastOf ==
    ASSUME NEW T, NEW s \in Seq(T), NEW x \in T
    PROVE  /\ Append(s, x) # <<>> /\ Append(s, x)[Len(Append(s, x))] = x
           /\ s # <<>> => /\ Tail(s) \in Seq(T)
                          /\ Tail(s) = <<>> => Head(s) = s[Len(s)]
                          /\ Tail(s) # <<>> => Tail(s)[Len(Tail(s))] = s[Len(s)]
<1>1. Len(s) \in Nat /\ Len(Append(s, x)) = Len(s) + 1
  OBVIOUS
<1>2. Append(s, x)[Len(s) + 1] = x
  BY <1>1
<1>3. Append(s, x) # <<>>
  BY <1>1
<1>4. ASSUME s # <<>>
      PROVE  /\ Tail(s) \in Seq(T)
             /\ Tail(s) = <<>> => Head(s) = s[Len(s)]
             /\ Tail(s) # <<>> => Tail(s)[Len(Tail(s))] = s[Len(s)]
  <2>1. Tail(s) \in Seq(T) /\ Len(Tail(s)) = Len(s) - 1 /\ Head(s) = s[1]
    BY <1>4
  <2>2. Tail(s) = <<>> => Len(s) = 1
    BY <1>1, <2>1
  <2>3. Tail(s) # <<>> => Len(Tail(s)) \in 1..Len(Tail(s))
    BY <2>1
  <2>4. \A i \in 1..Len(Tail(s)): Tail(s)[i] = s[i + 1]
    BY <1>4
  <2>5. Len(Tail(s)) + 1 = Len(s)
    BY <1>1, <2>1
  <2> QED
    BY <2>1, <2>2, <2>3, <2>4, <2>5
<1> QED
  BY <1>1, <1>2, <1>3, <1>4

LEMMA PublishFits ==
    ASSUME CInv, NEW topic \in {"locked", "unlocked"}, Publish(topic)
    PROVE  /\ wire' \in Seq({"locked", "unlocked"})
           /\ faults' \in 0..MaxFaults
           /\ faults' = 0 => /\ faults = 0
                             /\ wire' = IF worker.up THEN Append(wire, topic) ELSE wire
           /\ wire' = wire \/ (worker.up /\ wire' = Append(wire, topic))
BY CustodyConstants DEF CInv, TypeOK, Publish

(* After an event that tells how the store now is.                         *)
LEMMA PublishTells ==
    ASSUME CInv, NEW topic \in {"locked", "unlocked"}, Publish(topic), worker' = worker,
           topic = "locked" => key' = NULL
    PROVE  WireInv'
<1>1. ~worker.up => wire = <<>>
  BY DEF CInv, WireInv
<1>2. ~worker'.up => wire' = <<>>
  BY <1>1, PublishFits
<1>3. ASSUME faults' = 0, worker'.up, key' # NULL
      PROVE  wire' # <<>> /\ wire'[Len(wire')] = "unlocked"
  <2>1. wire' = Append(wire, "unlocked")
    BY <1>3, PublishFits
  <2>2. PICK w \in Seq({"locked", "unlocked"}): w = wire
    BY DEF CInv, TypeOK
  <2>3. Append(w, "unlocked") # <<>> /\ Append(w, "unlocked")[Len(Append(w, "unlocked"))] = "unlocked"
    BY LastOf
  <2> QED
    BY <2>1, <2>2, <2>3
<1> QED
  BY <1>2, <1>3 DEF WireInv, IsUnlocked

LEMMA WorkerSteps ==
    ASSUME CInv, WorkerStarts \/ WorkerStops \/ PollerHandlesEvent
    PROVE  CInv'
<1>0. /\ burst \in BOOLEAN /\ jobs \in SUBSET Providers /\ requests \in SUBSET Providers
      /\ wire \in Seq({"locked", "unlocked"}) /\ worker \in [up: BOOLEAN, enabled: BOOLEAN]
  BY DEF CInv, TypeOK
<1>1. CASE WorkerStarts
  <2>1. wire = <<>> /\ wire' = wire /\ worker' = [up |-> TRUE, enabled |-> TRUE]
    BY <1>1 DEF WorkerStarts, CInv, WireInv
  <2>2. WireInv'
    BY <2>1 DEF WireInv
  <2> QED
    BY <1>0, <1>1, <2>1, <2>2, WorkerStep DEF WorkerStarts
<1>2. CASE WorkerStops
  <2>1. wire' = <<>> /\ worker' = [up |-> FALSE, enabled |-> TRUE]
    BY <1>2 DEF WorkerStops
  <2>2. WireInv'
    BY <2>1 DEF WireInv
  <2>3. wire' \in Seq({"locked", "unlocked"})
    BY <2>1
  <2>4. worker' \in [up: BOOLEAN, enabled: BOOLEAN]
    BY <2>1
  <2>5. burst' \in BOOLEAN
    BY <1>2 DEF WorkerStops
  <2> QED
    BY <1>0, <1>2, <2>2, <2>3, <2>4, <2>5, WorkerStep DEF WorkerStops
<1>3. CASE PollerHandlesEvent
  <2>1. worker.up /\ wire # <<>> /\ wire' = Tail(wire) /\ key' = key /\ faults' = faults
    BY <1>3 DEF PollerHandlesEvent, storeVars
  <2>2. worker' = [up |-> worker.up, enabled |-> (Head(wire) = "unlocked")]
    BY <1>0, <1>3 DEF PollerHandlesEvent
  <2>3. worker'.up = worker.up /\ worker'.enabled = (Head(wire) = "unlocked")
    BY <2>2
  <2>4. wire' \in Seq({"locked", "unlocked"}) /\ (wire' = <<>> => Head(wire) = wire[Len(wire)])
         /\ (wire' # <<>> => wire'[Len(wire')] = wire[Len(wire)])
    BY <1>0, <2>1, LastOf
  <2>5. faults = 0 /\ worker.up /\ IsUnlocked => wire[Len(wire)] = "unlocked"
    BY <2>1 DEF CInv, WireInv
  <2>6. WireInv'
    BY <2>1, <2>3, <2>4, <2>5 DEF WireInv, IsUnlocked
  <2>7. worker' \in [up: BOOLEAN, enabled: BOOLEAN]
    BY <1>0, <2>2
  <2>8. burst' \in BOOLEAN
    BY <1>3, <1>0 DEF PollerHandlesEvent
  <2> QED
    BY <1>0, <1>3, <2>4, <2>6, <2>7, <2>8, WorkerStep DEF PollerHandlesEvent
<1> QED
  BY <1>1, <1>2, <1>3

-----------------------------------------------------------------------------
(* The process of the backend.                                             *)

LEMMA StartsSafe ==
    ASSUME CInv, BackendStarts
    PROVE  CInv'
<1>1. UNCHANGED <<params, canary, key, secrets, handler, row, told, torn, worker, burst, jobs, requests>>
      /\ ~up /\ up' = TRUE /\ Publish("locked")
  BY DEF BackendStarts, storeVars, rowVars
<1>2. key = NULL
  BY <1>1 DEF CInv, StoreInv
<1>3. WireInv'
  BY <1>1, <1>2, PublishTells
<1>4. /\ wire' \in Seq({"locked", "unlocked"}) /\ faults' \in 0..MaxFaults
      /\ faults' = 0 => faults = 0
  BY <1>1, PublishFits
<1>5. TypeOK'
  BY <1>1, <1>4 DEF CInv, TypeOK, StoreTypeOK
<1>6. StoreInv'
  BY <1>1 DEF CInv, StoreInv, KeyOpensStore
<1>7. WriteInv' /\ StatusInv'
  BY <1>1, <1>4, WriteKept, StatusKept DEF CInv
<1> QED
  BY <1>3, <1>5, <1>6, <1>7 DEF CInv

LEMMA StopsSafe ==
    ASSUME CInv, BackendStops
    PROVE  CInv'
<1>1. UNCHANGED <<params, canary, secrets, handler, row, told, torn, wire, worker, burst, jobs, requests, faults>>
      /\ key' = NULL /\ up' = FALSE /\ handler = NULL
  BY DEF BackendStops, rowVars, workerVars, Lock
<1>2. TypeOK'
  BY <1>1 DEF CInv, TypeOK, StoreTypeOK, KeyOrNull
<1>3. StoreInv'
  BY <1>1 DEF CInv, StoreInv, KeyOpensStore
<1>4. WriteInv' /\ StatusInv' /\ WireInv'
  BY <1>1, WriteKept, StatusKept, WireKept DEF CInv
<1> QED
  BY <1>2, <1>3, <1>4 DEF CInv

(* A handler that is interrupted leaves its provider torn.                 *)
LEMMA InterruptedWrites ==
    ASSUME CInv, handler # NULL, Interrupted, UNCHANGED <<secrets, row>>
    PROVE  /\ WriteInv'
           /\ torn' \in SUBSET Providers
           /\ faults' \in 0..MaxFaults /\ faults' # 0
<1>1. /\ faults \in 0..MaxFaults /\ torn \in SUBSET Providers
      /\ handler.prov \in Providers \union {NULL}
  BY DEF CInv, TypeOK, Handler
<1>2. handler' = NULL /\ faults' = faults + 1 /\ faults < MaxFaults
  BY DEF Interrupted
<1>3. faults' \in 0..MaxFaults /\ faults' # 0
  BY <1>1, <1>2, CustodyConstants
<1>4. torn' = IF handler.prov # NULL THEN torn \union {handler.prov} ELSE torn
  BY DEF Interrupted
<1>5. torn' \in SUBSET Providers
  BY <1>1, <1>4
<1>6. ASSUME NEW p \in Providers, row'[p] # NULL, p \notin torn', NEW part \in row'[p].parts
      PROVE  secrets'[RefOf(p, part, row'[p].ver)] # NULL
  <2>1. p \notin torn /\ p # handler.prov
    BY <1>4, <1>6, CustodyConstants
  <2>2. ~HandlerOn(p)
    BY <2>1 DEF HandlerOn
  <2> QED
    BY <1>6, <2>1, <2>2 DEF CInv, WriteInv, RowsHaveSecrets
<1>7. RowsHaveSecrets'
  BY <1>6 DEF RowsHaveSecrets
<1> QED
  BY <1>2, <1>3, <1>5, <1>7 DEF WriteInv, Writing

LEMMA CrashSafe ==
    ASSUME CInv, BackendCrashes
    PROVE  CInv'
<1>1. UNCHANGED <<params, canary, secrets, row, told, wire, worker, burst, jobs, requests>>
      /\ key' = NULL /\ up' = FALSE /\ handler' = NULL /\ handler # NULL /\ Interrupted
  BY DEF BackendCrashes, workerVars, Lock, Interrupted
<1>2. /\ WriteInv'
      /\ torn' \in SUBSET Providers
      /\ faults' \in 0..MaxFaults /\ faults' # 0
  BY <1>1, InterruptedWrites
<1>3. TypeOK'
  BY <1>1, <1>2 DEF CInv, TypeOK, StoreTypeOK, KeyOrNull
<1>4. StoreInv'
  BY <1>1 DEF CInv, StoreInv, KeyOpensStore
<1>5. StatusInv' /\ WireInv'
  BY <1>1, <1>2, StatusKept, WireKept DEF CInv
<1> QED
  BY <1>2, <1>3, <1>4, <1>5 DEF CInv

-----------------------------------------------------------------------------
(* First run and unlock.                                                   *)

LEMMA InitializeSafe ==
    ASSUME CInv, NEW p \in Passphrases, PostUnlockInitialize(p)
    PROVE  CInv'
<1>1. UNCHANGED <<canary, key, secrets, up, row, told, torn, wire, worker, burst, jobs, requests, faults>>
      /\ ~params /\ params' = TRUE /\ handler = NULL /\ up
  BY DEF PostUnlockInitialize, StoreKdfParameters, rowVars, workerVars, Idle
<1>a. [kind |-> "init", prov |-> NULL, pass |-> p, ver |-> 0, parts |-> {}, todo |-> <<>>] \in Handler
  <2>1. <<>> \in Seq(Op) /\ 0 \in 0..MaxVersion /\ p \in KeyOrNull
    BY CustodyConstants DEF KeyOrNull
  <2> QED
    BY <2>1 DEF Handler
<1>2. PICK h \in Handler: h = [kind |-> "init", prov |-> NULL, pass |-> p, ver |-> 0, parts |-> {}, todo |-> <<>>]
  BY <1>a, Zenon
<1>3. handler' = h /\ h.kind = "init" /\ h.prov = NULL /\ h.pass = p /\ h # NULL
  BY <1>2, CustodyConstants DEF PostUnlockInitialize
<1>4. TypeOK'
  BY <1>1, <1>3 DEF CInv, TypeOK, StoreTypeOK
<1>5. canary = NULL
  BY <1>1 DEF CInv, StoreInv
<1>6. StoreInv'
  BY <1>1, <1>3, <1>5 DEF CInv, StoreInv, KeyOpensStore
<1>7. ~Writing' /\ ~Writing /\ \A q \in Providers: ~HandlerOn(q)' /\ ~HandlerOn(q)
  BY <1>1, <1>3, CustodyConstants DEF Writing, HandlerOn
<1>8. RowsHaveSecrets'
  BY <1>1, <1>7 DEF CInv, WriteInv, RowsHaveSecrets
<1>9. faults' = 0 => \A r \in Refs: secrets'[r] # NULL => Referenced(r)'
  BY <1>1, <1>7 DEF CInv, WriteInv, Referenced
<1>10. WriteInv'
  BY <1>7, <1>8, <1>9 DEF WriteInv
<1>11. StatusInv' /\ WireInv'
  BY <1>1, StatusKept, WireKept DEF CInv
<1> QED
  BY <1>4, <1>6, <1>10, <1>11 DEF CInv

LEMMA CanarySafe ==
    ASSUME CInv, InitializeWritesCanary
    PROVE  CInv'
<1>1. UNCHANGED <<params, key, secrets, up, handler, row, told, torn, wire, worker, burst, jobs, requests, faults>>
      /\ handler # NULL /\ handler.kind = "init" /\ canary = NULL /\ canary' = handler.pass
  BY DEF InitializeWritesCanary, StoreCanary, rowVars, workerVars
<1>2. handler.pass \in Passphrases /\ params /\ key = NULL
  BY <1>1 DEF CInv, StoreInv, KeyOpensStore
<1>3. \A r \in Refs: secrets[r] = NULL
  BY <1>1 DEF CInv, StoreInv, KeyOpensStore
<1>4. TypeOK'
  BY <1>1, <1>2 DEF CInv, TypeOK, StoreTypeOK, KeyOrNull
<1>5. StoreInv'
  BY <1>1, <1>2, <1>3 DEF CInv, StoreInv, KeyOpensStore
<1>6. WriteInv' /\ StatusInv' /\ WireInv'
  BY <1>1, WriteKept, StatusKept, WireKept DEF CInv
<1> QED
  BY <1>4, <1>5, <1>6 DEF CInv

LEMMA InitializeEndsSafe ==
    ASSUME CInv, InitializeEnds
    PROVE  CInv'
<1>1. UNCHANGED <<params, canary, secrets, up, row, told, torn, worker, burst, jobs, requests>>
      /\ handler # NULL /\ handler.kind = "init" /\ canary # NULL
      /\ key' = handler.pass /\ handler' = NULL /\ Publish("unlocked")
  BY DEF InitializeEnds, HoldKey, rowVars
<1>2. handler.pass \in Passphrases /\ params /\ canary = handler.pass /\ up
  BY <1>1 DEF CInv, StoreInv
<1>3. /\ wire' \in Seq({"locked", "unlocked"}) /\ faults' \in 0..MaxFaults
      /\ faults' = 0 => faults = 0
  BY <1>1, PublishFits
<1>4. TypeOK'
  BY <1>1, <1>2, <1>3 DEF CInv, TypeOK, StoreTypeOK, KeyOrNull
<1>5. StoreInv'
  BY <1>1, <1>2 DEF CInv, StoreInv, KeyOpensStore
<1>6. WireInv'
  BY <1>1, PublishTells
<1>7. ~Writing' /\ ~Writing /\ \A q \in Providers: ~HandlerOn(q)'
  BY <1>1 DEF Writing, HandlerOn
<1>9. \A q \in Providers: ~HandlerOn(q)
  BY <1>1, CustodyConstants DEF HandlerOn, CInv, StoreInv
<1>10. RowsHaveSecrets'
  BY <1>1, <1>7, <1>9 DEF CInv, WriteInv, RowsHaveSecrets
<1>11. faults' = 0 => \A r \in Refs: secrets'[r] # NULL => Referenced(r)'
  BY <1>1, <1>3, <1>7 DEF CInv, WriteInv, Referenced
<1>12. WriteInv'
  BY <1>7, <1>10, <1>11 DEF WriteInv
<1>13. StatusInv'
  BY <1>1, <1>3, StatusKept DEF CInv
<1> QED
  BY <1>4, <1>5, <1>6, <1>12, <1>13 DEF CInv

LEMMA ValidateSafe ==
    ASSUME CInv, NEW p \in Passphrases, PostPassphraseValidate(p)
    PROVE  CInv'
<1>1. UNCHANGED <<params, canary, secrets, up, handler, row, told, torn, worker, burst, jobs, requests>>
      /\ handler = NULL /\ up /\ key' = p /\ params /\ canary = p /\ Publish("unlocked")
  BY DEF PostPassphraseValidate, Unlock, Unlocks, Decrypts, HoldKey, rowVars, Idle
<1>2. /\ wire' \in Seq({"locked", "unlocked"}) /\ faults' \in 0..MaxFaults
      /\ faults' = 0 => faults = 0
  BY <1>1, PublishFits
<1>3. TypeOK'
  BY <1>1, <1>2 DEF CInv, TypeOK, StoreTypeOK, KeyOrNull
<1>4. StoreInv'
  BY <1>1 DEF CInv, StoreInv, KeyOpensStore
<1>5. WireInv'
  BY <1>1, PublishTells
<1>6. WriteInv' /\ StatusInv'
  BY <1>1, <1>2, WriteKept, StatusKept DEF CInv
<1> QED
  BY <1>3, <1>4, <1>5, <1>6 DEF CInv

-----------------------------------------------------------------------------
(* Handlers that write secrets.                                            *)

LEMMA HandlerStarts ==
    ASSUME CInv, Serving, NEW h \in Handler, Starts(h), h.kind # "init", h.prov \in Providers,
           h.kind \in {"rotate", "forget"} => row[h.prov] # NULL,
           OnlyOwn(h), WillBeSet(h), faults = 0 => WillBeDeleted(h)
    PROVE  CInv'
<1>1. UNCHANGED <<params, canary, key, secrets, up, row, told, torn, wire, worker, burst, jobs, requests, faults>>
      /\ handler = NULL /\ up /\ handler' = h /\ h # NULL
  BY CustodyConstants DEF Serving, Idle, Starts, storeVars, rowVars, workerVars
<1>2. TypeOK'
  BY <1>1 DEF CInv, TypeOK, StoreTypeOK
<1>3. StoreInv'
  BY <1>1 DEF CInv, StoreInv, KeyOpensStore
<1>4. ~Writing /\ \A q \in Providers: ~HandlerOn(q)
  BY <1>1 DEF Writing, HandlerOn
<1>5. RowsHaveSecrets'
  BY <1>1, <1>4 DEF CInv, WriteInv, RowsHaveSecrets
<1>6. faults' = 0 => \A r \in Refs: secrets'[r] # NULL => Referenced(r)'
  BY <1>1, <1>4 DEF CInv, WriteInv, Referenced
<1>7. OnlyOwn(h)' /\ WillBeSet(h)' /\ (faults' = 0 => WillBeDeleted(h)')
  BY <1>1 DEF OnlyOwn, WillBeSet, WillBeDeleted
<1>8. OnlyOwn(handler)' /\ WillBeSet(handler)' /\ (faults' = 0 => WillBeDeleted(handler)')
  BY <1>1, <1>7 DEF OnlyOwn, WillBeSet, WillBeDeleted
<1>9. WriteInv'
  BY <1>1, <1>5, <1>6, <1>8 DEF WriteInv
<1>10. StatusInv' /\ WireInv'
  BY <1>1, StatusKept, WireKept DEF CInv
<1> QED
  BY <1>2, <1>3, <1>9, <1>10 DEF CInv

LEMMA CreateSafe ==
    ASSUME CInv, NEW p \in Providers, NEW v \in 0..MaxVersion, NEW parts \in WholeCredentials,
           CreateAccountHolding(p, v, parts)
    PROVE  CInv'
<1>0. parts \in SUBSET Parts
  BY DEF WholeCredentials, Parts
<1>1. PICK todo \in Seq(Op): todo = Ops("set", p, v, parts)
  BY <1>0, OpsWaits
<1>a. [kind |-> "create", prov |-> p, pass |-> NULL, ver |-> v, parts |-> parts, todo |-> todo] \in Handler
  BY <1>0 DEF Handler, KeyOrNull
<1>2. PICK h \in Handler:
         h = [kind |-> "create", prov |-> p, pass |-> NULL, ver |-> v, parts |-> parts, todo |-> todo]
  BY <1>a, Zenon
<1>3. h.kind = "create" /\ h.prov = p /\ h.ver = v /\ h.parts = parts /\ h.todo = todo
  BY <1>2
<1>4. Serving /\ Starts(h) /\ row[p] = NULL
  BY <1>1, <1>2 DEF CreateAccountHolding
<1>5. \A x: Waits(todo, x) <=> \E part \in parts: x = [op |-> "set", ref |-> RefOf(p, part, v)]
  BY <1>0, <1>1, OpsWaits
<1>6. OnlyOwn(h)
  <2>1. ASSUME NEW x \in Op, Waits(todo, x)
        PROVE  x.op = "set" /\ x.ref.prov = p /\ x.ref.ver = v /\ x.ref.part \in parts
    <3>1. PICK part \in parts: x = [op |-> "set", ref |-> RefOf(p, part, v)]
      BY <1>5, <2>1
    <3>2. x.op = "set" /\ x.ref = RefOf(p, part, v)
      BY <3>1
    <3> QED
      BY <3>2, <1>0, RefFields
  <2> QED
    BY <2>1, <1>3 DEF OnlyOwn
<1>7. WillBeSet(h)
  <2>1. \A part \in parts: Waits(todo, [op |-> "set", ref |-> RefOf(p, part, v)])
    BY <1>5
  <2> QED
    BY <2>1, <1>3 DEF WillBeSet, SetOp
<1>8. faults = 0 => WillBeDeleted(h)
  <2>1. ASSUME faults = 0, NEW r \in Refs, secrets[r] # NULL, r.prov = p
        PROVE  FALSE
    <3>1. ~Writing
      BY <1>4 DEF Writing, Serving, Idle
    <3>2. Referenced(r)
      BY <2>1, <3>1 DEF CInv, WriteInv
    <3> QED
      BY <3>2, <2>1, <1>4 DEF Referenced
  <2> QED
    BY <2>1, <1>3 DEF WillBeDeleted
<1> QED
  BY <1>3, <1>4, <1>6, <1>7, <1>8, HandlerStarts

(* The secrets that a row refers to, before a handler that deletes them.   *)
LEMMA DeletesAll ==
    ASSUME CInv, Serving, faults = 0, NEW p \in Providers, row[p] # NULL, NEW r \in Refs,
           secrets[r] # NULL, r.prov = p
    PROVE  /\ row[p].ver \in 0..MaxVersion /\ row[p].parts \in SUBSET Parts
           /\ Waits(Ops("delete", p, row[p].ver, row[p].parts), DeleteOp(r))
<1>1. row[p].ver \in 0..MaxVersion /\ row[p].parts \in SUBSET Parts
  BY DEF CInv, TypeOK, Row
<1>2. ~Writing
  BY DEF Writing, Serving, Idle
<1>3. r.ver = row[p].ver /\ r.part \in row[p].parts
  BY <1>2 DEF CInv, WriteInv, Referenced
<1>4. r = RefOf(p, r.part, row[p].ver)
  BY <1>3, RefFields
<1>5. DeleteOp(r) = [op |-> "delete", ref |-> RefOf(p, r.part, row[p].ver)]
  BY <1>4 DEF DeleteOp
<1> QED
  BY <1>1, <1>3, <1>5, OpsWaits

LEMMA PatchSafe ==
    ASSUME CInv, NEW p \in Providers, NEW v \in 0..MaxVersion, NEW parts \in WholeCredentials,
           NEW given, PatchProvider(p, v, given, parts)
    PROVE  CInv'
<1>0. parts \in SUBSET Parts /\ row[p] # NULL /\ Serving /\ Fresh(p, v)
  BY DEF WholeCredentials, Parts, PatchProvider
<1>1. row[p].ver \in 0..MaxVersion /\ row[p].parts \in SUBSET Parts /\ row[p].ver # v
  BY <1>0 DEF CInv, TypeOK, Row, Fresh
<1>2. PICK d \in Seq(Op): d = Ops("delete", p, row[p].ver, row[p].parts)
  BY <1>1, OpsWaits
<1>3. PICK s \in Seq(Op): s = Ops("set", p, v, parts)
  BY <1>0, OpsWaits
<1>b. d \o s \in Seq(Op)
  OBVIOUS
<1>4. PICK todo \in Seq(Op): todo = d \o s
  BY <1>b, Zenon
<1>a. [kind |-> "rotate", prov |-> p, pass |-> NULL, ver |-> v, parts |-> parts, todo |-> todo] \in Handler
  BY <1>0 DEF Handler, KeyOrNull
<1>5. PICK h \in Handler:
         h = [kind |-> "rotate", prov |-> p, pass |-> NULL, ver |-> v, parts |-> parts, todo |-> todo]
  BY <1>a, Zenon
<1>6. h.kind = "rotate" /\ h.prov = p /\ h.ver = v /\ h.parts = parts /\ h.todo = todo
  BY <1>5
<1>7. Starts(h)
  BY <1>2, <1>3, <1>4, <1>5 DEF PatchProvider
<1>8. \A x: Waits(todo, x) <=> Waits(d, x) \/ Waits(s, x)
  BY <1>4, WaitsConcat
<1>9. \A x: Waits(d, x) <=> \E part \in row[p].parts: x = [op |-> "delete", ref |-> RefOf(p, part, row[p].ver)]
  BY <1>1, <1>2, OpsWaits
<1>10. \A x: Waits(s, x) <=> \E part \in parts: x = [op |-> "set", ref |-> RefOf(p, part, v)]
  BY <1>0, <1>3, OpsWaits
<1>11. OnlyOwn(h)
  <2>1. ASSUME NEW x \in Op, Waits(d, x)
        PROVE  x.op = "delete" /\ x.ref.prov = p /\ x.ref.ver # v
    <3>1. PICK part \in row[p].parts: x = [op |-> "delete", ref |-> RefOf(p, part, row[p].ver)]
      BY <1>9, <2>1
    <3>2. x.op = "delete" /\ x.ref = RefOf(p, part, row[p].ver)
      BY <3>1
    <3> QED
      BY <3>2, <1>1, RefFields
  <2>2. ASSUME NEW x \in Op, Waits(s, x)
        PROVE  x.op = "set" /\ x.ref.prov = p /\ x.ref.ver = v /\ x.ref.part \in parts
    <3>1. PICK part \in parts: x = [op |-> "set", ref |-> RefOf(p, part, v)]
      BY <1>10, <2>2
    <3>2. x.op = "set" /\ x.ref = RefOf(p, part, v)
      BY <3>1
    <3> QED
      BY <3>2, <1>0, RefFields
  <2> QED
    BY <2>1, <2>2, <1>6, <1>8 DEF OnlyOwn
<1>12. WillBeSet(h)
  <2>1. \A part \in parts: Waits(todo, [op |-> "set", ref |-> RefOf(p, part, v)])
    BY <1>8, <1>10
  <2> QED
    BY <2>1, <1>6 DEF WillBeSet, SetOp
<1>13. faults = 0 => WillBeDeleted(h)
  <2>1. ASSUME faults = 0, NEW r \in Refs, secrets[r] # NULL, r.prov = p
        PROVE  Waits(todo, DeleteOp(r))
    BY <2>1, <1>0, <1>2, <1>8, DeletesAll
  <2> QED
    BY <2>1, <1>6 DEF WillBeDeleted
<1> QED
  BY <1>0, <1>6, <1>7, <1>11, <1>12, <1>13, HandlerStarts

LEMMA DeleteHoldingSafe ==
    ASSUME CInv, NEW p \in Providers, DeleteHolding(p)
    PROVE  CInv'
<1>0. row[p] # NULL /\ Serving
  BY DEF DeleteHolding
<1>1. row[p].ver \in 0..MaxVersion /\ row[p].parts \in SUBSET Parts
  BY <1>0 DEF CInv, TypeOK, Row
<1>2. PICK todo \in Seq(Op): todo = Ops("delete", p, row[p].ver, row[p].parts)
  BY <1>1, OpsWaits
<1>a. [kind |-> "forget", prov |-> p, pass |-> NULL, ver |-> row[p].ver, parts |-> row[p].parts,
       todo |-> todo] \in Handler
  BY <1>1 DEF Handler, KeyOrNull
<1>3. PICK h \in Handler:
         h = [kind |-> "forget", prov |-> p, pass |-> NULL, ver |-> row[p].ver, parts |-> row[p].parts,
              todo |-> todo]
  BY <1>a, Zenon
<1>4. h.kind = "forget" /\ h.prov = p /\ h.todo = todo
  BY <1>3
<1>5. Starts(h)
  BY <1>2, <1>3 DEF DeleteHolding
<1>6. \A x: Waits(todo, x) <=> \E part \in row[p].parts: x = [op |-> "delete", ref |-> RefOf(p, part, row[p].ver)]
  BY <1>1, <1>2, OpsWaits
<1>7. OnlyOwn(h)
  <2>1. ASSUME NEW x \in Op, Waits(todo, x)
        PROVE  x.op = "delete" /\ x.ref.prov = p
    <3>1. PICK part \in row[p].parts: x = [op |-> "delete", ref |-> RefOf(p, part, row[p].ver)]
      BY <1>6, <2>1
    <3>2. x.op = "delete" /\ x.ref = RefOf(p, part, row[p].ver)
      BY <3>1
    <3> QED
      BY <3>2, <1>1, RefFields
  <2> QED
    BY <2>1, <1>4 DEF OnlyOwn
<1>8. WillBeSet(h)
  BY <1>4 DEF WillBeSet
<1>9. faults = 0 => WillBeDeleted(h)
  <2>1. ASSUME faults = 0, NEW r \in Refs, secrets[r] # NULL, r.prov = p
        PROVE  Waits(todo, DeleteOp(r))
    BY <2>1, <1>0, <1>2, DeletesAll
  <2> QED
    BY <2>1, <1>4 DEF WillBeDeleted
<1> QED
  BY <1>0, <1>4, <1>5, <1>7, <1>8, <1>9, HandlerStarts

(* The handler after one of its store operations.                          *)
LEMMA AdvanceFits ==
    ASSUME CInv, Writing, handler.todo # <<>>, Advances
    PROVE  /\ handler' \in Handler /\ handler' # NULL /\ handler # NULL
           /\ handler'.kind = handler.kind /\ handler'.prov = handler.prov
           /\ handler'.ver = handler.ver /\ handler'.parts = handler.parts
           /\ handler'.todo = Tail(handler.todo)
           /\ handler'.kind # "init" /\ handler.todo \in Seq(Op)
<1>1. handler \in Handler /\ handler # NULL /\ handler.kind # "init"
  BY DEF CInv, TypeOK, Writing
<1>2. PICK h \in Handler: h = handler
  BY <1>1
<1>3. h.todo \in Seq(Op) /\ Tail(h.todo) \in Seq(Op)
  BY <1>2 DEF Handler
<1>4. handler' = [h EXCEPT !.todo = Tail(h.todo)]
  BY <1>2 DEF Advances
<1>5. [h EXCEPT !.todo = Tail(h.todo)] \in Handler
  BY <1>3 DEF Handler
<1>6. handler'.todo = Tail(h.todo) /\ handler'.kind = h.kind /\ handler'.prov = h.prov
      /\ handler'.ver = h.ver /\ handler'.parts = h.parts
  BY <1>4 DEF Handler
<1> QED
  BY <1>1, <1>2, <1>3, <1>4, <1>5, <1>6, CustodyConstants

LEMMA WritesSafe ==
    ASSUME CInv, HandlerWrites
    PROVE  CInv'
<1>1. UNCHANGED <<params, canary, key, up, row, told, torn, wire, worker, burst, jobs, requests, faults>>
      /\ Writing /\ handler.todo # <<>> /\ Advances /\ key # NULL
  BY DEF HandlerWrites, rowVars, workerVars, SetSecret, DeleteSecret, IsUnlocked
<1>2. /\ handler' \in Handler /\ handler' # NULL /\ handler # NULL
      /\ handler'.kind = handler.kind /\ handler'.prov = handler.prov
      /\ handler'.ver = handler.ver /\ handler'.parts = handler.parts
      /\ handler'.todo = Tail(handler.todo)
      /\ handler'.kind # "init" /\ handler.todo \in Seq(Op)
  BY <1>1, AdvanceFits
<1>3. PICK todo \in Seq(Op): todo = handler.todo /\ todo # <<>>
  BY <1>1, <1>2
<1>4. PICK x \in Op: x = Head(todo)
  BY <1>3, WaitsTail
<1>5. x.ref \in Refs /\ x.op \in {"set", "delete"} /\ Waits(todo, x)
  BY <1>3, <1>4, WaitsTail DEF Op
<1>6. /\ handler.prov \in Providers
      /\ handler.kind \in {"rotate", "forget"} => row[handler.prov] # NULL
      /\ OnlyOwn(handler) /\ WillBeSet(handler) /\ (faults = 0 => WillBeDeleted(handler))
  BY <1>1 DEF CInv, WriteInv
<1>7. /\ x.ref.prov = handler.prov
      /\ x.op = "set" => handler.kind # "forget" /\ x.ref.ver = handler.ver /\ x.ref.part \in handler.parts
      /\ x.op = "delete" => handler.kind = "forget" \/ x.ref.ver # handler.ver
  BY <1>3, <1>5, <1>6 DEF OnlyOwn
<1>8. secrets \in [Refs -> KeyOrNull] /\ key \in KeyOrNull /\ canary = key
  BY <1>1 DEF CInv, TypeOK, StoreTypeOK, StoreInv, KeyOpensStore
<1>9. secrets' = [secrets EXCEPT ![x.ref] = IF x.op = "set" THEN key ELSE NULL]
  BY <1>3, <1>4 DEF HandlerWrites, SetSecret, DeleteSecret
<1>10. /\ secrets' \in [Refs -> KeyOrNull]
       /\ secrets'[x.ref] = IF x.op = "set" THEN key ELSE NULL
       /\ \A r \in Refs: r # x.ref => secrets'[r] = secrets[r]
  BY <1>5, <1>8, <1>9 DEF KeyOrNull
<1>11. TypeOK'
  BY <1>1, <1>2, <1>10 DEF CInv, TypeOK, StoreTypeOK
<1>12. StoreInv'
  BY <1>1, <1>2, <1>8, <1>10 DEF CInv, StoreInv, KeyOpensStore
<1>13. \A y: /\ Waits(todo, y) => y = x \/ Waits(Tail(todo), y)
             /\ Waits(Tail(todo), y) => Waits(todo, y)
  BY <1>3, <1>4, WaitsTail
<1>14. OnlyOwn(handler)'
  BY <1>2, <1>3, <1>6, <1>13 DEF OnlyOwn
<1>15. WillBeSet(handler)'
  <2>1. ASSUME handler.kind # "forget", NEW part \in handler.parts
        PROVE  secrets'[RefOf(handler.prov, part, handler.ver)] # NULL
                  \/ Waits(Tail(todo), SetOp(handler.prov, part, handler.ver))
    <3>1. part \in Parts /\ handler.ver \in 0..MaxVersion
      BY <1>2, <2>1 DEF CInv, TypeOK, Handler
    <3>2. PICK r \in Refs: r = RefOf(handler.prov, part, handler.ver) /\ r.ver = handler.ver
      BY <3>1, <1>6, RefFields
    <3>3. secrets[r] # NULL \/ Waits(todo, SetOp(handler.prov, part, handler.ver))
      BY <2>1, <3>2, <1>3, <1>6 DEF WillBeSet
    <3>4. CASE x.op = "set" /\ x.ref = r
      BY <3>4, <3>2, <1>1, <1>10
    <3>5. CASE x.op = "delete"
      <4>1. x.ref # r
        BY <3>5, <3>2, <2>1, <1>7
      <4>2. x # SetOp(handler.prov, part, handler.ver)
        BY <3>5 DEF SetOp
      <4> QED
        BY <4>1, <4>2, <3>2, <3>3, <1>10, <1>13
    <3>6. CASE x.op = "set" /\ x.ref # r
      <4>1. x # SetOp(handler.prov, part, handler.ver)
        BY <3>6, <3>2 DEF SetOp
      <4> QED
        BY <4>1, <3>2, <3>3, <3>6, <1>10, <1>13
    <3> QED
      BY <3>4, <3>5, <3>6, <1>5
  <2> QED
    BY <2>1, <1>2, <1>3 DEF WillBeSet
<1>16. faults' = 0 => WillBeDeleted(handler)'
  <2>1. ASSUME faults = 0, NEW r \in Refs, secrets'[r] # NULL, r.prov = handler.prov
        PROVE  \/ handler.kind # "forget" /\ r.ver = handler.ver /\ r.part \in handler.parts
               \/ Waits(Tail(todo), DeleteOp(r))
    <3>1. CASE x.ref = r
      <4>1. x.op = "set"
        BY <2>1, <3>1, <1>5, <1>10
      <4> QED
        BY <4>1, <3>1, <1>7
    <3>2. CASE x.ref # r
      <4>1. secrets[r] # NULL
        BY <2>1, <3>2, <1>10
      <4>2. \/ handler.kind # "forget" /\ r.ver = handler.ver /\ r.part \in handler.parts
            \/ Waits(todo, DeleteOp(r))
        BY <4>1, <2>1, <1>3, <1>6 DEF WillBeDeleted
      <4>3. x # DeleteOp(r)
        BY <3>2 DEF DeleteOp
      <4> QED
        BY <4>2, <4>3, <1>13
    <3> QED
      BY <3>1, <3>2
  <2> QED
    BY <2>1, <1>1, <1>2, <1>3 DEF WillBeDeleted
<1>17. RowsHaveSecrets'
  <2>1. ASSUME NEW p \in Providers, row[p] # NULL, p # handler.prov, p \notin torn, NEW part \in row[p].parts
        PROVE  secrets'[RefOf(p, part, row[p].ver)] # NULL
    <3>1. part \in Parts /\ row[p].ver \in 0..MaxVersion
      BY <2>1 DEF CInv, TypeOK, Row
    <3>2. PICK r \in Refs: r = RefOf(p, part, row[p].ver) /\ r.prov = p
      BY <3>1, RefFields
    <3>3. secrets[r] # NULL
      BY <2>1, <3>2 DEF CInv, WriteInv, RowsHaveSecrets, HandlerOn
    <3> QED
      BY <3>2, <3>3, <2>1, <1>7, <1>10
  <2> QED
    BY <2>1, <1>1, <1>2 DEF RowsHaveSecrets, HandlerOn
<1>18. faults' = 0 => \A r \in Refs: secrets'[r] # NULL => Referenced(r)' \/ HandlerOn(r.prov)'
  <2>1. ASSUME faults = 0, NEW r \in Refs, secrets'[r] # NULL, r.prov # handler.prov
        PROVE  Referenced(r)
    <3>1. secrets[r] # NULL
      BY <2>1, <1>7, <1>10
    <3> QED
      BY <3>1, <2>1 DEF CInv, WriteInv, HandlerOn
  <2>2. \A r: Referenced(r)' = Referenced(r)
    BY <1>1 DEF Referenced
  <2> QED
    BY <2>1, <2>2, <1>1, <1>2 DEF HandlerOn
<1>19. Writing'
  BY <1>2 DEF Writing
<1>20. WriteInv'
  BY <1>1, <1>2, <1>6, <1>14, <1>15, <1>16, <1>17, <1>18, <1>19 DEF WriteInv
<1>21. StatusInv' /\ WireInv'
  BY <1>1, StatusKept, WireKept DEF CInv
<1> QED
  BY <1>11, <1>12, <1>20, <1>21 DEF CInv

LEMMA CommitSafe ==
    ASSUME CInv, HandlerCommits
    PROVE  CInv'
<1> USE CustodyConstants
<1>1. UNCHANGED <<params, canary, key, secrets, up, wire, worker, burst, jobs, requests, faults>>
      /\ Writing /\ handler.todo = <<>> /\ handler' = NULL /\ torn' = torn \ {handler.prov}
  BY DEF HandlerCommits, storeVars, workerVars
<1>2. PICK h \in Handler: h = handler /\ h.kind # "init"
  BY <1>1 DEF CInv, TypeOK, Writing
<1>3. PICK p \in Providers: p = h.prov
  BY <1>1, <1>2 DEF CInv, WriteInv
<1>4. h.kind \in {"create", "rotate", "forget"} /\ h.ver \in 0..MaxVersion /\ h.parts \in SUBSET Parts
  BY <1>2 DEF Handler
<1>5. row \in [Providers -> Row \union {NULL}] /\ told \in [Providers -> Statuses]
  BY DEF CInv, TypeOK
<1>6. h.kind \in {"rotate", "forget"} => row[p] \in Row /\ row[p] # NULL
  BY <1>1, <1>2, <1>3, <1>5 DEF CInv, WriteInv
<1>7. \A x: ~Waits(h.todo, x)
  BY <1>1, <1>2, WaitsNone
<1>8. h.kind # "forget" => \A part \in h.parts: secrets[RefOf(p, part, h.ver)] # NULL
  BY <1>1, <1>2, <1>3, <1>7 DEF CInv, WriteInv, WillBeSet
<1>9. faults = 0 => \A r \in Refs: secrets[r] # NULL /\ r.prov = p =>
                       h.kind # "forget" /\ r.ver = h.ver /\ r.part \in h.parts
  BY <1>1, <1>2, <1>3, <1>7 DEF CInv, WriteInv, WillBeDeleted
<1>10. PICK n \in Row \union {NULL}:
          /\ row' = [row EXCEPT ![p] = n]
          /\ h.kind = "forget" => n = NULL
          /\ h.kind # "forget" => n \in Row /\ n.ver = h.ver /\ n.parts = h.parts
          /\ h.kind = "rotate" => n.status = row[p].status /\ n.errs = row[p].errs
          /\ h.kind = "create" => n.status = "healthy" /\ n.errs = 0
  <2>1. CASE h.kind = "forget"
    <3>1. row' = [row EXCEPT ![p] = NULL]
      BY <2>1, <1>2, <1>3 DEF HandlerCommits, RowAfter
    <3> QED
      BY <2>1, <3>1
  <2>2. CASE h.kind = "rotate"
    <3>0. row[p].status \in Statuses /\ row[p].errs \in 0..Unreachable
      BY <2>2, <1>6 DEF Row
    <3>1. [ver |-> h.ver, parts |-> h.parts, status |-> row[p].status, errs |-> row[p].errs] \in Row
      BY <3>0, <1>4 DEF Row
    <3>2. PICK n \in Row: n = [ver |-> h.ver, parts |-> h.parts, status |-> row[p].status, errs |-> row[p].errs]
      BY <3>1, Zenon
    <3>3. n.ver = h.ver /\ n.parts = h.parts /\ n.status = row[p].status /\ n.errs = row[p].errs
      BY <3>2
    <3>4. row' = [row EXCEPT ![p] = n]
      BY <2>2, <3>2, <1>2, <1>3 DEF HandlerCommits, RowAfter
    <3> QED
      BY <2>2, <3>3, <3>4
  <2>3. CASE h.kind = "create"
    <3>1. [ver |-> h.ver, parts |-> h.parts, status |-> "healthy", errs |-> 0] \in Row
      BY <1>4 DEF Row, Statuses
    <3>2. PICK n \in Row: n = [ver |-> h.ver, parts |-> h.parts, status |-> "healthy", errs |-> 0]
      BY <3>1, Zenon
    <3>3. n.ver = h.ver /\ n.parts = h.parts /\ n.status = "healthy" /\ n.errs = 0
      BY <3>2
    <3>4. row' = [row EXCEPT ![p] = n]
      BY <2>3, <3>2, <1>2, <1>3 DEF HandlerCommits, RowAfter
    <3> QED
      BY <2>3, <3>3, <3>4
  <2> QED
    BY <2>1, <2>2, <2>3, <1>4
<1>11. /\ row' \in [Providers -> Row \union {NULL}] /\ row'[p] = n
       /\ \A q \in Providers: q # p => row'[q] = row[q]
  BY <1>5, <1>10
<1>12. /\ told' \in [Providers -> Statuses]
       /\ h.kind = "create" => told'[p] = "healthy"
       /\ h.kind # "create" => told' = told
       /\ \A q \in Providers: q # p => told'[q] = told[q]
  BY <1>2, <1>3, <1>5 DEF HandlerCommits, Statuses
<1>13. TypeOK'
  BY <1>1, <1>11, <1>12 DEF CInv, TypeOK, StoreTypeOK
<1>14. StoreInv'
  BY <1>1 DEF CInv, StoreInv, KeyOpensStore
<1>15. ~Writing' /\ \A q: ~HandlerOn(q)'
  BY <1>1 DEF Writing, HandlerOn
<1>16. RowsHaveSecrets'
  <2>1. ASSUME NEW q \in Providers, row'[q] # NULL, q \notin torn', NEW part \in row'[q].parts
        PROVE  secrets[RefOf(q, part, row'[q].ver)] # NULL
    <3>1. CASE q = p
      BY <2>1, <3>1, <1>8, <1>10, <1>11
    <3>2. CASE q # p
      <4>1. ~HandlerOn(q) /\ q \notin torn
        BY <2>1, <3>2, <1>1, <1>2, <1>3 DEF HandlerOn
      <4> QED
        BY <4>1, <2>1, <3>2, <1>11 DEF CInv, WriteInv, RowsHaveSecrets
    <3> QED
      BY <3>1, <3>2
  <2> QED
    BY <2>1, <1>1 DEF RowsHaveSecrets
<1>17. faults = 0 => \A r \in Refs: secrets[r] # NULL => Referenced(r)'
  <2>1. ASSUME faults = 0, NEW r \in Refs, secrets[r] # NULL
        PROVE  row'[r.prov] # NULL /\ row'[r.prov].ver = r.ver /\ r.part \in row'[r.prov].parts
    <3>0. r.prov \in Providers
      BY RefFields
    <3>1. CASE r.prov = p
      <4>1. h.kind # "forget" /\ r.ver = h.ver /\ r.part \in h.parts
        BY <2>1, <3>1, <1>9
      <4>2. n \in Row /\ n.ver = h.ver /\ n.parts = h.parts
        BY <4>1, <1>10
      <4> QED
        BY <4>1, <4>2, <3>1, <1>11
    <3>2. CASE r.prov # p
      <4>1. ~HandlerOn(r.prov)
        BY <3>2, <1>2, <1>3 DEF HandlerOn
      <4>2. Referenced(r)
        BY <4>1, <2>1 DEF CInv, WriteInv
      <4> QED
        BY <4>2, <3>0, <3>2, <1>11 DEF Referenced
    <3> QED
      BY <3>1, <3>2
  <2> QED
    BY <2>1 DEF Referenced
<1>18. WriteInv'
  BY <1>1, <1>15, <1>16, <1>17 DEF WriteInv
<1>19. StatusInv'
  <2>1. ASSUME NEW q \in Providers, row'[q] # NULL
        PROVE  /\ row'[q].status \in {"healthy", "auth_failed"} <=> row'[q].errs = 0
               /\ row'[q].status = "unreachable" <=> row'[q].errs = Unreachable
               /\ faults = 0 => told'[q] = row'[q].status
    <3>1. CASE q # p
      BY <2>1, <3>1, <1>11, <1>12 DEF CInv, StatusInv, StatusCounts, StatusIsTold, Rows
    <3>2. CASE q = p /\ h.kind = "rotate"
      BY <2>1, <3>2, <1>6, <1>10, <1>11, <1>12 DEF CInv, StatusInv, StatusCounts, StatusIsTold, Rows
    <3>3. CASE q = p /\ h.kind = "create"
      BY <2>1, <3>3, <1>10, <1>11, <1>12
    <3>4. CASE q = p /\ h.kind = "forget"
      BY <2>1, <3>4, <1>10, <1>11
    <3> QED
      BY <3>1, <3>2, <3>3, <3>4, <1>4
  <2> QED
    BY <2>1, <1>1 DEF StatusInv, StatusCounts, StatusIsTold, Rows
<1>20. WireInv'
  BY <1>1, WireKept DEF CInv
<1> QED
  BY <1>13, <1>14, <1>18, <1>19, <1>20 DEF CInv

LEMMA FailsSafe ==
    ASSUME CInv, HandlerFails
    PROVE  CInv'
<1>1. UNCHANGED <<params, canary, key, secrets, up, row, told, wire, worker, burst, jobs, requests>>
      /\ handler # NULL
  BY DEF HandlerFails, storeVars, workerVars
<1>2. CASE Interrupted
  <2>1. WriteInv' /\ torn' \in SUBSET Providers /\ faults' \in 0..MaxFaults /\ faults' # 0 /\ handler' = NULL
    BY <1>1, <1>2, InterruptedWrites DEF Interrupted
  <2>2. TypeOK'
    BY <1>1, <2>1 DEF CInv, TypeOK, StoreTypeOK
  <2>3. StoreInv'
    BY <1>1, <2>1 DEF CInv, StoreInv, KeyOpensStore
  <2>4. StatusInv' /\ WireInv'
    BY <1>1, <2>1, StatusKept, WireKept DEF CInv
  <2> QED
    BY <2>1, <2>2, <2>3, <2>4 DEF CInv
<1>3. CASE /\ handler.kind = "forget" /\ handler.todo # <<>> /\ faults < MaxFaults
           /\ faults' = faults + 1 /\ Advances /\ UNCHANGED torn
  <2>1. Writing
    BY <1>1, <1>3 DEF Writing
  <2>2. /\ handler' \in Handler /\ handler' # NULL /\ handler # NULL
        /\ handler'.kind = handler.kind /\ handler'.prov = handler.prov
        /\ handler'.ver = handler.ver /\ handler'.parts = handler.parts
        /\ handler'.todo = Tail(handler.todo)
        /\ handler'.kind # "init" /\ handler.todo \in Seq(Op)
    BY <1>3, <2>1, AdvanceFits
  <2>3. faults' \in 0..MaxFaults /\ faults' # 0
    BY <1>3, CustodyConstants DEF CInv, TypeOK
  <2>4. TypeOK'
    BY <1>1, <1>3, <2>2, <2>3 DEF CInv, TypeOK, StoreTypeOK
  <2>5. StoreInv'
    BY <1>1, <2>2 DEF CInv, StoreInv, KeyOpensStore
  <2>6. StatusInv' /\ WireInv'
    BY <1>1, <2>3, StatusKept, WireKept DEF CInv
  <2>7. \A x: Waits(Tail(handler.todo), x) => Waits(handler.todo, x)
    BY <1>3, <2>2, WaitsTail
  <2>8. OnlyOwn(handler)' /\ WillBeSet(handler)'
    BY <1>3, <2>1, <2>2, <2>7 DEF OnlyOwn, WillBeSet, CInv, WriteInv
  <2>9. RowsHaveSecrets'
    BY <1>1, <1>3, <2>2 DEF RowsHaveSecrets, HandlerOn, CInv, WriteInv
  <2>10. WriteInv'
    BY <1>1, <2>1, <2>2, <2>3, <2>8, <2>9 DEF CInv, WriteInv
  <2> QED
    BY <2>4, <2>5, <2>6, <2>10 DEF CInv
<1> QED
  BY <1>2, <1>3 DEF HandlerFails

-----------------------------------------------------------------------------
(* The poll cycle.                                                         *)

(* A poll writes status and count of one row, and tells the new status or  *)
(* fails to.                                                               *)
LEMMA PollSafe ==
    ASSUME CInv, NEW p \in Providers, PollAnswered(p),
           NEW status \in Statuses, NEW errs \in 0..Unreachable,
           SetStatus(p, status, errs),
           status \in {"healthy", "auth_failed"} <=> errs = 0,
           status = "unreachable" <=> errs = Unreachable,
           \/ Tells(p, status)
           \/ UNCHANGED <<told, faults>> /\ row[p].status = status
    PROVE  CInv'
<1>1. UNCHANGED <<params, canary, key, secrets, up, handler, torn, wire, worker, burst, jobs>>
      /\ row[p] # NULL /\ requests' = requests \ {p} /\ handler = NULL
  BY DEF PollAnswered, storeVars, Answered, Serving, Idle
<1>2. row \in [Providers -> Row \union {NULL}] /\ row[p] \in Row /\ faults \in 0..MaxFaults
      /\ told \in [Providers -> Statuses]
  BY <1>1 DEF CInv, TypeOK
<1>3. row[p].ver \in 0..MaxVersion /\ row[p].parts \in SUBSET Parts
  BY <1>2 DEF Row
<1>4. [ver |-> row[p].ver, parts |-> row[p].parts, status |-> status, errs |-> errs] \in Row
  BY <1>3 DEF Row
<1>5. PICK n \in Row: n = [ver |-> row[p].ver, parts |-> row[p].parts, status |-> status, errs |-> errs]
  BY <1>4, Zenon
<1>6. n.ver = row[p].ver /\ n.parts = row[p].parts /\ n.status = status /\ n.errs = errs /\ n # NULL
  BY <1>5, CustodyConstants
<1>7. row' = [row EXCEPT ![p] = n]
  BY <1>5 DEF SetStatus
<1>8. /\ row' \in [Providers -> Row \union {NULL}] /\ row'[p] = n
      /\ \A q \in Providers: q # p => row'[q] = row[q]
  BY <1>2, <1>7
<1>9. /\ told' \in [Providers -> Statuses] /\ faults' \in 0..MaxFaults
      /\ faults' = 0 => faults = 0 /\ told'[p] = status
      /\ \A q \in Providers: q # p => told'[q] = told[q]
  <2>1. CASE told' = [told EXCEPT ![p] = status] /\ UNCHANGED faults
    BY <2>1, <1>2
  <2>2. CASE faults < MaxFaults /\ faults' = faults + 1 /\ UNCHANGED told
    <3>1. faults' \in 0..MaxFaults /\ faults' # 0
      BY <2>2, <1>2, CustodyConstants
    <3> QED
      BY <2>2, <3>1, <1>2
  <2>3. CASE UNCHANGED <<told, faults>> /\ row[p].status = status
    BY <2>3, <1>1, <1>2 DEF CInv, StatusInv, StatusIsTold, Rows
  <2> QED
    BY <2>1, <2>2, <2>3 DEF Tells
<1>10. TypeOK'
  BY <1>1, <1>8, <1>9 DEF CInv, TypeOK, StoreTypeOK
<1>11. StoreInv'
  BY <1>1 DEF CInv, StoreInv, KeyOpensStore
<1>12. ~Writing /\ ~Writing' /\ \A q: ~HandlerOn(q) /\ ~HandlerOn(q)'
  BY <1>1 DEF Writing, HandlerOn
<1>13. \A q \in Providers: /\ row'[q] = NULL <=> row[q] = NULL
                           /\ row[q] # NULL => row'[q].ver = row[q].ver /\ row'[q].parts = row[q].parts
  BY <1>1, <1>6, <1>8
<1>14. RowsHaveSecrets'
  BY <1>1, <1>12, <1>13 DEF CInv, WriteInv, RowsHaveSecrets
<1>15. faults' = 0 => \A r \in Refs: secrets'[r] # NULL => Referenced(r)'
  <2>1. ASSUME faults = 0, NEW r \in Refs, secrets[r] # NULL
        PROVE  Referenced(r)'
    <3>1. Referenced(r) /\ r.prov \in Providers
      BY <2>1, <1>12, RefFields DEF CInv, WriteInv
    <3> QED
      BY <3>1, <1>13 DEF Referenced
  <2> QED
    BY <2>1, <1>1, <1>9
<1>16. WriteInv'
  BY <1>12, <1>14, <1>15 DEF WriteInv
<1>17. StatusInv'
  <2>1. ASSUME NEW q \in Providers, row'[q] # NULL
        PROVE  /\ row'[q].status \in {"healthy", "auth_failed"} <=> row'[q].errs = 0
               /\ row'[q].status = "unreachable" <=> row'[q].errs = Unreachable
               /\ faults' = 0 => told'[q] = row'[q].status
    <3>1. CASE q # p
      BY <2>1, <3>1, <1>8, <1>9 DEF CInv, StatusInv, StatusCounts, StatusIsTold, Rows
    <3>2. CASE q = p
      BY <3>2, <1>6, <1>8, <1>9
    <3> QED
      BY <3>1, <3>2
  <2> QED
    BY <2>1 DEF StatusInv, StatusCounts, StatusIsTold, Rows
<1>18. WireInv'
  BY <1>1, <1>9, WireKept DEF CInv
<1> QED
  BY <1>10, <1>11, <1>16, <1>17, <1>18 DEF CInv

LEMMA PollKeepsRow ==
    ASSUME CInv, NEW p \in Providers, PollAnswered(p), UNCHANGED row,
           UNCHANGED <<told, faults>> \/ (Tells(p, "auth_failed") /\ row[p].status = "auth_failed")
    PROVE  CInv'
<1>1. UNCHANGED <<params, canary, key, secrets, up, handler, torn, wire, worker, burst, jobs>>
      /\ row[p] # NULL /\ requests' = requests \ {p}
  BY DEF PollAnswered, storeVars, Answered
<1>2. faults \in 0..MaxFaults /\ told \in [Providers -> Statuses] /\ "auth_failed" \in Statuses
  BY DEF CInv, TypeOK, Statuses
<1>3. /\ told' \in [Providers -> Statuses] /\ faults' \in 0..MaxFaults
      /\ faults' = 0 => faults = 0 /\ (\A q \in Rows: told'[q] = row[q].status)
  <2>0. faults = 0 => \A q \in Rows: told[q] = row[q].status
    BY DEF CInv, StatusInv, StatusIsTold
  <2>1. CASE told' = [told EXCEPT ![p] = "auth_failed"] /\ UNCHANGED faults /\ row[p].status = "auth_failed"
    BY <2>0, <2>1, <1>2 DEF Rows
  <2>2. CASE faults < MaxFaults /\ faults' = faults + 1 /\ UNCHANGED told
    <3>1. faults' \in 0..MaxFaults /\ faults' # 0
      BY <2>2, <1>2, CustodyConstants
    <3> QED
      BY <2>2, <3>1, <1>2
  <2>3. CASE UNCHANGED <<told, faults>>
    BY <2>0, <2>3, <1>2
  <2> QED
    BY <2>1, <2>2, <2>3 DEF Tells
<1>4. TypeOK'
  BY <1>1, <1>3 DEF CInv, TypeOK, StoreTypeOK
<1>5. StatusInv'
  BY <1>3 DEF CInv, StatusInv, StatusCounts, StatusIsTold, Rows
<1>6. StoreInv' /\ WriteInv' /\ WireInv'
  BY <1>1, <1>3, StoreKept, WriteKept, WireKept DEF CInv
<1> QED
  BY <1>4, <1>5, <1>6 DEF CInv

LEMMA PollSteps ==
    ASSUME CInv, NEW p \in Providers, PollSucceeds(p) \/ PollAuthError(p) \/ PollTransientError(p)
    PROVE  CInv'
<1> USE CustodyConstants
<1>0. PollAnswered(p) /\ row[p] # NULL
  BY DEF PollSucceeds, PollAuthError, PollTransientError, PollAnswered
<1>1. row[p].status \in Statuses /\ row[p].errs \in 0..Unreachable
  BY <1>0 DEF CInv, TypeOK, Row
<1>2. /\ row[p].status \in {"healthy", "auth_failed"} <=> row[p].errs = 0
      /\ row[p].status = "unreachable" <=> row[p].errs = Unreachable
  BY <1>0 DEF CInv, StatusInv, StatusCounts, Rows
<1>3. CASE PollSucceeds(p)
  <2>1. SetStatus(p, "healthy", 0)
        /\ (Tells(p, "healthy") \/ (UNCHANGED <<told, faults>> /\ row[p].status = "healthy"))
    BY <1>3 DEF PollSucceeds
  <2>2. "healthy" \in Statuses /\ 0 \in 0..Unreachable
    BY DEF Statuses
  <2> QED
    BY <1>0, <2>1, <2>2, PollSafe
<1>4. CASE PollAuthError(p)
  <2>1. CASE row[p].status = "auth_failed"
    BY <1>0, <1>4, <2>1, PollKeepsRow DEF PollAuthError
  <2>2. CASE row[p].status # "auth_failed"
    <3>1. SetStatus(p, "auth_failed", 0) /\ Tells(p, "auth_failed")
      BY <1>4, <2>2 DEF PollAuthError
    <3>2. "auth_failed" \in Statuses /\ 0 \in 0..Unreachable
      BY DEF Statuses
    <3> QED
      BY <1>0, <3>1, <3>2, PollSafe
  <2> QED
    BY <2>1, <2>2
<1>5. CASE PollTransientError(p)
  <2>1. CASE row[p].status = "auth_failed"
    BY <1>0, <1>5, <2>1, PollKeepsRow DEF PollTransientError
  <2>2. CASE row[p].status # "auth_failed"
    <3>1. PICK status, errs:
             /\ status = ErrorStatus(row[p])
             /\ errs = IF row[p].errs < Unreachable THEN row[p].errs + 1 ELSE Unreachable
      OBVIOUS
    <3>2. SetStatus(p, status, errs)
          /\ (Tells(p, status) \/ (UNCHANGED <<told, faults>> /\ row[p].status = status))
      BY <1>5, <2>2, <3>1 DEF PollTransientError
    <3>3. errs \in 1..Unreachable /\ (errs = Unreachable <=> row[p].errs + 1 >= Unreachable)
      BY <3>1, <1>1
    <3>4. row[p].errs + 1 >= Unreachable => status = "unreachable"
      BY <3>1 DEF ErrorStatus
    <3>5. row[p].errs + 1 < Unreachable => status = "degraded"
      <4>1. row[p].errs + 1 < Unreachable => row[p].status \in {"healthy", "degraded"}
        BY <1>1, <1>2, <2>2 DEF Statuses
      <4> QED
        BY <3>1, <4>1, <1>1 DEF ErrorStatus
    <3>6. status \in Statuses /\ errs \in 0..Unreachable
      BY <3>3, <3>4, <3>5, <1>1 DEF Statuses
    <3>7. status \in {"healthy", "auth_failed"} <=> errs = 0
      BY <3>3, <3>4, <3>5, <1>1
    <3>8. status = "unreachable" <=> errs = Unreachable
      BY <3>3, <3>4, <3>5, <1>1
    <3> QED
      BY <1>0, <3>2, <3>6, <3>7, <3>8, PollSafe
  <2> QED
    BY <2>1, <2>2
<1> QED
  BY <1>3, <1>4, <1>5

-----------------------------------------------------------------------------
LEMMA StepSafe == CInv /\ [Next]_vars => CInv'
<1> SUFFICES ASSUME CInv, [Next]_vars PROVE CInv'
  OBVIOUS
<1>1. CASE BackendNext
  BY <1>1, StartsSafe, StopsSafe, CrashSafe, InitializeSafe, ValidateSafe, CanarySafe,
     InitializeEndsSafe, WritesSafe, CommitSafe, FailsSafe DEF BackendNext
<1>2. CASE WorkerNext
  BY <1>2, WorkerSteps, QueueSteps DEF WorkerNext
<1>3. ASSUME NEW p \in Providers, ProviderNext(p)
      PROVE  CInv'
  <2>1. ASSUME NEW v \in 0..MaxVersion, NEW parts \in WholeCredentials,
               \/ CreateAccountHolding(p, v, parts)
               \/ \E given \in (SUBSET {"key", "secret"}) \ {{}}: PatchProvider(p, v, given, parts)
        PROVE  CInv'
    BY <2>1, CreateSafe, PatchSafe
  <2>2. CASE DeleteHolding(p)
    BY <2>2, DeleteHoldingSafe
  <2>3. CASE RefreshProvider(p) \/ CancelJob(p)
    BY <2>3, QueueSteps
  <2>4. CASE PollSucceeds(p) \/ PollAuthError(p) \/ PollTransientError(p)
    BY <2>4, PollSteps
  <2> QED
    BY <1>3, <2>1, <2>2, <2>3, <2>4 DEF ProviderNext
<1>4. CASE UNCHANGED vars
  <2>1. UNCHANGED <<storeVars, up, handler, rowVars, faults, wire, worker, burst, jobs, requests>>
    BY <1>4 DEF vars, storeVars, rowVars
  <2>2. burst' \in BOOLEAN /\ jobs' \in SUBSET Providers /\ requests' \in SUBSET Providers
    BY <2>1 DEF CInv, TypeOK
  <2> QED
    BY <2>1, <2>2, QueueStep
<1> QED
  BY <1>1, <1>2, <1>3, <1>4 DEF Next

LEMMA CInvAlways == Spec => []CInv
BY InitCInv, StepSafe, PTL DEF Spec

(* The key in memory opens the canary and every secret; status and error   *)
(* count agree and are told; a suspended poller means a locked store.      *)
THEOREM CustodySafe == Spec => []CustodyInv
BY CInvAlways, CInvImplies, PTL

(* Every part that the row of a provider refers to is in the store, except *)
(* under a handler or after one was interrupted.                           *)
THEOREM RowsSafe == Spec => []RowsHaveSecrets
BY CInvAlways, CInvImplies, PTL

(* Without a failure, no secret outlives its account.                      *)
THEOREM OrphansSafe == Spec => []NoOrphanSecrets
BY CInvAlways, CInvImplies, PTL

(* A store without a canary is never repaired.                             *)
THEOREM HalfInitializedSafe == Spec => HalfInitializedForever
<1>1. ASSUME CInv, [Next]_vars, HalfInitialized
      PROVE  HalfInitialized'
  <2>1. params /\ canary = NULL /\ handler = NULL /\ key = NULL
    BY <1>1 DEF HalfInitialized, CInv, StoreInv, KeyOpensStore
  <2>2. \A p \in Passphrases: ~PostUnlockInitialize(p) /\ ~PostPassphraseValidate(p)
    BY <2>1 DEF PostUnlockInitialize, StoreKdfParameters, PostPassphraseValidate, Unlock, Unlocks
  <2>3. ~Serving /\ ~Writing
    BY <2>1 DEF Serving, IsUnlocked, Writing
  <2>4. UNCHANGED <<params, canary, handler>>
    <3>1. CASE BackendNext
      BY <3>1, <2>1, <2>2, <2>3 DEF BackendNext, BackendStarts, BackendStops, BackendCrashes, Lock,
         InitializeWritesCanary, InitializeEnds, HandlerWrites, HandlerCommits, HandlerFails, storeVars
    <3>2. CASE WorkerNext
      BY <3>2 DEF WorkerNext, WorkerStarts, WorkerStops, PollerHandlesEvent, CatchUpBurst, PollTick,
         OneShotCustodialPoll, PollDropped, storeVars
    <3>3. ASSUME NEW p \in Providers, ProviderNext(p)
          PROVE  FALSE
      BY <3>3, <2>3 DEF ProviderNext, CreateAccountHolding, PatchProvider, DeleteHolding, RefreshProvider,
         CancelJob, PollSucceeds, PollAuthError, PollTransientError, PollAnswered
    <3>4. CASE UNCHANGED vars
      BY <3>4 DEF vars
    <3> QED
      BY <1>1, <3>1, <3>2, <3>3, <3>4 DEF Next
  <2> QED
    BY <2>1, <2>4 DEF HalfInitialized
<1>2. CInv /\ [Next]_vars => [HalfInitialized => HalfInitialized']_vars
  BY <1>1
<1> QED
  BY <1>2, CInvAlways, PTL DEF Spec, HalfInitializedForever
=============================================================================
