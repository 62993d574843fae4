-------------------------- MODULE EventDeliveryProofs --------------------------
(***************************************************************************)
(* Theorems about EventBus and EventDelivery, for any number of            *)
(* subscriptions, patterns, events, entries and faults.                    *)
(*                                                                         *)
(* That a handler is called at most once after its unsubscribe needs that  *)
(* no subscription stands twice on a list, that a dispatch was copied from *)
(* such a list, and that one which was called and removed is not ahead of  *)
(* the dispatch any more (LateInv).  That only announced entries have a    *)
(* suggestion needs the same of every message on its way (WireInv) and in  *)
(* a dispatch (SnapInv).                                                   *)
(***************************************************************************)
EXTENDS EventDelivery, TLAPS, FiniteSetTheorems, SequenceTheorems, WellFoundedInduction

-----------------------------------------------------------------------------
(* Lists of subscriptions.                                                 *)

(* The elements of a sequence are those at its positions.                  *)
LEMMA SetOfList ==
    ASSUME NEW S, NEW q \in Seq(S)
    PROVE  /\ DOMAIN q = 1..Len(q) /\ Len(q) \in Nat
           /\ \A s: s \in ToSet(q) <=> \E i \in 1..Len(q): q[i] = s
           /\ ToSet(q) \subseteq S
<1>1. DOMAIN q = 1..Len(q) /\ Len(q) \in Nat
  BY LenProperties
<1>2. \A i \in 1..Len(q): q[i] \in S
  BY ElementOfSeq
<1> QED BY <1>1, <1>2 DEF ToSet

(* subscribe puts a new subscription at the end.                           *)
LEMMA ListAppend ==
    ASSUME NEW c, NEW q \in Seq(Subs), ListOf(c, q),
           NEW s \in Subs, Home[s] = c, s \notin ToSet(q)
    PROVE  /\ Append(q, s) \in Seq(Subs) /\ ListOf(c, Append(q, s))
           /\ ToSet(Append(q, s)) = ToSet(q) \union {s}
<1> DEFINE r == Append(q, s)
<1>1. /\ r \in Seq(Subs) /\ Len(r) = Len(q) + 1
      /\ \A i \in 1..Len(q): r[i] = q[i]
      /\ r[Len(q) + 1] = s
  BY AppendProperties
<1>2. DOMAIN q = 1..Len(q) /\ DOMAIN r = 1..(Len(q) + 1) /\ Len(q) \in Nat
  BY <1>1, LenProperties
<1>3. \A i \in 1..Len(q): q[i] # s
  BY SetOfList
<1> HIDE DEF r
<1>4. ListOf(c, r)
  BY <1>1, <1>2, <1>3 DEF ListOf
<1>5. ToSet(r) = ToSet(q) \union {s}
  BY <1>1, <1>2 DEF ToSet
<1> QED BY <1>1, <1>4, <1>5 DEF r

(* What is taken from different positions of a list is a list again.       *)
LEMMA ListPart ==
    ASSUME NEW c, NEW q \in Seq(Subs), ListOf(c, q), NEW r \in Seq(Subs),
           NEW p \in [1..Len(r) -> 1..Len(q)],
           \A i, j \in 1..Len(r): p[i] = p[j] => i = j,
           \A i \in 1..Len(r): r[i] = q[p[i]]
    PROVE  ListOf(c, r) /\ ToSet(r) = {q[p[i]]: i \in 1..Len(r)} /\ ToSet(r) \subseteq ToSet(q)
<1>1. DOMAIN q = 1..Len(q) /\ DOMAIN r = 1..Len(r)
  BY LenProperties
<1>2. ListOf(c, r)
  BY <1>1 DEF ListOf
<1>3. ToSet(r) = {q[p[i]]: i \in 1..Len(r)}
  BY <1>1 DEF ToSet
<1> QED BY <1>1, <1>2, <1>3 DEF ToSet

(* A dispatch has positions m to n before it.                              *)
LEMMA ListAfter ==
    ASSUME NEW c, NEW q \in Seq(Subs), ListOf(c, q), NEW m \in 1..Len(q), NEW n \in m..Len(q)
    PROVE  LET r == SubSeq(q, m, n) IN
           /\ r \in Seq(Subs) /\ ListOf(c, r) /\ r # <<>>
           /\ Head(r) = q[m]
           /\ ToSet(r) \subseteq ToSet(q)
<1>0. DOMAIN q = 1..Len(q) /\ Len(q) \in Nat /\ \A i \in 1..Len(q): q[i] \in Subs
  BY LenProperties, ElementOfSeq
<1>1. PICK r: r = SubSeq(q, m, n)
  OBVIOUS
<1>2. m \in Nat \ {0} /\ n \in Nat /\ m <= n /\ n <= Len(q) /\ m \in Int /\ n \in Int
  BY <1>0
<1>3. \A i \in m..n: q[i] \in Subs
  BY <1>0, <1>2
<1>4. /\ r \in Seq(Subs) /\ Len(r) = n - m + 1
      /\ \A i \in 1..(n - m + 1): r[i] = q[m + i - 1]
  BY <1>1, <1>2, <1>3, SubSeqProperties
<1>5. PICK p: p = [i \in 1..Len(r) |-> m + i - 1]
  OBVIOUS
<1>6. \A i \in 1..Len(r): m + i - 1 \in 1..Len(q) /\ p[i] = m + i - 1 /\ r[i] = q[p[i]]
  BY <1>0, <1>2, <1>4, <1>5
<1>7. p \in [1..Len(r) -> 1..Len(q)]
  BY <1>5, <1>6
<1>8. ASSUME NEW i \in 1..Len(r), NEW j \in 1..Len(r), p[i] = p[j] PROVE i = j
  <2>1. m + i - 1 = m + j - 1
    BY <1>6, <1>8
  <2>2. Len(r) \in Nat
    BY <1>2, <1>4
  <2> QED BY <1>2, <2>1, <2>2
<1>9. ListOf(c, r) /\ ToSet(r) \subseteq ToSet(q)
  <2>1. \A i, j \in 1..Len(r): p[i] = p[j] => i = j
    BY <1>8
  <2>2. \A i \in 1..Len(r): r[i] = q[p[i]]
    BY <1>6
  <2>3. r \in Seq(Subs)
    BY <1>4
  <2> QED BY <1>7, <2>1, <2>2, <2>3, ListPart, SMTT(30)
<1>10. r # <<>> /\ Head(r) = r[1]
  <2>1. Len(r) # 0
    BY <1>0, <1>2, <1>4
  <2> QED BY <2>1, <1>4
<1>11. r[1] = q[m]
  BY <1>0, <1>2, <1>4
<1> QED BY <1>1, <1>4, <1>9, <1>10, <1>11

(* The rest of a list does not have its first element.                     *)
LEMMA ListTail ==
    ASSUME NEW c, NEW q \in Seq(Subs), ListOf(c, q), q # <<>>
    PROVE  /\ Tail(q) \in Seq(Subs) /\ ListOf(c, Tail(q))
           /\ Head(q) \in Subs /\ Head(q) \in ToSet(q) /\ Home[Head(q)] = c
           /\ ToSet(Tail(q)) = ToSet(q) \ {Head(q)}
<1> DEFINE r == Tail(q)
<1>0. DOMAIN q = 1..Len(q) /\ Len(q) \in Nat \ {0} /\ Head(q) = q[1] /\ Head(q) \in Subs
  BY LenProperties, EmptySeq, HeadTailProperties
<1>1. /\ r \in Seq(Subs) /\ Len(r) = Len(q) - 1
      /\ \A i \in 1..(Len(q) - 1): r[i] = q[i + 1]
  BY <1>0, HeadTailProperties
<1>2. DOMAIN r = 1..(Len(q) - 1)
  BY <1>1, LenProperties
<1> HIDE DEF r
<1>3. PICK p: p = [i \in 1..Len(r) |-> i + 1]
  OBVIOUS
<1>4. ListOf(c, r)
  <2>1. /\ p \in [1..Len(r) -> 1..Len(q)]
        /\ \A i, j \in 1..Len(r): p[i] = p[j] => i = j
        /\ \A i \in 1..Len(r): r[i] = q[p[i]]
    BY <1>0, <1>1, <1>3
  <2> QED BY <2>1, <1>1, ListPart
<1>5. Home[Head(q)] = c /\ Head(q) \in ToSet(q)
  BY <1>0 DEF ListOf, ToSet
<1>6. ASSUME NEW x \in ToSet(r) PROVE x \in ToSet(q) \ {Head(q)}
  <2>1. PICK i \in 1..(Len(q) - 1): x = q[i + 1]
    BY <1>1, <1>2 DEF ToSet
  <2>2. i + 1 \in DOMAIN q /\ i + 1 # 1
    BY <1>0
  <2> QED BY <1>0, <2>1, <2>2 DEF ListOf, ToSet
<1>7. ASSUME NEW x \in ToSet(q) \ {Head(q)} PROVE x \in ToSet(r)
  <2>1. PICK i \in 1..Len(q): x = q[i] /\ i # 1
    BY <1>0 DEF ToSet
  <2>2. i - 1 \in 1..(Len(q) - 1) /\ r[i - 1] = x
    BY <1>0, <1>1, <2>1
  <2> QED BY <1>2, <2>2 DEF ToSet
<1> QED BY <1>0, <1>1, <1>4, <1>5, <1>6, <1>7 DEF r

(* _remove_subscription takes out one subscription and keeps the others.   *)
LEMMA ListRemove ==
    ASSUME NEW c, NEW q \in Seq(Subs), ListOf(c, q), NEW k \in DOMAIN q
    PROVE  /\ RemoveAt(q, k) \in Seq(Subs) /\ ListOf(c, RemoveAt(q, k))
           /\ ToSet(RemoveAt(q, k)) = ToSet(q) \ {q[k]}
<1> DEFINE a == SubSeq(q, 1, k - 1)
           b == SubSeq(q, k + 1, Len(q))
           r == a \o b
<1>0. DOMAIN q = 1..Len(q) /\ Len(q) \in Nat /\ \A i \in 1..Len(q): q[i] \in Subs
  BY LenProperties, ElementOfSeq
<1>1. k \in Nat \ {0} /\ k <= Len(q)
  BY <1>0
<1>2. /\ a \in Seq(Subs) /\ Len(a) = k - 1
      /\ \A i \in 1..(k - 1): a[i] = q[i]
  BY <1>0, <1>1, SubSeqProperties
<1>3. /\ b \in Seq(Subs) /\ Len(b) = Len(q) - k
      /\ \A i \in 1..(Len(q) - k): b[i] = q[k + i]
  <2>1. \A i \in (k + 1)..Len(q): q[i] \in Subs
    BY <1>0, <1>1
  <2>2. CASE k = Len(q)
    BY <2>1, <2>2, <1>0, <1>1, SubSeqProperties
  <2>3. CASE k < Len(q)
    BY <2>1, <2>3, <1>0, <1>1, SubSeqProperties
  <2> QED BY <2>2, <2>3, <1>0, <1>1
<1> HIDE DEF a, b
<1>4. /\ r \in Seq(Subs) /\ Len(r) = Len(q) - 1
      /\ \A i \in 1..(Len(q) - 1): r[i] = IF i < k THEN q[i] ELSE q[i + 1]
  <2>1. /\ r \in Seq(Subs) /\ Len(r) = Len(a) + Len(b)
        /\ \A i \in 1..(Len(a) + Len(b)): r[i] = IF i <= Len(a) THEN a[i] ELSE b[i - Len(a)]
    BY <1>2, <1>3, ConcatProperties
  <2>2. Len(a) + Len(b) = Len(q) - 1
    BY <1>0, <1>1, <1>2, <1>3
  <2> HIDE DEF r
  <2>3. ASSUME NEW i \in 1..(Len(q) - 1) PROVE r[i] = IF i < k THEN q[i] ELSE q[i + 1]
    <3>0. i \in Nat /\ 1 <= i /\ i <= Len(q) - 1
      BY <1>0
    <3>1. CASE i < k
      <4>1. i \in 1..(k - 1) /\ i <= Len(a)
        BY <3>0, <3>1, <1>1, <1>2
      <4> QED BY <3>1, <4>1, <2>1, <2>2, <1>2
    <3>2. CASE ~(i < k)
      <4>1. PICK j \in 1..(Len(q) - k): j = i - Len(a)
        BY <3>0, <3>2, <1>0, <1>1, <1>2
      <4>2. ~(i <= Len(a)) /\ k + j = i + 1
        BY <3>0, <3>2, <4>1, <1>0, <1>1, <1>2
      <4>3. r[i] = b[j]
        BY <4>1, <4>2, <2>1, <2>2
      <4>4. b[j] = q[k + j]
        BY <1>3
      <4> QED BY <3>2, <4>2, <4>3, <4>4
    <3> QED BY <3>1, <3>2
  <2> QED BY <2>1, <2>2, <2>3
<1>5. DOMAIN r = 1..(Len(q) - 1)
  BY <1>4, LenProperties
<1> HIDE DEF r
<1>p. PICK p: p = [i \in 1..Len(r) |-> IF i < k THEN i ELSE i + 1]
  OBVIOUS
<1>6. ListOf(c, r)
  <2>0. Len(r) \in Nat /\ Len(r) = Len(q) - 1
    BY <1>0, <1>1, <1>4
  <2>1. ASSUME NEW i \in 1..Len(r)
        PROVE  /\ p[i] \in 1..Len(q) /\ r[i] = q[p[i]]
               /\ i < k => p[i] = i
               /\ ~(i < k) => p[i] = i + 1
    <3>1. i \in Nat /\ i \in 1..(Len(q) - 1) /\ i \in 1..Len(q) /\ i + 1 \in 1..Len(q)
      BY <1>0, <2>0
    <3>2. CASE i < k
      BY <3>1, <3>2, <1>4, <1>p
    <3>3. CASE ~(i < k)
      BY <3>1, <3>3, <1>4, <1>p
    <3> QED BY <3>2, <3>3
  <2>2. p \in [1..Len(r) -> 1..Len(q)]
    <3>1. DOMAIN p = 1..Len(r) /\ p = [i \in DOMAIN p |-> p[i]]
      BY <1>p
    <3> QED BY <3>1, <2>1
  <2>3. ASSUME NEW i \in 1..Len(r), NEW j \in 1..Len(r), p[i] = p[j] PROVE i = j
    <3>1. i \in Nat /\ j \in Nat
      BY <2>0
    <3>2. CASE i < k
      BY <3>1, <3>2, <2>1, <2>3, <1>1
    <3>3. CASE ~(i < k)
      BY <3>1, <3>3, <2>1, <2>3, <1>1
    <3> QED BY <3>2, <3>3
  <2>4. \A i \in 1..Len(r): r[i] = q[p[i]]
    BY <2>1
  <2> QED BY <2>2, <2>3, <2>4, <1>4, ListPart
<1>7. ASSUME NEW x \in ToSet(r) PROVE x \in ToSet(q) \ {q[k]}
  <2>1. PICK i \in 1..(Len(q) - 1): x = IF i < k THEN q[i] ELSE q[i + 1]
    BY <1>4, <1>5 DEF ToSet
  <2>2. PICK j \in DOMAIN q: j # k /\ x = q[j]
    BY <2>1, <1>0, <1>1
  <2> QED BY <2>2 DEF ListOf, ToSet
<1>8. ASSUME NEW x \in ToSet(q) \ {q[k]} PROVE x \in ToSet(r)
  <2>1. PICK i \in 1..Len(q): x = q[i] /\ i # k
    BY <1>0 DEF ToSet
  <2>2. PICK j \in 1..(Len(q) - 1): j = IF i < k THEN i ELSE i - 1
    BY <2>1, <1>0, <1>1
  <2>3. r[j] = x
    BY <2>1, <2>2, <1>0, <1>1, <1>4
  <2> QED BY <1>5, <2>3 DEF ToSet
<1>9. r = RemoveAt(q, k)
  BY DEF RemoveAt, r, a, b
<1> QED BY <1>4, <1>6, <1>7, <1>8, <1>9

(* A set of positions has a first one and a last one.                      *)
LEMMA Least ==
    ASSUME NEW S \in SUBSET Nat, S # {}
    PROVE  \E x \in S: \A y \in S: ~(y < x)
<1>1. PICK R: R = OpToRel(<, Nat)
  BY Zenon
<1>2. IsWellFoundedOn(R, Nat)
  BY <1>1, NatLessThanWellFounded, Zenon
<1>3. \E x \in S: \A y \in S: ~(<<y, x>> \in R)
  BY <1>2, WFMin
<1>4. \A y, x \in Nat: y < x => <<y, x>> \in R
  BY <1>1 DEF OpToRel
<1> QED BY <1>3, <1>4

LEMMA Ends ==
    ASSUME NEW n \in Nat, NEW S \in SUBSET (1..n), S # {}
    PROVE  Min(S) \in S /\ Max(S) \in S /\ Min(S) <= Max(S)
<1>0. S \in SUBSET Nat
  OBVIOUS
<1>1. \E x \in S: \A y \in S: x <= y
  <2>1. PICK x \in S: \A y \in S: ~(y < x)
    BY <1>0, Least
  <2> QED BY <1>0, <2>1
<1>2. \E x \in S: \A y \in S: x >= y
  <2>1. PICK T: T = {n - y: y \in S}
    OBVIOUS
  <2>2. T \in SUBSET Nat /\ T # {}
    <3>1. \A y \in 1..n: n - y \in Nat
      OBVIOUS
    <3>2. \A y \in S: n - y \in Nat
      BY <3>1
    <3>3. \A t \in T: \E y \in S: t = n - y
      BY <2>1
    <3>4. PICK y \in S: TRUE
      OBVIOUS
    <3>5. n - y \in T
      BY <2>1
    <3> QED BY <3>2, <3>3, <3>5
  <2>3. PICK t \in T: \A u \in T: ~(u < t)
    BY <2>2, Least
  <2>4. PICK x \in S: t = n - x
    BY <2>1, <2>3
  <2>5. \A y \in S: n - y \in T
    BY <2>1
  <2>6. \A y \in S: ~(n - y < n - x)
    BY <2>3, <2>4, <2>5
  <2> QED BY <2>6
<1>3. Min(S) \in S /\ Max(S) \in S /\ \A y \in S: Min(S) <= y
  BY <1>1, <1>2 DEF Min, Max
<1> QED BY <1>3

(* A dispatch that is idle, or that stands at a handler of bus c that      *)
(* matches its message.                                                    *)
DispatchOK(c, d) ==
    /\ d \in [msg: Messages \union {None}, rest: Seq(Subs)]
    /\ ListOf(c, d.rest)
    /\ d.rest # <<>> => Hears(Head(d.rest), d.msg)
    /\ d.msg = None <=> d.rest = <<>>

(* No dispatch is under way.                                               *)
LEMMA IdleOK ==
    ASSUME NEW c
    PROVE  DispatchOK(c, Idle) /\ Idle.msg = None /\ Idle.rest = <<>> /\ ToSet(Idle.rest) = {}
<1>1. Idle \in [msg: Messages \union {None}, rest: Seq(Subs)] /\ Idle.msg = None /\ Idle.rest = <<>>
  BY DEF Idle
<1>2. ListOf(c, <<>>) /\ ToSet(<<>>) = {}
  BY DEF ListOf, ToSet
<1> QED BY <1>1, <1>2 DEF DispatchOK

(* _dispatch keeps to the list it was given.                               *)
LEMMA DispatchFits ==
    ASSUME NEW c, NEW q \in Seq(Subs), ListOf(c, q), NEW msg \in Messages
    PROVE  LET d == Dispatch(q, msg) IN
           DispatchOK(c, d) /\ d.msg \in {msg, None} /\ ToSet(d.rest) \subseteq ToSet(q)
<1> DEFINE h == {i \in DOMAIN q: Hears(q[i], msg)}
<1>1. PICK d: d = Dispatch(q, msg)
  OBVIOUS
<1>2. CASE h = {}
  <2>1. d = Idle
    BY <1>1, <1>2 DEF Dispatch
  <2> QED BY <1>1, <2>1, IdleOK
<1>3. CASE h # {}
  <2>1. Len(q) \in Nat /\ h \in SUBSET (1..Len(q))
    BY LenProperties
  <2>2. PICK m, n: m = Min(h) /\ n = Max(h)
    OBVIOUS
  <2>3. m \in h /\ n \in h /\ m <= n
    BY <1>3, <2>1, <2>2, Ends
  <2>4. m \in 1..Len(q) /\ n \in m..Len(q) /\ Hears(q[m], msg)
    BY <2>1, <2>3
  <2>5. d = [msg |-> msg, rest |-> SubSeq(q, m, n)]
    BY <1>1, <1>3, <2>2 DEF Dispatch
  <2>6. PICK r: r = SubSeq(q, m, n)
    OBVIOUS
  <2>7. r \in Seq(Subs) /\ ListOf(c, r) /\ r # <<>> /\ Head(r) = q[m] /\ ToSet(r) \subseteq ToSet(q)
    BY <2>4, <2>6, ListAfter
  <2>8. d.msg = msg /\ d.rest = r /\ d \in [msg: Messages \union {None}, rest: Seq(Subs)]
    BY <2>5, <2>6, <2>7
  <2>9. DispatchOK(c, d)
    BY <2>4, <2>7, <2>8, BusConstants DEF DispatchOK
  <2> QED BY <1>1, <2>7, <2>8, <2>9
<1> QED BY <1>2, <1>3

-----------------------------------------------------------------------------
(* The inductive invariant, by the variables it is about.                  *)

(* The messages that may be on their way once `ann` was announced.         *)
Sent(ann) == {Critically(e): e \in Critical} \union {Categorize(l): l \in ann}

WireOK(w, act, ann) ==
    /\ w \in Seq(Sent(ann))
    /\ \A i \in DOMAIN w: \E p \in act: TopicMatches(TopicOf[w[i]], p)

SubsInv ==
    /\ subs \in [Conns -> Seq(Subs)]
    /\ active \in [Conns -> SUBSET Patterns]
    /\ asked \in [Conns -> SUBSET Patterns]
    /\ server \in [Conns -> SUBSET Patterns]
    /\ \A c \in Conns:
         /\ IsFiniteSet(active[c]) /\ server[c] \subseteq asked[c] /\ asked[c] \subseteq active[c]
         /\ ListOf(c, subs[c])
         /\ \A s \in ToSet(subs[c]): PatternsOf[s] \subseteq active[c]

WireInv ==
    /\ wire \in [Conns -> Seq(Messages)]
    /\ \A c \in Conns: WireOK(wire[c], active[c], announced)

SnapInv ==
    /\ snap \in [Conns -> [msg: Messages \union {None}, rest: Seq(Subs)]]
    /\ \A c \in Conns: DispatchOK(c, snap[c]) /\ snap[c].msg \in Sent(announced) \union {None}

LateInv ==
    /\ late \in [Subs -> -1..1]
    /\ \A s \in Subs: /\ late[s] >= 0 => ~Registered(s)
                      /\ late[s] = 1 => s \notin ToSet(snap[Home[s]].rest)

UserInv ==
    /\ log \in [Critical -> {"none", "open", "acked"}]
    /\ old \in SUBSET Critical /\ emitting \in SUBSET Critical /\ todo \in SUBSET Critical
    /\ announced \in SUBSET Entries /\ suggested \subseteq announced \cap Internal
    /\ stream \in [Streams -> Stream]
    /\ \A s \in Streams: stream[s].phase # "closed" => Registered(s)
    /\ faults \in 0..MaxFaults

EInv == SubsInv /\ WireInv /\ SnapInv /\ LateInv /\ UserInv

-----------------------------------------------------------------------------
(* Facts about the constants and about what is on its way.                 *)

(* Where the subscriptions live.                                           *)
LEMMA Homes ==
    /\ \A s \in Subs: Home[s] \in Conns
    /\ Worker \in Conns /\ Backend \in Conns
    /\ Suggester \in Subs /\ Streams \subseteq Subs
    /\ Home[Suggester] = Worker
    /\ \A s \in Streams: Home[s] = Backend
  BY BusConstants, DeliveryConstants

(* A message about an entry is only sent when the entry was announced.     *)
LEMMA SentFacts ==
    ASSUME NEW ann \in SUBSET Entries
    PROVE  /\ Sent(ann) \subseteq Messages
           /\ \A e \in Critical: Critically(e) \in Sent(ann)
           /\ \A l \in ann: Categorize(l) \in Sent(ann)
           /\ \A l: Categorize(l) \in Sent(ann) => l \in ann
           /\ \A ann2: ann \subseteq ann2 => Sent(ann) \subseteq Sent(ann2)
           /\ None \notin Sent(ann)
<1>1. Messages = {Critically(e): e \in Critical} \union {Categorize(l): l \in Entries}
  BY DeliveryConstants
<1>2. Sent(ann) \subseteq Messages
  BY <1>1 DEF Sent
<1>3. ASSUME NEW l, Categorize(l) \in Sent(ann) PROVE l \in ann
  <2>1. \A e: Critically(e) # Categorize(l)
    <3>1. \A e: Critically(e).kind = "critical" /\ Categorize(l).kind = "categorize"
      BY DEF Critically, Categorize
    <3> QED BY <3>1
  <2>2. PICK k \in ann: Categorize(l) = Categorize(k)
    BY <1>3, <2>1 DEF Sent
  <2>3. Categorize(l).of = l /\ Categorize(k).of = k
    BY DEF Categorize
  <2> QED BY <2>2, <2>3
<1> QED BY <1>2, <1>3, BusConstants DEF Sent

(* What is on a wire still matches when patterns and announcements are     *)
(* added.                                                                  *)
LEMMA WireMore ==
    ASSUME NEW act, NEW ann \in SUBSET Entries, NEW w, WireOK(w, act, ann),
           NEW act2, NEW ann2 \in SUBSET Entries, act \subseteq act2, ann \subseteq ann2
    PROVE  WireOK(w, act2, ann2)
<1>1. Sent(ann) \subseteq Sent(ann2)
  BY SentFacts
<1>2. w \in Seq(Sent(ann2))
  BY <1>1, SeqMonotonic DEF WireOK
<1> QED BY <1>2 DEF WireOK

(* An empty wire.                                                          *)
LEMMA WireNothing == ASSUME NEW act, NEW ann PROVE WireOK(<<>>, act, ann)
<1>1. <<>> \in Seq(Sent(ann))
  BY EmptySeq
<1>2. DOMAIN <<>> = {}
  OBVIOUS
<1> QED BY <1>1, <1>2 DEF WireOK

(* The reader takes the oldest message.                                    *)
LEMMA WireRead ==
    ASSUME NEW act, NEW ann, NEW w, WireOK(w, act, ann), w # <<>>
    PROVE  WireOK(Tail(w), act, ann) /\ Head(w) \in Sent(ann)
<1>1. /\ w \in Seq(Sent(ann)) /\ DOMAIN w = 1..Len(w) /\ Len(w) \in Nat \ {0}
      /\ \A i \in DOMAIN w: \E p \in act: TopicMatches(TopicOf[w[i]], p)
  BY LenProperties, EmptySeq DEF WireOK
<1>2. PICK r: r = Tail(w)
  OBVIOUS
<1>3. r \in Seq(Sent(ann)) /\ Len(r) = Len(w) - 1 /\ \A i \in 1..(Len(w) - 1): r[i] = w[i + 1]
  BY <1>1, <1>2, HeadTailProperties
<1>4. DOMAIN r = 1..(Len(w) - 1)
  BY <1>3, LenProperties
<1>5. ASSUME NEW i \in DOMAIN r PROVE \E p \in act: TopicMatches(TopicOf[r[i]], p)
  <2>1. i + 1 \in DOMAIN w /\ r[i] = w[i + 1]
    BY <1>1, <1>3, <1>4
  <2> QED BY <1>1, <2>1
<1>6. Head(w) \in Sent(ann)
  BY <1>1, HeadTailProperties
<1> QED BY <1>2, <1>3, <1>5, <1>6 DEF WireOK

(* Redis sends n copies, and none unless a pattern matches.                *)
LEMMA WireSent ==
    ASSUME NEW act, NEW ann, NEW w, WireOK(w, act, ann), NEW n \in Nat, NEW msg \in Sent(ann),
           n # 0 => \E p \in act: TopicMatches(TopicOf[msg], p),
           NEW u, u = [i \in 1..n |-> msg]
    PROVE  WireOK(w \o u, act, ann)
<1>1. /\ w \in Seq(Sent(ann)) /\ DOMAIN w = 1..Len(w) /\ Len(w) \in Nat
      /\ \A i \in DOMAIN w: \E p \in act: TopicMatches(TopicOf[w[i]], p)
  BY LenProperties DEF WireOK
<1>3. u \in Seq(Sent(ann)) /\ Len(u) = n /\ \A i \in 1..n: u[i] = msg
  OBVIOUS
<1>4. PICK r: r = w \o u
  OBVIOUS
<1>5. /\ r \in Seq(Sent(ann)) /\ Len(r) = Len(w) + Len(u)
      /\ \A i \in 1..(Len(w) + Len(u)): r[i] = IF i <= Len(w) THEN w[i] ELSE u[i - Len(w)]
  BY <1>1, <1>3, <1>4, ConcatProperties
<1>6. DOMAIN r = 1..(Len(w) + n)
  BY <1>3, <1>5, LenProperties
<1>7. ASSUME NEW i \in DOMAIN r PROVE \E p \in act: TopicMatches(TopicOf[r[i]], p)
  <2>0. i \in Nat /\ i >= 1 /\ i <= Len(w) + n /\ i \in 1..(Len(w) + Len(u))
    BY <1>1, <1>3, <1>6
  <2>1. CASE i <= Len(w)
    <3>1. i \in DOMAIN w /\ r[i] = w[i]
      BY <2>0, <2>1, <1>1, <1>5
    <3> QED BY <3>1, <1>1
  <2>2. CASE ~(i <= Len(w))
    <3>1. i - Len(w) \in 1..n
      BY <2>0, <2>2, <1>1
    <3>2. r[i] = msg /\ n # 0
      BY <2>0, <2>2, <3>1, <1>3, <1>5
    <3> QED BY <3>2
  <2> QED BY <2>1, <2>2
<1> QED BY <1>4, <1>5, <1>7 DEF WireOK

(* publish keeps the wire in order: the copies are as many as the patterns *)
(* that match, which are finitely many.                                    *)
LEMMA PublishWire ==
    ASSUME SubsInv, WireInv, announced \in SUBSET Entries,
           NEW ann \in SUBSET Entries, announced \subseteq ann,
           NEW msg \in Sent(ann), Publish(msg)
    PROVE  /\ wire' \in [Conns -> Seq(Messages)]
           /\ \A c \in Conns: WireOK(wire'[c], active[c], ann)
<1>1. ASSUME NEW c \in Conns PROVE WireOK(wire'[c], active[c], ann)
  <2>1. Copies(c, msg) \subseteq active[c] /\ IsFiniteSet(Copies(c, msg))
    <3>1. Copies(c, msg) \subseteq active[c]
      BY DEF SubsInv, Copies
    <3> QED BY <3>1, FS_Subset DEF SubsInv
  <2>2. PICK n: n = Cardinality(Copies(c, msg))
    OBVIOUS
  <2>3. n \in Nat
    BY <2>1, <2>2, FS_CardinalityType
  <2>4. n # 0 => \E p \in active[c]: TopicMatches(TopicOf[msg], p)
    <3>1. Copies(c, msg) = {} => n = 0
      BY <2>2, FS_EmptySet
    <3> QED BY <2>1, <3>1 DEF Copies
  <2>5. WireOK(wire[c], active[c], ann)
    BY WireMore DEF WireInv
  <2>6. wire'[c] = wire[c] \o [i \in 1..n |-> msg]
    BY <2>2 DEF Publish
  <2>7. PICK w, act: w = wire[c] /\ act = active[c]
    OBVIOUS
  <2>8. WireOK(w, act, ann) /\ (n # 0 => \E p \in act: TopicMatches(TopicOf[msg], p))
    BY <2>4, <2>5, <2>7
  <2>9. PICK u: u = [i \in 1..n |-> msg]
    OBVIOUS
  <2>10. WireOK(w \o u, act, ann)
    BY <2>3, <2>8, <2>9, WireSent
  <2> QED BY <2>6, <2>7, <2>9, <2>10
<1>2. ASSUME NEW c \in Conns PROVE wire'[c] \in Seq(Messages)
  BY <1>1, SentFacts, SeqMonotonic DEF WireOK
<1>3. wire' = [c \in Conns |-> wire'[c]]
  BY DEF Publish
<1> QED BY <1>1, <1>2, <1>3

-----------------------------------------------------------------------------
(* The steps of the bus.                                                   *)

(* subscribe keeps the lists in order; its subscription is not ahead of a  *)
(* dispatch.                                                               *)
LEMMA SubscribeBus ==
    ASSUME SubsInv, SnapInv, LateInv, NEW s \in Subs, NEW told \in SUBSET NewPatterns(s), Subscribe(s, told)
    PROVE  /\ SubsInv' /\ LateInv'
           /\ \A c \in Conns: active[c] \subseteq active'[c]
           /\ \A x \in Subs: Registered(x)' <=> Registered(x) \/ x = s
<1>0. Home[s] \in Conns
  BY Homes
<1>1. PICK h: h = Home[s]
  OBVIOUS
<1>2. PICK q: q = Append(subs[h], s)
  OBVIOUS
<1>3. q \in Seq(Subs) /\ ListOf(h, q) /\ ToSet(q) = ToSet(subs[h]) \union {s}
  <2>1. subs[h] \in Seq(Subs) /\ ListOf(h, subs[h]) /\ s \notin ToSet(subs[h])
    BY <1>0, <1>1 DEF SubsInv, Subscribe, Registered
  <2> QED BY <1>1, <1>2, <2>1, ListAppend
<1>4. subs' = [subs EXCEPT ![h] = q] /\ subs \in [Conns -> Seq(Subs)]
  BY <1>1, <1>2 DEF Subscribe, SubsInv
<1>5. /\ active' = [active EXCEPT ![h] = active[h] \union PatternsOf[s]] /\ server' = server
      /\ active \in [Conns -> SUBSET Patterns] /\ asked \in [Conns -> SUBSET Patterns]
      /\ asked' = [asked EXCEPT ![h] = asked[h] \union told]
  BY <1>1 DEF Subscribe, SubsInv
<1>6. PatternsOf[s] \subseteq Patterns /\ told \subseteq PatternsOf[s]
  BY DEF Patterns, NewPatterns
<1>7. \A c \in Conns: active[c] \subseteq active'[c]
  BY <1>5
<1>8. SubsInv'
  <2>1. subs' \in [Conns -> Seq(Subs)] /\ active' \in [Conns -> SUBSET Patterns]
    BY <1>3, <1>4, <1>5, <1>6
  <2>2. ASSUME NEW c \in Conns
        PROVE  /\ IsFiniteSet(active'[c]) /\ server'[c] \subseteq asked'[c] /\ asked'[c] \subseteq active'[c]
               /\ ListOf(c, subs'[c])
               /\ \A x \in ToSet(subs'[c]): PatternsOf[x] \subseteq active'[c]
    <3>1. CASE c = h
      <4>1. subs'[c] = q /\ active'[c] = active[c] \union PatternsOf[s]
        BY <1>4, <1>5, <3>1
      <4>2. IsFiniteSet(active[c] \union PatternsOf[s])
        BY BusConstants, FS_Union DEF SubsInv
      <4>3. \A x \in ToSet(q): PatternsOf[x] \subseteq active[c] \union PatternsOf[s]
        BY <1>3, <3>1 DEF SubsInv
      <4>4. server'[c] \subseteq asked'[c] /\ asked'[c] \subseteq active'[c]
        <5>1. server'[c] = server[c] /\ asked'[c] = asked[c] \union told
          BY <1>5, <3>1
        <5>2. server[c] \subseteq asked[c] /\ asked[c] \subseteq active[c]
          BY DEF SubsInv
        <5> QED BY <1>6, <4>1, <5>1, <5>2
      <4> QED BY <1>3, <3>1, <4>1, <4>2, <4>3, <4>4
    <3>2. CASE c # h
      <4>1. subs'[c] = subs[c] /\ active'[c] = active[c] /\ asked'[c] = asked[c]
        BY <1>4, <1>5, <3>2
      <4> QED BY <1>5, <4>1 DEF SubsInv
    <3> QED BY <3>1, <3>2
  <2>3. server' \in [Conns -> SUBSET Patterns] /\ asked' \in [Conns -> SUBSET Patterns]
    BY <1>5, <1>6 DEF SubsInv
  <2> QED BY <2>1, <2>2, <2>3 DEF SubsInv
<1>9. ASSUME NEW x \in Subs PROVE Registered(x)' <=> Registered(x) \/ x = s
  <2>1. Home[x] \in Conns
    BY Homes
  <2>2. CASE Home[x] = h
    BY <1>0, <1>1, <1>3, <1>4, <2>2 DEF Registered
  <2>3. CASE Home[x] # h
    <3>1. subs'[Home[x]] = subs[Home[x]] /\ x # s
      BY <1>1, <1>4, <2>1, <2>3
    <3> QED BY <3>1 DEF Registered
  <2> QED BY <2>2, <2>3
<1>10. LateInv'
  <2>1. late' = [late EXCEPT ![s] = -1] /\ snap' = snap
    BY DEF Subscribe
  <2>2. \A x \in Subs: late'[x] >= 0 => x # s /\ late'[x] = late[x]
    BY <2>1 DEF LateInv
  <2>3. late' \in [Subs -> -1..1]
    BY <2>1 DEF LateInv
  <2>4. ASSUME NEW x \in Subs
        PROVE  /\ late'[x] >= 0 => ~Registered(x)'
               /\ late'[x] = 1 => x \notin ToSet(snap'[Home[x]].rest)
    <3>1. CASE x = s
      BY <2>2, <2>3, <3>1
    <3>2. CASE x # s
      <4>1. late'[x] = late[x]
        BY <2>1, <3>2 DEF LateInv
      <4> QED BY <1>9, <2>1, <3>2, <4>1 DEF LateInv
    <3> QED BY <3>1, <3>2
  <2> QED BY <2>3, <2>4 DEF LateInv
<1> QED BY <1>7, <1>8, <1>9, <1>10

(* _remove_subscription takes one subscription off the list and leaves the *)
(* others.                                                                 *)
LEMMA UnsubscribeBus ==
    ASSUME SubsInv, SnapInv, LateInv, NEW s \in Subs, Unsubscribe(s)
    PROVE  /\ SubsInv' /\ LateInv'
           /\ \A x \in Subs: Registered(x)' <=> Registered(x) /\ x # s
<1>0. Home[s] \in Conns
  BY Homes
<1>1. PICK h: h = Home[s]
  OBVIOUS
<1>2. PICK q: q = subs[h]
  OBVIOUS
<1>3. q \in Seq(Subs) /\ ListOf(h, q) /\ s \in ToSet(q)
  BY <1>0, <1>1, <1>2 DEF SubsInv, Unsubscribe, Registered
<1>4. PICK k: k = CHOOSE i \in DOMAIN q: q[i] = s
  OBVIOUS
<1>5. k \in DOMAIN q /\ q[k] = s
  BY <1>3, <1>4 DEF ToSet
<1>6. PICK r: r = RemoveAt(q, k)
  OBVIOUS
<1>7. r \in Seq(Subs) /\ ListOf(h, r) /\ ToSet(r) = ToSet(q) \ {s}
  BY <1>3, <1>5, <1>6, ListRemove
<1>8. subs' = [subs EXCEPT ![h] = r] /\ subs \in [Conns -> Seq(Subs)]
  BY <1>1, <1>2, <1>4, <1>6 DEF Unsubscribe, RemoveSubscription, SubsInv
<1>9. active' = active /\ asked' = asked /\ server' = server /\ snap' = snap /\ late' = [late EXCEPT ![s] = 0]
  BY DEF Unsubscribe
<1>10. SubsInv'
  <2>1. subs' \in [Conns -> Seq(Subs)]
    BY <1>7, <1>8
  <2>2. ASSUME NEW c \in Conns
        PROVE  ListOf(c, subs'[c]) /\ \A x \in ToSet(subs'[c]): PatternsOf[x] \subseteq active[c]
    <3>1. CASE c = h
      <4>1. subs'[c] = r
        BY <1>8, <3>1
      <4>2. ToSet(r) \subseteq ToSet(subs[c])
        BY <1>2, <1>7, <3>1
      <4> QED BY <1>7, <3>1, <4>1, <4>2 DEF SubsInv
    <3>2. CASE c # h
      <4>1. subs'[c] = subs[c]
        BY <1>8, <3>2
      <4> QED BY <4>1 DEF SubsInv
    <3> QED BY <3>1, <3>2
  <2> QED BY <1>9, <2>1, <2>2 DEF SubsInv
<1>11. ASSUME NEW x \in Subs PROVE Registered(x)' <=> Registered(x) /\ x # s
  <2>1. Home[x] \in Conns
    BY Homes
  <2>2. CASE Home[x] = h
    BY <1>0, <1>1, <1>2, <1>7, <1>8, <2>2 DEF Registered
  <2>3. CASE Home[x] # h
    <3>1. subs'[Home[x]] = subs[Home[x]] /\ x # s
      BY <1>1, <1>8, <2>1, <2>3
    <3> QED BY <3>1 DEF Registered
  <2> QED BY <2>2, <2>3
<1>12. LateInv'
  <2>1. late' \in [Subs -> -1..1]
    BY <1>9 DEF LateInv
  <2>2. ASSUME NEW x \in Subs
        PROVE  /\ late'[x] >= 0 => ~Registered(x)'
               /\ late'[x] = 1 => x \notin ToSet(snap'[Home[x]].rest)
    <3>1. CASE x = s
      <4>1. late'[x] = 0
        BY <1>9, <3>1 DEF LateInv
      <4> QED BY <1>11, <3>1, <4>1
    <3>2. CASE x # s
      <4>1. late'[x] = late[x]
        BY <1>9, <3>2 DEF LateInv
      <4> QED BY <1>9, <1>11, <3>2, <4>1 DEF LateInv
    <3> QED BY <3>1, <3>2
  <2> QED BY <2>1, <2>2 DEF LateInv
<1> QED BY <1>10, <1>11, <1>12

(* Redis learns of the patterns.                                           *)
LEMMA RegistersBus ==
    ASSUME SubsInv, NEW c \in Conns, RedisRegisters(c)
    PROVE  SubsInv'
<1>1. server' = [server EXCEPT ![c] = asked[c]] /\ UNCHANGED <<subs, active, asked>>
  BY DEF RedisRegisters
<1>2. server' \in [Conns -> SUBSET Patterns]
  BY <1>1 DEF SubsInv
<1>3. \A d \in Conns: server'[d] \subseteq asked[d]
  BY <1>1 DEF SubsInv
<1> QED BY <1>1, <1>2, <1>3 DEF SubsInv

(* The new dispatch calls only what is registered now, so nothing that     *)
(* was unsubscribed.                                                       *)
LEMMA TakeBus ==
    ASSUME SubsInv, WireInv, SnapInv, LateInv, announced \in SUBSET Entries,
           NEW c \in Conns, TakeMessage(c), UNCHANGED announced
    PROVE  WireInv' /\ SnapInv' /\ LateInv'
<1>1. PICK w: w = wire[c]
  OBVIOUS
<1>2. PICK d: d = Dispatch(subs[c], Head(w))
  OBVIOUS
<1>3. /\ w # <<>> /\ wire' = [wire EXCEPT ![c] = Tail(w)] /\ snap' = [snap EXCEPT ![c] = d]
      /\ UNCHANGED <<subs, active, asked, server, late>>
  BY <1>1, <1>2 DEF TakeMessage
<1>4. WireOK(Tail(w), active[c], announced) /\ Head(w) \in Sent(announced)
  BY <1>1, <1>3, WireRead DEF WireInv
<1>5. Sent(announced) \subseteq Messages
  BY SentFacts
<1>6. /\ DispatchOK(c, d) /\ d.msg \in Sent(announced) \union {None}
      /\ ToSet(d.rest) \subseteq ToSet(subs[c])
  <2>1. PICK q, msg: q = subs[c] /\ msg = Head(w)
    OBVIOUS
  <2>2. q \in Seq(Subs) /\ ListOf(c, q) /\ msg \in Messages /\ d = Dispatch(q, msg)
    BY <1>2, <1>4, <1>5, <2>1 DEF SubsInv
  <2>3. DispatchOK(c, d) /\ d.msg \in {msg, None} /\ ToSet(d.rest) \subseteq ToSet(q)
    BY <2>2, DispatchFits
  <2> QED BY <1>4, <2>1, <2>3
<1>7. WireInv'
  <2>1. Tail(w) \in Seq(Messages)
    BY <1>4, <1>5, SeqMonotonic DEF WireOK
  <2>2. wire' \in [Conns -> Seq(Messages)]
    BY <1>3, <2>1 DEF WireInv
  <2>3. \A x \in Conns: WireOK(wire'[x], active[x], announced)
    BY <1>3, <1>4 DEF WireInv
  <2> QED BY <1>3, <2>2, <2>3 DEF WireInv
<1>8. SnapInv'
  <2>1. snap' \in [Conns -> [msg: Messages \union {None}, rest: Seq(Subs)]]
    BY <1>3, <1>6 DEF SnapInv, DispatchOK
  <2>2. \A x \in Conns: DispatchOK(x, snap'[x]) /\ snap'[x].msg \in Sent(announced) \union {None}
    BY <1>3, <1>6 DEF SnapInv
  <2> QED BY <2>1, <2>2 DEF SnapInv
<1>9. LateInv'
  <2>1. ASSUME NEW x \in Subs, late[x] = 1 PROVE x \notin ToSet(snap'[Home[x]].rest)
    <3>0. Home[x] \in Conns
      BY Homes
    <3>1. CASE Home[x] = c
      <4>1. snap'[Home[x]] = d
        BY <1>3, <3>1 DEF SnapInv
      <4>2. x \notin ToSet(subs[c])
        BY <2>1, <3>1 DEF LateInv, Registered
      <4> QED BY <1>6, <4>1, <4>2
    <3>2. CASE Home[x] # c
      <4>1. snap'[Home[x]] = snap[Home[x]]
        BY <1>3, <3>0, <3>2 DEF SnapInv
      <4> QED BY <2>1, <4>1 DEF LateInv
    <3> QED BY <3>1, <3>2
  <2>2. \A x \in Subs: Registered(x)' <=> Registered(x)
    BY <1>3 DEF Registered
  <2> QED BY <1>3, <2>1, <2>2 DEF LateInv
<1> QED BY <1>7, <1>8, <1>9

(* The handler that is called is not ahead of the dispatch any more; one   *)
(* that was unsubscribed and called before was not ahead of it.            *)
LEMMA CallsBus ==
    ASSUME SnapInv, LateInv, announced \in SUBSET Entries,
           NEW c \in Conns, NEW s, NEW msg, Calls(c, s, msg), UNCHANGED announced
    PROVE  SnapInv' /\ LateInv' /\ msg \in Sent(announced)
<1>1. PICK q: q = snap[c].rest
  OBVIOUS
<1>2. PICK d: d = Dispatch(Tail(q), msg)
  OBVIOUS
<1>3. /\ q # <<>> /\ s = Head(q) /\ msg = snap[c].msg /\ snap' = [snap EXCEPT ![c] = d]
      /\ late' = IF late[s] \in {-1, 2} THEN late ELSE [late EXCEPT ![s] = late[s] + 1]
      /\ UNCHANGED subs
  BY <1>1, <1>2 DEF Calls
<1>4. q \in Seq(Subs) /\ ListOf(c, q) /\ msg # None
  BY <1>1, <1>3 DEF SnapInv, DispatchOK
<1>5. msg \in Sent(announced)
  BY <1>3, <1>4 DEF SnapInv
<1>6. Sent(announced) \subseteq Messages
  BY SentFacts
<1>7. /\ Tail(q) \in Seq(Subs) /\ ListOf(c, Tail(q)) /\ s \in Subs /\ s \in ToSet(q) /\ Home[s] = c
      /\ ToSet(Tail(q)) = ToSet(q) \ {s}
  BY <1>3, <1>4, ListTail
<1>8. /\ DispatchOK(c, d) /\ d.msg \in Sent(announced) \union {None}
      /\ ToSet(d.rest) \subseteq ToSet(q) \ {s}
  <2>1. PICK r: r = Tail(q)
    OBVIOUS
  <2>2. r \in Seq(Subs) /\ ListOf(c, r) /\ msg \in Messages /\ d = Dispatch(r, msg)
    BY <1>2, <1>5, <1>6, <1>7, <2>1
  <2>3. DispatchOK(c, d) /\ d.msg \in {msg, None} /\ ToSet(d.rest) \subseteq ToSet(r)
    BY <2>2, DispatchFits
  <2> QED BY <1>5, <1>7, <2>1, <2>3
<1>9. SnapInv'
  <2>1. snap' \in [Conns -> [msg: Messages \union {None}, rest: Seq(Subs)]]
    BY <1>3, <1>8 DEF SnapInv, DispatchOK
  <2>2. \A x \in Conns: DispatchOK(x, snap'[x]) /\ snap'[x].msg \in Sent(announced) \union {None}
    BY <1>3, <1>8 DEF SnapInv
  <2> QED BY <2>1, <2>2 DEF SnapInv
<1>10. late[s] \in {-1, 0}
  BY <1>1, <1>7 DEF LateInv
<1>11. LateInv'
  <2>1. late' \in [Subs -> -1..1]
    BY <1>3, <1>7, <1>10 DEF LateInv
  <2>2. \A x \in Subs: Registered(x)' <=> Registered(x)
    BY <1>3 DEF Registered
  <2>3. \A x \in Subs: late'[x] >= 0 => late[x] >= 0
    BY <1>3, <1>7, <1>10 DEF LateInv
  <2>4. ASSUME NEW x \in Subs, late'[x] = 1 PROVE x \notin ToSet(snap'[Home[x]].rest)
    <3>0. Home[x] \in Conns
      BY Homes
    <3>1. CASE x = s
      <4>1. snap'[Home[x]] = d
        BY <1>3, <1>7, <3>1 DEF SnapInv
      <4> QED BY <1>8, <3>1, <4>1
    <3>2. CASE x # s
      <4>1. late[x] = 1
        BY <1>3, <1>7, <2>4, <3>2 DEF LateInv
      <4>2. x \notin ToSet(snap[Home[x]].rest)
        BY <4>1 DEF LateInv
      <4>3. CASE Home[x] = c
        <5>1. snap'[Home[x]] = d
          BY <1>3, <4>3 DEF SnapInv
        <5> QED BY <1>1, <1>8, <4>2, <4>3, <5>1
      <4>4. CASE Home[x] # c
        <5>1. snap'[Home[x]] = snap[Home[x]]
          BY <1>3, <3>0, <4>4 DEF SnapInv
        <5> QED BY <4>2, <5>1
      <4> QED BY <4>3, <4>4
    <3> QED BY <3>1, <3>2
  <2> QED BY <2>1, <2>2, <2>3, <2>4 DEF LateInv
<1> QED BY <1>5, <1>9, <1>11

(* A broken connection forgets patterns and messages, not subscriptions.   *)
LEMMA LostBus ==
    ASSUME SubsInv, WireInv, NEW c \in Conns, ConnectionLost(c), UNCHANGED announced
    PROVE  SubsInv' /\ WireInv'
<1>1. /\ server' = [server EXCEPT ![c] = {}] /\ wire' = [wire EXCEPT ![c] = <<>>]
      /\ UNCHANGED <<subs, active, asked>>
  BY DEF ConnectionLost
<1>2. server' \in [Conns -> SUBSET Patterns] /\ \A x \in Conns: server'[x] \subseteq asked[x]
  BY <1>1 DEF SubsInv
<1>3. SubsInv'
  BY <1>1, <1>2 DEF SubsInv
<1>4. wire' \in [Conns -> Seq(Messages)]
  BY <1>1 DEF WireInv
<1>5. \A x \in Conns: WireOK(wire'[x], active[x], announced)
  BY <1>1, WireNothing DEF WireInv
<1> QED BY <1>1, <1>3, <1>4, <1>5 DEF WireInv

(* A process that starts again has a new bus; the others do not notice.    *)
LEMMA RestartBus ==
    ASSUME SubsInv, WireInv, SnapInv, LateInv, NEW c \in Conns, ProcessRestarts(c), UNCHANGED announced
    PROVE  /\ SubsInv' /\ WireInv' /\ SnapInv' /\ LateInv'
           /\ \A x \in Subs: Home[x] # c => (Registered(x)' <=> Registered(x))
<1>1. /\ subs' = [subs EXCEPT ![c] = <<>>] /\ active' = [active EXCEPT ![c] = {}]
      /\ asked' = [asked EXCEPT ![c] = {}] /\ server' = [server EXCEPT ![c] = {}] /\ wire' = [wire EXCEPT ![c] = <<>>]
      /\ snap' = [snap EXCEPT ![c] = Idle]
      /\ late' = [s \in Subs |-> IF Home[s] = c THEN -1 ELSE late[s]]
  BY DEF ProcessRestarts
<1>2. ListOf(c, <<>>) /\ ToSet(<<>>) = {} /\ IsFiniteSet({})
  BY FS_EmptySet DEF ListOf, ToSet
<1>3. /\ subs' \in [Conns -> Seq(Subs)] /\ active' \in [Conns -> SUBSET Patterns]
      /\ server' \in [Conns -> SUBSET Patterns] /\ asked' \in [Conns -> SUBSET Patterns]
  BY <1>1 DEF SubsInv
<1>4. ASSUME NEW x \in Conns
      PROVE  /\ IsFiniteSet(active'[x]) /\ server'[x] \subseteq asked'[x] /\ asked'[x] \subseteq active'[x]
             /\ ListOf(x, subs'[x])
             /\ \A s \in ToSet(subs'[x]): PatternsOf[s] \subseteq active'[x]
  <2>1. CASE x = c
    <3>1. subs'[x] = <<>> /\ active'[x] = {} /\ asked'[x] = {} /\ server'[x] = {}
      BY <1>1, <2>1 DEF SubsInv
    <3> QED BY <1>2, <2>1, <3>1
  <2>2. CASE x # c
    <3>1. subs'[x] = subs[x] /\ active'[x] = active[x] /\ asked'[x] = asked[x] /\ server'[x] = server[x]
      BY <1>1, <2>2 DEF SubsInv
    <3> QED BY <3>1 DEF SubsInv
  <2> QED BY <2>1, <2>2
<1>5. SubsInv'
  BY <1>3, <1>4 DEF SubsInv
<1>6. wire' \in [Conns -> Seq(Messages)]
  BY <1>1 DEF WireInv
<1>7. ASSUME NEW x \in Conns PROVE WireOK(wire'[x], active'[x], announced)
  <2>1. CASE x = c
    <3>1. wire'[x] = <<>>
      BY <1>1, <2>1 DEF WireInv
    <3> QED BY <3>1, WireNothing
  <2>2. CASE x # c
    <3>1. wire'[x] = wire[x] /\ active'[x] = active[x]
      BY <1>1, <2>2 DEF WireInv, SubsInv
    <3> QED BY <3>1 DEF WireInv
  <2> QED BY <2>1, <2>2
<1>8. WireInv'
  BY <1>6, <1>7 DEF WireInv
<1>9. SnapInv'
  <2>1. snap' \in [Conns -> [msg: Messages \union {None}, rest: Seq(Subs)]]
    BY <1>1, IdleOK DEF SnapInv, DispatchOK
  <2>2. \A x \in Conns: DispatchOK(x, snap'[x]) /\ snap'[x].msg \in Sent(announced) \union {None}
    BY <1>1, IdleOK DEF SnapInv
  <2> QED BY <2>1, <2>2 DEF SnapInv
<1>10. ASSUME NEW x \in Subs, Home[x] # c
       PROVE  (Registered(x)' <=> Registered(x)) /\ snap'[Home[x]] = snap[Home[x]]
  <2>1. Home[x] \in Conns
    BY Homes
  <2>2. subs'[Home[x]] = subs[Home[x]] /\ snap'[Home[x]] = snap[Home[x]]
    BY <1>1, <1>10, <2>1 DEF SubsInv, SnapInv
  <2> QED BY <2>2 DEF Registered
<1>11. LateInv'
  <2>1. late' \in [Subs -> -1..1]
    BY <1>1 DEF LateInv
  <2>2. \A x \in Subs: late'[x] >= 0 => Home[x] # c /\ late'[x] = late[x]
    BY <1>1
  <2>3. ASSUME NEW x \in Subs
        PROVE  /\ late'[x] >= 0 => ~Registered(x)'
               /\ late'[x] = 1 => x \notin ToSet(snap'[Home[x]].rest)
    BY <1>10, <2>1, <2>2 DEF LateInv
  <2> QED BY <2>1, <2>3 DEF LateInv
<1> QED BY <1>5, <1>8, <1>9, <1>10, <1>11

-----------------------------------------------------------------------------
(* The users of the bus.                                                   *)

Phases == {"closed", "greeting", "waiting", "telling", "sending"}

(* The parts of the state of a stream.                                     *)
LEMMA StreamFields ==
    /\ \A r \in Stream: /\ r.pend \in 0..MaxPending /\ r.queue \in 0..QueueMax
                        /\ r.dropped \in 0..MaxDropped /\ r.phase \in Phases
    /\ \A p \in 0..MaxPending, q \in 0..QueueMax, d \in 0..MaxDropped, f \in Phases:
          State(p, q, d, f) \in Stream /\ State(p, q, d, f).phase = f
  BY DEF Stream, State, Phases

(* _put_drop_oldest keeps the queue and the counter within their bounds.   *)
LEMMA PutFits ==
    ASSUME NEW r \in Stream
    PROVE  PutDropOldest(r) \in Stream /\ PutDropOldest(r).phase = r.phase
<1>1. QueueMax \in Nat /\ MaxDropped \in Nat
  BY DeliveryConstants
<1>2. CASE r.queue < QueueMax
  <2>1. PutDropOldest(r) = [r EXCEPT !.queue = r.queue + 1]
    BY <1>2 DEF PutDropOldest
  <2>2. r.queue + 1 \in 0..QueueMax
    BY <1>1, <1>2 DEF Stream
  <2> QED BY <2>1, <2>2 DEF Stream
<1>3. CASE ~(r.queue < QueueMax)
  <2>1. PICK d: d = IF r.dropped = MaxDropped THEN r.dropped ELSE r.dropped + 1
    OBVIOUS
  <2>2. PutDropOldest(r) = [r EXCEPT !.dropped = d]
    BY <1>3, <2>1 DEF PutDropOldest
  <2>3. d \in 0..MaxDropped
    BY <1>1, <2>1 DEF Stream
  <2> QED BY <2>2, <2>3 DEF Stream
<1> QED BY <1>2, <1>3

StreamsInv ==
    /\ stream \in [Streams -> Stream]
    /\ \A s \in Streams: stream[s].phase # "closed" => Registered(s)

(* A step that changes one stream, and takes no other one from the bus.    *)
LEMMA OneStream ==
    ASSUME StreamsInv, NEW s \in Streams, NEW r \in Stream, SetStream(s, r),
           r.phase # "closed" => Registered(s)',
           \A x \in Streams: x # s /\ Registered(x) => Registered(x)'
    PROVE  StreamsInv'
<1>1. stream' = [stream EXCEPT ![s] = r] /\ stream' \in [Streams -> Stream]
  BY DEF SetStream, StreamsInv
<1>2. ASSUME NEW x \in Streams, stream'[x].phase # "closed" PROVE Registered(x)'
  <2>1. CASE x = s
    <3>1. stream'[x] = r
      BY <1>1, <2>1 DEF StreamsInv
    <3> QED BY <1>2, <2>1, <3>1
  <2>2. CASE x # s
    <3>1. stream'[x] = stream[x]
      BY <1>1, <2>2 DEF StreamsInv
    <3> QED BY <1>2, <2>2, <3>1 DEF StreamsInv
  <2> QED BY <2>1, <2>2
<1> QED BY <1>1, <1>2 DEF StreamsInv

OutboxInv ==
    /\ log \in [Critical -> {"none", "open", "acked"}]
    /\ old \in SUBSET Critical /\ emitting \in SUBSET Critical /\ todo \in SUBSET Critical

EntryInv == announced \in SUBSET Entries /\ suggested \subseteq announced \cap Internal

(* What is said of the users, part by part.                                *)
LEMMA UserParts ==
    UserInv <=> OutboxInv /\ EntryInv /\ StreamsInv /\ faults \in 0..MaxFaults
  BY DEF UserInv, OutboxInv, EntryInv, StreamsInv

(* Faults stay within their bound.                                         *)
LEMMA FaultCounts ==
    ASSUME faults \in 0..MaxFaults, Fault \/ UNCHANGED faults
    PROVE  faults' \in 0..MaxFaults
  BY DeliveryConstants DEF Fault

(* What does not touch the bus keeps what is said of it.                   *)
LEMMA BusKept ==
    ASSUME SubsInv, WireInv, SnapInv, LateInv, UNCHANGED <<busVars, announced>>
    PROVE  SubsInv' /\ WireInv' /\ SnapInv' /\ LateInv' /\ \A s \in Subs: Registered(s)' <=> Registered(s)
<1>1. UNCHANGED <<subs, active, asked, server, wire, snap, late, announced>>
  BY DEF busVars
<1>2. SubsInv'
  BY <1>1 DEF SubsInv
<1>3. WireInv'
  BY <1>1 DEF WireInv
<1>4. SnapInv'
  BY <1>1 DEF SnapInv
<1>5. \A s \in Subs: Registered(s)' <=> Registered(s)
  BY <1>1 DEF Registered
<1>6. LateInv'
  BY <1>1, <1>5 DEF LateInv
<1> QED BY <1>2, <1>3, <1>4, <1>5, <1>6

(* A step that leaves the streams alone and takes none off the bus.        *)
LEMMA StreamsKept ==
    ASSUME StreamsInv, UNCHANGED stream, \A s \in Streams: Registered(s) => Registered(s)'
    PROVE  StreamsInv'
  BY DEF StreamsInv

(* A step that only puts a message on the wires: the bus is as before.     *)
LEMMA PublishKept ==
    ASSUME EInv, NEW ann \in SUBSET Entries, announced \subseteq ann, announced' = ann,
           NEW msg \in Sent(ann), Publish(msg) \/ UNCHANGED wire,
           UNCHANGED <<subs, active, asked, server, snap, late>>
    PROVE  SubsInv' /\ WireInv' /\ SnapInv' /\ LateInv' /\ \A s \in Subs: Registered(s)' <=> Registered(s)
<1>0. announced \in SUBSET Entries
  BY DEF EInv, UserInv
<1>1. SubsInv'
  BY DEF EInv, SubsInv
<1>2. WireInv'
  <2>1. /\ wire' \in [Conns -> Seq(Messages)]
        /\ \A c \in Conns: WireOK(wire'[c], active[c], ann)
    <3>1. CASE Publish(msg)
      BY <1>0, <3>1, PublishWire DEF EInv
    <3>2. CASE UNCHANGED wire
      BY <1>0, <3>2, WireMore DEF EInv, WireInv
    <3> QED BY <3>1, <3>2
  <2> QED BY <2>1 DEF WireInv
<1>3. SnapInv'
  <2>1. Sent(announced) \subseteq Sent(ann)
    BY <1>0, SentFacts
  <2> QED BY <2>1 DEF EInv, SnapInv
<1>4. \A s \in Subs: Registered(s)' <=> Registered(s)
  BY DEF Registered
<1>5. LateInv'
  BY <1>4 DEF EInv, LateInv
<1> QED BY <1>1, <1>2, <1>3, <1>4, <1>5

-----------------------------------------------------------------------------
(* The invariant holds at first and is kept by every action.               *)

LEMMA InitInv == Init => EInv
<1> SUFFICES ASSUME Init PROVE EInv
  OBVIOUS
<1>1. ListOf(0, <<>>) /\ ToSet(<<>>) = {} /\ IsFiniteSet({}) /\ \A c: ListOf(c, <<>>)
  BY FS_EmptySet DEF ListOf, ToSet
<1>2. SubsInv
  BY <1>1 DEF Init, BusInit, SubsInv
<1>3. WireInv
  BY WireNothing DEF Init, BusInit, WireInv
<1>4. SnapInv
  BY IdleOK DEF Init, BusInit, SnapInv, DispatchOK
<1>5. LateInv
  BY <1>1, Homes DEF Init, BusInit, LateInv, Registered
<1>6. NewStream \in Stream /\ NewStream.phase = "closed"
  BY DeliveryConstants, StreamFields DEF NewStream, Phases
<1>7. UserInv
  BY <1>6, DeliveryConstants DEF Init, UserInv
<1> QED BY <1>2, <1>3, <1>4, <1>5, <1>7 DEF EInv

(* The outbox.                                                             *)
LEMMA OutboxStep ==
    ASSUME EInv, UNCHANGED <<busVars, entryVars, stream, faults>>, OutboxInv'
    PROVE  EInv'
<1>1. SubsInv' /\ WireInv' /\ SnapInv' /\ LateInv' /\ \A s \in Subs: Registered(s)' <=> Registered(s)
  BY BusKept DEF EInv, entryVars
<1>2. StreamsInv'
  BY <1>1, Homes, StreamsKept, UserParts DEF EInv
<1>3. EntryInv' /\ faults' \in 0..MaxFaults
  BY UserParts DEF EInv, EntryInv, entryVars
<1>4. UserInv'
  BY <1>2, <1>3, UserParts DEF UserInv, OutboxInv, EntryInv, StreamsInv
<1> QED BY <1>1, <1>4 DEF EInv

(* A publication of the outbox, or its failure.                            *)
LEMMA OutboxPublishStep ==
    ASSUME EInv, NEW e \in Critical, OutboxInv',
           \/ Publish(Critically(e)) /\ UNCHANGED faults
           \/ Fault /\ UNCHANGED wire,
           UNCHANGED <<subs, active, asked, server, snap, late, entryVars, stream>>
    PROVE  EInv'
<1>0. announced \in SUBSET Entries /\ announced' = announced
  BY DEF EInv, UserInv, entryVars
<1>1. Critically(e) \in Sent(announced)
  BY <1>0, SentFacts
<1>2. SubsInv' /\ WireInv' /\ SnapInv' /\ LateInv' /\ \A s \in Subs: Registered(s)' <=> Registered(s)
  BY <1>0, <1>1, PublishKept
<1>3. StreamsInv'
  BY <1>2, Homes, StreamsKept, UserParts DEF EInv
<1>4. EntryInv' /\ faults' \in 0..MaxFaults
  BY UserParts, FaultCounts DEF EInv, EntryInv, entryVars
<1>5. UserInv'
  BY <1>3, <1>4 DEF UserInv, OutboxInv, EntryInv, StreamsInv
<1> QED BY <1>2, <1>5 DEF EInv

(* emit_critical, acknowledge, the grace period and the reconciler, event  *)
(* by event.                                                               *)
LEMMA EmitStep ==
    ASSUME EInv, NEW e \in Critical,
           \/ EmitCritical(e) \/ EmitPublish(e) \/ GraceEnds(e)
           \/ ReconcilerPublishes(e) \/ Acknowledge(e)
    PROVE  EInv'
<1>0. OutboxInv
  BY UserParts DEF EInv
<1>1. CASE EmitCritical(e)
  BY <1>0, <1>1, OutboxStep DEF EmitCritical, OutboxInv
<1>2. CASE EmitPublish(e)
  BY <1>0, <1>2, OutboxPublishStep DEF EmitPublish, OutboxInv
<1>3. CASE GraceEnds(e)
  BY <1>0, <1>3, OutboxStep DEF GraceEnds, OutboxInv
<1>4. CASE ReconcilerPublishes(e)
  BY <1>0, <1>4, OutboxPublishStep DEF ReconcilerPublishes, OutboxInv
<1>5. CASE Acknowledge(e)
  BY <1>0, <1>5, OutboxStep DEF Acknowledge, OutboxInv
<1> QED BY <1>1, <1>2, <1>3, <1>4, <1>5

(* The query of run_once.                                                  *)
LEMMA ReconcilerReadsStep == ASSUME EInv, ReconcilerReads PROVE EInv'
<1>1. OutboxInv
  BY UserParts DEF EInv
<1> QED BY <1>1, OutboxStep DEF ReconcilerReads, OutboxInv, Unacknowledged

(* A handler of the worker is called; it may publish what it was given.    *)
LEMMA HandlerBus ==
    ASSUME EInv, NEW c \in Conns, NEW s, NEW msg, Calls(c, s, msg),
           Publish(msg) \/ UNCHANGED wire, UNCHANGED announced
    PROVE  /\ SubsInv' /\ WireInv' /\ SnapInv' /\ LateInv' /\ msg \in Sent(announced)
           /\ \A x \in Subs: Registered(x)' <=> Registered(x)
<1>0. announced \in SUBSET Entries
  BY DEF EInv, UserInv
<1>1. SnapInv' /\ LateInv' /\ msg \in Sent(announced)
  BY <1>0, CallsBus DEF EInv
<1>2. UNCHANGED <<subs, active, asked, server>>
  BY DEF Calls
<1>3. SubsInv' /\ \A x \in Subs: Registered(x)' <=> Registered(x)
  BY <1>2 DEF EInv, SubsInv, Registered
<1>4. WireInv'
  <2>1. CASE Publish(msg)
    BY <1>0, <1>1, <1>2, <2>1, PublishWire DEF EInv, WireInv
  <2>2. CASE UNCHANGED wire
    BY <1>2, <2>2 DEF EInv, WireInv
  <2> QED BY <2>1, <2>2
<1> QED BY <1>1, <1>3, <1>4

(* The announcement comes with the first message about the entry.          *)
LEMMA AnnounceStep == ASSUME EInv, NEW l \in Entries, ListenerAnnounces(l) PROVE EInv'
<1>0. OutboxInv /\ EntryInv /\ StreamsInv /\ faults \in 0..MaxFaults
  BY UserParts DEF EInv
<1>1. PICK ann: ann = announced \union {l}
  OBVIOUS
<1>2. /\ announced' = ann /\ ann \in SUBSET Entries /\ announced \subseteq ann /\ Publish(Categorize(l))
      /\ UNCHANGED <<subs, active, asked, server, snap, late, outboxVars, suggested, stream, faults>>
  BY <1>0, <1>1 DEF ListenerAnnounces, EntryInv
<1>3. Categorize(l) \in Sent(ann)
  BY <1>1, <1>2, SentFacts
<1>4. SubsInv' /\ WireInv' /\ SnapInv' /\ LateInv' /\ \A s \in Subs: Registered(s)' <=> Registered(s)
  BY <1>2, <1>3, PublishKept
<1>5. StreamsInv'
  BY <1>0, <1>2, <1>4, Homes, StreamsKept
<1>6. OutboxInv' /\ EntryInv'
  BY <1>0, <1>2 DEF OutboxInv, EntryInv, outboxVars
<1>7. UserInv'
  BY <1>0, <1>2, <1>5, <1>6 DEF UserInv, OutboxInv, EntryInv, StreamsInv
<1> QED BY <1>4, <1>7 DEF EInv

(* The suggester knows of an entry only from a message, and so it was      *)
(* announced.                                                              *)
LEMMA SuggesterStep == ASSUME EInv, NEW l \in Entries, SuggesterHandles(l) PROVE EInv'
<1>0. OutboxInv /\ EntryInv /\ StreamsInv /\ faults \in 0..MaxFaults
  BY UserParts DEF EInv
<1>1. Calls(Worker, Suggester, Categorize(l)) /\ UNCHANGED <<outboxVars, announced, stream>>
  BY DEF SuggesterHandles
<1>2. /\ Publish(Categorize(l)) \/ UNCHANGED wire
      /\ Fault \/ UNCHANGED faults
      /\ UNCHANGED suggested \/ (Suggestible(l) /\ suggested' = suggested \union {l})
  BY DEF SuggesterHandles
<1>3. /\ SubsInv' /\ WireInv' /\ SnapInv' /\ LateInv' /\ Categorize(l) \in Sent(announced)
      /\ \A x \in Subs: Registered(x)' <=> Registered(x)
  BY <1>1, <1>2, Homes, HandlerBus
<1>4. l \in announced
  BY <1>0, <1>3, SentFacts DEF EntryInv
<1>5. EntryInv'
  BY <1>0, <1>1, <1>2, <1>4 DEF EntryInv, Suggestible
<1>6. StreamsInv'
  BY <1>0, <1>1, <1>3, Homes, StreamsKept
<1>7. OutboxInv' /\ faults' \in 0..MaxFaults
  BY <1>0, <1>1, <1>2, FaultCounts DEF OutboxInv, outboxVars
<1>8. UserInv'
  BY <1>5, <1>6, <1>7 DEF UserInv, OutboxInv, EntryInv, StreamsInv
<1> QED BY <1>3, <1>8 DEF EInv

(* A subscription adds patterns, so what is on the wires still matches.    *)
LEMMA SubscribeKept ==
    ASSUME EInv, NEW s \in Subs, NEW told \in SUBSET NewPatterns(s), Subscribe(s, told), UNCHANGED announced
    PROVE  /\ SubsInv' /\ WireInv' /\ SnapInv' /\ LateInv'
           /\ \A x \in Subs: Registered(x)' <=> Registered(x) \/ x = s
<1>1. /\ SubsInv' /\ LateInv' /\ \A c \in Conns: active[c] \subseteq active'[c]
      /\ \A x \in Subs: Registered(x)' <=> Registered(x) \/ x = s
  BY SubscribeBus DEF EInv
<1>2. UNCHANGED <<wire, snap>> /\ announced \in SUBSET Entries
  BY DEF Subscribe, EInv, UserInv
<1>3. WireInv'
  <2>1. \A c \in Conns: WireOK(wire[c], active'[c], announced)
    BY <1>1, <1>2, WireMore DEF EInv, WireInv
  <2> QED BY <1>2, <2>1 DEF EInv, WireInv
<1>4. SnapInv'
  BY <1>2 DEF EInv, SnapInv
<1> QED BY <1>1, <1>3, <1>4

(* The event stream.                                                       *)
LEMMA StreamInvs ==
    ASSUME EInv, SubsInv', WireInv', SnapInv', LateInv', StreamsInv',
           UNCHANGED <<outboxVars, entryVars, faults>>
    PROVE  EInv'
<1>1. OutboxInv /\ EntryInv /\ faults \in 0..MaxFaults
  BY UserParts DEF EInv
<1>2. OutboxInv' /\ EntryInv' /\ faults' \in 0..MaxFaults
  BY <1>1 DEF OutboxInv, EntryInv, outboxVars, entryVars
<1>3. UserInv'
  BY <1>2 DEF UserInv, OutboxInv, EntryInv, StreamsInv
<1> QED BY <1>3 DEF EInv

(* A step of a stream that stays as open as it was.                        *)
LEMMA StreamInside ==
    ASSUME EInv, NEW s \in Streams, NEW r \in Stream, SetStream(s, r),
           r.phase # "closed" => stream[s].phase # "closed",
           UNCHANGED <<busVars, outboxVars, entryVars, faults>>
    PROVE  EInv'
<1>1. SubsInv' /\ WireInv' /\ SnapInv' /\ LateInv' /\ \A x \in Subs: Registered(x)' <=> Registered(x)
  BY BusKept DEF EInv, entryVars
<1>2. StreamsInv
  BY UserParts DEF EInv
<1>3. r.phase # "closed" => Registered(s)'
  BY <1>1, <1>2, Homes DEF StreamsInv
<1>4. \A x \in Streams: x # s /\ Registered(x) => Registered(x)'
  BY <1>1, Homes
<1>5. StreamsInv'
  BY <1>2, <1>3, <1>4, OneStream
<1> QED BY <1>1, <1>5, StreamInvs

(* The generator of an event stream: open, wait, send, close.              *)
LEMMA StreamStep ==
    ASSUME EInv, NEW s \in Streams,
           \/ StreamOpens(s) \/ StreamGreeted(s) \/ Enqueue(s) \/ StreamGets(s)
           \/ StreamTold(s) \/ StreamSent(s) \/ StreamCloses(s)
    PROVE  EInv'
<1>0. StreamsInv /\ stream[s] \in Stream
  BY UserParts DEF EInv, StreamsInv
<1>1. PICK r \in Stream: r = stream[s]
  BY <1>0
<1>2. /\ r.pend \in 0..MaxPending /\ r.queue \in 0..QueueMax
      /\ r.dropped \in 0..MaxDropped /\ r.phase \in Phases
  BY StreamFields
<1>3. MaxPending \in Nat \ {0} /\ QueueMax \in Nat \ {0} /\ MaxDropped \in Nat \ {0}
  BY DeliveryConstants
<1>4. 0 \in 0..MaxPending /\ 0 \in 0..QueueMax /\ 0 \in 0..MaxDropped
  BY <1>3
<1>5. CASE StreamOpens(s)
  <2>1. Subscribe(s, NewPatterns(s)) /\ UNCHANGED <<outboxVars, entryVars, faults>> /\ SetStream(s, State(0, 0, 0, "greeting"))
    BY <1>5 DEF StreamOpens
  <2>2. /\ SubsInv' /\ WireInv' /\ SnapInv' /\ LateInv'
        /\ \A x \in Subs: Registered(x)' <=> Registered(x) \/ x = s
    BY <2>1, Homes, SubscribeKept DEF entryVars
  <2>3. State(0, 0, 0, "greeting") \in Stream
    BY <1>4, StreamFields DEF Phases
  <2>4. Registered(s)' /\ \A x \in Streams: x # s /\ Registered(x) => Registered(x)'
    BY <2>2, Homes
  <2>5. StreamsInv'
    BY <1>0, <2>1, <2>3, <2>4, OneStream
  <2> QED BY <2>1, <2>2, <2>5, StreamInvs
<1>6. CASE StreamGreeted(s)
  <2>1. [r EXCEPT !.phase = "waiting"] \in Stream
    BY DEF Stream
  <2>2. /\ SetStream(s, [r EXCEPT !.phase = "waiting"]) /\ stream[s].phase # "closed"
        /\ UNCHANGED <<busVars, outboxVars, entryVars, faults>>
    BY <1>1, <1>6 DEF StreamGreeted
  <2> QED BY <2>1, <2>2, StreamInside
<1>7. CASE Enqueue(s)
  <2>1. PICK u: u = [r EXCEPT !.pend = r.pend - 1]
    OBVIOUS
  <2>2. r.pend - 1 \in 0..MaxPending
    BY <1>1, <1>2, <1>3, <1>7 DEF Enqueue
  <2>3. u \in Stream /\ u.phase = r.phase
    BY <2>1, <2>2 DEF Stream
  <2>4. PICK v: v = IF u.phase = "closed" THEN u ELSE PutDropOldest(u)
    OBVIOUS
  <2>5. v \in Stream /\ v.phase = r.phase
    BY <2>3, <2>4, PutFits
  <2>6. SetStream(s, v) /\ UNCHANGED <<busVars, outboxVars, entryVars, faults>>
    BY <1>1, <1>7, <2>1, <2>4 DEF Enqueue
  <2> QED BY <1>1, <2>5, <2>6, StreamInside
<1>8. CASE StreamGets(s)
  <2>1. PICK f: f = IF r.dropped > 0 THEN "telling" ELSE "sending"
    OBVIOUS
  <2>2. f \in Phases /\ r.queue - 1 \in 0..QueueMax
    BY <1>1, <1>2, <1>3, <1>8, <2>1 DEF StreamGets, Phases
  <2>3. State(r.pend, r.queue - 1, r.dropped, f) \in Stream
    BY <1>2, <2>2, StreamFields
  <2>4. /\ SetStream(s, State(r.pend, r.queue - 1, r.dropped, f)) /\ stream[s].phase # "closed"
        /\ UNCHANGED <<busVars, outboxVars, entryVars, faults>>
    BY <1>1, <1>8, <2>1 DEF StreamGets
  <2> QED BY <2>3, <2>4, StreamInside
<1>9. CASE StreamTold(s)
  <2>1. State(r.pend, r.queue, 0, "sending") \in Stream
    BY <1>2, <1>4, StreamFields DEF Phases
  <2>2. /\ SetStream(s, State(r.pend, r.queue, 0, "sending")) /\ stream[s].phase # "closed"
        /\ UNCHANGED <<busVars, outboxVars, entryVars, faults>>
    BY <1>1, <1>9 DEF StreamTold
  <2> QED BY <2>1, <2>2, StreamInside
<1>10. CASE StreamSent(s)
  <2>1. [r EXCEPT !.phase = "waiting"] \in Stream
    BY DEF Stream
  <2>2. /\ SetStream(s, [r EXCEPT !.phase = "waiting"]) /\ stream[s].phase # "closed"
        /\ UNCHANGED <<busVars, outboxVars, entryVars, faults>>
    BY <1>1, <1>10 DEF StreamSent
  <2> QED BY <2>1, <2>2, StreamInside
<1>11. CASE StreamCloses(s)
  <2>1. PICK u: u = State(r.pend, 0, 0, "closed")
    OBVIOUS
  <2>2. u \in Stream /\ u.phase = "closed"
    BY <1>2, <1>4, <2>1, StreamFields DEF Phases
  <2>3. SetStream(s, u) /\ UNCHANGED <<outboxVars, entryVars, faults>>
    BY <1>1, <1>11, <2>1 DEF StreamCloses
  <2>4. CASE UNCHANGED busVars
    BY <2>2, <2>3, <2>4, StreamInside
  <2>5. CASE Unsubscribe(s)
    <3>1. SubsInv' /\ LateInv' /\ \A x \in Subs: Registered(x)' <=> Registered(x) /\ x # s
      BY <2>5, Homes, UnsubscribeBus DEF EInv
    <3>2. UNCHANGED <<active, wire, snap, announced>>
      BY <2>3, <2>5 DEF Unsubscribe, entryVars
    <3>3. WireInv' /\ SnapInv'
      BY <3>2 DEF EInv, WireInv, SnapInv
    <3>4. \A x \in Streams: x # s /\ Registered(x) => Registered(x)'
      BY <3>1, Homes
    <3>5. StreamsInv'
      BY <1>0, <2>2, <2>3, <3>4, OneStream
    <3> QED BY <2>3, <3>1, <3>3, <3>5, StreamInvs
  <2> QED BY <1>11, <2>4, <2>5 DEF StreamCloses
<1> QED BY <1>5, <1>6, <1>7, <1>8, <1>9, <1>10, <1>11

(* _on_bus_event hands the event to the event loop.                        *)
LEMMA BusEventStep ==
    ASSUME EInv, NEW s \in Streams, NEW msg \in Messages, OnBusEvent(s, msg)
    PROVE  EInv'
<1>0. StreamsInv /\ stream[s] \in Stream
  BY UserParts DEF EInv, StreamsInv
<1>1. PICK r \in Stream: r = stream[s]
  BY <1>0
<1>2. PICK u: u = [r EXCEPT !.pend = r.pend + 1]
  OBVIOUS
<1>3. /\ Calls(Backend, s, msg) /\ r.pend < MaxPending /\ SetStream(s, u)
      /\ UNCHANGED <<wire, outboxVars, entryVars, faults>>
  BY <1>1, <1>2 DEF OnBusEvent
<1>4. u \in Stream /\ u.phase = r.phase
  <2>1. r.pend + 1 \in 0..MaxPending
    BY <1>3, StreamFields, DeliveryConstants
  <2> QED BY <1>2, <2>1 DEF Stream
<1>5. /\ SubsInv' /\ WireInv' /\ SnapInv' /\ LateInv'
      /\ \A x \in Subs: Registered(x)' <=> Registered(x)
  BY <1>3, Homes, HandlerBus DEF entryVars
<1>6. u.phase # "closed" => Registered(s)'
  BY <1>0, <1>1, <1>4, <1>5, Homes DEF StreamsInv
<1>7. \A x \in Streams: x # s /\ Registered(x) => Registered(x)'
  BY <1>5, Homes
<1>8. StreamsInv'
  BY <1>0, <1>3, <1>4, <1>6, <1>7, OneStream
<1> QED BY <1>3, <1>5, <1>8, StreamInvs

(* Every handler.                                                          *)
LEMMA HandlesStep == ASSUME EInv, NEW c \in Conns, Handles(c) PROVE EInv'
  BY BusEventStep, SuggesterStep DEF Handles

(* The processes.                                                          *)
LEMMA ProcessStep ==
    ASSUME EInv, NEW c \in Conns,
           Reads(c) \/ Registers(c) \/ Disconnected(c) \/ Restarts(c)
    PROVE  EInv'
<1>0. OutboxInv /\ EntryInv /\ StreamsInv /\ faults \in 0..MaxFaults
  BY UserParts DEF EInv
<1>1. CASE Reads(c)
  <2>1. TakeMessage(c) /\ UNCHANGED <<outboxVars, entryVars, stream, faults>>
    BY <1>1 DEF Reads
  <2>2. WireInv' /\ SnapInv' /\ LateInv'
    BY <1>0, <2>1, TakeBus DEF EInv, EntryInv, entryVars
  <2>3. UNCHANGED <<subs, active, asked, server>>
    BY <2>1 DEF TakeMessage
  <2>4. SubsInv' /\ StreamsInv'
    BY <1>0, <2>1, <2>3 DEF EInv, SubsInv, StreamsInv, Registered
  <2> QED BY <2>1, <2>2, <2>4, StreamInvs
<1>2. CASE Registers(c)
  <2>1. RedisRegisters(c) /\ UNCHANGED <<outboxVars, entryVars, stream, faults>>
    BY <1>2 DEF Registers
  <2>2. SubsInv'
    BY <2>1, RegistersBus DEF EInv
  <2>3. UNCHANGED <<subs, active, wire, snap, late, announced>>
    BY <2>1 DEF RedisRegisters, entryVars
  <2>4. WireInv' /\ SnapInv'
    BY <2>3 DEF EInv, WireInv, SnapInv
  <2>5. LateInv' /\ StreamsInv'
    BY <1>0, <2>1, <2>3 DEF EInv, LateInv, StreamsInv, Registered
  <2> QED BY <2>1, <2>2, <2>4, <2>5, StreamInvs
<1>3. CASE Disconnected(c)
  <2>1. Fault /\ ConnectionLost(c) /\ UNCHANGED <<outboxVars, entryVars, stream>>
    BY <1>3 DEF Disconnected
  <2>2. SubsInv' /\ WireInv'
    BY <2>1, LostBus DEF EInv, entryVars
  <2>3. UNCHANGED <<subs, active, snap, late, announced>>
    BY <2>1 DEF ConnectionLost, entryVars
  <2>4. SnapInv' /\ LateInv' /\ StreamsInv'
    BY <1>0, <2>1, <2>3 DEF EInv, SnapInv, LateInv, StreamsInv, Registered
  <2>5. OutboxInv' /\ EntryInv' /\ faults' \in 0..MaxFaults
    BY <1>0, <2>1, FaultCounts DEF OutboxInv, EntryInv, outboxVars, entryVars
  <2>6. UserInv'
    BY <2>4, <2>5 DEF UserInv, OutboxInv, EntryInv, StreamsInv
  <2> QED BY <2>2, <2>4, <2>6 DEF EInv
<1>4. CASE Restarts(c)
  <2>1. /\ Fault /\ ProcessRestarts(c) /\ UNCHANGED <<log, old, entryVars>>
        /\ emitting' = IF c = Backend THEN {} ELSE emitting
        /\ todo' = IF c = Worker THEN {} ELSE todo
        /\ stream' = IF c = Backend THEN [s \in Streams |-> NewStream] ELSE stream
    BY <1>4 DEF Restarts
  <2>2. /\ SubsInv' /\ WireInv' /\ SnapInv' /\ LateInv'
        /\ \A x \in Subs: Home[x] # c => (Registered(x)' <=> Registered(x))
    BY <2>1, RestartBus DEF EInv, entryVars
  <2>3. StreamsInv'
    <3>1. CASE c = Backend
      <4>1. NewStream \in Stream /\ NewStream.phase = "closed"
        BY DeliveryConstants, StreamFields DEF NewStream, Phases
      <4>2. stream' = [s \in Streams |-> NewStream]
        BY <2>1, <3>1
      <4> QED BY <4>1, <4>2 DEF StreamsInv
    <3>2. CASE c # Backend
      <4>1. \A s \in Streams: Registered(s) => Registered(s)'
        BY <2>2, <3>2, Homes
      <4>2. stream' = stream
        BY <2>1, <3>2
      <4> QED BY <1>0, <4>1, <4>2, StreamsKept
    <3> QED BY <3>1, <3>2
  <2>4. OutboxInv' /\ EntryInv' /\ faults' \in 0..MaxFaults
    BY <1>0, <2>1, FaultCounts DEF OutboxInv, EntryInv, entryVars
  <2>5. UserInv'
    BY <2>3, <2>4 DEF UserInv, OutboxInv, EntryInv, StreamsInv
  <2> QED BY <2>2, <2>5 DEF EInv
<1> QED BY <1>1, <1>2, <1>3, <1>4

(* The CategorizerSuggester starts.                                        *)
LEMMA WorkerSubscribesStep == ASSUME EInv, WorkerSubscribes PROVE EInv'
<1>1. Subscribe(Suggester, NewPatterns(Suggester)) /\ UNCHANGED <<outboxVars, entryVars, stream, faults>>
  BY DEF WorkerSubscribes
<1>2. /\ SubsInv' /\ WireInv' /\ SnapInv' /\ LateInv'
      /\ \A x \in Subs: Registered(x)' <=> Registered(x) \/ x = Suggester
  BY <1>1, Homes, SubscribeKept DEF entryVars
<1>3. StreamsInv'
  BY <1>1, <1>2, Homes, StreamsKept, UserParts DEF EInv
<1> QED BY <1>1, <1>2, <1>3, StreamInvs

(* A subscription whose psubscribe raised is on the list like another.     *)
LEMMA SubscribeFailsStep == ASSUME EInv, NEW s \in Subs, SubscribeFails(s) PROVE EInv'
<1>1. Fault /\ UNCHANGED <<outboxVars, entryVars, stream>>
  BY DEF SubscribeFails
<1>2. PICK told \in SUBSET NewPatterns(s): Subscribe(s, told)
  BY DEF SubscribeFails
<1>3. /\ SubsInv' /\ WireInv' /\ SnapInv' /\ LateInv'
      /\ \A x \in Subs: Registered(x)' <=> Registered(x) \/ x = s
  BY <1>1, <1>2, SubscribeKept DEF entryVars
<1>4. StreamsInv'
  BY <1>1, <1>3, Homes, StreamsKept, UserParts DEF EInv
<1>5. OutboxInv' /\ EntryInv' /\ faults' \in 0..MaxFaults
  BY <1>1, UserParts, FaultCounts DEF EInv, OutboxInv, EntryInv, outboxVars, entryVars
<1>6. UserInv'
  BY <1>4, <1>5 DEF UserInv, OutboxInv, EntryInv, StreamsInv
<1> QED BY <1>3, <1>6 DEF EInv

(* Every step keeps the invariant.                                         *)
LEMMA NextInv == EInv /\ [Next]_vars => EInv'
<1> SUFFICES ASSUME EInv, [Next]_vars PROVE EInv'
  OBVIOUS
<1>1. CASE UNCHANGED vars
  <2>1. UNCHANGED <<busVars, outboxVars, entryVars, stream, faults>>
    BY <1>1 DEF vars
  <2>2. OutboxInv'
    BY <2>1, UserParts DEF EInv, OutboxInv, outboxVars
  <2> QED BY <2>1, <2>2, OutboxStep
<1>2. CASE Next
  <2>1. ASSUME NEW e \in Critical,
               \/ EmitCritical(e) \/ EmitPublish(e) \/ GraceEnds(e)
               \/ ReconcilerPublishes(e) \/ Acknowledge(e)
        PROVE  EInv'
    BY <2>1, EmitStep
  <2>2. ASSUME ReconcilerReads PROVE EInv'
    BY <2>2, ReconcilerReadsStep
  <2>3. ASSUME NEW l \in Entries, ListenerAnnounces(l) PROVE EInv'
    BY <2>3, AnnounceStep
  <2>4. ASSUME NEW s \in Streams,
               \/ StreamOpens(s) \/ StreamGreeted(s) \/ Enqueue(s) \/ StreamGets(s)
               \/ StreamTold(s) \/ StreamSent(s) \/ StreamCloses(s)
        PROVE  EInv'
    BY <2>4, StreamStep
  <2>5. ASSUME WorkerSubscribes PROVE EInv'
    BY <2>5, WorkerSubscribesStep
  <2>7. ASSUME NEW s \in Subs, SubscribeFails(s) PROVE EInv'
    BY <2>7, SubscribeFailsStep
  <2>6. ASSUME NEW c \in Conns, Reads(c) \/ Handles(c) \/ Registers(c) \/ Disconnected(c) \/ Restarts(c)
        PROVE  EInv'
    BY <2>6, HandlesStep, ProcessStep
  <2> QED BY <1>2, <2>1, <2>2, <2>3, <2>4, <2>5, <2>6, <2>7 DEF Next
<1> QED BY <1>1, <1>2

(* Without a fault, Redis was asked for every pattern that is active.      *)
AskedInv == faults = 0 => asked = active

(* A new process has neither subscriptions nor patterns.                   *)
LEMMA AskedInit == Init => AskedInv
  BY DEF Init, BusInit, AskedInv

(* subscribe asks for exactly the patterns that it makes active.           *)
LEMMA SubscribeAsks ==
    ASSUME SubsInv, AskedInv, NEW s \in Subs, Subscribe(s, NewPatterns(s)), UNCHANGED faults
    PROVE  AskedInv'
<1>1. PICK h: h = Home[s]
  OBVIOUS
<1>2. /\ active' = [active EXCEPT ![h] = active[h] \union PatternsOf[s]]
      /\ asked' = [asked EXCEPT ![h] = asked[h] \union (PatternsOf[s] \ active[h])]
  BY <1>1 DEF Subscribe, NewPatterns
<1>3. ASSUME asked = active PROVE asked' = active'
  <2>1. active[h] \union (PatternsOf[s] \ active[h]) = active[h] \union PatternsOf[s]
    OBVIOUS
  <2> QED BY <1>2, <1>3, <2>1
<1> QED BY <1>3 DEF AskedInv

(* Every other step leaves both alone or is a fault.                       *)
LEMMA AskedNext == EInv /\ AskedInv /\ [Next]_vars => AskedInv'
<1> SUFFICES ASSUME EInv, AskedInv, [Next]_vars PROVE AskedInv'
  OBVIOUS
<1>0. faults \in Nat /\ SubsInv
  BY DeliveryConstants DEF EInv, UserInv
<1>1. CASE Fault
  BY <1>0, <1>1 DEF Fault, AskedInv
<1>2. CASE UNCHANGED <<active, asked, faults>>
  BY <1>2 DEF AskedInv
<1>3. ASSUME NEW e \in Critical,
             \/ EmitCritical(e) \/ EmitPublish(e) \/ GraceEnds(e)
             \/ ReconcilerPublishes(e) \/ Acknowledge(e)
      PROVE  AskedInv'
  BY <1>1, <1>2, <1>3 DEF EmitCritical, EmitPublish, GraceEnds, ReconcilerPublishes, Acknowledge, busVars
<1>4. ASSUME ReconcilerReads PROVE AskedInv'
  BY <1>2, <1>4 DEF ReconcilerReads, busVars
<1>5. ASSUME NEW l \in Entries, ListenerAnnounces(l) PROVE AskedInv'
  BY <1>2, <1>5 DEF ListenerAnnounces
<1>6. ASSUME NEW s \in Streams,
             \/ StreamOpens(s) \/ StreamGreeted(s) \/ Enqueue(s) \/ StreamGets(s)
             \/ StreamTold(s) \/ StreamSent(s) \/ StreamCloses(s)
      PROVE  AskedInv'
  <2>1. CASE StreamOpens(s)
    BY <1>0, <2>1, Homes, SubscribeAsks DEF StreamOpens
  <2>2. CASE StreamCloses(s)
    BY <1>2, <2>2 DEF StreamCloses, Unsubscribe, busVars
  <2>3. CASE StreamGreeted(s) \/ Enqueue(s) \/ StreamGets(s) \/ StreamTold(s) \/ StreamSent(s)
    BY <1>2, <2>3 DEF StreamGreeted, Enqueue, StreamGets, StreamTold, StreamSent, busVars
  <2> QED BY <1>6, <2>1, <2>2, <2>3
<1>7. ASSUME WorkerSubscribes PROVE AskedInv'
  BY <1>0, <1>7, Homes, SubscribeAsks DEF WorkerSubscribes
<1>8. ASSUME NEW s \in Subs, SubscribeFails(s) PROVE AskedInv'
  BY <1>1, <1>8 DEF SubscribeFails
<1>9. ASSUME NEW c \in Conns, Reads(c) \/ Registers(c) \/ Disconnected(c) \/ Restarts(c) PROVE AskedInv'
  BY <1>1, <1>2, <1>9 DEF Reads, TakeMessage, Registers, RedisRegisters, Disconnected, Restarts
<1>10. ASSUME NEW c \in Conns, Handles(c) PROVE AskedInv'
  BY <1>1, <1>2, <1>10 DEF Handles, OnBusEvent, SuggesterHandles, Calls
<1>11. CASE UNCHANGED vars
  BY <1>2, <1>11 DEF vars, busVars
<1> QED BY <1>3, <1>4, <1>5, <1>6, <1>7, <1>8, <1>9, <1>10, <1>11 DEF Next

-----------------------------------------------------------------------------
(* The theorems.                                                           *)

(* RedisEventBus and its users fit together in every reachable state: each *)
(* subscription once on its own bus with its patterns, a dispatch only at  *)
(* a handler that matches and at no handler twice, an open event stream    *)
(* subscribed, every active pattern asked of Redis unless there was a      *)
(* fault, and suggestions only for INTERNAL entries that were announced    *)
(* (infrastructure/event_bus.py, api/v1/events_stream.py,                  *)
(* workers/subscribers/categorizer_suggester.py).                          *)
THEOREM DeliverySafe == Spec => []DeliveryConsistent
<1>1. EInv /\ AskedInv => DeliveryConsistent
  <2> SUFFICES ASSUME EInv, AskedInv PROVE DeliveryConsistent
    OBVIOUS
  <2>1. late \in [Subs -> -1..2]
    BY DEF EInv, LateInv
  <2>2. BusTypeOK
    BY <2>1 DEF EInv, SubsInv, WireInv, SnapInv, BusTypeOK
  <2>3. TypeOK
    BY <2>2, DeliveryConstants DEF EInv, UserInv, TypeOK
  <2>4. BusConsistent
    BY DEF EInv, SubsInv, WireInv, WireOK, SnapInv, DispatchOK, BusConsistent
  <2> QED BY <2>3, <2>4 DEF EInv, AskedInv, UserInv, DeliveryConsistent
<1> QED BY <1>1, InitInv, NextInv, AskedInit, AskedNext, PTL DEF Spec

(* Subscription.unsubscribe stops delivery but for one call: a dispatch    *)
(* that began before it may still reach the handler, once, and no later    *)
(* dispatch does.                                                          *)
THEOREM UnsubscribeSafe == Spec => []UnsubscribeStops
<1>1. EInv => UnsubscribeStops
  BY DEF EInv, LateInv, UnsubscribeStops
<1> QED BY <1>1, InitInv, NextInv, PTL DEF Spec
=============================================================================
