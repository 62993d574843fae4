----------------------------- MODULE AccessProofs ------------------------------
(***************************************************************************)
(* Theorems about Access, for all sets of tokens, devices, clients and     *)
(* passphrases and all lifetimes, windows and limits.                      *)
(*                                                                         *)
(* AccessInv is not inductive.  A token makes one device because every     *)
(* token a device came from is used up; and the bound of two windows holds *)
(* because what is older than the entry of a client was all judged in the  *)
(* one window before it, while an entry that has expired has no attempt at *)
(* the present moment, so that its successor starts from nothing.          *)
(***************************************************************************)
EXTENDS Access, TLAPS

TokensUsed ==
    \A d \in Devices:
        device[d].origin # NULL => token[device[d].origin].st \in {"redeemed", "gone"}

(* The count of attempts grows with the age that is looked at.             *)
Cumulative ==
    \A c \in Clients: \A a \in 0..Window: \A b \in 0..Window: a <= b => wrongs[c][a] <= wrongs[c][b]

(* One client: what its entry says of its attempts.                        *)
EntryCovers(l, w) ==
    /\ l = NULL => w[Window] = 0
    /\ l # NULL =>
        /\ \A a \in 0..Window: a <= l.age => w[a] <= l.failures
        /\ w[Window] <= l.failures + MaxFailures
        /\ l.age > Window => w[0] = 0

AttemptsInv == Cumulative /\ \A c \in Clients: EntryCovers(limit[c], wrongs[c])

AInv == TypeOK /\ TokensUsed /\ OneDevicePerToken /\ CacheOutlivesByTTL /\ AttemptsInv

-----------------------------------------------------------------------------
(* Initial states, and what the invariant implies.                         *)

LEMMA InitAInv == Init => AInv
<1> SUFFICES ASSUME Init PROVE AInv
  OBVIOUS
<1> USE AccessConstants, StoreConstants
<1>1. StoreTypeOK
  BY DEF Init, StoreTypeOK, KeyOrNull
<1>2. token \in [Tokens -> Token]
  BY DEF Init, Token
<1>3. device \in [Devices -> Device]
  BY DEF Init, Device
<1>4. /\ cache \in [Devices -> -1..CacheTTL \union {NULL}]
      /\ admitted \in SUBSET Devices /\ streaming \in SUBSET Devices
      /\ limit \in [Clients -> Limit \union {NULL}]
  BY DEF Init
<1>5. wrongs \in [Clients -> [0..Window -> Nat]]
  BY DEF Init, NoWrongs
<1>6. \A c \in Clients: \A a \in 0..Window: wrongs[c][a] = 0
  BY DEF Init, NoWrongs
<1>7. AttemptsInv
  BY <1>6 DEF AttemptsInv, Cumulative, EntryCovers, Init
<1>8. TokensUsed /\ OneDevicePerToken /\ CacheOutlivesByTTL
  BY DEF Init, TokensUsed, OneDevicePerToken, CacheOutlivesByTTL
<1> QED
  BY <1>1, <1>2, <1>3, <1>4, <1>5, <1>7, <1>8 DEF AInv, TypeOK

LEMMA AInvImplies == AInv => AccessInv
<1> SUFFICES ASSUME AInv PROVE AccessInv
  OBVIOUS
<1> USE AccessConstants
<1>1. ASSUME NEW c \in Clients
      PROVE  wrongs[c][Window] <= 2 * MaxFailures
  <2>1. EntryCovers(limit[c], wrongs[c]) /\ wrongs[c] \in [0..Window -> Nat]
    BY DEF AInv, AttemptsInv, TypeOK
  <2>2. limit[c] # NULL => limit[c].failures \in 0..MaxFailures
    BY DEF AInv, TypeOK, Limit
  <2>3. limit[c] # NULL => wrongs[c][Window] <= limit[c].failures + MaxFailures
    BY <2>1 DEF EntryCovers
  <2>4. limit[c] = NULL => wrongs[c][Window] = 0
    BY <2>1 DEF EntryCovers
  <2>5. wrongs[c][Window] \in Nat
    BY <2>1
  <2> QED
    BY <2>2, <2>3, <2>4, <2>5
<1>2. AttemptsBounded
  BY <1>1 DEF AttemptsBounded
<1>3. FailuresMatch
  BY DEF FailuresMatch, AInv, AttemptsInv, EntryCovers
<1> QED
  BY <1>2, <1>3 DEF AInv, AccessInv

-----------------------------------------------------------------------------
(* The attempts of the clients.                                            *)

LEMMA AttemptsKept ==
    ASSUME AInv, UNCHANGED limitVars
    PROVE  AttemptsInv'
BY DEF AInv, AttemptsInv, Cumulative, EntryCovers, limitVars

(* One unit of time makes every attempt and every entry older.             *)
LEMMA TimeCovers ==
    ASSUME NEW l \in Limit, NEW w \in [0..Window -> Nat],
           \A a \in 0..Window: \A b \in 0..Window: a <= b => w[a] <= w[b],
           EntryCovers(l, w),
           NEW m, m = [failures |-> l.failures, age |-> More(l.age, Window)],
           NEW x, x = [a \in 0..Window |-> IF a = 0 THEN 0 ELSE w[a - 1]]
    PROVE  EntryCovers(m, x)
<1> USE AccessConstants
<1>1. l.failures \in 0..MaxFailures /\ l.age \in 0..Window + 1
  BY DEF Limit
<1>2. m.failures = l.failures /\ m.age \in 0..Window + 1
  BY <1>1 DEF More
<1>3. m.age = IF l.age > Window THEN l.age ELSE l.age + 1
  BY DEF More
<1>0. m \in Limit
  BY <1>1, <1>2 DEF Limit
<1>4. m # NULL /\ l # NULL
  BY <1>0 DEF Limit
<1>5. \A a \in 0..Window: a <= l.age => w[a] <= l.failures
  BY <1>4 DEF EntryCovers
<1>6. ASSUME NEW a \in 0..Window, a <= m.age
      PROVE  x[a] <= m.failures
  <2>1. CASE a = 0
    BY <2>1, <1>1, <1>2
  <2>2. CASE a # 0
    <3>1. a - 1 \in 0..Window /\ a - 1 <= l.age
      BY <2>2, <1>1, <1>3, <1>6
    <3>2. x[a] = w[a - 1]
      BY <2>2
    <3> QED
      BY <3>1, <3>2, <1>5, <1>2
  <2> QED
    BY <2>1, <2>2
<1>7. x[Window] <= w[Window]
  <2>1. CASE Window = 0
    BY <2>1
  <2>2. CASE Window # 0
    <3>1. Window - 1 \in 0..Window /\ Window \in 0..Window
      BY <2>2
    <3>2. x[Window] = w[Window - 1]
      BY <2>2, <3>1
    <3>3. w[Window - 1] <= w[Window]
      BY <3>1
    <3> QED
      BY <3>2, <3>3
  <2> QED
    BY <2>1, <2>2
<1>8. x[Window] <= m.failures + MaxFailures
  <2>1. w[Window] <= l.failures + MaxFailures
    BY <1>4 DEF EntryCovers
  <2>2. w[Window] \in Nat /\ x[Window] \in Nat
    <3>1. Window \in 0..Window
      OBVIOUS
    <3>2. Window # 0 => Window - 1 \in 0..Window
      OBVIOUS
    <3> QED
      BY <3>1, <3>2
  <2> QED
    BY <2>1, <2>2, <1>7, <1>2, <1>1
<1>9. x[0] = 0
  OBVIOUS
<1> QED
  BY <1>4, <1>6, <1>8, <1>9 DEF EntryCovers

LEMMA TimeAttempts ==
    ASSUME AInv, TimePasses
    PROVE  AttemptsInv'
<1> USE AccessConstants
<1>1. ASSUME NEW c \in Clients
      PROVE  /\ \A a \in 0..Window: \A b \in 0..Window: a <= b => wrongs'[c][a] <= wrongs'[c][b]
             /\ EntryCovers(limit'[c], wrongs'[c])
  <2>1. PICK w \in [0..Window -> Nat]: w = wrongs[c]
    BY DEF AInv, TypeOK
  <2>2. PICK x: x = [a \in 0..Window |-> IF a = 0 THEN 0 ELSE w[a - 1]]
    OBVIOUS
  <2>3. wrongs'[c] = x
    BY <2>1, <2>2 DEF TimePasses
  <2>4. \A a \in 0..Window: \A b \in 0..Window: a <= b => w[a] <= w[b]
    BY <2>1 DEF AInv, AttemptsInv, Cumulative
  <2>5. ASSUME NEW a \in 0..Window, NEW b \in 0..Window, a <= b
        PROVE  x[a] <= x[b]
    <3>1. CASE a = 0
      <4>1. x[a] = 0
        BY <3>1, <2>2
      <4>2. b # 0 => b - 1 \in 0..Window
        OBVIOUS
      <4>3. x[b] \in Nat
        BY <2>2, <4>2
      <4> QED
        BY <4>1, <4>3
    <3>2. CASE a # 0
      <4>1. a - 1 \in 0..Window /\ b - 1 \in 0..Window /\ a - 1 <= b - 1 /\ b # 0
        BY <3>2, <2>5
      <4>2. x[a] = w[a - 1] /\ x[b] = w[b - 1]
        BY <3>2, <4>1, <2>2
      <4> QED
        BY <4>1, <4>2, <2>4
    <3> QED
      BY <3>1, <3>2
  <2>6. EntryCovers(limit'[c], x)
    <3>1. EntryCovers(limit[c], w)
      BY <2>1 DEF AInv, AttemptsInv
    <3>2. CASE limit[c] = NULL
      <4>1. limit'[c] = NULL
        BY <3>2 DEF TimePasses
      <4>2. w[Window] = 0
        BY <3>1, <3>2 DEF EntryCovers
      <4>3. CASE Window = 0
        BY <4>1, <4>3, <2>2 DEF EntryCovers
      <4>4. CASE Window # 0
        <5>1. Window - 1 \in 0..Window /\ Window \in 0..Window
          BY <4>4
        <5>2. x[Window] = w[Window - 1]
          BY <4>4, <5>1, <2>2
        <5>3. w[Window - 1] <= w[Window] /\ w[Window - 1] \in Nat
          BY <5>1, <2>4
        <5>4. x[Window] = 0
          BY <5>2, <5>3, <4>2
        <5> QED
          BY <5>4, <4>1 DEF EntryCovers
      <4> QED
        BY <4>3, <4>4
    <3>3. CASE limit[c] # NULL
      <4>1. PICK l \in Limit: l = limit[c]
        BY <3>3 DEF AInv, TypeOK
      <4>2. PICK m: m = [failures |-> l.failures, age |-> More(l.age, Window)]
        OBVIOUS
      <4>3. limit'[c] = m
        BY <3>3, <4>1, <4>2 DEF TimePasses
      <4>4. EntryCovers(l, w)
        BY <3>1, <4>1
      <4>5. EntryCovers(m, x)
        BY <2>4, <4>4, <4>2, <2>2, TimeCovers
      <4> QED
        BY <4>3, <4>5
    <3> QED
      BY <3>2, <3>3
  <2> QED
    BY <2>3, <2>5, <2>6
<1> QED
  BY <1>1 DEF AttemptsInv, Cumulative, EntryCovers

(* The entry an attempt meets covers the attempts so far, and is a new one *)
(* when there is none or the last has expired.                             *)
LEMMA EntryFits ==
    ASSUME AInv, NEW c \in Clients
    PROVE  /\ Entry(c) \in Limit
           /\ Entry(c).age \in 0..Window /\ Entry(c).failures \in 0..MaxFailures
           /\ EntryCovers(Entry(c), wrongs[c])
<1> USE AccessConstants
<1>1. EntryCovers(limit[c], wrongs[c]) /\ limit[c] \in Limit \union {NULL}
  BY DEF AInv, AttemptsInv, TypeOK
<1>2. PICK w \in [0..Window -> Nat]: w = wrongs[c]
  BY DEF AInv, TypeOK
<1>3. \A a \in 0..Window: \A b \in 0..Window: a <= b => w[a] <= w[b]
  BY <1>2 DEF AInv, AttemptsInv, Cumulative
<1>4. Window \in 0..Window /\ 0 \in 0..Window
  OBVIOUS
<1>5. CASE limit[c] = NULL \/ limit[c].age > Window
  <2>1. Entry(c) = [failures |-> 0, age |-> 0]
    BY <1>5 DEF Entry
  <2>a. [failures |-> 0, age |-> 0] \in Limit
    BY DEF Limit
  <2>2. PICK e \in Limit: e = [failures |-> 0, age |-> 0]
    BY <2>a, Zenon
  <2>3. e.failures = 0 /\ e.age = 0 /\ e # NULL
    BY <2>2 DEF Limit
  <2>4. w[0] = 0 /\ w[Window] <= MaxFailures
    <3>1. CASE limit[c] = NULL
      <4>1. w[Window] = 0 /\ w[0] <= w[Window] /\ w[0] \in Nat
        BY <3>1, <1>1, <1>2, <1>3, <1>4 DEF EntryCovers
      <4> QED
        BY <4>1
    <3>2. CASE limit[c] # NULL
      <4>1. limit[c].failures \in 0..MaxFailures /\ limit[c].age \in 0..Window + 1
        BY <3>2, <1>1 DEF Limit
      <4>2. w[0] = 0 /\ w[Window] <= limit[c].failures
        BY <3>2, <1>5, <4>1, <1>1, <1>2, <1>4 DEF EntryCovers
      <4>3. w[Window] \in Nat
        BY <1>4
      <4> QED
        BY <4>1, <4>2, <4>3
    <3> QED
      BY <3>1, <3>2
  <2>5. \A a \in 0..Window: a <= 0 => w[a] <= 0
    BY <2>4
  <2>6. EntryCovers(e, w)
    BY <2>3, <2>4, <2>5 DEF EntryCovers
  <2> QED
    BY <2>1, <2>2, <2>3, <2>6, <1>2
<1>6. CASE limit[c] # NULL /\ ~(limit[c].age > Window)
  <2>1. Entry(c) = limit[c]
    BY <1>6 DEF Entry
  <2>2. limit[c].failures \in 0..MaxFailures /\ limit[c].age \in 0..Window + 1
    BY <1>6, <1>1 DEF Limit
  <2>3. limit[c].age \in 0..Window
    BY <2>2, <1>6
  <2> QED
    BY <2>1, <2>2, <2>3, <1>1, <1>6
<1> QED
  BY <1>5, <1>6

(* A step of one client.                                                   *)
LEMMA OneClient ==
    ASSUME AInv, NEW c \in Clients, NEW l \in Limit, NEW w \in [0..Window -> Nat],
           limit' = [limit EXCEPT ![c] = l],
           wrongs' = [wrongs EXCEPT ![c] = w],
           EntryCovers(l, w),
           \A a \in 0..Window: \A b \in 0..Window: a <= b => w[a] <= w[b]
    PROVE  /\ AttemptsInv'
           /\ limit' \in [Clients -> Limit \union {NULL}]
           /\ wrongs' \in [Clients -> [0..Window -> Nat]]
<1>1. /\ limit \in [Clients -> Limit \union {NULL}]
      /\ wrongs \in [Clients -> [0..Window -> Nat]]
  BY DEF AInv, TypeOK
<1>2. limit' \in [Clients -> Limit \union {NULL}] /\ wrongs' \in [Clients -> [0..Window -> Nat]]
  BY <1>1
<1>3. /\ limit'[c] = l /\ wrongs'[c] = w
      /\ \A e \in Clients: e # c => limit'[e] = limit[e] /\ wrongs'[e] = wrongs[e]
  BY <1>1
<1>4. ASSUME NEW e \in Clients
      PROVE  /\ \A a \in 0..Window: \A b \in 0..Window: a <= b => wrongs'[e][a] <= wrongs'[e][b]
             /\ EntryCovers(limit'[e], wrongs'[e])
  <2>1. CASE e = c
    BY <2>1, <1>3
  <2>2. CASE e # c
    BY <2>2, <1>3 DEF AInv, AttemptsInv, Cumulative
  <2> QED
    BY <2>1, <2>2
<1>5. AttemptsInv'
  BY <1>4 DEF AttemptsInv, Cumulative, EntryCovers
<1> QED
  BY <1>2, <1>5

LEMMA RefusedAttempts ==
    ASSUME AInv, NEW c \in Clients, AttemptRefused(c)
    PROVE  AInv'
<1> USE AccessConstants
<1>1. PICK l \in Limit: l = Entry(c)
  BY EntryFits
<1>2. PICK w \in [0..Window -> Nat]: w = wrongs[c]
  BY DEF AInv, TypeOK
<1>3. l = [failures |-> l.failures, age |-> l.age]
  BY DEF Limit
<1>4. limit' = [limit EXCEPT ![c] = l]
  BY <1>1, <1>3 DEF AttemptRefused, SetLimit
<1>5. wrongs' = [wrongs EXCEPT ![c] = w]
  BY <1>2 DEF AttemptRefused, AInv, TypeOK
<1>6. EntryCovers(l, w)
  BY <1>1, <1>2, EntryFits
<1>7. \A a \in 0..Window: \A b \in 0..Window: a <= b => w[a] <= w[b]
  BY <1>2 DEF AInv, AttemptsInv, Cumulative
<1>8. /\ AttemptsInv'
      /\ limit' \in [Clients -> Limit \union {NULL}]
      /\ wrongs' \in [Clients -> [0..Window -> Nat]]
  BY <1>4, <1>5, <1>6, <1>7, OneClient
<1>9. UNCHANGED <<params, canary, key, secrets, token, device, cache, admitted, streaming>>
  BY DEF AttemptRefused, storeVars, accessVars
<1> QED
  BY <1>8, <1>9 DEF AInv, TypeOK, StoreTypeOK, TokensUsed, OneDevicePerToken, CacheOutlivesByTTL

LEMMA WrongAttempts ==
    ASSUME AInv, NEW c \in Clients, NEW p \in Passphrases, AttemptWrong(c, p)
    PROVE  AInv'
<1> USE AccessConstants
<1>1. PICK e \in Limit: e = Entry(c)
  BY EntryFits
<1>2. e.age \in 0..Window /\ e.failures \in 0..MaxFailures /\ e.failures < MaxFailures
  BY <1>1, EntryFits DEF AttemptWrong, Limited
<1>3. PICK v \in [0..Window -> Nat]: v = wrongs[c]
  BY DEF AInv, TypeOK
<1>a. [failures |-> e.failures + 1, age |-> e.age] \in Limit
  BY <1>2 DEF Limit
<1>4. PICK l \in Limit: l = [failures |-> e.failures + 1, age |-> e.age]
  BY <1>a, Zenon
<1>5. l.failures = e.failures + 1 /\ l.age = e.age /\ l # NULL /\ e # NULL
  BY <1>4 DEF Limit
<1>b. [a \in 0..Window |-> v[a] + 1] \in [0..Window -> Nat]
  OBVIOUS
<1>6. PICK w \in [0..Window -> Nat]: w = [a \in 0..Window |-> v[a] + 1]
  BY <1>b, Zenon
<1>7. limit' = [limit EXCEPT ![c] = l]
  BY <1>1, <1>4 DEF AttemptWrong, SetLimit, CountFailure
<1>8. wrongs' = [wrongs EXCEPT ![c] = w]
  BY <1>3, <1>6 DEF AttemptWrong
<1>9. EntryCovers(e, v)
  BY <1>1, <1>3, EntryFits
<1>10. EntryCovers(l, w)
  <2>1. ASSUME NEW a \in 0..Window, a <= l.age
        PROVE  w[a] <= l.failures
    <3>1. v[a] <= e.failures
      BY <2>1, <1>5, <1>9 DEF EntryCovers
    <3>2. w[a] = v[a] + 1 /\ v[a] \in Nat
      BY <1>6
    <3> QED
      BY <3>1, <3>2, <1>5, <1>2
  <2>2. w[Window] <= l.failures + MaxFailures
    <3>1. v[Window] <= e.failures + MaxFailures
      BY <1>5, <1>9 DEF EntryCovers
    <3>2. w[Window] = v[Window] + 1 /\ v[Window] \in Nat
      BY <1>6
    <3> QED
      BY <3>1, <3>2, <1>5, <1>2
  <2>3. ~(l.age > Window)
    BY <1>2, <1>5
  <2> QED
    BY <2>1, <2>2, <2>3, <1>5 DEF EntryCovers
<1>11. ASSUME NEW a \in 0..Window, NEW b \in 0..Window, a <= b
       PROVE  w[a] <= w[b]
  <2>1. v[a] <= v[b] /\ v[a] \in Nat /\ v[b] \in Nat
    BY <1>11, <1>3 DEF AInv, AttemptsInv, Cumulative
  <2>2. w[a] = v[a] + 1 /\ w[b] = v[b] + 1
    BY <1>6
  <2> QED
    BY <2>1, <2>2
<1>12. /\ AttemptsInv'
       /\ limit' \in [Clients -> Limit \union {NULL}]
       /\ wrongs' \in [Clients -> [0..Window -> Nat]]
  BY <1>7, <1>8, <1>10, <1>11, OneClient
<1>13. UNCHANGED <<params, canary, key, secrets, token, device, cache, admitted, streaming>>
  BY DEF AttemptWrong, storeVars, accessVars
<1> QED
  BY <1>12, <1>13 DEF AInv, TypeOK, StoreTypeOK, TokensUsed, OneDevicePerToken, CacheOutlivesByTTL

LEMMA RightAttempts ==
    ASSUME AInv, NEW c \in Clients, NEW p \in Passphrases, AttemptRight(c, p)
    PROVE  AInv'
<1> USE AccessConstants
<1>1. PICK e \in Limit: e = Entry(c) /\ e.age \in 0..Window
  BY EntryFits
<1>a. [failures |-> 0, age |-> e.age] \in Limit
  BY <1>1 DEF Limit
<1>2. PICK l \in Limit: l = [failures |-> 0, age |-> e.age]
  BY <1>a, Zenon
<1>3. l.failures = 0 /\ l.age = e.age /\ l # NULL
  BY <1>2 DEF Limit
<1>4. PICK w \in [0..Window -> Nat]: w = [a \in 0..Window |-> 0]
  OBVIOUS
<1>5. limit' = [limit EXCEPT ![c] = l]
  BY <1>1, <1>2 DEF AttemptRight, SetLimit
<1>6. wrongs' = [wrongs EXCEPT ![c] = w]
  BY <1>4 DEF AttemptRight, NoWrongs
<1>7. \A a \in 0..Window: w[a] = 0
  BY <1>4
<1>8. EntryCovers(l, w)
  BY <1>3, <1>7, <1>1 DEF EntryCovers
<1>9. \A a \in 0..Window: \A b \in 0..Window: a <= b => w[a] <= w[b]
  BY <1>7
<1>10. /\ AttemptsInv'
       /\ limit' \in [Clients -> Limit \union {NULL}]
       /\ wrongs' \in [Clients -> [0..Window -> Nat]]
  BY <1>5, <1>6, <1>8, <1>9, OneClient
<1>11. UNCHANGED <<params, canary, secrets, token, device, cache, admitted, streaming>> /\ key' = p
  BY DEF AttemptRight, Unlock, HoldKey, accessVars
<1> QED
  BY <1>10, <1>11 DEF AInv, TypeOK, StoreTypeOK, KeyOrNull, TokensUsed, OneDevicePerToken, CacheOutlivesByTTL

-----------------------------------------------------------------------------
(* Time, for the rest of the state.                                        *)

LEMMA TimeTyped ==
    ASSUME AInv, TimePasses
    PROVE  TypeOK'
<1> USE AccessConstants
<1>1. StoreTypeOK' /\ admitted' \in SUBSET Devices /\ streaming' \in SUBSET Devices
  BY DEF AInv, TypeOK, StoreTypeOK, TimePasses, storeVars
<1>2. ASSUME NEW t \in Tokens
      PROVE  [st |-> token[t].st, left |-> Less(token[t].left)] \in Token
  <2>1. token[t].st \in {"new", "live", "redeemed", "gone"} /\ token[t].left \in -1..TokenTTL
    BY DEF AInv, TypeOK, Token
  <2>2. Less(token[t].left) \in -1..TokenTTL
    BY <2>1 DEF Less
  <2> QED
    BY <2>1, <2>2 DEF Token
<1>3. token' \in [Tokens -> Token]
  BY <1>2 DEF TimePasses
<1>4. ASSUME NEW d \in Devices
      PROVE  [st |-> "revoked", origin |-> device[d].origin,
              since |-> More(device[d].since, CacheTTL)] \in Device
  <2>1. device[d].origin \in Tokens \union {NULL} /\ device[d].since \in 0..CacheTTL + 1
    BY DEF AInv, TypeOK, Device
  <2>2. More(device[d].since, CacheTTL) \in 0..CacheTTL + 1
    BY <2>1 DEF More
  <2> QED
    BY <2>1, <2>2 DEF Device
<1>5. device' \in [Devices -> Device]
  BY <1>4 DEF TimePasses, AInv, TypeOK
<1>6. ASSUME NEW d \in Devices, cache[d] # NULL
      PROVE  Less(cache[d]) \in -1..CacheTTL
  <2>1. cache[d] \in -1..CacheTTL
    BY <1>6 DEF AInv, TypeOK
  <2> QED
    BY <2>1 DEF Less
<1>7. cache' \in [Devices -> -1..CacheTTL \union {NULL}]
  BY <1>6 DEF TimePasses
<1>8. ASSUME NEW c \in Clients, limit[c] # NULL
      PROVE  [failures |-> limit[c].failures, age |-> More(limit[c].age, Window)] \in Limit
  <2>1. limit[c].failures \in 0..MaxFailures /\ limit[c].age \in 0..Window + 1
    BY <1>8 DEF AInv, TypeOK, Limit
  <2>2. More(limit[c].age, Window) \in 0..Window + 1
    BY <2>1 DEF More
  <2> QED
    BY <2>1, <2>2 DEF Limit
<1>9. limit' \in [Clients -> Limit \union {NULL}]
  BY <1>8 DEF TimePasses
<1>10. ASSUME NEW c \in Clients
       PROVE  [a \in 0..Window |-> IF a = 0 THEN 0 ELSE wrongs[c][a - 1]] \in [0..Window -> Nat]
  <2>1. \A a \in 0..Window: a # 0 => a - 1 \in 0..Window
    OBVIOUS
  <2>2. wrongs[c] \in [0..Window -> Nat]
    BY DEF AInv, TypeOK
  <2> QED
    BY <2>1, <2>2
<1>11. wrongs' \in [Clients -> [0..Window -> Nat]]
  BY <1>10 DEF TimePasses
<1> QED
  BY <1>1, <1>3, <1>5, <1>7, <1>9, <1>11 DEF TypeOK

LEMMA TimeSafe ==
    ASSUME AInv, TimePasses
    PROVE  AInv'
<1> USE AccessConstants
<1>1. \A t \in Tokens: token'[t].st = token[t].st
  BY DEF TimePasses
<1>2. \A d \in Devices: device'[d].st = device[d].st /\ device'[d].origin = device[d].origin
  BY DEF TimePasses
<1>a. \A d \in Devices: device[d].origin # NULL => device[d].origin \in Tokens
  BY DEF AInv, TypeOK, Device
<1>3. TokensUsed'
  BY <1>1, <1>2, <1>a DEF AInv, TokensUsed
<1>4. OneDevicePerToken'
  BY <1>2 DEF AInv, OneDevicePerToken
<1>5. ASSUME NEW d \in Devices, device'[d].st = "revoked", cache'[d] # NULL
      PROVE  cache'[d] + device'[d].since <= CacheTTL
  <2>1. device[d].st = "revoked"
    BY <1>5, <1>2
  <2>2. device'[d].since = More(device[d].since, CacheTTL) /\ device[d].since \in 0..CacheTTL + 1
    BY <2>1 DEF TimePasses, AInv, TypeOK, Device
  <2>3. cache[d] # NULL /\ cache'[d] = Less(cache[d])
    BY <1>5 DEF TimePasses
  <2>4. cache[d] \in -1..CacheTTL
    BY <2>3 DEF AInv, TypeOK
  <2>5. cache[d] + device[d].since <= CacheTTL
    BY <2>1, <2>3 DEF AInv, CacheOutlivesByTTL
  <2> QED
    BY <2>2, <2>3, <2>4, <2>5 DEF Less, More
<1>6. CacheOutlivesByTTL'
  BY <1>5 DEF CacheOutlivesByTTL
<1> QED
  BY <1>3, <1>4, <1>6, TimeTyped, TimeAttempts DEF AInv

-----------------------------------------------------------------------------
(* Pairing.                                                                *)

LEMMA PurgedFits ==
    ASSUME AInv
    PROVE  /\ Purged \in [Tokens -> Token]
           /\ \A t \in Tokens:
                 /\ token[t].st \in {"redeemed", "gone"} => Purged[t].st \in {"redeemed", "gone"}
                 /\ Purged[t].st = "live" => token[t].st = "live"
                 /\ token[t].st = "new" => Purged[t].st = "new"
<1>1. [st |-> "gone", left |-> -1] \in Token
  BY AccessConstants DEF Token
<1>2. token \in [Tokens -> Token]
  BY DEF AInv, TypeOK
<1>3. Purged \in [Tokens -> Token]
  BY <1>1, <1>2 DEF Purged
<1>4. ASSUME NEW t \in Tokens
      PROVE  Purged[t] = token[t]
                \/ (token[t].st \in {"live", "redeemed"} /\ Purged[t] = [st |-> "gone", left |-> -1])
  BY DEF Purged
<1> QED
  BY <1>3, <1>4

(* A step that changes only tokens, and only such as no device came from.  *)
LEMMA TokenStep ==
    ASSUME AInv, token' \in [Tokens -> Token],
           \A t \in Tokens: token[t].st \in {"redeemed", "gone"} => token'[t].st \in {"redeemed", "gone"},
           UNCHANGED <<storeVars, device, cache, admitted, streaming, limitVars>>
    PROVE  AInv'
<1>1. UNCHANGED <<params, canary, key, secrets, device, cache, admitted, streaming, limit, wrongs>>
  BY DEF storeVars, limitVars
<1>2. AttemptsInv'
  BY <1>1, AttemptsKept DEF limitVars
<1>3. TypeOK'
  BY <1>1 DEF AInv, TypeOK, StoreTypeOK
<1>4. TokensUsed'
  BY <1>1 DEF AInv, TypeOK, TokensUsed, Device
<1>5. OneDevicePerToken' /\ CacheOutlivesByTTL'
  BY <1>1 DEF AInv, OneDevicePerToken, CacheOutlivesByTTL
<1> QED
  BY <1>2, <1>3, <1>4, <1>5 DEF AInv

LEMMA IssueSafe ==
    ASSUME AInv, NEW t \in Tokens, PostPairingIssue(t)
    PROVE  AInv'
<1>1. [st |-> "live", left |-> TokenTTL] \in Token
  BY AccessConstants DEF Token
<1>2. Purged \in [Tokens -> Token]
  BY PurgedFits
<1>3. token' = [Purged EXCEPT ![t] = [st |-> "live", left |-> TokenTTL]]
  BY DEF PostPairingIssue
<1>4. token' \in [Tokens -> Token]
  BY <1>1, <1>2, <1>3
<1>5. ASSUME NEW u \in Tokens, token[u].st \in {"redeemed", "gone"}
      PROVE  token'[u].st \in {"redeemed", "gone"}
  <2>1. u # t
    BY <1>5 DEF PostPairingIssue
  <2>2. token'[u] = Purged[u]
    BY <2>1, <1>2, <1>3
  <2> QED
    BY <2>2, <1>5, PurgedFits
<1> QED
  BY <1>4, <1>5, TokenStep DEF PostPairingIssue

LEMMA RefusedSafe ==
    ASSUME AInv, NEW t \in Tokens, RedeemRefused(t)
    PROVE  AInv'
BY PurgedFits, TokenStep DEF RedeemRefused

LEMMA RedeemSafe ==
    ASSUME AInv, NEW t \in Tokens, NEW d \in Devices, PostPairingRedeem(t, d)
    PROVE  AInv'
<1> USE AccessConstants
<1>1. Purged \in [Tokens -> Token] /\ Purged[t].st = "live" /\ token[t].st = "live"
  BY PurgedFits DEF PostPairingRedeem, Redeemable
<1>2. [st |-> "redeemed", left |-> Purged[t].left] \in Token
  BY <1>1 DEF Token
<1>3. token' = [Purged EXCEPT ![t] = [st |-> "redeemed", left |-> Purged[t].left]]
  BY DEF PostPairingRedeem, MarkRedeemed
<1>4. token' \in [Tokens -> Token]
  BY <1>1, <1>2, <1>3
<1>5. token'[t].st = "redeemed"
  BY <1>1, <1>3
<1>6. ASSUME NEW u \in Tokens, token[u].st \in {"redeemed", "gone"}
      PROVE  token'[u].st \in {"redeemed", "gone"}
  <2>1. u # t
    BY <1>6, <1>1
  <2>2. token'[u] = Purged[u]
    BY <2>1, <1>1, <1>3
  <2> QED
    BY <2>2, <1>6, PurgedFits
<1>7. CASE UNCHANGED device
  BY <1>4, <1>6, <1>7, TokenStep DEF PostPairingRedeem
<1>8. CASE device' = [device EXCEPT ![d] = [st |-> "paired", origin |-> t, since |-> 0]]
  <2>1. device \in [Devices -> Device]
    BY DEF AInv, TypeOK
  <2>2. [st |-> "paired", origin |-> t, since |-> 0] \in Device
    BY DEF Device
  <2>3. device' \in [Devices -> Device]
    BY <2>1, <2>2, <1>8
  <2>4. /\ device'[d].st = "paired" /\ device'[d].origin = t
        /\ \A e \in Devices: e # d => device'[e] = device[e]
    BY <2>1, <1>8
  <2>5. UNCHANGED <<params, canary, key, secrets, cache, admitted, streaming, limit, wrongs>>
    BY DEF PostPairingRedeem, storeVars, limitVars
  <2>6. TypeOK'
    BY <2>3, <2>5, <1>4 DEF AInv, TypeOK, StoreTypeOK
  <2>7. TokensUsed'
    BY <2>1, <2>4, <1>5, <1>6 DEF AInv, TokensUsed, Device
  <2>8. \A e \in Devices: e # d => device'[e].origin # t
    BY <2>4, <1>1 DEF AInv, TokensUsed
  <2>9. OneDevicePerToken'
    BY <2>4, <2>8 DEF AInv, OneDevicePerToken
  <2>10. CacheOutlivesByTTL'
    BY <2>4, <2>5 DEF AInv, CacheOutlivesByTTL
  <2>11. AttemptsInv'
    BY <2>5, AttemptsKept DEF limitVars
  <2> QED
    BY <2>6, <2>7, <2>9, <2>10, <2>11 DEF AInv
<1> QED
  BY <1>7, <1>8 DEF PostPairingRedeem

-----------------------------------------------------------------------------
(* Requests and the revocation.                                            *)

(* A step that changes only the cache and the requests.                    *)
LEMMA CacheStep ==
    ASSUME AInv, cache' \in [Devices -> -1..CacheTTL \union {NULL}], admitted' \in SUBSET Devices,
           streaming' \in SUBSET Devices,
           \A d \in Devices: device[d].st = "revoked" /\ cache'[d] # NULL => cache'[d] = cache[d],
           UNCHANGED <<storeVars, token, device, limitVars>>
    PROVE  AInv'
<1>1. UNCHANGED <<params, canary, key, secrets, token, device, limit, wrongs>>
  BY DEF storeVars, limitVars
<1>2. AttemptsInv'
  BY <1>1, AttemptsKept DEF limitVars
<1>3. TypeOK'
  BY <1>1 DEF AInv, TypeOK, StoreTypeOK
<1>4. TokensUsed' /\ OneDevicePerToken'
  BY <1>1 DEF AInv, TokensUsed, OneDevicePerToken
<1>5. CacheOutlivesByTTL'
  BY <1>1 DEF AInv, CacheOutlivesByTTL
<1> QED
  BY <1>2, <1>3, <1>4, <1>5 DEF AInv

LEMMA AdmitSafe ==
    ASSUME AInv, NEW d \in Devices, Admit(d)
    PROVE  AInv'
<1>1. /\ cache \in [Devices -> -1..CacheTTL \union {NULL}]
      /\ admitted \in SUBSET Devices /\ streaming \in SUBSET Devices
  BY DEF AInv, TypeOK
<1>2. CASE Cached(d)
  <2>1. cache' = cache
    BY <1>2 DEF Admit, AdmittedCache
  <2> QED
    BY <2>1, <1>1, CacheStep DEF Admit
<1>3. CASE ~Cached(d)
  <2>1. cache' = [cache EXCEPT ![d] = CacheTTL] /\ device[d].st = "paired"
    BY <1>3 DEF Admit, AdmittedCache, ValidInDb
  <2>2. CacheTTL \in -1..CacheTTL
    BY AccessConstants
  <2>3. cache' \in [Devices -> -1..CacheTTL \union {NULL}]
    BY <1>1, <2>1, <2>2
  <2>4. \A e \in Devices: device[e].st = "revoked" /\ cache'[e] # NULL => cache'[e] = cache[e]
    BY <1>1, <2>1
  <2> QED
    BY <2>3, <2>4, <1>1, CacheStep DEF Admit
<1> QED
  BY <1>2, <1>3

LEMMA RefuseSafe ==
    ASSUME AInv, NEW d \in Devices, Refuse(d)
    PROVE  AInv'
<1>1. /\ cache \in [Devices -> -1..CacheTTL \union {NULL}]
      /\ admitted \in SUBSET Devices /\ streaming \in SUBSET Devices
  BY DEF AInv, TypeOK
<1>2. cache' = [cache EXCEPT ![d] = NULL]
  BY DEF Refuse
<1>3. cache' \in [Devices -> -1..CacheTTL \union {NULL}]
  BY <1>1, <1>2
<1>4. \A e \in Devices: device[e].st = "revoked" /\ cache'[e] # NULL => cache'[e] = cache[e]
  BY <1>1, <1>2
<1> QED
  BY <1>1, <1>3, <1>4, CacheStep DEF Refuse

LEMMA ServeSafe ==
    ASSUME AInv, NEW d \in Devices, Serve(d) \/ EventsStream(d) \/ Disconnect(d)
    PROVE  AInv'
<1>1. /\ cache' = cache /\ cache' \in [Devices -> -1..CacheTTL \union {NULL}]
      /\ admitted' \in SUBSET Devices /\ streaming' \in SUBSET Devices
  BY DEF AInv, TypeOK, Serve, EventsStream, Disconnect
<1>2. UNCHANGED <<storeVars, token, device, limitVars>>
  BY DEF Serve, EventsStream, Disconnect
<1> QED
  BY <1>1, <1>2, CacheStep

LEMMA DeleteSafe ==
    ASSUME AInv, NEW c \in Devices, NEW d \in Devices, DeleteDevice(c, d)
    PROVE  AInv'
<1> USE AccessConstants
<1>1. UNCHANGED <<params, canary, key, secrets, token, cache, streaming, limit, wrongs>>
      /\ admitted' = admitted \ {c}
  BY DEF DeleteDevice, storeVars, limitVars
<1>2. AttemptsInv'
  BY <1>1, AttemptsKept DEF limitVars
<1>3. device \in [Devices -> Device]
  BY DEF AInv, TypeOK
<1>4. /\ device' \in [Devices -> Device]
      /\ \A e \in Devices: device'[e].origin = device[e].origin
      /\ \A e \in Devices: device'[e] = device[e] \/ device'[e].since = 0
  <2>1. CASE device[d].st = "revoked"
    BY <2>1, <1>3 DEF DeleteDevice
  <2>2. CASE device[d].st # "revoked"
    <3>1. device' = [device EXCEPT ![d] = [st |-> "revoked", origin |-> device[d].origin, since |-> 0]]
      BY <2>2 DEF DeleteDevice
    <3>2. [st |-> "revoked", origin |-> device[d].origin, since |-> 0] \in Device
      BY <1>3 DEF Device
    <3> QED
      BY <3>1, <3>2, <1>3
  <2> QED
    BY <2>1, <2>2
<1>5. TypeOK'
  BY <1>1, <1>4 DEF AInv, TypeOK, StoreTypeOK
<1>6. TokensUsed' /\ OneDevicePerToken'
  BY <1>1, <1>4 DEF AInv, TokensUsed, OneDevicePerToken
<1>7. ASSUME NEW e \in Devices, device'[e].st = "revoked", cache'[e] # NULL
      PROVE  cache'[e] + device'[e].since <= CacheTTL
  <2>1. cache'[e] = cache[e] /\ cache[e] \in -1..CacheTTL
    BY <1>1, <1>7 DEF AInv, TypeOK
  <2>2. CASE device'[e] = device[e]
    BY <2>1, <2>2, <1>7 DEF AInv, CacheOutlivesByTTL
  <2>3. CASE device'[e].since = 0
    BY <2>1, <2>3
  <2> QED
    BY <2>2, <2>3, <1>4
<1>8. CacheOutlivesByTTL'
  BY <1>7 DEF CacheOutlivesByTTL
<1> QED
  BY <1>2, <1>5, <1>6, <1>8 DEF AInv

LEMMA RestartSafe ==
    ASSUME AInv, Restart
    PROVE  AInv'
<1> USE AccessConstants
<1>1. StoreTypeOK'
  BY DEF AInv, TypeOK, StoreTypeOK, Restart, Lock, KeyOrNull
<1>2. [st |-> "gone", left |-> -1] \in Token
  BY DEF Token
<1>3. token' \in [Tokens -> Token]
  BY <1>2 DEF Restart, AInv, TypeOK
<1>4. \A t \in Tokens: token[t].st \in {"redeemed", "gone"} => token'[t].st \in {"redeemed", "gone"}
  BY DEF Restart
<1>5. device' = device /\ cache' = [d \in Devices |-> NULL] /\ admitted' = {}
      /\ streaming' = {}
      /\ limit' = [c \in Clients |-> NULL]
  BY DEF Restart
<1>6. \A c \in Clients: wrongs'[c] = NoWrongs
  BY DEF Restart
<1>7. wrongs' \in [Clients -> [0..Window -> Nat]]
  BY DEF Restart, NoWrongs
<1>8. \A c \in Clients: \A a \in 0..Window: wrongs'[c][a] = 0
  BY <1>6 DEF NoWrongs
<1>9. TypeOK'
  BY <1>1, <1>3, <1>5, <1>7 DEF AInv, TypeOK
<1>10. TokensUsed' /\ OneDevicePerToken'
  BY <1>4, <1>5 DEF AInv, TypeOK, TokensUsed, OneDevicePerToken, Device
<1>11. CacheOutlivesByTTL'
  BY <1>5 DEF CacheOutlivesByTTL
<1>12. \A c \in Clients: limit'[c] = NULL
  BY <1>5
<1>13. Window \in 0..Window
  OBVIOUS
<1>14. AttemptsInv'
  BY <1>8, <1>12, <1>13 DEF AttemptsInv, Cumulative, EntryCovers
<1> QED
  BY <1>9, <1>10, <1>11, <1>14 DEF AInv

-----------------------------------------------------------------------------
LEMMA StepSafe == AInv /\ [Next]_vars => AInv'
<1> SUFFICES ASSUME AInv, [Next]_vars PROVE AInv'
  OBVIOUS
<1>1. CASE TimePasses
  BY <1>1, TimeSafe
<1>2. ASSUME NEW t \in Tokens, PostPairingIssue(t) \/ RedeemRefused(t)
      PROVE  AInv'
  BY <1>2, IssueSafe, RefusedSafe
<1>3. ASSUME NEW t \in Tokens, NEW d \in Devices, PostPairingRedeem(t, d)
      PROVE  AInv'
  BY <1>3, RedeemSafe
<1>4. ASSUME NEW d \in Devices, Admit(d) \/ Refuse(d) \/ Serve(d) \/ EventsStream(d) \/ Disconnect(d)
      PROVE  AInv'
  BY <1>4, AdmitSafe, RefuseSafe, ServeSafe
<1>5. ASSUME NEW c \in Devices, NEW d \in Devices, DeleteDevice(c, d)
      PROVE  AInv'
  BY <1>5, DeleteSafe
<1>6. ASSUME NEW c \in Clients, AttemptRefused(c)
      PROVE  AInv'
  BY <1>6, RefusedAttempts
<1>7. ASSUME NEW c \in Clients, NEW p \in Passphrases, AttemptWrong(c, p) \/ AttemptRight(c, p)
      PROVE  AInv'
  BY <1>7, WrongAttempts, RightAttempts
<1>8. CASE Restart
  BY <1>8, RestartSafe
<1>9. CASE UNCHANGED vars
  <2>1. UNCHANGED <<storeVars, device, cache, admitted, streaming, limitVars>> /\ token' = token
    BY <1>9 DEF vars, storeVars, limitVars
  <2> QED
    BY <2>1, TokenStep DEF AInv, TypeOK
<1> QED
  BY <1>1, <1>2, <1>3, <1>4, <1>5, <1>6, <1>7, <1>8, <1>9 DEF Next

(* A token pairs one device, a revoked device's cached access ends with    *)
(* the lifetime of the cache, and no client has more than two windows'     *)
(* worth of wrong passphrases judged within one.                           *)
THEOREM AccessSafe == Spec => []AccessInv
<1>1. Spec => []AInv
  BY InitAInv, StepSafe, PTL DEF Spec
<1> QED
  BY <1>1, AInvImplies, PTL

(* The middleware admits nobody more than CacheTTL after the revocation.   *)
THEOREM RevocationSafe == Spec => RevocationTakesEffect
<1>1. ASSUME AInv, [Next]_vars, NEW d \in Devices, d \in admitted' \ admitted, device[d].st = "revoked"
      PROVE  device[d].since <= CacheTTL
  <2>1. Admit(d)
    <3>1. \A e \in Devices: Admit(e) => admitted' = admitted \union {e}
      BY DEF Admit
    <3>2. ~(\E e \in Devices: Admit(e)) => admitted' \subseteq admitted
      BY <1>1 DEF Next, vars, TimePasses, PostPairingIssue, RedeemRefused, PostPairingRedeem, Refuse,
            Serve, EventsStream, Disconnect, DeleteDevice, AttemptRefused, AttemptWrong, AttemptRight, Restart, accessVars
    <3> QED
      BY <3>1, <3>2, <1>1
  <2>2. Cached(d)
    BY <2>1, <1>1 DEF Admit, ValidInDb
  <2>3. cache[d] # NULL /\ cache[d] >= 0 /\ cache[d] \in -1..CacheTTL
    BY <2>2, <1>1 DEF Cached, AInv, TypeOK
  <2>4. cache[d] + device[d].since <= CacheTTL
    BY <2>3, <1>1 DEF AInv, CacheOutlivesByTTL
  <2>5. device[d].since \in 0..CacheTTL + 1
    BY <1>1 DEF AInv, TypeOK, Device
  <2> QED
    BY <2>3, <2>4, <2>5, AccessConstants
<1>2. AInv /\ [Next]_vars =>
        [\A d \in Devices: d \in admitted' \ admitted /\ device[d].st = "revoked"
                              => device[d].since <= CacheTTL]_vars
  BY <1>1
<1>3. Spec => []AInv
  BY InitAInv, StepSafe, PTL DEF Spec
<1> QED
  BY <1>2, <1>3, PTL DEF Spec, RevocationTakesEffect
=============================================================================
