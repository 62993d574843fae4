---------------------------- MODULE HoldingsProofs -----------------------------
(***************************************************************************)
(* Theorems about Holdings, for all sets of ids, texts and items and any *)
(* number of descriptors and faults.  The invariant adds to HoldingsInv    *)
(* what ties the handler to its two commits: a holding whose item is still *)
(* to be emitted is stored, and has no risk but the one of that item; and  *)
(* only Accounts are without descriptors.                                  *)
(***************************************************************************)
EXTENDS Holdings, TLAPS

DescShape == \A h \in Stored: holding[h].type = "account" <=> holding[h].descs = <<>>

(* The two risks a row can show, as RiskIsReported has them.               *)
SeedRisk(r) == r.onDevice
MetadataRisk(r) == r.present = "no" \/ (r.vault = "signers" /\ ~r.descs[1].origin)

PendingKnown ==
    pending # NULL =>
        /\ pending.holding \in Stored
        /\ SeedRisk(holding[pending.holding]) => pending.type = "seed_backup"
        /\ MetadataRisk(holding[pending.holding]) => pending.type = "missing_signing_metadata"

Unique ==
    \A g, h \in Stored:
        \A m \in 1..Len(holding[g].descs), n \in 1..Len(holding[h].descs):
            holding[g].descs[m] = holding[h].descs[n] => g = h /\ m = n

ItemsStored == \A i \in Items: item[i] # NULL => item[i].holding \in Stored

Reported ==
    \A h \in Stored:
        h \notin silent /\ ~(pending # NULL /\ pending.holding = h) =>
            /\ SeedRisk(holding[h]) => HasItem(h, "seed_backup")
            /\ MetadataRisk(holding[h]) => HasItem(h, "missing_signing_metadata")

RowInv == TypeOK /\ DescShape /\ Unique /\ UnreadableOnlyByFix

HInv == RowInv /\ ItemsStored /\ PendingKnown /\ Reported

-----------------------------------------------------------------------------
(* What a step does to the rows.                                           *)

LEMMA StoredRow ==
    ASSUME TypeOK, NEW h \in Stored
    PROVE  h \in Ids /\ holding[h] \in Holding
BY DEF TypeOK, Stored

(* One row is written.                                                     *)
LEMMA OneRow ==
    ASSUME TypeOK, NEW h \in Ids, NEW r \in Holding, holding' = [holding EXCEPT ![h] = r]
    PROVE  /\ holding' \in [Ids -> Holding \union {NULL}]
           /\ holding'[h] = r
           /\ \A g \in Ids: g # h => holding'[g] = holding[g]
           /\ Stored' = Stored \union {h}
<1>1. r # NULL
  BY HoldingsConstants
<1>2. /\ holding' \in [Ids -> Holding \union {NULL}]
      /\ holding'[h] = r
      /\ \A g \in Ids: g # h => holding'[g] = holding[g]
  BY DEF TypeOK
<1> QED BY <1>1, <1>2 DEF Stored

(* The row parts of the invariant survive a row that is well formed, has   *)
(* no descriptor twice and none of another holding.                        *)
LEMMA OneRowInv ==
    ASSUME RowInv, NEW h \in Ids, NEW r \in Holding, holding' = [holding EXCEPT ![h] = r],
           r.type = "account" <=> r.descs = <<>>,
           Constructs(r) \/ MarkedByFix(r),
           \A m, n \in 1..Len(r.descs): r.descs[m] = r.descs[n] => m = n,
           \A g \in Stored: g # h =>
               \A m \in 1..Len(holding[g].descs), n \in 1..Len(r.descs):
                   holding[g].descs[m] # r.descs[n]
    PROVE  DescShape' /\ Unique' /\ UnreadableOnlyByFix'
<1>1. /\ holding'[h] = r
      /\ \A g \in Ids: g # h => holding'[g] = holding[g]
      /\ Stored' = Stored \union {h}
  BY OneRow DEF RowInv
<1>2. \A g \in Stored': g = h \/ (g # h /\ g \in Stored /\ g \in Ids /\ holding'[g] = holding[g])
  BY <1>1, StoredRow DEF RowInv
<1>3. DescShape'
  BY <1>1, <1>2 DEF DescShape, RowInv
<1>4. UnreadableOnlyByFix'
  <2> SUFFICES ASSUME NEW g \in Stored'
               PROVE  Constructs(holding'[g]) \/ MarkedByFix(holding'[g])
    BY DEF UnreadableOnlyByFix
  <2> QED BY <1>1, <1>2 DEF UnreadableOnlyByFix, RowInv
<1>5. Unique'
  <2> SUFFICES ASSUME NEW f \in Stored', NEW g \in Stored',
                      NEW m \in 1..Len(holding'[f].descs), NEW n \in 1..Len(holding'[g].descs),
                      holding'[f].descs[m] = holding'[g].descs[n]
               PROVE  f = g /\ m = n
    BY DEF Unique
  <2>1. CASE f = h /\ g = h
    BY <1>1, <2>1
  <2>2. CASE f = h /\ g # h
    BY <1>1, <1>2, <2>2
  <2>3. CASE f # h /\ g = h
    BY <1>1, <1>2, <2>3
  <2>4. CASE f # h /\ g # h
    <3>1. f \in Stored /\ g \in Stored /\ holding'[f] = holding[f] /\ holding'[g] = holding[g]
      BY <1>2, <2>4
    <3> QED BY <3>1 DEF Unique, RowInv
  <2> QED BY <2>1, <2>2, <2>3, <2>4
<1> QED BY <1>3, <1>4, <1>5

(* Items are only added, or change their state.                            *)
LEMMA ReportedStays ==
    ASSUME TypeOK, Reported, NEW h \in Ids, NEW r \in Holding,
           holding' = [holding EXCEPT ![h] = r],
           UNCHANGED <<pending, silent>>,
           \A g \in Ids, t \in ItemTypes: HasItem(g, t) => HasItem(g, t)',
           h \in Stored,
           SeedRisk(r) => SeedRisk(holding[h]),
           MetadataRisk(r) => MetadataRisk(holding[h])
    PROVE  Reported'
<1>1. /\ holding'[h] = r
      /\ \A g \in Ids: g # h => holding'[g] = holding[g]
      /\ Stored' = Stored \union {h}
  BY OneRow
<1> SUFFICES ASSUME NEW g \in Stored', g \notin silent, ~(pending # NULL /\ pending.holding = g)
             PROVE  /\ SeedRisk(holding'[g]) => HasItem(g, "seed_backup")'
                    /\ MetadataRisk(holding'[g]) => HasItem(g, "missing_signing_metadata")'
  BY DEF Reported
<1>2. g \in Stored /\ g \in Ids
  BY <1>1, StoredRow
<1>3. /\ SeedRisk(holding'[g]) => SeedRisk(holding[g])
      /\ MetadataRisk(holding'[g]) => MetadataRisk(holding[g])
  BY <1>1, <1>2
<1>4. /\ SeedRisk(holding[g]) => HasItem(g, "seed_backup")
      /\ MetadataRisk(holding[g]) => HasItem(g, "missing_signing_metadata")
  BY <1>2 DEF Reported
<1> QED BY <1>2, <1>3, <1>4 DEF ItemTypes

-----------------------------------------------------------------------------
(* Sequences of descriptors.                                               *)

LEMMA OneDesc ==
    ASSUME NEW d \in Descriptor
    PROVE  /\ <<d>> \in Seq(Descriptor)
           /\ Len(<<d>>) = 1
           /\ <<d>>[1] = d
           /\ <<d>> # <<>>
OBVIOUS

LEMMA AppendedDesc ==
    ASSUME NEW s \in Seq(Descriptor), NEW d \in Descriptor
    PROVE  /\ Append(s, d) \in Seq(Descriptor)
           /\ Len(Append(s, d)) = Len(s) + 1
           /\ \A n \in 1..Len(s): Append(s, d)[n] = s[n]
           /\ Append(s, d)[Len(s) + 1] = d
           /\ Append(s, d) # <<>>
OBVIOUS

LEMMA FirstDesc ==
    ASSUME NEW s \in Seq(Descriptor), s # <<>>, NEW d \in Descriptor
    PROVE  /\ [s EXCEPT ![1] = d] \in Seq(Descriptor)
           /\ Len([s EXCEPT ![1] = d]) = Len(s)
           /\ [s EXCEPT ![1] = d][1] = d
           /\ \A n \in 1..Len(s): n # 1 => [s EXCEPT ![1] = d][n] = s[n]
           /\ [s EXCEPT ![1] = d] # <<>>
           /\ 1 \in 1..Len(s)
OBVIOUS

-----------------------------------------------------------------------------
(* Creation.                                                               *)

LEMMA AccountRowType ==
    ASSUME NEW claim \in Claims
    PROVE  LET r == AccountRow(claim)
           IN  /\ r \in Holding
               /\ r.type = "account" /\ r.descs = <<>> /\ r.present = "unset"
               /\ r.vault = "none" /\ r.onDevice = FALSE
<1>1. <<>> \in Seq(Descriptor)
  OBVIOUS
<1> QED BY <1>1 DEF AccountRow, Holding, Types, VaultData

LEMMA CreateHoldingInv ==
    ASSUME HInv, NEW h \in Ids, NEW r \in Holding, NEW d \in Descriptor,
           NEW emits \in BOOLEAN, NEW type \in ItemTypes,
           r.type # "account", r.descs = <<d>>,
           SeedRisk(r) => emits /\ type = "seed_backup",
           MetadataRisk(r) => emits /\ type = "missing_signing_metadata",
           CreateHolding(h, r, emits, type)
    PROVE  HInv'
<1> USE DEF HInv, RowInv
<1>1. /\ pending = NULL /\ holding[h] = NULL /\ ExpressionFree(d) /\ Constructs(r)
      /\ holding' = [holding EXCEPT ![h] = r]
      /\ pending' = IF emits THEN [holding |-> h, type |-> type] ELSE NULL
      /\ silent' = silent \ {h}
      /\ item' = item /\ invoiced' = invoiced /\ faults' = faults
  BY OneDesc DEF CreateHolding, Idle
<1>2. /\ holding' \in [Ids -> Holding \union {NULL}]
      /\ holding'[h] = r
      /\ \A g \in Ids: g # h => holding'[g] = holding[g]
      /\ Stored' = Stored \union {h}
  BY <1>1, OneRow
<1>3. TypeOK'
  <2>1. pending' \in Pending \union {NULL}
    BY <1>1 DEF Pending
  <2> QED BY <1>1, <1>2, <2>1 DEF TypeOK
<1>4. DescShape' /\ Unique' /\ UnreadableOnlyByFix'
  <2>1. \A m, n \in 1..Len(r.descs): r.descs[m] = r.descs[n] => m = n
    BY OneDesc
  <2>2. \A g \in Stored: \A m \in 1..Len(holding[g].descs), n \in 1..Len(r.descs):
            holding[g].descs[m] # r.descs[n]
    BY <1>1, OneDesc DEF ExpressionFree
  <2>3. r.descs # <<>>
    BY OneDesc
  <2> QED BY <1>1, <2>1, <2>2, <2>3, OneRowInv
<1>5. ItemsStored'
  BY <1>1, <1>2 DEF ItemsStored
<1>6. PendingKnown'
  <2>1. CASE emits
    <3>1. pending' = [holding |-> h, type |-> type]
      BY <1>1, <2>1
    <3>2. pending'.holding = h /\ pending'.type = type
      BY <3>1
    <3> QED BY <1>2, <3>2 DEF PendingKnown
  <2>2. CASE ~emits
    BY <1>1, <2>2 DEF PendingKnown
  <2> QED BY <2>1, <2>2
<1>7. Reported'
  <2> SUFFICES ASSUME NEW g \in Stored', g \notin silent',
                      ~(pending' # NULL /\ pending'.holding = g)
               PROVE  /\ SeedRisk(holding'[g]) => HasItem(g, "seed_backup")'
                      /\ MetadataRisk(holding'[g]) => HasItem(g, "missing_signing_metadata")'
    BY DEF Reported
  <2>1. CASE g = h
    <3>1. ~emits
      <4> SUFFICES ASSUME emits PROVE FALSE
        OBVIOUS
      <4>1. pending' = [holding |-> h, type |-> type]
        BY <1>1
      <4>2. pending' \in Pending /\ pending'.holding = h
        BY <4>1 DEF Pending
      <4> QED BY <2>1, <4>2, HoldingsConstants
    <3> QED BY <1>2, <2>1, <3>1
  <2>2. CASE g # h
    <3>1. g \in Stored /\ g \in Ids /\ holding'[g] = holding[g] /\ g \notin silent
      BY <1>1, <1>2, <2>2, StoredRow
    <3>2. /\ SeedRisk(holding[g]) => HasItem(g, "seed_backup")
          /\ MetadataRisk(holding[g]) => HasItem(g, "missing_signing_metadata")
      BY <1>1, <3>1 DEF Reported
    <3> QED BY <1>1, <3>1, <3>2 DEF HasItem
  <2> QED BY <2>1, <2>2
<1> QED BY <1>3, <1>4, <1>5, <1>6, <1>7

LEMMA CreateNextInv ==
    ASSUME HInv, NEW h \in Ids, CreateNext(h)
    PROVE  HInv'
<1>1. ASSUME NEW claim \in Claims, NEW d \in Descriptor, NEW onDevice \in BOOLEAN,
             CreatePurse(h, claim, d, onDevice)
      PROVE  HInv'
  <2>1. PICK r \in Holding: r = Row("purse", claim, d, FALSE, "unset", "none", onDevice)
    BY OneDesc DEF Row, Holding, Types, VaultData
  <2>2. /\ r.type = "purse" /\ r.descs = <<d>> /\ r.present = "unset"
        /\ r.vault = "none" /\ r.onDevice = onDevice
    BY <2>1 DEF Row
  <2>3. CreateHolding(h, r, onDevice, "seed_backup")
    BY <1>1, <2>1 DEF CreatePurse
  <2> QED BY <2>2, <2>3, CreateHoldingInv DEF SeedRisk, MetadataRisk, ItemTypes
<1>2. ASSUME NEW claim \in Claims, NEW d \in Descriptor, NEW label \in BOOLEAN,
             NEW present \in {"unset", "no", "yes"}, CreateStrongbox(h, claim, d, label, present)
      PROVE  HInv'
  <2>1. PICK r \in Holding: r = Row("strongbox", claim, d, label, present, "none", FALSE)
    BY OneDesc DEF Row, Holding, Types, VaultData
  <2>2. /\ r.type = "strongbox" /\ r.descs = <<d>> /\ r.present = present
        /\ r.vault = "none" /\ r.onDevice = FALSE
    BY <2>1 DEF Row
  <2>3. PICK emits \in BOOLEAN: emits = (present = "no")
    OBVIOUS
  <2>4. CreateHolding(h, r, emits, "missing_signing_metadata")
    BY <1>2, <2>1, <2>3 DEF CreateStrongbox
  <2> QED BY <2>2, <2>3, <2>4, CreateHoldingInv DEF SeedRisk, MetadataRisk, ItemTypes
<1>3. ASSUME NEW claim \in Claims, NEW d \in Descriptor, CreateVault(h, claim, d)
      PROVE  HInv'
  <2>0. PICK v \in VaultData: v = SignersOf(d)
    BY DEF SignersOf, VaultData
  <2>1. PICK r \in Holding: r = Row("vault", claim, d, FALSE, "unset", v, FALSE)
    BY OneDesc DEF Row, Holding, Types
  <2>2. /\ r.type = "vault" /\ r.descs = <<d>> /\ r.present = "unset"
        /\ r.onDevice = FALSE /\ r.descs[1] = d
    BY <2>1 DEF Row
  <2>3. PICK emits \in BOOLEAN: emits = ~d.origin
    OBVIOUS
  <2>4. CreateHolding(h, r, emits, "missing_signing_metadata")
    BY <1>3, <2>0, <2>1, <2>3 DEF CreateVault
  <2> QED BY <2>2, <2>3, <2>4, CreateHoldingInv DEF SeedRisk, MetadataRisk, ItemTypes
<1>4. ASSUME NEW claim \in Claims, CreateAccountHolding(h, claim)
      PROVE  HInv'
  <2> USE DEF HInv, RowInv
  <2>1. PICK r \in Holding: r = AccountRow(claim)
    BY AccountRowType
  <2>2. /\ r.type = "account" /\ r.descs = <<>> /\ r.present = "unset"
        /\ r.vault = "none" /\ r.onDevice = FALSE
    BY <2>1 DEF AccountRow
  <2>3. /\ pending = NULL /\ holding[h] = NULL /\ Constructs(r)
        /\ holding' = [holding EXCEPT ![h] = r]
        /\ silent' = silent \ {h}
        /\ pending' = pending /\ item' = item /\ invoiced' = invoiced /\ faults' = faults
    BY <1>4, <2>1 DEF CreateAccountHolding, Idle
  <2>4. /\ holding' \in [Ids -> Holding \union {NULL}]
        /\ holding'[h] = r
        /\ \A g \in Ids: g # h => holding'[g] = holding[g]
        /\ Stored' = Stored \union {h}
    BY <2>3, OneRow
  <2>5. TypeOK'
    BY <2>3, <2>4 DEF TypeOK
  <2>6. 1..Len(r.descs) = {}
    BY <2>2
  <2>7. DescShape' /\ Unique' /\ UnreadableOnlyByFix'
    BY <2>2, <2>3, <2>6, OneRowInv
  <2>8. ItemsStored' /\ PendingKnown'
    BY <2>3, <2>4 DEF ItemsStored, PendingKnown
  <2>9. Reported'
    <3> SUFFICES ASSUME NEW g \in Stored', g \notin silent'
                 PROVE  /\ SeedRisk(holding'[g]) => HasItem(g, "seed_backup")'
                        /\ MetadataRisk(holding'[g]) => HasItem(g, "missing_signing_metadata")'
      BY DEF Reported
    <3>1. CASE g = h
      BY <2>2, <2>4, <3>1 DEF SeedRisk, MetadataRisk
    <3>2. CASE g # h
      <4>1. g \in Stored /\ holding'[g] = holding[g] /\ g \notin silent
        BY <2>3, <2>4, <3>2, StoredRow
      <4>2. /\ SeedRisk(holding[g]) => HasItem(g, "seed_backup")
            /\ MetadataRisk(holding[g]) => HasItem(g, "missing_signing_metadata")
        BY <2>3, <4>1 DEF Reported
      <4> QED BY <2>3, <4>1, <4>2 DEF HasItem
    <3> QED BY <3>1, <3>2
  <2> QED BY <2>5, <2>7, <2>8, <2>9
<1> QED BY <1>1, <1>2, <1>3, <1>4 DEF CreateNext

-----------------------------------------------------------------------------
(* Changes of a stored row.                                                *)

(* A row in place of a stored one, with items that stay or change state,   *)
(* keeps the parts that look at items and at the handler.                  *)
LEMMA RowReplaced ==
    ASSUME HInv, NEW h \in Stored, NEW r \in Holding, pending = NULL,
           holding' = [holding EXCEPT ![h] = r],
           UNCHANGED <<invoiced, pending, faults, silent>>,
           item' \in [Items -> Item \union {NULL}],
           \A i \in Items: item[i] = NULL <=> item'[i] = NULL,
           \A i \in Items: item[i] # NULL =>
               item'[i].holding = item[i].holding /\ item'[i].type = item[i].type,
           SeedRisk(r) => SeedRisk(holding[h]),
           MetadataRisk(r) => MetadataRisk(holding[h]),
           DescShape', Unique', UnreadableOnlyByFix'
    PROVE  HInv'
<1> USE DEF HInv, RowInv
<1>1. h \in Ids
  BY StoredRow
<1>2. /\ holding' \in [Ids -> Holding \union {NULL}]
      /\ Stored' = Stored
  <2>1. holding' \in [Ids -> Holding \union {NULL}] /\ Stored' = Stored \union {h}
    BY <1>1, OneRow
  <2>2. Stored \union {h} = Stored
    OBVIOUS
  <2> QED BY <2>1, <2>2
<1>3. TypeOK'
  BY <1>2 DEF TypeOK
<1>4. ItemsStored' /\ PendingKnown'
  BY <1>2 DEF ItemsStored, PendingKnown
<1>5. \A g \in Ids, t \in ItemTypes: HasItem(g, t) => HasItem(g, t)'
  BY DEF HasItem
<1>6. Reported'
  BY <1>1, <1>5, ReportedStays
<1> QED BY <1>3, <1>4, <1>6

LEMMA ChangesInv ==
    ASSUME HInv, NEW h \in Stored, NEW r \in Holding, Changes(h, r),
           r.descs = holding[h].descs,
           r.type = "account" <=> holding[h].type = "account",
           SeedRisk(r) => SeedRisk(holding[h]),
           MetadataRisk(r) => MetadataRisk(holding[h])
    PROVE  HInv'
<1> USE DEF HInv, RowInv
<1>1. h \in Ids
  BY StoredRow
<1>2. /\ pending = NULL /\ Constructs(r) /\ holding' = [holding EXCEPT ![h] = r]
      /\ UNCHANGED <<item, invoiced, pending, faults, silent>>
  BY DEF Changes, Idle
<1>3. DescShape' /\ Unique' /\ UnreadableOnlyByFix'
  <2>1. r.type = "account" <=> r.descs = <<>>
    BY DEF DescShape
  <2>2. /\ \A m, n \in 1..Len(r.descs): r.descs[m] = r.descs[n] => m = n
        /\ \A g \in Stored: g # h =>
               \A m \in 1..Len(holding[g].descs), n \in 1..Len(r.descs):
                   holding[g].descs[m] # r.descs[n]
    BY DEF Unique
  <2> QED BY <1>1, <1>2, <2>1, <2>2, OneRowInv
<1>4. item' \in [Items -> Item \union {NULL}] /\ item' = item
  BY <1>2 DEF TypeOK
<1> QED BY <1>2, <1>3, <1>4, RowReplaced

LEMMA PatchesInv ==
    ASSUME HInv, NEW h \in Ids,
           \/ \E claim \in Claims: PatchDeclaredSecurity(h, claim)
           \/ \E b \in BOOLEAN: PatchSigningDeviceLabel(h, b) \/ PatchRecoverySetupNotes(h, b)
           \/ \E type \in Types: ChangeHoldingType(h, type)
    PROVE  HInv'
<1>1. ASSUME NEW claim \in Claims, PatchDeclaredSecurity(h, claim)
      PROVE  HInv'
  <2>1. h \in Stored /\ holding[h] \in Holding
    BY <1>1, StoredRow DEF PatchDeclaredSecurity, Changes, HInv, RowInv
  <2>2. PICK r \in Holding: r = [holding[h] EXCEPT !.claim = claim]
    BY <2>1 DEF Holding
  <2>3. /\ r.descs = holding[h].descs /\ r.type = holding[h].type
        /\ r.onDevice = holding[h].onDevice /\ r.present = holding[h].present
        /\ r.vault = holding[h].vault
    BY <2>1, <2>2 DEF Holding
  <2>4. Changes(h, r)
    BY <1>1, <2>2 DEF PatchDeclaredSecurity
  <2> QED BY <2>1, <2>3, <2>4, ChangesInv DEF SeedRisk, MetadataRisk
<1>2. ASSUME NEW b \in BOOLEAN, PatchSigningDeviceLabel(h, b)
      PROVE  HInv'
  <2>1. h \in Stored /\ holding[h] \in Holding
    BY <1>2, StoredRow DEF PatchSigningDeviceLabel, HInv, RowInv
  <2>2. PICK r \in Holding: r = [holding[h] EXCEPT !.label = b]
    BY <2>1 DEF Holding
  <2>3. /\ r.descs = holding[h].descs /\ r.type = holding[h].type
        /\ r.onDevice = holding[h].onDevice /\ r.present = holding[h].present
        /\ r.vault = holding[h].vault
    BY <2>1, <2>2 DEF Holding
  <2>4. Changes(h, r)
    BY <1>2, <2>2 DEF PatchSigningDeviceLabel
  <2> QED BY <2>1, <2>3, <2>4, ChangesInv DEF SeedRisk, MetadataRisk
<1>3. ASSUME NEW b \in BOOLEAN, PatchRecoverySetupNotes(h, b)
      PROVE  HInv'
  <2>1. h \in Stored /\ holding[h] \in Holding
    BY <1>3, StoredRow DEF PatchRecoverySetupNotes, HInv, RowInv
  <2>2. PICK v \in VaultData: v = VaultNotes(holding[h], b)
    BY DEF VaultNotes, VaultData
  <2>3. v = "signers" => holding[h].vault = "signers"
    BY <2>2 DEF VaultNotes
  <2>4. PICK r \in Holding: r = [holding[h] EXCEPT !.vault = v]
    BY <2>1 DEF Holding
  <2>5. /\ r.descs = holding[h].descs /\ r.type = holding[h].type
        /\ r.onDevice = holding[h].onDevice /\ r.present = holding[h].present
        /\ r.vault = v
    BY <2>1, <2>4 DEF Holding
  <2>6. Changes(h, r)
    BY <1>3, <2>2, <2>4 DEF PatchRecoverySetupNotes
  <2> QED BY <2>1, <2>3, <2>5, <2>6, ChangesInv DEF SeedRisk, MetadataRisk
<1>4. ASSUME NEW type \in Types, ChangeHoldingType(h, type)
      PROVE  HInv'
  <2>1. h \in Stored /\ holding[h] \in Holding
    BY <1>4, StoredRow DEF ChangeHoldingType, HInv, RowInv
  <2>2. PICK r \in Holding: r = [holding[h] EXCEPT !.type = type]
    BY <2>1 DEF Holding
  <2>3. /\ r.descs = holding[h].descs /\ r.type = type
        /\ r.onDevice = holding[h].onDevice /\ r.present = holding[h].present
        /\ r.vault = holding[h].vault
    BY <2>1, <2>2 DEF Holding
  <2>4. type # "account" /\ holding[h].type # "account"
    BY <1>4, <2>1 DEF ChangeHoldingType, HInv, RowInv, DescShape
  <2>5. Changes(h, r)
    BY <1>4, <2>2 DEF ChangeHoldingType, Retyped
  <2> QED BY <2>1, <2>3, <2>4, <2>5, ChangesInv DEF SeedRisk, MetadataRisk
<1> QED BY <1>1, <1>2, <1>3, <1>4

(* Constructs and the mark, for rows that only differ in descriptors.      *)
LEMMA SameRules ==
    ASSUME NEW r \in Holding, NEW s \in Holding, Constructs(r) \/ MarkedByFix(r),
           s.type = r.type, s.claim = r.claim, s.provider = r.provider, s.label = r.label,
           s.present = r.present, s.vault = r.vault,
           r.type # "account", s.descs # <<>>
    PROVE  Constructs(s) \/ MarkedByFix(s)
BY DEF Constructs, MarkedByFix, SelfCustodyRules, NoStrongboxMetadata, NoVaultMetadata,
       ValidVaultMetadata

LEMMA AttachInv ==
    ASSUME HInv, NEW h \in Ids, NEW d \in Descriptor, AttachDescriptor(h, d)
    PROVE  HInv'
<1> USE DEF HInv, RowInv
<1>1. h \in Stored /\ holding[h] \in Holding /\ holding[h].type # "account"
  BY StoredRow DEF AttachDescriptor
<1>2. holding[h].descs \in Seq(Descriptor) /\ holding[h].descs # <<>>
  BY <1>1 DEF Holding, DescShape
<1>3. PICK s \in Seq(Descriptor): s = Append(holding[h].descs, d)
  BY <1>2, AppendedDesc
<1>4. /\ Len(s) = Len(holding[h].descs) + 1
      /\ \A n \in 1..Len(holding[h].descs): s[n] = holding[h].descs[n]
      /\ s[Len(holding[h].descs) + 1] = d
      /\ s # <<>>
      /\ Len(holding[h].descs) \in Nat
      /\ s[1] = holding[h].descs[1]
  BY <1>2, <1>3, AppendedDesc
<1>5. PICK r \in Holding: r = [holding[h] EXCEPT !.descs = s]
  BY <1>1 DEF Holding
<1>6. /\ r.descs = s /\ r.type = holding[h].type
      /\ r.onDevice = holding[h].onDevice /\ r.present = holding[h].present
      /\ r.vault = holding[h].vault /\ r.claim = holding[h].claim
      /\ r.provider = holding[h].provider /\ r.label = holding[h].label
  BY <1>1, <1>5 DEF Holding
<1>7. /\ pending = NULL /\ ExpressionFree(d) /\ holding' = [holding EXCEPT ![h] = r]
      /\ UNCHANGED <<item, invoiced, pending, faults, silent>>
  BY <1>3, <1>5 DEF AttachDescriptor, Idle
<1>8. \A n \in 1..Len(s): s[n] = d \/ (n \in 1..Len(holding[h].descs) /\ s[n] = holding[h].descs[n])
  BY <1>4
<1>9. /\ \A n \in 1..Len(holding[h].descs): holding[h].descs[n] # d
      /\ \A g \in Stored: \A m \in 1..Len(holding[g].descs): holding[g].descs[m] # d
  BY <1>1, <1>7 DEF ExpressionFree
<1>10. \A m, n \in 1..Len(r.descs): r.descs[m] = r.descs[n] => m = n
  <2> SUFFICES ASSUME NEW m \in 1..Len(s), NEW n \in 1..Len(s), s[m] = s[n]
               PROVE  m = n
    BY <1>6
  <2>1. CASE m \in 1..Len(holding[h].descs) /\ n \in 1..Len(holding[h].descs)
    BY <1>1, <1>4, <2>1 DEF Unique
  <2>2. CASE m \notin 1..Len(holding[h].descs) \/ n \notin 1..Len(holding[h].descs)
    <3>1. PICK k \in Nat: k = Len(holding[h].descs) /\ Len(s) = k + 1 /\ s[k + 1] = d
      BY <1>4
    <3>2. \A i \in 1..k: s[i] # d
      BY <1>4, <1>9, <3>1
    <3>3. \A i \in 1..(k + 1): i \notin 1..k => i = k + 1
      OBVIOUS
    <3>4. CASE m \notin 1..k
      BY <3>1, <3>2, <3>3, <3>4
    <3>5. CASE n \notin 1..k
      BY <3>1, <3>2, <3>3, <3>5
    <3> QED BY <2>2, <3>1, <3>4, <3>5
  <2> QED BY <2>1, <2>2
<1>11. \A g \in Stored: g # h =>
          \A m \in 1..Len(holding[g].descs), n \in 1..Len(r.descs):
              holding[g].descs[m] # r.descs[n]
  BY <1>1, <1>6, <1>8, <1>9 DEF Unique
<1>12. Constructs(r) \/ MarkedByFix(r)
  <2>1. Constructs(holding[h]) \/ MarkedByFix(holding[h])
    BY <1>1 DEF UnreadableOnlyByFix
  <2> QED BY <1>1, <1>4, <1>6, <2>1, SameRules
<1>13. DescShape' /\ Unique' /\ UnreadableOnlyByFix'
  BY <1>1, <1>4, <1>6, <1>7, <1>10, <1>11, <1>12, OneRowInv
<1>14. item' \in [Items -> Item \union {NULL}] /\ item' = item
  BY <1>7 DEF TypeOK
<1>15. (SeedRisk(r) => SeedRisk(holding[h])) /\ (MetadataRisk(r) => MetadataRisk(holding[h]))
  BY <1>4, <1>6 DEF SeedRisk, MetadataRisk
<1> QED BY <1>1, <1>7, <1>13, <1>14, <1>15, RowReplaced

LEMMA ItemsAfterFixType ==
    ASSUME TypeOK, NEW h \in Ids
    PROVE  /\ ItemsAfterFix(h) \in [Items -> Item \union {NULL}]
           /\ \A i \in Items: item[i] = NULL <=> ItemsAfterFix(h)[i] = NULL
           /\ \A i \in Items: item[i] # NULL =>
                  /\ ItemsAfterFix(h)[i].holding = item[i].holding
                  /\ ItemsAfterFix(h)[i].type = item[i].type
<1>1. \A i \in Items: item[i] # NULL =>
         /\ SetItem(i, "resolved_by_fix") \in Item
         /\ SetItem(i, "resolved_by_fix").holding = item[i].holding
         /\ SetItem(i, "resolved_by_fix").type = item[i].type
  BY DEF TypeOK, SetItem, Item, ItemStates
<1>2. \A i \in Items: item[i] # NULL => SetItem(i, "resolved_by_fix") # NULL
  BY <1>1, HoldingsConstants
<1>3. \A i \in Items: item[i] \in Item \union {NULL}
  BY DEF TypeOK
<1> QED BY <1>1, <1>2, <1>3 DEF ItemsAfterFix

(* The repair: a Strongbox stays readable, any other type gets the mark.   *)
LEMMA FixInv ==
    ASSUME HInv, NEW h \in Ids, NEW text \in Texts, FixMetadata(h, text)
    PROVE  HInv'
<1> USE DEF HInv, RowInv
<1>1. h \in Stored /\ holding[h] \in Holding /\ holding[h].type # "account"
  BY StoredRow DEF FixMetadata, DescShape
<1>2. holding[h].descs \in Seq(Descriptor) /\ holding[h].descs # <<>>
  BY <1>1 DEF Holding, DescShape
<1>3. 1 \in 1..Len(holding[h].descs) /\ holding[h].descs[1] \in Descriptor
  BY <1>2
<1>4. PICK d \in Descriptor: d = GraftOrigin(holding[h].descs[1], text)
  BY DEF GraftOrigin, Descriptor
<1>5. d.origin = TRUE
  BY <1>4 DEF GraftOrigin
<1>6. PICK s \in Seq(Descriptor): s = [holding[h].descs EXCEPT ![1] = d]
  BY <1>2, FirstDesc
<1>7. /\ Len(s) = Len(holding[h].descs)
      /\ s[1] = d
      /\ \A n \in 1..Len(s): n # 1 => s[n] = holding[h].descs[n]
      /\ s # <<>>
  BY <1>2, <1>6, FirstDesc
<1>8. PICK q \in Holding: q = [holding[h] EXCEPT !.descs = s]
  BY <1>1 DEF Holding
<1>9. /\ q.descs = s /\ q.type = holding[h].type
      /\ q.onDevice = holding[h].onDevice
      /\ q.vault = holding[h].vault /\ q.claim = holding[h].claim
      /\ q.provider = holding[h].provider
  BY <1>1, <1>8 DEF Holding
<1>10. PICK r \in Holding: r = [q EXCEPT !.present = "yes"]
  BY DEF Holding
<1>11. /\ r.descs = s /\ r.type = holding[h].type /\ r.present = "yes"
       /\ r.onDevice = holding[h].onDevice
       /\ r.vault = holding[h].vault /\ r.claim = holding[h].claim
       /\ r.provider = holding[h].provider
  BY <1>9, <1>10 DEF Holding
<1>12. r = Repaired(holding[h], d)
  BY <1>6, <1>8, <1>10 DEF Repaired
<1>13. /\ pending = NULL
       /\ d = holding[h].descs[1] \/ ExpressionFree(d)
       /\ holding' = [holding EXCEPT ![h] = r]
       /\ item' = ItemsAfterFix(h)
       /\ UNCHANGED <<invoiced, pending, faults, silent>>
  BY <1>4, <1>12 DEF FixMetadata, Idle
<1>14. \A g \in Stored: \A m \in 1..Len(holding[g].descs):
           holding[g].descs[m] = d => g = h /\ m = 1
  BY <1>1, <1>3, <1>13 DEF ExpressionFree, Unique
<1>15. \A m, n \in 1..Len(r.descs): r.descs[m] = r.descs[n] => m = n
  <2> SUFFICES ASSUME NEW m \in 1..Len(s), NEW n \in 1..Len(s), s[m] = s[n]
               PROVE  m = n
    BY <1>11
  <2>1. CASE m = 1 /\ n = 1
    BY <2>1
  <2>2. CASE m = 1 /\ n # 1
    BY <1>1, <1>7, <1>14, <2>2
  <2>3. CASE m # 1 /\ n = 1
    BY <1>1, <1>7, <1>14, <2>3
  <2>4. CASE m # 1 /\ n # 1
    BY <1>1, <1>7, <2>4 DEF Unique
  <2> QED BY <2>1, <2>2, <2>3, <2>4
<1>16. \A g \in Stored: g # h =>
          \A m \in 1..Len(holding[g].descs), n \in 1..Len(r.descs):
              holding[g].descs[m] # r.descs[n]
  <2> SUFFICES ASSUME NEW g \in Stored, g # h, NEW m \in 1..Len(holding[g].descs),
                      NEW n \in 1..Len(s)
               PROVE  holding[g].descs[m] # s[n]
    BY <1>11
  <2>1. CASE n = 1
    BY <1>7, <1>14, <2>1
  <2>2. CASE n # 1
    BY <1>1, <1>7, <2>2 DEF Unique
  <2> QED BY <2>1, <2>2
<1>17. Constructs(r) \/ MarkedByFix(r)
  <2>1. CASE holding[h].type = "strongbox"
    <3>1. Constructs(holding[h])
      BY <1>1, <2>1 DEF UnreadableOnlyByFix, MarkedByFix
    <3> QED BY <1>7, <1>11, <2>1, <3>1 DEF Constructs, SelfCustodyRules, NoVaultMetadata
  <2>2. CASE holding[h].type # "strongbox"
    BY <1>11, <2>2 DEF MarkedByFix
  <2> QED BY <2>1, <2>2
<1>18. DescShape' /\ Unique' /\ UnreadableOnlyByFix'
  BY <1>1, <1>7, <1>11, <1>13, <1>15, <1>16, <1>17, OneRowInv
<1>19. (SeedRisk(r) => SeedRisk(holding[h])) /\ ~MetadataRisk(r)
  BY <1>5, <1>7, <1>11 DEF SeedRisk, MetadataRisk
<1>20. /\ item' \in [Items -> Item \union {NULL}]
       /\ \A i \in Items: item[i] = NULL <=> item'[i] = NULL
       /\ \A i \in Items: item[i] # NULL =>
              item'[i].holding = item[i].holding /\ item'[i].type = item[i].type
  BY <1>13, ItemsAfterFixType
<1> QED BY <1>1, <1>13, <1>18, <1>19, <1>20, RowReplaced

-----------------------------------------------------------------------------
(* Invoices, deletion and the items.                                       *)

LEMMA SameRows ==
    ASSUME RowInv, UNCHANGED holding
    PROVE  Stored' = Stored /\ DescShape' /\ Unique' /\ UnreadableOnlyByFix'
<1>1. Stored' = Stored
  BY DEF Stored
<1> QED BY <1>1 DEF RowInv, DescShape, Unique, UnreadableOnlyByFix

LEMMA CreateInvoiceInv ==
    ASSUME HInv, NEW h \in Ids, CreateInvoice(h)
    PROVE  HInv'
<1> USE DEF HInv, RowInv
<1>1. /\ UNCHANGED <<holding, item, pending, faults, silent>>
      /\ invoiced' = invoiced \union {h}
  BY DEF CreateInvoice
<1>2. TypeOK'
  BY <1>1 DEF TypeOK
<1>3. Stored' = Stored /\ DescShape' /\ Unique' /\ UnreadableOnlyByFix'
  BY <1>1, SameRows
<1>4. ItemsStored' /\ PendingKnown' /\ Reported'
  BY <1>1, <1>3 DEF ItemsStored, PendingKnown, Reported, HasItem
<1> QED BY <1>2, <1>3, <1>4

LEMMA DeleteInv ==
    ASSUME HInv, NEW h \in Ids, DeleteHolding(h)
    PROVE  HInv'
<1> USE DEF HInv, RowInv
<1>1. /\ pending = NULL /\ holding' = [holding EXCEPT ![h] = NULL]
      /\ item' = ItemsWithout(h) /\ invoiced' = invoiced \ {h} /\ silent' = silent \ {h}
      /\ pending' = pending /\ faults' = faults
  BY DEF DeleteHolding, Idle
<1>2. /\ holding' \in [Ids -> Holding \union {NULL}]
      /\ holding'[h] = NULL
      /\ \A g \in Ids: g # h => holding'[g] = holding[g]
  BY <1>1 DEF TypeOK
<1>3. Stored' = Stored \ {h}
  BY <1>2 DEF Stored
<1>4. \A g \in Stored': g \in Stored /\ g \in Ids /\ g # h /\ holding'[g] = holding[g]
  BY <1>2, <1>3, StoredRow
<1>5. \A i \in Items: /\ item[i] \in Item \union {NULL}
                      /\ item'[i] = IF item[i] # NULL /\ item[i].holding = h THEN NULL ELSE item[i]
  BY <1>1 DEF ItemsWithout, TypeOK
<1>6. TypeOK'
  <2>1. item' \in [Items -> Item \union {NULL}]
    BY <1>1, <1>5 DEF ItemsWithout
  <2> QED BY <1>1, <1>2, <2>1 DEF TypeOK
<1>7. DescShape' /\ UnreadableOnlyByFix'
  BY <1>4 DEF DescShape, UnreadableOnlyByFix
<1>8. Unique'
  <2> SUFFICES ASSUME NEW f \in Stored', NEW g \in Stored',
                      NEW m \in 1..Len(holding'[f].descs), NEW n \in 1..Len(holding'[g].descs),
                      holding'[f].descs[m] = holding'[g].descs[n]
               PROVE  f = g /\ m = n
    BY DEF Unique
  <2>1. f \in Stored /\ g \in Stored /\ holding'[f] = holding[f] /\ holding'[g] = holding[g]
    BY <1>4
  <2> QED BY <2>1 DEF Unique
<1>9. ItemsStored'
  BY <1>3, <1>5 DEF ItemsStored
<1>10. PendingKnown'
  BY <1>1 DEF PendingKnown
<1>11. Reported'
  <2> SUFFICES ASSUME NEW g \in Stored', g \notin silent'
               PROVE  /\ SeedRisk(holding'[g]) => HasItem(g, "seed_backup")'
                      /\ MetadataRisk(holding'[g]) => HasItem(g, "missing_signing_metadata")'
    BY DEF Reported
  <2>1. g \in Stored /\ g # h /\ holding'[g] = holding[g] /\ g \notin silent
    BY <1>1, <1>4
  <2>2. /\ SeedRisk(holding[g]) => HasItem(g, "seed_backup")
        /\ MetadataRisk(holding[g]) => HasItem(g, "missing_signing_metadata")
    BY <1>1, <2>1 DEF Reported
  <2>3. \A t \in ItemTypes: HasItem(g, t) => HasItem(g, t)'
    BY <1>5, <2>1 DEF HasItem
  <2> QED BY <2>1, <2>2, <2>3 DEF ItemTypes
<1> QED BY <1>6, <1>7, <1>8, <1>9, <1>10, <1>11

(* A step of the items alone, with rows, invoices and the handler's        *)
(* creation left as they are.                                              *)
LEMMA ItemsChange ==
    ASSUME HInv, UNCHANGED <<holding, invoiced, pending, faults, silent>>, pending = NULL,
           item' \in [Items -> Item \union {NULL}],
           \A i \in Items: item[i] = NULL <=> item'[i] = NULL,
           \A i \in Items: item[i] # NULL =>
               item'[i].holding = item[i].holding /\ item'[i].type = item[i].type
    PROVE  HInv'
<1> USE DEF HInv, RowInv
<1>1. Stored' = Stored /\ DescShape' /\ Unique' /\ UnreadableOnlyByFix'
  BY SameRows
<1>2. TypeOK'
  BY DEF TypeOK
<1>3. ItemsStored' /\ PendingKnown'
  BY <1>1 DEF ItemsStored, PendingKnown
<1>4. \A g \in Ids, t \in ItemTypes: HasItem(g, t) => HasItem(g, t)'
  BY DEF HasItem
<1>5. Reported'
  <2> SUFFICES ASSUME NEW g \in Stored, g \notin silent
               PROVE  /\ SeedRisk(holding[g]) => HasItem(g, "seed_backup")'
                      /\ MetadataRisk(holding[g]) => HasItem(g, "missing_signing_metadata")'
    BY <1>1 DEF Reported
  <2>1. g \in Ids
    BY StoredRow
  <2>2. /\ SeedRisk(holding[g]) => HasItem(g, "seed_backup")
        /\ MetadataRisk(holding[g]) => HasItem(g, "missing_signing_metadata")
    BY DEF Reported
  <2> QED BY <1>4, <2>1, <2>2 DEF ItemTypes
<1> QED BY <1>1, <1>2, <1>3, <1>5

LEMMA SetItemInv ==
    ASSUME HInv, NEW i \in Items, NEW state \in ItemStates, pending = NULL, item[i] # NULL,
           item' = [item EXCEPT ![i] = SetItem(i, state)],
           UNCHANGED <<holding, invoiced, pending, faults, silent>>
    PROVE  HInv'
<1>1. item \in [Items -> Item \union {NULL}]
  BY DEF HInv, RowInv, TypeOK
<1>2. /\ SetItem(i, state) \in Item
      /\ SetItem(i, state).holding = item[i].holding
      /\ SetItem(i, state).type = item[i].type
  BY <1>1 DEF SetItem, Item
<1>3. SetItem(i, state) # NULL
  BY <1>2, HoldingsConstants
<1>4. /\ item' \in [Items -> Item \union {NULL}]
      /\ item'[i] = SetItem(i, state)
      /\ \A j \in Items: j # i => item'[j] = item[j]
  BY <1>1, <1>2
<1> QED BY <1>2, <1>3, <1>4, ItemsChange

(* The second commit of a creation.                                        *)
LEMMA EmitItemInv ==
    ASSUME HInv, NEW i \in Items, EmitItem(i)
    PROVE  HInv'
<1> USE DEF HInv, RowInv
<1>1. /\ pending # NULL /\ pending' = NULL
      /\ UNCHANGED <<holding, invoiced, faults, silent>>
  BY DEF EmitItem
<1>2. PICK p \in Pending: p = pending
  BY <1>1 DEF TypeOK
<1>3. p.holding \in Ids /\ p.type \in ItemTypes /\ p.holding \in Stored
  BY <1>1, <1>2 DEF Pending, PendingKnown
<1>4. Stored' = Stored /\ DescShape' /\ Unique' /\ UnreadableOnlyByFix'
  BY <1>1, SameRows
<1>5. /\ item' \in [Items -> Item \union {NULL}]
      /\ ItemsStored'
      /\ \A g \in Ids, t \in ItemTypes: HasItem(g, t) => HasItem(g, t)'
      /\ HasItem(p.holding, p.type)'
  <2>1. CASE HasOpenItemOfType(p.type, p.holding)
    <3>1. item' = item
      BY <1>2, <2>1 DEF EmitItem
    <3> QED BY <1>4, <2>1, <3>1 DEF HasOpenItemOfType, HasItem, TypeOK, ItemsStored
  <2>2. CASE ~HasOpenItemOfType(p.type, p.holding)
    <3>1. PICK n \in Item: n = [type |-> p.type, holding |-> p.holding, state |-> "open"]
      BY <1>3 DEF Item, ItemStates
    <3>2. n.type = p.type /\ n.holding = p.holding /\ n # NULL
      BY <3>1, HoldingsConstants
    <3>3. item[i] = NULL /\ item' = [item EXCEPT ![i] = n]
      BY <1>2, <2>2, <3>1 DEF EmitItem, Insert
    <3>4. /\ item' \in [Items -> Item \union {NULL}]
          /\ item'[i] = n
          /\ \A j \in Items: j # i => item'[j] = item[j]
      BY <3>3 DEF TypeOK
    <3>5. ItemsStored'
      BY <1>4, <1>3, <3>2, <3>4 DEF ItemsStored
    <3>6. \A g \in Ids, t \in ItemTypes: HasItem(g, t) => HasItem(g, t)'
      BY <3>3, <3>4 DEF HasItem
    <3>7. HasItem(p.holding, p.type)'
      BY <3>2, <3>4 DEF HasItem
    <3> QED BY <3>4, <3>5, <3>6, <3>7
  <2> QED BY <2>1, <2>2
<1>6. TypeOK'
  BY <1>1, <1>5 DEF TypeOK
<1>7. PendingKnown'
  BY <1>1 DEF PendingKnown
<1>8. Reported'
  <2> SUFFICES ASSUME NEW g \in Stored, g \notin silent
               PROVE  /\ SeedRisk(holding[g]) => HasItem(g, "seed_backup")'
                      /\ MetadataRisk(holding[g]) => HasItem(g, "missing_signing_metadata")'
    BY <1>1, <1>4 DEF Reported
  <2>1. g \in Ids
    BY StoredRow
  <2>2. CASE g = p.holding
    BY <1>1, <1>2, <1>5, <2>2 DEF PendingKnown
  <2>3. CASE g # p.holding
    <3>1. /\ SeedRisk(holding[g]) => HasItem(g, "seed_backup")
          /\ MetadataRisk(holding[g]) => HasItem(g, "missing_signing_metadata")
      BY <1>2, <2>3 DEF Reported
    <3> QED BY <1>5, <2>1, <3>1 DEF ItemTypes
  <2> QED BY <2>2, <2>3
<1> QED BY <1>4, <1>5, <1>6, <1>7, <1>8

LEMMA EmitFailsInv ==
    ASSUME HInv, EmitFails
    PROVE  HInv'
<1> USE DEF HInv, RowInv
<1>1. /\ pending # NULL /\ faults < MaxFaults /\ faults' = faults + 1
      /\ silent' = silent \union {pending.holding} /\ pending' = NULL
      /\ UNCHANGED <<holding, item, invoiced>>
  BY DEF EmitFails
<1>2. pending.holding \in Ids
  BY <1>1 DEF TypeOK, Pending
<1>3. TypeOK'
  <2>1. faults' \in 0..MaxFaults
    BY <1>1, HoldingsConstants DEF TypeOK
  <2> QED BY <1>1, <1>2, <2>1 DEF TypeOK
<1>4. Stored' = Stored /\ DescShape' /\ Unique' /\ UnreadableOnlyByFix'
  BY <1>1, SameRows
<1>5. ItemsStored' /\ PendingKnown'
  BY <1>1, <1>4 DEF ItemsStored, PendingKnown
<1>6. Reported'
  <2> SUFFICES ASSUME NEW g \in Stored, g \notin silent'
               PROVE  /\ SeedRisk(holding[g]) => HasItem(g, "seed_backup")'
                      /\ MetadataRisk(holding[g]) => HasItem(g, "missing_signing_metadata")'
    BY <1>1, <1>4 DEF Reported
  <2>1. g \notin silent /\ g # pending.holding
    BY <1>1
  <2>2. /\ SeedRisk(holding[g]) => HasItem(g, "seed_backup")
        /\ MetadataRisk(holding[g]) => HasItem(g, "missing_signing_metadata")
    BY <2>1 DEF Reported
  <2> QED BY <1>1, <2>2 DEF HasItem
<1> QED BY <1>3, <1>4, <1>5, <1>6

-----------------------------------------------------------------------------
(* The specification.                                                      *)

LEMMA HoldingsInit ==
    Init => HInv
<1> SUFFICES ASSUME Init PROVE HInv
  OBVIOUS
<1>1. TypeOK
  BY HoldingsConstants DEF Init, TypeOK
<1>2. Stored = {} /\ pending = NULL /\ \A i \in Items: item[i] = NULL
  BY DEF Init, Stored
<1> QED BY <1>1, <1>2 DEF HInv, RowInv, DescShape, Unique, UnreadableOnlyByFix, ItemsStored,
                          PendingKnown, Reported

LEMMA HoldingsNext ==
    HInv /\ [Next]_vars => HInv'
<1> SUFFICES ASSUME HInv, [Next]_vars PROVE HInv'
  OBVIOUS
<1>1. ASSUME NEW h \in Ids, HoldingNext(h) PROVE HInv'
  <2>1. CASE CreateNext(h)
    BY <2>1, CreateNextInv
  <2>2. CASE \/ \E claim \in Claims: PatchDeclaredSecurity(h, claim)
             \/ \E b \in BOOLEAN: PatchSigningDeviceLabel(h, b) \/ PatchRecoverySetupNotes(h, b)
             \/ \E type \in Types: ChangeHoldingType(h, type)
    BY <2>2, PatchesInv
  <2>3. CASE \E d \in Descriptor: AttachDescriptor(h, d)
    BY <2>3, AttachInv
  <2>4. CASE CreateInvoice(h)
    BY <2>4, CreateInvoiceInv
  <2>5. CASE DeleteHolding(h)
    BY <2>5, DeleteInv
  <2>6. CASE \E text \in Texts: FixMetadata(h, text)
    BY <2>6, FixInv
  <2> QED BY <1>1, <2>1, <2>2, <2>3, <2>4, <2>5, <2>6 DEF HoldingNext
<1>2. ASSUME NEW i \in Items, ItemNext(i) PROVE HInv'
  <2>1. CASE EmitItem(i)
    BY <2>1, EmitItemInv
  <2>2. ASSUME NEW state \in ItemStates \ {"open"}, ResolveItem(i, state) PROVE HInv'
    BY <2>2, SetItemInv DEF ResolveItem, Idle
  <2>3. CASE ReviveItem(i)
    <3>1. PICK state \in ItemStates: state = "open"
      BY DEF ItemStates
    <3> QED BY <2>3, <3>1, SetItemInv DEF ReviveItem, Idle
  <2> QED BY <1>2, <2>1, <2>2, <2>3 DEF ItemNext
<1>3. CASE EmitFails
  BY <1>3, EmitFailsInv
<1>4. CASE UNCHANGED vars
  <2>1. UNCHANGED <<holding, item, invoiced, pending, faults, silent>>
    BY <1>4 DEF vars
  <2>2. Stored' = Stored /\ DescShape' /\ Unique' /\ UnreadableOnlyByFix'
    BY <2>1, SameRows DEF HInv
  <2>3. TypeOK'
    BY <2>1 DEF TypeOK, HInv, RowInv
  <2>4. ItemsStored' /\ PendingKnown' /\ Reported'
    BY <2>1, <2>2 DEF HInv, ItemsStored, PendingKnown, Reported, HasItem
  <2> QED BY <2>2, <2>3, <2>4 DEF HInv, RowInv
<1> QED BY <1>1, <1>2, <1>3, <1>4 DEF Next

(* Every stored row can be read by the domain class unless fix_metadata    *)
(* was applied to a holding that is no Strongbox, an expression is stored  *)
(* once, and items do not outlive their holding: for every sequence of     *)
(* creations, patches, type changes, attachments, repairs and deletions.   *)
THEOREM HoldingsSafe ==
    Spec => []HoldingsInv
<1>1. HInv => HoldingsInv
  BY DEF HInv, RowInv, HoldingsInv, RowsConsistent, Unique, ItemsStored
<1> QED BY <1>1, HoldingsInit, HoldingsNext, PTL DEF Spec

(* A risk that a holding was created with has an item as long as the       *)
(* holding lives, unless the handler ended between its two commits: type   *)
(* changes keep the subtype_data, repairs remove the risk, and items are   *)
(* resolved but never deleted before their holding.                        *)
THEOREM RiskReported ==
    Spec => []RiskIsReported
<1>1. HInv => RiskIsReported
  BY DEF HInv, RowInv, Reported, RiskIsReported, SeedRisk, MetadataRisk
<1> QED BY <1>1, HoldingsInit, HoldingsNext, PTL DEF Spec

-----------------------------------------------------------------------------
(* The end of a repaired Vault.                                            *)

Dead(r) == r.vault = "signers" /\ r.present = "yes"

(* No type takes both fields.                                              *)
LEMMA DeadRefused ==
    ASSUME NEW r \in Holding, Dead(r)
    PROVE  ~Constructs(r)
BY DEF Dead, Constructs, NoStrongboxMetadata, NoVaultMetadata, Holding

LEMMA CreateNextRow ==
    ASSUME NEW g \in Ids, CreateNext(g)
    PROVE  holding[g] = NULL /\ \E r: holding' = [holding EXCEPT ![g] = r]
<1>1. ASSUME NEW claim \in Claims, NEW d \in Descriptor, NEW onDevice \in BOOLEAN,
             CreatePurse(g, claim, d, onDevice)
      PROVE  holding[g] = NULL /\ \E r: holding' = [holding EXCEPT ![g] = r]
  BY <1>1, Zenon DEF CreatePurse, CreateHolding
<1>2. ASSUME NEW claim \in Claims, NEW d \in Descriptor, NEW label \in BOOLEAN,
             NEW present \in {"unset", "no", "yes"}, CreateStrongbox(g, claim, d, label, present)
      PROVE  holding[g] = NULL /\ \E r: holding' = [holding EXCEPT ![g] = r]
  BY <1>2, Zenon DEF CreateStrongbox, CreateHolding
<1>3. ASSUME NEW claim \in Claims, NEW d \in Descriptor, CreateVault(g, claim, d)
      PROVE  holding[g] = NULL /\ \E r: holding' = [holding EXCEPT ![g] = r]
  BY <1>3, Zenon DEF CreateVault, CreateHolding
<1>4. ASSUME NEW claim \in Claims, CreateAccountHolding(g, claim)
      PROVE  holding[g] = NULL /\ \E r: holding' = [holding EXCEPT ![g] = r]
  BY <1>4, Zenon DEF CreateAccountHolding
<1> QED BY <1>1, <1>2, <1>3, <1>4, Zenon DEF CreateNext

LEMMA DeadStays ==
    ASSUME TypeOK, NEW h \in Ids, NEW g \in Ids, HoldingNext(g), holding[h] # NULL,
           Dead(holding[h])
    PROVE  holding'[h] = NULL \/ (holding'[h] \in Holding /\ Dead(holding'[h]))
<1>1. h \in Stored /\ holding[h] \in Holding
  BY DEF TypeOK, Stored
<1>2. ASSUME NEW r, holding' = [holding EXCEPT ![g] = r], g # h
      PROVE  holding'[h] = holding[h]
  BY <1>2 DEF TypeOK
<1>3. ASSUME NEW r, holding' = [holding EXCEPT ![h] = r]
      PROVE  holding'[h] = r
  BY <1>3 DEF TypeOK
<1>4. ASSUME NEW r \in Holding, Changes(h, r), r.present = holding[h].present,
             r.vault = holding[h].vault
      PROVE  FALSE
  BY <1>4, DeadRefused DEF Dead, Changes
<1>5. ASSUME NEW r, g # h, Changes(g, r) PROVE holding'[h] = holding[h]
  BY <1>2, <1>5 DEF Changes
<1>6. CASE CreateNext(g)
  <2>1. g # h
    BY <1>6, CreateNextRow
  <2>2. PICK r: holding' = [holding EXCEPT ![g] = r]
    BY <1>6, CreateNextRow
  <2> QED BY <1>1, <1>2, <2>1, <2>2
<1>7. ASSUME NEW claim \in Claims, PatchDeclaredSecurity(g, claim)
      PROVE  g # h /\ \E r: Changes(g, r)
  <2>1. g # h
    <3> SUFFICES ASSUME g = h PROVE FALSE
      OBVIOUS
    <3>1. PICK r \in Holding: r = [holding[h] EXCEPT !.claim = claim]
      BY <1>1 DEF Holding
    <3>2. r.present = holding[h].present /\ r.vault = holding[h].vault
      BY <1>1, <3>1 DEF Holding
    <3>3. Changes(h, r)
      BY <1>7, <3>1 DEF PatchDeclaredSecurity
    <3> QED BY <1>4, <3>2, <3>3
  <2> QED BY <1>7, <2>1 DEF PatchDeclaredSecurity
<1>8. ASSUME NEW b \in BOOLEAN, PatchSigningDeviceLabel(g, b)
      PROVE  g # h /\ \E r: Changes(g, r)
  <2>1. g # h
    <3> SUFFICES ASSUME g = h PROVE FALSE
      OBVIOUS
    <3>1. PICK r \in Holding: r = [holding[h] EXCEPT !.label = b]
      BY <1>1 DEF Holding
    <3>2. r.present = holding[h].present /\ r.vault = holding[h].vault
      BY <1>1, <3>1 DEF Holding
    <3>3. Changes(h, r)
      BY <1>8, <3>1 DEF PatchSigningDeviceLabel
    <3> QED BY <1>4, <3>2, <3>3
  <2> QED BY <1>8, <2>1 DEF PatchSigningDeviceLabel
<1>9. ASSUME NEW b \in BOOLEAN, PatchRecoverySetupNotes(g, b)
      PROVE  g # h /\ \E r: Changes(g, r)
  <2>1. g # h
    <3> SUFFICES ASSUME g = h PROVE FALSE
      OBVIOUS
    <3>1. PICK v \in {"signers"}: v = VaultNotes(holding[h], b)
      BY DEF VaultNotes, Dead
    <3>2. PICK r \in Holding: r = [holding[h] EXCEPT !.vault = v]
      BY <1>1 DEF Holding, VaultData
    <3>3. r.present = holding[h].present /\ r.vault = holding[h].vault
      BY <1>1, <3>2 DEF Holding, Dead
    <3>4. Changes(h, r)
      BY <1>9, <3>1, <3>2 DEF PatchRecoverySetupNotes
    <3> QED BY <1>4, <3>3, <3>4
  <2> QED BY <1>9, <2>1 DEF PatchRecoverySetupNotes
<1>10. ASSUME NEW type \in Types, ChangeHoldingType(g, type)
       PROVE  g # h /\ \E r: Changes(g, r)
  <2>1. g # h
    <3> SUFFICES ASSUME g = h PROVE FALSE
      OBVIOUS
    <3>1. PICK r \in Holding: r = [holding[h] EXCEPT !.type = type]
      BY <1>1 DEF Holding
    <3>2. r.present = holding[h].present /\ r.vault = holding[h].vault
      BY <1>1, <3>1 DEF Holding
    <3>3. Changes(h, r)
      BY <1>10, <3>1 DEF ChangeHoldingType, Retyped
    <3> QED BY <1>4, <3>2, <3>3
  <2> QED BY <1>10, <2>1 DEF ChangeHoldingType
<1>11. CASE \/ \E claim \in Claims: PatchDeclaredSecurity(g, claim)
            \/ \E b \in BOOLEAN: PatchSigningDeviceLabel(g, b) \/ PatchRecoverySetupNotes(g, b)
            \/ \E type \in Types: ChangeHoldingType(g, type)
  BY <1>1, <1>5, <1>7, <1>8, <1>9, <1>10, <1>11
<1>12. ASSUME NEW d \in Descriptor, AttachDescriptor(g, d)
       PROVE  holding'[h] \in Holding /\ Dead(holding'[h])
  <2>1. CASE g # h
    <3>1. \E r: holding' = [holding EXCEPT ![g] = r]
      BY <1>12 DEF AttachDescriptor
    <3> QED BY <1>1, <1>2, <2>1, <3>1
  <2>2. CASE g = h
    <3>1. PICK s \in Seq(Descriptor): s = Append(holding[h].descs, d)
      BY <1>1, AppendedDesc DEF Holding
    <3>2. PICK r \in Holding: r = [holding[h] EXCEPT !.descs = s]
      BY <1>1 DEF Holding
    <3>3. r.present = holding[h].present /\ r.vault = holding[h].vault
      BY <1>1, <3>2 DEF Holding
    <3>4. holding' = [holding EXCEPT ![h] = r]
      BY <1>12, <2>2, <3>1, <3>2 DEF AttachDescriptor
    <3> QED BY <1>3, <3>3, <3>4 DEF Dead
  <2> QED BY <2>1, <2>2
<1>13. CASE CreateInvoice(g)
  BY <1>1, <1>13 DEF CreateInvoice
<1>14. CASE DeleteHolding(g)
  BY <1>1, <1>2, <1>3, <1>14 DEF DeleteHolding
<1>15. ASSUME NEW text \in Texts, FixMetadata(g, text)
       PROVE  holding'[h] \in Holding /\ Dead(holding'[h])
  <2>1. holding' = [holding EXCEPT ![g] = Repaired(holding[g], GraftOrigin(holding[g].descs[1], text))]
    BY <1>15 DEF FixMetadata
  <2>2. CASE g # h
    BY <1>1, <1>2, <2>1, <2>2
  <2>3. CASE g = h
    <3>1. holding[h].descs \in Seq(Descriptor) /\ holding[h].descs # <<>>
      <4>1. holding[h].descs # <<>>
        BY <1>15, <2>3 DEF FixMetadata
      <4> QED BY <1>1, <4>1 DEF Holding
    <3>2. PICK d \in Descriptor: d = GraftOrigin(holding[h].descs[1], text)
      BY DEF GraftOrigin, Descriptor
    <3>3. PICK s \in Seq(Descriptor): s = [holding[h].descs EXCEPT ![1] = d]
      BY <3>1, FirstDesc
    <3>4. PICK q \in Holding: q = [holding[h] EXCEPT !.descs = s]
      BY <1>1 DEF Holding
    <3>5. PICK r \in Holding: r = [q EXCEPT !.present = "yes"]
      BY DEF Holding
    <3>6. r.present = "yes" /\ r.vault = holding[h].vault
      BY <1>1, <3>4, <3>5 DEF Holding
    <3>7. holding' = [holding EXCEPT ![h] = r]
      BY <2>1, <2>3, <3>2, <3>3, <3>4, <3>5 DEF Repaired
    <3> QED BY <1>3, <3>6, <3>7 DEF Dead
  <2> QED BY <2>2, <2>3
<1> QED BY <1>6, <1>11, <1>12, <1>13, <1>14, <1>15 DEF HoldingNext

(* A Vault that fix_metadata made unreadable is unreadable until it is     *)
(* deleted: patches and type changes roll back at the constructor, and the *)
(* handlers that go by the raw row leave both fields in place.             *)
THEOREM DeadVault ==
    Spec => DeadVaultForever
<1>1. ASSUME HInv, [Next]_vars, NEW h \in Ids, holding[h] # NULL,
             holding[h].vault = "signers", ~Constructs(holding[h])
      PROVE  holding'[h] = NULL \/ ~Constructs(holding'[h])
  <2>1. holding[h] \in Holding /\ TypeOK
    BY <1>1 DEF HInv, RowInv, TypeOK
  <2>2. Dead(holding[h])
    BY <1>1 DEF HInv, RowInv, UnreadableOnlyByFix, MarkedByFix, Stored, Dead
  <2>3. ASSUME NEW g \in Ids, HoldingNext(g)
        PROVE  holding'[h] = NULL \/ (holding'[h] \in Holding /\ Dead(holding'[h]))
    BY <1>1, <2>1, <2>2, <2>3, DeadStays
  <2>4. CASE UNCHANGED holding
    BY <1>1, <2>4
  <2>5. (\E g \in Ids: HoldingNext(g)) \/ UNCHANGED holding
    BY <1>1 DEF Next, ItemNext, EmitItem, ResolveItem, ReviveItem, EmitFails, vars
  <2>6. CASE \E g \in Ids: HoldingNext(g)
    <3>1. holding'[h] = NULL \/ (holding'[h] \in Holding /\ Dead(holding'[h]))
      BY <2>3, <2>6
    <3> QED BY <3>1, DeadRefused
  <2> QED BY <2>4, <2>5, <2>6
<1>2. HInv /\ [Next]_vars =>
         [\A h \in Ids:
             holding[h] # NULL /\ holding[h].vault = "signers" /\ ~Constructs(holding[h])
                 => holding'[h] = NULL \/ ~Constructs(holding'[h])]_vars
  BY <1>1
<1> QED BY <1>2, HoldingsInit, HoldingsNext, PTL DEF Spec, DeadVaultForever
-----------------------------------------------------------------------------
(* The wizard.  classify_descriptor and parse are two functions over the   *)
(* same text; that they agree is a case analysis over the forms and their  *)
(* fragments.                                                              *)

(* What of the shape of an expression the wizard's answer rests on; it     *)
(* holds of a wrapped key, too.                                            *)
Wellformed(e) ==
    /\ e.form \in Forms
    /\ e.multi \in BOOLEAN /\ e.branch \in BOOLEAN /\ e.lsp \in BOOLEAN
    /\ e.form \in PlainForms => ~e.multi
    /\ e.form \in MultisigTypes => e.multi
    /\ e.form \notin ScriptForms => e.lock = "none" /\ ~e.branch
    /\ e.lsp => e.branch
    /\ e.required \in Int /\ e.xpubs \in Int

(* Wrapping a bare key keeps the shape.                                    *)
LEMMA Wrapped ==
    ASSUME NEW raw \in Expressions
    PROVE  Wellformed(AutoWrapBareKey(raw))
<1>1. Wellformed(raw)
  BY DescriptorsConstants DEF Expressions, Facts, Wellformed
<1>2. ASSUME raw.form = "KEY"
      PROVE  Wellformed(AutoWrapBareKey(raw))
  <2>1. raw \in Facts
    BY DEF Expressions
  <2>2. PICK e: e = [raw EXCEPT !.form = "WPKH"]
    OBVIOUS
  <2>3. /\ e.form = "WPKH" /\ e.multi = raw.multi /\ e.lock = raw.lock
        /\ e.branch = raw.branch /\ e.lsp = raw.lsp
        /\ e.required = raw.required /\ e.xpubs = raw.xpubs
    BY <2>1, <2>2 DEF Facts
  <2>4. Wellformed(e)
    BY <1>1, <1>2, <2>3 DEF Wellformed, Forms, SingleKeyTypes, PlainForms, MultisigTypes,
         ScriptForms, NoDescriptor
  <2> QED BY <1>2, <2>2, <2>4 DEF AutoWrapBareKey
<1> QED BY <1>1, <1>2 DEF AutoWrapBareKey

(* Whatever the wizard suggests, the handler of that type takes.           *)
LEMMA Suggested ==
    ASSUME NEW e, Wellformed(e), BestFit(e) # "none", ~PlainWsh(e), ~Undercounted(e)
    PROVE  CreationAccepts(BestFit(e), e)
<1> USE DEF Forms, SingleKeyTypes, PlainForms, MultisigTypes, MiniscriptTypes, ScriptForms,
            NoDescriptor
<1>1. ClassifyDescriptor(e) \in SuggestedTypes /\ Parses(e, TRUE) /\ BestFit(e) = ClassifyDescriptor(e)
  BY DEF BestFit
<1>2. ~e.branch /\ ~e.multipath /\ ClassifyDescriptor(e) = ClassifyByForm(e)
  BY <1>1 DEF ClassifyDescriptor, SuggestedTypes
<1>3. CASE ClassifyByForm(e) = "vault"
  <2>1. IsVaultShape(e)
    BY <1>1, <1>2, <1>3 DEF ClassifyByForm, SingleKeyFit, VaultTaproot, IsVaultShape, Wellformed, PlainWsh
  <2>2. SignersValid(e)
    BY DEF SignersValid, Undercounted, TotalSigners, Wellformed
  <2> QED BY <1>1, <1>2, <1>3, <2>1, <2>2 DEF CreationAccepts, Imports
<1>4. CASE ClassifyByForm(e) # "vault"
  <2>1. ~VaultTaproot(e) /\ e.form \in SingleKeyTypes
    BY <1>1, <1>2, <1>4 DEF ClassifyByForm, SuggestedTypes
  <2>2. Parses(e, FALSE)
    BY <1>2, <2>1 DEF Parses
  <2> QED BY <1>1, <1>2, <1>4, <2>2 DEF CreationAccepts, Imports
<1> QED BY <1>3, <1>4

(* Whatever parse takes, the classifier has a type for.                    *)
LEMMA Rejected ==
    ASSUME NEW e, Wellformed(e), BestFit(e) = "none", ~HiddenBranch(e), NEW type
    PROVE  ~CreationAccepts(type, e)
<1> USE DEF Forms, SingleKeyTypes, PlainForms, MultisigTypes, MiniscriptTypes, ScriptForms,
            NoDescriptor
<1>1. Parses(e, FALSE) => Parses(e, TRUE)
  BY DEF Parses
<1>2. SUFFICES ASSUME Parses(e, TRUE) PROVE FALSE
  BY <1>1 DEF CreationAccepts, Imports
<1>3. ClassifyDescriptor(e) \notin SuggestedTypes
  BY <1>2 DEF BestFit, SuggestedTypes
<1>4. e.form \notin NoDescriptor /\ ~e.multipath /\ e.form # "ADDRESS"
  BY <1>2 DEF Parses
<1>5. ~e.branch
  BY <1>2, <1>4 DEF Parses, HiddenBranch, Wellformed
<1>6. ClassifyDescriptor(e) = ClassifyByForm(e)
  BY <1>4, <1>5 DEF ClassifyDescriptor, Wellformed
<1>7. ClassifyByForm(e) \in SuggestedTypes
  BY <1>2 DEF ClassifyByForm, SuggestedTypes, SingleKeyFit, Parses
<1> QED BY <1>3, <1>6, <1>7

LEMMA Wizard == WizardAgrees
BY Wrapped, Suggested, Rejected DEF WizardAgrees

(* What the wizard suggests for a descriptor can be created and what it    *)
(* rejects cannot, but for the three shapes that SuggestionWorks names.    *)
THEOREM SuggestionSafe ==
    Spec => []SuggestionWorks
<1>1. SuggestionWorks
  BY Wizard DEF SuggestionWorks
<1> QED BY <1>1, PTL
=============================================================================
