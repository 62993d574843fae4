------------------------------- MODULE Holdings --------------------------------
(***************************************************************************)
(* Holdings and their security-health items: creation of the four types,   *)
(* changes, deletion, the repair of signing metadata, and the items that   *)
(* tell the user what is wrong with a holding.                             *)
(*                                                                         *)
(* Handlers are async functions without an await: one runs at a time.  The *)
(* creation of a holding commits twice, first the holding and then its     *)
(* item, and the process can end in between.  Every read of a holding runs *)
(* the constructor of the domain class, which raises on a row that breaks  *)
(* its rules.                                                              *)
(***************************************************************************)
EXTENDS Descriptors, Sequences

CONSTANTS
    Ids,          \* ids of holdings; the id of a deleted holding may return
    Texts,        \* descriptor texts; two spellings of one wallet are two texts
    ShapeOf,      \* the expression of each text, without key origin
    Items,        \* ids of security-health items
    MaxDescs,     \* bound: descriptors of a holding
    MaxFaults,    \* bound: handlers that end between their two commits
    NULL

VARIABLES
    holding,   \* the holding row, its subtype_data and descriptors, or NULL
    item,      \* security_health_item rows
    invoiced,  \* holdings with an invoice, which has a receiving address
    pending,   \* the item a handler has still to emit, or NULL
    faults,    \* interrupted handlers so far
    silent     \* history: holdings whose item was lost to a fault

vars == <<holding, item, invoiced, pending, faults, silent>>

Types == {"account", "purse", "strongbox", "vault"}

(* declared_security: self-custody with a signing model, third party       *)
(* without one, or a mixture that no type may have.                        *)
Claims == {"own", "custodial", "mixed"}

(* Rows are compared by their text, not by what it means.                  *)
Descriptor == [text: Texts, origin: BOOLEAN]

ExpressionOf(d) == [ShapeOf[d.text] EXCEPT !.origin = d.origin]

(* subtype_data: label for signing_device_label and vendor, present for    *)
(* signing_metadata_present, signers for the fields taken from the first   *)
(* descriptor of a Vault, onDevice for the modes of a Purse with a seed on *)
(* the device.  "short" is a Vault with fewer signers than it requires, or *)
(* with only one of the two numbers.  Notes matter only without signers.   *)
VaultData == {"none", "notes", "signers", "short"}

Holding ==
    [type: Types, claim: Claims, provider: BOOLEAN, descs: Seq(Descriptor), label: BOOLEAN,
     present: {"unset", "no", "yes"}, vault: VaultData, onDevice: BOOLEAN]

ItemTypes == {"seed_backup", "missing_signing_metadata"}
ItemStates == {"open", "resolved_by_fix", "dismissed_intentional", "acknowledged"}

Item == [type: ItemTypes, holding: Ids, state: ItemStates]

Pending == [holding: Ids, type: ItemTypes]

ASSUME HoldingsConstants ==
    /\ ShapeOf \in [Texts -> Expressions]
    /\ \A t \in Texts: ~ShapeOf[t].origin /\ ShapeOf[t].form \notin NoDescriptor
    /\ MaxDescs \in Nat \ {0}
    /\ MaxFaults \in Nat
    /\ NULL \notin Holding \union Item \union Pending

TypeOK ==
    /\ holding \in [Ids -> Holding \union {NULL}]
    /\ item \in [Items -> Item \union {NULL}]
    /\ invoiced \in SUBSET Ids
    /\ pending \in Pending \union {NULL}
    /\ faults \in 0..MaxFaults
    /\ silent \in SUBSET Ids

Init ==
    /\ holding = [h \in Ids |-> NULL]
    /\ item = [i \in Items |-> NULL]
    /\ invoiced = {}
    /\ pending = NULL
    /\ faults = 0
    /\ silent = {}

Idle == pending = NULL

Stored == {h \in Ids: holding[h] # NULL}

-----------------------------------------------------------------------------
(* The rules of the domain class, checked by its constructor.              *)

AccountRules(r) ==
    /\ r.descs = <<>>
    /\ r.provider
    /\ r.claim = "custodial"

SelfCustodyRules(r) ==
    /\ r.descs # <<>>
    /\ ~r.provider
    /\ r.claim = "own"

(* _reject_strongbox_metadata, _reject_vault_metadata                      *)
NoStrongboxMetadata(r) == ~r.label /\ r.present = "unset"
NoVaultMetadata(r) == r.vault = "none"

(* _validate_vault_metadata                                                *)
ValidVaultMetadata(r) == r.vault # "short"

Constructs(r) ==
    /\ IF r.type = "account" THEN AccountRules(r) ELSE SelfCustodyRules(r)
    /\ r.type # "strongbox" => NoStrongboxMetadata(r)
    /\ IF r.type = "vault" THEN ValidVaultMetadata(r) ELSE NoVaultMetadata(r)

(* uq_descriptor_expression: a text is stored once.                        *)
ExpressionFree(d) == \A h \in Stored: \A n \in 1..Len(holding[h].descs): holding[h].descs[n] # d

-----------------------------------------------------------------------------
(* Creation: the row, its descriptors and the constructor in one           *)
(* transaction, then the item in a second one.                             *)

Row(type, claim, d, label, present, vault, onDevice) ==
    [type |-> type, claim |-> claim, provider |-> FALSE, descs |-> <<d>>, label |-> label,
     present |-> present, vault |-> vault, onDevice |-> onDevice]

CreateHolding(h, r, emits, type) ==
    /\ Idle
    /\ holding[h] = NULL
    /\ ExpressionFree(r.descs[1])
    /\ Imports(r.type, ExpressionOf(r.descs[1]))
    /\ Constructs(r)
    /\ holding' = [holding EXCEPT ![h] = r]
    /\ pending' = IF emits THEN [holding |-> h, type |-> type] ELSE NULL
    /\ silent' = silent \ {h}
    /\ UNCHANGED <<item, invoiced, faults>>

(* The modes with a seed on the device get a seed_backup item.             *)
CreatePurse(h, claim, d, onDevice) ==
    CreateHolding(h, Row("purse", claim, d, FALSE, "unset", "none", onDevice), onDevice,
                  "seed_backup")

(* present is what the client says of the descriptor.                      *)
CreateStrongbox(h, claim, d, label, present) ==
    CreateHolding(h, Row("strongbox", claim, d, label, present, "none", FALSE),
                  present = "no", "missing_signing_metadata")

(* The numbers of a Vault come from its first descriptor.                  *)
SignersOf(d) == IF SignersValid(ExpressionOf(d)) THEN "signers" ELSE "short"

CreateVault(h, claim, d) ==
    CreateHolding(h, Row("vault", claim, d, FALSE, "unset", SignersOf(d), FALSE), ~d.origin,
                  "missing_signing_metadata")

-----------------------------------------------------------------------------
(* Account: the provider took the credentials, now or in the wizard's      *)
(* validation, and its row is inserted with the holding.                   *)

AccountRow(claim) ==
    [type |-> "account", claim |-> claim, provider |-> TRUE, descs |-> <<>>, label |-> FALSE,
     present |-> "unset", vault |-> "none", onDevice |-> FALSE]

CreateAccountHolding(h, claim) ==
    LET r == AccountRow(claim)
    IN  /\ Idle
        /\ holding[h] = NULL
        /\ Constructs(r)
        /\ holding' = [holding EXCEPT ![h] = r]
        /\ silent' = silent \ {h}
        /\ UNCHANGED <<item, invoiced, pending, faults>>

-----------------------------------------------------------------------------
(* Changes.  A handler that changes a row builds the domain object before  *)
(* its commit, and rolls back when the constructor raises.                 *)

Changes(h, r) ==
    /\ Idle
    /\ h \in Stored
    /\ Constructs(r)
    /\ holding' = [holding EXCEPT ![h] = r]
    /\ UNCHANGED <<item, invoiced, pending, faults, silent>>

PatchDeclaredSecurity(h, claim) == Changes(h, [holding[h] EXCEPT !.claim = claim])

PatchSigningDeviceLabel(h, label) ==
    /\ h \in Stored
    /\ holding[h].type = "strongbox"
    /\ Changes(h, [holding[h] EXCEPT !.label = label])

VaultNotes(r, notes) ==
    IF r.vault \in {"signers", "short"} THEN r.vault ELSE IF notes THEN "notes" ELSE "none"

PatchRecoverySetupNotes(h, notes) ==
    /\ h \in Stored
    /\ holding[h].type = "vault"
    /\ Changes(h, [holding[h] EXCEPT !.vault = VaultNotes(holding[h], notes)])

(* Mutant: the domain object is not built.                                 *)
ChangeTypeUnchecked(h, type) ==
    /\ Idle
    /\ h \in Stored
    /\ type # "account"
    /\ holding[h].descs # <<>>
    /\ holding' = [holding EXCEPT ![h].type = type]
    /\ UNCHANGED <<item, invoiced, pending, faults, silent>>

(* change_type: the subtype_data of the old type stays in the row.         *)
Retyped(r, type) == [r EXCEPT !.type = type]

ChangeHoldingType(h, type) ==
    /\ h \in Stored
    /\ type # "account"
    /\ holding[h].descs # <<>>
    /\ Changes(h, Retyped(holding[h], type))

(* attach_descriptor looks at the raw row and parses without multisig.     *)
AttachDescriptor(h, d) ==
    /\ Idle
    /\ h \in Stored
    /\ holding[h].type # "account"
    /\ Parses(ExpressionOf(d), FALSE)
    /\ ExpressionFree(d)
    /\ Len(holding[h].descs) < MaxDescs
    /\ holding' = [holding EXCEPT ![h] = [holding[h] EXCEPT !.descs = Append(holding[h].descs, d)]]
    /\ UNCHANGED <<item, invoiced, pending, faults, silent>>

(* get_holding: an unknown id is refused, and an illegal row raises.       *)
GetHolding(h) == h \in Stored /\ Constructs(holding[h])

(* create_invoice reads the holding and reserves an address.               *)
CreateInvoice(h) ==
    /\ Idle
    /\ GetHolding(h)
    /\ holding[h].type # "account"
    /\ invoiced' = invoiced \union {h}
    /\ UNCHANGED <<holding, item, pending, faults, silent>>

-----------------------------------------------------------------------------
(* Deletion.                                                               *)

(* The cascade deletes addresses before the invoices of the holding: a     *)
(* foreign key that restricts refuses the first of these.                  *)
DeletePasses(h) == h \notin invoiced

(* Items go with their holding.                                            *)
ItemsWithout(h) ==
    [i \in Items |-> IF item[i] # NULL /\ item[i].holding = h THEN NULL ELSE item[i]]

(* delete_holding goes by the raw row.                                     *)
DeleteHolding(h) ==
    /\ Idle
    /\ h \in Stored
    /\ DeletePasses(h)
    /\ holding' = [holding EXCEPT ![h] = NULL]
    /\ item' = ItemsWithout(h)
    /\ invoiced' = invoiced \ {h}
    /\ silent' = silent \ {h}
    /\ UNCHANGED <<pending, faults>>

-----------------------------------------------------------------------------
(* Security-health items.                                                  *)

(* Mutant: the filter on the holding is left out.                          *)
HasOpenItemOfAny(type, h) ==
    \E i \in Items: item[i] # NULL /\ item[i].type = type /\ item[i].state = "open"

HasOpenItemOfType(type, h) ==
    \E i \in Items: /\ item[i] # NULL
                    /\ item[i].type = type
                    /\ item[i].state = "open"
                    /\ item[i].holding = h

Insert(i, type, h) ==
    /\ item[i] = NULL
    /\ item' = [item EXCEPT ![i] = [type |-> type, holding |-> h, state |-> "open"]]

(* emit_seed_backup_item and emit_missing_signing_metadata_item: the       *)
(* second transaction of a creation.                                       *)
EmitItem(i) ==
    /\ pending # NULL
    /\ IF HasOpenItemOfType(pending.type, pending.holding) THEN UNCHANGED item
       ELSE Insert(i, pending.type, pending.holding)
    /\ pending' = NULL
    /\ UNCHANGED <<holding, invoiced, faults, silent>>

(* The process ends, or the second transaction fails.                      *)
EmitFails ==
    /\ pending # NULL
    /\ faults < MaxFaults
    /\ faults' = faults + 1
    /\ silent' = silent \union {pending.holding}
    /\ pending' = NULL
    /\ UNCHANGED <<holding, item, invoiced>>

SetItem(i, state) == [type |-> item[i].type, holding |-> item[i].holding, state |-> state]

(* resolve_item: only an open item; a user may also claim a fix.           *)
ResolveItem(i, state) ==
    /\ Idle
    /\ item[i] # NULL
    /\ item[i].state = "open"
    /\ item' = [item EXCEPT ![i] = SetItem(i, state)]
    /\ UNCHANGED <<holding, invoiced, pending, faults, silent>>

ReviveItem(i) ==
    /\ Idle
    /\ item[i] # NULL
    /\ item[i].state = "dismissed_intentional"
    /\ item' = [item EXCEPT ![i] = SetItem(i, "open")]
    /\ UNCHANGED <<holding, invoiced, pending, faults, silent>>

(* The descriptor with its key origin: re-exported, perhaps in another     *)
(* spelling, or grafted from what the user typed.                          *)
GraftOrigin(d, text) == [text |-> text, origin |-> TRUE]

(* resolve_open_items_for_holding                                          *)
ItemsAfterFix(h) ==
    [i \in Items |->
        IF /\ item[i] # NULL
           /\ item[i].holding = h
           /\ item[i].type = "missing_signing_metadata"
           /\ item[i].state = "open"
        THEN SetItem(i, "resolved_by_fix") ELSE item[i]]

Repaired(r, d) ==
    [[r EXCEPT !.descs = [r.descs EXCEPT ![1] = d]] EXCEPT !.present = "yes"]

(* _apply_fix_metadata: the first descriptor gets its origin, the row is   *)
(* marked, and the open items are resolved.  Neither the type is looked at *)
(* nor the domain object built.                                            *)
FixMetadata(h, text) ==
    /\ Idle
    /\ h \in Stored
    /\ holding[h].descs # <<>>
    /\ ShapeOf[text] = ShapeOf[holding[h].descs[1].text]
    /\ LET d == GraftOrigin(holding[h].descs[1], text)
       IN  /\ Parses(ExpressionOf(d), TRUE)
           /\ d = holding[h].descs[1] \/ ExpressionFree(d)
           /\ holding' = [holding EXCEPT ![h] = Repaired(holding[h], d)]
    /\ item' = ItemsAfterFix(h)
    /\ UNCHANGED <<invoiced, pending, faults, silent>>

-----------------------------------------------------------------------------
CreateNext(h) ==
    \/ \E claim \in Claims, d \in Descriptor:
          \/ \E onDevice \in BOOLEAN: CreatePurse(h, claim, d, onDevice)
          \/ \E label \in BOOLEAN, present \in {"unset", "no", "yes"}:
                CreateStrongbox(h, claim, d, label, present)
          \/ CreateVault(h, claim, d)
    \/ \E claim \in Claims: CreateAccountHolding(h, claim)

HoldingNext(h) ==
    \/ CreateNext(h)
    \/ \E claim \in Claims: PatchDeclaredSecurity(h, claim)
    \/ \E b \in BOOLEAN: PatchSigningDeviceLabel(h, b) \/ PatchRecoverySetupNotes(h, b)
    \/ \E type \in Types: ChangeHoldingType(h, type)
    \/ \E d \in Descriptor: AttachDescriptor(h, d)
    \/ CreateInvoice(h)
    \/ DeleteHolding(h)
    \/ \E text \in Texts: FixMetadata(h, text)

ItemNext(i) ==
    \/ EmitItem(i)
    \/ \E state \in ItemStates \ {"open"}: ResolveItem(i, state)
    \/ ReviveItem(i)

Next ==
    \/ \E h \in Ids: HoldingNext(h)
    \/ \E i \in Items: ItemNext(i)
    \/ EmitFails

Spec == Init /\ [][Next]_vars

-----------------------------------------------------------------------------
(* Properties.                                                             *)

(* Mark of a repair on a holding that is no Strongbox: the constructor     *)
(* takes signing_metadata_present only there.                              *)
MarkedByFix(r) == r.type # "strongbox" /\ r.present = "yes"

(* Every stored holding can be read, whatever sequence of creations,       *)
(* patches, type changes and attachments led to it, unless fix_metadata    *)
(* was applied to a holding that is no Strongbox.                          *)
UnreadableOnlyByFix == \A h \in Stored: Constructs(holding[h]) \/ MarkedByFix(holding[h])

(* A text is stored once, through creations, attachments and repairs, and  *)
(* items do not outlive their holding.  Two spellings of one wallet may be *)
(* stored side by side.                                                    *)
RowsConsistent ==
    /\ \A g, h \in Stored:
          \A m \in 1..Len(holding[g].descs), n \in 1..Len(holding[h].descs):
              holding[g].descs[m] = holding[h].descs[n] => g = h /\ m = n
    /\ \A i \in Items: item[i] # NULL => item[i].holding \in Stored

(* The rows as the repositories and the domain class expect to find them.  *)
HoldingsInv == TypeOK /\ RowsConsistent /\ UnreadableOnlyByFix

HasItem(h, type) == \E i \in Items: item[i] # NULL /\ item[i].holding = h /\ item[i].type = type

(* A risk that a holding was created with is known to the user: a seed on  *)
(* the device, metadata declared absent, a Vault without key origin each   *)
(* have an item, as long as the holding lives and whatever type it has     *)
(* now, unless the handler ended between its commits.                      *)
RiskIsReported ==
    \A h \in Stored:
        h \notin silent /\ ~(pending # NULL /\ pending.holding = h) =>
            /\ holding[h].onDevice => HasItem(h, "seed_backup")
            /\ holding[h].present = "no" => HasItem(h, "missing_signing_metadata")
            /\ holding[h].vault = "signers" /\ ~holding[h].descs[1].origin
                  => HasItem(h, "missing_signing_metadata")

(* On an empty database the wizard's suggestion can be followed and its    *)
(* rejection cannot be got around, for every expression but a plain wsh(), *)
(* keys that are not counted and a hidden branch in Taproot.               *)
SuggestionWorks == Stored = {} => WizardAgrees

-----------------------------------------------------------------------------
(* What the repository's text says and the code does not do.  No run has   *)
(* this: TLC refutes it on the instance of the passing run.                *)

(* security_health_service.py:81 "Emit a warning missing_signing_metadata  *)
(* item for Strongbox / Vault.", with the repair in ADR 0019:61 "Missing   *)
(* signing-metadata: Strongbox / Vault detail Settings tab.": the repair   *)
(* leaves a holding that can be read.                                      *)
RepairKeepsReadable ==
    [][\A h \in Ids, text \in Texts:
          FixMetadata(h, text) /\ Constructs(holding[h]) => Constructs(holding'[h])]_vars

(* How far it falls short: a Vault that fix_metadata made unreadable stays *)
(* so until it is deleted.  No patch and no change of type gets it past    *)
(* the constructor.                                                        *)
DeadVaultForever ==
    [][\A h \in Ids:
          holding[h] # NULL /\ holding[h].vault = "signers" /\ ~Constructs(holding[h])
              => holding'[h] = NULL \/ ~Constructs(holding'[h])]_vars
=============================================================================
