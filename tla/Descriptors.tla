------------------------------ MODULE Descriptors ------------------------------
(***************************************************************************)
(* What the descriptor adapter makes of an expression.  Two functions read *)
(* the same text independently: parse decides whether a descriptor can be  *)
(* stored and what it says, classify_descriptor which kind of holding the  *)
(* wizard suggests for it.  An expression is described by the facts these  *)
(* functions look at: the type the bdk library gives it and the fragments  *)
(* their patterns search for.                                              *)
(***************************************************************************)
EXTENDS Integers

CONSTANT MaxKeys   \* bound: threshold of a multi clause, extended keys in a text

ASSUME DescriptorsConstants == MaxKeys \in Nat \ {0}

SingleKeyTypes == {"PKH", "WPKH", "SH_WPKH", "TR"}
MultisigTypes == {"SH_SORTED_MULTI", "WSH_SORTED_MULTI", "SH_WSH_SORTED_MULTI"}
MiniscriptTypes == {"WSH", "SH"}

(* Texts that are no descriptor: a bare extended key, an address, anything *)
(* bdk refuses.  SH_WSH and BARE are descriptors that no set above names.  *)
NoDescriptor == {"KEY", "ADDRESS", "GARBAGE"}
Forms == SingleKeyTypes \union MultisigTypes \union MiniscriptTypes
            \union {"SH_WSH", "BARE"} \union NoDescriptor

(* Without fragments; with a multi clause by definition; with any script.  *)
PlainForms == {"PKH", "WPKH", "SH_WPKH", "BARE"} \union NoDescriptor
ScriptForms == {"TR", "WSH", "SH", "SH_WSH"}

(* The texts that exist: multi for a (sorted)multi(_a) clause, lock for    *)
(* after() and older(), branch for or_x, thresh and hash locks, lsp for    *)
(* the two-party shape, which is a branch with a relative lock.  A multi   *)
(* clause has a threshold, and xpubs of the keys in its text are extended  *)
(* keys: the others are raw public keys, which bdk takes as well.          *)
Facts ==
    [form: Forms, multi: BOOLEAN, lock: {"none", "cltv", "csv"}, branch: BOOLEAN,
     lsp: BOOLEAN, multipath: BOOLEAN, origin: BOOLEAN, required: 0..MaxKeys,
     xpubs: 0..MaxKeys]

Expressions ==
    {e \in Facts:
        /\ e.multi <=> e.required > 0
        /\ ~e.multi => e.xpubs = 0
        /\ e.form \in PlainForms => ~e.multi
        /\ e.form \in MultisigTypes => e.multi
        /\ e.form \notin ScriptForms => e.lock = "none" /\ ~e.branch
        /\ e.form \in NoDescriptor => ~e.multipath /\ ~e.origin
        /\ e.lsp => e.branch /\ e.lock = "csv"}

VaultTaproot(e) == e.form = "TR" /\ (e.lock # "none" \/ e.multi)

(* parse returns instead of raising.  allow is the allow_multisig flag.    *)
Parses(e, allow) ==
    /\ e.form \notin NoDescriptor
    /\ ~e.multipath
    /\ \/ e.form \in MultisigTypes /\ allow
       \/ e.form \in MiniscriptTypes /\ allow /\ ~e.branch /\ (e.form = "SH" => e.multi)
       \/ e.form \in SingleKeyTypes /\ (VaultTaproot(e) => allow /\ ~e.branch)

(* is_multisig or timelock_kind of the parsed descriptor.                  *)
IsVaultShape(e) == e.multi \/ e.lock # "none"

(* _extract_multisig_params counts the extended keys and takes the key of  *)
(* a Taproot output off; what it cannot count is None.                     *)
TotalSigners(e) == IF e.form = "TR" THEN e.xpubs - 1 ELSE e.xpubs

(* _validate_vault_metadata: the two numbers are set together and in       *)
(* order.  Without a multi clause both are 1.                              *)
SignersValid(e) == e.multi => TotalSigners(e) >= e.required

(* _auto_wrap_bare_key: a key becomes a single-key segwit descriptor.      *)
AutoWrapBareKey(e) == IF e.form = "KEY" THEN [e EXCEPT !.form = "WPKH"] ELSE e

SuggestedTypes == {"purse", "strongbox", "vault"}

SingleKeyFit(e) == IF e.origin THEN "strongbox" ELSE "purse"

(* Mutant: a Taproot descriptor is classified by its type alone.           *)
ClassifyByType(e) ==
    IF e.form \in SingleKeyTypes THEN SingleKeyFit(e)
    ELSE IF e.form \in MultisigTypes \union MiniscriptTypes THEN "vault"
    ELSE "unsupported_form"

(* Step 6 of classify_descriptor: the accept set.                          *)
ClassifyByForm(e) ==
    IF VaultTaproot(e) THEN "vault"
    ELSE IF e.form \in SingleKeyTypes THEN SingleKeyFit(e)
    ELSE IF e.form \in MultisigTypes \union MiniscriptTypes
    THEN IF e.form = "SH" /\ ~e.multi THEN "unsupported_form" ELSE "vault"
    ELSE "unsupported_form"

(* classify_descriptor after the wrapping: the first reason to reject, in  *)
(* the order of its checks, or the kind of holding.                        *)
ClassifyDescriptor(e) ==
    IF e.form = "ADDRESS" THEN "single_address_input"
    ELSE IF e.form \in NoDescriptor THEN "unparseable"
    ELSE IF e.multipath THEN "unsupported_form"
    ELSE IF e.lsp THEN "lsp_coordinated_wallet"
    ELSE IF e.branch THEN "multi_path_miniscript"
    ELSE ClassifyByForm(e)

(* best_fit of validate_descriptor, "none" for a rejection.                *)
BestFit(e) ==
    LET fit == ClassifyDescriptor(e)
    IN  IF fit \in SuggestedTypes /\ Parses(e, TRUE) THEN fit ELSE "none"

(* create_vault parses with multisig and asks for the shape of a Vault;    *)
(* the other creations import their descriptor without multisig.           *)
Imports(type, e) ==
    IF type = "vault" THEN Parses(e, TRUE) /\ IsVaultShape(e) ELSE Parses(e, FALSE)

(* The constructor has the last word on a Vault.                           *)
CreationAccepts(type, e) == Imports(type, e) /\ (type = "vault" => SignersValid(e))

(* wsh() around a single key: a Vault for the classifier, a Strongbox for  *)
(* the message of create_vault, and neither for parse.                     *)
PlainWsh(e) == e.form = "WSH" /\ ~e.multi /\ e.lock = "none"

(* A Taproot script with a branch or a hash lock and neither lock nor      *)
(* multi_a: parse looks for branches only where it has seen one of these.  *)
HiddenBranch(e) == e.form = "TR" /\ e.branch /\ ~VaultTaproot(e)

(* A multi clause with fewer countable keys than its threshold: raw keys   *)
(* in it, or as the key of a Taproot output.                               *)
Undercounted(e) == e.multi /\ TotalSigners(e) < e.required

(* The wizard and the creation handlers agree on every expression but      *)
(* three shapes: what is suggested can be created, except for a plain      *)
(* wsh() and for keys that are not counted, and what is rejected cannot,   *)
(* except for a hidden branch in Taproot.                                  *)
WizardAgrees ==
    \A raw \in Expressions:
        LET e == AutoWrapBareKey(raw)
        IN  /\ BestFit(e) # "none" /\ ~PlainWsh(e) /\ ~Undercounted(e)
                   => CreationAccepts(BestFit(e), e)
            /\ BestFit(e) = "none" /\ ~HiddenBranch(e)
                   => \A type \in SuggestedTypes: ~CreationAccepts(type, e)
=============================================================================
