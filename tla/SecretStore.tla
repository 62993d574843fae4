------------------------------ MODULE SecretStore ------------------------------
(***************************************************************************)
(* The encrypted secret store (infrastructure/secrets.py, cryptography.py):*)
(* the parameters of the key derivation, the canary that tells the right   *)
(* passphrase from a wrong one, the secrets, and the key that an unlocked  *)
(* backend keeps in memory.  A key is named by the passphrase it is        *)
(* derived from: the parameters, and with them the salt, are written once. *)
(* Each store operation opens a session of its own and commits it, so each *)
(* operator below that writes is one committed step.                       *)
(***************************************************************************)
CONSTANTS Passphrases,  \* what a user may type
          Refs,         \* reference strings of secrets, the canary's excluded
          NULL

ASSUME StoreConstants == NULL \notin Passphrases

VARIABLES
    params,   \* the row of crypto_parameters exists
    canary,   \* the key the canary is encrypted with, NULL without a canary
    key,      \* _key: the key in memory, NULL while locked
    secrets   \* per reference, the key it is encrypted with, NULL if absent

storeVars == <<params, canary, key, secrets>>

KeyOrNull == Passphrases \union {NULL}

StoreTypeOK ==
    /\ params \in BOOLEAN
    /\ canary \in KeyOrNull
    /\ key \in KeyOrNull
    /\ secrets \in [Refs -> KeyOrNull]

StoreInit ==
    /\ params = FALSE
    /\ canary = NULL
    /\ key = NULL
    /\ secrets = [r \in Refs |-> NULL]

IsUnlocked == key # NULL

(* decrypt(encrypted, key): AES-GCM accepts only the key that encrypted.   *)
Decrypts(encryptedWith, k) == encryptedWith = k

(* get_secret succeeds: unlocked, the row is there, and the tag verifies.  *)
Readable(r) == IsUnlocked /\ secrets[r] # NULL /\ Decrypts(secrets[r], key)

(* initialize is three steps: the parameters, the canary, the key.         *)
StoreKdfParameters ==
    /\ ~params
    /\ params' = TRUE
    /\ UNCHANGED <<canary, key, secrets>>

StoreCanary(p) ==
    /\ canary' = p
    /\ UNCHANGED <<params, key, secrets>>

HoldKey(p) ==
    /\ key' = p
    /\ UNCHANGED <<params, canary, secrets>>

(* unlock raises without parameters, without a canary, and when the canary *)
(* does not decrypt.                                                       *)
Unlocks(p) == params /\ canary # NULL /\ Decrypts(canary, p)

Unlock(p) ==
    /\ Unlocks(p)
    /\ HoldKey(p)

(* lock, and the end of the process: the key is only in memory.            *)
Lock ==
    /\ key' = NULL
    /\ UNCHANGED <<params, canary, secrets>>

SetSecret(r) ==
    /\ IsUnlocked
    /\ secrets' = [secrets EXCEPT ![r] = key]
    /\ UNCHANGED <<params, canary, key>>

DeleteSecret(r) ==
    /\ IsUnlocked
    /\ secrets' = [secrets EXCEPT ![r] = NULL]
    /\ UNCHANGED <<params, canary, key>>
=============================================================================
