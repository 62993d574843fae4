------------------------------- MODULE MCAccess --------------------------------
(* Instance of Access for TLC: this component stores no secrets.           *)
EXTENDS Access

CONSTANT Right   \* the passphrase the backend was set up with

MCRefs == {}

(* Passphrases are interchangeable, so that one of them stands for all     *)
(* that the backend may have been set up with.                             *)
MCInit == Init /\ canary \in {Right, NULL}

MCSpec == MCInit /\ [][Next]_vars /\ Fairness
=============================================================================
