------------------------------- MODULE MCCustody -------------------------------
(* Instance of Custody for TLC.                                            *)
EXTENDS Custody

MCRefs == ProviderRefs
=============================================================================
