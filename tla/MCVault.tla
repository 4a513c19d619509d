------------------------------- MODULE MCVault -------------------------------
(* Instances of Vault.                                                       *)
EXTENDS Vault, TLC
=============================================================================
