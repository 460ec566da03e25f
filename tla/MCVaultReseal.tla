--------------------------- MODULE MCVaultReseal ---------------------------
(* A small vault and a hook, two rotations.                                *)
EXTENDS VaultReseal
=============================================================================
