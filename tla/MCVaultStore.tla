---------------------------- MODULE MCVaultStore ----------------------------
(* VaultStore with small constants for TLC.                                *)
EXTENDS VaultStore, TLC

CONSTANTS p1, p2, i1

MCPassword == {p1, p2}
MCId == {i1}
MCField == {"note", "attachment", "credential", "policy", "totp"}
Symmetry == Permutations(MCPassword)
=============================================================================
