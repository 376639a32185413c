----------------------------- MODULE MCBridge -----------------------------
(* Small instances of Bridge. *)
EXTENDS Bridge, TLC

Perms == Permutations(Socket)
=============================================================================
