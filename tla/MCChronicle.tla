---------------------------- MODULE MCChronicle ----------------------------
(* A small instance of Chronicle: three entries, with and without a summary,  *)
(* and two password changes.                                                 *)
EXTENDS Chronicle

CONSTANTS event, said
============================================================================
