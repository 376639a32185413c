------------------------------ MODULE MCNotes ------------------------------
(* Small instances of Notes, of two notes: a vault without folders where one  *)
(* was deleted; a filed one and one not yet created; a filed one and one that *)
(* does not decrypt.                                                          *)
EXTENDS Notes, TLC

CONSTANTS n1, n2, f1, b1, b2, i1, w1, s1

EmptyVault ==
  [notes |-> n1 :> Never @@ n2 :> Gone, blocks |-> [b \in Block |-> Never],
   images |-> [i \in Image |-> Never], folders |-> {}, default |-> None]

UsedVault(other) ==
  [EmptyVault EXCEPT !.notes = n1 :> NoteRow(<<w1>>, f1) @@ n2 :> other,
                     !.folders = {f1}, !.default = f1]

SomeVaults == {EmptyVault, UsedVault(Never), UsedVault(Damaged)}
References == Permutations(Block)
============================================================================
