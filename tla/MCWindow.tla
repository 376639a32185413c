----------------------------- MODULE MCWindow -----------------------------
(* Small instances of Window: a vault with a note, a damaged one and a       *)
(* credential, or with no note; and one with a note and a credential.        *)
EXTENDS Window, TLC

CONSTANTS n1, n2, t1, t2, c1, c2

SomeNotes == {n1 :> Never @@ n2 :> Never, n1 :> Damaged @@ n2 :> t1}
SomeCredentials == c1 :> "stored" @@ c2 :> Never
OneNote == {n1 :> t1}
OneCredential == c1 :> "stored"
=============================================================================
