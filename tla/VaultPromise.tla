---------------------------- MODULE VaultPromise ----------------------------
(***************************************************************************)
(* What a vault promises its user, with no keys, salts, ciphertexts or     *)
(* transactions: a master password and the plaintexts stored under it,     *)
(* each operation taking effect in one step.  VaultStore implements it.    *)
(***************************************************************************)
EXTENDS Integers

CONSTANTS
  Password,   \* master passwords
  Slot,       \* what the user can store something in
  Value       \* plaintexts

NoPassword == 0
Absent == -1
Unreadable == -2

VARIABLES
  master,    \* the password that opens the vault, NoPassword if there is none
  content,   \* what each slot holds
  open       \* whether the vault is unlocked

promise == <<master, content, open>>

Init ==
  /\ master \in Password \union {NoPassword}
  /\ content \in [Slot -> Value \union {Absent}]
  /\ open = FALSE

Create(p) ==
  /\ master = NoPassword /\ ~open
  /\ master' = p /\ open' = TRUE
  /\ UNCHANGED content

Unlock ==
  /\ master # NoPassword /\ ~open
  /\ open' = TRUE
  /\ UNCHANGED <<master, content>>

ChangePassword(p) ==
  /\ open
  /\ master' = p
  /\ UNCHANGED <<content, open>>

Store(s, v) ==
  /\ open
  /\ content' = [content EXCEPT ![s] = v]
  /\ UNCHANGED <<master, open>>

Remove(slots) ==
  /\ open
  /\ content' = [s \in Slot |-> IF s \in slots THEN Absent ELSE content[s]]
  /\ UNCHANGED <<master, open>>

Lock == open /\ open' = FALSE /\ UNCHANGED <<master, content>>

\* The medium damages what a slot holds; it is recognised as unreadable.
Spoil(s) ==
  /\ content[s] # Absent
  /\ content' = [content EXCEPT ![s] = Unreadable]
  /\ UNCHANGED <<master, open>>

Next ==
  \/ \E p \in Password : Create(p) \/ ChangePassword(p)
  \/ Unlock \/ Lock
  \/ \E s \in Slot, v \in Value : Store(s, v)
  \/ \E slots \in SUBSET Slot : Remove(slots)
  \/ \E s \in Slot : Spoil(s)

Spec == Init /\ [][Next]_promise
=============================================================================
