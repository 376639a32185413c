--------------------------- MODULE SessionPromise ---------------------------
(***************************************************************************)
(* What the main window promises the person who writes in it, with no      *)
(* timers, lists or dialogs: a note that is open for editing goes to its   *)
(* own row, and locking throws away none of it unless the user was asked   *)
(* and agreed, or had another vault put in place.  Window implements it.   *)
(***************************************************************************)
CONSTANTS
  Note,       \* note ids
  Text,       \* what a note can say
  Never,      \* the row of an id not given to a note yet
  Gone,       \* the row of a deleted note
  Damaged     \* a row that does not decrypt

VARIABLES
  state,      \* "locked", "open", or "asking" whether to lock and discard
  rows,       \* what each note says in the vault
  editing,    \* the note being edited and what it says on the screen
  restoring   \* the user is having another vault put in place

promise == <<state, rows, editing, restoring>>

NoEdit == [note |-> Never, text |-> Never]
Row == Text \union {Never, Gone, Damaged}
Edit == [note: Note, text: Text] \union {NoEdit}

Init ==
  /\ state = "locked"
  /\ rows \in [Note -> Row]
  /\ editing = NoEdit
  /\ restoring = FALSE

\* What is on the screen is in its row.
Stored == IF editing = NoEdit THEN rows ELSE [rows EXCEPT ![editing.note] = editing.text]

\* A row is written with what its own note says on the screen, is a new note's,
\* or is deleted.
RowsFollow ==
  \A n \in Note : rows'[n] \in {rows[n], Stored[n], Gone} \/ rows[n] = Never

Unlock ==
  /\ state = "locked" /\ state' = "open"
  /\ rows' \in [Note -> Row] /\ \A n \in Note : rows[n] # Never => rows'[n] = rows[n]
  /\ editing' \in Edit
  /\ UNCHANGED restoring

Work ==
  /\ state = "open" /\ state' = "open"
  /\ rows' \in [Note -> Row] /\ RowsFollow
  /\ editing' \in Edit
  /\ restoring' \in BOOLEAN

Lock ==
  /\ state = "open" /\ state' = "locked"
  /\ rows' = Stored
  /\ editing' = NoEdit
  /\ UNCHANGED restoring

Ask ==
  /\ state = "open" /\ state' = "asking"
  /\ rows' \in {rows, Stored}
  /\ UNCHANGED <<editing, restoring>>

Save ==
  /\ state = "asking"
  /\ rows' = Stored
  /\ UNCHANGED <<state, editing, restoring>>

Answer ==
  /\ state = "asking"
  /\ \/ state' = "open" /\ UNCHANGED editing
     \/ state' = "locked" /\ editing' = NoEdit
  /\ UNCHANGED <<rows, restoring>>

\* A question that was open when the vault was locked is still answered.
DeleteLocked ==
  /\ state = "locked"
  /\ \E n \in Note : rows' = [rows EXCEPT ![n] = Gone]
  /\ UNCHANGED <<state, editing, restoring>>

CancelLocked ==
  /\ state = "locked" /\ restoring
  /\ restoring' = FALSE
  /\ UNCHANGED <<state, rows, editing>>

Replace ==
  /\ state \in {"open", "locked"} /\ state' = "locked"
  /\ restoring /\ restoring' = FALSE
  /\ rows' \in [Note -> Row]
  /\ editing' = NoEdit

Next ==
  \/ Unlock \/ Work \/ Lock \/ Ask \/ Save \/ Answer \/ DeleteLocked
  \/ CancelLocked \/ Replace

Spec == Init /\ [][Next]_promise
=============================================================================
