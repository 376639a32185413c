-------------------------------- MODULE Notes --------------------------------
(***************************************************************************)
(* A vault's notes, kept at the desktop or on the phone: the same tables   *)
(* behind either front end.                                                *)
(***************************************************************************)
EXTENDS DeskNotes, PhoneNotes

CONSTANT Vaults  \* what the tables may be when the program is first started

ASSUME NotesAssumption == Vaults \subseteq Tables

VARIABLE front  \* which front end this is

vars == <<db, unlocked, copies, open, phoneVars, front>>

\* Nothing in a vault refers to a row it does not have.
Sound(d) ==
  /\ \A b \in Block : IsRow(d.blocks[b]) => Exists(d, d.blocks[b].note)
  /\ \A i \in Image : IsRow(d.images[i]) => Exists(d, d.images[i].note)
  /\ \A n \in Note : Stored(d, n) => d.notes[n].folder \in d.folders \union {None}
  /\ d.default \in d.folders \union {None}

\* Nor does a note's text refer to one that was never created: ids are random.
Intelligible(d) == \A n \in Note : Stored(d, n) => Known(d, d.notes[n].body)

Init ==
  /\ front \in {"desktop", "phone"}
  /\ db \in {d \in Vaults : Sound(d) /\ Intelligible(d)}
  /\ unlocked = FALSE
  /\ copies = {n \in Note : Stored(db, n) /\ ~Resolves(db, n, db.notes[n].body)}
  /\ open = Closed
  /\ screen = Blank /\ camera = None /\ pending = None /\ setting = None

Next ==
  \/ front = "desktop" /\ DeskNext /\ UNCHANGED <<phoneVars, front>>
  \/ front = "phone" /\ PhoneNext /\ UNCHANGED <<open, front>>

Spec == Init /\ [][Next]_vars

----------------------------------------------------------------------------
(* Properties.                                                             *)

\* Every variable has its type.
TypeOK ==
  /\ db \in Tables /\ unlocked \in BOOLEAN /\ copies \subseteq Note
  /\ open \in Editor
  /\ screen \in Screen /\ {camera, pending, setting} \subseteq Note \union {None}
  /\ front \in {"desktop", "phone"}

\* Sealed blocks, images and folders are never left behind by, or lost to, a note:
\* deleting a note takes what belongs to it, and nothing is stored for a note that is
\* gone (a photo taken for it, a block of its editor's text).
RowsOfNotes == Sound(db)

\* What the editor calls saved is in the vault: with its blocks revealed the stored
\* note says what the editor shows, whichever statement of an earlier save failed.
\* With two sealed blocks in a text this does not hold (README).
SavedIsHeld ==
  open.id # None /\ open.saved /\ ~open.err /\ Cardinality(Seals(open.body)) <= 1
  => Holds(db, open.id, db.notes[open.id].body) = Holds(db, open.id, open.body)

\* A reference in a stored note is to a block or an image of that note, or to an
\* image deleted since: it is stored before the note that refers to it, and a photo
\* that comes late is not referred to by another note.  A copy refers to what its
\* original has or had.
ReferencesResolve ==
  /\ Intelligible(db)
  /\ \A n \in Note \ copies : Stored(db, n) => Resolves(db, n, db.notes[n].body)

\* What a stored note says changes only while it is open, and then to what its editor
\* shows: no save, selection, copy or deletion of another note touches it.
WrittenIsTyped ==
  [][\A n \in Note :
       LET said == Holds(db, n, db.notes[n].body)
           says == Holds(db', n, db'.notes[n].body)
       IN Stored(db, n) /\ Stored(db', n) /\ said # says =>
          \/ open.id = n /\ (Cardinality(Seals(open.body)) <= 1 => says = Holds(db', n, open.body))
          \/ screen.id = n /\ says = Holds(db', n, screen.body)]_vars

\* A photo is stored for the note it was taken for, whatever is open when it comes and
\* whether or not the process is the same.
PhotoGoesHome ==
  [][\A i \in Image :
       camera # None /\ camera' = None /\ db.images[i] = Never /\ db'.images[i] # Never
       => db'.images[i] = ImageRow(camera)]_vars
=============================================================================
