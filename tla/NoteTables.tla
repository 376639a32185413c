----------------------------- MODULE NoteTables -----------------------------
(***************************************************************************)
(* The tables behind a note: notes, folders, attached images and sealed    *)
(* blocks, and the repositories that write them.  A repository operation   *)
(* runs several statements, mostly without a transaction, and any of them  *)
(* may fail: each operator below gives the set of everything its operation *)
(* may return and leave in the database.  A crash inside an operation      *)
(* leaves the database as one of its failures does.                        *)
(*                                                                         *)
(* A body is a sequence of units.  A sealed block as typed takes           *)
(* BlockWidth units, the marker that stands for it once it is stored       *)
(* MarkerWidth, and a word or an image's URL one.                          *)
(***************************************************************************)
EXTENDS Integers, Sequences, FiniteSets, SequencesExt

CONSTANTS
  Note, Folder, Block, Image,  \* row ids
  Inbox,                       \* the folder of that name
  Word, Secret,                \* what is typed: plainly, and inside a sealed block
  BlockWidth, MarkerWidth,
  None                         \* no row

ASSUME NoteTablesAssumption ==
  /\ Inbox \in Folder
  /\ BlockWidth \in Nat \ {0} /\ MarkerWidth \in Nat \ {0}
  /\ None \notin Note \union Folder
  /\ \A S \in {Secret, Block, Image} : S \intersect Word = {}
  /\ Secret \intersect Block = {} /\ Secret \intersect Image = {} /\ Block \intersect Image = {}

VARIABLES
  db,        \* the database: one field for each table
  unlocked,  \* VaultSession::isUnlocked
  copies     \* history: the notes that Duplicate made, or had made before

Unit == Word \union Secret \union Block \union Image

\* A row was not created yet, or is deleted, or is a note that does not decrypt, or
\* is one that is used.
Never == [is |-> "never"]
Gone == [is |-> "gone"]
Damaged == [is |-> "damaged"]
IsRow(row) == row.is \notin {"never", "gone"}

\* The title goes with the body; the star and the tags with the folder.
NoteRow(body, folder) == [is |-> "note", body |-> body, folder |-> folder]
BlockRow(note, secret) == [is |-> "block", note |-> note, secret |-> secret]
ImageRow(note) == [is |-> "image", note |-> note]

Tables ==
  [notes: [Note -> {Never, Gone, Damaged} \union
                   [is: {"note"}, body: Seq(Unit), folder: Folder \union {None}]],
   blocks: [Block -> {Never, Gone} \union [is: {"block"}, note: Note, secret: Secret]],
   images: [Image -> {Never, Gone} \union [is: {"image"}, note: Note]],
   folders: SUBSET Folder, default: Folder \union {None}]

Exists(d, n) == IsRow(d.notes[n])
Stored(d, n) == d.notes[n].is = "note"
BlocksOf(d, n) == {b \in Block : IsRow(d.blocks[b]) /\ d.blocks[b].note = n}
ImagesOf(d, n) == {i \in Image : IsRow(d.images[i]) /\ d.images[i].note = n}

----------------------------------------------------------------------------
(* Bodies.                                                                 *)

Typed(s) == [i \in 1..BlockWidth |-> s]
Marker(b) == [i \in 1..MarkerWidth |-> b]

IsAt(body, p, part) ==
  p + Len(part) - 1 <= Len(body) /\ SubSeq(body, p, p + Len(part) - 1) = part

Has(body, part) == \E p \in DOMAIN body : IsAt(body, p, part)

\* Where a sealed block starts.
Seals(body) == {p \in DOMAIN body : \E s \in Secret : IsAt(body, p, Typed(s))}

\* What a body says, its markers read through the blocks of the note.
Holds(d, n, body) ==
  {u \in Word \union Image : Has(body, <<u>>)} \union {s \in Secret : Has(body, Typed(s))}
  \union {d.blocks[b].secret : b \in {c \in BlocksOf(d, n) : Has(body, Marker(c))}}

\* What a body refers to was created.
Known(d, body) ==
  \A u \in Range(body) : (u \in Block => d.blocks[u] # Never) /\ (u \in Image => d.images[u] # Never)

\* It is the note's, or an image deleted since.
Resolves(d, n, body) ==
  \A u \in Range(body) :
    (u \in Block => u \in BlocksOf(d, n)) /\ (u \in Image => d.images[u] \in {ImageRow(n), Gone})

\* QString::replace.
Replaced(body, p, width, part) ==
  IF p > Len(body) + 1 THEN body
  ELSE SubSeq(body, 1, p - 1) \o part \o SubSeq(body, p + width, Len(body))

\* SealedBlockRepository::processBodyForSave with the blocks stored for some of the
\* seals: from the first on, each is replaced where it was in the body as typed.
MarkedUpTo(body, stored) ==
  LET upTo[p \in 0..Len(body)] ==
        IF p = 0 THEN body
        ELSE IF p \in DOMAIN stored THEN Replaced(upTo[p - 1], p, BlockWidth, Marker(stored[p]))
        ELSE upTo[p - 1]
  IN upTo

MarkedBody(body, stored) == MarkedUpTo(body, stored)[Len(body)]

\* A seal becomes a marker although its block was not stored.
MutProcessBodyForSave(d, n, body) ==
  LET free == {b \in Block : d.blocks[b] = Never} IN
  {[body |-> MarkedBody(body, f), db |-> d] : f \in {g \in [Seals(body) -> free] : IsInjective(g)}}

\* SealedBlockRepository::processBodyForSave and upsertBlock: a fresh row for every
\* seal that could be stored.
processBodyForSave(d, n, body) ==
  LET free == {b \in Block : d.blocks[b] = Never}
      fresh == UNION {{f \in [S -> free] : IsInjective(f)} :
                        S \in SUBSET (IF unlocked THEN Seals(body) ELSE {})}
      row(f, b) == BlockRow(n, body[CHOOSE p \in DOMAIN f : f[p] = b])
  IN {[body |-> MarkedBody(body, f),
       db |-> [d EXCEPT !.blocks = [b \in Block |-> IF b \in Range(f) THEN row(f, b) ELSE @[b]]]] : f \in fresh}

----------------------------------------------------------------------------
(* Folders.                                                                *)

createFolder(d, f) == {d, [d EXCEPT !.folders = @ \union {f}]}

\* NoteRepository::ensureDefaultFolder.
ensureDefaultFolder(d) ==
  IF Inbox \in d.folders
  THEN {[folder |-> Inbox, db |-> e] :
          e \in IF d.default = None THEN {d, [d EXCEPT !.default = Inbox]} ELSE {d}}
  ELSE {[folder |-> IF Inbox \in e.folders THEN Inbox ELSE None, db |-> e] :
          e \in createFolder(d, Inbox) \union {[d EXCEPT !.folders = @ \union {Inbox}, !.default = Inbox]}}

----------------------------------------------------------------------------
(* Notes.                                                                  *)

\* NoteRepository::updateNote.
updateNote(d, n, row) ==
  {[ok |-> FALSE, db |-> d]} \union
  (IF unlocked /\ Exists(d, n) /\ row.folder \in d.folders \union {None}
   THEN {[ok |-> TRUE, db |-> [d EXCEPT !.notes[n] = row]]} ELSE {})

\* NoteRepository::createNote, in a transaction.
createNote(d, n, row) ==
  {[ok |-> FALSE, db |-> d]} \union
  (IF unlocked /\ d.notes[n] = Never /\ row.folder \in d.folders \union {None}
   THEN {[ok |-> TRUE, db |-> [d EXCEPT !.notes[n] = row]]} ELSE {})

\* The foreign keys are off: what belongs to a note stays.
MutDeleteNote(d, n) == [d EXCEPT !.notes[n] = Gone]

\* What belongs to a note is detached from it (ON DELETE SET NULL).
MutDetach(d, n) ==
  [d EXCEPT !.notes[n] = Gone,
            !.images = [i \in Image |-> IF i \in ImagesOf(d, n) THEN ImageRow(None) ELSE @[i]]]

\* NoteRepository::deleteNote and its cascades.
deleteNote(d, n) ==
  [d EXCEPT !.notes[n] = Gone,
            !.blocks = [b \in Block |-> IF b \in BlocksOf(d, n) THEN Gone ELSE @[b]],
            !.images = [i \in Image |-> IF i \in ImagesOf(d, n) THEN Gone ELSE @[i]]]

\* NoteRepository::duplicateNoteWithAttachments, of a note that decrypts: the copy's
\* body is the original's.  duplicateAttachments begins a transaction inside this
\* one, which fails, so that it copies nothing.
duplicateNoteWithAttachments(d, n, copy) == createNote(d, copy, d.notes[n])

----------------------------------------------------------------------------
(* Attached images.                                                        *)

\* AttachmentRepository::storeAttachment: a locked session's empty key is refused.
storeAttachment(d, i, n) ==
  {[ok |-> FALSE, db |-> d]} \union
  (IF unlocked /\ d.images[i] = Never /\ Exists(d, n)
   THEN {[ok |-> TRUE, db |-> [d EXCEPT !.images[i] = ImageRow(n)]]} ELSE {})

\* AttachmentRepository::deleteAttachment: the note's body is left alone.
deleteAttachment(d, i) == {d, [d EXCEPT !.images[i] = Gone]}

=============================================================================
