------------------------------ MODULE DeskNotes ------------------------------
(***************************************************************************)
(* Notes at the desktop: the main window's handlers over the note tables,  *)
(* with one note open in the editor.  Dialogs and timers, and what can     *)
(* happen while a dialog is open, are the module Window's; here a handler  *)
(* is one step, and a failed save is told and passed over.                 *)
(***************************************************************************)
EXTENDS NoteTables

CONSTANT MaxTyped  \* units the user types into a body

ASSUME DeskNotesAssumption == MaxTyped \in Nat

VARIABLE open  \* m_currentNoteId, m_currentFolderId and NoteEditor

Editor ==
  [id: Note \union {None}, body: Seq(Unit), folder: Folder \union {None},
   err: BOOLEAN, saved: BOOLEAN]

Closed == [id |-> None, body |-> <<>>, folder |-> None, err |-> FALSE, saved |-> TRUE]

\* MainWindow::loadNote.
Loaded(d, n) ==
  LET row == d.notes[n] IN
  IF row = Damaged THEN [Closed EXCEPT !.id = n, !.folder = d.default, !.err = TRUE]
  ELSE [id |-> n, body |-> row.body, folder |-> IF row.folder # None THEN row.folder ELSE d.default,
        err |-> FALSE, saved |-> TRUE]

\* The blocks are stored, and the note is not.
MutNoteSaves(d, folder) ==
  IF open.err THEN {[ok |-> TRUE, db |-> d, open |-> open]}
  ELSE IF open.id = None THEN {[ok |-> FALSE, db |-> d, open |-> open]}
  ELSE {[ok |-> TRUE, db |-> p.db, open |-> [open EXCEPT !.saved = TRUE, !.folder = folder]] :
          p \in processBodyForSave(d, open.id, open.body)}

\* MainWindow::saveCurrentNote into a folder: the blocks are stored first, then the
\* note that refers to them.  The editor keeps the body as typed.
NoteSaves(d, folder) ==
  IF open.err THEN {[ok |-> TRUE, db |-> d, open |-> open]}
  ELSE IF open.id = None THEN {[ok |-> FALSE, db |-> d, open |-> open]}
  ELSE UNION {{[ok |-> u.ok, db |-> u.db,
                open |-> [open EXCEPT !.saved = u.ok, !.folder = IF u.ok THEN folder ELSE @]] :
                 u \in updateNote(p.db, open.id, NoteRow(p.body, folder))} :
              p \in processBodyForSave(d, open.id, open.body)}

\* The folder saveCurrentNote files a note under unless the user chooses: its own,
\* the default, or one made for it.
Filed ==
  LET f == IF open.folder # None THEN open.folder ELSE db.default IN
  IF f # None \/ open.err \/ open.id = None THEN {[folder |-> f, db |-> db]}
  ELSE ensureDefaultFolder(db)

\* saveCurrentNote from the timer, the star, a selection or a lock.
Saves == UNION {NoteSaves(f.db, f.folder) : f \in Filed}

----------------------------------------------------------------------------

\* The user types in a note that decrypts.
onTextChanged ==
  /\ unlocked /\ open.id # None /\ ~open.err
  /\ \/ /\ Len(open.body) < MaxTyped
        /\ \E part \in {<<w>> : w \in Word} \union {Typed(s) : s \in Secret} :
             open' = [open EXCEPT !.body = @ \o part, !.saved = FALSE]
     \/ open.body # <<>> /\ open' = [open EXCEPT !.body = <<>>, !.saved = FALSE]
  /\ UNCHANGED <<db, unlocked, copies>>

\* MainWindow::onSaveNote, also by the autosave timer, and onFavoriteToggled.
onSaveNote ==
  /\ unlocked /\ open.id # None
  /\ \E s \in Saves : db' = s.db /\ open' = s.open
  /\ UNCHANGED <<unlocked, copies>>

\* MainWindow::onSaveAndClose: the folder picker may also set the default.
onSaveAndClose ==
  /\ unlocked /\ open.id # None
  /\ \E f \in Filed, folder \in db.folders \union {Inbox} :
       /\ folder \in f.db.folders
       /\ \E default \in {f.db.default, folder} :
          \E s \in NoteSaves([f.db EXCEPT !.default = default], folder) :
            db' = s.db /\ open' = IF s.ok /\ ~open.err THEN Closed ELSE s.open
  /\ UNCHANGED <<unlocked, copies>>

\* The note just clicked is what is saved into.
MutOnNoteSelected(n) ==
  /\ unlocked /\ Exists(db, n)
  /\ IF open.id \in {None, n} THEN open' = Loaded(db, n) /\ UNCHANGED db
     ELSE \E u \in updateNote(db, n, NoteRow(open.body, open.folder)) :
            db' = u.db /\ open' = Loaded(u.db, n)
  /\ UNCHANGED <<unlocked, copies>>

\* MainWindow::onNoteSelected: another note than the open one first saves that.
onNoteSelected(n) ==
  /\ unlocked /\ Exists(db, n)
  /\ IF open.id \in {None, n} THEN open' = Loaded(db, n) /\ UNCHANGED db
     ELSE \E s \in Saves : db' = s.db /\ open' = Loaded(s.db, n)
  /\ UNCHANGED <<unlocked, copies>>

\* MainWindow::onNewNote.
onNewNote(n, w) ==
  /\ unlocked /\ db.notes[n] = Never
  /\ \E c \in createNote(db, n, NoteRow(<<w>>, db.default)) :
       db' = c.db /\ open' = IF c.ok THEN Loaded(c.db, n) ELSE open
  /\ UNCHANGED <<unlocked, copies>>

\* The list's Duplicate.
duplicateNote(n, copy) ==
  /\ unlocked /\ Exists(db, n) /\ db.notes[n] # Damaged /\ db.notes[copy] = Never
  /\ \E c \in duplicateNoteWithAttachments(db, n, copy) :
       /\ db' = c.db
       /\ open' = IF c.ok THEN Loaded(c.db, copy) ELSE open
       /\ copies' = IF c.ok THEN copies \union {copy} ELSE copies
  /\ UNCHANGED unlocked

\* The list's Delete: the editor is emptied if the note is open, even if the row stays.
removeNote(n) ==
  /\ unlocked /\ Exists(db, n)
  /\ db' \in {db, deleteNote(db, n)}
  /\ open' = IF open.id = n THEN [open EXCEPT !.id = None, !.body = <<>>] ELSE open
  /\ UNCHANGED <<unlocked, copies>>

\* MainWindow::onInsertImage, into a damaged note's editor too.
onInsertImage(i) ==
  /\ unlocked /\ open.id # None /\ Len(open.body) < MaxTyped
  /\ \E s \in storeAttachment(db, i, open.id) :
       /\ db' = s.db
       /\ open' = IF s.ok THEN [open EXCEPT !.body = Append(@, i), !.saved = FALSE] ELSE open
  /\ UNCHANGED <<unlocked, copies>>

\* MainWindow::onImportMarkdown: the note is created, and not opened.
onImportMarkdown(n, w) ==
  /\ unlocked /\ db.notes[n] = Never
  /\ \E c \in createNote(db, n, NoteRow(<<w>>, db.default)) : db' = c.db
  /\ UNCHANGED <<unlocked, copies, open>>

\* MainWindow::onNewFolder.
onNewFolder(f) ==
  /\ unlocked /\ f \notin db.folders
  /\ db' \in createFolder(db, f)
  /\ UNCHANGED <<unlocked, copies, open>>

\* MainWindow::onLockVault: a failed save asks whether to lock all the same.
onLockVault ==
  /\ unlocked
  /\ \E s \in Saves :
       /\ db' = s.db
       /\ \/ open' = Closed /\ unlocked' = FALSE
          \/ ~s.ok /\ open' = s.open /\ UNCHANGED unlocked
  /\ UNCHANGED copies

\* The vault is unlocked; the first time the window is built and makes sure of a
\* default folder.
onVaultUnlocked ==
  /\ ~unlocked
  /\ unlocked' = TRUE
  /\ \E f \in ensureDefaultFolder(db) : db' = f.db
  /\ UNCHANGED <<open, copies>>

\* The process ends, whenever.
Exit ==
  /\ unlocked' = FALSE /\ open' = Closed
  /\ UNCHANGED <<db, copies>>

DeskNext ==
  \/ onTextChanged \/ onSaveNote \/ onSaveAndClose \/ onLockVault \/ onVaultUnlocked \/ Exit
  \/ \E n \in Note : onNoteSelected(n) \/ removeNote(n)
  \/ \E n \in Note, w \in Word : onNewNote(n, w) \/ onImportMarkdown(n, w)
  \/ \E n, copy \in Note : duplicateNote(n, copy)
  \/ \E i \in Image : onInsertImage(i)
  \/ \E f \in Folder : onNewFolder(f)
=============================================================================
