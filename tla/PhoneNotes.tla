----------------------------- MODULE PhoneNotes -----------------------------
(***************************************************************************)
(* Notes on the phone: the controller's calls over the same tables, and    *)
(* the note screen that keeps what is being edited.  The phone has no      *)
(* sealed blocks, no default folder and no autosave, and a lock replaces   *)
(* the screen by the login.  A photo is taken by another activity, whose   *)
(* result comes later, after a lock or a new process even.                 *)
(***************************************************************************)
EXTENDS NoteTables

CONSTANT MaxEdited  \* units the user types into a body

ASSUME PhoneNotesAssumption == MaxEdited \in Nat

VARIABLES
  screen,   \* NotesScreen: the open note, its text, and the folder it was in
  camera,   \* the note whose photo the camera is open for
  pending,  \* m_pendingCameraNoteId
  setting   \* the setting camera/pendingNoteId, which outlives the process

phoneVars == <<screen, camera, pending, setting>>

Screen == [id: Note \union {None}, body: Seq(Unit), folder: Folder \union {None}]

Blank == [id |-> None, body |-> <<>>, folder |-> None]

----------------------------------------------------------------------------

\* GrimVaultController::unlock, with a new screen.
phoneUnlock ==
  /\ ~unlocked
  /\ unlocked' = TRUE /\ screen' = Blank
  /\ UNCHANGED <<db, copies, camera, pending, setting>>

\* GrimVaultController::lock, by the auto-lock timer: what was typed is gone.
phoneLock ==
  /\ unlocked
  /\ unlocked' = FALSE /\ screen' = Blank
  /\ UNCHANGED <<db, copies, camera, pending, setting>>

\* "+ New": the new note is opened with the folder of the one before.
newNote(n) ==
  /\ unlocked /\ db.notes[n] = Never
  /\ \E c \in createNote(db, n, NoteRow(<<>>, None)) :
       db' = c.db /\ screen' = [screen EXCEPT !.id = IF c.ok THEN n ELSE None, !.body = <<>>]
  /\ UNCHANGED <<unlocked, copies, camera, pending, setting>>

\* openNote: a note that does not decrypt looks empty.
openNote(n) ==
  /\ unlocked /\ Exists(db, n)
  /\ screen' = IF db.notes[n] = Damaged THEN [Blank EXCEPT !.id = n]
               ELSE [id |-> n, body |-> db.notes[n].body, folder |-> db.notes[n].folder]
  /\ UNCHANGED <<db, unlocked, copies, camera, pending, setting>>

\* The user types.
edit ==
  /\ unlocked /\ screen.id # None
  /\ \/ \E w \in Word : Len(screen.body) < MaxEdited /\ screen' = [screen EXCEPT !.body = Append(@, w)]
     \/ screen.body # <<>> /\ screen' = [screen EXCEPT !.body = <<>>]
  /\ UNCHANGED <<db, unlocked, copies, camera, pending, setting>>

\* GrimVaultController::saveNoteEx: the screen does not look at the result.
saveNoteEx ==
  /\ unlocked /\ screen.id # None
  /\ \E u \in updateNote(db, screen.id, NoteRow(screen.body, screen.folder)) : db' = u.db
  /\ UNCHANGED <<unlocked, copies, phoneVars>>

\* GrimVaultController::deleteNote, after which the screen is cleared.
phoneDeleteNote ==
  /\ unlocked /\ screen.id # None
  /\ db' \in {db, deleteNote(db, screen.id)}
  /\ screen' = Blank
  /\ UNCHANGED <<unlocked, copies, camera, pending, setting>>

\* GrimVaultController::insertImageIntoNote and the screen's onImageAttached: the
\* reference goes into the text only if that note is still open.
Attach(i, n) ==
  \E s \in storeAttachment(db, i, n) :
    db' = s.db /\ screen' = IF s.ok /\ screen.id = n THEN [screen EXCEPT !.body = Append(@, i)] ELSE screen

\* "Insert Image".
insertImage(i) ==
  /\ unlocked /\ screen.id # None /\ Len(screen.body) < MaxEdited
  /\ Attach(i, screen.id)
  /\ UNCHANGED <<unlocked, copies, camera, pending, setting>>

\* A note remembered for a photo never taken stays in the settings.
MutLaunchCamera ==
  /\ unlocked /\ screen.id # None /\ camera = None
  /\ camera' = screen.id /\ pending' = screen.id
  /\ setting' = IF setting = None THEN screen.id ELSE setting
  /\ UNCHANGED <<db, unlocked, copies, screen>>

\* GrimVaultController::launchCamera.
launchCamera ==
  /\ unlocked /\ screen.id # None /\ camera = None
  /\ camera' = screen.id /\ pending' = screen.id /\ setting' = screen.id
  /\ UNCHANGED <<db, unlocked, copies, screen>>

\* The user leaves the camera without a photo, or the photo is lost; the controller
\* is not called.
cancelCamera ==
  /\ camera # None
  /\ camera' = None
  /\ UNCHANGED <<db, unlocked, copies, screen, pending, setting>>

\* GrimVaultController::onCameraResult: without a note or a key the photo is thrown away.
onCameraResult(i) ==
  /\ camera # None
  /\ camera' = None /\ pending' = None /\ setting' = None
  /\ LET n == IF pending # None THEN pending ELSE setting IN
     IF n = None \/ ~unlocked THEN UNCHANGED <<db, screen>> ELSE Attach(i, n)
  /\ UNCHANGED <<unlocked, copies>>

\* GrimVaultController::deleteAttachment, from the album: notes keep their reference.
phoneDeleteAttachment(i) ==
  /\ unlocked /\ IsRow(db.images[i])
  /\ db' \in deleteAttachment(db, i)
  /\ UNCHANGED <<unlocked, copies, phoneVars>>

\* The process ends.  The camera may stay open, and the setting stays.
PhoneExit ==
  /\ unlocked' = FALSE /\ screen' = Blank /\ pending' = None
  /\ camera' \in {None, camera}
  /\ UNCHANGED <<db, copies, setting>>

PhoneNext ==
  \/ phoneUnlock \/ phoneLock \/ edit \/ saveNoteEx \/ phoneDeleteNote
  \/ launchCamera \/ cancelCamera \/ PhoneExit
  \/ \E n \in Note : newNote(n) \/ openNote(n)
  \/ \E i \in Image : insertImage(i) \/ onCameraResult(i) \/ phoneDeleteAttachment(i)
=============================================================================
