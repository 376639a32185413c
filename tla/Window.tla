------------------------------- MODULE Window -------------------------------
(***************************************************************************)
(* The main window while the vault is unlocked and after: one note and one *)
(* credential open for editing, the autosave timer, the auto-lock timer,   *)
(* and the dialogs that run the event loop in the middle of a handler, so  *)
(* that a timer can save or lock between a handler's two halves.           *)
(*                                                                         *)
(* Everything runs on one thread.  A dialog is modal: while one is open    *)
(* only the one on top can be used, and the application cannot be unlocked.*)
(* Any write to the database may fail.                                     *)
(***************************************************************************)
EXTENDS Integers, Sequences

CONSTANTS
  Note, Credential,   \* row ids
  Text,               \* what a note can say
  Never, Gone,        \* rows not created yet, and deleted
  Damaged,            \* a row that does not decrypt
  NoteRows,           \* what the notes may be at the start, and in a backup
  CredentialRows,     \* what the credentials are then
  None                \* no row open; no text

ASSUME WindowAssumption ==
  /\ NoteRows \subseteq [Note -> Text \union {Never, Damaged}]
  /\ CredentialRows \in [Credential -> {"stored", Never, Damaged}]
  /\ None \notin Note \union Credential \union Text
  /\ Never \notin Note /\ {Never, Gone, Damaged} \intersect Text = {}
  /\ Never # Gone /\ Never # Damaged /\ Gone # Damaged
  /\ "stored" \notin {Never, Gone, Damaged}

VARIABLES
  unlocked,    \* VaultSession::isUnlocked
  enabled,     \* m_autoLockEnabled
  timer,       \* m_autoLockTimer is running
  locking,     \* m_lockingVault
  built,       \* the MainWindow exists: the vault was unlocked before
  section,     \* m_section: the notes or the passwords
  dialogs,     \* the open dialogs, the one on top last
  notes,       \* the notes' rows
  editor,      \* m_currentNoteId and NoteEditor
  credentials, \* the credentials' rows
  cred,        \* m_currentCredentialId and CredentialEditor
  searching,   \* m_credSearchQuery is not empty
  chambers,    \* ChamberManager holds the master key
  away         \* the user has left, and does not come back

session == <<unlocked, enabled, timer, locking, chambers>>
noteVars == <<notes, editor>>
credVars == <<credentials, cred, searching>>
vars == <<session, built, section, dialogs, noteVars, credVars, away>>

NoteRow == Text \union {Never, Gone, Damaged}
CredentialRow == {"stored", Never, Gone, Damaged}

\* The note editor: whose note, what it says, whether it is shown, refuses edits,
\* claims "Saved", and will autosave.
Editor ==
  [id: Note \union {None}, text: Text \union {None}, shown: BOOLEAN, err: BOOLEAN,
   saved: BOOLEAN, autosave: BOOLEAN]

\* The credential editor: the row's fields, edited or not, or edited to have no label.
CredentialEditor ==
  [id: Credential \union {None}, fields: {None, "stored", "edited", "unlabelled"}, err: BOOLEAN]

NoCredential == [id |-> None, fields |-> None, err |-> FALSE]

\* "select" is the warning that a note could not be saved: the one clicked is
\* loaded when it closes.
Dialog ==
  [about: {"deleteNote", "select"}, id: Note] \union [about: {"deleteCredential"}, id: Credential]
  \union [about: {"saveAndClose", "restore", "lock"}, id: {None}]

Top == dialogs[Len(dialogs)]
Closed == SubSeq(dialogs, 1, Len(dialogs) - 1)
Asking == \E i \in DOMAIN dialogs : dialogs[i].about = "lock"

\* The user at the window itself, and at the dialog on top.
AtMain == unlocked /\ dialogs = <<>> /\ ~away
AtDialog(about) == dialogs # <<>> /\ Top.about = about /\ ~away

----------------------------------------------------------------------------
(* The auto-lock timer.                                                    *)

\* VaultSession::resetActivityTimer.
resetActivityTimer == IF unlocked /\ enabled THEN TRUE ELSE timer

\* A dialog's clicks do not reach the window's filter.
MutEventFilter == timer' = IF dialogs = <<>> THEN resetActivityTimer ELSE timer

\* MainWindow::eventFilter is the application's: every click and key counts,
\* in dialogs too.
eventFilter == timer' = resetActivityTimer

----------------------------------------------------------------------------
(* The note editor.                                                        *)

Exists(n) == notes[n] \in Text \union {Damaged}

\* NoteRepository::getNote and MainWindow::loadNote: a row that does not decrypt,
\* or is read without a key, is shown as damaged.
Loaded(n, rows, key) ==
  LET readable == key /\ rows[n] \in Text IN
  [editor EXCEPT !.id = n, !.text = IF readable THEN rows[n] ELSE None, !.shown = TRUE,
                 !.err = ~readable, !.saved = TRUE]

\* MainWindow::closeNoteEditor; the autosave timer is left running.
ClosedEditor ==
  [editor EXCEPT !.id = None, !.text = None, !.shown = FALSE, !.err = FALSE, !.saved = TRUE]

\* The editor says saved whatever updateNote returned.
MutNoteSaves ==
  IF editor.err THEN {[ok |-> TRUE, notes |-> notes, saved |-> editor.saved]}
  ELSE IF editor.id = None THEN {[ok |-> FALSE, notes |-> notes, saved |-> editor.saved]}
  ELSE {[ok |-> FALSE, notes |-> notes, saved |-> TRUE]} \union
       (IF unlocked /\ Exists(editor.id)
        THEN {[ok |-> TRUE, notes |-> [notes EXCEPT ![editor.id] = editor.text], saved |-> TRUE]}
        ELSE {})

\* MainWindow::saveCurrentNote, without its dialogs: what it may return and do.
NoteSaves ==
  IF editor.err THEN {[ok |-> TRUE, notes |-> notes, saved |-> editor.saved]}
  ELSE IF editor.id = None THEN {[ok |-> FALSE, notes |-> notes, saved |-> editor.saved]}
  ELSE {[ok |-> FALSE, notes |-> notes, saved |-> FALSE]} \union
       (IF unlocked /\ Exists(editor.id)
        THEN {[ok |-> TRUE, notes |-> [notes EXCEPT ![editor.id] = editor.text], saved |-> TRUE]}
        ELSE {})

SaveNote(s) == notes' = s.notes /\ editor' = [editor EXCEPT !.saved = s.saved]

\* NoteEditor::onTextChanged, from the text, the title or the tags.
onTextChanged(t) ==
  /\ AtMain /\ section = "notes" /\ editor.shown /\ ~editor.err
  /\ t # editor.text
  /\ editor' = [editor EXCEPT !.text = t, !.saved = FALSE, !.autosave = TRUE]
  /\ eventFilter
  /\ UNCHANGED <<unlocked, enabled, locking, chambers, built, section, dialogs, notes, credVars, away>>

\* NoteEditor::onAutosaveTimer and MainWindow::onSaveNote, also behind a dialog.
onAutosaveTimer ==
  /\ editor.autosave
  /\ \E s \in NoteSaves :
       notes' = s.notes /\ editor' = [editor EXCEPT !.saved = s.saved, !.autosave = FALSE]
  /\ UNCHANGED <<session, built, section, dialogs, credVars, away>>

\* The star saves at once.
onFavoriteToggled ==
  /\ AtMain /\ section = "notes" /\ editor.shown /\ ~editor.err /\ editor.id # None
  /\ \E s \in NoteSaves : SaveNote(s)
  /\ eventFilter
  /\ UNCHANGED <<unlocked, enabled, locking, chambers, built, section, dialogs, credVars, away>>

\* The note clicked is loaded at once.
MutOnNoteSelected(n) ==
  /\ AtMain /\ section = "notes" /\ Exists(n)
  /\ editor' = Loaded(n, notes, unlocked)
  /\ eventFilter
  /\ UNCHANGED <<unlocked, enabled, locking, chambers, built, section, dialogs, notes, credVars, away>>

\* MainWindow::onNoteSelected: another note first saves this one, and a failure
\* is told in a dialog that the selection waits for.
onNoteSelected(n) ==
  /\ AtMain /\ section = "notes" /\ Exists(n)
  /\ \/ /\ editor.id \in {None, n}
        /\ editor' = Loaded(n, notes, unlocked)
        /\ UNCHANGED <<notes, dialogs>>
     \/ /\ editor.id \notin {None, n}
        /\ \E s \in NoteSaves :
             /\ notes' = s.notes
             /\ editor' = IF s.ok THEN Loaded(n, s.notes, unlocked) ELSE [editor EXCEPT !.saved = s.saved]
             /\ dialogs' = IF s.ok THEN dialogs ELSE <<[about |-> "select", id |-> n]>>
  /\ eventFilter
  /\ UNCHANGED <<unlocked, enabled, locking, chambers, built, section, credVars, away>>

\* The handler goes on once its warning is closed, whatever happened meanwhile.
endSelect ==
  /\ AtDialog("select")
  /\ dialogs' = Closed
  /\ editor' = Loaded(Top.id, notes, unlocked)
  /\ eventFilter
  /\ UNCHANGED <<unlocked, enabled, locking, chambers, built, section, notes, credVars, away>>

\* MainWindow::onNewNote, and the list's Duplicate of a note that decrypts: the
\* new note is loaded over what was open.
addNote(n, t, key) ==
  /\ notes[n] = Never
  /\ notes' = [notes EXCEPT ![n] = t]
  /\ editor' = Loaded(n, notes', key)

onNewNote ==
  /\ AtMain /\ section = "notes"
  /\ \E n \in Note, t \in Text : addNote(n, t, unlocked)
  /\ eventFilter
  /\ UNCHANGED <<unlocked, enabled, locking, chambers, built, section, dialogs, credVars, away>>

\* The list's Delete, after its question.
deleteNote(n) ==
  /\ AtMain /\ section = "notes" /\ Exists(n)
  /\ dialogs' = <<[about |-> "deleteNote", id |-> n]>>
  /\ eventFilter
  /\ UNCHANGED <<unlocked, enabled, locking, chambers, built, section, noteVars, credVars, away>>

\* The window goes on with the note it deleted.
MutEndDeleteNote ==
  /\ AtDialog("deleteNote")
  /\ dialogs' = Closed
  /\ notes' = [notes EXCEPT ![Top.id] = Gone]
  /\ UNCHANGED editor
  /\ eventFilter
  /\ UNCHANGED <<unlocked, enabled, locking, chambers, built, section, credVars, away>>

\* The editor stays on the screen, without a note, if the note was open.
endDeleteNote ==
  /\ AtDialog("deleteNote")
  /\ dialogs' = Closed
  /\ notes' \in {notes, [notes EXCEPT ![Top.id] = Gone]}
  /\ editor' = IF editor.id = Top.id THEN [editor EXCEPT !.id = None, !.text = None] ELSE editor
  /\ eventFilter
  /\ UNCHANGED <<unlocked, enabled, locking, chambers, built, section, credVars, away>>

\* MainWindow::onSaveAndClose, Ctrl+S in either section: the folder picker, then
\* saving and closing.
onSaveAndClose ==
  /\ AtMain /\ ~editor.err /\ editor.id # None
  /\ dialogs' = <<[about |-> "saveAndClose", id |-> None]>>
  /\ eventFilter
  /\ UNCHANGED <<unlocked, enabled, locking, chambers, built, section, noteVars, credVars, away>>

endSaveAndClose ==
  /\ AtDialog("saveAndClose")
  /\ dialogs' = Closed
  /\ \E s \in NoteSaves :
       /\ notes' = s.notes
       /\ editor' = IF s.ok THEN ClosedEditor
                    ELSE [editor EXCEPT !.saved = s.saved /\ editor.id # None]
  /\ eventFilter
  /\ UNCHANGED <<unlocked, enabled, locking, chambers, built, section, credVars, away>>

----------------------------------------------------------------------------
(* The credential editor.                                                  *)

Listable(rows) == {c \in Credential : rows[c] \in {"stored", Damaged}}

\* MainWindow::loadCredential.
Shown(c, rows) ==
  LET readable == unlocked /\ rows[c] = "stored" IN
  [id |-> c, fields |-> IF readable THEN "stored" ELSE None, err |-> ~readable]

\* MainWindow::loadCredentials: what may be open afterwards.  Selecting an item of
\* the list loads it again, and a search that misses the open one loads another.
Listed(current, rows, query) ==
  UNION {IF current \in found THEN {Shown(current, rows)}
         ELSE IF found = {} THEN {NoCredential}
         ELSE {Shown(c, rows) : c \in found}
         : found \in IF query THEN SUBSET Listable(rows) ELSE {Listable(rows)}}

\* MainWindow::saveCurrentCredential, without its dialogs.
CredentialSaves ==
  IF section # "passwords" \/ cred.id = None \/ cred.err THEN {[ok |-> TRUE, cred |-> cred]}
  ELSE {[ok |-> FALSE, cred |-> cred]} \union
       (IF unlocked /\ cred.fields # "unlabelled"
        THEN {[ok |-> TRUE, cred |-> c] : c \in Listed(cred.id, credentials, searching)} ELSE {})

\* The user types in the credential editor, which has no autosave.
editCredential(f) ==
  /\ AtMain /\ section = "passwords" /\ cred.id # None /\ ~cred.err
  /\ f \in {"edited", "unlabelled"} \ {cred.fields}
  /\ cred' = [cred EXCEPT !.fields = f]
  /\ eventFilter
  /\ UNCHANGED <<unlocked, enabled, locking, chambers, built, section, dialogs, noteVars,
                 credentials, searching, away>>

\* MainWindow::onSaveCredential.
onSaveCredential ==
  /\ AtMain /\ section = "passwords"
  /\ \E s \in CredentialSaves : cred' = s.cred
  /\ eventFilter
  /\ UNCHANGED <<unlocked, enabled, locking, chambers, built, section, dialogs, noteVars, credentials,
                 searching, away>>

\* MainWindow::onCredentialSelected: clicking the open one loads it again; so does
\* going back to it after a failed save, unless a search leaves it out of the list.
onCredentialSelected(c) ==
  /\ AtMain /\ section = "passwords" /\ c \in Listable(credentials)
  /\ \/ cred.id \in {None, c} /\ cred' = Shown(c, credentials)
     \/ /\ cred.id \notin {None, c}
        /\ \E s \in CredentialSaves :
             IF s.ok THEN cred' = Shown(c, credentials)
             ELSE cred' = Shown(cred.id, credentials) \/ (searching /\ cred' = cred)
  /\ eventFilter
  /\ UNCHANGED <<unlocked, enabled, locking, chambers, built, section, dialogs, noteVars, credentials,
                 searching, away>>

\* MainWindow::onNewCredential.
onNewCredential(c) ==
  /\ AtMain /\ section = "passwords" /\ credentials[c] = Never
  /\ credentials' = [credentials EXCEPT ![c] = "stored"]
  /\ cred' = Shown(c, credentials')
  /\ eventFilter
  /\ UNCHANGED <<unlocked, enabled, locking, chambers, built, section, dialogs, noteVars, searching, away>>

\* MainWindow::onDeleteCredential, after its question.
deleteCredential ==
  /\ AtMain /\ section = "passwords" /\ cred.id # None
  /\ dialogs' = <<[about |-> "deleteCredential", id |-> cred.id]>>
  /\ eventFilter
  /\ UNCHANGED <<unlocked, enabled, locking, chambers, built, section, noteVars, credVars, away>>

endDeleteCredential ==
  /\ AtDialog("deleteCredential")
  /\ dialogs' = Closed
  /\ credentials' = [credentials EXCEPT ![Top.id] = Gone]
  /\ cred' \in Listed(IF cred.id = Top.id THEN None ELSE cred.id, credentials', searching)
  /\ eventFilter
  /\ UNCHANGED <<unlocked, enabled, locking, chambers, built, section, noteVars, searching, away>>

\* MainWindow::onCredentialSearchChanged.
onCredentialSearchChanged(query) ==
  /\ AtMain /\ section = "passwords" /\ (query \/ searching)
  /\ searching' = query
  /\ cred' \in Listed(cred.id, credentials, query)
  /\ eventFilter
  /\ UNCHANGED <<unlocked, enabled, locking, chambers, built, section, dialogs, noteVars, credentials, away>>

----------------------------------------------------------------------------
(* Sections and settings.                                                  *)

\* MainWindow::onSectionSelected: leaving a section saves what it edits, and does
\* not mind if that fails.
onSectionSelected(to) ==
  /\ AtMain
  /\ section' = to
  /\ \/ /\ to = "passwords"
        /\ \E s \in NoteSaves : SaveNote(s)
        /\ cred' \in Listed(cred.id, credentials, searching)
     \/ /\ to = "notes"
        /\ \E s \in CredentialSaves : cred' = s.cred
        /\ UNCHANGED noteVars
  /\ eventFilter
  /\ UNCHANGED <<unlocked, enabled, locking, chambers, built, dialogs, credentials, searching, away>>

\* MainWindow::showSettings.
showSettings ==
  /\ AtMain
  /\ \E s \in CredentialSaves : cred' = s.cred
  /\ eventFilter
  /\ UNCHANGED <<unlocked, enabled, locking, chambers, built, section, dialogs, noteVars, credentials,
                 searching, away>>

\* VaultSession::setAutoLockEnabled.
setAutoLockEnabled(on) ==
  /\ AtMain
  /\ enabled' = on
  /\ timer' = on
  /\ UNCHANGED <<unlocked, locking, chambers, built, section, dialogs, noteVars, credVars, away>>

----------------------------------------------------------------------------
(* Unlocking and locking.                                                  *)

\* MainWindow::selectInitialNote, by the constructor only.
selectInitialNote ==
  IF \E n \in Note : Exists(n)
  THEN /\ \E n \in Note : Exists(n) /\ editor' = Loaded(n, notes, TRUE)
       /\ UNCHANGED notes
  ELSE \E n \in Note, t \in Text : addNote(n, t, TRUE)

\* App::onUnlockRequested with the right password, the window built the first
\* time, and MainWindow::onVaultUnlocked.
onVaultUnlocked ==
  /\ ~unlocked /\ dialogs = <<>> /\ ~away
  /\ unlocked' = TRUE
  /\ timer' = enabled
  /\ chambers' = TRUE
  /\ built' = TRUE
  /\ IF built THEN UNCHANGED noteVars ELSE selectInitialNote
  /\ UNCHANGED <<enabled, locking, section, dialogs, credVars, away>>

\* The credential stays in its editor.
MutClearAllSensitiveState ==
  /\ editor' = ClosedEditor
  /\ UNCHANGED cred
  /\ searching' = FALSE

\* MainWindow::clearAllSensitiveState.
clearAllSensitiveState ==
  /\ editor' = ClosedEditor
  /\ cred' = NoCredential
  /\ searching' = FALSE

\* The flag is left set when the vault has been locked.
MutLockNow ==
  /\ clearAllSensitiveState
  /\ chambers' = FALSE
  /\ unlocked' = FALSE
  /\ timer' = FALSE
  /\ locking' = TRUE

\* The end of MainWindow::onLockVault.
lockNow ==
  /\ clearAllSensitiveState
  /\ chambers' = FALSE
  /\ unlocked' = FALSE
  /\ timer' = FALSE
  /\ locking' = FALSE

\* Whether everything was saved is not asked about.
MutOnLockVault(restarted) ==
  /\ ~locking /\ unlocked
  /\ \E c \in CredentialSaves, s \in NoteSaves :
       notes' = s.notes /\ lockNow /\ UNCHANGED dialogs
  /\ UNCHANGED <<enabled, built, section, credentials, away>>

\* MainWindow::onLockVault: it saves what is open, and asks if it could not.
\* Saving a credential loads it again, which restarts the timer.
onLockVault(restarted) ==
  /\ ~locking /\ unlocked
  /\ \E c \in CredentialSaves, s \in NoteSaves :
       /\ notes' = s.notes
       /\ \/ /\ c.ok /\ s.ok
             /\ lockNow
             /\ UNCHANGED dialogs
          \/ /\ ~(c.ok /\ s.ok)
             /\ dialogs' = Append(dialogs, [about |-> "lock", id |-> None])
             /\ locking' = TRUE
             /\ unlocked' = unlocked
             /\ cred' = c.cred
             /\ editor' = [editor EXCEPT !.saved = s.saved]
             /\ timer' = (restarted \/ (enabled /\ section = "passwords" /\ c.ok /\ cred'.fields = "stored"))
             /\ UNCHANGED <<searching, chambers>>
  /\ UNCHANGED <<enabled, built, section, credentials, away>>

\* Lock Vault, in the sidebar or the status bar.
lockRequested == AtMain /\ onLockVault(resetActivityTimer)

\* A timeout while a dialog is open is dropped.
MutOnAutoLockTimeout ==
  /\ timer
  /\ \/ dialogs = <<>> /\ onLockVault(FALSE)
     \/ /\ dialogs # <<>>
        /\ timer' = FALSE
        /\ UNCHANGED <<unlocked, enabled, locking, chambers, built, section, dialogs, noteVars,
                       credVars, away>>

\* VaultSession::onAutoLockTimeout; a lock already being asked about goes on.
onAutoLockTimeout ==
  /\ timer
  /\ \/ onLockVault(FALSE)
     \/ /\ locking
        /\ timer' = FALSE
        /\ UNCHANGED <<unlocked, enabled, locking, chambers, built, section, dialogs, noteVars,
                       credVars, away>>

\* "Lock anyway and discard unsaved edits?"
answerLock(yes) ==
  /\ AtDialog("lock")
  /\ dialogs' = Closed
  /\ \/ yes /\ lockNow
     \/ ~yes /\ locking' = FALSE /\ eventFilter /\ UNCHANGED <<unlocked, chambers, editor, cred, searching>>
  /\ UNCHANGED <<enabled, built, section, notes, credentials, away>>

\* A dialog is cancelled.
cancel ==
  /\ dialogs # <<>> /\ ~away
  /\ Top.about \in {"deleteNote", "deleteCredential", "saveAndClose", "restore"}
  /\ dialogs' = Closed
  /\ eventFilter
  /\ UNCHANGED <<unlocked, enabled, locking, chambers, built, section, noteVars, credVars, away>>

\* MainWindow::onRestoreVault, up to its question for the backup's password.
onRestoreVault ==
  /\ AtMain
  /\ dialogs' = <<[about |-> "restore", id |-> None]>>
  /\ eventFilter
  /\ UNCHANGED <<unlocked, enabled, locking, chambers, built, section, noteVars, credVars, away>>

\* The rest of it, and finalizeVaultRestore, which does not reset the chambers: the
\* key is wiped in a copy and its bytes stay with them.
finalizeVaultRestore ==
  /\ AtDialog("restore")
  /\ dialogs' = Closed
  /\ notes' \in NoteRows /\ credentials' = CredentialRows
  /\ clearAllSensitiveState
  /\ unlocked' = FALSE
  /\ timer' = FALSE
  /\ UNCHANGED <<enabled, locking, chambers, built, section, away>>

\* The user gets up.
leave ==
  /\ ~away
  /\ away' = TRUE
  /\ UNCHANGED <<session, built, section, dialogs, noteVars, credVars>>

Init ==
  /\ unlocked = FALSE
  /\ enabled \in BOOLEAN
  /\ timer = FALSE
  /\ locking = FALSE
  /\ built = FALSE
  /\ section = "notes"
  /\ dialogs = <<>>
  /\ notes \in NoteRows
  /\ editor = [id |-> None, text |-> None, shown |-> FALSE, err |-> FALSE, saved |-> TRUE,
               autosave |-> FALSE]
  /\ credentials = CredentialRows
  /\ cred = NoCredential
  /\ searching = FALSE
  /\ chambers = FALSE
  /\ away = FALSE

Next ==
  \/ onVaultUnlocked \/ lockRequested \/ onAutoLockTimeout \/ cancel \/ leave
  \/ onAutosaveTimer \/ onFavoriteToggled \/ onNewNote \/ onSaveAndClose \/ endSaveAndClose
  \/ endSelect \/ endDeleteNote \/ onSaveCredential \/ deleteCredential \/ endDeleteCredential
  \/ showSettings \/ onRestoreVault \/ finalizeVaultRestore
  \/ \E t \in Text : onTextChanged(t)
  \/ \E n \in Note : onNoteSelected(n) \/ deleteNote(n)
  \/ \E f \in {"edited", "unlabelled"} : editCredential(f)
  \/ \E c \in Credential : onCredentialSelected(c) \/ onNewCredential(c)
  \/ \E b \in BOOLEAN : onCredentialSearchChanged(b) \/ setAutoLockEnabled(b) \/ answerLock(b)
  \/ \E to \in {"notes", "passwords"} : onSectionSelected(to)

Spec == Init /\ [][Next]_vars

\* Timers fire (QTimer).  The auto-lock's is restarted by every mouse move, and is
\* only sure to fire once the user is gone.
FairSpec ==
  /\ Spec
  /\ WF_vars(onAutosaveTimer)
  /\ WF_vars(away /\ onAutoLockTimeout)

----------------------------------------------------------------------------
(* Properties.                                                             *)

\* Every variable has its type; a dialog is never under more than the question of
\* the lock.
TypeOK ==
  /\ unlocked \in BOOLEAN /\ enabled \in BOOLEAN /\ timer \in BOOLEAN
  /\ locking \in BOOLEAN /\ chambers \in BOOLEAN /\ built \in BOOLEAN /\ searching \in BOOLEAN /\ away \in BOOLEAN
  /\ section \in {"notes", "passwords"}
  /\ dialogs \in Seq(Dialog) /\ Len(dialogs) <= 2
  /\ notes \in [Note -> NoteRow]
  /\ editor \in Editor
  /\ credentials \in [Credential -> CredentialRow]
  /\ cred \in CredentialEditor

\* m_lockingVault says exactly that the lock is being asked about: the question,
\* which can come up over any dialog, leaves the vault one that can be locked.
LockingIsAsking ==
  /\ locking <=> Asking
  /\ locking => unlocked /\ Top.about = "lock"

\* What makes it true: a dialog is only ever covered by the question of the lock.
DialogsInOrder ==
  /\ locking => /\ unlocked
                /\ Len(dialogs) \in {1, 2} /\ Top.about = "lock"
                /\ Len(dialogs) = 2 => dialogs[1].about # "lock"
  /\ ~locking => dialogs = <<>> \/ (Len(dialogs) = 1 /\ Top.about # "lock")

\* While the vault is unlocked and auto-lock is on, its timer is running, unless the
\* lock is being asked about: the single-shot timer is consumed by a lock that is
\* refused, by one that finds another in progress, and comes back each time.
TimerRuns == unlocked /\ enabled /\ ~locking => timer

\* A locked window shows no text: not from a handler that goes on after its dialog
\* (loadNote, loadCredentials), nor from a row read before the lock.
NothingShown == ~unlocked => editor.text = None /\ cred.fields = None

\* What the editors are open on is in the vault, also after a deletion confirmed
\* behind a lock and after another vault came in.
EditorHasRow ==
  /\ editor.id # None => Exists(editor.id)
  /\ cred.id # None => cred.id \in Listable(credentials)

\* What makes it true: the note a warning is to be followed by stays in the vault,
\* and a note that is not refused has a text to save.
EditorIsReadable ==
  /\ \A i \in DOMAIN dialogs : dialogs[i].about = "select" => Exists(dialogs[i].id)
  /\ editor.id # None /\ ~editor.err => editor.text \in Text

\* "Saved" is said of what the note's row says.
SavedIsStored ==
  editor.id # None /\ ~editor.err /\ editor.saved => notes[editor.id] = editor.text

IInv ==
  /\ TypeOK /\ DialogsInOrder /\ TimerRuns /\ NothingShown /\ EditorHasRow
  /\ EditorIsReadable /\ SavedIsStored

\* Text typed into a note leaves the screen for its row, except that it is lost to a
\* new note or a duplicate, to the open note clicked again, to a note selected after
\* a warning that it was not saved, to the note's own deletion, a lock agreed to, or
\* another vault.
TypedIsKept ==
  [][(editor.id # None /\ ~editor.err /\ <<editor'.id, editor'.text>> # <<editor.id, editor.text>>)
       => \/ notes'[editor.id] = editor.text
          \/ \E t \in Text : onTextChanged(t)
          \/ onNoteSelected(editor.id)
          \/ onNewNote \/ endSelect \/ endDeleteNote \/ answerLock(TRUE) \/ finalizeVaultRestore]_vars

\* The window keeps the promise of SessionPromise: what it shows of itself is a
\* session that opens, is asked, locks or is replaced, and one note being edited.
lockState == IF ~unlocked THEN "locked" ELSE IF locking THEN "asking" ELSE "open"
edited ==
  IF editor.id = None \/ editor.err THEN [note |-> Never, text |-> Never]
  ELSE [note |-> editor.id, text |-> editor.text]
replacing == dialogs # <<>> /\ dialogs[1].about = "restore"

Promise == INSTANCE SessionPromise WITH
  state <- lockState, rows <- notes, editing <- edited, restoring <- replacing
KeepsPromise == Promise!Spec

\* Once the user is gone an unlocked vault with auto-lock on is locked, or asks.
AwayIsLockedOrAsked == (away /\ unlocked /\ enabled) ~> (~unlocked \/ Asking)

\* "The derived master key is held in `VaultSession` while unlocked and zeroed with
\* `sodium_memzero` on lock." (SECURITY.md:24)
KeyGoneOnLock == ~unlocked => ~chambers
=============================================================================
