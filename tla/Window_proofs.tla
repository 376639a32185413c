---------------------------- MODULE Window_proofs ----------------------------
(***************************************************************************)
(* What holds of the main window for any numbers of notes and credentials  *)
(* and any texts: its timers, locks, dialogs and editors stay in step, and *)
(* it keeps the promise of SessionPromise.                                 *)
(***************************************************************************)
EXTENDS Window, TLAPS

\* The invariant, by what a step can disturb: the session and its dialogs, the
\* notes, the credentials.
SessionGood ==
  /\ unlocked \in BOOLEAN /\ enabled \in BOOLEAN /\ timer \in BOOLEAN /\ locking \in BOOLEAN
  /\ chambers \in BOOLEAN /\ built \in BOOLEAN /\ away \in BOOLEAN
  /\ section \in {"notes", "passwords"}
  /\ dialogs \in Seq(Dialog) /\ DialogsInOrder
  /\ TimerRuns

Held(rows, n) == rows[n] \in Text \union {Damaged}

NotesGood(rows, e, key) ==
  /\ rows \in [Note -> NoteRow] /\ e \in Editor
  /\ e.id # None => Held(rows, e.id)
  /\ e.id # None /\ ~e.err => e.text \in Text
  /\ e.id # None /\ ~e.err /\ e.saved => rows[e.id] = e.text
  /\ ~key => e.text = None

CredentialsGood(rows, c, key) ==
  /\ rows \in [Credential -> CredentialRow] /\ c \in CredentialEditor
  /\ c.id # None => c.id \in Listable(rows)
  /\ ~key => c.fields = None

\* The notes that warnings are about are held by the rows.
WarnedOf(ds, rows) == \A i \in DOMAIN ds : ds[i].about = "select" => Held(rows, ds[i].id)

Good ==
  /\ SessionGood /\ NotesGood(notes, editor, unlocked)
  /\ CredentialsGood(credentials, cred, unlocked) /\ searching \in BOOLEAN
  /\ WarnedOf(dialogs, notes)

\* The parts of the invariant, as the steps use them, are the invariant the run checks.
LEMMA GoodIsIInv == Good <=> IInv
  <1>1. Good => IInv
    <2>1. ASSUME Good PROVE Len(dialogs) <= 2
      <3>1. dialogs \in Seq(Dialog) /\ DialogsInOrder /\ locking \in BOOLEAN
        BY <2>1 DEF Good, SessionGood
      <3>2. Len(dialogs) \in {1, 2} \/ dialogs = <<>> \/ Len(dialogs) = 1
        BY <3>1 DEF DialogsInOrder
      <3>3. Len(dialogs) \in 0..2
        BY <3>1, <3>2
      <3>4. \A k \in 0..2 : k <= 2
        OBVIOUS
      <3>5. QED
        BY <3>3, <3>4, Zenon
    <2>2. QED
      BY <2>1 DEF Good, SessionGood, NotesGood, CredentialsGood, WarnedOf, Held, IInv, TypeOK, NothingShown,
                  EditorHasRow, EditorIsReadable, SavedIsStored, Exists
  <1>2. IInv => Good
    BY DEF Good, SessionGood, NotesGood, CredentialsGood, WarnedOf, Held, IInv, TypeOK, NothingShown,
           EditorHasRow, EditorIsReadable, SavedIsStored, Exists
  <1>3. QED
    BY <1>1, <1>2

----------------------------------------------------------------------------
(* Dialogs and the session.                                                *)

\* At the window there is no dialog and no lock being asked about.
LEMMA MainIsOpen ==
  ASSUME SessionGood, AtMain
  PROVE  unlocked /\ ~locking /\ dialogs = <<>>
BY DEF SessionGood, DialogsInOrder, AtMain

\* A dialog on top that is not about the lock is the only one.
LEMMA OnlyDialog ==
  ASSUME SessionGood, dialogs # <<>>, Top.about # "lock"
  PROVE  ~locking /\ Len(dialogs) = 1 /\ dialogs = <<Top>> /\ Top = dialogs[1] /\ Top \in Dialog /\ Closed = <<>>
  <1>1. ~locking /\ Len(dialogs) = 1
    BY DEF SessionGood, DialogsInOrder
  <1>2. dialogs \in Seq(Dialog)
    BY DEF SessionGood
  <1>3. QED
    BY <1>1, <1>2 DEF Top, Closed

\* The question of the lock is on top of one dialog at most.
LEMMA LockDialog ==
  ASSUME SessionGood, dialogs # <<>>, Top.about = "lock"
  PROVE  /\ locking /\ unlocked
         /\ \/ Len(dialogs) = 1 /\ dialogs[1].about = "lock" /\ Closed = <<>>
            \/ /\ Len(dialogs) = 2 /\ dialogs[1].about # "lock" /\ dialogs[1] \in Dialog
               /\ Closed = <<dialogs[1]>>
  <1>1. locking /\ unlocked /\ Len(dialogs) \in {1, 2} /\ (Len(dialogs) = 2 => dialogs[1].about # "lock")
    BY DEF SessionGood, DialogsInOrder
  <1>2. dialogs \in Seq(Dialog)
    BY DEF SessionGood
  <1>3. CASE Len(dialogs) = 1
    BY <1>1, <1>2, <1>3 DEF Top, Closed
  <1>4. CASE Len(dialogs) = 2
    <2>1. Closed = SubSeq(dialogs, 1, 1) /\ dialogs[1] \in Dialog
      BY <1>2, <1>4 DEF Closed
    <2>2. \A q \in Seq(Dialog) : Len(q) = 1 => q = <<q[1]>>
      OBVIOUS
    <2>3. /\ SubSeq(dialogs, 1, 1) \in Seq(Dialog) /\ Len(SubSeq(dialogs, 1, 1)) = 1
          /\ SubSeq(dialogs, 1, 1)[1] = dialogs[1]
      BY <1>2, <1>4
    <2>4. SubSeq(dialogs, 1, 1) = <<dialogs[1]>>
      BY <2>2, <2>3
    <2>5. QED
      BY <1>1, <1>4, <2>1, <2>4
  <1>5. QED
    BY <1>1, <1>3, <1>4

\* What the user does at the window restarts the timer and may open a dialog.
LEMMA MainStep ==
  ASSUME SessionGood, AtMain, eventFilter, UNCHANGED <<unlocked, enabled, locking, chambers, built, away>>,
         section' \in {"notes", "passwords"},
         dialogs' = dialogs \/ \E d \in Dialog : d.about # "lock" /\ dialogs' = <<d>>
  PROVE  SessionGood'
  <1>1. unlocked /\ ~locking /\ dialogs = <<>>
    BY MainIsOpen
  <1>2. ASSUME NEW d \in Dialog, d.about # "lock", dialogs' = <<d>>
        PROVE  dialogs' \in Seq(Dialog) /\ Len(dialogs') = 1 /\ Top' = d
    BY <1>2 DEF Top
  <1>3. dialogs' \in Seq(Dialog) /\ DialogsInOrder'
    <2>1. CASE dialogs' = dialogs
      BY <1>1, <2>1 DEF SessionGood, DialogsInOrder
    <2>2. CASE dialogs' # dialogs
      <3>1. PICK d \in Dialog : d.about # "lock" /\ dialogs' = <<d>>
        BY <2>2
      <3>2. dialogs' \in Seq(Dialog) /\ Len(dialogs') = 1 /\ Top'.about # "lock" /\ ~locking'
        BY <1>1, <1>2, <3>1
      <3>3. QED
        BY <3>2 DEF DialogsInOrder
    <2>3. QED
      BY <2>1, <2>2
  <1>4. timer' \in BOOLEAN /\ TimerRuns'
    BY DEF SessionGood, TimerRuns, eventFilter, resetActivityTimer
  <1>5. QED
    BY <1>3, <1>4 DEF SessionGood

\* A dialog other than the lock's is left.
LEMMA DialogStep ==
  ASSUME SessionGood, dialogs # <<>>, Top.about # "lock", dialogs' = Closed, eventFilter,
         UNCHANGED <<unlocked, enabled, locking, chambers, built, section, away>>
  PROVE  SessionGood' /\ dialogs' = <<>>
  <1>1. ~locking /\ dialogs' = <<>>
    BY OnlyDialog
  <1>2. dialogs' \in Seq(Dialog) /\ DialogsInOrder'
    BY <1>1 DEF DialogsInOrder
  <1>3. timer' \in BOOLEAN /\ TimerRuns'
    BY DEF SessionGood, TimerRuns, eventFilter, resetActivityTimer
  <1>4. QED
    BY <1>1, <1>2, <1>3 DEF SessionGood

\* A lock puts away whatever is on the screen; it is not being asked about any more.
LEMMA LockStep ==
  ASSUME Good, clearAllSensitiveState, unlocked' = FALSE, timer' = FALSE, locking' = FALSE,
         chambers' \in BOOLEAN, UNCHANGED <<enabled, built, section, away>>,
         dialogs' \in Seq(Dialog), dialogs' = <<>> \/ (Len(dialogs') = 1 /\ dialogs'[1].about # "lock"),
         notes' \in [Note -> NoteRow], credentials' \in [Credential -> CredentialRow],
         WarnedOf(dialogs, notes)'
  PROVE  Good'
  <1>1. SessionGood'
    BY DEF Good, SessionGood, DialogsInOrder, TimerRuns, Top
  <1>2. NotesGood(notes, editor, unlocked)'
    BY WindowAssumption DEF Good, NotesGood, clearAllSensitiveState, ClosedEditor, Editor
  <1>3. CredentialsGood(credentials, cred, unlocked)' /\ searching' \in BOOLEAN
    BY DEF CredentialsGood, clearAllSensitiveState, NoCredential, CredentialEditor
  <1>4. QED
    BY <1>1, <1>2, <1>3 DEF Good

----------------------------------------------------------------------------
(* The note editor.                                                        *)

\* What a save may leave: the row of a note that is not refused says what is shown.
LEMMA NoteSaved ==
  ASSUME Good, NEW s \in NoteSaves
  PROVE  /\ s.ok \in BOOLEAN /\ s.saved \in BOOLEAN /\ s.notes \in [Note -> NoteRow]
         /\ NotesGood(s.notes, [editor EXCEPT !.saved = s.saved], unlocked)
         /\ \A n \in Note : Held(notes, n) => Held(s.notes, n)
         /\ s.notes = notes \/ /\ unlocked /\ editor.id # None /\ ~editor.err
                               /\ s.notes = [notes EXCEPT ![editor.id] = editor.text]
         /\ s.ok /\ editor.id # None /\ ~editor.err => s.notes[editor.id] = editor.text
         /\ editor.id = None /\ ~editor.err => ~s.ok
         /\ s.saved /\ editor.id # None /\ ~editor.err => s.notes[editor.id] = editor.text
  <1>0. NotesGood(notes, editor, unlocked) /\ unlocked \in BOOLEAN
    BY DEF Good, SessionGood
  <1>1. CASE editor.err
    <2>1. s = [ok |-> TRUE, notes |-> notes, saved |-> editor.saved]
      BY <1>1 DEF NoteSaves
    <2>2. QED
      BY <1>0, <1>1, <2>1 DEF NotesGood, Editor
  <1>2. CASE ~editor.err /\ editor.id = None
    <2>1. s = [ok |-> FALSE, notes |-> notes, saved |-> editor.saved]
      BY <1>2 DEF NoteSaves
    <2>2. QED
      BY <1>0, <1>2, <2>1 DEF NotesGood, Editor
  <1>3. CASE ~editor.err /\ editor.id # None
    <2>1. CASE s = [ok |-> FALSE, notes |-> notes, saved |-> FALSE]
      BY <1>0, <1>3, <2>1 DEF NotesGood, Editor
    <2>2. CASE /\ unlocked
               /\ s = [ok |-> TRUE, notes |-> [notes EXCEPT ![editor.id] = editor.text], saved |-> TRUE]
      <3>1. editor.id \in Note /\ editor.text \in Text /\ editor.text \in NoteRow
        BY <1>0, <1>3 DEF NotesGood, Editor, NoteRow
      <3>2. /\ s.notes \in [Note -> NoteRow] /\ s.notes[editor.id] = editor.text
            /\ \A n \in Note : n # editor.id => s.notes[n] = notes[n]
        BY <1>0, <2>2, <3>1 DEF NotesGood
      <3>3. \A n \in Note : Held(notes, n) => Held(s.notes, n)
        BY <3>1, <3>2 DEF Held
      <3>4. NotesGood(s.notes, [editor EXCEPT !.saved = s.saved], unlocked)
        BY <1>0, <2>2, <3>1, <3>2, <3>3 DEF NotesGood, Editor
      <3>5. QED
        BY <1>3, <2>2, <3>2, <3>3, <3>4
    <2>3. QED
      BY <1>3, <2>1, <2>2 DEF NoteSaves
  <1>4. QED
    BY <1>0, <1>1, <1>2, <1>3 DEF NotesGood, Editor

\* A note that is loaded is what its row says, or is refused.
LEMMA NoteLoaded ==
  ASSUME editor \in Editor, NEW rows \in [Note -> NoteRow], NEW n \in Note, Held(rows, n), NEW key \in BOOLEAN
  PROVE  NotesGood(rows, Loaded(n, rows, key), key)
BY WindowAssumption DEF Loaded, NotesGood, Editor, Held

\* The editor without a note.
LEMMA NoteClosed ==
  ASSUME editor \in Editor, NEW rows \in [Note -> NoteRow], NEW key
  PROVE  NotesGood(rows, ClosedEditor, key)
BY WindowAssumption DEF ClosedEditor, NotesGood, Editor

----------------------------------------------------------------------------
(* The credential editor.                                                  *)

\* An opened credential shows its row.
LEMMA CredentialShown ==
  ASSUME NEW rows \in [Credential -> CredentialRow], NEW c \in Listable(rows), unlocked \in BOOLEAN
  PROVE  CredentialsGood(rows, Shown(c, rows), unlocked)
BY WindowAssumption DEF Shown, CredentialsGood, CredentialEditor, Listable

\* Whatever a search finds, what is open afterwards is a row of the list.
LEMMA CredentialListed ==
  ASSUME NEW rows \in [Credential -> CredentialRow], unlocked \in BOOLEAN, NEW query \in BOOLEAN,
         NEW current, NEW c \in Listed(current, rows, query)
  PROVE  CredentialsGood(rows, c, unlocked)
  <1>1. PICK found \in IF query THEN SUBSET Listable(rows) ELSE {Listable(rows)} :
          c \in IF current \in found THEN {Shown(current, rows)}
                ELSE IF found = {} THEN {NoCredential}
                ELSE {Shown(d, rows) : d \in found}
    BY DEF Listed
  <1>2. found \subseteq Listable(rows)
    BY <1>1
  <1>3. CASE c = NoCredential
    BY <1>3 DEF NoCredential, CredentialsGood, CredentialEditor
  <1>4. CASE \E d \in Listable(rows) : c = Shown(d, rows)
    BY <1>4, CredentialShown
  <1>5. QED
    BY <1>1, <1>2, <1>3, <1>4

\* A saved credential still shows a row of the list.
LEMMA CredentialSaved ==
  ASSUME Good, NEW s \in CredentialSaves
  PROVE  s.ok \in BOOLEAN /\ CredentialsGood(credentials, s.cred, unlocked)
  <1>1. CredentialsGood(credentials, cred, unlocked) /\ unlocked \in BOOLEAN /\ searching \in BOOLEAN
        /\ credentials \in [Credential -> CredentialRow]
    BY DEF Good, SessionGood, CredentialsGood
  <1>2. \/ s.ok \in BOOLEAN /\ s.cred = cred
        \/ s.ok \in BOOLEAN /\ s.cred \in Listed(cred.id, credentials, searching)
    <2> DEFINE listed == Listed(cred.id, credentials, searching)
    <2>1. \/ s = [ok |-> TRUE, cred |-> cred] \/ s = [ok |-> FALSE, cred |-> cred]
          \/ s \in {[ok |-> TRUE, cred |-> c] : c \in listed}
      BY Zenon DEF CredentialSaves
    <2> HIDE DEF listed
    <2>2. CASE s = [ok |-> TRUE, cred |-> cred]
      BY <2>2
    <2>3. CASE s = [ok |-> FALSE, cred |-> cred]
      BY <2>3
    <2>4. CASE s \in {[ok |-> TRUE, cred |-> c] : c \in listed}
      <3>1. PICK c \in listed : s = [ok |-> TRUE, cred |-> c]
        BY <2>4
      <3>2. s.ok = TRUE /\ s.cred = c
        BY <3>1
      <3>3. QED
        BY <3>2 DEF listed
    <2>5. QED
      BY <2>1, <2>2, <2>3, <2>4
  <1>3. QED
    BY <1>1, <1>2, CredentialListed

----------------------------------------------------------------------------
(* The steps.                                                              *)

\* A step at the window that leaves the notes alone.
LEMMA MainCredentials ==
  ASSUME Good, AtMain, eventFilter, UNCHANGED <<unlocked, enabled, locking, chambers, built, away>>,
         section' \in {"notes", "passwords"}, dialogs' = dialogs, UNCHANGED noteVars,
         searching' \in BOOLEAN, CredentialsGood(credentials, cred, unlocked)'
  PROVE  Good'
  <1>1. SessionGood'
    BY MainStep DEF Good
  <1>2. NotesGood(notes, editor, unlocked)' /\ WarnedOf(dialogs, notes)'
    BY DEF Good, noteVars
  <1>3. QED
    BY <1>1, <1>2 DEF Good

\* One that leaves the credentials alone.
LEMMA MainNotes ==
  ASSUME Good, AtMain, eventFilter, UNCHANGED <<unlocked, enabled, locking, chambers, built, away>>,
         section' \in {"notes", "passwords"}, UNCHANGED credVars,
         NotesGood(notes, editor, unlocked)',
         \/ dialogs' = dialogs
         \/ \E d \in Dialog : d.about # "lock" /\ dialogs' = <<d>> /\ (d.about = "select" => Held(notes, d.id)')
  PROVE  Good'
  <1>1. SessionGood'
    BY MainStep DEF Good
  <1>2. WarnedOf(dialogs, notes)'
    <2>1. CASE dialogs' = dialogs
      BY <2>1, MainIsOpen DEF Good, WarnedOf
    <2>2. ASSUME NEW d \in Dialog, dialogs' = <<d>>, d.about = "select" => Held(notes, d.id)'
          PROVE  WarnedOf(dialogs, notes)'
      BY <2>2 DEF WarnedOf
    <2>3. QED
      BY <2>1, <2>2
  <1>3. CredentialsGood(credentials, cred, unlocked)' /\ searching' \in BOOLEAN
    BY DEF Good, credVars
  <1>4. QED
    BY <1>1, <1>2, <1>3 DEF Good

\* One that goes on after a dialog.
LEMMA AfterDialog ==
  ASSUME Good, dialogs # <<>>, Top.about # "lock", dialogs' = Closed, eventFilter,
         UNCHANGED <<unlocked, enabled, locking, chambers, built, section, away, searching>>,
         NotesGood(notes, editor, unlocked)', CredentialsGood(credentials, cred, unlocked)'
  PROVE  Good'
  <1>1. SessionGood' /\ dialogs' = <<>>
    BY DialogStep DEF Good
  <1>2. WarnedOf(dialogs, notes)'
    BY <1>1 DEF WarnedOf
  <1>3. QED
    BY <1>1, <1>2 DEF Good

\* Each step keeps the invariant.
LEMMA Invariance == Good /\ [Next]_vars => Good'
  <1> SUFFICES ASSUME Good, [Next]_vars PROVE Good'
    OBVIOUS
  <1>t. /\ SessionGood /\ NotesGood(notes, editor, unlocked) /\ CredentialsGood(credentials, cred, unlocked)
        /\ unlocked \in BOOLEAN /\ locking \in BOOLEAN /\ searching \in BOOLEAN /\ built \in BOOLEAN
        /\ notes \in [Note -> NoteRow] /\ editor \in Editor
        /\ credentials \in [Credential -> CredentialRow] /\ cred \in CredentialEditor
    BY DEF Good, SessionGood, NotesGood, CredentialsGood
  <1>1. ASSUME NEW t \in Text, onTextChanged(t) PROVE Good'
    <2>1. NotesGood(notes, editor, unlocked)'
      BY <1>1, <1>t, MainIsOpen DEF onTextChanged, NotesGood, Editor
    <2>2. QED
      BY <1>1, <2>1, MainNotes DEF onTextChanged, credVars
  <1>2. ASSUME onAutosaveTimer PROVE Good'
    <2>1. PICK s \in NoteSaves :
            notes' = s.notes /\ editor' = [editor EXCEPT !.saved = s.saved, !.autosave = FALSE]
      BY <1>2 DEF onAutosaveTimer
    <2>2. /\ NotesGood(s.notes, [editor EXCEPT !.saved = s.saved], unlocked) /\ s.saved \in BOOLEAN
          /\ \A n \in Note : Held(notes, n) => Held(s.notes, n)
      BY NoteSaved
    <2>3. NotesGood(notes, editor, unlocked)'
      BY <1>2, <1>t, <2>1, <2>2 DEF onAutosaveTimer, session, NotesGood, Editor
    <2>4. UNCHANGED <<session, section, built, dialogs, credVars, away>>
      BY <1>2 DEF onAutosaveTimer
    <2>5. SessionGood'
      BY <1>t, <2>4 DEF session, SessionGood, DialogsInOrder, TimerRuns, Top
    <2>6. WarnedOf(dialogs, notes)'
      <3>1. dialogs \in Seq(Dialog) /\ \A i \in DOMAIN dialogs : dialogs[i].about = "select" => dialogs[i].id \in Note
        BY <1>t DEF SessionGood, Dialog
      <3>2. QED
        BY <2>1, <2>2, <2>4, <3>1 DEF Good, WarnedOf
    <2>7. QED
      BY <1>t, <2>3, <2>4, <2>5, <2>6 DEF Good, session, credVars
  <1>3. ASSUME onFavoriteToggled PROVE Good'
    <2>1. NotesGood(notes, editor, unlocked)'
      BY <1>3, NoteSaved DEF onFavoriteToggled, SaveNote
    <2>2. QED
      BY <1>3, <2>1, <1>t, MainNotes DEF onFavoriteToggled, SessionGood
  <1>4. ASSUME NEW n \in Note, onNoteSelected(n) PROVE Good'
    <2>1. Held(notes, n) /\ unlocked
      BY <1>4, <1>t, MainIsOpen DEF onNoteSelected, Exists, Held
    <2>2. CASE editor.id \in {None, n} /\ editor' = Loaded(n, notes, unlocked) /\ UNCHANGED <<notes, dialogs>>
      <3>1. NotesGood(notes, editor, unlocked)'
        BY <1>4, <1>t, <2>1, <2>2, NoteLoaded DEF onNoteSelected
      <3>2. QED
        BY <1>4, <1>t, <2>2, <3>1, MainNotes DEF onNoteSelected, SessionGood
    <2>3. ASSUME NEW s \in NoteSaves,
                 notes' = s.notes,
                 editor' = IF s.ok THEN Loaded(n, s.notes, unlocked) ELSE [editor EXCEPT !.saved = s.saved],
                 dialogs' = IF s.ok THEN dialogs ELSE <<[about |-> "select", id |-> n]>>
          PROVE  Good'
      <3>1. /\ s.ok \in BOOLEAN /\ s.notes \in [Note -> NoteRow] /\ Held(s.notes, n)
            /\ NotesGood(s.notes, [editor EXCEPT !.saved = s.saved], unlocked)
        BY <2>1, NoteSaved
      <3>2. NotesGood(notes, editor, unlocked)'
        BY <1>4, <1>t, <2>3, <3>1, NoteLoaded DEF onNoteSelected
      <3>3. [about |-> "select", id |-> n] \in Dialog
        BY DEF Dialog
      <3>4. QED
        BY <1>4, <1>t, <2>3, <3>1, <3>2, <3>3, MainNotes DEF onNoteSelected, SessionGood, Held
    <2>4. QED
      BY <1>4, <2>2, <2>3 DEF onNoteSelected
  <1>5. ASSUME endSelect PROVE Good'
    <2>1. Held(notes, Top.id) /\ Top.id \in Note /\ Top.about # "lock" /\ dialogs # <<>>
      <3>1. dialogs # <<>> /\ Top.about = "select"
        BY <1>5 DEF endSelect, AtDialog
      <3>2. Top = dialogs[1] /\ 1 \in DOMAIN dialogs /\ Top \in Dialog
        BY <1>t, <3>1, OnlyDialog
      <3>3. QED
        BY <3>1, <3>2 DEF Good, WarnedOf, Dialog
    <2>2. NotesGood(notes, editor, unlocked)'
      BY <1>5, <1>t, <2>1, NoteLoaded DEF endSelect
    <2>3. CredentialsGood(credentials, cred, unlocked)'
      BY <1>5, <1>t DEF endSelect, credVars
    <2>4. QED
      BY <1>5, <2>1, <2>2, <2>3, AfterDialog DEF endSelect, credVars
  <1>6. ASSUME onNewNote PROVE Good'
    <2>1. PICK n \in Note, t \in Text : addNote(n, t, unlocked)
      BY <1>6 DEF onNewNote
    <2>2. notes' \in [Note -> NoteRow] /\ Held(notes', n)
      BY <1>t, <2>1 DEF addNote, Held, NoteRow
    <2>3. NotesGood(notes, editor, unlocked)'
      BY <1>6, <1>t, <2>1, <2>2, NoteLoaded DEF addNote, onNewNote
    <2>4. QED
      BY <1>6, <1>t, <2>3, MainNotes DEF onNewNote, SessionGood
  <1>7. ASSUME NEW n \in Note, deleteNote(n) PROVE Good'
    <2>1. [about |-> "deleteNote", id |-> n] \in Dialog
      BY DEF Dialog
    <2>2. NotesGood(notes, editor, unlocked)'
      BY <1>7, <1>t DEF deleteNote, noteVars
    <2>3. QED
      BY <1>7, <1>t, <2>1, <2>2, MainNotes DEF deleteNote, SessionGood
  <1>8. ASSUME endDeleteNote PROVE Good'
    <2>1. dialogs # <<>> /\ Top.about # "lock" /\ Top \in Dialog /\ Top.about = "deleteNote"
      BY <1>8, <1>t, OnlyDialog DEF endDeleteNote, AtDialog
    <2>2. Top.id \in Note
      BY <2>1 DEF Dialog
    <2>3. notes' \in [Note -> NoteRow] /\ \A n \in Note : n # Top.id => notes'[n] = notes[n]
      BY <1>8, <1>t, <2>2 DEF endDeleteNote, NoteRow
    <2>4. NotesGood(notes, editor, unlocked)'
      BY <1>8, <1>t, <2>3 DEF endDeleteNote, NotesGood, Editor, Held
    <2>5. QED
      BY <1>8, <1>t, <2>1, <2>4, AfterDialog DEF endDeleteNote, credVars
  <1>9. ASSUME onSaveAndClose PROVE Good'
    <2>1. [about |-> "saveAndClose", id |-> None] \in Dialog
      BY DEF Dialog
    <2>2. NotesGood(notes, editor, unlocked)'
      BY <1>9, <1>t DEF onSaveAndClose, noteVars
    <2>3. QED
      BY <1>9, <1>t, <2>1, <2>2, MainNotes DEF onSaveAndClose, SessionGood
  <1>10. ASSUME endSaveAndClose PROVE Good'
    <2>1. dialogs # <<>> /\ Top.about # "lock"
      BY <1>10 DEF endSaveAndClose, AtDialog
    <2>2. PICK s \in NoteSaves :
            /\ notes' = s.notes
            /\ editor' = IF s.ok THEN ClosedEditor ELSE [editor EXCEPT !.saved = s.saved /\ editor.id # None]
      BY <1>10 DEF endSaveAndClose
    <2>3. /\ s.ok \in BOOLEAN /\ s.saved \in BOOLEAN /\ s.notes \in [Note -> NoteRow]
          /\ NotesGood(s.notes, [editor EXCEPT !.saved = s.saved], unlocked)
      BY NoteSaved
    <2>4. NotesGood(s.notes, [editor EXCEPT !.saved = s.saved /\ editor.id # None], unlocked)
      BY <1>t, <2>3 DEF NotesGood, Editor
    <2>5. NotesGood(notes, editor, unlocked)'
      BY <1>10, <1>t, <2>2, <2>3, <2>4, NoteClosed DEF endSaveAndClose
    <2>6. QED
      BY <1>10, <1>t, <2>1, <2>5, AfterDialog DEF endSaveAndClose, credVars
  <1>11. ASSUME NEW x \in {"edited", "unlabelled"}, editCredential(x) PROVE Good'
    <2>1. CredentialsGood(credentials, cred, unlocked)'
      BY <1>11, <1>t, MainIsOpen DEF editCredential, CredentialsGood, CredentialEditor
    <2>2. QED
      BY <1>11, <1>t, <2>1, MainCredentials DEF editCredential, SessionGood
  <1>12. ASSUME \E s \in CredentialSaves : cred' = s.cred, credentials' = credentials, unlocked' = unlocked
         PROVE  CredentialsGood(credentials, cred, unlocked)'
    BY <1>12, CredentialSaved
  <1>13. ASSUME onSaveCredential \/ showSettings PROVE Good'
    <2>1. CredentialsGood(credentials, cred, unlocked)'
      BY <1>13, <1>12 DEF onSaveCredential, showSettings
    <2>2. QED
      BY <1>13, <1>t, <2>1, MainCredentials DEF onSaveCredential, showSettings, SessionGood
  <1>14. ASSUME NEW c \in Credential, onCredentialSelected(c) PROVE Good'
    <2>1. CredentialsGood(credentials, Shown(c, credentials), unlocked)
      BY <1>14, <1>t, CredentialShown DEF onCredentialSelected
    <2>2. cred.id # None => CredentialsGood(credentials, Shown(cred.id, credentials), unlocked)
      BY <1>t, CredentialShown DEF CredentialsGood
    <2>3. /\ UNCHANGED <<credentials, unlocked>>
          /\ \/ cred' = Shown(c, credentials) \/ cred' = cred
             \/ cred.id # None /\ cred' = Shown(cred.id, credentials)
      BY <1>14 DEF onCredentialSelected
    <2>4. CredentialsGood(credentials, cred, unlocked)'
      BY <1>t, <2>1, <2>2, <2>3
    <2>5. QED
      BY <1>14, <1>t, <2>4, MainCredentials DEF onCredentialSelected, SessionGood
  <1>15. ASSUME NEW c \in Credential, onNewCredential(c) PROVE Good'
    <2>1. credentials' \in [Credential -> CredentialRow] /\ c \in Listable(credentials')
      BY <1>15, <1>t DEF onNewCredential, CredentialRow, Listable
    <2>2. CredentialsGood(credentials', Shown(c, credentials'), unlocked)
      BY <1>t, <2>1, CredentialShown
    <2>3. CredentialsGood(credentials, cred, unlocked)'
      BY <1>15, <2>2 DEF onNewCredential
    <2>4. QED
      BY <1>15, <1>t, <2>3, MainCredentials DEF onNewCredential, SessionGood
  <1>16. ASSUME deleteCredential PROVE Good'
    <2>1. [about |-> "deleteCredential", id |-> cred.id] \in Dialog
      BY <1>16, <1>t DEF deleteCredential, Dialog, CredentialEditor
    <2>2. NotesGood(notes, editor, unlocked)'
      BY <1>16, <1>t DEF deleteCredential, noteVars
    <2>3. QED
      BY <1>16, <1>t, <2>1, <2>2, MainNotes DEF deleteCredential, SessionGood
  <1>17. ASSUME endDeleteCredential PROVE Good'
    <2>1. dialogs # <<>> /\ Top.about # "lock"
      BY <1>17 DEF endDeleteCredential, AtDialog
    <2>2. credentials' \in [Credential -> CredentialRow]
      BY <1>17, <1>t DEF endDeleteCredential, CredentialRow
    <2>3. CredentialsGood(credentials', cred', unlocked)
      BY <1>17, <1>t, <2>2, CredentialListed DEF endDeleteCredential
    <2>4. CredentialsGood(credentials, cred, unlocked)' /\ NotesGood(notes, editor, unlocked)'
      BY <1>17, <1>t, <2>3 DEF endDeleteCredential, noteVars
    <2>5. QED
      BY <1>17, <1>t, <2>1, <2>4, AfterDialog DEF endDeleteCredential
  <1>18. ASSUME NEW query \in BOOLEAN, onCredentialSearchChanged(query) PROVE Good'
    <2>1. CredentialsGood(credentials, cred', unlocked)
      BY <1>18, <1>t, CredentialListed DEF onCredentialSearchChanged
    <2>2. CredentialsGood(credentials, cred, unlocked)'
      BY <1>18, <2>1 DEF onCredentialSearchChanged
    <2>3. QED
      BY <1>18, <1>t, <2>2, MainCredentials DEF onCredentialSearchChanged, SessionGood
  <1>19. ASSUME NEW to \in {"notes", "passwords"}, onSectionSelected(to) PROVE Good'
    <2>1. NotesGood(notes, editor, unlocked)'
      BY <1>19, <1>t, NoteSaved DEF onSectionSelected, SaveNote, noteVars
    <2>2. CredentialsGood(credentials, cred, unlocked)'
      <3>1. CASE cred' \in Listed(cred.id, credentials, searching)
        BY <1>19, <1>t, <3>1, CredentialListed DEF onSectionSelected
      <3>2. CASE \E s \in CredentialSaves : cred' = s.cred
        BY <1>19, <1>12, <3>2 DEF onSectionSelected
      <3>3. QED
        BY <1>19, <3>1, <3>2 DEF onSectionSelected
    <2>3. SessionGood' /\ WarnedOf(dialogs, notes)'
      BY <1>19, <1>t, MainIsOpen, MainStep DEF onSectionSelected, WarnedOf
    <2>4. QED
      BY <1>19, <1>t, <2>1, <2>2, <2>3 DEF onSectionSelected, Good
  <1>20. ASSUME NEW on \in BOOLEAN, setAutoLockEnabled(on) PROVE Good'
    <2>1. SessionGood'
      BY <1>20, <1>t, MainIsOpen DEF setAutoLockEnabled, SessionGood, DialogsInOrder, TimerRuns
    <2>2. QED
      BY <1>20, <1>t, <2>1 DEF setAutoLockEnabled, noteVars, credVars, Good
  <1>21. ASSUME onVaultUnlocked PROVE Good'
    <2>1. SessionGood'
      BY <1>21, <1>t DEF onVaultUnlocked, SessionGood, DialogsInOrder, TimerRuns
    <2>2. NotesGood(notes, editor, unlocked)'
      <3>1. CASE UNCHANGED noteVars
        BY <1>21, <1>t, <3>1 DEF onVaultUnlocked, noteVars, NotesGood
      <3>2. ASSUME NEW n \in Note, Exists(n), editor' = Loaded(n, notes, TRUE), UNCHANGED notes
            PROVE  NotesGood(notes, editor, unlocked)'
        BY <1>21, <1>t, <3>2, NoteLoaded DEF onVaultUnlocked, Exists, Held
      <3>3. ASSUME NEW n \in Note, NEW t \in Text, addNote(n, t, TRUE)
            PROVE  NotesGood(notes, editor, unlocked)'
        <4>1. notes' \in [Note -> NoteRow] /\ Held(notes', n)
          BY <1>t, <3>3 DEF addNote, Held, NoteRow
        <4>2. QED
          BY <1>21, <1>t, <3>3, <4>1, NoteLoaded DEF addNote, onVaultUnlocked
      <3>4. QED
        BY <1>21, <3>1, <3>2, <3>3 DEF onVaultUnlocked, selectInitialNote
    <2>3. CredentialsGood(credentials, cred, unlocked)' /\ searching' \in BOOLEAN
      BY <1>21, <1>t DEF onVaultUnlocked, credVars, CredentialsGood
    <2>4. WarnedOf(dialogs, notes)'
      BY <1>21 DEF onVaultUnlocked, WarnedOf
    <2>5. QED
      BY <2>1, <2>2, <2>3, <2>4 DEF Good
  <1>22. ASSUME NEW restarted \in BOOLEAN, onLockVault(restarted) PROVE Good'
    <2>1. PICK c \in CredentialSaves, s \in NoteSaves :
            /\ notes' = s.notes
            /\ \/ c.ok /\ s.ok /\ lockNow /\ UNCHANGED dialogs
               \/ /\ ~(c.ok /\ s.ok)
                  /\ dialogs' = Append(dialogs, [about |-> "lock", id |-> None])
                  /\ locking' = TRUE /\ unlocked' = unlocked
                  /\ cred' = c.cred /\ editor' = [editor EXCEPT !.saved = s.saved]
                  /\ timer' = (restarted \/ (enabled /\ section = "passwords" /\ c.ok /\ cred'.fields = "stored"))
                  /\ UNCHANGED <<searching, chambers>>
      BY <1>22 DEF onLockVault
    <2>2. unlocked /\ ~locking /\ UNCHANGED <<enabled, built, section, credentials, away>>
      BY <1>22 DEF onLockVault
    <2>3. /\ s.notes \in [Note -> NoteRow] /\ \A n \in Note : Held(notes, n) => Held(s.notes, n)
          /\ NotesGood(s.notes, [editor EXCEPT !.saved = s.saved], unlocked)
      BY NoteSaved
    <2>4. CredentialsGood(credentials, c.cred, unlocked)
      BY CredentialSaved
    <2>5. /\ dialogs \in Seq(Dialog)
          /\ dialogs = <<>> \/ (Len(dialogs) = 1 /\ dialogs[1].about # "lock" /\ dialogs[1] \in Dialog)
      BY <1>t, <2>2 DEF SessionGood, DialogsInOrder, Top
    <2>6. \A i \in DOMAIN dialogs : dialogs[i].about = "select" => dialogs[i].id \in Note
      BY <2>5 DEF Dialog
    <2>7. CASE lockNow /\ UNCHANGED dialogs
      <3>1. WarnedOf(dialogs, notes)'
        BY <2>1, <2>3, <2>6, <2>7 DEF Good, WarnedOf
      <3>2. QED
        BY <1>t, <2>1, <2>2, <2>3, <2>5, <2>7, <3>1, LockStep DEF lockNow
    <2>8. CASE /\ dialogs' = Append(dialogs, [about |-> "lock", id |-> None])
               /\ locking' = TRUE /\ unlocked' = unlocked
               /\ cred' = c.cred /\ editor' = [editor EXCEPT !.saved = s.saved]
               /\ timer' = (restarted \/ (enabled /\ section = "passwords" /\ c.ok /\ cred'.fields = "stored"))
               /\ UNCHANGED <<searching, chambers>>
      <3> DEFINE question == [about |-> "lock", id |-> None]
      <3>0. question \in Dialog /\ question.about = "lock"
        BY DEF Dialog
      <3> HIDE DEF question
      <3>1. /\ dialogs' \in Seq(Dialog) /\ Len(dialogs') = Len(dialogs) + 1
            /\ dialogs'[Len(dialogs')] = question
            /\ \A i \in 1..Len(dialogs) : dialogs'[i] = dialogs[i]
        BY <2>5, <2>8, <3>0 DEF question
      <3>2. Len(dialogs) \in {0, 1} /\ (Len(dialogs) = 1 => dialogs[1].about # "lock")
        BY <2>5
      <3>3. DialogsInOrder'
        BY <2>2, <2>8, <3>0, <3>1, <3>2 DEF DialogsInOrder, Top
      <3>4. timer' \in BOOLEAN
        BY <2>8
      <3>5. SessionGood'
        BY <1>t, <2>2, <2>8, <3>1, <3>3, <3>4 DEF SessionGood, TimerRuns
      <3>6. WarnedOf(dialogs, notes)'
        <4>1. ASSUME NEW i \in DOMAIN dialogs', dialogs'[i].about = "select" PROVE Held(notes', dialogs'[i].id)
          <5>1. i \in 1..Len(dialogs) /\ dialogs'[i] = dialogs[i] /\ i \in DOMAIN dialogs
            BY <2>5, <3>0, <3>1, <4>1
          <5>2. QED
            BY <2>1, <2>3, <2>6, <4>1, <5>1 DEF Good, WarnedOf
        <4>2. QED
          BY <4>1 DEF WarnedOf
      <3>7. QED
        BY <1>t, <2>1, <2>2, <2>3, <2>4, <2>8, <3>5, <3>6 DEF Good
    <2>9. QED
      BY <2>1, <2>7, <2>8
  <1>23. ASSUME lockRequested PROVE Good'
    <2>1. resetActivityTimer \in BOOLEAN
      BY <1>t DEF resetActivityTimer, SessionGood
    <2>2. QED
      BY <1>22, <1>23, <2>1 DEF lockRequested
  <1>24. ASSUME onAutoLockTimeout PROVE Good'
    <2>1. CASE locking /\ timer' = FALSE
               /\ UNCHANGED <<unlocked, enabled, locking, chambers, built, section, dialogs, noteVars,
                              credVars, away>>
      <3>1. SessionGood'
        BY <1>t, <2>1 DEF SessionGood, DialogsInOrder, TimerRuns, Top
      <3>2. QED
        BY <1>t, <2>1, <3>1 DEF Good, noteVars, credVars, WarnedOf
    <2>2. QED
      BY <1>22, <1>24, <2>1 DEF onAutoLockTimeout
  <1>25. ASSUME NEW yes \in BOOLEAN, answerLock(yes) PROVE Good'
    <2>1. /\ dialogs # <<>> /\ Top.about = "lock" /\ dialogs' = Closed
          /\ UNCHANGED <<enabled, built, section, notes, credentials, away>>
      BY <1>25 DEF answerLock, AtDialog
    <2>2. /\ locking /\ unlocked /\ dialogs \in Seq(Dialog) /\ dialogs' \in Seq(Dialog)
          /\ \/ dialogs' = <<>>
             \/ /\ Len(dialogs) = 2 /\ dialogs' = <<dialogs[1]>> /\ dialogs[1].about # "lock"
                /\ Len(dialogs') = 1 /\ dialogs'[1] = dialogs[1] /\ 1 \in DOMAIN dialogs
      <3>1. /\ locking /\ unlocked /\ dialogs \in Seq(Dialog)
            /\ \/ Closed = <<>>
               \/ /\ Len(dialogs) = 2 /\ dialogs[1].about # "lock" /\ dialogs[1] \in Dialog
                  /\ Closed = <<dialogs[1]>>
        BY <1>t, <2>1, LockDialog DEF SessionGood
      <3>2. CASE Closed = <<>>
        BY <2>1, <3>1, <3>2
      <3>3. CASE /\ Len(dialogs) = 2 /\ dialogs[1].about # "lock" /\ dialogs[1] \in Dialog
                 /\ Closed = <<dialogs[1]>>
        <4>1. dialogs' = <<dialogs[1]>> /\ dialogs' \in Seq(Dialog) /\ Len(dialogs') = 1 /\ dialogs'[1] = dialogs[1]
          BY <2>1, <3>3
        <4>2. 1 \in DOMAIN dialogs
          BY <3>1, <3>3
        <4>3. QED
          BY <3>1, <3>3, <4>1, <4>2
      <3>4. QED
        BY <3>1, <3>2, <3>3
    <2>3. WarnedOf(dialogs, notes)'
      <3>1. CASE dialogs' = <<>>
        BY <3>1 DEF WarnedOf
      <3>2. CASE dialogs' = <<dialogs[1]>> /\ 1 \in DOMAIN dialogs
        BY <2>1, <3>2 DEF Good, WarnedOf
      <3>3. QED
        BY <2>2, <3>1, <3>2
    <2>4. CASE lockNow
      BY <1>t, <2>1, <2>2, <2>3, <2>4, LockStep DEF lockNow
    <2>5. CASE locking' = FALSE /\ eventFilter /\ UNCHANGED <<unlocked, chambers, editor, cred, searching>>
      <3>1. DialogsInOrder'
        BY <2>2, <2>5 DEF DialogsInOrder, Top
      <3>2. timer' \in BOOLEAN /\ TimerRuns'
        BY <1>t, <2>1, <2>5 DEF eventFilter, resetActivityTimer, SessionGood, TimerRuns
      <3>3. SessionGood'
        BY <1>t, <2>1, <2>2, <2>5, <3>1, <3>2 DEF SessionGood
      <3>4. QED
        BY <1>t, <2>1, <2>3, <2>5, <3>3 DEF Good
    <2>6. QED
      BY <1>25, <2>4, <2>5 DEF answerLock
  <1>26. ASSUME cancel PROVE Good'
    <2>1. dialogs # <<>> /\ Top.about # "lock"
      BY <1>26 DEF cancel
    <2>2. NotesGood(notes, editor, unlocked)' /\ CredentialsGood(credentials, cred, unlocked)'
      BY <1>26, <1>t DEF cancel, noteVars, credVars
    <2>3. QED
      BY <1>26, <2>1, <2>2, AfterDialog DEF cancel, credVars
  <1>27. ASSUME onRestoreVault PROVE Good'
    <2>1. [about |-> "restore", id |-> None] \in Dialog
      BY DEF Dialog
    <2>2. NotesGood(notes, editor, unlocked)'
      BY <1>27, <1>t DEF onRestoreVault, noteVars
    <2>3. QED
      BY <1>27, <1>t, <2>1, <2>2, MainNotes DEF onRestoreVault, SessionGood
  <1>28. ASSUME finalizeVaultRestore PROVE Good'
    <2>1. dialogs # <<>> /\ Top.about # "lock"
      BY <1>28 DEF finalizeVaultRestore, AtDialog
    <2>2. ~locking /\ dialogs' = <<>>
      BY <1>28, <1>t, <2>1, OnlyDialog DEF finalizeVaultRestore
    <2>3. notes' \in [Note -> NoteRow] /\ credentials' \in [Credential -> CredentialRow]
      BY <1>28, WindowAssumption DEF finalizeVaultRestore, NoteRow, CredentialRow
    <2>4. WarnedOf(dialogs, notes)' /\ dialogs' \in Seq(Dialog)
      BY <2>2 DEF WarnedOf
    <2>5. QED
      BY <1>28, <1>t, <2>2, <2>3, <2>4, LockStep DEF finalizeVaultRestore, SessionGood
  <1>29. ASSUME leave \/ UNCHANGED vars PROVE Good'
    <2>1. UNCHANGED <<session, built, section, dialogs, noteVars, credVars>> /\ away' \in BOOLEAN
      BY <1>29, <1>t DEF leave, vars, SessionGood
    <2>2. SessionGood'
      BY <1>t, <2>1 DEF session, SessionGood, DialogsInOrder, TimerRuns, Top
    <2>3. QED
      BY <1>t, <2>1, <2>2 DEF Good, session, noteVars, credVars, WarnedOf
  <1>30. QED
    BY <1>1, <1>2, <1>3, <1>4, <1>5, <1>6, <1>7, <1>8, <1>9, <1>10, <1>11, <1>13, <1>14, <1>15, <1>16, <1>17,
       <1>18, <1>19, <1>20, <1>21, <1>23, <1>24, <1>25, <1>26, <1>27, <1>28, <1>29 DEF Next

\* The invariant holds in a window nobody has unlocked yet.
LEMMA Initially == Init => Good
  <1> SUFFICES ASSUME Init PROVE Good
    OBVIOUS
  <1>1. notes \in [Note -> NoteRow] /\ credentials \in [Credential -> CredentialRow]
    BY WindowAssumption DEF Init, NoteRow, CredentialRow
  <1>2. SessionGood /\ WarnedOf(dialogs, notes)
    <2>1. dialogs = <<>> /\ dialogs \in Seq(Dialog) /\ Len(dialogs) = 0 /\ DOMAIN dialogs = {}
      BY DEF Init
    <2>2. DialogsInOrder /\ TimerRuns
      BY <2>1 DEF Init, DialogsInOrder, TimerRuns
    <2>3. WarnedOf(dialogs, notes)
      BY <2>1 DEF WarnedOf
    <2>4. QED
      BY <2>1, <2>2, <2>3 DEF Init, SessionGood
  <1>3. NotesGood(notes, editor, unlocked)
    BY <1>1 DEF Init, NotesGood, Editor
  <1>4. CredentialsGood(credentials, cred, unlocked) /\ searching \in BOOLEAN
    BY <1>1 DEF Init, CredentialsGood, NoCredential, CredentialEditor
  <1>5. QED
    BY <1>2, <1>3, <1>4 DEF Good

\* The invariant, and with it: every reachable state is well typed.
THEOREM Inductive == Spec => []IInv
  <1>1. IInv /\ [Next]_vars => IInv'
    <2>1. Good <=> IInv
      BY GoodIsIInv
    <2>2. Good' <=> IInv'
      BY GoodIsIInv, PTL
    <2>3. QED
      BY <2>1, <2>2, Invariance
  <1>2. Init => IInv
    BY Initially, GoodIsIInv
  <1>3. QED
    BY <1>1, <1>2, PTL DEF Spec

\* While the vault is open with auto-lock on and nobody is asked, the timer runs.
THEOREM TimerAlwaysRuns == Spec => []TimerRuns
  <1>1. IInv => TimerRuns
    BY DEF IInv
  <1>2. QED
    BY <1>1, Inductive, PTL

\* A lock is asked about exactly while the window says it is locking.
THEOREM AskingIsLocking == Spec => []LockingIsAsking
  <1>1. IInv => LockingIsAsking
    <2> SUFFICES ASSUME SessionGood PROVE LockingIsAsking
      BY GoodIsIInv DEF Good
    <2>0. dialogs \in Seq(Dialog) /\ DialogsInOrder /\ locking \in BOOLEAN
      BY DEF SessionGood
    <2>1. CASE locking
      <3>1. unlocked /\ Top.about = "lock" /\ Len(dialogs) \in {1, 2}
        BY <2>0, <2>1 DEF DialogsInOrder
      <3>2. Len(dialogs) \in DOMAIN dialogs
        BY <2>0, <3>1
      <3>3. QED
        BY <2>1, <3>1, <3>2 DEF LockingIsAsking, Asking, Top
    <2>2. CASE ~locking
      <3>1. dialogs = <<>> \/ (Len(dialogs) = 1 /\ dialogs[1].about # "lock")
        BY <2>0, <2>2 DEF DialogsInOrder, Top
      <3>2. \A i \in DOMAIN dialogs : dialogs[i].about # "lock"
        BY <2>0, <3>1
      <3>3. QED
        BY <2>2, <3>2 DEF LockingIsAsking, Asking
    <2>3. QED
      BY <2>0, <2>1, <2>2
  <1>2. QED
    BY <1>1, Inductive, PTL

\* Whatever handler goes on behind a lock, a locked window shows no text.
THEOREM NothingIsShown == Spec => []NothingShown
  <1>1. IInv => NothingShown
    BY DEF IInv
  <1>2. QED
    BY <1>1, Inductive, PTL

\* What the editors are open on is in the vault, and what is called saved is stored.
THEOREM EditorsAreRows == Spec => [](EditorHasRow /\ SavedIsStored)
  <1>1. IInv => EditorHasRow /\ SavedIsStored
    BY DEF IInv
  <1>2. QED
    BY <1>1, Inductive, PTL

\* What the window calls saved is what a reload reads (saveCurrentNote, onNoteSelected).
THEOREM SavedIsTrue == Spec => []SavedIsStored
  BY EditorsAreRows, PTL

----------------------------------------------------------------------------
(* The promise of SessionPromise.                                          *)

\* The note being edited, as the promise sees it: none in a locked vault.
LEMMA EditedGood ==
  ASSUME Good
  PROVE  /\ edited \in Promise!Edit
         /\ edited = Promise!NoEdit <=> editor.id = None \/ editor.err
         /\ ~unlocked => edited = Promise!NoEdit
  <1>1. editor.id \in Note \union {None} /\ editor.err \in BOOLEAN
        /\ (editor.id # None /\ ~editor.err => editor.text \in Text) /\ (~unlocked => editor.text = None)
    BY DEF Good, NotesGood, Editor
  <1>2. CASE editor.id = None \/ editor.err
    BY <1>2 DEF edited, Promise!Edit, Promise!NoEdit
  <1>3. CASE editor.id # None /\ ~editor.err
    <2>1. edited = [note |-> editor.id, text |-> editor.text] /\ editor.id \in Note /\ editor.text \in Text
      BY <1>1, <1>3 DEF edited
    <2>2. edited # Promise!NoEdit
      BY <2>1, WindowAssumption DEF Promise!NoEdit
    <2>3. unlocked
      BY <1>1, <2>1, WindowAssumption
    <2>4. QED
      BY <1>3, <2>1, <2>2, <2>3 DEF Promise!Edit
  <1>4. QED
    BY <1>1, <1>2, <1>3

\* What the promise calls storing the edit is the update of the open note's row.
LEMMA StoredRows ==
  ASSUME Good
  PROVE  Promise!Stored = IF editor.id = None \/ editor.err THEN notes
                          ELSE [notes EXCEPT ![editor.id] = editor.text]
  <1>1. CASE editor.id = None \/ editor.err
    BY <1>1, EditedGood DEF Promise!Stored
  <1>2. CASE ~(editor.id = None \/ editor.err)
    <2>1. edited = [note |-> editor.id, text |-> editor.text]
      BY <1>2 DEF edited
    <2>2. edited # Promise!NoEdit
      BY <1>2, EditedGood
    <2>3. QED
      BY <1>2, <2>1, <2>2 DEF Promise!Stored
  <1>3. QED
    BY <1>1, <1>2

\* A save stores the edit or nothing, and says truly when it did.
LEMMA SaveStores ==
  ASSUME Good, NEW s \in NoteSaves
  PROVE  s.notes \in {notes, Promise!Stored} /\ (s.ok => s.notes = Promise!Stored)
  <1>1. CASE editor.err
    <2>1. s.notes = notes
      BY <1>1 DEF NoteSaves
    <2>2. QED
      BY <1>1, <2>1, StoredRows
  <1>2. CASE ~editor.err /\ editor.id = None
    <2>1. s.notes = notes
      BY <1>2 DEF NoteSaves
    <2>2. QED
      BY <1>2, <2>1, StoredRows
  <1>3. CASE ~editor.err /\ editor.id # None
    <2>1. \/ s.ok = FALSE /\ s.notes = notes
          \/ s.ok = TRUE /\ s.notes = [notes EXCEPT ![editor.id] = editor.text]
      BY <1>3 DEF NoteSaves
    <2>2. QED
      BY <1>3, <2>1, StoredRows
  <1>4. QED
    BY <1>1, <1>2, <1>3

\* A step of an open vault that stays open is the promise's Work if the rows follow.
LEMMA OpenStep ==
  ASSUME Good, Good', unlocked, ~locking, unlocked', ~locking',
         \A n \in Note : notes'[n] \in {notes[n], Promise!Stored[n], Gone} \/ notes[n] = Never
  PROVE  Promise!Work
  <1>1. lockState = "open" /\ lockState' = "open"
    BY DEF lockState
  <1>2. notes' \in [Note -> Promise!Row]
    BY DEF Good, NotesGood, NoteRow, Promise!Row
  <1>3. edited' \in Promise!Edit
    <2>1. Good => edited \in Promise!Edit
      BY EditedGood
    <2>2. (Good => edited \in Promise!Edit)'
      BY EditedGood, PTL
    <2>3. QED
      BY <2>2 DEF Promise!Edit, Promise!NoEdit
  <1>4. replacing' \in BOOLEAN
    BY DEF replacing
  <1>5. QED
    BY <1>1, <1>2, <1>3, <1>4 DEF Promise!Work, Promise!RowsFollow

\* A step of a locked vault that writes no row and opens or closes no restore is
\* nothing to the promise.
LEMMA LockedStep ==
  ASSUME Good, Good', ~unlocked, ~unlocked', notes' = notes, replacing' = replacing
  PROVE  UNCHANGED Promise!promise
  <1>1. edited = Promise!NoEdit
    BY EditedGood
  <1>2. edited' = Promise!NoEdit
    <2>1. (Good /\ ~unlocked => edited = Promise!NoEdit)'
      BY EditedGood, PTL
    <2>2. QED
      BY <2>1 DEF Promise!NoEdit
  <1>3. QED
    BY <1>1, <1>2 DEF lockState, Promise!promise

\* A lock without a question stores the edit; one with a question may have.
LEMMA LockPromised ==
  ASSUME Good, Good', NEW restarted \in BOOLEAN, onLockVault(restarted)
  PROVE  Promise!Lock \/ Promise!Ask
  <1>1. PICK c \in CredentialSaves, s \in NoteSaves :
          /\ notes' = s.notes
          /\ \/ c.ok /\ s.ok /\ lockNow /\ UNCHANGED dialogs
             \/ /\ dialogs' = Append(dialogs, [about |-> "lock", id |-> None])
                /\ locking' = TRUE /\ unlocked' = unlocked
                /\ editor' = [editor EXCEPT !.saved = s.saved]
    BY DEF onLockVault
  <1>2. ~locking /\ unlocked /\ lockState = "open"
    BY DEF onLockVault, lockState
  <1>3. notes' \in {notes, Promise!Stored} /\ (s.ok => notes' = Promise!Stored)
    BY <1>1, SaveStores
  <1>4. CASE s.ok /\ lockNow /\ UNCHANGED dialogs
    <2>1. lockState' = "locked" /\ replacing' = replacing
      BY <1>4 DEF lockNow, lockState, replacing
    <2>2. edited' = Promise!NoEdit
      BY <1>4 DEF lockNow, clearAllSensitiveState, ClosedEditor, edited, Promise!NoEdit
    <2>3. QED
      BY <1>2, <1>3, <1>4, <2>1, <2>2 DEF Promise!Lock
  <1>5. CASE /\ dialogs' = Append(dialogs, [about |-> "lock", id |-> None])
             /\ locking' = TRUE /\ unlocked' = unlocked
             /\ editor' = [editor EXCEPT !.saved = s.saved]
    <2>1. lockState' = "asking"
      BY <1>2, <1>5 DEF lockState
    <2>2. edited' = edited
      BY <1>5 DEF edited, Good, NotesGood, Editor
    <2>3. replacing' = replacing
      <3>1. dialogs \in Seq(Dialog)
        BY DEF Good, SessionGood
      <3>2. CASE dialogs = <<>>
        <4>1. dialogs' # <<>> /\ dialogs'[1] = [about |-> "lock", id |-> None]
          BY <1>5, <3>2
        <4>2. QED
          BY <3>2, <4>1 DEF replacing
      <3>3. CASE dialogs # <<>>
        <4>0. [about |-> "lock", id |-> None] \in Dialog
          BY DEF Dialog
        <4>1. dialogs' # <<>> /\ dialogs'[1] = dialogs[1]
          BY <1>5, <3>1, <3>3, <4>0
        <4>2. QED
          BY <3>3, <4>1 DEF replacing
      <3>4. QED
        BY <3>2, <3>3
    <2>4. QED
      BY <1>2, <1>3, <2>1, <2>2, <2>3 DEF Promise!Ask
  <1>6. QED
    BY <1>1, <1>4, <1>5

\* The answer to the question of the lock.
LEMMA AnswerPromised ==
  ASSUME Good, Good', NEW yes \in BOOLEAN, answerLock(yes)
  PROVE  Promise!Answer
  <1>1. dialogs # <<>> /\ Top.about = "lock" /\ dialogs' = Closed /\ UNCHANGED notes
    BY DEF answerLock, AtDialog
  <1>2. /\ locking /\ unlocked
        /\ \/ Len(dialogs) = 1 /\ dialogs[1].about = "lock" /\ Closed = <<>>
           \/ /\ Len(dialogs) = 2 /\ dialogs[1].about # "lock" /\ dialogs[1] \in Dialog
              /\ Closed = <<dialogs[1]>>
    BY <1>1, LockDialog DEF Good
  <1>3. lockState = "asking"
    BY <1>2 DEF lockState
  <1>4. replacing' = replacing
    <2>1. CASE Len(dialogs) = 1 /\ dialogs[1].about = "lock" /\ Closed = <<>>
      BY <1>1, <2>1 DEF replacing
    <2>2. CASE Len(dialogs) = 2 /\ Closed = <<dialogs[1]>>
      <3>1. dialogs' # <<>> /\ dialogs'[1] = dialogs[1]
        BY <1>1, <2>2
      <3>2. QED
        BY <1>1, <3>1 DEF replacing
    <2>3. QED
      BY <1>2, <2>1, <2>2
  <1>5. CASE lockNow
    <2>1. lockState' = "locked"
      BY <1>5 DEF lockNow, lockState
    <2>2. edited' = Promise!NoEdit
      BY <1>5 DEF lockNow, clearAllSensitiveState, ClosedEditor, edited, Promise!NoEdit
    <2>3. QED
      BY <1>1, <1>3, <1>4, <2>1, <2>2 DEF Promise!Answer
  <1>6. CASE locking' = FALSE /\ UNCHANGED <<unlocked, editor>>
    <2>1. lockState' = "open" /\ edited' = edited
      BY <1>2, <1>6 DEF lockState, edited
    <2>2. QED
      BY <1>1, <1>3, <1>4, <2>1 DEF Promise!Answer
  <1>7. QED
    BY <1>5, <1>6 DEF answerLock

\* What the user does at the window is the promise's Work.
LEMMA MainPromised ==
  ASSUME Good, Good', AtMain, UNCHANGED <<unlocked, locking>>,
         \/ notes' = notes
         \/ \E s \in NoteSaves : notes' = s.notes
         \/ \E n \in Note, t \in Text : addNote(n, t, unlocked)
  PROVE  Promise!Work
  <1>1. unlocked /\ ~locking
    BY MainIsOpen DEF Good
  <1>2. notes \in [Note -> NoteRow]
    BY DEF Good, NotesGood
  <1>3. \A n \in Note : notes'[n] \in {notes[n], Promise!Stored[n], Gone} \/ notes[n] = Never
    <2>1. CASE notes' = notes
      BY <2>1
    <2>2. CASE \E s \in NoteSaves : notes' = s.notes
      BY <2>2, SaveStores
    <2>3. CASE \E n \in Note, t \in Text : addNote(n, t, unlocked)
      BY <1>2, <2>3 DEF addNote
    <2>4. QED
      BY <2>1, <2>2, <2>3
  <1>4. QED
    BY <1>1, <1>3, OpenStep

\* A handler that goes on after its dialog works if the vault is open; behind a lock
\* it deletes a note, gives up the restore, or does nothing the promise sees.
LEMMA DialogPromised ==
  ASSUME Good, Good', endSelect \/ endDeleteNote \/ endSaveAndClose \/ endDeleteCredential \/ cancel
  PROVE  Promise!Work \/ Promise!DeleteLocked \/ Promise!CancelLocked \/ UNCHANGED Promise!promise
  <1>1. /\ dialogs # <<>> /\ Top.about # "lock" /\ dialogs' = Closed /\ UNCHANGED <<unlocked, locking>>
        /\ notes \in [Note -> NoteRow] /\ unlocked \in BOOLEAN
    BY DEF endSelect, endDeleteNote, endSaveAndClose, endDeleteCredential, cancel, AtDialog, noteVars,
           Good, SessionGood, NotesGood
  <1>2. ~locking /\ dialogs' = <<>> /\ Top = dialogs[1] /\ Top \in Dialog
    BY <1>1, OnlyDialog DEF Good
  <1>3. \/ notes' = notes
        \/ \E s \in NoteSaves : notes' = s.notes
        \/ Top.about = "deleteNote" /\ Top.id \in Note /\ notes' = [notes EXCEPT ![Top.id] = Gone]
    <2>1. CASE endDeleteNote
      BY <1>2, <2>1 DEF endDeleteNote, AtDialog, Dialog
    <2>2. CASE endSelect \/ endDeleteCredential \/ cancel
      BY <2>2 DEF endSelect, endDeleteCredential, cancel, noteVars
    <2>3. CASE endSaveAndClose
      BY <2>3 DEF endSaveAndClose
    <2>4. QED
      BY <2>1, <2>2, <2>3
  <1>4. replacing' = FALSE /\ (replacing <=> Top.about = "restore")
    BY <1>1, <1>2 DEF replacing
  <1>5. CASE unlocked
    <2>1. \A n \in Note : notes'[n] \in {notes[n], Promise!Stored[n], Gone} \/ notes[n] = Never
      BY <1>1, <1>3, SaveStores
    <2>2. QED
      BY <1>1, <1>2, <1>5, <2>1, OpenStep
  <1>6. CASE ~unlocked
    <2>1. lockState = "locked" /\ lockState' = "locked"
      BY <1>1, <1>6 DEF lockState
    <2>2. edited = Promise!NoEdit /\ edited' = Promise!NoEdit
      <3>1. (Good /\ ~unlocked => edited = Promise!NoEdit)'
        BY EditedGood, PTL
      <3>2. QED
        BY <1>1, <1>6, <3>1, EditedGood DEF Promise!NoEdit
    <2>3. CASE Top.about = "deleteNote" /\ Top.id \in Note /\ notes' = [notes EXCEPT ![Top.id] = Gone]
      <3>1. replacing = FALSE
        BY <1>4, <2>3 DEF replacing
      <3>2. QED
        BY <1>4, <2>1, <2>2, <2>3, <3>1 DEF Promise!DeleteLocked
    <2>4. CASE notes' = notes
      <3>1. CASE replacing
        BY <1>4, <2>1, <2>2, <2>4, <3>1 DEF Promise!CancelLocked
      <3>2. CASE ~replacing
        <4>1. replacing = FALSE
          BY <3>2 DEF replacing
        <4>2. QED
          BY <1>1, <1>4, <1>6, <2>4, <4>1, LockedStep
      <3>3. QED
        BY <3>1, <3>2
    <2>5. CASE \E s \in NoteSaves : notes' = s.notes
      BY <1>6, <2>4, <2>5, NoteSaved
    <2>6. QED
      BY <1>3, <2>3, <2>4, <2>5
  <1>7. QED
    BY <1>1, <1>5, <1>6

\* The autosave timer: the promise's Work, Save, or nothing.
LEMMA AutosavePromised ==
  ASSUME Good, Good', onAutosaveTimer
  PROVE  Promise!Work \/ Promise!Save \/ UNCHANGED Promise!promise
  <1>1. PICK s \in NoteSaves :
          notes' = s.notes /\ editor' = [editor EXCEPT !.saved = s.saved, !.autosave = FALSE]
    BY DEF onAutosaveTimer
  <1>2. UNCHANGED <<unlocked, locking, dialogs>> /\ unlocked \in BOOLEAN /\ locking \in BOOLEAN
    BY DEF onAutosaveTimer, session, Good, SessionGood
  <1>3. notes' \in {notes, Promise!Stored}
    BY <1>1, SaveStores
  <1>4. lockState' = lockState /\ replacing' = replacing
    BY <1>2 DEF lockState, replacing
  <1>5. edited' = edited
    BY <1>1 DEF edited, Good, NotesGood, Editor
  <1>6. CASE unlocked /\ ~locking
    BY <1>2, <1>3, <1>6, OpenStep
  <1>7. CASE ~unlocked
    BY <1>1, <1>2, <1>4, <1>7, NoteSaved, LockedStep
  <1>8. CASE unlocked /\ locking
    <2>1. lockState = "asking"
      BY <1>8 DEF lockState
    <2>2. QED
      BY <1>3, <1>4, <1>5, <2>1 DEF Promise!Save, Promise!promise
  <1>9. QED
    BY <1>2, <1>6, <1>7, <1>8

\* Unlocking opens a note, the first time perhaps a new one.
LEMMA UnlockPromised ==
  ASSUME Good, Good', onVaultUnlocked
  PROVE  Promise!Unlock
  <1>1. ~unlocked /\ unlocked' /\ UNCHANGED <<locking, dialogs>> /\ ~locking /\ notes \in [Note -> NoteRow]
    BY DEF onVaultUnlocked, Good, SessionGood, DialogsInOrder, NotesGood
  <1>2. lockState = "locked" /\ lockState' = "open" /\ replacing' = replacing
    BY <1>1 DEF lockState, replacing
  <1>3. notes' = notes \/ \E n \in Note, t \in Text : addNote(n, t, TRUE)
    BY DEF onVaultUnlocked, selectInitialNote, noteVars
  <1>4. \A n \in Note : notes[n] # Never => notes'[n] = notes[n]
    BY <1>1, <1>3 DEF addNote
  <1>5. notes' \in [Note -> Promise!Row]
    BY DEF Good, NotesGood, NoteRow, Promise!Row
  <1>6. edited' \in Promise!Edit
    <2>1. (Good => edited \in Promise!Edit)'
      BY EditedGood, PTL
    <2>2. QED
      BY <2>1 DEF Promise!Edit, Promise!NoEdit
  <1>7. QED
    BY <1>2, <1>4, <1>5, <1>6 DEF Promise!Unlock

\* Another vault put in place of this one.
LEMMA RestorePromised ==
  ASSUME Good, Good', finalizeVaultRestore
  PROVE  Promise!Replace
  <1>1. dialogs # <<>> /\ Top.about = "restore" /\ dialogs' = Closed
    BY DEF finalizeVaultRestore, AtDialog
  <1>2. ~locking /\ dialogs' = <<>> /\ Top = dialogs[1]
    BY <1>1, OnlyDialog DEF Good
  <1>3. replacing /\ replacing' = FALSE
    BY <1>1, <1>2 DEF replacing
  <1>4. lockState \in {"open", "locked"} /\ lockState' = "locked"
    BY <1>2 DEF finalizeVaultRestore, lockState
  <1>5. edited' = Promise!NoEdit
    BY DEF finalizeVaultRestore, clearAllSensitiveState, ClosedEditor, edited, Promise!NoEdit
  <1>6. notes' \in [Note -> Promise!Row]
    BY DEF Good, NotesGood, NoteRow, Promise!Row
  <1>7. QED
    BY <1>3, <1>4, <1>5, <1>6 DEF Promise!Replace

\* Each step is one the promise allows, or none it sees.
LEMMA StepPromised ==
  ASSUME Good, Good', [Next]_vars
  PROVE  [Promise!Next]_(Promise!promise)
  <1> USE DEF Promise!Next
  <1>1. ASSUME \/ onFavoriteToggled \/ onNewNote \/ onSaveAndClose \/ onSaveCredential \/ deleteCredential
               \/ showSettings \/ onRestoreVault
               \/ \E t \in Text : onTextChanged(t)
               \/ \E n \in Note : onNoteSelected(n) \/ deleteNote(n)
               \/ \E f \in {"edited", "unlabelled"} : editCredential(f)
               \/ \E c \in Credential : onCredentialSelected(c) \/ onNewCredential(c)
               \/ \E b \in BOOLEAN : onCredentialSearchChanged(b) \/ setAutoLockEnabled(b)
               \/ \E to \in {"notes", "passwords"} : onSectionSelected(to)
        PROVE  Promise!Work
    <2>1. AtMain /\ UNCHANGED <<unlocked, locking>>
      BY <1>1 DEF onFavoriteToggled, onNewNote, onSaveAndClose, onSaveCredential, deleteCredential,
           showSettings, onRestoreVault, onTextChanged, onNoteSelected, deleteNote, editCredential,
           onCredentialSelected, onNewCredential, onCredentialSearchChanged, setAutoLockEnabled,
           onSectionSelected
    <2>2. \/ notes' = notes
          \/ \E s \in NoteSaves : notes' = s.notes
          \/ \E n \in Note, t \in Text : addNote(n, t, unlocked)
      BY <1>1 DEF onFavoriteToggled, onNewNote, onSaveAndClose, onSaveCredential, deleteCredential,
           showSettings, onRestoreVault, onTextChanged, onNoteSelected, deleteNote, editCredential,
           onCredentialSelected, onNewCredential, onCredentialSearchChanged, setAutoLockEnabled,
           onSectionSelected, SaveNote, noteVars
    <2>3. QED
      BY <2>1, <2>2, MainPromised
  <1>2. CASE endSelect \/ endDeleteNote \/ endSaveAndClose \/ endDeleteCredential \/ cancel
    BY <1>2, DialogPromised
  <1>3. CASE onAutosaveTimer
    BY <1>3, AutosavePromised
  <1>4. CASE onVaultUnlocked
    BY <1>4, UnlockPromised
  <1>5. CASE finalizeVaultRestore
    BY <1>5, RestorePromised
  <1>6. CASE \E b \in BOOLEAN : answerLock(b)
    BY <1>6, AnswerPromised
  <1>7. CASE lockRequested
    <2>1. resetActivityTimer \in BOOLEAN
      BY DEF resetActivityTimer, Good, SessionGood
    <2>2. QED
      BY <1>7, <2>1, LockPromised DEF lockRequested
  <1>8. ASSUME UNCHANGED <<unlocked, locking, dialogs, notes, editor>> PROVE UNCHANGED Promise!promise
    BY <1>8 DEF Promise!promise, lockState, edited, replacing
  <1>9. CASE onAutoLockTimeout
    <2>1. CASE onLockVault(FALSE)
      BY <2>1, LockPromised
    <2>2. CASE UNCHANGED <<unlocked, locking, dialogs, noteVars>>
      BY <1>8, <2>2 DEF noteVars
    <2>3. QED
      BY <1>9, <2>1, <2>2 DEF onAutoLockTimeout
  <1>10. CASE leave \/ UNCHANGED vars
    BY <1>8, <1>10 DEF leave, vars, session, noteVars
  <1>11. QED
    BY <1>1, <1>2, <1>3, <1>4, <1>5, <1>6, <1>7, <1>9, <1>10 DEF Next

\* The window keeps its promise: what is being edited goes to its own row, and no
\* lock loses it unless the user agreed.
THEOREM PromiseIsKept == Spec => KeepsPromise
  <1>1. Init => Promise!Init
    <2> SUFFICES ASSUME Init PROVE Promise!Init
      OBVIOUS
    <2>1. notes \in [Note -> Promise!Row]
      BY WindowAssumption DEF Init, Promise!Row
    <2>2. lockState = "locked" /\ edited = Promise!NoEdit /\ replacing = FALSE
      BY DEF Init, lockState, edited, replacing, Promise!NoEdit
    <2>3. QED
      BY <2>1, <2>2 DEF Promise!Init
  <1>2. IInv /\ IInv' /\ [Next]_vars => [Promise!Next]_(Promise!promise)
    <2>1. (Good <=> IInv) /\ (Good <=> IInv)'
      BY GoodIsIInv, PTL
    <2>2. QED
      BY <2>1, StepPromised
  <1>3. QED
    BY <1>1, <1>2, Inductive, PTL DEF Spec, KeepsPromise, Promise!Spec

----------------------------------------------------------------------------
(* Typed text.                                                             *)

\* A save leaves the editor on the same note and text.
LEMMA SaveKeepsText ==
  ASSUME Good, NEW s \in NoteSaves, SaveNote(s)
  PROVE  editor'.id = editor.id /\ editor'.text = editor.text
BY DEF SaveNote, Good, NotesGood, Editor

\* A lock that is not asked about has stored the open note.
LEMMA LockKeepsText ==
  ASSUME Good, NEW restarted, onLockVault(restarted), editor.id # None, ~editor.err
  PROVE  \/ notes'[editor.id] = editor.text
         \/ editor'.id = editor.id /\ editor'.text = editor.text
  <1>1. PICK c \in CredentialSaves, s \in NoteSaves :
          notes' = s.notes /\ (s.ok \/ editor' = [editor EXCEPT !.saved = s.saved])
    BY DEF onLockVault
  <1>2. CASE s.ok
    BY <1>1, <1>2, NoteSaved
  <1>3. CASE editor' = [editor EXCEPT !.saved = s.saved]
    BY <1>3 DEF Good, NotesGood, Editor
  <1>4. QED
    BY <1>1, <1>2, <1>3

\* Text typed into a note leaves the screen for its row, or by what the user did.
THEOREM TypedTextIsKept == Spec => TypedIsKept
  <1> DEFINE Told ==
        \/ \E t \in Text : onTextChanged(t)
        \/ onNoteSelected(editor.id)
        \/ onNewNote \/ endSelect \/ endDeleteNote \/ answerLock(TRUE) \/ finalizeVaultRestore
      KeepsText ==
        editor.id # None /\ ~editor.err /\ <<editor'.id, editor'.text>> # <<editor.id, editor.text>>
          => notes'[editor.id] = editor.text \/ Told
  <1>1. ASSUME Good, Next PROVE KeepsText
    <2> SUFFICES ASSUME editor.id # None, ~editor.err, ~Told
                 PROVE  \/ notes'[editor.id] = editor.text
                        \/ editor'.id = editor.id /\ editor'.text = editor.text
      OBVIOUS
    <2>0. editor \in Editor /\ unlocked
      BY <1>1, WindowAssumption DEF Good, NotesGood, SessionGood
    <2>1. CASE UNCHANGED editor
      BY <2>1
    <2>2. CASE onFavoriteToggled \/ \E to \in {"notes", "passwords"} : onSectionSelected(to)
      <3>1. UNCHANGED editor \/ \E s \in NoteSaves : SaveNote(s)
        BY <2>2 DEF onFavoriteToggled, onSectionSelected, noteVars
      <3>2. QED
        BY <1>1, <2>1, <3>1, SaveKeepsText
    <2>3. CASE onAutosaveTimer
      BY <2>0, <2>3 DEF onAutosaveTimer, Editor
    <2>4. ASSUME NEW n \in Note, onNoteSelected(n)
          PROVE  \/ notes'[editor.id] = editor.text
                 \/ editor'.id = editor.id /\ editor'.text = editor.text
      <3>1. n # editor.id
        BY <2>4
      <3>2. PICK s \in NoteSaves :
              /\ notes' = s.notes
              /\ editor' = IF s.ok THEN Loaded(n, s.notes, unlocked) ELSE [editor EXCEPT !.saved = s.saved]
        BY <2>4, <3>1 DEF onNoteSelected
      <3>3. QED
        BY <1>1, <2>0, <3>2, NoteSaved DEF Editor
    <2>5. CASE endSaveAndClose
      <3>1. PICK s \in NoteSaves :
              /\ notes' = s.notes
              /\ editor' = IF s.ok THEN ClosedEditor ELSE [editor EXCEPT !.saved = s.saved /\ editor.id # None]
        BY <2>5 DEF endSaveAndClose
      <3>2. QED
        BY <1>1, <2>0, <3>1, NoteSaved DEF Editor
    <2>6. CASE lockRequested
      BY <1>1, <2>6, LockKeepsText DEF lockRequested
    <2>7. CASE onAutoLockTimeout
      <3>1. onLockVault(FALSE) \/ UNCHANGED editor
        BY <2>7 DEF onAutoLockTimeout, noteVars
      <3>2. QED
        BY <1>1, <2>1, <3>1, LockKeepsText
    <2>8. ASSUME NEW b \in BOOLEAN, answerLock(b) PROVE UNCHANGED editor
      <3>1. b = FALSE
        BY <2>8
      <3>2. QED
        BY <2>8, <3>1 DEF answerLock
    <2>9. ~onVaultUnlocked
      BY <2>0 DEF onVaultUnlocked
    <2>10. CASE \/ cancel \/ leave \/ onSaveAndClose \/ onSaveCredential \/ deleteCredential
                \/ endDeleteCredential \/ showSettings \/ onRestoreVault
                \/ \E n \in Note : deleteNote(n)
                \/ \E f \in {"edited", "unlabelled"} : editCredential(f)
                \/ \E c \in Credential : onCredentialSelected(c) \/ onNewCredential(c)
                \/ \E b \in BOOLEAN : onCredentialSearchChanged(b) \/ setAutoLockEnabled(b)
      <3>1. UNCHANGED editor
        BY <2>10 DEF cancel, leave, onSaveAndClose, onSaveCredential, deleteCredential,
             endDeleteCredential, showSettings, onRestoreVault, deleteNote, editCredential,
             onCredentialSelected, onNewCredential, onCredentialSearchChanged, setAutoLockEnabled, noteVars
      <3>2. QED
        BY <3>1
    <2>11. QED
      BY <1>1, <2>1, <2>2, <2>3, <2>4, <2>5, <2>6, <2>7, <2>8, <2>9, <2>10 DEF Next
  <1>2. IInv /\ [Next]_vars => [KeepsText]_vars
    BY <1>1, GoodIsIInv
  <1>3. QED
    BY <1>2, Inductive, PTL DEF Spec, TypedIsKept
=============================================================================
