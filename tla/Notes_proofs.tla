---------------------------- MODULE Notes_proofs ----------------------------
(***************************************************************************)
(* What holds of a vault's notes for any numbers of rows, any widths of    *)
(* blocks and markers, any texts and whichever front end: nothing in the   *)
(* tables refers to a row that is gone, a photo is stored for the note it  *)
(* was taken for, what is saved says what the editor shows, and a text     *)
(* refers to what is its own.  The first half is about rows, and there a   *)
(* body is any value; the second is about texts, and what                  *)
(* processBodyForSave makes of one.                                        *)
(***************************************************************************)
EXTENDS Notes, FiniteSetTheorems, SequenceTheorems, TLAPS

\* The tables are tables, whatever their rows are, and belongings are a note's.
Shape(d) ==
  d = [notes |-> [n \in Note |-> d.notes[n]], blocks |-> [b \in Block |-> d.blocks[b]],
       images |-> [i \in Image |-> d.images[i]], folders |-> d.folders, default |-> d.default]

Owned(d) ==
  /\ \A b \in Block : IsRow(d.blocks[b]) => d.blocks[b].note \in Note
  /\ \A i \in Image : IsRow(d.images[i]) => d.images[i].note \in Note

Good(d) == Shape(d) /\ Owned(d) /\ Sound(d)

\* No note is deleted between d and e.
Kept(d, e) == \A n \in Note : Exists(d, n) => Exists(e, n)

\* The desktop's editor is of a note that exists, for a save stores its blocks before
\* it looks.
EditorOf(d, editor) ==
  /\ editor = [id |-> editor.id, body |-> editor.body, folder |-> editor.folder,
               err |-> editor.err, saved |-> editor.saved]
  /\ editor.id # None => editor.id \in Note /\ Exists(d, editor.id)

\* The phone's screen may be of a note that does not exist.
ScreenOf(s) ==
  /\ s = [id |-> s.id, body |-> s.body, folder |-> s.folder]
  /\ s.id \in Note \union {None}

\* The photo that may come is for the note remembered.
CameraKnown ==
  camera # None => camera \in Note /\ setting = camera /\ pending \in {camera, None}

OneFront == front # "desktop" => open = Closed

IInv ==
  /\ Good(db) /\ EditorOf(db, open) /\ ScreenOf(screen)
  /\ CameraKnown /\ OneFront

----------------------------------------------------------------------------
(* The repositories.                                                       *)

\* A folder more, or none.
LEMMA CreatedFolder ==
  ASSUME NEW d, Good(d), NEW f, NEW e \in createFolder(d, f)
  PROVE  Good(e) /\ e.notes = d.notes /\ d.folders \subseteq e.folders /\ e.default = d.default
BY DEF createFolder, Good, Shape, Owned, Sound, Exists, Stored, IsRow

\* The default may be any folder there is.
LEMMA DefaultSet ==
  ASSUME NEW d, Good(d), NEW f \in d.folders \union {None, d.default}
  PROVE  Good([d EXCEPT !.default = f]) /\ [d EXCEPT !.default = f].notes = d.notes
BY DEF Good, Shape, Owned, Sound, Exists, Stored, IsRow

\* Whatever ensureDefaultFolder meets or fails at, the notes stay as they are.
LEMMA DefaultFolder ==
  ASSUME NEW d, Good(d), NEW o \in ensureDefaultFolder(d)
  PROVE  Good(o.db) /\ o.db.notes = d.notes
<1>1. CASE Inbox \in d.folders
  <2>1. o.db \in {d, [d EXCEPT !.default = Inbox]}
    BY <1>1 DEF ensureDefaultFolder
  <2>2. Inbox \in d.folders \union {None, d.default}
    BY <1>1
  <2>3. LET e == [d EXCEPT !.default = Inbox] IN Good(e) /\ e.notes = d.notes
    BY <2>2, DefaultSet
  <2> QED BY <2>1, <2>3
<1>2. CASE Inbox \notin d.folders
  <2>1. PICK e \in createFolder(d, Inbox) \union {[d EXCEPT !.folders = @ \union {Inbox}, !.default = Inbox]} :
          o.db = e
    BY <1>2 DEF ensureDefaultFolder
  <2>2. CASE e \in createFolder(d, Inbox)
    BY <2>1, <2>2, CreatedFolder
  <2>3. CASE e = [d EXCEPT !.folders = @ \union {Inbox}, !.default = Inbox]
    <3> DEFINE c == [d EXCEPT !.folders = @ \union {Inbox}]
    <3>1. c \in createFolder(d, Inbox) /\ e = [c EXCEPT !.default = Inbox]
      BY <2>3, Zenon DEF createFolder
    <3>2. Inbox \in c.folders
      BY DEF Good, Shape
    <3> HIDE DEF c
    <3>3. Good(c) /\ c.notes = d.notes
      BY <3>1, CreatedFolder
    <3> QED BY <2>1, <3>1, <3>2, <3>3, DefaultSet
  <2> QED BY <2>1, <2>2, <2>3
<1> QED BY <1>1, <1>2

\* Writing a row of its own into a note's place keeps the tables sound.
LEMMA NoteWritten ==
  ASSUME NEW d, Good(d), NEW n \in Note, NEW row, IsRow(row), row.folder \in d.folders \union {None}
  PROVE  LET e == [d EXCEPT !.notes[n] = row] IN Good(e) /\ Kept(d, e) /\ Exists(e, n)
<1> DEFINE e == [d EXCEPT !.notes[n] = row]
<1>1. /\ Shape(e) /\ e.blocks = d.blocks /\ e.images = d.images /\ e.folders = d.folders /\ e.default = d.default
      /\ e.notes = [d.notes EXCEPT ![n] = row]
  BY DEF Good, Shape
<1>2. e.notes[n] = row /\ \A m \in Note : m # n => e.notes[m] = d.notes[m]
  BY <1>1 DEF Good, Shape
<1>3. Kept(d, e) /\ Exists(e, n)
  BY <1>2 DEF Kept, Exists
<1>4. Owned(e) /\ Sound(e)
  BY <1>1, <1>2, <1>3 DEF Good, Owned, Sound, Kept, Exists, Stored, IsRow
<1> QED BY <1>1, <1>3, <1>4 DEF Good

\* An update that fails changes nothing; one that succeeds changes one row.
LEMMA Updated ==
  ASSUME NEW d, Good(d), NEW n \in Note, NEW row, IsRow(row), NEW o \in updateNote(d, n, row)
  PROVE  Good(o.db) /\ Kept(d, o.db)
<1>1. CASE o = [ok |-> FALSE, db |-> d]
  BY <1>1 DEF Kept
<1>2. CASE o # [ok |-> FALSE, db |-> d]
  <2>1. row.folder \in d.folders \union {None} /\ o.db = [d EXCEPT !.notes[n] = row]
    BY <1>2 DEF updateNote
  <2> QED BY <2>1, NoteWritten
<1> QED BY <1>1, <1>2

\* A row that could be created is there.
LEMMA Created ==
  ASSUME NEW d, Good(d), NEW n \in Note, NEW row, IsRow(row), NEW o \in createNote(d, n, row)
  PROVE  Good(o.db) /\ Kept(d, o.db) /\ (o.ok => Exists(o.db, n))
<1>1. CASE o = [ok |-> FALSE, db |-> d]
  BY <1>1 DEF Kept
<1>2. CASE o # [ok |-> FALSE, db |-> d]
  <2>1. row.folder \in d.folders \union {None} /\ o.db = [d EXCEPT !.notes[n] = row]
    BY <1>2 DEF createNote
  <2> QED BY <2>1, NoteWritten
<1> QED BY <1>1, <1>2

\* What is left when a note is deleted.
LEMMA DeletedRows ==
  ASSUME NEW d, Shape(d), NEW n \in Note
  PROVE  deleteNote(d, n) =
           [notes |-> [m \in Note |-> IF m = n THEN Gone ELSE d.notes[m]],
            blocks |-> [b \in Block |-> IF b \in BlocksOf(d, n) THEN Gone ELSE d.blocks[b]],
            images |-> [i \in Image |-> IF i \in ImagesOf(d, n) THEN Gone ELSE d.images[i]],
            folders |-> d.folders, default |-> d.default]
<1> DEFINE rows == [m \in Note |-> IF m = n THEN Gone ELSE d.notes[m]]
           blocks == [b \in Block |-> IF b \in BlocksOf(d, n) THEN Gone ELSE d.blocks[b]]
           images == [i \in Image |-> IF i \in ImagesOf(d, n) THEN Gone ELSE d.images[i]]
<1>1. d = [notes |-> d.notes, blocks |-> d.blocks, images |-> d.images, folders |-> d.folders, default |-> d.default]
  BY DEF Shape
<1>2. [d.notes EXCEPT ![n] = Gone] = rows
  BY DEF Shape
<1> HIDE DEF blocks, images, rows
<1> DEFINE d1 == [d EXCEPT !.notes[n] = Gone]
           d2 == [d1 EXCEPT !.blocks = blocks]
           d3 == [d2 EXCEPT !.images = images]
<1>3. d1 = [notes |-> rows, blocks |-> d.blocks, images |-> d.images, folders |-> d.folders, default |-> d.default]
  BY <1>1, <1>2
<1>4. deleteNote(d, n) = d3
  BY Zenon DEF deleteNote, blocks, images
<1> HIDE DEF d1
<1>5. d2 = [notes |-> rows, blocks |-> blocks, images |-> d.images, folders |-> d.folders, default |-> d.default]
  BY <1>3
<1> HIDE DEF d2
<1>6. d3 = [notes |-> rows, blocks |-> blocks, images |-> images, folders |-> d.folders, default |-> d.default]
  BY <1>5
<1> QED BY <1>4, <1>6 DEF rows, blocks, images

\* A note goes with everything that belongs to it, and no other note goes.
LEMMA Deleted ==
  ASSUME NEW d, Good(d), NEW n \in Note
  PROVE  Good(deleteNote(d, n)) /\ \A m \in Note \ {n} : Exists(d, m) => Exists(deleteNote(d, n), m)
<1> DEFINE e == deleteNote(d, n)
           rows == [m \in Note |-> IF m = n THEN Gone ELSE d.notes[m]]
           blocks == [b \in Block |-> IF b \in BlocksOf(d, n) THEN Gone ELSE d.blocks[b]]
           images == [i \in Image |-> IF i \in ImagesOf(d, n) THEN Gone ELSE d.images[i]]
<1>1. e = [notes |-> rows, blocks |-> blocks, images |-> images, folders |-> d.folders, default |-> d.default]
  BY DeletedRows DEF Good
<1>2. e.notes[n] = Gone /\ \A m \in Note : m # n => e.notes[m] = d.notes[m]
  BY <1>1 DEF Good, Shape
<1>3. ~IsRow(Gone) /\ Gone.is # "note"
  BY DEF IsRow, Gone
<1>4. \A b \in Block : IsRow(e.blocks[b]) => b \notin BlocksOf(d, n) /\ e.blocks[b] = d.blocks[b]
  BY <1>1, <1>3
<1>5. \A i \in Image : IsRow(e.images[i]) => i \notin ImagesOf(d, n) /\ e.images[i] = d.images[i]
  BY <1>1, <1>3
<1>6. \A b \in Block : IsRow(e.blocks[b]) => Exists(e, e.blocks[b].note)
  BY <1>2, <1>4 DEF Good, Owned, Sound, BlocksOf, Exists
<1>7. \A i \in Image : IsRow(e.images[i]) => Exists(e, e.images[i].note)
  BY <1>2, <1>5 DEF Good, Owned, Sound, ImagesOf, Exists
<1>8. Sound(e)
  BY <1>1, <1>2, <1>3, <1>6, <1>7 DEF Good, Owned, Sound, Stored
<1> QED BY <1>1, <1>2, <1>4, <1>5, <1>8 DEF Good, Shape, Owned, Exists

\* An image is stored for a note that exists, or not at all.
LEMMA ImageStored ==
  ASSUME NEW d, Good(d), NEW i \in Image, NEW n \in Note, NEW o \in storeAttachment(d, i, n)
  PROVE  /\ Good(o.db) /\ o.db.notes = d.notes
         /\ \A j \in Image : o.db.images[j] # d.images[j] => o.db.images[j] = ImageRow(n)
<1>1. CASE o = [ok |-> FALSE, db |-> d]
  BY <1>1
<1>2. CASE o # [ok |-> FALSE, db |-> d]
  <2> DEFINE e == [d EXCEPT !.images[i] = ImageRow(n)]
  <2>1. Exists(d, n) /\ o.db = e
    BY <1>2 DEF storeAttachment
  <2>2. /\ Shape(e) /\ e.notes = d.notes /\ e.blocks = d.blocks /\ e.folders = d.folders /\ e.default = d.default
        /\ e.images = [d.images EXCEPT ![i] = ImageRow(n)]
    BY DEF Good, Shape
  <2>3. e.images[i] = ImageRow(n) /\ \A j \in Image : j # i => e.images[j] = d.images[j]
    BY <2>2 DEF Good, Shape
  <2>4. ImageRow(n).note = n
    BY DEF ImageRow
  <2>5. Owned(e) /\ Sound(e)
    BY <2>1, <2>2, <2>3, <2>4 DEF Good, Owned, Sound, Exists, Stored
  <2> QED BY <2>1, <2>2, <2>3, <2>5 DEF Good
<1> QED BY <1>1, <1>2

\* Deleting an image leaves the notes alone.
LEMMA ImageDeleted ==
  ASSUME NEW d, Good(d), NEW i \in Image, NEW e \in deleteAttachment(d, i)
  PROVE  Good(e) /\ e.notes = d.notes
<1>1. CASE e = d
  BY <1>1
<1>2. CASE e = [d EXCEPT !.images[i] = Gone]
  <2>1. /\ Shape(e) /\ e.notes = d.notes /\ e.blocks = d.blocks /\ e.folders = d.folders /\ e.default = d.default
        /\ e.images = [d.images EXCEPT ![i] = Gone]
    BY <1>2 DEF Good, Shape
  <2>2. e.images[i] = Gone /\ \A j \in Image : j # i => e.images[j] = d.images[j]
    BY <2>1 DEF Good, Shape
  <2>3. ~IsRow(Gone)
    BY DEF IsRow, Gone
  <2>4. Owned(e) /\ Sound(e)
    BY <2>1, <2>2, <2>3 DEF Good, Owned, Sound, Exists, Stored
  <2> QED BY <2>1, <2>4 DEF Good
<1> QED BY <1>1, <1>2 DEF deleteAttachment

\* Blocks are stored for a note that exists.
LEMMA BlocksStored ==
  ASSUME NEW d, Good(d), NEW n \in Note, Exists(d, n), NEW body, NEW p \in processBodyForSave(d, n, body)
  PROVE  Good(p.db) /\ p.db.notes = d.notes
<1> DEFINE e == p.db
           stored(f) == [b \in Block |-> IF b \in Range(f) THEN BlockRow(n, body[CHOOSE q \in DOMAIN f : f[q] = b])
                                       ELSE d.blocks[b]]
<1>1. PICK f : p = [body |-> MarkedBody(body, f), db |-> [d EXCEPT !.blocks = stored(f)]]
  BY Zenon DEF processBodyForSave
<1>2. /\ Shape(e) /\ e.notes = d.notes /\ e.images = d.images /\ e.folders = d.folders /\ e.default = d.default
      /\ e.blocks = stored(f)
  BY <1>1 DEF Good, Shape
<1>3. \A s : BlockRow(n, s).note = n
  BY DEF BlockRow
<1>4. \A b \in Block : e.blocks[b] = d.blocks[b] \/ e.blocks[b].note = n
  BY <1>2, <1>3
<1>5. Owned(e) /\ Sound(e)
  BY <1>2, <1>4 DEF Good, Owned, Sound, Exists, Stored
<1> QED BY <1>2, <1>5 DEF Good

----------------------------------------------------------------------------
(* The desktop.                                                            *)

\* A closed editor shows no row.
LEMMA ClosedEditor == \A d : EditorOf(d, Closed)
BY DEF EditorOf, Closed

\* An editor just loaded shows the row it was loaded from.
LEMMA LoadedEditor ==
  ASSUME NEW d, NEW n \in Note, Exists(d, n)
  PROVE  EditorOf(d, Loaded(d, n))
BY DEF EditorOf, Loaded, Closed

\* Blocks are stored before the note, so that a save that fails may store some.
LEMMA NoteSaved ==
  ASSUME NEW d, Good(d), EditorOf(d, open), NEW folder, NEW s \in NoteSaves(d, folder)
  PROVE  Good(s.db) /\ Kept(d, s.db) /\ EditorOf(s.db, s.open)
<1>1. CASE open.err \/ open.id = None
  <2>1. CASE open.err
    <3>1. s = [ok |-> TRUE, db |-> d, open |-> open]
      BY <2>1, Zenon DEF NoteSaves
    <3> QED BY <3>1 DEF Kept
  <2>2. CASE ~open.err
    <3>1. s = [ok |-> FALSE, db |-> d, open |-> open]
      BY <1>1, <2>2, Zenon DEF NoteSaves
    <3> QED BY <3>1 DEF Kept
  <2> QED BY <2>1, <2>2
<1>2. CASE ~open.err /\ open.id # None
  <2>1. PICK p \in processBodyForSave(d, open.id, open.body) :
        \E u \in updateNote(p.db, open.id, NoteRow(p.body, folder)) :
          s = [ok |-> u.ok, db |-> u.db,
               open |-> [open EXCEPT !.saved = u.ok, !.folder = IF u.ok THEN folder ELSE @]]
    BY <1>2, Zenon DEF NoteSaves
  <2>2. PICK u \in updateNote(p.db, open.id, NoteRow(p.body, folder)) :
          s = [ok |-> u.ok, db |-> u.db,
               open |-> [open EXCEPT !.saved = u.ok, !.folder = IF u.ok THEN folder ELSE @]]
    BY <2>1
  <2>3. open.id \in Note /\ Exists(d, open.id)
    BY <1>2 DEF EditorOf
  <2>4. Good(p.db) /\ p.db.notes = d.notes
    BY <2>3, BlocksStored
  <2>5. IsRow(NoteRow(p.body, folder))
    BY DEF IsRow, NoteRow
  <2>6. Good(u.db) /\ Kept(p.db, u.db)
    BY <2>3, <2>4, <2>5, Updated
  <2>7. Kept(d, u.db)
    BY <2>4, <2>6 DEF Kept, Exists
  <2>8. s.db = u.db /\ s.open = [open EXCEPT !.saved = u.ok, !.folder = IF u.ok THEN folder ELSE @]
    BY <2>2
  <2>9. EditorOf(u.db, s.open)
    BY <2>3, <2>7, <2>8 DEF EditorOf, Kept
  <2> QED BY <2>6, <2>7, <2>8, <2>9
<1> QED BY <1>1, <1>2

\* Finding a folder for the note leaves the notes alone.
LEMMA FiledSomewhere ==
  ASSUME Good(db), NEW f \in Filed
  PROVE  Good(f.db) /\ f.db.notes = db.notes
BY DefaultFolder DEF Filed

\* Saving the open note keeps the tables in order and the editor on its row.
LEMMA Saved ==
  ASSUME Good(db), EditorOf(db, open), NEW s \in Saves
  PROVE  Good(s.db) /\ Kept(db, s.db) /\ EditorOf(s.db, s.open)
<1>1. PICK f \in Filed : s \in NoteSaves(f.db, f.folder)
  BY DEF Saves
<1>2. Good(f.db) /\ f.db.notes = db.notes
  BY FiledSomewhere
<1>3. EditorOf(f.db, open)
  BY <1>2 DEF EditorOf, Exists
<1> QED BY <1>1, <1>2, <1>3, NoteSaved DEF Kept, Exists

\* What a handler of the main window keeps, one handler after the other.
LEMMA DeskStep ==
  ASSUME Good(db), EditorOf(db, open), DeskNext
  PROVE  Good(db') /\ EditorOf(db', open')
<1>1. CASE onTextChanged
  BY <1>1 DEF onTextChanged, EditorOf
<1>2. CASE onSaveNote
  BY <1>2, Saved DEF onSaveNote
<1>3. CASE onSaveAndClose
  <2>1. PICK f \in Filed, folder \in db.folders \union {Inbox} :
          /\ folder \in f.db.folders
          /\ \E default \in {f.db.default, folder} :
             \E s \in NoteSaves([f.db EXCEPT !.default = default], folder) :
               db' = s.db /\ open' = IF s.ok /\ ~open.err THEN Closed ELSE s.open
    BY <1>3 DEF onSaveAndClose
  <2>6. PICK default \in {f.db.default, folder} :
             \E s \in NoteSaves([f.db EXCEPT !.default = default], folder) :
               db' = s.db /\ open' = IF s.ok /\ ~open.err THEN Closed ELSE s.open
    BY <2>1
  <2> DEFINE d == [f.db EXCEPT !.default = default]
  <2>2. Good(f.db) /\ f.db.notes = db.notes
    BY FiledSomewhere
  <2>3. default \in f.db.folders \union {None, f.db.default}
    BY <2>1
  <2>4. Good(d) /\ d.notes = db.notes
    BY <2>2, <2>3, DefaultSet
  <2>5. EditorOf(d, open)
    BY <2>4 DEF EditorOf, Exists
  <2>7. PICK s \in NoteSaves(d, folder) : db' = s.db /\ open' = IF s.ok /\ ~open.err THEN Closed ELSE s.open
    BY <2>6
  <2> HIDE DEF d
  <2> QED BY <2>7, <2>4, <2>5, NoteSaved, ClosedEditor
<1>4. ASSUME NEW n \in Note, onNoteSelected(n)
      PROVE  Good(db') /\ EditorOf(db', open')
  <2>1. CASE open.id \in {None, n}
    BY <1>4, <2>1, LoadedEditor DEF onNoteSelected
  <2>2. CASE open.id \notin {None, n}
    BY <1>4, <2>2, Saved, LoadedEditor DEF onNoteSelected, Kept
  <2> QED BY <2>1, <2>2
<1>5. ASSUME NEW n \in Note, removeNote(n)
      PROVE  Good(db') /\ EditorOf(db', open')
  <2> DEFINE e == deleteNote(db, n)
  <2>1. db' \in {db, e} /\ open' = IF open.id = n THEN [open EXCEPT !.id = None, !.body = <<>>] ELSE open
    BY <1>5 DEF removeNote
  <2>2. Good(e) /\ \A m \in Note \ {n} : Exists(db, m) => Exists(e, m)
    BY Deleted
  <2> HIDE DEF e
  <2>3. Good(db')
    BY <2>1, <2>2
  <2>4. CASE open.id = n
    <3>1. open = [id |-> open.id, body |-> open.body, folder |-> open.folder,
                  err |-> open.err, saved |-> open.saved]
      BY DEF EditorOf
    <3>2. open' = [open EXCEPT !.id = None, !.body = <<>>]
      BY <2>1, <2>4
    <3>3. open' = [id |-> None, body |-> <<>>, folder |-> open.folder, err |-> open.err, saved |-> open.saved]
      BY <3>1, <3>2
    <3>4. open'.id = None /\ open' = [id |-> open'.id, body |-> open'.body, folder |-> open'.folder,
                                      err |-> open'.err, saved |-> open'.saved]
      BY <3>3
    <3> QED BY <2>3, <3>4 DEF EditorOf
  <2>5. CASE open.id # n
    BY <2>1, <2>2, <2>3, <2>5 DEF EditorOf
  <2> QED BY <2>3, <2>4, <2>5
<1>6. ASSUME NEW n \in Note, NEW w \in Word, onNewNote(n, w)
      PROVE  Good(db') /\ EditorOf(db', open')
  <2>1. PICK c \in createNote(db, n, NoteRow(<<w>>, db.default)) :
          db' = c.db /\ open' = IF c.ok THEN Loaded(c.db, n) ELSE open
    BY <1>6 DEF onNewNote
  <2>2. IsRow(NoteRow(<<w>>, db.default))
    BY DEF IsRow, NoteRow
  <2>3. Good(c.db) /\ Kept(db, c.db) /\ (c.ok => Exists(c.db, n))
    BY <2>2, Created
  <2> QED BY <2>1, <2>3, LoadedEditor DEF EditorOf, Kept
<1>7. ASSUME NEW n \in Note, NEW w \in Word, onImportMarkdown(n, w)
      PROVE  Good(db') /\ EditorOf(db', open')
  <2>1. IsRow(NoteRow(<<w>>, db.default))
    BY DEF IsRow, NoteRow
  <2> QED BY <1>7, <2>1, Created DEF onImportMarkdown, EditorOf, Kept
<1>8. ASSUME NEW n \in Note, NEW copy \in Note, duplicateNote(n, copy)
      PROVE  Good(db') /\ EditorOf(db', open')
  <2>1. PICK c \in createNote(db, copy, db.notes[n]) :
          db' = c.db /\ open' = IF c.ok THEN Loaded(c.db, copy) ELSE open
    BY <1>8 DEF duplicateNote, duplicateNoteWithAttachments
  <2>2. IsRow(db.notes[n])
    BY <1>8 DEF duplicateNote, Exists
  <2>3. Good(c.db) /\ Kept(db, c.db) /\ (c.ok => Exists(c.db, copy))
    BY <2>2, Created
  <2> QED BY <2>1, <2>3, LoadedEditor DEF EditorOf, Kept
<1>9. ASSUME NEW i \in Image, onInsertImage(i)
      PROVE  Good(db') /\ EditorOf(db', open')
  <2>1. PICK s \in storeAttachment(db, i, open.id) :
          db' = s.db /\ open' = IF s.ok THEN [open EXCEPT !.body = Append(@, i), !.saved = FALSE] ELSE open
    BY <1>9 DEF onInsertImage
  <2>2. open.id \in Note
    BY <1>9 DEF onInsertImage, EditorOf
  <2>3. Good(s.db) /\ s.db.notes = db.notes
    BY <2>2, ImageStored
  <2> QED BY <2>1, <2>3 DEF EditorOf, Exists
<1>10. ASSUME NEW f \in Folder, onNewFolder(f)
       PROVE  Good(db') /\ EditorOf(db', open')
  BY <1>10, CreatedFolder DEF onNewFolder, EditorOf, Exists
<1>11. CASE onLockVault
  BY <1>11, Saved, ClosedEditor DEF onLockVault
<1>12. CASE onVaultUnlocked
  BY <1>12, DefaultFolder DEF onVaultUnlocked, EditorOf, Exists
<1>13. CASE Exit
  BY <1>13, ClosedEditor DEF Exit
<1> QED BY <1>1, <1>2, <1>3, <1>4, <1>5, <1>6, <1>7, <1>8, <1>9, <1>10, <1>11, <1>12, <1>13 DEF DeskNext

----------------------------------------------------------------------------
(* The phone.                                                              *)

\* The phone's empty screen shows no row.
LEMMA BlankScreen == ScreenOf(Blank)
BY DEF ScreenOf, Blank

\* A photo is attached to the note it is stored for.
LEMMA PhotoAttached ==
  ASSUME Good(db), ScreenOf(screen), NEW i \in Image, NEW n \in Note, Attach(i, n)
  PROVE  /\ Good(db') /\ ScreenOf(screen')
         /\ \A j \in Image : db'.images[j] # db.images[j] => db'.images[j] = ImageRow(n)
<1>1. PICK s \in storeAttachment(db, i, n) :
        db' = s.db /\ screen' = IF s.ok /\ screen.id = n THEN [screen EXCEPT !.body = Append(@, i)] ELSE screen
  BY DEF Attach
<1>2. /\ Good(s.db)
      /\ \A j \in Image : s.db.images[j] # db.images[j] => s.db.images[j] = ImageRow(n)
  BY ImageStored
<1> QED BY <1>1, <1>2 DEF ScreenOf

\* The result of the camera is about the note it was opened for.
LEMMA PhotoTaken ==
  ASSUME Good(db), ScreenOf(screen), CameraKnown, NEW i \in Image, onCameraResult(i)
  PROVE  /\ Good(db') /\ ScreenOf(screen') /\ CameraKnown'
         /\ \A j \in Image : db'.images[j] # db.images[j] => db'.images[j] = ImageRow(camera)
<1> DEFINE n == IF pending # None THEN pending ELSE setting
<1>1. n = camera /\ camera \in Note
  BY DEF CameraKnown, onCameraResult
<1>2. CameraKnown'
  BY DEF CameraKnown, onCameraResult
<1>3. (db' = db /\ screen' = screen) \/ Attach(i, n)
  BY DEF onCameraResult
<1> HIDE DEF n
<1> QED BY <1>1, <1>2, <1>3, PhotoAttached

\* Each step of the phone keeps the tables and what its screen and camera refer to.
LEMMA PhoneStep ==
  ASSUME Good(db), ScreenOf(screen), CameraKnown, PhoneNext
  PROVE  Good(db') /\ ScreenOf(screen') /\ CameraKnown'
<1>1. CASE phoneUnlock \/ phoneLock
  BY <1>1, BlankScreen DEF phoneUnlock, phoneLock, CameraKnown
<1>2. CASE edit
  BY <1>2 DEF edit, ScreenOf, CameraKnown
<1>3. CASE saveNoteEx
  <2>1. IsRow(NoteRow(screen.body, screen.folder))
    BY DEF IsRow, NoteRow
  <2>2. screen.id \in Note
    BY <1>3 DEF saveNoteEx, ScreenOf
  <2>3. Good(db')
    BY <1>3, <2>1, <2>2, Updated DEF saveNoteEx
  <2> QED BY <1>3, <2>3 DEF saveNoteEx, phoneVars, CameraKnown, ScreenOf
<1>4. CASE phoneDeleteNote
  BY <1>4, Deleted, BlankScreen DEF phoneDeleteNote, ScreenOf, CameraKnown
<1>5. CASE launchCamera
  BY <1>5 DEF launchCamera, ScreenOf, CameraKnown
<1>6. CASE cancelCamera
  BY <1>6 DEF cancelCamera, ScreenOf, CameraKnown
<1>7. CASE PhoneExit
  BY <1>7, BlankScreen DEF PhoneExit, CameraKnown
<1>8. ASSUME NEW n \in Note, newNote(n)
      PROVE  Good(db') /\ ScreenOf(screen') /\ CameraKnown'
  <2>1. IsRow(NoteRow(<<>>, None))
    BY DEF IsRow, NoteRow
  <2>2. Good(db')
    BY <1>8, <2>1, Created DEF newNote
  <2> QED BY <1>8, <2>2 DEF newNote, ScreenOf, CameraKnown
<1>9. ASSUME NEW n \in Note, openNote(n)
      PROVE  Good(db') /\ ScreenOf(screen') /\ CameraKnown'
  BY <1>9 DEF openNote, ScreenOf, Blank, CameraKnown
<1>10. ASSUME NEW i \in Image, insertImage(i)
       PROVE  Good(db') /\ ScreenOf(screen') /\ CameraKnown'
  <2>1. screen.id \in Note
    BY <1>10 DEF insertImage, ScreenOf
  <2> QED BY <1>10, <2>1, PhotoAttached DEF insertImage, CameraKnown
<1>11. ASSUME NEW i \in Image, onCameraResult(i)
       PROVE  Good(db') /\ ScreenOf(screen') /\ CameraKnown'
  BY <1>11, PhotoTaken
<1>12. ASSUME NEW i \in Image, phoneDeleteAttachment(i)
       PROVE  Good(db') /\ ScreenOf(screen') /\ CameraKnown'
  BY <1>12, ImageDeleted DEF phoneDeleteAttachment, phoneVars, ScreenOf, CameraKnown
<1> QED BY <1>1, <1>2, <1>3, <1>4, <1>5, <1>6, <1>7, <1>8, <1>9, <1>10, <1>11, <1>12 DEF PhoneNext
----------------------------------------------------------------------------
(* Texts: what MarkedBody computes.                                        *)

\* Induction over a set of numbers, from the well-foundedness of Nat.
LEMMA Induction ==
  ASSUME NEW S, 0 \in S, \A n \in Nat : n \in S => n + 1 \in S
  PROVE  Nat \subseteq S
<1> SUFFICES ASSUME Nat \ S # {} PROVE FALSE
  OBVIOUS
<1> DEFINE R == {ss \in Nat \X Nat : ss[1] < ss[2]}
<1>1. IsWellFoundedOn(R, Nat)
  BY NatLessThanWellFounded DEF OpToRel
<1> HIDE DEF R
<1>2. PICK x \in Nat \ S : \A y \in Nat \ S : ~(<<y, x>> \in R)
  <2>1. Nat \ S \subseteq Nat
    OBVIOUS
  <2> QED BY <1>1, <2>1, WFMin, Zenon
<1>3. x # 0 /\ x - 1 \in Nat /\ (x - 1) + 1 = x /\ x - 1 < x
  BY <1>2
<1>4. x - 1 \notin S
  BY <1>2, <1>3
<1>5. <<x - 1, x>> \in R
  BY <1>3 DEF R
<1> QED BY <1>2, <1>3, <1>4, <1>5

\* What processBodyForSave makes of a text when it has come to p.
MarkStep(text, stored, p) ==
  IF p \in DOMAIN stored THEN Replaced(text, p, BlockWidth, Marker(stored[p])) ELSE text

\* A function that goes through a body like that.
Goes(g, n, body, stored) ==
  g = [p \in 0..n |-> IF p = 0 THEN body
                      ELSE IF p \in DOMAIN stored THEN Replaced(g[p - 1], p, BlockWidth, Marker(stored[p]))
                      ELSE g[p - 1]]

\* There is one, however long the body.
LEMMA SomethingGoes ==
  ASSUME NEW body, NEW stored
  PROVE  \A n \in Nat : \E g : Goes(g, n, body, stored)
<1> DEFINE S == {n \in Nat : \E g : Goes(g, n, body, stored)}
<1>1. 0 \in S
  <2> DEFINE g == [p \in 0..0 |-> body]
  <2>1. Goes(g, 0, body, stored)
    BY DEF Goes
  <2> QED BY <2>1
<1>2. ASSUME NEW n \in Nat, n \in S PROVE n + 1 \in S
  <2>1. PICK g : Goes(g, n, body, stored)
    BY <1>2
  <2> DEFINE h == [p \in 0..(n + 1) |-> IF p = n + 1 THEN MarkStep(g[n], stored, p) ELSE g[p]]
             k == [p \in 0..(n + 1) |->
                     IF p = 0 THEN body
                     ELSE IF p \in DOMAIN stored THEN Replaced(h[p - 1], p, BlockWidth, Marker(stored[p]))
                     ELSE h[p - 1]]
  <2>2. \A p \in 0..n : g[p] = IF p = 0 THEN body
                               ELSE IF p \in DOMAIN stored THEN Replaced(g[p - 1], p, BlockWidth, Marker(stored[p]))
                               ELSE g[p - 1]
    BY <2>1, Zenon DEF Goes
  <2>3. ASSUME NEW p \in 0..(n + 1) PROVE h[p] = k[p]
    <3>1. CASE p = 0
      BY <2>2, <3>1
    <3>2. CASE p \in 1..n
      <4>1. p # n + 1 /\ p - 1 # n + 1 /\ p \in 0..n /\ p - 1 \in 0..(n + 1) /\ p # 0
        BY <3>2
      <4>2. h[p] = g[p] /\ h[p - 1] = g[p - 1]
        BY <4>1
      <4> HIDE DEF h
      <4>3. k[p] = IF p \in DOMAIN stored THEN Replaced(h[p - 1], p, BlockWidth, Marker(stored[p])) ELSE h[p - 1]
        BY <4>1
      <4> QED BY <2>2, <4>1, <4>2, <4>3
    <3>3. CASE p = n + 1
      <4>1. p \in 0..(n + 1) /\ p # 0 /\ p - 1 = n /\ n \in 0..(n + 1) /\ n # n + 1
        BY <3>3
      <4>2. h[p] = MarkStep(g[n], stored, p) /\ h[p - 1] = g[n]
        BY <3>3, <4>1
      <4> HIDE DEF h
      <4>3. k[p] = IF p \in DOMAIN stored THEN Replaced(h[p - 1], p, BlockWidth, Marker(stored[p])) ELSE h[p - 1]
        BY <4>1
      <4> QED BY <4>2, <4>3 DEF MarkStep
    <3> QED BY <3>1, <3>2, <3>3
  <2>4. h = k
    <3>1. h = [p \in 0..(n + 1) |-> h[p]] /\ k = [p \in 0..(n + 1) |-> k[p]]
      OBVIOUS
    <3> HIDE DEF h, k
    <3> QED BY <2>3, <3>1
  <2>5. Goes(h, n + 1, body, stored)
    BY <2>4, Zenon DEF Goes
  <2> QED BY <2>5, <1>2
<1>3. Nat \subseteq S
  <2> HIDE DEF S
  <2> QED BY <1>1, <1>2, Induction
<1> QED BY <1>3

\* What MarkedUpTo is before the first unit, and at each.
LEMMA MarkedStepwise ==
  ASSUME NEW body, Len(body) \in Nat, NEW stored
  PROVE  LET m == MarkedUpTo(body, stored) IN
         /\ m[0] = body
         /\ \A p \in 1..Len(body) : m[p] = MarkStep(m[p - 1], stored, p)
<1> DEFINE m == MarkedUpTo(body, stored)
<1>1. PICK g : Goes(g, Len(body), body, stored)
  BY SomethingGoes
<1>2. Goes(m, Len(body), body, stored)
  BY <1>1, Zenon DEF MarkedUpTo, Goes
<1> HIDE DEF m
<1>3. \A p \in 0..Len(body) :
        m[p] = IF p = 0 THEN body
               ELSE IF p \in DOMAIN stored THEN Replaced(m[p - 1], p, BlockWidth, Marker(stored[p]))
               ELSE m[p - 1]
  BY <1>2, Zenon DEF Goes
<1>4. m[0] = body
  BY <1>3
<1>5. \A p \in 1..Len(body) : p \in 0..Len(body) /\ p # 0
  OBVIOUS
<1>6. \A p \in 1..Len(body) : m[p] = MarkStep(m[p - 1], stored, p)
  BY <1>3, <1>5, Zenon DEF MarkStep
<1> QED BY <1>4, <1>6 DEF m

\* A text with a marker in it is a text.
LEMMA ReplacedType ==
  ASSUME NEW T, NEW text \in Seq(T), NEW p \in Nat \ {0}, NEW b \in T
  PROVE  Replaced(text, p, BlockWidth, Marker(b)) \in Seq(T)
<1> DEFINE fore == SubSeq(text, 1, p - 1)
           aft == SubSeq(text, p + BlockWidth, Len(text))
<1>0. BlockWidth \in Nat \ {0} /\ MarkerWidth \in Nat \ {0} /\ Len(text) \in Nat
  BY NoteTablesAssumption
<1>1. Marker(b) \in Seq(T)
  BY <1>0 DEF Marker
<1>2. CASE p > Len(text) + 1
  BY <1>2 DEF Replaced
<1>3. CASE ~(p > Len(text) + 1)
  <2>1. fore \in Seq(T)
    <3>1. 1 \in Int /\ p - 1 \in Int /\ \A i \in 1..(p - 1) : text[i] \in T
      BY <1>0, <1>3
    <3> QED BY <3>1, SubSeqProperties
  <2>2. aft \in Seq(T)
    <3>1. /\ p + BlockWidth \in Int /\ Len(text) \in Int
          /\ \A i \in (p + BlockWidth)..Len(text) : text[i] \in T
      BY <1>0
    <3> QED BY <3>1, SubSeqProperties
  <2>3. Replaced(text, p, BlockWidth, Marker(b)) = fore \o Marker(b) \o aft
    BY <1>3, Zenon DEF Replaced
  <2> HIDE DEF fore, aft
  <2>4. fore \o Marker(b) \in Seq(T)
    BY <1>1, <2>1, ConcatProperties
  <2> QED BY <2>2, <2>3, <2>4, ConcatProperties
<1> QED BY <1>2, <1>3

\* A marked text consists of what it did and of the markers.
LEMMA MarkedType ==
  ASSUME NEW T, NEW body \in Seq(T), NEW stored, \A p \in DOMAIN stored : stored[p] \in T
  PROVE  MarkedBody(body, stored) \in Seq(T)
<1> DEFINE m == MarkedUpTo(body, stored)
           S == {p \in Nat : p <= Len(body) => m[p] \in Seq(T)}
<1>1. /\ m[0] = body
      /\ \A p \in 1..Len(body) : m[p] = MarkStep(m[p - 1], stored, p)
  BY MarkedStepwise
<1> HIDE DEF m
<1>2. 0 \in S
  BY <1>1
<1>3. ASSUME NEW n \in Nat, n \in S PROVE n + 1 \in S
  <2>1. CASE n + 1 <= Len(body)
    <3>1. m[n] \in Seq(T) /\ n + 1 \in 1..Len(body) /\ n + 1 \in Nat \ {0} /\ (n + 1) - 1 = n
      BY <1>3, <2>1
    <3>2. m[n + 1] = MarkStep(m[n], stored, n + 1)
      BY <1>1, <3>1
    <3>3. m[n + 1] \in Seq(T)
      BY <3>1, <3>2, ReplacedType DEF MarkStep
    <3> QED BY <3>3
  <2> QED BY <1>3, <2>1
<1> HIDE DEF S
<1>4. Len(body) \in S
  BY <1>2, <1>3, Induction
<1> QED BY <1>4 DEF S, m, MarkedBody

\* With at most one block stored there is at most one replacement.
LEMMA MarkedOnce ==
  ASSUME NEW T, NEW body \in Seq(T), NEW stored, NEW q \in 1..Len(body), DOMAIN stored \subseteq {q}
  PROVE  MarkedBody(body, stored) = MarkStep(body, stored, q)
<1> DEFINE m == MarkedUpTo(body, stored)
           S == {p \in Nat : p <= Len(body) => m[p] = IF p < q THEN body ELSE MarkStep(body, stored, q)}
<1>1. /\ m[0] = body
      /\ \A p \in 1..Len(body) : m[p] = MarkStep(m[p - 1], stored, p)
  BY MarkedStepwise
<1> HIDE DEF m
<1>2. 0 \in S
  BY <1>1
<1>3. ASSUME NEW n \in Nat, n \in S PROVE n + 1 \in S
  <2>1. CASE n + 1 <= Len(body)
    <3>1. n + 1 \in 1..Len(body) /\ (n + 1) - 1 = n
      BY <2>1
    <3>2. m[n + 1] = MarkStep(m[n], stored, n + 1)
      BY <1>1, <3>1
    <3>3. m[n] = IF n < q THEN body ELSE MarkStep(body, stored, q)
      BY <1>3, <2>1
    <3>4. CASE n + 1 = q
      <4>1. m[n] = body /\ ~(n + 1 < q)
        BY <3>3, <3>4
      <4> QED BY <3>2, <3>4, <4>1
    <3>5. CASE n + 1 # q
      <4>1. n + 1 \notin DOMAIN stored
        BY <3>5
      <4>2. m[n + 1] = m[n]
        BY <3>2, <4>1 DEF MarkStep
      <4>3. n < q <=> n + 1 < q
        BY <3>5
      <4> QED BY <3>3, <4>2, <4>3
    <3> QED BY <3>4, <3>5
  <2> QED BY <1>3, <2>1
<1> HIDE DEF S
<1>4. Len(body) \in S
  BY <1>2, <1>3, Induction
<1>5. m[Len(body)] = MarkStep(body, stored, q)
  BY <1>4 DEF S
<1> QED BY <1>5 DEF m, MarkedBody

\* Nothing stored, nothing marked.
LEMMA MarkedNever ==
  ASSUME NEW T, NEW body \in Seq(T), NEW stored, DOMAIN stored = {}
  PROVE  MarkedBody(body, stored) = body
<1>1. CASE Len(body) = 0
  BY <1>1, MarkedStepwise DEF MarkedBody
<1>2. CASE Len(body) # 0
  <2>1. Len(body) \in 1..Len(body)
    BY <1>2
  <2> QED BY <2>1, MarkedOnce DEF MarkStep
<1> QED BY <1>1, <1>2

\* Where the units of a text are when a marker has replaced the seal at p.
LEMMA ReplacedOnce ==
  ASSUME NEW T, NEW text \in Seq(T), NEW p \in 1..Len(text), p + BlockWidth - 1 <= Len(text), NEW b \in T
  PROVE  LET R == Replaced(text, p, BlockWidth, Marker(b)) IN
         /\ R \in Seq(T) /\ Len(R) = Len(text) - BlockWidth + MarkerWidth
         /\ \A i \in 1..Len(R) :
              R[i] = IF i < p THEN text[i]
                     ELSE IF i < p + MarkerWidth THEN b ELSE text[i - MarkerWidth + BlockWidth]
<1> DEFINE R == Replaced(text, p, BlockWidth, Marker(b))
           fore == SubSeq(text, 1, p - 1)
           aft == SubSeq(text, p + BlockWidth, Len(text))
<1>0. BlockWidth \in Nat \ {0} /\ MarkerWidth \in Nat \ {0} /\ Len(text) \in Nat
  BY NoteTablesAssumption
<1>1. Marker(b) \in Seq(T) /\ Len(Marker(b)) = MarkerWidth /\ \A i \in 1..MarkerWidth : Marker(b)[i] = b
  BY <1>0 DEF Marker
<1>2. fore \in Seq(T) /\ Len(fore) = p - 1 /\ \A i \in 1..(p - 1) : fore[i] = text[i]
  <2>1. 1 \in Int /\ p - 1 \in Int /\ (\A i \in 1..(p - 1) : text[i] \in T)
    BY <1>0
  <2>2. /\ fore \in Seq(T) /\ Len(fore) = IF 1 <= p - 1 THEN (p - 1) - 1 + 1 ELSE 0
        /\ \A i \in 1..((p - 1) - 1 + 1) : fore[i] = text[1 + i - 1]
    BY <2>1, SubSeqProperties
  <2> HIDE DEF fore
  <2> QED BY <1>0, <2>2
<1>3. /\ aft \in Seq(T) /\ Len(aft) = Len(text) - p - BlockWidth + 1
      /\ \A i \in 1..Len(aft) : aft[i] = text[p + BlockWidth + i - 1]
  <2>1. /\ p + BlockWidth \in Int /\ Len(text) \in Int
        /\ \A i \in (p + BlockWidth)..Len(text) : text[i] \in T
    BY <1>0
  <2>2. /\ aft \in Seq(T)
        /\ Len(aft) = IF p + BlockWidth <= Len(text) THEN Len(text) - (p + BlockWidth) + 1 ELSE 0
        /\ \A i \in 1..(Len(text) - (p + BlockWidth) + 1) : aft[i] = text[(p + BlockWidth) + i - 1]
    BY <2>1, SubSeqProperties
  <2> HIDE DEF aft
  <2> QED BY <1>0, <2>2
<1> DEFINE two == fore \o Marker(b)
<1>4. R = two \o aft
  <2>1. ~(p > Len(text) + 1)
    BY <1>0
  <2> QED BY <2>1, Zenon DEF Replaced
<1> HIDE DEF R, fore, aft, two
<1>5. /\ two \in Seq(T) /\ Len(two) = p - 1 + MarkerWidth
      /\ \A j \in 1..Len(two) : two[j] = IF j < p THEN text[j] ELSE b
  <2>1. /\ two \in Seq(T) /\ Len(two) = Len(fore) + Len(Marker(b))
        /\ \A i \in 1..(Len(fore) + Len(Marker(b))) :
             two[i] = IF i <= Len(fore) THEN fore[i] ELSE Marker(b)[i - Len(fore)]
    BY <1>1, <1>2, ConcatProperties DEF two
  <2>2. Len(two) = p - 1 + MarkerWidth
    BY <1>0, <1>1, <1>2, <2>1
  <2>3. ASSUME NEW j \in 1..Len(two) PROVE two[j] = IF j < p THEN text[j] ELSE b
    <3>1. CASE j < p
      <4>1. j \in 1..(p - 1) /\ j <= Len(fore) /\ j \in 1..(Len(fore) + Len(Marker(b)))
        BY <1>0, <1>1, <1>2, <2>2, <3>1
      <4> QED BY <1>2, <2>1, <3>1, <4>1
    <3>2. CASE ~(j < p)
      <4>1. j - Len(fore) \in 1..MarkerWidth /\ ~(j <= Len(fore)) /\ j \in 1..(Len(fore) + Len(Marker(b)))
        BY <1>0, <1>1, <1>2, <2>2, <3>2
      <4> QED BY <1>1, <2>1, <3>2, <4>1
    <3> QED BY <3>1, <3>2
  <2> QED BY <2>1, <2>2, <2>3
<1>6. /\ R \in Seq(T) /\ Len(R) = Len(two) + Len(aft)
      /\ \A i \in 1..(Len(two) + Len(aft)) : R[i] = IF i <= Len(two) THEN two[i] ELSE aft[i - Len(two)]
  BY <1>3, <1>4, <1>5, ConcatProperties
<1>7. Len(R) = Len(text) - BlockWidth + MarkerWidth
  BY <1>0, <1>3, <1>5, <1>6
<1>8. ASSUME NEW i \in 1..Len(R)
      PROVE  R[i] = IF i < p THEN text[i]
                    ELSE IF i < p + MarkerWidth THEN b ELSE text[i - MarkerWidth + BlockWidth]
  <2>1. i \in 1..(Len(two) + Len(aft))
    BY <1>6
  <2>2. CASE i <= Len(two)
    <3>1. i \in 1..Len(two) /\ R[i] = two[i] /\ i < p + MarkerWidth
      BY <1>0, <1>5, <1>6, <2>1, <2>2
    <3> QED BY <1>5, <3>1
  <2>3. CASE ~(i <= Len(two))
    <3>1. R[i] = aft[i - Len(two)] /\ i - Len(two) \in 1..Len(aft) /\ ~(i < p) /\ ~(i < p + MarkerWidth)
      BY <1>0, <1>3, <1>5, <1>6, <2>1, <2>3
    <3>2. p + BlockWidth + (i - Len(two)) - 1 = i - MarkerWidth + BlockWidth
      BY <1>0, <1>5, <2>1
    <3>3. aft[i - Len(two)] = text[p + BlockWidth + (i - Len(two)) - 1]
      BY <1>3, <3>1
    <3> QED BY <3>1, <3>2, <3>3
  <2> QED BY <2>2, <2>3
<1> QED BY <1>6, <1>7, <1>8 DEF R

\* The same unit w times over, from q on.
Run(body, q, w, u) == q + w - 1 <= Len(body) /\ \A i \in q..(q + w - 1) : body[i] = u

\* A seal as typed and a marker are such runs.
LEMMA RunIsAt ==
  ASSUME NEW T, NEW body \in Seq(T), NEW q \in 1..Len(body), NEW w \in Nat \ {0}, NEW u
  PROVE  IsAt(body, q, [i \in 1..w |-> u]) <=> Run(body, q, w, u)
<1> DEFINE part == [i \in 1..w |-> u]
           here == SubSeq(body, q, q + w - 1)
<1>1. part \in Seq({u}) /\ Len(part) = w /\ \A i \in 1..w : part[i] = u
  OBVIOUS
<1>2. CASE q + w - 1 <= Len(body)
  <2>1. q \in Int /\ q + w - 1 \in Int /\ \A i \in q..(q + w - 1) : body[i] \in T
    BY <1>2
  <2>2. /\ here \in Seq(T) /\ Len(here) = IF q <= q + w - 1 THEN (q + w - 1) - q + 1 ELSE 0
        /\ \A i \in 1..((q + w - 1) - q + 1) : here[i] = body[q + i - 1]
    BY <2>1, SubSeqProperties
  <2> HIDE DEF part, here
  <2>3. Len(here) = w /\ \A i \in 1..w : here[i] = body[q + i - 1]
    BY <2>2
  <2>4. here = part <=> \A i \in 1..w : body[q + i - 1] = u
    <3>1. ASSUME here = part PROVE \A i \in 1..w : body[q + i - 1] = u
      BY <1>1, <2>3, <3>1
    <3>2. ASSUME \A i \in 1..w : body[q + i - 1] = u PROVE here = part
      <4>1. \A i \in 1..Len(here) : here[i] = part[i]
        BY <1>1, <2>3, <3>2
      <4>2. here \in Seq(T \union {u}) /\ part \in Seq(T \union {u})
        BY <1>1, <2>2
      <4> QED BY <1>1, <2>3, <4>1, <4>2, SeqEqual
    <3> QED BY <3>1, <3>2
  <2>5. (\A i \in 1..w : body[q + i - 1] = u) <=> \A i \in q..(q + w - 1) : body[i] = u
    <3>1. \A i \in 1..w : q + i - 1 \in q..(q + w - 1)
      OBVIOUS
    <3>2. \A i \in q..(q + w - 1) : i - q + 1 \in 1..w /\ q + (i - q + 1) - 1 = i
      OBVIOUS
    <3>3. ASSUME \A i \in 1..w : body[q + i - 1] = u, NEW k \in q..(q + w - 1) PROVE body[k] = u
      <4>1. k - q + 1 \in 1..w /\ q + (k - q + 1) - 1 = k
        BY <3>2
      <4>2. body[q + (k - q + 1) - 1] = u
        BY <3>3, <4>1
      <4> QED BY <4>1, <4>2
    <3> QED BY <3>1, <3>3
  <2>6. IsAt(body, q, part) <=> here = part
    BY <1>1, <1>2 DEF IsAt, here
  <2> QED BY <1>2, <2>4, <2>5, <2>6 DEF Run, part
<1>3. CASE ~(q + w - 1 <= Len(body))
  <2> HIDE DEF part
  <2>1. ~IsAt(body, q, part)
    BY <1>1, <1>3 DEF IsAt
  <2> QED BY <1>3, <2>1 DEF Run, part
<1> QED BY <1>2, <1>3

\* Seals, markers and words of a text, as runs.
LEMMA Runs ==
  ASSUME NEW T, NEW body \in Seq(T)
  PROVE  /\ \A s : Has(body, Typed(s)) <=> \E q \in 1..Len(body) : Run(body, q, BlockWidth, s)
         /\ \A b : Has(body, Marker(b)) <=> \E q \in 1..Len(body) : Run(body, q, MarkerWidth, b)
         /\ \A u : Has(body, <<u>>) <=> \E q \in 1..Len(body) : Run(body, q, 1, u)
         /\ Seals(body) = {q \in 1..Len(body) : \E s \in Secret : Run(body, q, BlockWidth, s)}
<1>1. BlockWidth \in Nat \ {0} /\ MarkerWidth \in Nat \ {0}
  BY NoteTablesAssumption
<1>2. DOMAIN body = 1..Len(body) /\ Len(body) \in Nat
  OBVIOUS
<1>3. \A s : \A q \in 1..Len(body) : IsAt(body, q, Typed(s)) <=> Run(body, q, BlockWidth, s)
  BY <1>1, RunIsAt DEF Typed
<1>4. \A b : \A q \in 1..Len(body) : IsAt(body, q, Marker(b)) <=> Run(body, q, MarkerWidth, b)
  BY <1>1, RunIsAt DEF Marker
<1>5. \A u : Has(body, <<u>>) <=> \E q \in 1..Len(body) : Run(body, q, 1, u)
  <2> SUFFICES ASSUME NEW u PROVE Has(body, <<u>>) <=> \E q \in 1..Len(body) : Run(body, q, 1, u)
    OBVIOUS
  <2>1. \A q \in 1..Len(body) : IsAt(body, q, [i \in 1..1 |-> u]) <=> Run(body, q, 1, u)
    <3>1. 1 \in Nat \ {0}
      OBVIOUS
    <3> QED BY <3>1, RunIsAt
  <2>2. <<u>> = [i \in 1..1 |-> u]
    OBVIOUS
  <2> QED BY <1>2, <2>1, <2>2, Zenon DEF Has
<1>6. \A s : Has(body, Typed(s)) <=> \E q \in 1..Len(body) : Run(body, q, BlockWidth, s)
  BY <1>2, <1>3, Zenon DEF Has
<1>7. \A b : Has(body, Marker(b)) <=> \E q \in 1..Len(body) : Run(body, q, MarkerWidth, b)
  BY <1>2, <1>4, Zenon DEF Has
<1>8. Seals(body) = {q \in 1..Len(body) : \E s \in Secret : Run(body, q, BlockWidth, s)}
  BY <1>2, <1>3, Zenon DEF Seals
<1> QED BY <1>5, <1>6, <1>7, <1>8

\* When a marker replaces a seal, nothing else comes or goes.
LEMMA Moved ==
  ASSUME NEW T, NEW body \in Seq(T), NEW q \in 1..Len(body), NEW s, Run(body, q, BlockWidth, s),
         NEW b \in T, NEW w \in Nat \ {0}, NEW u
  PROVE  LET R == Replaced(body, q, BlockWidth, Marker(b)) IN
         /\ u # b /\ (\E i \in 1..Len(R) : Run(R, i, w, u)) =>
              \E j \in 1..Len(body) : j # q /\ Run(body, j, w, u)
         /\ u # s /\ (\E j \in 1..Len(body) : Run(body, j, w, u)) =>
              \E i \in 1..Len(R) : Run(R, i, w, u)
         /\ Run(R, q, MarkerWidth, b) /\ q \in 1..Len(R)
<1> DEFINE R == Replaced(body, q, BlockWidth, Marker(b))
<1>1. BlockWidth \in Nat \ {0} /\ MarkerWidth \in Nat \ {0} /\ Len(body) \in Nat
  BY NoteTablesAssumption
<1>2. q + BlockWidth - 1 <= Len(body) /\ \A i \in q..(q + BlockWidth - 1) : body[i] = s
  BY DEF Run
<1>3. /\ R \in Seq(T) /\ Len(R) = Len(body) - BlockWidth + MarkerWidth
      /\ \A i \in 1..Len(R) :
           R[i] = IF i < q THEN body[i]
                  ELSE IF i < q + MarkerWidth THEN b ELSE body[i - MarkerWidth + BlockWidth]
  BY <1>2, ReplacedOnce
<1> HIDE DEF R
<1>4. ASSUME u # b, NEW i \in 1..Len(R), Run(R, i, w, u)
      PROVE  \E j \in 1..Len(body) : j # q /\ Run(body, j, w, u)
  <2>1. i + w - 1 <= Len(R) /\ \A k \in i..(i + w - 1) : R[k] = u
    BY <1>4 DEF Run
  <2>2. CASE i + w - 1 < q
    <3>1. i \in 1..Len(body) /\ i # q /\ i + w - 1 <= Len(body)
      BY <1>1, <1>2, <2>2
    <3>2. ASSUME NEW k \in i..(i + w - 1) PROVE body[k] = u
      <4>1. k \in 1..Len(R) /\ k < q /\ R[k] = u
        BY <1>1, <1>3, <2>1, <2>2
      <4> QED BY <1>3, <4>1
    <3> QED BY <3>1, <3>2 DEF Run
  <2>3. CASE i >= q + MarkerWidth
    <3> DEFINE j == i - MarkerWidth + BlockWidth
    <3>1. j \in 1..Len(body) /\ j # q /\ j + w - 1 <= Len(body)
      BY <1>1, <1>3, <2>1, <2>3
    <3>2. ASSUME NEW k \in j..(j + w - 1) PROVE body[k] = u
      <4> DEFINE l == k - BlockWidth + MarkerWidth
      <4>1. /\ l \in i..(i + w - 1) /\ l \in 1..Len(R) /\ ~(l < q) /\ ~(l < q + MarkerWidth)
            /\ l - MarkerWidth + BlockWidth = k
        BY <1>1, <1>3, <2>1, <2>3
      <4> HIDE DEF l
      <4> QED BY <1>3, <2>1, <4>1
    <3> HIDE DEF j
    <3> QED BY <3>1, <3>2 DEF Run
  <2>4. CASE i < q + MarkerWidth /\ i + w - 1 >= q
    <3> DEFINE k == IF i < q THEN q ELSE i
    <3>1. k \in i..(i + w - 1) /\ k \in 1..Len(R) /\ ~(k < q) /\ k < q + MarkerWidth
      BY <1>1, <1>2, <1>3, <2>1, <2>4
    <3> HIDE DEF k
    <3>2. R[k] = b /\ R[k] = u
      BY <1>3, <2>1, <3>1
    <3> QED BY <1>4, <3>2
  <2> QED BY <1>1, <1>3, <2>2, <2>3, <2>4
<1>5. ASSUME u # s, NEW j \in 1..Len(body), Run(body, j, w, u)
      PROVE  \E i \in 1..Len(R) : Run(R, i, w, u)
  <2>1. j + w - 1 <= Len(body) /\ \A k \in j..(j + w - 1) : body[k] = u
    BY <1>5 DEF Run
  <2>2. CASE j + w - 1 < q
    <3>1. j \in 1..Len(R) /\ j + w - 1 <= Len(R)
      BY <1>1, <1>2, <1>3, <2>2
    <3>2. ASSUME NEW k \in j..(j + w - 1) PROVE R[k] = u
      <4>1. k \in 1..Len(R) /\ k < q /\ body[k] = u
        BY <1>1, <1>2, <1>3, <2>1, <2>2
      <4> QED BY <1>3, <4>1
    <3> QED BY <3>1, <3>2 DEF Run
  <2>3. CASE j >= q + BlockWidth
    <3> DEFINE i == j - BlockWidth + MarkerWidth
    <3>1. i \in 1..Len(R) /\ i + w - 1 <= Len(R)
      BY <1>1, <1>3, <2>1, <2>3
    <3>2. ASSUME NEW k \in i..(i + w - 1) PROVE R[k] = u
      <4>1. /\ k - MarkerWidth + BlockWidth \in j..(j + w - 1)
            /\ k \in 1..Len(R) /\ ~(k < q) /\ ~(k < q + MarkerWidth)
        BY <1>1, <1>3, <2>1, <2>3
      <4> QED BY <1>3, <2>1, <4>1
    <3> HIDE DEF i
    <3> QED BY <3>1, <3>2 DEF Run
  <2>4. CASE j < q + BlockWidth /\ j + w - 1 >= q
    <3> DEFINE k == IF j < q THEN q ELSE j
    <3>1. k \in j..(j + w - 1) /\ k \in q..(q + BlockWidth - 1)
      BY <1>1, <1>2, <2>4
    <3> HIDE DEF k
    <3>2. body[k] = s /\ body[k] = u
      BY <1>2, <2>1, <3>1
    <3> QED BY <1>5, <3>2
  <2> QED BY <1>1, <2>2, <2>3, <2>4
<1>6. Run(R, q, MarkerWidth, b) /\ q \in 1..Len(R)
  <2>1. q + MarkerWidth - 1 <= Len(R) /\ q \in 1..Len(R)
    BY <1>1, <1>2, <1>3
  <2>2. ASSUME NEW k \in q..(q + MarkerWidth - 1) PROVE R[k] = b
    <3>1. k \in 1..Len(R) /\ ~(k < q) /\ k < q + MarkerWidth
      BY <1>1, <2>1
    <3> QED BY <1>3, <3>1
  <2> QED BY <2>1, <2>2 DEF Run
<1> QED BY <1>4, <1>5, <1>6 DEF R

\* At most one seal: none, or one place.
LEMMA AtMostOne ==
  ASSUME NEW body \in Seq(Unit), Cardinality(Seals(body)) <= 1
  PROVE  Seals(body) = {} \/ \E q \in 1..Len(body) : Seals(body) = {q}
<1>1. Seals(body) \subseteq 1..Len(body) /\ Len(body) \in Nat
  BY Runs
<1>2. IsFiniteSet(Seals(body))
  <2>1. IsFiniteSet(1..Len(body))
    BY <1>1, FS_Interval
  <2> QED BY <1>1, <2>1, FS_Subset
<1>3. Cardinality(Seals(body)) = 0 \/ Cardinality(Seals(body)) = 1
  BY <1>2, FS_CardinalityType
<1> QED BY <1>1, <1>2, <1>3, FS_EmptySet, FS_Singleton

\* A text's only seal, replaced by the marker of a block that holds its secret: the
\* text says what it did.
LEMMA SealMarked ==
  ASSUME NEW e, NEW n, NEW body \in Seq(Unit), NEW q \in 1..Len(body), NEW s \in Secret,
         Run(body, q, BlockWidth, s), Seals(body) = {q},
         NEW b \in BlocksOf(e, n), b \notin Range(body), e.blocks[b].secret = s
  PROVE  Holds(e, n, Replaced(body, q, BlockWidth, Marker(b))) = Holds(e, n, body)
<1> DEFINE R == Replaced(body, q, BlockWidth, Marker(b))
           L == 1..Len(body)
           M == 1..Len(R)
<1>1. BlockWidth \in Nat \ {0} /\ MarkerWidth \in Nat \ {0} /\ Len(body) \in Nat /\ 1 \in Nat \ {0}
  BY NoteTablesAssumption
<1>2. /\ b \in Block /\ b \in Unit
      /\ \A u \in Word \union Image : u # b /\ u # s
      /\ \A u \in Secret : u # b
      /\ \A c \in Block : c # s
  BY NoteTablesAssumption DEF BlocksOf, Unit
<1>3. \A w \in Nat \ {0} : \A u :
        /\ u # b /\ (\E i \in M : Run(R, i, w, u)) => \E j \in L : j # q /\ Run(body, j, w, u)
        /\ u # s /\ (\E j \in L : Run(body, j, w, u)) => \E i \in M : Run(R, i, w, u)
        /\ Run(R, q, MarkerWidth, b) /\ q \in M
  BY <1>2, Moved
<1>5. R \in Seq(Unit)
  <2>1. q \in Nat \ {0} /\ b \in Unit
    BY <1>1, <1>2
  <2> QED BY <2>1, ReplacedType, Zenon
<1> HIDE DEF R
<1>6. /\ \A u : Has(body, Typed(u)) <=> \E j \in L : Run(body, j, BlockWidth, u)
      /\ \A u : Has(body, Marker(u)) <=> \E j \in L : Run(body, j, MarkerWidth, u)
      /\ \A u : Has(body, <<u>>) <=> \E j \in L : Run(body, j, 1, u)
      /\ Seals(body) = {j \in L : \E u \in Secret : Run(body, j, BlockWidth, u)}
  BY Runs
<1>7. /\ \A u : Has(R, Typed(u)) <=> \E i \in M : Run(R, i, BlockWidth, u)
      /\ \A u : Has(R, Marker(u)) <=> \E i \in M : Run(R, i, MarkerWidth, u)
      /\ \A u : Has(R, <<u>>) <=> \E i \in M : Run(R, i, 1, u)
  BY <1>5, Runs
<1> HIDE DEF L, M
<1>4. Run(R, q, MarkerWidth, b) /\ q \in M
  BY <1>1, <1>3
<1>8. \A u \in Word \union Image : Has(R, <<u>>) <=> Has(body, <<u>>)
  BY <1>1, <1>2, <1>3, <1>6, <1>7
<1>9. \A u \in Secret : ~Has(R, Typed(u))
  <2> SUFFICES ASSUME NEW u \in Secret, Has(R, Typed(u)) PROVE FALSE
    OBVIOUS
  <2>1. PICK j \in L : j # q /\ Run(body, j, BlockWidth, u)
    BY <1>1, <1>2, <1>3, <1>7
  <2>2. j \in Seals(body)
    BY <1>6, <2>1
  <2> QED BY <2>1, <2>2
<1>10. \A u \in Secret : Has(body, Typed(u)) <=> u = s
  <2>1. \A j \in L : \A u : Run(body, j, BlockWidth, u) => body[j] = u
    BY <1>1 DEF Run, L
  <2>2. ASSUME NEW u \in Secret, Has(body, Typed(u)) PROVE u = s
    <3>1. PICK j \in L : Run(body, j, BlockWidth, u)
      BY <1>6, <2>2
    <3>2. j \in Seals(body)
      BY <1>6, <3>1
    <3>3. j = q
      BY <3>2
    <3> QED BY <2>1, <3>1, <3>3
  <2>3. Has(body, Typed(s))
    BY <1>6 DEF L
  <2> QED BY <2>2, <2>3
<1>11. \A c \in Block : c # b => (Has(R, Marker(c)) <=> Has(body, Marker(c)))
  BY <1>1, <1>2, <1>3, <1>6, <1>7
<1>12. Has(R, Marker(b))
  BY <1>4, <1>7
<1>13. ~Has(body, Marker(b))
  <2> SUFFICES ASSUME NEW j \in L, Run(body, j, MarkerWidth, b) PROVE FALSE
    BY <1>6
  <2>1. body[j] = b /\ j \in DOMAIN body
    BY <1>1 DEF Run, L
  <2> QED BY <2>1, Zenon DEF Range
<1> DEFINE read(t) == {e.blocks[c].secret : c \in {a \in BlocksOf(e, n) : Has(t, Marker(a))}}
           plain(t) == {u \in Word \union Image : Has(t, <<u>>)}
           typed(t) == {u \in Secret : Has(t, Typed(u))}
<1>14. plain(R) = plain(body)
  BY <1>8
<1>15. typed(R) = {} /\ typed(body) = {s}
  BY <1>9, <1>10
<1>16. {a \in BlocksOf(e, n) : Has(R, Marker(a))} = {a \in BlocksOf(e, n) : Has(body, Marker(a))} \union {b}
  BY <1>11, <1>12, <1>13 DEF BlocksOf
<1>17. read(R) = read(body) \union {s}
  BY <1>16
<1>18. plain(R) \union typed(R) \union read(R) = plain(body) \union typed(body) \union read(body)
  <2> HIDE DEF plain, typed, read
  <2> QED BY <1>14, <1>15, <1>17
<1> QED BY <1>18, Zenon DEF Holds, R

\* What a body says is read through the blocks alone.
LEMMA ReadThroughBlocks ==
  ASSUME NEW d, NEW e, d.blocks = e.blocks, NEW n, NEW body
  PROVE  Holds(d, n, body) = Holds(e, n, body)
BY Zenon DEF Holds, BlocksOf

----------------------------------------------------------------------------
(* Saves: what processBodyForSave leaves behind.                           *)

\* A seal starts with its secret.
LEMMA SealIsSecret ==
  ASSUME NEW body \in Seq(Unit), NEW q \in Seals(body)
  PROVE  q \in 1..Len(body) /\ body[q] \in Secret /\ Run(body, q, BlockWidth, body[q])
<1>1. BlockWidth \in Nat \ {0} /\ Len(body) \in Nat
  BY NoteTablesAssumption
<1>2. q \in 1..Len(body) /\ \E s \in Secret : Run(body, q, BlockWidth, s)
  BY Runs
<1>3. PICK s \in Secret : Run(body, q, BlockWidth, s)
  BY <1>2
<1>4. body[q] = s
  BY <1>1, <1>2, <1>3 DEF Run
<1> QED BY <1>2, <1>3, <1>4

\* Fresh rows of the note, for the secrets they replace; the marked text refers to
\* them, and to what it did; with one seal it says the same.
LEMMA BlocksMarked ==
  ASSUME NEW d \in Tables, NEW n \in Note, NEW body \in Seq(Unit), Known(d, body),
         NEW p \in processBodyForSave(d, n, body)
  PROVE  /\ p.db \in Tables /\ p.db.notes = d.notes /\ p.db.images = d.images
         /\ \A b \in Block :
              p.db.blocks[b] = d.blocks[b] \/ (d.blocks[b] = Never /\ b \in BlocksOf(p.db, n))
         /\ p.body \in Seq(Unit)
         /\ \A u \in Range(p.body) : u \in Range(body) \/ u \in BlocksOf(p.db, n)
         /\ Cardinality(Seals(body)) <= 1 => Holds(p.db, n, p.body) = Holds(p.db, n, body)
<1> DEFINE free == {b \in Block : d.blocks[b] = Never}
           row(f, b) == BlockRow(n, body[CHOOSE q \in DOMAIN f : f[q] = b])
           blocks(f) == [b \in Block |-> IF b \in Range(f) THEN row(f, b) ELSE d.blocks[b]]
<1>1. PICK f : /\ DOMAIN f \subseteq Seals(body) /\ f \in [DOMAIN f -> free]
               /\ p = [body |-> MarkedBody(body, f), db |-> [d EXCEPT !.blocks = blocks(f)]]
  <2>1. PICK f \in UNION {{g \in [S -> free] : IsInjective(g)} :
                            S \in SUBSET (IF unlocked THEN Seals(body) ELSE {})} :
          p = [body |-> MarkedBody(body, f), db |-> [d EXCEPT !.blocks = blocks(f)]]
    BY Zenon DEF processBodyForSave
  <2>2. PICK S \in SUBSET (IF unlocked THEN Seals(body) ELSE {}) : f \in [S -> free]
    BY <2>1
  <2>3. S \in SUBSET Seals(body) /\ DOMAIN f = S
    BY <2>2
  <2> QED BY <2>1, <2>2, <2>3
<1> DEFINE e == p.db
           text == p.body
           S == DOMAIN f
<1>2. /\ DOMAIN f = S /\ S \subseteq Seals(body) /\ f \in [S -> free]
      /\ (\A q \in S : f[q] \in free) /\ Range(f) \subseteq Block
  BY <1>1 DEF Range
<1>3. d = [notes |-> d.notes, blocks |-> d.blocks, images |-> d.images, folders |-> d.folders, default |-> d.default]
  BY DEF Tables
<1>4. e = [notes |-> d.notes, blocks |-> blocks(f), images |-> d.images, folders |-> d.folders, default |-> d.default]
  <2> HIDE DEF blocks
  <2> QED BY <1>1, <1>3
<1>5. text = MarkedBody(body, f)
  BY <1>1
<1> HIDE DEF e, text, S
<1>6. \A b \in Range(f) : \E q \in S : f[q] = b /\ row(f, b) = BlockRow(n, body[q]) /\ body[q] \in Secret
  <2> SUFFICES ASSUME NEW b \in Range(f)
               PROVE  \E q \in S : f[q] = b /\ row(f, b) = BlockRow(n, body[q]) /\ body[q] \in Secret
    OBVIOUS
  <2> DEFINE q == CHOOSE r \in DOMAIN f : f[r] = b
  <2>1. \E r \in DOMAIN f : f[r] = b
    BY Zenon DEF Range
  <2>2. q \in DOMAIN f /\ f[q] = b
    BY <2>1, Zenon
  <2>3. q \in S /\ row(f, b) = BlockRow(n, body[q])
    BY <1>2, <2>2
  <2> HIDE DEF q, row
  <2>4. body[q] \in Secret
    BY <1>2, <2>3, SealIsSecret
  <2> QED BY <2>2, <2>3, <2>4
<1> HIDE DEF row
<1>7. \A b \in Block : e.blocks[b] = IF b \in Range(f) THEN row(f, b) ELSE d.blocks[b]
  BY <1>4
<1>8. \A b \in Range(f) : d.blocks[b] = Never /\ b \in BlocksOf(e, n) /\ e.blocks[b] = row(f, b)
  <2> SUFFICES ASSUME NEW b \in Range(f)
               PROVE  d.blocks[b] = Never /\ b \in BlocksOf(e, n) /\ e.blocks[b] = row(f, b)
    OBVIOUS
  <2>1. PICK q \in S : f[q] = b /\ row(f, b) = BlockRow(n, body[q])
    BY <1>6
  <2>2. b \in Block /\ d.blocks[b] = Never
    BY <1>2, <2>1
  <2>3. e.blocks[b] = BlockRow(n, body[q])
    BY <1>7, <2>1, <2>2
  <2>4. IsRow(BlockRow(n, body[q])) /\ BlockRow(n, body[q]).note = n
    BY DEF IsRow, BlockRow
  <2> QED BY <2>1, <2>2, <2>3, <2>4 DEF BlocksOf
<1>9. e \in Tables /\ e.notes = d.notes /\ e.images = d.images
  <2>1. blocks(f) \in [Block -> {Never, Gone} \union [is: {"block"}, note: Note, secret: Secret]]
    <3>1. \A b \in Range(f) : row(f, b) \in [is: {"block"}, note: Note, secret: Secret]
      BY <1>6 DEF BlockRow
    <3>2. \A b \in Block : d.blocks[b] \in {Never, Gone} \union [is: {"block"}, note: Note, secret: Secret]
      BY DEF Tables
    <3> QED BY <3>1, <3>2
  <2> HIDE DEF blocks
  <2> QED BY <1>4, <2>1 DEF Tables
<1>10. \A b \in Block : e.blocks[b] = d.blocks[b] \/ (d.blocks[b] = Never /\ b \in BlocksOf(e, n))
  <2> SUFFICES ASSUME NEW b \in Block
               PROVE  e.blocks[b] = d.blocks[b] \/ (d.blocks[b] = Never /\ b \in BlocksOf(e, n))
    OBVIOUS
  <2>1. CASE b \in Range(f)
    BY <1>8, <2>1
  <2>2. CASE b \notin Range(f)
    BY <1>7, <2>2
  <2> QED BY <2>1, <2>2
<1>11. text \in Seq(Unit) /\ \A u \in Range(text) : u \in Range(body) \/ u \in BlocksOf(e, n)
  <2> DEFINE T == Range(body) \union Range(f)
  <2>1. body \in Seq(T)
    BY DEF Range
  <2>2. \A q \in DOMAIN f : f[q] \in T
    BY DEF Range
  <2> HIDE DEF T
  <2>3. text \in Seq(T)
    BY <1>5, <2>1, <2>2, MarkedType
  <2>4. Range(text) \subseteq T
    BY <2>3 DEF Range
  <2>5. \A q \in DOMAIN f : f[q] \in Unit
    BY <1>2 DEF Unit
  <2>6. text \in Seq(Unit)
    BY <1>5, <2>5, MarkedType
  <2> QED BY <1>8, <2>4, <2>6 DEF T
<1>12. ASSUME Cardinality(Seals(body)) <= 1 PROVE Holds(e, n, text) = Holds(e, n, body)
  <2>1. CASE S = {}
    <3>1. text = body
      BY <1>2, <1>5, <2>1, MarkedNever
    <3> QED BY <3>1
  <2>2. CASE S # {}
    <3>1. PICK q \in 1..Len(body) : Seals(body) = {q}
      BY <1>2, <1>12, <2>2, AtMostOne
    <3>2. S = {q}
      BY <1>2, <2>2, <3>1
    <3>3. text = MarkStep(body, f, q)
      BY <1>2, <1>5, <3>2, MarkedOnce
    <3> DEFINE b == f[q]
    <3>4. b \in Range(f) /\ b \in Block
      BY <1>2, <3>2 DEF Range
    <3>5. text = Replaced(body, q, BlockWidth, Marker(b))
      BY <1>2, <3>2, <3>3 DEF MarkStep
    <3>6. body[q] \in Secret /\ Run(body, q, BlockWidth, body[q])
      BY <3>1, SealIsSecret
    <3>7. d.blocks[b] = Never /\ b \in BlocksOf(e, n) /\ e.blocks[b] = BlockRow(n, body[q])
      BY <1>6, <1>8, <3>2, <3>4
    <3>8. b \notin Range(body)
      BY <3>4, <3>7 DEF Known
    <3>9. e.blocks[b].secret = body[q]
      BY <3>7 DEF BlockRow
    <3> HIDE DEF b
    <3> QED BY <3>1, <3>5, <3>6, <3>7, <3>8, <3>9, SealMarked
  <2> QED BY <2>1, <2>2
<1> QED BY <1>9, <1>10, <1>11, <1>12 DEF e, text

----------------------------------------------------------------------------
(* What a step may do to the rows a text refers to.                        *)

\* A row created stays created.
Later(d, e) ==
  /\ \A b \in Block : d.blocks[b] # Never => e.blocks[b] # Never
  /\ \A i \in Image : d.images[i] # Never => e.images[i] # Never

\* A note keeps its blocks, and gets new ones only; its images are at most deleted.
Keeps(d, e, n) ==
  /\ \A b \in BlocksOf(d, n) : e.blocks[b] = d.blocks[b]
  /\ \A b \in BlocksOf(e, n) : e.blocks[b] = d.blocks[b] \/ d.blocks[b] = Never
  /\ \A i \in Image : d.images[i] \in {ImageRow(n), Gone} => e.images[i] \in {ImageRow(n), Gone}

\* Nothing happens to other notes than those of M.
Beside(d, e, M) ==
  /\ e \in Tables /\ Later(d, e)
  /\ \A n \in Note \ M : Keeps(d, e, n) /\ e.notes[n] = d.notes[n]

\* Only folders and the default change.
SameRows(d, e) == e \in Tables /\ e.notes = d.notes /\ e.blocks = d.blocks /\ e.images = d.images

\* Nothing else does then.
LEMMA BesideSameRows ==
  ASSUME NEW d, NEW e, SameRows(d, e), NEW M
  PROVE  Beside(d, e, M)
BY DEF SameRows, Beside, Later, Keeps, BlocksOf

\* A text of n refers to what is its own, of a copy to what was created.
Reads(d, c, n, body) == Known(d, body) /\ (n \in Note \ c => Resolves(d, n, body))

Texts(d, c) == d \in Tables /\ \A n \in Note : Stored(d, n) => Reads(d, c, n, d.notes[n].body)

\* SavedIsHeld, of an editor.
Shown(d, o) ==
  o.id # None /\ o.saved /\ ~o.err /\ Cardinality(Seals(o.body)) <= 1
  => Holds(d, o.id, d.notes[o.id].body) = Holds(d, o.id, o.body)

EditorText(d, c, o) ==
  /\ o \in Editor /\ Reads(d, c, o.id, o.body)
  /\ o.id # None /\ ~o.err => Stored(d, o.id)
  /\ Shown(d, o)

ScreenText(d, c, s) == s \in Screen /\ Reads(d, c, s.id, s.body)

\* A text still refers to what it did.
LEMMA ReadsStill ==
  ASSUME NEW d, NEW e, Later(d, e), NEW c, NEW cc, c \subseteq cc,
         NEW n, n \in Note => Keeps(d, e, n), NEW body, Reads(d, c, n, body)
  PROVE  Reads(e, cc, n, body)
<1>1. Known(e, body)
  BY DEF Reads, Known, Later
<1>2. ASSUME n \in Note \ cc PROVE Resolves(e, n, body)
  <2>1. n \in Note \ c /\ Keeps(d, e, n)
    BY <1>2
  <2>2. Resolves(d, n, body)
    BY <2>1 DEF Reads
  <2>3. \A b \in BlocksOf(d, n) : b \in BlocksOf(e, n)
    BY <2>1 DEF Keeps, BlocksOf
  <2> QED BY <2>1, <2>2, <2>3, Zenon DEF Resolves, Keeps
<1> QED BY <1>1, <1>2 DEF Reads

\* And says what it did.
LEMMA SaysStill ==
  ASSUME NEW d, NEW e, NEW n, Keeps(d, e, n), NEW body \in Seq(Unit), Known(d, body)
  PROVE  Holds(e, n, body) = Holds(d, n, body)
<1>1. \A b : Has(body, Marker(b)) => b \in Range(body)
  <2> SUFFICES ASSUME NEW b, NEW q \in 1..Len(body), Run(body, q, MarkerWidth, b) PROVE b \in Range(body)
    BY Runs
  <2>1. body[q] = b /\ q \in DOMAIN body
    BY NoteTablesAssumption DEF Run
  <2> QED BY <2>1, Zenon DEF Range
<1> DEFINE read(t) == {b \in BlocksOf(t, n) : Has(body, Marker(b))}
<1>2. \A b \in read(e) : d.blocks[b] # Never
  BY <1>1 DEF Known, BlocksOf
<1>3. \A b \in read(e) : b \in read(d) /\ e.blocks[b] = d.blocks[b]
  BY <1>2 DEF Keeps, BlocksOf
<1>4. \A b \in read(d) : b \in read(e) /\ e.blocks[b] = d.blocks[b]
  BY DEF Keeps, BlocksOf
<1>5. {e.blocks[b].secret : b \in read(e)} = {d.blocks[b].secret : b \in read(d)}
  <2> HIDE DEF read
  <2> QED BY <1>3, <1>4
<1> QED BY <1>5, Zenon DEF Holds

\* Other notes' texts stay as they are.
LEMMA TextsStill ==
  ASSUME NEW d, NEW e, NEW c, NEW cc, c \subseteq cc, Texts(d, c), NEW M, Beside(d, e, M),
         \A m \in M : m \in Note /\ Stored(e, m) => Reads(e, cc, m, e.notes[m].body)
  PROVE  /\ Texts(e, cc)
         /\ \A n \in Note \ M : Stored(e, n) =>
              Stored(d, n) /\ Holds(e, n, e.notes[n].body) = Holds(d, n, d.notes[n].body)
<1>1. ASSUME NEW n \in Note \ M, Stored(e, n)
      PROVE  /\ Reads(e, cc, n, e.notes[n].body)
             /\ Stored(d, n) /\ Holds(e, n, e.notes[n].body) = Holds(d, n, d.notes[n].body)
  <2>1. Keeps(d, e, n) /\ Later(d, e) /\ e.notes[n] = d.notes[n]
    BY DEF Beside
  <2>2. Stored(d, n) /\ Reads(d, c, n, d.notes[n].body) /\ d.notes[n].body \in Seq(Unit)
    BY <1>1, <2>1 DEF Stored, Texts, Tables, Never, Gone, Damaged
  <2>3. Reads(e, cc, n, e.notes[n].body)
    BY <2>1, <2>2, ReadsStill
  <2>4. Holds(e, n, d.notes[n].body) = Holds(d, n, d.notes[n].body)
    BY <2>1, <2>2, SaysStill DEF Reads
  <2> QED BY <2>1, <2>2, <2>3, <2>4
<1>2. e \in Tables
  BY DEF Beside
<1> QED BY <1>1, <1>2 DEF Texts

\* When one note is written.
LEMMA OthersStill ==
  ASSUME NEW d, NEW e, NEW c, Texts(d, c), NEW n \in Note, Beside(d, e, {n}),
         Stored(e, n) => Reads(e, c, n, e.notes[n].body)
  PROVE  /\ Texts(e, c)
         /\ \A m \in Note : m # n /\ Stored(e, m) =>
              Stored(d, m) /\ Holds(e, m, e.notes[m].body) = Holds(d, m, d.notes[m].body)
<1>1. PICK M : M = {n}
  OBVIOUS
<1>2. c \subseteq c /\ Beside(d, e, M)
  BY <1>1
<1>3. \A m \in M : m \in Note /\ Stored(e, m) => Reads(e, c, m, e.notes[m].body)
  BY <1>1
<1>4. /\ Texts(e, c)
      /\ \A m \in Note \ M : Stored(e, m) =>
           Stored(d, m) /\ Holds(e, m, e.notes[m].body) = Holds(d, m, d.notes[m].body)
  BY <1>2, <1>3, TextsStill
<1> QED BY <1>1, <1>4

\* So does the editor of another note.
LEMMA EditorStill ==
  ASSUME NEW d, NEW e, NEW c, NEW cc, c \subseteq cc, Texts(d, c), NEW M, Beside(d, e, M),
         NEW o, EditorText(d, c, o), o.id \notin M
  PROVE  EditorText(e, cc, o)
<1>1. Later(d, e) /\ (o.id # None => o.id \in Note /\ Keeps(d, e, o.id) /\ e.notes[o.id] = d.notes[o.id])
  BY DEF Beside, EditorText, Editor
<1>2. None \notin Note
  BY NoteTablesAssumption
<1>3. Reads(e, cc, o.id, o.body)
  BY <1>1, <1>2, ReadsStill DEF EditorText
<1>4. o.id # None /\ ~o.err => Stored(e, o.id)
  BY <1>1 DEF EditorText, Stored
<1>5. ASSUME o.id # None, o.saved, ~o.err, Cardinality(Seals(o.body)) <= 1
      PROVE  Holds(e, o.id, e.notes[o.id].body) = Holds(e, o.id, o.body)
  <2>1. Stored(d, o.id) /\ d.notes[o.id].body \in Seq(Unit) /\ Known(d, d.notes[o.id].body)
    BY <1>1, <1>5 DEF EditorText, Texts, Reads, Stored, Tables, Never, Gone, Damaged
  <2>2. o.body \in Seq(Unit) /\ Known(d, o.body)
    BY DEF EditorText, Editor, Reads
  <2>3. Holds(d, o.id, d.notes[o.id].body) = Holds(d, o.id, o.body)
    BY <1>5 DEF EditorText, Shown
  <2>4. /\ Holds(e, o.id, d.notes[o.id].body) = Holds(d, o.id, d.notes[o.id].body)
        /\ Holds(e, o.id, o.body) = Holds(d, o.id, o.body)
    BY <1>1, <1>5, <2>1, <2>2, SaysStill
  <2> QED BY <1>1, <1>5, <2>3, <2>4
<1> QED BY <1>3, <1>4, <1>5 DEF EditorText, Shown

\* And the phone's screen, whatever is stored for its note.
LEMMA ScreenStill ==
  ASSUME NEW d, NEW e, NEW c, Later(d, e), NEW s, ScreenText(d, c, s), s.id \in Note => Keeps(d, e, s.id)
  PROVE  ScreenText(e, c, s)
BY ReadsStill DEF ScreenText

\* A text without references refers to nothing.
LEMMA WordsRead ==
  ASSUME NEW d, NEW c, NEW n, NEW body, Range(body) \subseteq Word \union Secret
  PROVE  Reads(d, c, n, body)
<1>1. \A u \in Range(body) : u \notin Block /\ u \notin Image
  BY NoteTablesAssumption
<1> QED BY <1>1 DEF Reads, Known, Resolves

\* Nor does an empty text.
LEMMA NothingRead ==
  ASSUME NEW d, NEW c, NEW n
  PROVE  Reads(d, c, n, <<>>) /\ <<>> \in Seq(Unit)
<1>1. Range(<<>>) = {}
  BY DEF Range
<1> QED BY <1>1, WordsRead

\* What is typed is read after what was there.
LEMMA TypedRead ==
  ASSUME NEW d, NEW c, NEW n, NEW body \in Seq(Unit), NEW part \in Seq(Unit),
         Reads(d, c, n, body), Reads(d, c, n, part)
  PROVE  body \o part \in Seq(Unit) /\ Reads(d, c, n, body \o part)
<1> DEFINE text == body \o part
<1>1. /\ text \in Seq(Unit) /\ Len(text) = Len(body) + Len(part)
      /\ \A i \in 1..(Len(body) + Len(part)) : text[i] = IF i <= Len(body) THEN body[i] ELSE part[i - Len(body)]
  BY ConcatProperties
<1> HIDE DEF text
<1>2. ASSUME NEW u \in Range(text) PROVE u \in Range(body) \/ u \in Range(part)
  <2>1. PICK i \in 1..Len(text) : text[i] = u
    BY <1>1 DEF Range
  <2>2. CASE i <= Len(body)
    BY <1>1, <2>1, <2>2 DEF Range
  <2>3. CASE ~(i <= Len(body))
    <3>1. i - Len(body) \in 1..Len(part) /\ part[i - Len(body)] = u
      BY <1>1, <2>1, <2>3
    <3> QED BY <3>1 DEF Range
  <2> QED BY <2>2, <2>3
<1>3. Reads(d, c, n, text)
  BY <1>2, Zenon DEF Reads, Known, Resolves
<1> QED BY <1>1, <1>3 DEF text

\* And so is a unit.
LEMMA AppendRead ==
  ASSUME NEW d, NEW c, NEW n, NEW body \in Seq(Unit), NEW u \in Unit,
         Reads(d, c, n, body), Reads(d, c, n, <<u>>)
  PROVE  Append(body, u) \in Seq(Unit) /\ Reads(d, c, n, Append(body, u))
<1>1. <<u>> \in Seq(Unit) /\ Append(body, u) = body \o <<u>>
  BY AppendIsConcat
<1>2. body \o <<u>> \in Seq(Unit) /\ Reads(d, c, n, body \o <<u>>)
  BY <1>1, TypedRead
<1> QED BY <1>1, <1>2

----------------------------------------------------------------------------
(* The repositories, row by row.                                           *)

\* Rows a note may be written with.
NoteRows == [is: {"note"}, body: Seq(Unit), folder: Folder \union {None}]

\* What tables are made of.
LEMMA TablesShape ==
  ASSUME NEW d \in Tables
  PROVE  /\ d = [notes |-> d.notes, blocks |-> d.blocks, images |-> d.images,
                 folders |-> d.folders, default |-> d.default]
         /\ d.notes \in [Note -> {Never, Gone, Damaged} \union NoteRows]
         /\ d.blocks \in [Block -> {Never, Gone} \union [is: {"block"}, note: Note, secret: Secret]]
         /\ d.images \in [Image -> {Never, Gone} \union [is: {"image"}, note: Note]]
         /\ d.folders \subseteq Folder /\ d.default \in Folder \union {None}
BY DEF Tables, NoteRows

\* And what makes tables.
LEMMA TablesMade ==
  ASSUME NEW notes \in [Note -> {Never, Gone, Damaged} \union NoteRows],
         NEW blocks \in [Block -> {Never, Gone} \union [is: {"block"}, note: Note, secret: Secret]],
         NEW images \in [Image -> {Never, Gone} \union [is: {"image"}, note: Note]],
         NEW folders \in SUBSET Folder, NEW default \in Folder \union {None}
  PROVE  [notes |-> notes, blocks |-> blocks, images |-> images, folders |-> folders, default |-> default] \in Tables
BY DEF Tables, NoteRows

\* Folders come and the default changes; rows do not.
LEMMA FoldersOnly ==
  ASSUME NEW d \in Tables, NEW folders \in SUBSET Folder, NEW default \in Folder \union {None}
  PROVE  /\ SameRows(d, [d EXCEPT !.folders = folders])
         /\ SameRows(d, [d EXCEPT !.default = default])
         /\ SameRows(d, [d EXCEPT !.folders = folders, !.default = default])
         /\ SameRows(d, d)
<1>1. [d EXCEPT !.folders = folders] =
        [notes |-> d.notes, blocks |-> d.blocks, images |-> d.images, folders |-> folders, default |-> d.default]
  BY TablesShape
<1>2. [d EXCEPT !.default = default] =
        [notes |-> d.notes, blocks |-> d.blocks, images |-> d.images, folders |-> d.folders, default |-> default]
  BY TablesShape
<1>3. [d EXCEPT !.folders = folders, !.default = default] =
        [notes |-> d.notes, blocks |-> d.blocks, images |-> d.images, folders |-> folders, default |-> default]
  <2> DEFINE e == [d EXCEPT !.folders = folders]
  <2>1. [d EXCEPT !.folders = folders, !.default = default] = [e EXCEPT !.default = default]
    BY Zenon
  <2>2. e = [notes |-> d.notes, blocks |-> d.blocks, images |-> d.images, folders |-> folders, default |-> d.default]
    BY <1>1
  <2> HIDE DEF e
  <2> QED BY <2>1, <2>2
<1>4. \A fs \in SUBSET Folder : \A f \in Folder \union {None} :
        [notes |-> d.notes, blocks |-> d.blocks, images |-> d.images, folders |-> fs, default |-> f] \in Tables
  BY TablesShape, TablesMade
<1>5. \A fs \in SUBSET Folder : \A f \in Folder \union {None} :
        SameRows(d, [notes |-> d.notes, blocks |-> d.blocks, images |-> d.images, folders |-> fs, default |-> f])
  BY <1>4 DEF SameRows
<1>6. d.folders \in SUBSET Folder /\ d.default \in Folder \union {None}
  BY TablesShape
<1>7. SameRows(d, d)
  BY DEF SameRows
<1> QED BY <1>1, <1>2, <1>3, <1>5, <1>6, <1>7

\* Neither ensureDefaultFolder nor createFolder touches a row.
LEMMA FolderRows ==
  ASSUME NEW d \in Tables
  PROVE  /\ \A f \in Folder : \A e \in createFolder(d, f) : SameRows(d, e)
         /\ \A o \in ensureDefaultFolder(d) : SameRows(d, o.db) /\ o.folder \in Folder \union {None}
<1>1. ASSUME NEW f \in Folder, NEW e \in createFolder(d, f) PROVE SameRows(d, e)
  <2>1. d.folders \union {f} \in SUBSET Folder
    BY TablesShape
  <2> QED BY <2>1, FoldersOnly DEF createFolder
<1>2. ASSUME NEW o \in ensureDefaultFolder(d) PROVE SameRows(d, o.db) /\ o.folder \in Folder \union {None}
  <2>1. Inbox \in Folder /\ d.folders \union {Inbox} \in SUBSET Folder
    BY TablesShape, NoteTablesAssumption
  <2>2. SameRows(d, [d EXCEPT !.default = Inbox]) /\ SameRows(d, d)
    BY <2>1, FoldersOnly
  <2>3. SameRows(d, [d EXCEPT !.folders = @ \union {Inbox}, !.default = Inbox])
    BY <2>1, FoldersOnly
  <2>4. \A e \in createFolder(d, Inbox) : SameRows(d, e)
    BY <1>1, <2>1
  <2>5. None \in Folder \union {None} /\ Inbox \in Folder \union {None}
    BY <2>1
  <2>6. CASE Inbox \in d.folders
    <3>1. o.folder = Inbox /\ o.db \in {d, [d EXCEPT !.default = Inbox]}
      BY <2>6 DEF ensureDefaultFolder
    <3> QED BY <2>2, <2>5, <3>1
  <2>7. CASE Inbox \notin d.folders
    <3> DEFINE both == [d EXCEPT !.folders = @ \union {Inbox}, !.default = Inbox]
    <3>1. PICK e \in createFolder(d, Inbox) \union {both} :
            o = [folder |-> IF Inbox \in e.folders THEN Inbox ELSE None, db |-> e]
      BY <2>7, Zenon DEF ensureDefaultFolder
    <3>2. SameRows(d, both)
      BY <2>3
    <3> HIDE DEF both
    <3> QED BY <2>4, <2>5, <3>1, <3>2
  <2> QED BY <2>6, <2>7
<1> QED BY <1>1, <1>2

With(d, n, row) == [d EXCEPT !.notes[n] = row]

\* The tables with one note's row written, or not written.
LEMMA RowIs ==
  ASSUME NEW d \in Tables, NEW n \in Note, NEW row \in NoteRows,
         NEW e, e = With(d, n, row)
  PROVE  /\ e \in Tables /\ e.blocks = d.blocks /\ e.images = d.images /\ e.notes[n] = row
         /\ Beside(d, e, {n}) /\ Keeps(d, e, n)
<1>1. e = [notes |-> [d.notes EXCEPT ![n] = row], blocks |-> d.blocks, images |-> d.images,
           folders |-> d.folders, default |-> d.default]
  BY TablesShape DEF With
<1>2. /\ [d.notes EXCEPT ![n] = row] \in [Note -> {Never, Gone, Damaged} \union NoteRows]
      /\ [d.notes EXCEPT ![n] = row][n] = row
      /\ \A m \in Note \ {n} : [d.notes EXCEPT ![n] = row][m] = d.notes[m]
  BY TablesShape
<1>3. e \in Tables
  <2>1. /\ d.blocks \in [Block -> {Never, Gone} \union [is: {"block"}, note: Note, secret: Secret]]
        /\ d.images \in [Image -> {Never, Gone} \union [is: {"image"}, note: Note]]
        /\ d.folders \in SUBSET Folder /\ d.default \in Folder \union {None}
    BY TablesShape
  <2> QED BY <1>1, <1>2, <2>1, TablesMade, SMTT(30)
<1>4. /\ e.blocks = d.blocks /\ e.images = d.images /\ e.notes[n] = row
      /\ \A m \in Note \ {n} : e.notes[m] = d.notes[m]
  BY <1>1, <1>2
<1>5. Beside(d, e, {n}) /\ Keeps(d, e, n)
  BY <1>3, <1>4 DEF Beside, Later, Keeps, BlocksOf
<1> QED BY <1>3, <1>4, <1>5

\* If nothing is written, nothing changes.
LEMMA RowIsNot ==
  ASSUME NEW d \in Tables, NEW n
  PROVE  Beside(d, d, {n}) /\ Keeps(d, d, n)
BY DEF Beside, Later, Keeps

\* NoteRepository::updateNote writes one note, or nothing.
LEMMA RowUpdated ==
  ASSUME NEW d \in Tables, NEW n \in Note, NEW row \in NoteRows, NEW o \in updateNote(d, n, row)
  PROVE  /\ o.db \in Tables /\ o.db.blocks = d.blocks /\ o.db.images = d.images
         /\ o.ok \in BOOLEAN /\ (~o.ok => o.db = d) /\ (o.ok => o.db.notes[n] = row)
         /\ Beside(d, o.db, {n}) /\ Keeps(d, o.db, n)
<1>1. PICK e : e = With(d, n, row)
  OBVIOUS
<1>2. o = [ok |-> FALSE, db |-> d] \/ o = [ok |-> TRUE, db |-> e]
  BY <1>1, Zenon DEF updateNote, With
<1>3. CASE o = [ok |-> FALSE, db |-> d]
  BY <1>3, RowIsNot
<1>4. CASE o = [ok |-> TRUE, db |-> e]
  <2>1. /\ e \in Tables /\ e.blocks = d.blocks /\ e.images = d.images /\ e.notes[n] = row
        /\ Beside(d, e, {n}) /\ Keeps(d, e, n)
    BY <1>1, RowIs, SMTT(30)
  <2>2. o.ok = TRUE /\ o.db = e
    BY <1>4
  <2> QED BY <2>1, <2>2
<1> QED BY <1>2, <1>3, <1>4

\* So does createNote.
LEMMA RowCreated ==
  ASSUME NEW d \in Tables, NEW n \in Note, NEW row \in NoteRows, NEW o, o \in createNote(d, n, row)
  PROVE  /\ o.db \in Tables /\ o.db.blocks = d.blocks /\ o.db.images = d.images
         /\ o.ok \in BOOLEAN /\ (~o.ok => o.db = d) /\ (o.ok => o.db.notes[n] = row)
         /\ Beside(d, o.db, {n}) /\ Keeps(d, o.db, n)
<1>1. PICK e : e = With(d, n, row)
  OBVIOUS
<1>2. o = [ok |-> FALSE, db |-> d] \/ o = [ok |-> TRUE, db |-> e]
  BY <1>1, Zenon DEF createNote, With
<1>3. CASE o = [ok |-> FALSE, db |-> d]
  BY <1>3, RowIsNot
<1>4. CASE o = [ok |-> TRUE, db |-> e]
  <2>1. /\ e \in Tables /\ e.blocks = d.blocks /\ e.images = d.images /\ e.notes[n] = row
        /\ Beside(d, e, {n}) /\ Keeps(d, e, n)
    BY <1>1, RowIs, SMTT(30)
  <2>2. o.ok = TRUE /\ o.db = e
    BY <1>4
  <2> QED BY <2>1, <2>2
<1> QED BY <1>2, <1>3, <1>4

\* A note that is deleted takes nothing of another.
LEMMA RowsDeleted ==
  ASSUME NEW d \in Tables, NEW n \in Note
  PROVE  LET e == deleteNote(d, n) IN
         Beside(d, e, {n}) /\ e.notes[n] = Gone
<1> DEFINE e == deleteNote(d, n)
           rows == [m \in Note |-> IF m = n THEN Gone ELSE d.notes[m]]
           blocks == [b \in Block |-> IF b \in BlocksOf(d, n) THEN Gone ELSE d.blocks[b]]
           images == [i \in Image |-> IF i \in ImagesOf(d, n) THEN Gone ELSE d.images[i]]
<1>1. e = [notes |-> rows, blocks |-> blocks, images |-> images, folders |-> d.folders, default |-> d.default]
  <2>1. Shape(d)
    BY DEF Shape, Tables
  <2> QED BY <2>1, DeletedRows
<1>2. e \in Tables
  <2>1. rows \in [Note -> {Never, Gone, Damaged} \union NoteRows]
    BY TablesShape
  <2>2. blocks \in [Block -> {Never, Gone} \union [is: {"block"}, note: Note, secret: Secret]]
    BY TablesShape
  <2>3. images \in [Image -> {Never, Gone} \union [is: {"image"}, note: Note]]
    BY TablesShape
  <2>4. d.folders \in SUBSET Folder /\ d.default \in Folder \union {None}
    BY TablesShape
  <2> HIDE DEF e, rows, blocks, images
  <2> QED BY <1>1, <2>1, <2>2, <2>3, <2>4, TablesMade
<1> HIDE DEF e
<1>3. e.notes[n] = Gone /\ \A m \in Note \ {n} : e.notes[m] = d.notes[m]
  BY <1>1
<1>4. \A b \in Block : e.blocks[b] = IF b \in BlocksOf(d, n) THEN Gone ELSE d.blocks[b]
  BY <1>1
<1>5. \A i \in Image : e.images[i] = IF i \in ImagesOf(d, n) THEN Gone ELSE d.images[i]
  BY <1>1
<1>6. Gone # Never /\ ~IsRow(Gone)
  BY DEF Gone, Never, IsRow
<1>7. Later(d, e)
  BY <1>4, <1>5, <1>6 DEF Later
<1>8. ASSUME NEW m \in Note \ {n} PROVE Keeps(d, e, m)
  <2>1. \A b \in BlocksOf(d, m) : e.blocks[b] = d.blocks[b]
    BY <1>4 DEF BlocksOf
  <2>2. \A b \in BlocksOf(e, m) : e.blocks[b] = d.blocks[b]
    BY <1>4, <1>6 DEF BlocksOf
  <2>3. ImageRow(m).note = m
    BY DEF ImageRow
  <2>4. \A i \in Image : d.images[i] \in {ImageRow(m), Gone} => i \notin ImagesOf(d, n)
    BY <1>6, <2>3 DEF ImagesOf
  <2>5. \A i \in Image : d.images[i] \in {ImageRow(m), Gone} => e.images[i] = d.images[i]
    BY <1>5, <2>4
  <2> QED BY <2>1, <2>2, <2>5 DEF Keeps
<1> QED BY <1>2, <1>3, <1>7, <1>8 DEF Beside, e

\* An image comes or goes.
LEMMA ImageRows ==
  ASSUME NEW d \in Tables, NEW i \in Image
  PROVE  /\ \A n \in Note : \A o \in storeAttachment(d, i, n) :
              /\ Beside(d, o.db, {}) /\ (o.ok => o.db.images[i] = ImageRow(n)) /\ o.ok \in BOOLEAN
              /\ \A m \in Note : Keeps(d, o.db, m)
         /\ \A e \in deleteAttachment(d, i) : Beside(d, e, {})
<1>1. ASSUME NEW row \in {Gone} \union [is: {"image"}, note: Note], row = Gone \/ d.images[i] = Never
      PROVE  LET e == [d EXCEPT !.images[i] = row] IN Beside(d, e, {}) /\ e.images[i] = row
  <2> DEFINE e == [d EXCEPT !.images[i] = row]
  <2>1. e = [notes |-> d.notes, blocks |-> d.blocks, images |-> [d.images EXCEPT ![i] = row],
             folders |-> d.folders, default |-> d.default]
    BY TablesShape
  <2>2. /\ [d.images EXCEPT ![i] = row] \in [Image -> {Never, Gone} \union [is: {"image"}, note: Note]]
        /\ [d.images EXCEPT ![i] = row][i] = row
        /\ \A j \in Image \ {i} : [d.images EXCEPT ![i] = row][j] = d.images[j]
    BY TablesShape
  <2> HIDE DEF e
  <2>3. e \in Tables
    BY <2>1, <2>2, TablesShape, TablesMade
  <2>4. /\ e.notes = d.notes /\ e.blocks = d.blocks
        /\ e.images[i] = row /\ \A j \in Image \ {i} : e.images[j] = d.images[j]
    BY <2>1, <2>2
  <2>5. row # Never /\ Gone # Never /\ \A n : ImageRow(n) # Never
    BY DEF Gone, Never, ImageRow
  <2>6. Later(d, e)
    BY <2>4, <2>5 DEF Later
  <2>7. \A n \in Note : \A j \in Image :
          d.images[j] \in {ImageRow(n), Gone} => e.images[j] \in {ImageRow(n), Gone}
    BY <1>1, <2>4, <2>5
  <2>8. \A n \in Note : Keeps(d, e, n)
    BY <2>4, <2>7 DEF Keeps, BlocksOf
  <2> QED BY <2>3, <2>4, <2>6, <2>8 DEF Beside, e
<1>2. Beside(d, d, {})
  BY DEF Beside, Later, Keeps
<1>3. ASSUME NEW n \in Note, NEW o \in storeAttachment(d, i, n)
      PROVE  /\ Beside(d, o.db, {}) /\ (o.ok => o.db.images[i] = ImageRow(n)) /\ o.ok \in BOOLEAN
             /\ \A m \in Note : Keeps(d, o.db, m)
  <2> DEFINE e == [d EXCEPT !.images[i] = ImageRow(n)]
  <2>1. o = [ok |-> FALSE, db |-> d] \/ (d.images[i] = Never /\ o = [ok |-> TRUE, db |-> e])
    BY Zenon DEF storeAttachment
  <2>2. ImageRow(n) \in {Gone} \union [is: {"image"}, note: Note]
    BY DEF ImageRow
  <2>3. d.images[i] = Never => Beside(d, e, {}) /\ e.images[i] = ImageRow(n)
    BY <1>1, <2>2
  <2> HIDE DEF e
  <2>4. Beside(d, o.db, {}) /\ (o.ok => o.db.images[i] = ImageRow(n)) /\ o.ok \in BOOLEAN
    <3>1. CASE o = [ok |-> FALSE, db |-> d]
      BY <1>2, <3>1
    <3>2. CASE d.images[i] = Never /\ o = [ok |-> TRUE, db |-> e]
      BY <2>3, <3>2
    <3> QED BY <2>1, <3>1, <3>2
  <2> QED BY <2>4 DEF Beside
<1>4. ASSUME NEW e \in deleteAttachment(d, i) PROVE Beside(d, e, {})
  BY <1>1, <1>2, <1>4 DEF deleteAttachment
<1> QED BY <1>3, <1>4

\* Blocks come, and are their note's.
LEMMA BlockRows ==
  ASSUME NEW d \in Tables, NEW n \in Note, NEW body \in Seq(Unit), Known(d, body),
         NEW p \in processBodyForSave(d, n, body)
  PROVE  Beside(d, p.db, {})
<1> DEFINE e == p.db
<1>1. /\ e \in Tables /\ e.notes = d.notes /\ e.images = d.images
      /\ \A b \in Block : e.blocks[b] = d.blocks[b] \/ (d.blocks[b] = Never /\ b \in BlocksOf(e, n))
  BY BlocksMarked
<1> HIDE DEF e
<1>2. Never # Gone /\ ~IsRow(Never)
  BY DEF Never, Gone, IsRow
<1>3. Later(d, e)
  BY <1>1, <1>2 DEF Later
<1>4. \A m \in Note : Keeps(d, e, m)
  BY <1>1, <1>2 DEF Keeps, BlocksOf
<1> QED BY <1>1, <1>3, <1>4 DEF Beside, e

----------------------------------------------------------------------------
(* The editor.                                                             *)

\* WrittenIsTyped, of one step and an editor.
Faithful(d, e, o) ==
  \A n \in Note :
    Stored(d, n) /\ Stored(e, n) /\ Holds(d, n, d.notes[n].body) # Holds(e, n, e.notes[n].body) =>
    o.id = n /\ (Cardinality(Seals(o.body)) <= 1 => Holds(e, n, e.notes[n].body) = Holds(e, n, o.body))

\* A step that writes over no stored note is faithful.
LEMMA NothingWritten ==
  ASSUME NEW d, NEW e, NEW c, NEW cc, c \subseteq cc, Texts(d, c), NEW M, Beside(d, e, M),
         \A m \in M : m \in Note /\ Stored(e, m) => Reads(e, cc, m, e.notes[m].body) /\ ~Stored(d, m), NEW o
  PROVE  Texts(e, cc) /\ Faithful(d, e, o)
<1>1. /\ Texts(e, cc)
      /\ \A n \in Note \ M : Stored(e, n) =>
           Stored(d, n) /\ Holds(e, n, e.notes[n].body) = Holds(d, n, d.notes[n].body)
  BY TextsStill
<1>2. ASSUME NEW n \in Note, Stored(d, n), Stored(e, n)
      PROVE  Holds(e, n, e.notes[n].body) = Holds(d, n, d.notes[n].body)
  <2>1. n \notin M
    BY <1>2
  <2> QED BY <1>1, <1>2, <2>1
<1> QED BY <1>1, <1>2 DEF Faithful

\* A step that writes no note at all is faithful, and the editor keeps its text.
LEMMA NoneWritten ==
  ASSUME NEW d, NEW e, NEW c, Texts(d, c), Beside(d, e, {}), NEW o
  PROVE  Texts(e, c) /\ Faithful(d, e, o) /\ (EditorText(d, c, o) => EditorText(e, c, o))
<1>1. c \subseteq c /\ o.id \notin {}
  OBVIOUS
<1>2. \A m \in {} : m \in Note /\ Stored(e, m) => Reads(e, c, m, e.notes[m].body) /\ ~Stored(d, m)
  OBVIOUS
<1>3. Texts(e, c) /\ Faithful(d, e, o)
  BY <1>1, <1>2, NothingWritten
<1>4. ASSUME EditorText(d, c, o) PROVE EditorText(e, c, o)
  BY <1>1, <1>4, EditorStill
<1> QED BY <1>3, <1>4

\* So is a step that writes a note that was not stored.
LEMMA OneWritten ==
  ASSUME NEW d, NEW e, NEW c, NEW cc, c \subseteq cc, Texts(d, c), NEW n \in Note, Beside(d, e, {n}),
         Stored(e, n) => Reads(e, cc, n, e.notes[n].body) /\ ~Stored(d, n), NEW o
  PROVE  Texts(e, cc) /\ Faithful(d, e, o)
<1>1. \A m \in {n} : m \in Note /\ Stored(e, m) => Reads(e, cc, m, e.notes[m].body) /\ ~Stored(d, m)
  OBVIOUS
<1> QED BY <1>1, NothingWritten

\* An editor without a note shows nothing.
LEMMA ClosedText == \A d, c : EditorText(d, c, Closed)
<1>1. Closed \in Editor
  BY NothingRead DEF Closed, Editor
<1> QED BY <1>1, NothingRead, NoteTablesAssumption DEF EditorText, Shown, Closed

\* A note just loaded is shown as it is.
LEMMA LoadedText ==
  ASSUME NEW d, NEW c, Texts(d, c), NEW n \in Note, Exists(d, n)
  PROVE  EditorText(d, c, Loaded(d, n))
<1> DEFINE o == Loaded(d, n)
<1>1. d \in Tables /\ d.notes[n] \in {Damaged} \union NoteRows /\ d.default \in Folder \union {None}
  BY TablesShape DEF Texts, Exists, IsRow, Never, Gone
<1>2. CASE d.notes[n] = Damaged
  <2>1. o = [id |-> n, body |-> <<>>, folder |-> d.default, err |-> TRUE, saved |-> TRUE]
    BY <1>2 DEF Loaded, Closed
  <2>2. o \in Editor
    BY <1>1, <2>1, NothingRead DEF Editor
  <2> HIDE DEF o
  <2> QED BY <2>1, <2>2, NothingRead DEF EditorText, Shown, o
<1>3. CASE d.notes[n] # Damaged
  <2>1. d.notes[n].is = "note" /\ d.notes[n].body \in Seq(Unit) /\ d.notes[n].folder \in Folder \union {None}
    BY <1>1, <1>3 DEF NoteRows
  <2>2. PICK f \in Folder \union {None} :
          o = [id |-> n, body |-> d.notes[n].body, folder |-> f, err |-> FALSE, saved |-> TRUE]
    BY <1>1, <1>3, <2>1 DEF Loaded
  <2> HIDE DEF o
  <2>3. o \in Editor /\ o.id = n /\ o.body = d.notes[n].body
    <3>1. n \in Note \union {None} /\ FALSE \in BOOLEAN /\ TRUE \in BOOLEAN
      OBVIOUS
    <3> QED BY <2>1, <2>2, <3>1 DEF Editor
  <2>4. Stored(d, n)
    BY <2>1 DEF Stored
  <2> QED BY <2>3, <2>4 DEF EditorText, Shown, Texts, o
<1> QED BY <1>2, <1>3

\* What is saved says what the editor shows; what is not leaves the note as it was.
LEMMA NoteSavedText ==
  ASSUME NEW d, NEW c, Texts(d, c), EditorText(d, c, open), NEW folder \in Folder \union {None},
         NEW s \in NoteSaves(d, folder)
  PROVE  /\ Texts(s.db, c) /\ EditorText(s.db, c, s.open) /\ Faithful(d, s.db, open)
         /\ \A n \in Note : n # open.id => s.db.notes[n] = d.notes[n]
<1> DEFINE id == open.id
<1>1. CASE open.err \/ id = None
  <2>1. s = [ok |-> TRUE, db |-> d, open |-> open] \/ s = [ok |-> FALSE, db |-> d, open |-> open]
    BY <1>1, Zenon DEF NoteSaves
  <2> QED BY <2>1 DEF Faithful
<1>2. CASE ~open.err /\ id # None
  <2>1. PICK p \in processBodyForSave(d, id, open.body) :
        \E u \in updateNote(p.db, id, NoteRow(p.body, folder)) :
          s = [ok |-> u.ok, db |-> u.db,
               open |-> [open EXCEPT !.saved = u.ok, !.folder = IF u.ok THEN folder ELSE @]]
    BY <1>2, Zenon DEF NoteSaves
  <2>2. PICK u \in updateNote(p.db, id, NoteRow(p.body, folder)) :
          s = [ok |-> u.ok, db |-> u.db,
               open |-> [open EXCEPT !.saved = u.ok, !.folder = IF u.ok THEN folder ELSE @]]
    BY <2>1
  <2>3. /\ d \in Tables /\ open \in Editor /\ id \in Note /\ Stored(d, id)
        /\ open.body \in Seq(Unit) /\ Known(d, open.body) /\ Reads(d, c, id, open.body)
    BY <1>2 DEF Texts, EditorText, Editor, Reads
  <2>4. /\ p.db \in Tables /\ p.db.notes = d.notes /\ p.body \in Seq(Unit)
        /\ \A v \in Range(p.body) : v \in Range(open.body) \/ v \in BlocksOf(p.db, id)
        /\ Cardinality(Seals(open.body)) <= 1 => Holds(p.db, id, p.body) = Holds(p.db, id, open.body)
    BY <2>3, BlocksMarked
  <2>5. Beside(d, p.db, {}) /\ Later(d, p.db) /\ Keeps(d, p.db, id)
    <3>1. Beside(d, p.db, {})
      BY <2>3, BlockRows
    <3> QED BY <2>3, <3>1 DEF Beside
  <2>6. /\ Texts(p.db, c)
        /\ \A n \in Note \ {} : Stored(p.db, n) =>
             Stored(d, n) /\ Holds(p.db, n, p.db.notes[n].body) = Holds(d, n, d.notes[n].body)
    BY <2>5, TextsStill
  <2>7. EditorText(p.db, c, open)
    BY <2>5, EditorStill
  <2>8. Reads(p.db, c, id, p.body)
    <3>1. Reads(p.db, c, id, open.body)
      BY <2>7 DEF EditorText
    <3>2. \A b \in BlocksOf(p.db, id) : p.db.blocks[b] # Never /\ b \notin Image
      BY NoteTablesAssumption DEF BlocksOf, IsRow, Never
    <3> QED BY <2>4, <3>1, <3>2, Zenon DEF Reads, Known, Resolves
  <2>9. NoteRow(p.body, folder) \in NoteRows
    BY <2>4 DEF NoteRow, NoteRows
  <2>10. /\ u.db \in Tables /\ u.db.blocks = p.db.blocks
         /\ u.ok \in BOOLEAN /\ (~u.ok => u.db = p.db) /\ (u.ok => u.db.notes[id] = NoteRow(p.body, folder))
         /\ Beside(p.db, u.db, {id}) /\ Keeps(p.db, u.db, id)
    <3>2. p.db \in Tables /\ id \in Note
      BY <2>3, <2>4
    <3> HIDE DEF id
    <3> QED BY <2>2, <2>9, <3>2, RowUpdated
  <2>11. s.db = u.db /\ s.open = [open EXCEPT !.saved = u.ok, !.folder = IF u.ok THEN folder ELSE @]
    BY <2>2
  <2>12. /\ s.open \in Editor /\ s.open.id = id /\ s.open.body = open.body /\ s.open.err = open.err
         /\ s.open.saved = u.ok
    BY <2>3, <2>10, <2>11 DEF Editor
  <2>13. \A n \in Note : n # id => s.db.notes[n] = d.notes[n]
    BY <2>4, <2>10, <2>11 DEF Beside
  <2>14. CASE u.ok
    <3>1. Later(p.db, u.db)
      BY <2>10 DEF Beside
    <3>2. NoteRow(p.body, folder).body = p.body /\ NoteRow(p.body, folder).is = "note"
      BY DEF NoteRow
    <3>3. u.db.notes[id].body = p.body /\ Stored(u.db, id)
      BY <2>10, <2>14, <3>2 DEF Stored
    <3>4. Reads(u.db, c, id, p.body) /\ Reads(u.db, c, id, open.body)
      BY <2>7, <2>8, <2>10, <3>1, ReadsStill DEF EditorText
    <3>5. /\ Texts(u.db, c)
          /\ \A n \in Note : n # id /\ Stored(u.db, n) =>
               Stored(p.db, n) /\ Holds(u.db, n, u.db.notes[n].body) = Holds(p.db, n, p.db.notes[n].body)
      <4>1. Texts(p.db, c) /\ id \in Note /\ Beside(p.db, u.db, {id}) /\ Reads(u.db, c, id, u.db.notes[id].body)
        BY <2>3, <2>6, <2>10, <3>3, <3>4
      <4> HIDE DEF id
      <4> QED BY <4>1, OthersStill
    <3>6. Cardinality(Seals(open.body)) <= 1 => Holds(u.db, id, u.db.notes[id].body) = Holds(u.db, id, open.body)
      BY <2>4, <2>10, <3>3, ReadThroughBlocks
    <3>7. EditorText(u.db, c, s.open)
      BY <2>12, <3>3, <3>4, <3>6 DEF EditorText, Shown
    <3>8. Faithful(d, u.db, open)
      <4> SUFFICES ASSUME NEW n \in Note, Stored(u.db, n),
                          Holds(d, n, d.notes[n].body) # Holds(u.db, n, u.db.notes[n].body)
                   PROVE  id = n /\ (Cardinality(Seals(open.body)) <= 1 =>
                                     Holds(u.db, n, u.db.notes[n].body) = Holds(u.db, n, open.body))
        BY Zenon DEF Faithful
      <4>1. n = id
        BY <2>6, <3>5
      <4> QED BY <3>6, <4>1
    <3> QED BY <2>11, <2>13, <3>5, <3>7, <3>8
  <2>15. CASE ~u.ok
    <3>1. s.db = p.db /\ s.open.saved = FALSE
      BY <2>10, <2>11, <2>12, <2>15
    <3>2. EditorText(s.db, c, s.open)
      BY <2>7, <2>12, <3>1 DEF EditorText, Shown
    <3>3. Faithful(d, s.db, open)
      BY <2>6, <3>1 DEF Faithful
    <3> QED BY <2>6, <2>13, <3>1, <3>2, <3>3
  <2> QED BY <2>10, <2>14, <2>15
<1> QED BY <1>1, <1>2

\* The folder found for the note changes no row.
LEMMA FiledRows ==
  ASSUME NEW c, Texts(db, c), EditorText(db, c, open), NEW f \in Filed
  PROVE  SameRows(db, f.db) /\ f.folder \in Folder \union {None}
<1>1. db \in Tables /\ open \in Editor
  BY DEF Texts, EditorText
<1>2. open.folder \in Folder \union {None} /\ db.default \in Folder \union {None}
  BY <1>1, TablesShape DEF Editor
<1>3. SameRows(db, db)
  BY <1>1 DEF SameRows
<1> DEFINE g == IF open.folder # None THEN open.folder ELSE db.default
<1>4. g \in Folder \union {None}
  BY <1>2
<1>5. f = [folder |-> g, db |-> db] \/ f \in ensureDefaultFolder(db)
  BY DEF Filed
<1> HIDE DEF g
<1> QED BY <1>1, <1>3, <1>4, <1>5, FolderRows

\* A save may start by finding a folder.
LEMMA SavedAfter ==
  ASSUME NEW d, NEW c, Texts(db, c), EditorText(db, c, open), SameRows(db, d),
         NEW folder \in Folder \union {None}, NEW s \in NoteSaves(d, folder)
  PROVE  /\ Texts(s.db, c) /\ EditorText(s.db, c, s.open) /\ Faithful(db, s.db, open)
         /\ \A n \in Note : n # open.id => s.db.notes[n] = db.notes[n]
<1>1. Beside(db, d, {})
  BY BesideSameRows
<1>2. Texts(d, c) /\ EditorText(d, c, open)
  BY <1>1, TextsStill, EditorStill
<1>3. /\ Texts(s.db, c) /\ EditorText(s.db, c, s.open) /\ Faithful(d, s.db, open)
      /\ \A n \in Note : n # open.id => s.db.notes[n] = d.notes[n]
  BY <1>2, NoteSavedText
<1>4. d.notes = db.notes /\ \A n, body : Holds(d, n, body) = Holds(db, n, body)
  BY ReadThroughBlocks DEF SameRows
<1> QED BY <1>3, <1>4 DEF Faithful, Stored

\* saveCurrentNote into the folder it files the note under.
LEMMA SavesText ==
  ASSUME NEW c, Texts(db, c), EditorText(db, c, open), NEW s \in Saves
  PROVE  /\ Texts(s.db, c) /\ EditorText(s.db, c, s.open) /\ Faithful(db, s.db, open)
         /\ \A n \in Note : n # open.id => s.db.notes[n] = db.notes[n]
<1>1. PICK f \in Filed : s \in NoteSaves(f.db, f.folder)
  BY DEF Saves
<1> QED BY <1>1, FiledRows, SavedAfter

\* A row that was not there is written, or nothing.
LEMMA NewRow ==
  ASSUME NEW d, NEW c, Texts(d, c), NEW n \in Note, d.notes[n] = Never, NEW row \in NoteRows,
         NEW r \in createNote(d, n, row), NEW cc, c \subseteq cc, r.ok => Reads(r.db, cc, n, row.body), NEW o
  PROVE  /\ Texts(r.db, cc) /\ Faithful(d, r.db, o) /\ Beside(d, r.db, {n})
         /\ r.ok \in BOOLEAN /\ (r.ok => Exists(r.db, n)) /\ (~r.ok => r.db = d)
<1>1. d \in Tables
  BY DEF Texts
<1>2. /\ r.db \in Tables /\ r.db.blocks = d.blocks /\ r.db.images = d.images
      /\ r.ok \in BOOLEAN /\ (~r.ok => r.db = d) /\ (r.ok => r.db.notes[n] = row)
      /\ Beside(d, r.db, {n}) /\ Keeps(d, r.db, n)
  <2>1. r \in createNote(d, n, row)
    OBVIOUS
  <2>2. \A q \in createNote(d, n, row) :
         /\ q.db \in Tables /\ q.db.blocks = d.blocks /\ q.db.images = d.images
         /\ q.ok \in BOOLEAN /\ (~q.ok => q.db = d) /\ (q.ok => q.db.notes[n] = row)
         /\ Beside(d, q.db, {n}) /\ Keeps(d, q.db, n)
    BY <1>1, RowCreated
  <2> QED BY <2>1, <2>2
<1>3. ~Stored(d, n) /\ (r.ok => Exists(r.db, n))
  BY <1>2 DEF Stored, Never, NoteRows, Exists, IsRow
<1>4. Stored(r.db, n) => Reads(r.db, cc, n, r.db.notes[n].body) /\ ~Stored(d, n)
  BY <1>2, <1>3
<1>5. Texts(r.db, cc) /\ Faithful(d, r.db, o)
  <2> DEFINE e == r.db
  <2>1. Beside(d, e, {n}) /\ (Stored(e, n) => Reads(e, cc, n, e.notes[n].body) /\ ~Stored(d, n))
    BY <1>2, <1>4
  <2> HIDE DEF e
  <2>2. Texts(e, cc) /\ Faithful(d, e, o)
    BY <2>1, OneWritten
  <2> QED BY <2>2 DEF e
<1> QED BY <1>2, <1>3, <1>5

\* A copy refers to what was created for the original.
LEMMA CopyRow ==
  ASSUME NEW d, NEW c, Texts(d, c), NEW n \in Note, Exists(d, n), d.notes[n] # Damaged,
         NEW copy \in Note, d.notes[copy] = Never, NEW r \in createNote(d, copy, d.notes[n]), NEW o
  PROVE  /\ r.ok => /\ Texts(r.db, c \union {copy})
                    /\ EditorText(r.db, c \union {copy}, Loaded(r.db, copy))
                    /\ Faithful(d, r.db, o)
         /\ ~r.ok => r.db = d
<1> DEFINE row == d.notes[n]
           e == r.db
           cc == c \union {copy}
<1>1. d \in Tables /\ row \in NoteRows
  <2>1. d \in Tables
    BY DEF Texts
  <2> QED BY <2>1, TablesShape DEF Exists, IsRow, Never, Gone
<1>2. Known(d, row.body)
  BY <1>1 DEF Texts, Reads, Stored, NoteRows
<1>3. r = [ok |-> FALSE, db |-> d] \/ (r.ok /\ e = [d EXCEPT !.notes[copy] = row])
  BY DEF createNote
<1>4. ~r.ok => e = d
  BY <1>3
<1> SUFFICES ASSUME r.ok
             PROVE  Texts(e, cc) /\ EditorText(e, cc, Loaded(e, copy)) /\ Faithful(d, e, o)
  BY <1>4
<1> HIDE DEF row
<1>5. r \in createNote(d, copy, row)
  BY DEF row
<1> HIDE DEF e
<1>6. Beside(d, e, {copy}) /\ e.notes[copy] = row
  <2>1. \A q \in createNote(d, copy, row) :
         /\ q.db \in Tables /\ q.db.blocks = d.blocks /\ q.db.images = d.images
         /\ q.ok \in BOOLEAN /\ (~q.ok => q.db = d) /\ (q.ok => q.db.notes[copy] = row)
         /\ Beside(d, q.db, {copy}) /\ Keeps(d, q.db, copy)
    BY <1>1, RowCreated
  <2> QED BY <1>5, <2>1 DEF e
<1>7. Reads(e, cc, copy, row.body)
  BY <1>2, <1>6 DEF Beside, Later, Known, Reads
<1>8. ~Stored(d, copy) /\ Stored(e, copy) /\ Exists(e, copy)
  BY <1>1, <1>6 DEF Stored, Never, NoteRows, Exists, IsRow
<1>9. c \subseteq cc
  OBVIOUS
<1> HIDE DEF cc
<1>10. Texts(e, cc) /\ Faithful(d, e, o)
  BY <1>6, <1>7, <1>8, <1>9, OneWritten
<1> QED BY <1>8, <1>10, LoadedText

\* A body of one word.
LEMMA WordRow ==
  ASSUME NEW d \in Tables, NEW w \in Word
  PROVE  NoteRow(<<w>>, d.default) \in NoteRows /\ \A e, c, n : Reads(e, c, n, NoteRow(<<w>>, d.default).body)
<1>1. <<w>> \in Seq(Unit) /\ Range(<<w>>) \subseteq Word \union Secret
  BY DEF Range, Unit
<1>2. d.default \in Folder \union {None}
  BY TablesShape
<1>3. NoteRow(<<w>>, d.default) \in NoteRows /\ NoteRow(<<w>>, d.default).body = <<w>>
  BY <1>1, <1>2 DEF NoteRow, NoteRows
<1> QED BY <1>1, <1>3, WordsRead

\* The image just stored for a note is one that its text may refer to.
LEMMA ImageRead ==
  ASSUME NEW d, NEW c, NEW n, NEW i \in Image, d.images[i] = ImageRow(n)
  PROVE  Reads(d, c, n, <<i>>)
<1>1. Range(<<i>>) = {i} /\ i \notin Block
  BY NoteTablesAssumption DEF Range
<1>2. ImageRow(n) # Never
  BY DEF ImageRow, Never
<1> QED BY <1>1, <1>2 DEF Reads, Known, Resolves

\* What a handler of the main window does to the texts.
LEMMA DeskTexts ==
  ASSUME Texts(db, copies), EditorOf(db, open), EditorText(db, copies, open), copies \subseteq Note,
         unlocked \in BOOLEAN, DeskNext
  PROVE  /\ Texts(db', copies') /\ EditorText(db', copies', open') /\ Faithful(db, db', open)
         /\ copies' \subseteq Note /\ unlocked' \in BOOLEAN
<1> DEFINE Goal == /\ Texts(db', copies') /\ EditorText(db', copies', open') /\ Faithful(db, db', open)
                   /\ copies' \subseteq Note /\ unlocked' \in BOOLEAN
<1>0. db \in Tables /\ open \in Editor /\ Faithful(db, db, open)
  BY DEF Texts, EditorText, Faithful
<1>1. CASE onTextChanged
  <2>1. /\ open.id # None /\ UNCHANGED <<db, unlocked, copies>>
        /\ \/ \E part \in {<<w>> : w \in Word} \union {Typed(s) : s \in Secret} :
                open' = [open EXCEPT !.body = @ \o part, !.saved = FALSE]
           \/ open' = [open EXCEPT !.body = <<>>, !.saved = FALSE]
    BY <1>1 DEF onTextChanged
  <2>2. \A part \in {<<w>> : w \in Word} \union {Typed(s) : s \in Secret} :
          part \in Seq(Unit) /\ Range(part) \subseteq Word \union Secret
    <3>1. \A w \in Word : <<w>> \in Seq(Unit) /\ Range(<<w>>) \subseteq Word \union Secret
      BY DEF Range, Unit
    <3>2. ASSUME NEW s \in Secret PROVE Typed(s) \in Seq(Unit) /\ Range(Typed(s)) \subseteq Word \union Secret
      <4>1. BlockWidth \in Nat /\ s \in Unit
        BY NoteTablesAssumption DEF Unit
      <4>2. [i \in 1..BlockWidth |-> s] \in Seq(Unit)
        BY <4>1
      <4>3. \A i \in DOMAIN [j \in 1..BlockWidth |-> s] : [j \in 1..BlockWidth |-> s][i] = s
        OBVIOUS
      <4> QED BY <4>2, <4>3, Zenon DEF Typed, Range
    <3> QED BY <3>1, <3>2
  <2>3. PICK body \in Seq(Unit) :
          Reads(db, copies, open.id, body) /\ open' = [open EXCEPT !.body = body, !.saved = FALSE]
    <3>1. open.body \in Seq(Unit) /\ Reads(db, copies, open.id, open.body)
      BY <1>0 DEF EditorText, Editor
    <3>2. ASSUME NEW part \in {<<w>> : w \in Word} \union {Typed(s) : s \in Secret}
          PROVE  open.body \o part \in Seq(Unit) /\ Reads(db, copies, open.id, open.body \o part)
      BY <2>2, <3>1, WordsRead, TypedRead
    <3> QED BY <2>1, <3>2, NothingRead
  <2>4. /\ open' \in Editor /\ open'.id = open.id /\ open'.body = body /\ open'.err = open.err
        /\ open'.saved = FALSE
    BY <1>0, <2>3 DEF Editor
  <2>5. EditorText(db, copies, open')
    BY <2>3, <2>4 DEF EditorText, Shown
  <2> QED BY <1>0, <2>1, <2>5
<1>2. CASE onSaveNote
  BY <1>2, SavesText DEF onSaveNote
<1>3. CASE onSaveAndClose
  <2>1. PICK f \in Filed, folder \in db.folders \union {Inbox} :
          /\ folder \in f.db.folders
          /\ \E default \in {f.db.default, folder} :
             \E s \in NoteSaves([f.db EXCEPT !.default = default], folder) :
               db' = s.db /\ open' = IF s.ok /\ ~open.err THEN Closed ELSE s.open
    BY <1>3 DEF onSaveAndClose
  <2>2. PICK default \in {f.db.default, folder} :
             \E s \in NoteSaves([f.db EXCEPT !.default = default], folder) :
               db' = s.db /\ open' = IF s.ok /\ ~open.err THEN Closed ELSE s.open
    BY <2>1
  <2>3. SameRows(db, f.db) /\ f.db \in Tables
    BY FiledRows DEF SameRows
  <2>4. folder \in Folder \union {None} /\ default \in Folder \union {None}
    BY <2>1, <2>3, TablesShape
  <2> DEFINE d == [f.db EXCEPT !.default = default]
  <2>5. SameRows(f.db, d)
    BY <2>3, <2>4, FoldersOnly
  <2>6. PICK s \in NoteSaves(d, folder) : db' = s.db /\ open' = IF s.ok /\ ~open.err THEN Closed ELSE s.open
    BY <2>2
  <2> HIDE DEF d
  <2>7. SameRows(db, d)
    BY <2>3, <2>5 DEF SameRows
  <2>8. /\ Texts(s.db, copies) /\ EditorText(s.db, copies, s.open) /\ Faithful(db, s.db, open)
        /\ EditorText(s.db, copies, Closed)
    BY <2>4, <2>7, SavedAfter, ClosedText
  <2> QED BY <1>3, <2>6, <2>8 DEF onSaveAndClose
<1>4. ASSUME NEW n \in Note, onNoteSelected(n) PROVE Goal
  <2>1. CASE open.id \in {None, n}
    BY <1>0, <1>4, <2>1, LoadedText DEF onNoteSelected
  <2>2. CASE open.id \notin {None, n}
    <3>1. PICK s \in Saves : db' = s.db /\ open' = Loaded(s.db, n)
      BY <1>4, <2>2 DEF onNoteSelected
    <3>2. /\ Texts(s.db, copies) /\ Faithful(db, s.db, open) /\ s.db.notes[n] = db.notes[n]
      BY <2>2, SavesText
    <3>3. Exists(s.db, n)
      BY <1>4, <3>2 DEF onNoteSelected, Exists
    <3>4. EditorText(s.db, copies, Loaded(s.db, n))
      BY <3>2, <3>3, LoadedText
    <3> QED BY <1>4, <3>1, <3>2, <3>4 DEF onNoteSelected
  <2> QED BY <2>1, <2>2
<1>5. ASSUME NEW n \in Note, removeNote(n) PROVE Goal
  <2> DEFINE e == deleteNote(db, n)
  <2>1. /\ db' \in {db, e} /\ UNCHANGED <<unlocked, copies>>
        /\ open' = IF open.id = n THEN [open EXCEPT !.id = None, !.body = <<>>] ELSE open
    BY <1>5 DEF removeNote
  <2>2. Beside(db, e, {n}) /\ e.notes[n] = Gone
    BY <1>0, RowsDeleted
  <2> HIDE DEF e
  <2>3. ~Stored(e, n)
    BY <2>2 DEF Stored, Gone
  <2>4. copies \subseteq copies
    OBVIOUS
  <2>5. Texts(e, copies) /\ Faithful(db, e, open)
    BY <2>2, <2>3, <2>4, OneWritten
  <2>6. CASE open.id = n
    <3>1. open' = [open EXCEPT !.id = None, !.body = <<>>]
      BY <2>1, <2>6
    <3>2. open' \in Editor /\ open'.id = None /\ open'.body = <<>>
      BY <1>0, <3>1, NothingRead DEF Editor
    <3>3. \A d : EditorText(d, copies, open')
      BY <3>2, NothingRead DEF EditorText, Shown
    <3> QED BY <1>0, <2>1, <2>5, <3>3
  <2>7. CASE open.id # n
    <3>1. EditorText(e, copies, open)
      BY <2>2, <2>7, EditorStill
    <3> QED BY <1>0, <2>1, <2>5, <2>7, <3>1
  <2> QED BY <2>6, <2>7
<1>6. ASSUME NEW n \in Note, NEW w \in Word, onNewNote(n, w) \/ onImportMarkdown(n, w) PROVE Goal
  <2> DEFINE row == NoteRow(<<w>>, db.default)
  <2>1. PICK r \in createNote(db, n, row) :
          /\ db' = r.db /\ UNCHANGED <<unlocked, copies>> /\ db.notes[n] = Never
          /\ open' = open \/ (r.ok /\ open' = Loaded(r.db, n))
    BY <1>6 DEF onNewNote, onImportMarkdown
  <2>2. row \in NoteRows /\ \A e, c : Reads(e, c, n, row.body)
    BY <1>0, WordRow
  <2> HIDE DEF row
  <2>3. /\ Texts(r.db, copies) /\ Faithful(db, r.db, open) /\ Beside(db, r.db, {n})
        /\ (r.ok => Exists(r.db, n))
    <3>1. copies \subseteq copies /\ Reads(r.db, copies, n, row.body)
      BY <2>2
    <3> QED BY <2>1, <2>2, <3>1, NewRow
  <2>4. r.ok => EditorText(r.db, copies, Loaded(r.db, n))
    BY <2>3, LoadedText
  <2>5. open.id # n
    BY <2>1, NoteTablesAssumption DEF EditorOf, Exists, IsRow, Never
  <2>6. EditorText(r.db, copies, open)
    BY <2>3, <2>5, EditorStill
  <2> QED BY <2>1, <2>3, <2>4, <2>6
<1>7. ASSUME NEW n \in Note, NEW copy \in Note, duplicateNote(n, copy) PROVE Goal
  <2>1. PICK r \in createNote(db, copy, db.notes[n]) :
          /\ db' = r.db /\ open' = IF r.ok THEN Loaded(r.db, copy) ELSE open
          /\ copies' = IF r.ok THEN copies \union {copy} ELSE copies
    BY <1>7 DEF duplicateNote, duplicateNoteWithAttachments
  <2>2. unlocked' = unlocked /\ Exists(db, n) /\ db.notes[n] # Damaged /\ db.notes[copy] = Never
    BY <1>7 DEF duplicateNote
  <2>3. /\ r.ok => /\ Texts(r.db, copies \union {copy})
                   /\ EditorText(r.db, copies \union {copy}, Loaded(r.db, copy))
                   /\ Faithful(db, r.db, open)
        /\ ~r.ok => r.db = db
    BY <2>2, CopyRow
  <2>4. CASE r.ok
    BY <2>1, <2>2, <2>3, <2>4
  <2>5. CASE ~r.ok
    BY <1>0, <2>1, <2>2, <2>3, <2>5
  <2> QED BY <2>4, <2>5
<1>8. ASSUME NEW i \in Image, onInsertImage(i) PROVE Goal
  <2>1. PICK s \in storeAttachment(db, i, open.id) :
          /\ db' = s.db /\ UNCHANGED <<unlocked, copies>>
          /\ open' = IF s.ok THEN [open EXCEPT !.body = Append(@, i), !.saved = FALSE] ELSE open
    BY <1>8 DEF onInsertImage
  <2>2. open.id \in Note
    BY <1>0, <1>8 DEF onInsertImage, Editor
  <2>3. Beside(db, s.db, {}) /\ (s.ok => s.db.images[i] = ImageRow(open.id)) /\ s.ok \in BOOLEAN
    BY <1>0, <2>2, ImageRows
  <2>4. Texts(s.db, copies) /\ Faithful(db, s.db, open) /\ EditorText(s.db, copies, open)
    BY <2>3, NoneWritten
  <2>5. CASE s.ok
    <3>1. i \in Unit /\ open.body \in Seq(Unit)
      BY <1>0 DEF Unit, Editor
    <3>2. Reads(s.db, copies, open.id, <<i>>) /\ Reads(s.db, copies, open.id, open.body)
      BY <2>3, <2>4, <2>5, ImageRead DEF EditorText
    <3>3. Append(open.body, i) \in Seq(Unit) /\ Reads(s.db, copies, open.id, Append(open.body, i))
      BY <3>1, <3>2, AppendRead
    <3>4. /\ open' \in Editor /\ open'.id = open.id /\ open'.body = Append(open.body, i)
          /\ open'.err = open.err /\ open'.saved = FALSE
      BY <1>0, <2>1, <2>5, <3>3 DEF Editor
    <3>5. EditorText(s.db, copies, open')
      BY <2>4, <3>3, <3>4 DEF EditorText, Shown
    <3> QED BY <2>1, <2>4, <3>5
  <2>6. CASE ~s.ok
    BY <2>1, <2>4, <2>6
  <2> QED BY <2>5, <2>6
<1>9. ASSUME NEW d, SameRows(db, d), db' = d, open' = open, copies' = copies, unlocked' \in BOOLEAN
      PROVE  Goal
  <2>1. Beside(db, d, {})
    BY <1>9, BesideSameRows
  <2>2. Texts(d, copies) /\ Faithful(db, d, open) /\ EditorText(d, copies, open)
    BY <2>1, NoneWritten
  <2> QED BY <1>9, <2>2
<1>10. ASSUME NEW f \in Folder, onNewFolder(f) PROVE Goal
  BY <1>0, <1>9, <1>10, FolderRows DEF onNewFolder
<1>11. CASE onLockVault
  BY <1>11, SavesText, ClosedText DEF onLockVault
<1>12. CASE onVaultUnlocked
  BY <1>0, <1>9, <1>12, FolderRows DEF onVaultUnlocked
<1>13. CASE Exit
  BY <1>0, <1>13, ClosedText DEF Exit
<1> QED BY <1>1, <1>2, <1>3, <1>4, <1>5, <1>6, <1>7, <1>8, <1>10, <1>11, <1>12, <1>13 DEF DeskNext

----------------------------------------------------------------------------
(* The phone's texts.                                                      *)

\* WrittenIsTyped, of one step and a screen.
PhoneFaithful(d, e, s) ==
  \A n \in Note :
    Stored(d, n) /\ Stored(e, n) /\ Holds(d, n, d.notes[n].body) # Holds(e, n, e.notes[n].body) =>
    s.id = n /\ Holds(e, n, e.notes[n].body) = Holds(e, n, s.body)

\* A new screen shows nothing.
LEMMA BlankText == \A d, c : ScreenText(d, c, Blank)
<1>1. Blank \in Screen /\ Blank.body = <<>>
  BY NothingRead DEF Blank, Screen
<1> QED BY <1>1, NothingRead DEF ScreenText

\* The editor of no note may be left out of what a step is faithful to.
LEMMA PhoneFaithfulIf ==
  ASSUME NEW d, NEW e, Faithful(d, e, Closed), NEW s
  PROVE  PhoneFaithful(d, e, s)
<1>1. \A n \in Note : Closed.id # n
  BY NoteTablesAssumption DEF Closed
<1> QED BY <1>1 DEF Faithful, PhoneFaithful

\* The image just stored is referred to by its note's text.
LEMMA AttachText ==
  ASSUME NEW d, NEW c, Texts(d, c), NEW s, ScreenText(d, c, s), NEW i \in Image, NEW n \in Note,
         NEW o, o \in storeAttachment(d, i, n)
  PROVE  /\ Texts(o.db, c) /\ PhoneFaithful(d, o.db, s)
         /\ ScreenText(o.db, c, IF o.ok /\ s.id = n THEN [s EXCEPT !.body = Append(@, i)] ELSE s)
<1> DEFINE e == o.db
<1>1. d \in Tables /\ s \in Screen
  BY DEF Texts, ScreenText
<1>2. /\ Beside(d, e, {}) /\ (o.ok => e.images[i] = ImageRow(n)) /\ o.ok \in BOOLEAN
      /\ \A m \in Note : Keeps(d, e, m)
  BY <1>1, ImageRows
<1> HIDE DEF e
<1>3. Texts(e, c) /\ Faithful(d, e, Closed)
  BY <1>2, NoneWritten
<1>4. PhoneFaithful(d, e, s)
  BY <1>3, PhoneFaithfulIf
<1>5. ScreenText(e, c, s)
  <2>1. Later(d, e)
    BY <1>2 DEF Beside
  <2> QED BY <1>2, <2>1, ScreenStill
<1>6. CASE o.ok /\ s.id = n
  <2> DEFINE t == [s EXCEPT !.body = Append(@, i)]
  <2>1. i \in Unit /\ s.body \in Seq(Unit)
    BY <1>1 DEF Unit, Screen
  <2>2. Reads(e, c, n, <<i>>) /\ Reads(e, c, n, s.body)
    BY <1>2, <1>5, <1>6, ImageRead DEF ScreenText
  <2>3. Append(s.body, i) \in Seq(Unit) /\ Reads(e, c, n, Append(s.body, i))
    BY <2>1, <2>2, AppendRead
  <2>4. t \in Screen /\ t.id = n /\ t.body = Append(s.body, i)
    BY <1>1, <1>6, <2>3 DEF Screen
  <2> HIDE DEF t
  <2>5. ScreenText(e, c, t)
    BY <2>3, <2>4 DEF ScreenText
  <2> QED BY <1>3, <1>4, <1>6, <2>5 DEF e, t
<1>7. CASE ~(o.ok /\ s.id = n)
  BY <1>3, <1>4, <1>5, <1>7 DEF e
<1> QED BY <1>6, <1>7

\* What a call of the phone's controller does to the texts.
LEMMA PhoneTexts ==
  ASSUME Texts(db, copies), ScreenText(db, copies, screen), unlocked \in BOOLEAN,
         {camera, pending, setting} \subseteq Note \union {None}, PhoneNext
  PROVE  /\ Texts(db', copies') /\ ScreenText(db', copies', screen') /\ PhoneFaithful(db, db', screen)
         /\ copies' = copies /\ unlocked' \in BOOLEAN
         /\ {camera', pending', setting'} \subseteq Note \union {None}
<1> DEFINE Goal == /\ Texts(db', copies') /\ ScreenText(db', copies', screen')
                   /\ PhoneFaithful(db, db', screen)
                   /\ copies' = copies /\ unlocked' \in BOOLEAN
                   /\ {camera', pending', setting'} \subseteq Note \union {None}
<1>0. db \in Tables /\ screen \in Screen /\ PhoneFaithful(db, db, screen) /\ copies \subseteq copies
  BY DEF Texts, ScreenText, PhoneFaithful
<1>1. CASE phoneUnlock \/ phoneLock \/ PhoneExit
  <2>1. /\ db' = db /\ copies' = copies /\ screen' = Blank /\ unlocked' \in BOOLEAN
        /\ {camera', pending', setting'} \subseteq Note \union {None}
    BY <1>1 DEF phoneUnlock, phoneLock, PhoneExit
  <2> QED BY <1>0, <2>1, BlankText
<1>2. CASE launchCamera \/ cancelCamera
  <2>1. /\ db' = db /\ copies' = copies /\ screen' = screen /\ unlocked' = unlocked
        /\ {camera', pending', setting'} \subseteq Note \union {None}
    BY <1>0, <1>2 DEF launchCamera, cancelCamera, Screen
  <2> QED BY <1>0, <2>1
<1>3. CASE edit
  <2>1. PICK body : /\ screen' = [screen EXCEPT !.body = body]
                    /\ body = <<>> \/ \E w \in Word : body = Append(screen.body, w)
    BY <1>3 DEF edit
  <2>2. body \in Seq(Unit) /\ Reads(db, copies, screen.id, body)
    <3>1. CASE body = <<>>
      BY <3>1, NothingRead
    <3>2. ASSUME NEW w \in Word, body = Append(screen.body, w)
          PROVE  body \in Seq(Unit) /\ Reads(db, copies, screen.id, body)
      <4>1. Range(<<w>>) \subseteq Word \union Secret
        BY DEF Range
      <4>2. Reads(db, copies, screen.id, <<w>>) /\ w \in Unit
        BY <4>1, WordsRead DEF Unit
      <4>3. screen.body \in Seq(Unit) /\ Reads(db, copies, screen.id, screen.body)
        BY <1>0 DEF Screen, ScreenText
      <4> QED BY <3>2, <4>2, <4>3, AppendRead
    <3> QED BY <2>1, <3>1, <3>2
  <2>3. screen' \in Screen /\ screen'.id = screen.id /\ screen'.body = body
    BY <1>0, <2>1, <2>2 DEF Screen
  <2>4. UNCHANGED <<db, unlocked, copies, camera, pending, setting>>
    BY <1>3 DEF edit
  <2> QED BY <1>0, <2>2, <2>3, <2>4 DEF ScreenText
<1>4. CASE saveNoteEx
  <2> DEFINE id == screen.id
             row == NoteRow(screen.body, screen.folder)
  <2>1. PICK u \in updateNote(db, id, row) : db' = u.db
    BY <1>4 DEF saveNoteEx
  <2>2. UNCHANGED <<unlocked, copies, screen, camera, pending, setting>>
    BY <1>4 DEF saveNoteEx, phoneVars
  <2>3. id \in Note /\ row \in NoteRows /\ row.body = screen.body
    BY <1>0, <1>4 DEF saveNoteEx, Screen, NoteRow, NoteRows
  <2> HIDE DEF row
  <2>4. \A q \in updateNote(db, id, row) :
          /\ q.db \in Tables /\ q.db.blocks = db.blocks /\ q.db.images = db.images
          /\ q.ok \in BOOLEAN /\ (~q.ok => q.db = db) /\ (q.ok => q.db.notes[id] = row)
          /\ Beside(db, q.db, {id}) /\ Keeps(db, q.db, id)
    <3> HIDE DEF id
    <3> QED BY <1>0, <2>3, RowUpdated
  <2> DEFINE e == u.db
  <2>5. /\ (e = db \/ e.notes[id] = row) /\ Beside(db, e, {id}) /\ Keeps(db, e, id)
    BY <2>1, <2>4
  <2> HIDE DEF e
  <2>6. CASE e = db
    BY <1>0, <2>1, <2>2, <2>6 DEF e
  <2>7. CASE e.notes[id] = row
    <3>1. ScreenText(e, copies, screen)
      <4>1. Later(db, e)
        BY <2>5 DEF Beside
      <4> QED BY <2>5, <4>1, ScreenStill
    <3>2. Reads(e, copies, id, e.notes[id].body)
      BY <2>3, <2>7, <3>1 DEF ScreenText
    <3>3. /\ Texts(e, copies)
          /\ \A m \in Note : m # id /\ Stored(e, m) =>
               Stored(db, m) /\ Holds(e, m, e.notes[m].body) = Holds(db, m, db.notes[m].body)
      BY <2>3, <2>5, <3>2, OthersStill
    <3>4. PhoneFaithful(db, e, screen)
      BY <2>3, <2>7, <3>3 DEF PhoneFaithful
    <3> QED BY <2>1, <2>2, <3>1, <3>3, <3>4 DEF e
  <2> QED BY <2>5, <2>6, <2>7
<1>5. CASE phoneDeleteNote
  <2> DEFINE e == deleteNote(db, screen.id)
  <2>1. /\ db' \in {db, e} /\ UNCHANGED <<unlocked, copies, camera, pending, setting>>
        /\ screen' = Blank /\ screen.id \in Note
    BY <1>0, <1>5 DEF phoneDeleteNote, Screen
  <2>2. Beside(db, e, {screen.id}) /\ e.notes[screen.id] = Gone
    BY <1>0, <2>1, RowsDeleted
  <2> HIDE DEF e
  <2>3. ~Stored(e, screen.id)
    BY <2>2 DEF Stored, Gone
  <2>4. Texts(e, copies) /\ Faithful(db, e, Closed)
    BY <1>0, <2>1, <2>2, <2>3, OneWritten
  <2>5. PhoneFaithful(db, e, screen)
    BY <2>4, PhoneFaithfulIf
  <2> QED BY <1>0, <2>1, <2>4, <2>5, BlankText
<1>6. ASSUME NEW n \in Note, newNote(n) PROVE Goal
  <2> DEFINE row == NoteRow(<<>>, None)
  <2>1. PICK r \in createNote(db, n, row) :
          /\ db' = r.db /\ screen' = [screen EXCEPT !.id = IF r.ok THEN n ELSE None, !.body = <<>>]
    BY <1>6 DEF newNote
  <2>2. UNCHANGED <<unlocked, copies, camera, pending, setting>> /\ db.notes[n] = Never
    BY <1>6 DEF newNote
  <2>3. row \in NoteRows /\ row.body = <<>>
    BY NothingRead DEF NoteRow, NoteRows
  <2> HIDE DEF row
  <2>4. Texts(r.db, copies) /\ Faithful(db, r.db, Closed)
    <3>1. r.ok => Reads(r.db, copies, n, row.body)
      BY <2>3, NothingRead
    <3> QED BY <1>0, <2>1, <2>2, <2>3, <3>1, NewRow
  <2>5. PhoneFaithful(db, r.db, screen)
    BY <2>4, PhoneFaithfulIf
  <2>6. screen' \in Screen /\ screen'.body = <<>>
    BY <1>0, <2>1, NothingRead DEF Screen
  <2>7. ScreenText(r.db, copies, screen')
    BY <2>6, NothingRead DEF ScreenText
  <2> QED BY <2>1, <2>2, <2>4, <2>5, <2>7
<1>7. ASSUME NEW n \in Note, openNote(n) PROVE Goal
  <2>1. UNCHANGED <<db, unlocked, copies, camera, pending, setting>> /\ Exists(db, n)
    BY <1>7 DEF openNote
  <2>2. CASE db.notes[n] = Damaged
    <3>1. screen' = [Blank EXCEPT !.id = n]
      BY <1>7, <2>2 DEF openNote
    <3>2. screen' \in Screen /\ screen'.body = <<>>
      BY <3>1, NothingRead DEF Blank, Screen
    <3>3. ScreenText(db, copies, screen')
      BY <3>2, NothingRead DEF ScreenText
    <3> QED BY <1>0, <2>1, <3>3
  <2>3. CASE db.notes[n] # Damaged
    <3>1. screen' = [id |-> n, body |-> db.notes[n].body, folder |-> db.notes[n].folder]
      BY <1>7, <2>3 DEF openNote
    <3>2. db.notes[n] \in NoteRows
      BY <1>0, <2>1, <2>3, TablesShape DEF Exists, IsRow, Never, Gone
    <3>3. screen' \in Screen /\ screen'.id = n /\ screen'.body = db.notes[n].body
      BY <3>1, <3>2 DEF NoteRows, Screen
    <3>4. Stored(db, n)
      BY <3>2 DEF NoteRows, Stored
    <3>5. ScreenText(db, copies, screen')
      BY <3>3, <3>4 DEF Texts, ScreenText
    <3> QED BY <1>0, <2>1, <3>5
  <2> QED BY <2>2, <2>3
<1>8. ASSUME NEW i \in Image, NEW n \in Note, Attach(i, n)
      PROVE  Texts(db', copies) /\ ScreenText(db', copies, screen') /\ PhoneFaithful(db, db', screen)
  <2>1. PICK s \in storeAttachment(db, i, n) :
          /\ db' = s.db
          /\ screen' = IF s.ok /\ screen.id = n THEN [screen EXCEPT !.body = Append(@, i)] ELSE screen
    BY <1>8 DEF Attach
  <2> QED BY <2>1, AttachText
<1>9. ASSUME NEW i \in Image, insertImage(i) PROVE Goal
  <2>1. screen.id \in Note /\ Attach(i, screen.id) /\ UNCHANGED <<unlocked, copies, camera, pending, setting>>
    BY <1>0, <1>9 DEF insertImage, Screen
  <2> QED BY <1>8, <2>1
<1>10. ASSUME NEW i \in Image, onCameraResult(i) PROVE Goal
  <2> DEFINE n == IF pending # None THEN pending ELSE setting
  <2>1. /\ UNCHANGED <<unlocked, copies>> /\ camera' = None /\ pending' = None /\ setting' = None
        /\ (db' = db /\ screen' = screen) \/ (n # None /\ Attach(i, n))
    BY <1>10 DEF onCameraResult
  <2>2. n \in Note \union {None}
    OBVIOUS
  <2> HIDE DEF n
  <2> QED BY <1>0, <1>8, <2>1, <2>2
<1>11. ASSUME NEW i \in Image, phoneDeleteAttachment(i) PROVE Goal
  <2>1. db' \in deleteAttachment(db, i) /\ UNCHANGED <<unlocked, copies, screen, camera, pending, setting>>
    BY <1>11 DEF phoneDeleteAttachment, phoneVars
  <2> DEFINE e == db'
  <2>2. Beside(db, e, {})
    BY <1>0, <2>1, ImageRows
  <2> HIDE DEF e
  <2>3. Texts(e, copies) /\ Faithful(db, e, Closed)
    BY <2>2, NoneWritten
  <2>4. PhoneFaithful(db, e, screen)
    BY <2>3, PhoneFaithfulIf
  <2>5. \A m \in Note : Keeps(db, e, m)
    BY <2>2 DEF Beside
  <2>6. ScreenText(e, copies, screen)
    BY <2>2, <2>5, ScreenStill DEF Beside
  <2> QED BY <2>1, <2>3, <2>4, <2>6 DEF e
<1> QED BY <1>1, <1>2, <1>3, <1>4, <1>5, <1>6, <1>7, <1>9, <1>10, <1>11 DEF PhoneNext

----------------------------------------------------------------------------
(* The whole.                                                              *)

\* The invariant holds before either front end has opened the vault.
LEMMA Initially == Init => IInv
<1> SUFFICES ASSUME Init PROVE IInv
  OBVIOUS
<1>1. db \in Tables /\ Sound(db)
  BY NotesAssumption DEF Init
<1>2. Shape(db)
  BY <1>1 DEF Tables, Shape
<1>3. \A b \in Block : IsRow(db.blocks[b]) => db.blocks[b].note \in Note
  BY <1>1 DEF Tables, IsRow, Never, Gone
<1>4. \A i \in Image : IsRow(db.images[i]) => db.images[i].note \in Note
  BY <1>1 DEF Tables, IsRow, Never, Gone
<1>5. EditorOf(db, open) /\ ScreenOf(screen) /\ CameraKnown /\ OneFront
  BY ClosedEditor, BlankScreen DEF Init, CameraKnown, OneFront
<1> QED BY <1>1, <1>2, <1>3, <1>4, <1>5 DEF IInv, Good, Owned

\* Each step of the desktop, the phone and the system keeps it.
LEMMA Inductive == IInv /\ [Next]_vars => IInv'
<1> SUFFICES ASSUME IInv, [Next]_vars PROVE IInv'
  OBVIOUS
<1>1. CASE front = "desktop" /\ DeskNext /\ UNCHANGED <<phoneVars, front>>
  <2>1. Good(db') /\ EditorOf(db', open')
    BY <1>1, DeskStep DEF IInv
  <2> QED BY <1>1, <2>1 DEF IInv, phoneVars, ScreenOf, CameraKnown, OneFront
<1>2. CASE front = "phone" /\ PhoneNext /\ UNCHANGED <<open, front>>
  <2>1. Good(db') /\ ScreenOf(screen') /\ CameraKnown'
    BY <1>2, PhoneStep DEF IInv
  <2>2. open = Closed /\ open' = Closed
    BY <1>2 DEF IInv, OneFront
  <2> QED BY <1>2, <2>1, <2>2, ClosedEditor DEF IInv, OneFront
<1>3. CASE UNCHANGED vars
  BY <1>3 DEF vars, phoneVars, IInv, Good, Shape, Owned, Sound, Exists, Stored, EditorOf, ScreenOf,
              CameraKnown, OneFront
<1> QED BY <1>1, <1>2, <1>3 DEF Next

\* However the desktop's and the phone's handlers follow each other, and whatever
\* statement of a repository fails: no sealed block, image, folder or default is left
\* behind by, or lost to, a note (NoteRepository::deleteNote, processBodyForSave,
\* storeAttachment, ensureDefaultFolder).
THEOREM Rows == Spec => []RowsOfNotes
<1>1. IInv => RowsOfNotes
  BY DEF IInv, Good, RowsOfNotes
<1> QED BY <1>1, Initially, Inductive, PTL DEF Spec

\* A photo is stored for the note the camera was opened for, whatever the user opened,
\* locked, deleted or restarted since (GrimVaultController::onCameraResult).
THEOREM Photos == Spec => PhotoGoesHome
<1> DEFINE Home == \A i \in Image :
       camera # None /\ camera' = None /\ db.images[i] = Never /\ db'.images[i] # Never
       => db'.images[i] = ImageRow(camera)
<1>1. IInv /\ [Next]_vars => [Home]_vars
  <2> SUFFICES ASSUME IInv, Next, camera # None, camera' = None,
                      NEW i \in Image, db.images[i] = Never, db'.images[i] # Never
               PROVE  db'.images[i] = ImageRow(camera)
    OBVIOUS
  <2>1. PhoneNext
    BY DEF Next, phoneVars
  <2>2. CASE cancelCamera \/ PhoneExit
    BY <2>2 DEF cancelCamera, PhoneExit
  <2>3. ASSUME NEW j \in Image, onCameraResult(j)
        PROVE  db'.images[i] = ImageRow(camera)
    BY <2>3, PhotoTaken DEF IInv
  <2>4. CASE phoneUnlock \/ phoneLock \/ edit \/ saveNoteEx \/ phoneDeleteNote \/ launchCamera
    BY <2>4 DEF phoneUnlock, phoneLock, edit, saveNoteEx, phoneDeleteNote, launchCamera, phoneVars
  <2>5. ASSUME NEW n \in Note, newNote(n) \/ openNote(n)
        PROVE  FALSE
    BY <2>5 DEF newNote, openNote
  <2>6. ASSUME NEW j \in Image, insertImage(j) \/ phoneDeleteAttachment(j)
        PROVE  FALSE
    BY <2>6 DEF insertImage, phoneDeleteAttachment, phoneVars
  <2> QED BY <2>1, <2>2, <2>3, <2>4, <2>5, <2>6 DEF PhoneNext
<1> QED BY <1>1, Initially, Inductive, PTL DEF Spec, PhotoGoesHome

----------------------------------------------------------------------------
(* What the texts say.                                                     *)

\* What is stored, open or on the screen refers to what there is, and what the editor
\* calls saved is what is stored.  SavedIsHeld alone is not inductive: an image that
\* comes or a block that goes must not change what either text says.
TextInv ==
  /\ Texts(db, copies) /\ EditorText(db, copies, open) /\ ScreenText(db, copies, screen)
  /\ copies \subseteq Note /\ unlocked \in BOOLEAN
  /\ {camera, pending, setting} \subseteq Note \union {None}
  /\ front \in {"desktop", "phone"} /\ (front = "desktop" => screen = Blank)

\* WrittenIsTyped, of one step.
Written ==
  \A n \in Note :
    LET said == Holds(db, n, db.notes[n].body)
        says == Holds(db', n, db'.notes[n].body)
    IN Stored(db, n) /\ Stored(db', n) /\ said # says =>
       \/ open.id = n /\ (Cardinality(Seals(open.body)) <= 1 => says = Holds(db', n, open.body))
       \/ screen.id = n /\ says = Holds(db', n, screen.body)

\* It holds of the vault as it is found: a note that was copied before counts as a copy.
LEMMA TextsInitially == Init => TextInv
<1> SUFFICES ASSUME Init PROVE TextInv
  OBVIOUS
<1>1. db \in Tables /\ Intelligible(db) /\ copies = {n \in Note : Stored(db, n) /\ ~Resolves(db, n, db.notes[n].body)}
  BY NotesAssumption DEF Init
<1>2. Texts(db, copies) /\ copies \subseteq Note
  BY <1>1 DEF Texts, Reads, Intelligible
<1>3. open = Closed /\ screen = Blank /\ camera = None /\ pending = None /\ setting = None
  BY DEF Init
<1>4. EditorText(db, copies, open) /\ ScreenText(db, copies, screen)
  BY <1>3, ClosedText, BlankText
<1>5. unlocked \in BOOLEAN /\ front \in {"desktop", "phone"}
  BY DEF Init
<1> QED BY <1>2, <1>3, <1>4, <1>5 DEF TextInv

\* Each step of either front end keeps it, and changes what a note says only as typed.
LEMMA TextsInductive == IInv /\ TextInv /\ [Next]_vars => TextInv' /\ [Written]_vars
<1> SUFFICES ASSUME IInv, TextInv, [Next]_vars PROVE TextInv' /\ [Written]_vars
  OBVIOUS
<1>1. CASE front = "desktop" /\ DeskNext /\ UNCHANGED <<phoneVars, front>>
  <2>1. /\ Texts(db', copies') /\ EditorText(db', copies', open') /\ Faithful(db, db', open)
        /\ copies' \subseteq Note /\ unlocked' \in BOOLEAN
    BY <1>1, DeskTexts DEF IInv, TextInv
  <2>2. screen' = Blank /\ UNCHANGED <<screen, camera, pending, setting, front>>
    BY <1>1 DEF phoneVars, TextInv
  <2>3. ScreenText(db', copies', screen')
    BY <2>2, BlankText
  <2>4. Written
    BY <2>1, Zenon DEF Faithful, Written
  <2>5. TextInv'
    BY <2>1, <2>2, <2>3 DEF TextInv
  <2> QED BY <2>4, <2>5
<1>2. CASE front = "phone" /\ PhoneNext /\ UNCHANGED <<open, front>>
  <2>1. /\ Texts(db', copies') /\ ScreenText(db', copies', screen') /\ PhoneFaithful(db, db', screen)
        /\ copies' = copies /\ unlocked' \in BOOLEAN
        /\ {camera', pending', setting'} \subseteq Note \union {None}
    BY <1>2, PhoneTexts DEF TextInv
  <2>2. open' = Closed /\ front' = front /\ front # "desktop"
    BY <1>2 DEF IInv, OneFront
  <2>3. EditorText(db', copies', open')
    BY <2>2, ClosedText
  <2>4. Written
    BY <2>1, Zenon DEF PhoneFaithful, Written
  <2>5. TextInv'
    BY <2>1, <2>2, <2>3 DEF TextInv
  <2> QED BY <2>4, <2>5
<1>3. CASE UNCHANGED vars
  <2>1. UNCHANGED <<db, unlocked, copies, open, screen, camera, pending, setting, front>>
    BY <1>3 DEF vars, phoneVars
  <2>2. TextInv'
    BY <2>1 DEF TextInv
  <2> QED BY <1>3, <2>2
<1> QED BY <1>1, <1>2, <1>3 DEF Next

\* The types, for bodies of any length.
THEOREM Types == Spec => []TypeOK
<1>1. TextInv => TypeOK
  BY DEF TextInv, TypeOK, Texts, EditorText, ScreenText
<1> QED BY <1>1, Initially, Inductive, TextsInitially, TextsInductive, PTL DEF Spec

\* Whatever statement of a save fails, and whatever else is created, copied, deleted or
\* attached since: a note that the editor calls saved says, with its blocks revealed,
\* what the editor shows, unless it has two sealed blocks (MainWindow::saveCurrentNote,
\* SealedBlockRepository::processBodyForSave, NoteRepository::updateNote).
THEOREM Saving == Spec => []SavedIsHeld
<1>1. TextInv => SavedIsHeld
  BY DEF TextInv, EditorText, Shown, SavedIsHeld
<1> QED BY <1>1, Initially, Inductive, TextsInitially, TextsInductive, PTL DEF Spec

\* A stored note refers to blocks of its own and to images of its own or deleted since,
\* and a copy of it to what was created, at the desktop and on the phone
\* (processBodyForSave, onInsertImage, insertImageIntoNote, onCameraResult).
THEOREM Referring == Spec => []ReferencesResolve
<1>1. TextInv => ReferencesResolve
  BY DEF TextInv, Texts, Reads, ReferencesResolve, Intelligible
<1> QED BY <1>1, Initially, Inductive, TextsInitially, TextsInductive, PTL DEF Spec

\* What a stored note says changes only while it is open, to what its editor or screen
\* shows: no save before a selection, no copy, deletion or photo touches another
\* note (MainWindow::onNoteSelected, duplicateNoteWithAttachments, saveNoteEx).
THEOREM Typing == Spec => WrittenIsTyped
<1>1. [Written]_vars => [Written]_vars
  OBVIOUS
<1> QED BY <1>1, Initially, Inductive, TextsInitially, TextsInductive, PTL DEF Spec, WrittenIsTyped, Written
=============================================================================
