------------------------------ MODULE Chronicle ------------------------------
(***************************************************************************)
(* The security chronicle: a table of events, each with the hash of the    *)
(* one before, that the window appends to and can check.  appendEvent runs *)
(* three statements without a transaction: it reads the hash of the last   *)
(* row, inserts a row sealed under a placeholder, and seals it again under *)
(* its id.  Any of them may fail, or the process end between two, and no   *)
(* caller looks at the result.  A failed read looks like an empty table.   *)
(* The summary of an entry that does not open is read as empty.            *)
(*                                                                         *)
(* SHA-256 is injective: a hash is the sequence of the events it covers.   *)
(***************************************************************************)
EXTENDS Integers, Sequences

CONSTANTS
  Type,      \* event types
  Summary,   \* what is said of an event
  Empty,     \* the empty summary
  MaxLog,    \* entries the table may get to
  MaxKey     \* keys the vault may have had

ASSUME ChronicleAssumption ==
  /\ Empty \in Summary
  /\ MaxLog \in Nat /\ MaxKey \in Nat \ {0}

VARIABLES
  log,       \* the table security_chronicle, by id
  key,       \* the vault's key: every password change makes a new one
  keys,      \* keys made so far
  unlocked,  \* VaultSession::isUnlocked
  backup,    \* the table and the key in the last backup
  written,   \* history: the events whose row was inserted
  cut,       \* history: an entry with something to say was left under its placeholder
  rekeyed,   \* history: an entry with something to say was left under an old key
  forked     \* history: the last hash was not read, and a second chain begun

vars == <<log, key, keys, unlocked, backup, written, cut, rekeyed, forked>>

Event == [type: Type, summary: Summary]
Key == 1..MaxKey
Pending == 0

Hash == Seq(Event)

\* A row: the summary is sealed under a key, for the row's id or the placeholder.
Entry ==
  [type: Type, summary: Summary, key: Key, aad: Nat, prevHash: Hash, entryHash: Hash]

Vault ==
  [log: Seq(Entry), key: Key, written: Seq(Event),
   cut: BOOLEAN, rekeyed: BOOLEAN, forked: BOOLEAN]

Init ==
  /\ log = <<>> /\ key = 1 /\ keys = 1
  /\ unlocked = FALSE
  /\ written = <<>> /\ cut = FALSE /\ rekeyed = FALSE /\ forked = FALSE
  /\ backup = [log |-> log, key |-> key, written |-> written,
               cut |-> cut, rekeyed |-> rekeyed, forked |-> forked]

----------------------------------------------------------------------------
(* SecurityChronicle.                                                      *)

\* The hash the SELECT returns: of the last row, or the empty one when there is
\* no row or the SELECT fails.
lastEntryHash(rows) ==
  {<<>>} \union {rows[id].entryHash : id \in DOMAIN rows \intersect {Len(rows)}}

computeEntryHash(prevHash, event) == Append(prevHash, event)

\* What an entry says to whoever holds k.
Read(row, id, k) ==
  [type |-> row.type, summary |-> IF row.key = k /\ row.aad = id THEN row.summary ELSE Empty]

\* The hash is not computed again: only the links are checked.
MutVerifyChain(rows, k) ==
  \A id \in DOMAIN rows : rows[id].prevHash = IF id = 1 THEN <<>> ELSE rows[id - 1].entryHash

\* SecurityChronicle::verifyChain, of the rows its SELECT gives it: a step that
\* fails ends the rows, and what came before decides.
verifyChain(rows, k) ==
  \A id \in DOMAIN rows :
    /\ rows[id].prevHash = IF id = 1 THEN <<>> ELSE rows[id - 1].entryHash
    /\ rows[id].entryHash = computeEntryHash(rows[id].prevHash, Read(rows[id], id, k))

\* The row as appendEvent inserts it after prev and, with its own id for aad, as
\* it leaves it.
Row(event, aad, prev) ==
  [type |-> event.type, summary |-> event.summary, key |-> key, aad |-> aad,
   prevHash |-> prev, entryHash |-> computeEntryHash(prev, event)]

\* The row keeps its placeholder.
MutAppendEvent(event) ==
  \/ UNCHANGED <<log, written, cut, forked>>
  \/ /\ Len(log) < MaxLog
     /\ \E prev \in lastEntryHash(log) :
          /\ log' = Append(log, Row(event, Pending, prev))
          /\ forked' = (forked \/ (log # <<>> /\ prev = <<>>))
     /\ written' = Append(written, event)
     /\ UNCHANGED cut

\* SecurityChronicle::appendEvent in an unlocked vault: not inserted; inserted only;
\* inserted and sealed under its id; behind the last row or, its hash unread, behind
\* none.
appendEvent(event) ==
  \/ UNCHANGED <<log, written, cut, forked>>
  \/ /\ Len(log) < MaxLog
     /\ \E aad \in {Pending, Len(log) + 1}, prev \in lastEntryHash(log) :
          /\ log' = Append(log, Row(event, aad, prev))
          /\ cut' = (cut \/ (aad = Pending /\ event.summary # Empty))
          /\ forked' = (forked \/ (log # <<>> /\ prev = <<>>))
     /\ written' = Append(written, event)

----------------------------------------------------------------------------
(* The window.                                                             *)

\* MainWindow::onVaultUnlocked.
onVaultUnlocked ==
  /\ ~unlocked /\ unlocked' = TRUE
  /\ \E e \in Event : appendEvent(e)
  /\ UNCHANGED <<key, keys, backup, rekeyed>>

\* MainWindow::onLockVault: the event first, while there is a key.
onLockVault ==
  /\ unlocked /\ unlocked' = FALSE
  /\ \E e \in Event : appendEvent(e)
  /\ UNCHANGED <<key, keys, backup, rekeyed>>

\* An export, a share, a chamber, a fill or a clip.
record ==
  /\ unlocked
  /\ \E e \in Event : appendEvent(e)
  /\ UNCHANGED <<key, keys, unlocked, backup, rekeyed>>

\* VaultRepository::changeMasterPassword does not touch the table.
changeMasterPassword ==
  /\ unlocked /\ keys < MaxKey
  /\ key' = keys + 1 /\ keys' = keys + 1
  /\ rekeyed' = (rekeyed \/ \E id \in DOMAIN log : log[id].summary # Empty)
  /\ UNCHANGED <<log, unlocked, backup, written, cut, forked>>

\* MainWindow::onBackupVault: the backup does not hold the event that tells of it.
onBackupVault ==
  /\ unlocked
  /\ backup' = [log |-> log, key |-> key, written |-> written,
                cut |-> cut, rekeyed |-> rekeyed, forked |-> forked]
  /\ \E e \in Event : appendEvent(e)
  /\ UNCHANGED <<key, keys, unlocked, rekeyed>>

\* MainWindow::onRestoreVault and finalizeVaultRestore.
onRestoreVault ==
  /\ unlocked /\ unlocked' = FALSE
  /\ log' = backup.log /\ key' = backup.key /\ written' = backup.written
  /\ cut' = backup.cut /\ rekeyed' = backup.rekeyed /\ forked' = backup.forked
  /\ UNCHANGED <<keys, backup>>

\* The process ends.
Exit ==
  /\ unlocked' = FALSE
  /\ UNCHANGED <<log, key, keys, backup, written, cut, rekeyed, forked>>

Next ==
  \/ onVaultUnlocked \/ onLockVault \/ record \/ changeMasterPassword
  \/ onBackupVault \/ onRestoreVault \/ Exit

Spec == Init /\ [][Next]_vars

----------------------------------------------------------------------------
(* Properties.                                                             *)

\* Every variable has its type.
TypeOK ==
  /\ log \in Seq(Entry) /\ Len(log) <= MaxLog
  /\ key \in Key /\ keys \in Key /\ unlocked \in BOOLEAN
  /\ backup \in Vault
  /\ written \in Seq(Event)
  /\ cut \in BOOLEAN /\ rekeyed \in BOOLEAN /\ forked \in BOOLEAN

\* A check that reads the whole table raises three false alarms and no other, and
\* forgets none of them: after failed inserts, lost events, restarts and restores
\* it passes, until an append is cut short after its insert, the password is
\* changed, or the hash of the last entry cannot be read; from then on it fails.
IntactVerifies == verifyChain(log, key) <=> ~cut /\ ~rekeyed /\ ~forked

\* When the check passes for the entries it could read, these are the events that
\* were inserted first, in their order and as they were written.
OkIsWritten ==
  \A n \in 0..Len(log) :
    verifyChain(SubSeq(log, 1, n), key) =>
      \A id \in 1..n : Read(log[id], id, key) = written[id]

\* What makes both true of a table, the live one or the backup's: a row has the
\* content of its event and covers the row before it or, once a chain was forked,
\* perhaps none; it opens with the key under its own id, unless an append was cut
\* short or the password changed.
RowsSound(v) ==
  /\ Len(v.log) = Len(v.written)
  /\ \A id \in DOMAIN v.log :
       LET row == v.log[id] IN
       /\ row.type = v.written[id].type /\ row.summary = v.written[id].summary
       /\ row.entryHash = computeEntryHash(row.prevHash, v.written[id])
       /\ \/ row.prevHash = IF id = 1 THEN <<>> ELSE v.log[id - 1].entryHash
          \/ v.forked /\ row.prevHash = <<>>
       /\ v.cut \/ v.rekeyed \/ row.summary = Empty \/ (row.key = v.key /\ row.aad = id)

\* Each of the three leaves a row behind that the check trips over.
Scarred(v) ==
  /\ v.cut => \E id \in DOMAIN v.log : v.log[id].summary # Empty /\ v.log[id].aad # id
  /\ v.rekeyed => \E id \in DOMAIN v.log : v.log[id].summary # Empty /\ v.log[id].key # v.key
  /\ v.forked => \E id \in DOMAIN v.log : id # 1 /\ v.log[id].prevHash = <<>>

\* No key is older than the keys made so far.
KeysMade(v) == v.key <= keys /\ \A id \in DOMAIN v.log : v.log[id].key <= keys

Sound(v) == RowsSound(v) /\ Scarred(v) /\ KeysMade(v)

Live ==
  [log |-> log, key |-> key, written |-> written,
   cut |-> cut, rekeyed |-> rekeyed, forked |-> forked]

IInv == TypeOK /\ Len(backup.log) <= MaxLog /\ Sound(Live) /\ Sound(backup)
=============================================================================
