-------------------------- MODULE Chronicle_proofs --------------------------
(***************************************************************************)
(* Proofs about Chronicle, for any event types and summaries, a table of   *)
(* any length and any number of keys.                                      *)
(***************************************************************************)
EXTENDS Chronicle, TLAPS

\* Reading any entry gives an event.
LEMMA ReadType ==
  ASSUME NEW row \in Entry, NEW id, NEW k
  PROVE  Read(row, id, k) \in Event
  BY ChronicleAssumption DEF Read, Entry, Event

\* Whatever comes of reading the last hash is a hash, and other than the empty one
\* only when it is the last entry's.
LEMMA LastType ==
  ASSUME NEW rows \in Seq(Entry), NEW prev \in lastEntryHash(rows)
  PROVE  /\ prev \in Hash
         /\ prev = <<>> \/ (Len(rows) # 0 /\ prev = rows[Len(rows)].entryHash)
  <1>1. CASE prev = <<>>
    BY <1>1 DEF Hash
  <1>2. CASE \E id \in DOMAIN rows : id = Len(rows) /\ prev = rows[id].entryHash
    <2>1. Len(rows) \in DOMAIN rows /\ prev = rows[Len(rows)].entryHash
      BY <1>2
    <2>2. rows[Len(rows)] \in Entry /\ Len(rows) # 0
      BY <2>1
    <2>3. QED
      BY <2>1, <2>2 DEF Entry
  <1>3. QED
    BY <1>1, <1>2 DEF lastEntryHash

\* Two hashes that agree cover the same last event: SHA-256 is injective.
LEMMA AppendInjective ==
  ASSUME NEW h \in Hash, NEW e \in Event, NEW f \in Event, Append(h, e) = Append(h, f)
  PROVE  e = f
  <1>1. Append(h, e)[Len(h) + 1] = e /\ Append(h, f)[Len(h) + 1] = f
    BY DEF Hash
  <1>2. QED
    BY <1>1

\* A row to append has the type of a row.
LEMMA RowType ==
  ASSUME TypeOK, NEW e \in Event, NEW aad \in Nat, NEW prev \in Hash
  PROVE  Row(e, aad, prev) \in Entry
  <1>1. Append(prev, e) \in Hash
    BY DEF Hash
  <1>2. e.type \in Type /\ e.summary \in Summary /\ key \in Key
    BY DEF Event, TypeOK
  <1>3. QED
    BY <1>1, <1>2 DEF Row, computeEntryHash, Entry

\* appendEvent keeps the live table sound, wherever it is cut short.
LEMMA AppendSafe ==
  ASSUME IInv, NEW e \in Event, appendEvent(e), UNCHANGED <<key, keys, rekeyed>>
  PROVE  /\ log' \in Seq(Entry) /\ Len(log') <= MaxLog
         /\ written' \in Seq(Event) /\ cut' \in BOOLEAN /\ forked' \in BOOLEAN
         /\ Sound(Live)'
  <1> DEFINE n == Len(log) + 1
  <1>1. CASE UNCHANGED <<log, written, cut, forked>>
    <2>1. Live' = Live
      BY <1>1 DEF Live
    <2>2. Sound(Live)'
      BY <2>1 DEF IInv, Sound, RowsSound, Scarred, KeysMade
    <2>3. QED
      BY <1>1, <2>2 DEF IInv, TypeOK
  <1>2. ASSUME Len(log) < MaxLog, NEW aad \in {Pending, n}, NEW prev \in lastEntryHash(log),
               log' = Append(log, Row(e, aad, prev)),
               cut' = (cut \/ (aad = Pending /\ e.summary # Empty)),
               forked' = (forked \/ (log # <<>> /\ prev = <<>>)),
               written' = Append(written, e)
        PROVE  /\ log' \in Seq(Entry) /\ Len(log') <= MaxLog
               /\ written' \in Seq(Event) /\ cut' \in BOOLEAN /\ forked' \in BOOLEAN
               /\ Sound(Live)'
    <2>1. /\ log \in Seq(Entry) /\ written \in Seq(Event) /\ cut \in BOOLEAN
          /\ rekeyed \in BOOLEAN /\ forked \in BOOLEAN /\ key \in Nat /\ keys \in Nat
          /\ Len(log) = Len(written) /\ Len(log) \in Nat /\ MaxLog \in Nat
      BY ChronicleAssumption DEF IInv, TypeOK, Sound, RowsSound, Live, Key
    <2>2. /\ prev \in Hash
          /\ prev = <<>> \/ (Len(log) # 0 /\ prev = log[Len(log)].entryHash)
      BY <2>1, LastType
    <2>3. Row(e, aad, prev) \in Entry
      BY <2>1, <2>2, RowType DEF IInv, Pending
    <2>4. /\ log' \in Seq(Entry) /\ Len(log') = n /\ DOMAIN log' = 1..n
          /\ log'[n] = Row(e, aad, prev) /\ \A id \in 1..Len(log) : log'[id] = log[id]
      BY <1>2, <2>1, <2>3
    <2>5. /\ written' \in Seq(Event) /\ Len(written') = n /\ written'[n] = e
          /\ \A id \in 1..Len(log) : written'[id] = written[id]
      BY <1>2, <2>1
    <2>6. cut' \in BOOLEAN /\ forked' \in BOOLEAN
      BY <1>2, <2>1
    <2>7. /\ Live'.log = log' /\ Live'.written = written' /\ Live'.key = key
          /\ Live'.cut = cut' /\ Live'.rekeyed = rekeyed /\ Live'.forked = forked'
          /\ Live.log = log /\ Live.written = written /\ Live.key = key
          /\ Live.cut = cut /\ Live.rekeyed = rekeyed /\ Live.forked = forked
      BY DEF Live
    <2>8. /\ log'[n].type = e.type /\ log'[n].summary = e.summary
          /\ log'[n].key = key /\ log'[n].aad = aad /\ log'[n].prevHash = prev
          /\ log'[n].entryHash = computeEntryHash(prev, e)
      BY <2>4 DEF Row
    <2>9. ASSUME NEW id \in 1..Len(log)
          PROVE  /\ log'[id].type = written'[id].type /\ log'[id].summary = written'[id].summary
                 /\ log'[id].entryHash = computeEntryHash(log'[id].prevHash, written'[id])
                 /\ \/ log'[id].prevHash = IF id = 1 THEN <<>> ELSE log'[id - 1].entryHash
                    \/ forked' /\ log'[id].prevHash = <<>>
                 /\ cut' \/ rekeyed \/ log'[id].summary = Empty
                      \/ (log'[id].key = key /\ log'[id].aad = id)
      <3>1. id = 1 \/ id - 1 \in 1..Len(log)
        BY <2>1
      <3>2. log'[id] = log[id] /\ written'[id] = written[id]
            /\ (id = 1 \/ log'[id - 1] = log[id - 1])
        BY <2>4, <2>5, <3>1
      <3>3. (cut => cut') /\ (forked => forked')
        BY <1>2
      <3>4. id \in DOMAIN log
        BY <2>1
      <3>5. QED
        BY <2>7, <3>2, <3>3, <3>4 DEF IInv, Sound, RowsSound
    <2>10. /\ log'[n].type = written'[n].type /\ log'[n].summary = written'[n].summary
           /\ log'[n].entryHash = computeEntryHash(log'[n].prevHash, written'[n])
           /\ \/ log'[n].prevHash = IF n = 1 THEN <<>> ELSE log'[n - 1].entryHash
              \/ forked' /\ log'[n].prevHash = <<>>
           /\ cut' \/ rekeyed \/ log'[n].summary = Empty
                \/ (log'[n].key = key /\ log'[n].aad = n)
      <3>1. \/ prev = IF n = 1 THEN <<>> ELSE log'[n - 1].entryHash
            \/ forked' /\ prev = <<>>
        <4>1. CASE n = 1
          BY <4>1, <2>1, <2>2
        <4>2. CASE n # 1
          <5>1. n - 1 = Len(log) /\ n - 1 \in 1..Len(log) /\ log # <<>>
            BY <4>2, <2>1
          <5>2. log'[n - 1] = log[Len(log)]
            BY <5>1, <2>4
          <5>3. QED
            BY <1>2, <2>2, <4>2, <5>1, <5>2
        <4>3. QED
          BY <4>1, <4>2
      <3>2. aad = n \/ cut' \/ e.summary = Empty
        BY <1>2
      <3>3. QED
        BY <2>5, <2>8, <3>1, <3>2
    <2>11. \A id \in 1..n : id \in 1..Len(log) \/ id = n
      BY <2>1
    <2>12. RowsSound(Live)'
      BY <2>4, <2>5, <2>7, <2>9, <2>10, <2>11 DEF RowsSound
    <2>13. \A id \in DOMAIN log : id \in DOMAIN log' /\ log'[id] = log[id]
      BY <2>1, <2>4
    <2>14. n \in DOMAIN log'
      BY <2>1, <2>4
    <2>15. Scarred(Live)'
      <3>1. /\ cut => \E id \in DOMAIN log : log[id].summary # Empty /\ log[id].aad # id
            /\ rekeyed => \E id \in DOMAIN log : log[id].summary # Empty /\ log[id].key # key
            /\ forked => \E id \in DOMAIN log : id # 1 /\ log[id].prevHash = <<>>
        BY <2>7 DEF IInv, Sound, Scarred
      <3>2. cut' => \E id \in DOMAIN log' : log'[id].summary # Empty /\ log'[id].aad # id
        <4>1. CASE cut
          BY <4>1, <3>1, <2>13
        <4>2. CASE aad = Pending /\ e.summary # Empty
          <5>1. Pending # n
            BY <2>1 DEF Pending
          <5>2. QED
            BY <4>2, <5>1, <2>8, <2>14
        <4>3. QED
          BY <4>1, <4>2, <1>2
      <3>3. rekeyed => \E id \in DOMAIN log' : log'[id].summary # Empty /\ log'[id].key # key
        BY <3>1, <2>13
      <3>4. forked' => \E id \in DOMAIN log' : id # 1 /\ log'[id].prevHash = <<>>
        <4>1. CASE forked
          BY <4>1, <3>1, <2>13
        <4>2. CASE log # <<>> /\ prev = <<>>
          <5>1. n # 1
            BY <4>2, <2>1
          <5>2. QED
            BY <4>2, <5>1, <2>8, <2>14
        <4>3. QED
          BY <4>1, <4>2, <1>2
      <3>5. QED
        BY <2>7, <3>2, <3>3, <3>4 DEF Scarred
    <2>16. KeysMade(Live)'
      <3>1. key <= keys /\ \A id \in DOMAIN log : log[id].key <= keys
        BY <2>7 DEF IInv, Sound, KeysMade
      <3>2. \A id \in DOMAIN log' : log'[id].key <= keys
        BY <2>1, <2>4, <2>8, <2>11, <3>1
      <3>3. QED
        BY <2>7, <3>1, <3>2 DEF KeysMade
    <2>17. Len(log') <= MaxLog
      BY <1>2, <2>1, <2>4
    <2>18. QED
      BY <2>4, <2>5, <2>6, <2>12, <2>15, <2>16, <2>17 DEF Sound, RowsSound, Scarred
  <1>3. QED
    BY <1>1, <1>2 DEF appendEvent

\* An event recorded in a step that leaves the keys and the backup alone.
LEMMA RecordSafe ==
  ASSUME IInv, NEW e \in Event, appendEvent(e), unlocked' \in BOOLEAN,
         UNCHANGED <<key, keys, backup, rekeyed>>
  PROVE  IInv'
  <1>1. /\ log' \in Seq(Entry) /\ Len(log') <= MaxLog /\ written' \in Seq(Event)
        /\ cut' \in BOOLEAN /\ forked' \in BOOLEAN /\ Sound(Live)'
    BY AppendSafe
  <1>2. Sound(backup)'
    BY DEF IInv, Sound, RowsSound, Scarred, KeysMade
  <1>3. QED
    BY <1>1, <1>2 DEF IInv, TypeOK

\* A step that touches neither table nor key.
LEMMA StillSafe ==
  ASSUME IInv, unlocked' \in BOOLEAN,
         UNCHANGED <<log, key, keys, backup, written, cut, rekeyed, forked>>
  PROVE  IInv'
  <1>1. Live' = Live /\ backup' = backup /\ keys' = keys
    BY DEF Live
  <1>2. Sound(Live)' /\ Sound(backup)'
    BY <1>1 DEF IInv, Sound, RowsSound, Scarred, KeysMade
  <1>3. QED
    BY <1>2 DEF IInv, TypeOK

\* Every step keeps both tables sound.
LEMMA Invariance ==
  ASSUME IInv, [Next]_vars
  PROVE  IInv'
  <1> USE ChronicleAssumption
  <1>1. CASE onVaultUnlocked
    BY <1>1, RecordSafe DEF onVaultUnlocked
  <1>2. CASE onLockVault
    BY <1>2, RecordSafe DEF onLockVault
  <1>3. CASE record
    BY <1>3, RecordSafe DEF record, IInv, TypeOK
  <1>4. CASE changeMasterPassword
    <2>1. /\ UNCHANGED <<log, unlocked, backup, written, cut, forked>>
          /\ keys' = keys + 1 /\ key' = keys + 1 /\ keys < MaxKey
          /\ rekeyed' = (rekeyed \/ \E id \in DOMAIN log : log[id].summary # Empty)
      BY <1>4 DEF changeMasterPassword
    <2>2. TypeOK'
      BY <2>1 DEF IInv, TypeOK, Key
    <2>3. /\ Live'.log = log /\ Live'.written = written /\ Live'.cut = cut
          /\ Live'.rekeyed = rekeyed' /\ Live'.forked = forked /\ Live'.key = keys + 1
          /\ Live.log = log /\ Live.written = written /\ Live.cut = cut
          /\ Live.rekeyed = rekeyed /\ Live.forked = forked
      BY <2>1 DEF Live
    <2>4. RowsSound(Live)'
      <3>1. \A id \in DOMAIN log : rekeyed' \/ log[id].summary = Empty
        BY <2>1
      <3>2. QED
        BY <2>3, <3>1 DEF IInv, Sound, RowsSound
    <2>5. keys \in Nat /\ \A id \in DOMAIN log : log[id].key \in Nat /\ log[id].key <= keys
      <3>1. \A id \in DOMAIN log : log[id] \in Entry
        BY DEF IInv, TypeOK
      <3>2. QED
        BY <2>3, <3>1 DEF IInv, TypeOK, Key, Entry, Sound, KeysMade
    <2>6. Scarred(Live)'
      <3>1. \A id \in DOMAIN log : log[id].key # keys + 1
        BY <2>5
      <3>2. rekeyed' => \E id \in DOMAIN log : log[id].summary # Empty
        BY <2>1, <2>3 DEF IInv, Sound, Scarred
      <3>3. QED
        BY <2>3, <3>1, <3>2 DEF IInv, Sound, Scarred
    <2>7. KeysMade(Live)'
      BY <2>1, <2>3, <2>5 DEF KeysMade
    <2>8. Sound(backup)'
      <3>1. \A id \in DOMAIN backup.log : backup.log[id] \in Entry
        BY DEF IInv, TypeOK, Vault
      <3>2. KeysMade(backup)'
        BY <2>1, <2>5, <3>1 DEF IInv, TypeOK, Vault, Key, Entry, Sound, KeysMade
      <3>3. QED
        BY <2>1, <3>2 DEF IInv, Sound, RowsSound, Scarred
    <2>9. QED
      BY <2>1, <2>2, <2>4, <2>6, <2>7, <2>8 DEF IInv, Sound
  <1>5. CASE onBackupVault
    <2>1. PICK e \in Event : appendEvent(e)
      BY <1>5 DEF onBackupVault
    <2>2. backup' = Live /\ UNCHANGED <<key, keys, unlocked, rekeyed>>
      BY <1>5 DEF onBackupVault, Live
    <2>3. Live \in Vault /\ Live.log = log
      BY DEF IInv, TypeOK, Live, Vault
    <2>4. log' \in Seq(Entry) /\ Len(log') <= MaxLog /\ written' \in Seq(Event)
          /\ cut' \in BOOLEAN /\ forked' \in BOOLEAN /\ Sound(Live)'
      BY <2>1, <2>2, AppendSafe
    <2>5. TypeOK'
      BY <2>2, <2>3, <2>4 DEF IInv, TypeOK
    <2>6. Len(backup'.log) <= MaxLog
      BY <2>2, <2>3 DEF IInv, TypeOK
    <2>7. Sound(backup)'
      BY <2>2 DEF IInv, Sound, RowsSound, Scarred, KeysMade
    <2>8. QED
      BY <2>4, <2>5, <2>6, <2>7 DEF IInv
  <1>6. CASE onRestoreVault
    <2>1. /\ log' = backup.log /\ key' = backup.key /\ written' = backup.written
          /\ cut' = backup.cut /\ rekeyed' = backup.rekeyed /\ forked' = backup.forked
          /\ unlocked' = FALSE /\ UNCHANGED <<keys, backup>>
      BY <1>6 DEF onRestoreVault
    <2>2. /\ backup.log \in Seq(Entry) /\ backup.key \in Key /\ backup.written \in Seq(Event)
          /\ backup.cut \in BOOLEAN /\ backup.rekeyed \in BOOLEAN /\ backup.forked \in BOOLEAN
      BY DEF IInv, TypeOK, Vault
    <2>3. TypeOK'
      BY <2>1, <2>2 DEF IInv, TypeOK
    <2>4. Sound(backup) /\ Len(backup.log) <= MaxLog
      BY DEF IInv
    <2>5. /\ Live'.log = backup.log /\ Live'.key = backup.key /\ Live'.written = backup.written
          /\ Live'.cut = backup.cut /\ Live'.rekeyed = backup.rekeyed
          /\ Live'.forked = backup.forked
      BY <2>1 DEF Live
    <2>6. Sound(Live)'
      BY <2>1, <2>4, <2>5 DEF Sound, RowsSound, Scarred, KeysMade
    <2>7. Sound(backup)'
      BY <2>1, <2>4 DEF Sound, RowsSound, Scarred, KeysMade
    <2>8. QED
      BY <2>1, <2>3, <2>4, <2>6, <2>7 DEF IInv
  <1>7. CASE Exit
    BY <1>7, StillSafe DEF Exit
  <1>8. CASE UNCHANGED vars
    BY <1>8, StillSafe DEF vars, IInv, TypeOK
  <1>9. QED
    BY <1>1, <1>2, <1>3, <1>4, <1>5, <1>6, <1>7, <1>8 DEF Next

\* A sound table with neither a cut append nor an old key nor a second chain passes
\* the check.
LEMMA SoundVerifies ==
  ASSUME IInv, ~cut, ~rekeyed, ~forked
  PROVE  verifyChain(log, key)
  <1>1. SUFFICES ASSUME NEW id \in DOMAIN log
                 PROVE  /\ log[id].prevHash = IF id = 1 THEN <<>> ELSE log[id - 1].entryHash
                        /\ log[id].entryHash = computeEntryHash(log[id].prevHash, Read(log[id], id, key))
    BY DEF verifyChain
  <1>2. /\ log[id].type = written[id].type /\ log[id].summary = written[id].summary
        /\ log[id].prevHash = IF id = 1 THEN <<>> ELSE log[id - 1].entryHash
        /\ log[id].entryHash = computeEntryHash(log[id].prevHash, written[id])
        /\ log[id].summary = Empty \/ (log[id].key = key /\ log[id].aad = id)
    BY DEF IInv, Sound, RowsSound, Live
  <1>3. written[id] \in Event
    BY DEF IInv, TypeOK, Sound, RowsSound, Live
  <1>4. written[id] = [type |-> written[id].type, summary |-> written[id].summary]
    BY <1>3 DEF Event
  <1>5. Read(log[id], id, key) = written[id]
    BY <1>2, <1>4 DEF Read
  <1>6. QED
    BY <1>2, <1>5

\* An entry whose hash the check computes again and finds reads as its event.
LEMMA HashedIsWritten ==
  ASSUME IInv, NEW id \in DOMAIN log,
         log[id].entryHash = computeEntryHash(log[id].prevHash, Read(log[id], id, key))
  PROVE  Read(log[id], id, key) = written[id]
  <1>1. log \in Seq(Entry) /\ written \in Seq(Event) /\ Len(log) = Len(written)
    BY DEF IInv, TypeOK, Sound, RowsSound, Live
  <1>2. log[id] \in Entry /\ written[id] \in Event
    BY <1>1
  <1>3. log[id].prevHash \in Hash
    BY <1>2 DEF Entry
  <1>4. Read(log[id], id, key) \in Event
    BY <1>2, ReadType
  <1>5. log[id].entryHash = Append(log[id].prevHash, written[id])
    BY DEF IInv, Sound, RowsSound, Live, computeEntryHash
  <1>6. log[id].entryHash = Append(log[id].prevHash, Read(log[id], id, key))
    BY DEF computeEntryHash
  <1>7. QED
    BY <1>2, <1>3, <1>4, <1>5, <1>6, AppendInjective

\* A table that passes the check carries no scar.
LEMMA VerifiedUnscarred ==
  ASSUME IInv, verifyChain(log, key)
  PROVE  ~cut /\ ~rekeyed /\ ~forked
  <1>1. ASSUME NEW id \in DOMAIN log
        PROVE  /\ log[id].summary = Empty \/ (log[id].key = key /\ log[id].aad = id)
               /\ id # 1 => log[id].prevHash # <<>>
    <2>1. Read(log[id], id, key) = written[id]
      BY HashedIsWritten DEF verifyChain
    <2>2. log[id].summary = written[id].summary
      BY DEF IInv, Sound, RowsSound, Live
    <2>3. log[id].summary = Empty \/ (log[id].key = key /\ log[id].aad = id)
      BY <2>1, <2>2 DEF Read
    <2>4. ASSUME id # 1
          PROVE  log[id].prevHash # <<>>
      <3>1. log \in Seq(Entry) /\ Len(log) = Len(written) /\ written \in Seq(Event)
        BY DEF IInv, TypeOK, Sound, RowsSound, Live
      <3>2. id - 1 \in DOMAIN log /\ log[id - 1] \in Entry /\ written[id - 1] \in Event
        BY <2>4, <3>1
      <3>3. log[id - 1].entryHash = Append(log[id - 1].prevHash, written[id - 1])
        BY <3>2 DEF IInv, Sound, RowsSound, Live, computeEntryHash
      <3>4. Append(log[id - 1].prevHash, written[id - 1]) # <<>>
        BY <3>2 DEF Entry, Hash
      <3>5. QED
        BY <2>4, <3>3, <3>4 DEF verifyChain
    <2>5. QED
      BY <2>3, <2>4
  <1>2. /\ cut => \E id \in DOMAIN log : log[id].summary # Empty /\ log[id].aad # id
        /\ rekeyed => \E id \in DOMAIN log : log[id].summary # Empty /\ log[id].key # key
        /\ forked => \E id \in DOMAIN log : id # 1 /\ log[id].prevHash = <<>>
    BY DEF IInv, Sound, Scarred, Live
  <1>3. QED
    BY <1>1, <1>2

\* In the entries of a sound table that pass the check each reads as its event.
LEMMA VerifiedIsWritten ==
  ASSUME IInv, NEW n \in 0..Len(log), verifyChain(SubSeq(log, 1, n), key), NEW id \in 1..n
  PROVE  Read(log[id], id, key) = written[id]
  <1>1. log \in Seq(Entry)
    BY DEF IInv, TypeOK
  <1>2. id \in DOMAIN log /\ id \in DOMAIN SubSeq(log, 1, n) /\ SubSeq(log, 1, n)[id] = log[id]
    BY <1>1
  <1>3. log[id].entryHash = computeEntryHash(log[id].prevHash, Read(log[id], id, key))
    BY <1>2 DEF verifyChain
  <1>4. QED
    BY <1>2, <1>3, HashedIsWritten

\* The empty chronicle is sound.
LEMMA Initially ==
  ASSUME Init
  PROVE  IInv
  <1>1. 1 \in Key /\ MaxLog \in Nat
    BY ChronicleAssumption DEF Key
  <1>2. /\ log = <<>> /\ key = 1 /\ keys = 1 /\ unlocked = FALSE
        /\ written = <<>> /\ cut = FALSE /\ rekeyed = FALSE /\ forked = FALSE
        /\ backup = [log |-> <<>>, key |-> 1, written |-> <<>>,
                     cut |-> FALSE, rekeyed |-> FALSE, forked |-> FALSE]
    BY DEF Init
  <1>3. backup \in Vault
    <2>1. <<>> \in Seq(Entry) /\ <<>> \in Seq(Event)
      OBVIOUS
    <2>2. QED
      BY <1>1, <1>2, <2>1 DEF Vault
  <1>4. TypeOK
    <2>1. log \in Seq(Entry) /\ Len(log) <= MaxLog /\ written \in Seq(Event)
      BY <1>1, <1>2
    <2>2. QED
      BY <1>1, <1>2, <1>3, <2>1 DEF TypeOK
  <1>5. Live = backup /\ backup.log = <<>> /\ backup.written = <<>>
    BY <1>2 DEF Live
  <1>6. Sound(backup)
    BY <1>2, <1>5 DEF Sound, RowsSound, Scarred, KeysMade
  <1>7. QED
    BY <1>1, <1>4, <1>5, <1>6 DEF IInv

\* Every reachable state is well typed and both its tables are sound.
THEOREM Chained == Spec => []IInv
  BY Initially, Invariance, PTL DEF Spec

\* Every reachable state has its type.
THEOREM Typing == Spec => []TypeOK
  <1>1. IInv => TypeOK
    BY DEF IInv
  <1>2. QED
    BY <1>1, Chained, PTL

\* Whatever was inserted, lost, restored or restarted, the check of the whole table
\* passes exactly as long as no append was cut short, the password not changed and
\* the last hash not left unread.
THEOREM NoFalseAlarm == Spec => []IntactVerifies
  <1>1. IInv => IntactVerifies
    BY SoundVerifies, VerifiedUnscarred DEF IntactVerifies
  <1>2. QED
    BY <1>1, Chained, PTL

\* Entries that pass the check show what was written, in its order.
THEOREM Truthful == Spec => []OkIsWritten
  <1>1. IInv => OkIsWritten
    BY VerifiedIsWritten DEF OkIsWritten
  <1>2. QED
    BY <1>1, Chained, PTL
=============================================================================
