-------------------------- MODULE VaultStore_proofs --------------------------
(***************************************************************************)
(* Proofs about VaultStore, for every set of passwords, rows, columns and  *)
(* values and any number of salts.                                         *)
(***************************************************************************)
EXTENDS VaultStore, TLAPS

----------------------------------------------------------------------------
(* Types.                                                                  *)

\* NoKey, which VaultSession holds while locked, is not a key of any password,
\* as salts are numbered from 1.
LEMMA NoKeyIsNoKey == NoKey \notin Key
  BY DEF NoKey, Key, Salt

\* A database stays a database through every stage of a rewrite.
LEMMA RewriteType ==
  ASSUME NEW db \in Database, NEW t \in Task, NEW s
  PROVE  Rewrite(db, t, s) \in Database
  <1>1. ASSUME NEW c \in Cell
        PROVE  RewriteCell(db, t, s, c) \in Blob
    <2>1. c[1] \in Field /\ c[2] \in Id
      BY <1>1 DEF Cell
    <2>2. db.cell[c] \in Blob /\ db.cell[c].val \in Plain
      BY <1>1 DEF Database, Blob
    <2>3. PolicyByte(db, t, c[2]) \in Plain /\ ClearLevel(db, c[2]) \in Plain
      BY DEF PolicyByte, ClearLevel, Plain, Level
    <2>4. t.to \in Key \union {NoKey}
      BY DEF Task
    <2>5. ASSUME NEW v \in Plain PROVE encryptField(v, t.to, c) \in Blob
      BY <1>1, <2>4, <2>5 DEF encryptField, Blob
    <2>6. QED
      BY <2>2, <2>3, <2>5 DEF RewriteCell
  <1>2. db.salt \in 0..MaxSalt /\ db.token \in Key \union {NoKey}
        /\ db.v2 \in BOOLEAN /\ db.allow \in [Id -> BOOLEAN]
    BY DEF Database
  <1>3. t.salt \in 0..MaxSalt /\ t.to \in Key \union {NoKey}
    BY DEF Task
  <1>4. [c \in Cell |-> RewriteCell(db, t, s, c)] \in [Cell -> Blob]
    BY <1>1
  <1>5. QED
    BY <1>2, <1>3, <1>4 DEF Rewrite, Database

\* An empty database and the vaults earlier versions left are databases.
LEMMA InitType == Init => TypeOK
  <1> SUFFICES ASSUME Init PROVE TypeOK
    OBVIOUS
  <1> USE ConstantsAssumption
  <1>1. disk \in Database /\ salts \in 0..MaxSalt
    <2>1. CASE disk = EmptyDatabase /\ salts = 0
      BY <2>1 DEF EmptyDatabase, Database, Blob, NoBlob, Plain, Level
    <2>2. ASSUME NEW p \in Password, NEW v2 \in BOOLEAN, NEW a \in [Id -> BOOLEAN],
                 NEW rows \in OlderRows, disk = OlderVault(p, v2, a, rows), salts = 1
          PROVE  disk \in Database /\ salts \in 0..MaxSalt
      <3>1. <<p, 1>> \in Key
        BY <2>2 DEF Key, Salt
      <3>2. (CHOOSE v \in Value : TRUE) \in Plain
        BY DEF Plain
      <3>3. NoBlob \in Blob
        BY DEF NoBlob, Blob, Plain, Level
      <3>4. ASSUME NEW c \in Cell
            PROVE  [key |-> <<p, 1>>, bound |-> IF v2 THEN c ELSE Unbound,
                    val |-> CHOOSE v \in Value : TRUE] \in Blob
        BY <3>1, <3>2, <3>4 DEF Blob
      <3>5. [c \in Cell |-> IF c \in rows
               THEN [key |-> <<p, 1>>, bound |-> IF v2 THEN c ELSE Unbound,
                     val |-> CHOOSE v \in Value : TRUE]
               ELSE NoBlob] \in [Cell -> Blob]
        BY <3>3, <3>4
      <3>6. QED
        BY <2>2, <3>1, <3>5 DEF OlderVault, Database
    <2>3. QED
      BY <2>1, <2>2 DEF Init
  <1>2. truth \in [Cell -> Plain]
    <2>1. ASSUME NEW c \in Cell
          PROVE  ClearLevel(disk, c[2]) \in Plain /\ disk.cell[c].val \in Plain
      BY <1>1, <2>1 DEF ClearLevel, Plain, Level, Database, Blob
    <2>2. QED
      BY <2>1 DEF Init, StoredTruth
  <1>3. QED
    BY <1>1, <1>2 DEF Init, TypeOK, Idle, Task, Op

\* Storing blobs in a database's cells gives a database.
LEMMA DatabaseCells ==
  ASSUME NEW db \in Database, NEW f \in [Cell -> Blob], NEW a \in [Id -> BOOLEAN]
  PROVE  /\ [db EXCEPT !.cell = f] \in Database
         /\ [[db EXCEPT !.cell = f] EXCEPT !.allow = a] \in Database
  BY DEF Database

\* Every step keeps the types.
LEMMA NextType == TypeOK /\ [Next]_vars => TypeOK'
  <1> SUFFICES ASSUME TypeOK, [Next]_vars PROVE TypeOK'
    OBVIOUS
  <1> USE ConstantsAssumption DEF TypeOK
  <1>0. Idle \in Task /\ \A k \in Key \union {NoKey} : FillPolicies(k) \in Task
    BY DEF Idle, FillPolicies, Task, Op
  <1>k. \A p \in Password : salts < MaxSalt => deriveKey(p, salts + 1) \in Key
    BY DEF deriveKey, Key, Salt
  <1>b. NoBlob \in Blob
    BY DEF NoBlob, Blob, Plain, Level
  <1>s. ASSUME NEW c \in Cell, NEW v \in Plain PROVE Seal(c, v) \in Blob
    BY <1>s DEF Seal, encryptField, Blob
  <1>1. ASSUME NEW p \in Password, createVault(p) PROVE TypeOK'
    BY <1>1, <1>k DEF createVault, Begin, Task, Op
  <1>2. ASSUME NEW k \in Key, OpenWith(k) PROVE TypeOK'
    BY <1>0, <1>2 DEF OpenWith, Begin, Task, Op
  <1>3. ASSUME NEW p \in Password, unlockVault(p) PROVE TypeOK'
    <2>1. disk.salt \in Salt
      BY <1>3 DEF unlockVault, vaultExists, Database, Salt
    <2>2. deriveKey(p, disk.salt) \in Key
      BY <2>1 DEF deriveKey, Key
    <2>3. QED
      BY <1>2, <1>3, <2>2 DEF unlockVault
  <1>4. ASSUME unlockWithDerivedKey PROVE TypeOK'
    BY <1>2, <1>4 DEF unlockWithDerivedKey
  <1>5. ASSUME NEW p \in Password, NEW q \in Password, changeMasterPassword(p, q)
        PROVE  TypeOK'
    BY <1>5, <1>k DEF changeMasterPassword, Begin, Task, Op
  <1>6. ASSUME WriteStage PROVE TypeOK'
    <2>1. work' \in Database
      BY <1>6, RewriteType DEF WriteStage
    <2>2. task' \in Task
      <3>1. task.op \in Op /\ task.at \in 1..6 /\ task.op # "none" /\ ~(task.at > Len(Plan[task.op]))
        BY <1>6 DEF WriteStage, Ready, Task
      <3>2. Len(Plan[task.op]) \in 0..5
        BY <3>1 DEF Op, Plan
      <3>3. ASSUME NEW n \in 0..5, NEW m \in 1..6, ~(m > n) PROVE m + 1 \in 1..6
        BY <3>3
      <3>4. task.at + 1 \in 1..6
        BY <3>1, <3>2, <3>3, Zenon
      <3>5. QED
        BY <1>6, <3>4 DEF WriteStage, Task
    <2>3. QED
      BY <1>6, <2>1, <2>2 DEF WriteStage
  <1>7. ASSUME Commit PROVE TypeOK'
    BY <1>0, <1>7 DEF Commit, Task
  <1>8. ASSUME Rollback \/ Crash PROVE TypeOK'
    BY <1>0, <1>8 DEF Rollback, Crash
  <1>9. ASSUME NEW c \in Cell, NEW v \in Value, saveCell(c, v) PROVE TypeOK'
    <2>1. Seal(c, v) \in Blob /\ v \in Plain
      BY <1>s DEF Plain
    <2>2. [disk.cell EXCEPT ![c] = Seal(c, v)] \in [Cell -> Blob]
      BY <2>1 DEF Database
    <2>3. [disk EXCEPT !.cell[c] = Seal(c, v)] \in Database
      BY <2>2 DEF Database
    <2>4. QED
      BY <1>9, <2>1, <2>3 DEF saveCell, Write
  <1>10. ASSUME NEW i \in Id, NEW v \in Value, NEW level \in Level, NEW totp \in BOOLEAN,
                saveCredential(i, v, level, totp)
         PROVE  TypeOK'
    <2> DEFINE put == [c \in CredentialCells(i) |->
                         CASE c[1] = "policy" -> Seal(c, level)
                           [] c[1] = "totp" /\ ~totp -> NoBlob
                           [] OTHER -> Seal(c, v)]
    <2>0. CredentialCells(i) \subseteq Cell /\ v \in Plain /\ level \in Plain
      BY DEF CredentialCells, Plain
    <2>1. \A c \in CredentialCells(i) : put[c] \in Blob
      BY <1>b, <1>s, <2>0
    <2>2. WithCells(put) \in Database
      <3>1. [c \in Cell |-> IF c \in DOMAIN put THEN put[c] ELSE disk.cell[c]] \in [Cell -> Blob]
        BY <2>1 DEF Database
      <3>2. QED
        BY <3>1, DatabaseCells DEF WithCells, Database
    <2>3. [WithCells(put) EXCEPT !.allow[i] = (level = 3)] \in Database
      BY <2>2 DEF Database
    <2>4. truth' \in [Cell -> Plain]
      BY <1>10, <2>0 DEF saveCredential
    <2>5. QED
      BY <1>10, <2>3, <2>4 DEF saveCredential, Write
  <1>11. ASSUME NEW cells \in SUBSET Cell, NEW a \in [Id -> BOOLEAN], DeleteRows(cells, a)
         PROVE  TypeOK'
    <2>1. WithCells([c \in cells |-> NoBlob]) \in Database
      <3>1. [c \in Cell |-> IF c \in cells THEN NoBlob ELSE disk.cell[c]] \in [Cell -> Blob]
        BY <1>b DEF Database
      <3>2. WithCells([c \in cells |-> NoBlob])
              = [disk EXCEPT !.cell = [c \in Cell |-> IF c \in cells THEN NoBlob ELSE disk.cell[c]]]
        BY DEF WithCells, Database
      <3>3. QED
        BY <3>1, <3>2, DatabaseCells DEF Database
    <2>2. [WithCells([c \in cells |-> NoBlob]) EXCEPT !.allow = a] \in Database
      BY <2>1 DEF Database
    <2>3. truth' \in [Cell -> Plain]
      BY <1>11 DEF DeleteRows, Plain, Level
    <2>4. QED
      BY <1>11, <2>2, <2>3 DEF DeleteRows, Write
  <1>12. ASSUME NEW i \in Id, deleteNote(i) \/ deleteCredential(i) PROVE TypeOK'
    <2>1. NoteCells(i) \in SUBSET Cell /\ CredentialCells(i) \in SUBSET Cell
      BY DEF NoteCells, CredentialCells
    <2>2. disk.allow \in [Id -> BOOLEAN] /\ [disk.allow EXCEPT ![i] = FALSE] \in [Id -> BOOLEAN]
      BY DEF Database
    <2>3. QED
      BY <1>11, <1>12, <2>1, <2>2 DEF deleteNote, deleteCredential
  <1>13. ASSUME NEW p \in Password, enableQuickUnlock(p) PROVE TypeOK'
    <2>1. deriveKey(p, disk.salt) \in Key
      BY <1>13 DEF enableQuickUnlock, vaultExists, Database, deriveKey, Key, Salt
    <2>2. QED
      BY <1>13, <2>1 DEF enableQuickUnlock
  <1>14. ASSUME lock PROVE TypeOK'
    BY <1>14 DEF lock
  <1>15. ASSUME NEW c \in Cell, DamageBlob(c) PROVE TypeOK'
    <2>1. Garbled(c) \in Blob
      BY DEF Garbled, Blob, Plain, Level
    <2>2. [disk EXCEPT !.cell[c] = Garbled(c)] \in Database
      BY <2>1 DEF Database
    <2>3. damage + 1 \in 0..MaxDamage
      BY <1>15 DEF DamageBlob
    <2>4. QED
      BY <1>15, <2>2, <2>3 DEF DamageBlob, Write
  <1>16. CASE UNCHANGED vars
    BY <1>16 DEF vars
  <1>17. QED
    BY <1>1, <1>3, <1>4, <1>5, <1>6, <1>7, <1>8, <1>9, <1>10, <1>12, <1>13, <1>14, <1>15, <1>16
    DEF Next, StatementFails

\* Every variable keeps its type, for every value of the constants.
THEOREM Typing == Spec => []TypeOK
  <1>1. QED
    BY InitType, NextType, PTL DEF Spec

----------------------------------------------------------------------------
(* Safety: the vault always opens with its password, and every row that is *)
(* not damaged opens with it.                                              *)

\* A transaction that has just begun has run none of its statements.
LEMMA NothingDone ==
  ASSUME NEW s
  PROVE  /\ ~Done(Idle, s)
         /\ \A t : t.at = 1 => ~Done(t, s)
  BY DEF Done, Idle

\* One more stage is done after each WriteStage.
LEMMA OneMoreDone ==
  ASSUME NEW t \in Task, NEW u \in Task, t.op # "none", ~Ready(t),
         u.op = t.op, u.at = t.at + 1, NEW s
  PROVE  Done(u, s) <=> Done(t, s) \/ s = Plan[t.op][t.at]
  <1>1. t.at \in 1..6 /\ t.op \in Op
    BY DEF Task
  <1>2. Len(Plan[t.op]) \in 0..5 /\ ~(t.at > Len(Plan[t.op]))
    BY <1>1 DEF Ready, Op, Plan
  <1>3. \A f : \A l \in 0..5, a \in 1..6 :
          ~(a > l) => ((\E n \in 1..5 : n < a + 1 /\ n <= l /\ f[n] = s)
                         <=> (\E n \in 1..5 : n < a /\ n <= l /\ f[n] = s) \/ s = f[a])
    OBVIOUS
  <1> DEFINE l == Len(Plan[t.op])
             a == t.at
             f == Plan[t.op]
  <1>4. Done(u, s) <=> \E n \in 1..5 : n < a + 1 /\ n <= l /\ f[n] = s
    BY Zenon DEF Done
  <1>5. Done(t, s) <=> \E n \in 1..5 : n < a /\ n <= l /\ f[n] = s
    BY Zenon DEF Done
  <1>6. l \in 0..5 /\ a \in 1..6 /\ ~(a > l)
    BY <1>1, <1>2
  <1> HIDE DEF l, a, f
  <1>7. (\E n \in 1..5 : n < a + 1 /\ n <= l /\ f[n] = s)
          <=> (\E n \in 1..5 : n < a /\ n <= l /\ f[n] = s) \/ s = f[a]
    BY <1>3, <1>6
  <1>8. QED
    BY <1>4, <1>5, <1>7 DEF a, f

\* Which stages a rewrite may still be at.
LEMMA StageAllowed ==
  ASSUME NEW t \in Task, t.op # "none", ~Ready(t)
  PROVE  LET s == Plan[t.op][t.at] IN
         /\ s \in {"meta", "token", "format", "note", "attachment", "credential", "policy"}
         /\ s = "policy" => t.op = "policies"
         /\ s = "meta" => t.op \in {"create", "rekey"}
         /\ s \in Rewritten => t.op \in {"migrate", "rekey"}
         /\ t.op = "create" => s \in {"meta", "token", "format"}
  <1>1. t.at \in 1..6 /\ ~(t.at > Len(Plan[t.op]))
    BY DEF Task, Ready
  <1>2. CASE t.op = "create"
    BY <1>1, <1>2 DEF Plan, Rewritten
  <1>3. CASE t.op = "migrate"
    BY <1>1, <1>3 DEF Plan, Rewritten
  <1>4. CASE t.op = "rekey"
    BY <1>1, <1>4 DEF Plan, Rewritten
  <1>5. CASE t.op = "policies"
    BY <1>1, <1>5 DEF Plan, Rewritten
  <1>6. QED
    BY <1>2, <1>3, <1>4, <1>5 DEF Task, Op

\* What a rewrite that is ready to commit has done.
LEMMA AllDone ==
  ASSUME NEW t \in Task, Ready(t)
  PROVE  /\ Done(t, "token") <=> t.op \in {"create", "migrate", "rekey"}
         /\ Done(t, "meta") <=> t.op \in {"create", "rekey"}
         /\ \A s \in Rewritten : Done(t, s) <=> t.op \in {"migrate", "rekey"}
  <1>1. t.at \in 1..6 /\ t.at > Len(Plan[t.op]) /\ t.op # "none"
    BY DEF Task, Ready
  <1>2. CASE t.op = "create"
    BY <1>1, <1>2 DEF Plan, Rewritten, Done
  <1>3. CASE t.op = "migrate"
    BY <1>1, <1>3 DEF Plan, Rewritten, Done
  <1>4. CASE t.op = "rekey"
    BY <1>1, <1>4 DEF Plan, Rewritten, Done
  <1>5. CASE t.op = "policies"
    BY <1>1, <1>5 DEF Plan, Rewritten, Done
  <1>6. QED
    BY <1>1, <1>2, <1>3, <1>4, <1>5 DEF Task, Op

\* With nothing done, a sound committed database is all there is to show.
LEMMA StartInStep ==
  ASSUME RowsOpenWithVaultKey', RowsHaveOwner(disk)', work' = disk', task'.at = 1
  PROVE  RewriteInStep' /\ RowsHaveOwner(work)'
  <1>1. \A s : ~Done(task', s)
    BY NothingDone
  <1>2. QED
    BY <1>1 DEF RewriteInStep, RowsOpenWithVaultKey, RowsHaveOwner

\* The invariant holds of the databases the program can start with.
LEMMA InitSafe == Init => IInv
  <1> SUFFICES ASSUME Init PROVE IInv
    OBVIOUS
  <1> USE ConstantsAssumption
  <1>1. TypeOK /\ work = disk /\ task = Idle /\ session = NoKey
    BY InitType DEF Init
  <1>2. VaultHasPassword /\ RowsOpenWithVaultKey /\ RowsHaveOwner(disk)
    <2>1. CASE disk = EmptyDatabase
      BY <2>1 DEF EmptyDatabase, VaultHasPassword, RowsOpenWithVaultKey, RowsHaveOwner,
                  vaultExists, Present, NoBlob, Intact, Cell
    <2>2. ASSUME NEW p \in Password, NEW v2 \in BOOLEAN, NEW a \in [Id -> BOOLEAN],
                 NEW rows \in OlderRows, disk = OlderVault(p, v2, a, rows)
          PROVE  VaultHasPassword /\ RowsOpenWithVaultKey /\ RowsHaveOwner(disk)
      <3>1. disk.salt = 1 /\ disk.token = <<p, 1>>
        BY <2>2 DEF OlderVault
      <3> DEFINE w == CHOOSE v \in Value : TRUE
                 old(c) == [key |-> <<p, 1>>, bound |-> IF v2 THEN c ELSE Unbound, val |-> w]
      <3>a. \A c \in Cell : disk.cell[c] = IF c \in rows THEN old(c) ELSE NoBlob
        BY <2>2 DEF OlderVault
      <3> HIDE DEF w
      <3>b. \A c \in Cell : old(c).key = <<p, 1>> /\ old(c).bound \in {c, Unbound}
        OBVIOUS
      <3> HIDE DEF old
      <3>2. \A c \in Cell : IF c \in rows
               THEN disk.cell[c].key = <<p, 1>> /\ disk.cell[c].bound \in {c, Unbound}
               ELSE disk.cell[c] = NoBlob
        BY <3>a, <3>b
      <3>3. <<p, 1>> # NoKey
        BY DEF NoKey
      <3>4. RowsOpenWithVaultKey
        <4> SUFFICES ASSUME NEW c \in Cell, disk.cell[c].key # NoKey
                     PROVE  decrypts(disk.cell[c], disk.token, c)
          BY DEF RowsOpenWithVaultKey, Intact
        <4>1. c \in rows
          BY <3>2 DEF NoBlob
        <4>2. disk.cell[c].key = <<p, 1>> /\ disk.cell[c].bound \in {c, Unbound}
          BY <3>2, <4>1
        <4>3. QED
          BY <3>1, <3>3, <4>2 DEF decrypts
      <3>5. \A i \in Id : <<"policy", i>> \notin rows /\ <<"policy", i>> \in Cell
        BY DEF OlderRows, Rewritten, Cell
      <3>6. RowsHaveOwner(disk)
        <4>1. vaultExists(disk)
          BY <3>1 DEF vaultExists
        <4>2. \A i \in Id : ~Present(disk, <<"policy", i>>)
          BY <3>2, <3>5 DEF Present
        <4>3. QED
          BY <4>1, <4>2 DEF RowsHaveOwner
      <3>7. VaultHasPassword
        BY <3>1 DEF VaultHasPassword, vaultExists, deriveKey
      <3>8. QED
        BY <3>4, <3>6, <3>7
    <2>3. QED
      BY <2>1, <2>2 DEF Init
  <1>3. RewriteInStep /\ RowsHaveOwner(work)
    BY <1>1, <1>2, NothingDone DEF RewriteInStep, RowsOpenWithVaultKey
  <1>4. SessionHasVaultKey /\ TaskHasKeys
    BY <1>1 DEF SessionHasVaultKey, TaskHasKeys, Idle
  <1>5. QED
    BY <1>1, <1>2, <1>3, <1>4 DEF IInv

\* A stage of a rewrite seals the rows it is for, keeps every other one, and
\* neither makes a row appear nor disappear, but for a credential's policy.
LEMMA RewriteCellIs ==
  ASSUME NEW db \in Database, NEW t \in Task, NEW s, NEW c \in Cell
  PROVE  \/ /\ RewriteCell(db, t, s, c) = db.cell[c]
            /\ ~(StageOf(c) = s /\ s \in Rewritten /\ Present(db, c)
                 /\ Present(db, <<StageOf(c), c[2]>>))
         \/ /\ StageOf(c) = s \/ (s = "policy" /\ c[1] = "policy")
            /\ s \in Rewritten \union {"policy"}
            /\ Present(db, c) \/ (c[1] = "policy" /\ Present(db, <<"credential", c[2]>>))
            /\ \E v \in Plain : RewriteCell(db, t, s, c) = encryptField(v, t.to, c)
  <1>1. db.cell[c].val \in Plain /\ PolicyByte(db, t, c[2]) \in Plain /\ ClearLevel(db, c[2]) \in Plain
    BY DEF Database, Blob, PolicyByte, ClearLevel, Plain, Level
  <1>2. c = <<c[1], c[2]>>
    BY DEF Cell
  <1>3. CASE s \in Rewritten /\ c[1] = s /\ Present(db, c)
    BY <1>1, <1>3, Zenon DEF RewriteCell, StageOf, Rewritten
  <1>4. CASE s = "credential" /\ c[1] = "policy" /\ Present(db, <<"credential", c[2]>>)
    BY <1>1, <1>4, Zenon DEF RewriteCell, StageOf, Rewritten
  <1>5. CASE s = "policy" /\ c[1] = "policy" /\ Present(db, <<"credential", c[2]>>) /\ ~Present(db, c)
    BY <1>1, <1>5, Zenon DEF RewriteCell, StageOf, Rewritten
  <1>6. ASSUME ~(s \in Rewritten /\ c[1] = s /\ Present(db, c)),
               ~(s = "credential" /\ c[1] = "policy" /\ Present(db, <<"credential", c[2]>>)),
               ~(s = "policy" /\ c[1] = "policy" /\ Present(db, <<"credential", c[2]>>) /\ ~Present(db, c))
        PROVE  RewriteCell(db, t, s, c) = db.cell[c]
                 /\ ~(StageOf(c) = s /\ s \in Rewritten /\ Present(db, c) /\ Present(db, <<StageOf(c), c[2]>>))
    <2>1. RewriteCell(db, t, s, c) = db.cell[c]
      BY <1>6, Zenon DEF RewriteCell
    <2>2. QED
      BY <1>2, <1>6, <2>1 DEF StageOf
  <1>7. QED
    BY <1>3, <1>4, <1>5, <1>6

\* One more statement of a transaction leaves the committed database alone and
\* the transaction's view one stage further.
LEMMA WriteStageSafe == IInv /\ WriteStage => IInv'
  <1> SUFFICES ASSUME IInv, WriteStage PROVE IInv'
    OBVIOUS
  <1> DEFINE s == Plan[task.op][task.at]
  <1>1. TypeOK /\ TypeOK'
    BY NextType DEF IInv, Next
  <1>2. /\ disk' = disk /\ session' = session
        /\ task.op # "none" /\ ~Ready(task)
        /\ task' = [task EXCEPT !.at = @ + 1]
        /\ work' = Rewrite(work, task, s)
    BY DEF WriteStage
  <1>3. /\ task \in Task /\ task' \in Task /\ work \in Database /\ work' \in Database
        /\ task'.op = task.op /\ task'.at = task.at + 1 /\ task'.to = task.to /\ task'.salt = task.salt
    BY <1>1, <1>2 DEF TypeOK, Task
  <1>4. \A x : Done(task', x) <=> Done(task, x) \/ x = s
    BY <1>2, <1>3, OneMoreDone
  <1>5. /\ s = "policy" => task.op = "policies"
        /\ s = "meta" => task.op \in {"create", "rekey"}
        /\ task.op = "create" => s \in {"meta", "token", "format"}
    BY <1>2, <1>3, StageAllowed
  <1>6. /\ work'.salt = IF s = "meta" THEN task.salt ELSE work.salt
        /\ work'.token = IF s = "token" THEN task.to ELSE work.token
        /\ \A c \in Cell : work'.cell[c] = RewriteCell(work, task, s, c)
        /\ work'.cell = [c \in Cell |-> RewriteCell(work, task, s, c)]
    BY <1>2 DEF Rewrite
  <1> HIDE DEF s
  <1>7. \A c \in Cell :
          \/ /\ work'.cell[c] = work.cell[c]
             /\ ~(StageOf(c) = s /\ s \in Rewritten /\ Present(work, c)
                  /\ Present(work, <<StageOf(c), c[2]>>))
          \/ /\ StageOf(c) = s \/ (s = "policy" /\ c[1] = "policy")
             /\ s \in Rewritten \union {"policy"}
             /\ Present(work, c) \/ (c[1] = "policy" /\ Present(work, <<"credential", c[2]>>))
             /\ \E v \in Plain : work'.cell[c] = encryptField(v, task.to, c)
    <2> TAKE c \in Cell
    <2>1. work'.cell[c] = RewriteCell(work, task, s, c)
      BY <1>6
    <2>2. \/ /\ RewriteCell(work, task, s, c) = work.cell[c]
             /\ ~(StageOf(c) = s /\ s \in Rewritten /\ Present(work, c)
                  /\ Present(work, <<StageOf(c), c[2]>>))
          \/ /\ StageOf(c) = s \/ (s = "policy" /\ c[1] = "policy")
             /\ s \in Rewritten \union {"policy"}
             /\ Present(work, c) \/ (c[1] = "policy" /\ Present(work, <<"credential", c[2]>>))
             /\ \E v \in Plain : RewriteCell(work, task, s, c) = encryptField(v, task.to, c)
      <3>1. work \in Database /\ task \in Task
        BY <1>3
      <3>2. QED
        BY <3>1, RewriteCellIs
    <2>3. QED
      BY <2>1, <2>2, Zenon
  <1>8. \A c \in Cell : c = <<c[1], c[2]>> /\ c[2] \in Id /\ c # Unbound
    BY ConstantsAssumption DEF Cell, Unbound, AllField
  <1>9. RewriteInStep'
    <2>1. work'.salt = IF Done(task', "meta") THEN task'.salt ELSE disk'.salt
      BY <1>2, <1>3, <1>4, <1>6 DEF IInv, RewriteInStep
    <2>2. work'.token = IF Done(task', "token") THEN task'.to ELSE disk'.token
      BY <1>2, <1>3, <1>4, <1>6 DEF IInv, RewriteInStep
    <2>3. ASSUME NEW c \in Cell, c[1] \in Rewritten \union {"policy"}, Intact(work'.cell[c])
          PROVE  decrypts(work'.cell[c], IF Done(task', StageOf(c)) THEN task'.to ELSE disk'.token, c)
      <3>1. StageOf(c) \in Rewritten
        BY <2>3 DEF StageOf, Rewritten
      <3>2. CASE /\ work'.cell[c] = work.cell[c]
                 /\ ~(StageOf(c) = s /\ s \in Rewritten /\ Present(work, c)
                      /\ Present(work, <<StageOf(c), c[2]>>))
        <4>1. Present(work, c)
          BY <2>3, <3>2 DEF Intact, Present, NoBlob
        <4>2. Present(work, <<StageOf(c), c[2]>>)
          BY <1>8, <4>1 DEF IInv, RowsHaveOwner, StageOf
        <4>3. Done(task', StageOf(c)) <=> Done(task, StageOf(c))
          BY <1>4, <3>1, <3>2, <4>1, <4>2
        <4>4. decrypts(work.cell[c], IF Done(task, StageOf(c)) THEN task.to ELSE disk.token, c)
          BY <2>3, <3>2 DEF IInv, RewriteInStep
        <4>5. QED
          BY <1>2, <1>3, <3>2, <4>3, <4>4
      <3>3. CASE /\ StageOf(c) = s \/ (s = "policy" /\ c[1] = "policy")
                 /\ \E v \in Plain : work'.cell[c] = encryptField(v, task.to, c)
        <4>1. work'.cell[c].key = task.to /\ work'.cell[c].bound = c
          BY <3>3 DEF encryptField
        <4>2. Done(task', StageOf(c)) \/ task.to = disk.token
          BY <1>4, <1>5, <3>3 DEF IInv, TaskHasKeys
        <4>3. QED
          BY <1>2, <1>3, <2>3, <4>1, <4>2 DEF decrypts, Intact
      <3>4. QED
        BY <1>7, <3>2, <3>3
    <2>4. QED
      BY <2>1, <2>2, <2>3 DEF RewriteInStep
  <1>10. RowsHaveOwner(work)'
    <2>1. ASSUME work'.salt = 0, NEW c \in Cell PROVE ~Present(work', c)
      <3>1. work.salt = 0
        BY <1>5, <1>6, <2>1 DEF IInv, TaskHasKeys
      <3>2. \A d \in Cell : ~Present(work, d)
        BY <3>1 DEF IInv, RowsHaveOwner, vaultExists
      <3>3. c[1] = "policy" => <<"credential", c[2]>> \in Cell
        BY <1>8, ConstantsAssumption DEF Cell
      <3>4. work'.cell[c] = work.cell[c]
        BY <1>7, <3>2, <3>3
      <3>5. QED
        BY <3>2, <3>4 DEF Present
    <2>2. ASSUME NEW i \in Id, Present(work', <<"policy", i>>)
          PROVE  Present(work', <<"credential", i>>)
      <3>1. <<"policy", i>> \in Cell /\ <<"credential", i>> \in Cell
            /\ <<"policy", i>>[1] = "policy" /\ <<"policy", i>>[2] = i
        BY ConstantsAssumption DEF Cell
      <3>2. Present(work, <<"credential", i>>)
        <4>1. Present(work, <<"policy", i>>) \/ Present(work, <<"credential", i>>)
          BY <1>7, <2>2, <3>1 DEF Present
        <4>2. QED
          BY <4>1 DEF IInv, RowsHaveOwner
      <3>3. ASSUME NEW v PROVE encryptField(v, task.to, <<"credential", i>>) # NoBlob
        BY <1>8, <3>1 DEF encryptField, NoBlob
      <3>4. QED
        BY <1>7, <3>1, <3>2, <3>3 DEF Present
    <2>3. QED
      BY <2>1, <2>2 DEF RowsHaveOwner, vaultExists
  <1>11. TaskHasKeys'
    <2>1. ASSUME task.op = "create" PROVE work'.cell = disk.cell
      <3>1. s \notin Rewritten \union {"policy"}
        BY <1>5, <2>1 DEF Rewritten
      <3>2. \A c \in Cell : RewriteCell(work, task, s, c) = work.cell[c]
        BY <1>6, <1>7, <3>1
      <3>3. work.cell \in [Cell -> Blob]
        BY <1>3 DEF Database
      <3>4. work'.cell = work.cell
        BY <1>6, <3>2, <3>3
      <3>5. QED
        BY <2>1, <3>4 DEF IInv, TaskHasKeys
    <2>2. QED
      BY <1>2, <1>3, <2>1 DEF IInv, TaskHasKeys
  <1>12. VaultHasPassword' /\ RowsOpenWithVaultKey' /\ SessionHasVaultKey' /\ RowsHaveOwner(disk)'
    BY <1>2 DEF IInv, VaultHasPassword, RowsOpenWithVaultKey, SessionHasVaultKey, RowsHaveOwner
  <1>13. QED
    BY <1>1, <1>9, <1>10, <1>11, <1>12 DEF IInv

\* COMMIT installs a view in which every stage of the plan has run, so that the
\* salt, the token and all rows belong to the one new key.
LEMMA CommitSafe == IInv /\ Commit => IInv'
  <1> SUFFICES ASSUME IInv, Commit PROVE IInv'
    OBVIOUS
  <1>1. TypeOK /\ TypeOK'
    BY NextType DEF IInv, Next
  <1>2. /\ Ready(task) /\ disk' = work /\ work' = work /\ session' = task.to
        /\ task' = IF task.op \in {"create", "migrate"} THEN FillPolicies(task.to) ELSE Idle
    BY DEF Commit
  <1>3. task \in Task /\ task.op \in {"create", "migrate", "rekey", "policies"}
    BY <1>1, <1>2 DEF TypeOK, Task, Op, Ready
  <1>4. /\ Done(task, "token") <=> task.op \in {"create", "migrate", "rekey"}
        /\ Done(task, "meta") <=> task.op \in {"create", "rekey"}
        /\ \A s \in Rewritten : Done(task, s) <=> task.op \in {"migrate", "rekey"}
    BY <1>2, <1>3, AllDone
  <1>5. work.token = task.to
    BY <1>3, <1>4 DEF IInv, RewriteInStep, TaskHasKeys
  <1>6. vaultExists(work)
    BY <1>3, <1>4 DEF IInv, RewriteInStep, TaskHasKeys, vaultExists
  <1>7. \E p \in Password : work.token = deriveKey(p, work.salt)
    <2>1. CASE task.op \in {"create", "rekey"}
      BY <1>4, <2>1 DEF IInv, RewriteInStep, TaskHasKeys
    <2>2. CASE task.op \in {"migrate", "policies"}
      BY <1>4, <2>2 DEF IInv, RewriteInStep, TaskHasKeys, VaultHasPassword
    <2>3. QED
      BY <1>3, <2>1, <2>2
  <1>8. VaultHasPassword'
    BY <1>2, <1>6, <1>7 DEF VaultHasPassword, vaultExists
  <1>9. RowsOpenWithVaultKey'
    <2> SUFFICES ASSUME NEW c \in Cell, c[1] \in Rewritten \union {"policy"}, Intact(work.cell[c])
                 PROVE  decrypts(work.cell[c], work.token, c)
      BY <1>2 DEF RowsOpenWithVaultKey
    <2>1. decrypts(work.cell[c], IF Done(task, StageOf(c)) THEN task.to ELSE disk.token, c)
      BY DEF IInv, RewriteInStep
    <2>2. StageOf(c) \in Rewritten
      BY DEF StageOf, Rewritten
    <2>3. CASE task.op \in {"migrate", "rekey"}
      BY <1>4, <1>5, <2>1, <2>2, <2>3
    <2>4. CASE task.op = "policies"
      BY <1>5, <2>1, <2>4 DEF IInv, TaskHasKeys
    <2>5. CASE task.op = "create"
      BY <2>5 DEF IInv, TaskHasKeys, RowsHaveOwner, Present, Intact, NoBlob
    <2>6. QED
      BY <1>3, <2>3, <2>4, <2>5
  <1>10. RowsHaveOwner(disk)'
    BY <1>2 DEF IInv, RowsHaveOwner
  <1>11. SessionHasVaultKey' /\ TaskHasKeys' /\ task'.at = 1
    BY <1>2, <1>5, <1>6
    DEF SessionHasVaultKey, TaskHasKeys, Idle, FillPolicies, vaultExists
  <1>12. RewriteInStep' /\ RowsHaveOwner(work)'
    BY <1>2, <1>9, <1>10, <1>11, StartInStep
  <1>13. QED
    BY <1>1, <1>8, <1>9, <1>10, <1>11, <1>12 DEF IInv

\* Steps that start or drop a rewrite, or change the session alone.
LEMMA StartSafe ==
  ASSUME IInv, TypeOK', disk' = disk, work' = disk, task'.at = 1,
         SessionHasVaultKey', TaskHasKeys'
  PROVE  IInv'
  <1>1. VaultHasPassword' /\ RowsOpenWithVaultKey' /\ RowsHaveOwner(disk)'
    BY DEF IInv, VaultHasPassword, RowsOpenWithVaultKey, RowsHaveOwner
  <1>2. RewriteInStep' /\ RowsHaveOwner(work)'
    BY <1>1, StartInStep
  <1>3. QED
    BY <1>1, <1>2 DEF IInv

\* Steps that write rows: each row is kept, deleted, damaged, or sealed under
\* the vault's key.
LEMMA RowsSafe ==
  ASSUME IInv, TypeOK', task = Idle, task' = task, session' = session,
         vaultExists(disk), disk'.salt = disk.salt, disk'.token = disk.token, work' = disk',
         \A c \in Cell : \/ disk'.cell[c] = disk.cell[c]
                         \/ disk'.cell[c].key = NoKey
                         \/ disk'.cell[c].key = disk.token /\ disk'.cell[c].bound = c,
         \A i \in Id : Present(disk', <<"policy", i>>) => Present(disk', <<"credential", i>>)
  PROVE  IInv'
  <1>1. VaultHasPassword'
    BY DEF IInv, VaultHasPassword, vaultExists
  <1>2. RowsOpenWithVaultKey'
    <2> SUFFICES ASSUME NEW c \in Cell, c[1] \in Rewritten \union {"policy"}, Intact(disk'.cell[c])
                 PROVE  decrypts(disk'.cell[c], disk.token, c)
      BY DEF RowsOpenWithVaultKey
    <2>1. CASE disk'.cell[c] = disk.cell[c]
      BY <2>1 DEF IInv, RowsOpenWithVaultKey
    <2>2. CASE disk'.cell[c].key = disk.token /\ disk'.cell[c].bound = c
      BY <2>2 DEF decrypts, Intact
    <2>3. QED
      BY <2>1, <2>2 DEF Intact
  <1>3. RowsHaveOwner(disk)'
    BY DEF RowsHaveOwner, vaultExists
  <1>4. SessionHasVaultKey' /\ TaskHasKeys' /\ task'.at = 1
    BY DEF IInv, SessionHasVaultKey, TaskHasKeys, Idle
  <1>5. RewriteInStep' /\ RowsHaveOwner(work)'
    BY <1>2, <1>3, <1>4, StartInStep
  <1>6. QED
    BY <1>1, <1>2, <1>3, <1>4, <1>5 DEF IInv

\* A session is only open on a vault, and then has its key.
LEMMA SessionMeansVault ==
  ASSUME IInv, session # NoKey
  PROVE  vaultExists(disk) /\ session = disk.token
  BY DEF IInv, SessionHasVaultKey, VaultHasPassword

\* What a row-writing step leaves behind, cell by cell.
LEMMA CellsPresent ==
  ASSUME NEW c \in Cell, NEW v
  PROVE  Seal(c, v) # NoBlob /\ Garbled(c) # NoBlob
  <1>1. c # Unbound
    BY ConstantsAssumption DEF Cell, Unbound, AllField
  <1>2. QED
    BY <1>1 DEF Seal, encryptField, Garbled, NoBlob

\* Every step of the store preserves the invariant.
LEMMA NextSafe == IInv /\ [Next]_vars => IInv'
  <1> SUFFICES ASSUME IInv, [Next]_vars PROVE IInv'
    OBVIOUS
  <1>1. TypeOK /\ TypeOK' /\ disk \in Database
    BY NextType DEF IInv, TypeOK
  <1>2. task = Idle => task.op = "none" /\ task.at = 1
    BY DEF Idle
  <1>3. ASSUME NEW p \in Password, createVault(p) PROVE IInv'
    <2>1. SessionHasVaultKey' /\ TaskHasKeys' /\ task'.at = 1 /\ disk' = disk /\ work' = disk
      BY <1>1, <1>3 DEF createVault, Begin, SessionHasVaultKey, TaskHasKeys, vaultExists, TypeOK
    <2>2. QED
      BY <1>1, <2>1, StartSafe
  <1>4. ASSUME vaultExists(disk), session = NoKey, OpenWith(disk.token) PROVE IInv'
    <2>1. SessionHasVaultKey' /\ TaskHasKeys' /\ task'.at = 1 /\ disk' = disk /\ work' = disk
      BY <1>4 DEF OpenWith, Begin, FillPolicies, SessionHasVaultKey, TaskHasKeys, vaultExists
    <2>2. QED
      BY <1>1, <2>1, StartSafe
  <1>5. ASSUME NEW p \in Password, unlockVault(p) PROVE IInv'
    BY <1>4, <1>5 DEF unlockVault
  <1>6. ASSUME unlockWithDerivedKey PROVE IInv'
    <2>1. CASE quick = disk.token /\ OpenWith(quick)
      <3>1. vaultExists(disk) /\ session = NoKey
        BY <1>6, <2>1 DEF unlockWithDerivedKey, IInv, VaultHasPassword
      <3>2. QED
        BY <1>4, <2>1, <3>1
    <2>2. CASE UNCHANGED <<disk, work, task, session, salts, damage, truth>>
      <3>1. SessionHasVaultKey' /\ TaskHasKeys' /\ task'.at = 1 /\ disk' = disk /\ work' = disk
        BY <1>2, <1>6, <2>2 DEF unlockWithDerivedKey, IInv, SessionHasVaultKey, TaskHasKeys, vaultExists
      <3>2. QED
        BY <1>1, <3>1, StartSafe
    <2>3. QED
      BY <1>6, <2>1, <2>2 DEF unlockWithDerivedKey
  <1>7. ASSUME NEW p \in Password, NEW q \in Password, changeMasterPassword(p, q) PROVE IInv'
    <2>1. session = disk.token /\ vaultExists(disk) /\ salts + 1 # 0
      BY <1>1, <1>7, SessionMeansVault DEF changeMasterPassword, TypeOK
    <2>2. SessionHasVaultKey' /\ TaskHasKeys' /\ task'.at = 1 /\ disk' = disk /\ work' = disk
      BY <1>7, <2>1 DEF changeMasterPassword, Begin, SessionHasVaultKey, TaskHasKeys, vaultExists
    <2>3. QED
      BY <1>1, <2>2, StartSafe
  <1>8. ASSUME Rollback \/ Crash PROVE IInv'
    <2>1. SessionHasVaultKey' /\ TaskHasKeys' /\ task'.at = 1 /\ disk' = disk /\ work' = disk
      BY <1>8 DEF Rollback, Crash, IInv, SessionHasVaultKey, TaskHasKeys, Idle
    <2>2. QED
      BY <1>1, <2>1, StartSafe
  <1>9. ASSUME NEW c \in Cell, NEW v \in Value, saveCell(c, v) PROVE IInv'
    <2>1. vaultExists(disk) /\ session = disk.token /\ task = Idle /\ task' = task
          /\ session' = session /\ work' = disk'
      BY <1>9, SessionMeansVault DEF saveCell, InSession, Write
    <2>2. disk' = [disk EXCEPT !.cell[c] = Seal(c, v)] /\ c[1] \notin {"credential", "policy"}
      BY <1>9 DEF saveCell, Write
    <2>3. /\ disk'.salt = disk.salt /\ disk'.token = disk.token
          /\ \A d \in Cell : disk'.cell[d] = IF d = c THEN Seal(c, v) ELSE disk.cell[d]
      BY <1>1, <2>2 DEF Database
    <2>4. \A i \in Id : /\ <<"policy", i>> \in Cell /\ <<"credential", i>> \in Cell
                        /\ <<"policy", i>> # c /\ <<"credential", i>> # c
      BY <2>2, ConstantsAssumption DEF Cell
    <2>5. Seal(c, v).key = disk.token /\ Seal(c, v).bound = c
      BY <2>1 DEF Seal, encryptField
    <2>6. \A i \in Id : Present(disk', <<"policy", i>>) => Present(disk', <<"credential", i>>)
      BY <2>3, <2>4 DEF IInv, RowsHaveOwner, Present
    <2>7. QED
      BY <1>1, <2>1, <2>3, <2>5, <2>6, RowsSafe
  <1>10. ASSUME NEW i \in Id, NEW v \in Value, NEW level \in Level, NEW totp \in BOOLEAN,
                saveCredential(i, v, level, totp)
         PROVE  IInv'
    <2> DEFINE put == [c \in CredentialCells(i) |->
                         CASE c[1] = "policy" -> Seal(c, level)
                           [] c[1] = "totp" /\ ~totp -> NoBlob
                           [] OTHER -> Seal(c, v)]
    <2>1. vaultExists(disk) /\ session = disk.token /\ task = Idle /\ task' = task
          /\ session' = session /\ work' = disk'
      BY <1>10, SessionMeansVault DEF saveCredential, InSession, Write
    <2>2. disk' = [WithCells(put) EXCEPT !.allow[i] = (level = 3)]
      BY <1>10 DEF saveCredential, Write
    <2>3. CredentialCells(i) \subseteq Cell
      BY DEF CredentialCells
    <2>4. \A c \in CredentialCells(i) :
            /\ c[1] = "policy" => put[c] = Seal(c, level)
            /\ c[1] = "credential" => put[c] = Seal(c, v)
            /\ put[c] \in {Seal(c, level), Seal(c, v), NoBlob}
      BY Zenon
    <2> HIDE DEF put
    <2>5. DOMAIN put = CredentialCells(i)
      BY DEF put
    <2>6. /\ disk'.salt = disk.salt /\ disk'.token = disk.token
          /\ \A c \in Cell : disk'.cell[c] = IF c \in CredentialCells(i) THEN put[c] ELSE disk.cell[c]
      BY <1>1, <2>2, <2>5 DEF WithCells, Database
    <2>7. \A c \in Cell : /\ Seal(c, level).key = disk.token /\ Seal(c, level).bound = c
                          /\ Seal(c, v).key = disk.token /\ Seal(c, v).bound = c
      BY <2>1 DEF Seal, encryptField
    <2>8. NoBlob.key = NoKey
      BY DEF NoBlob
    <2>9. \A c \in Cell : \/ disk'.cell[c] = disk.cell[c]
                          \/ disk'.cell[c].key = NoKey
                          \/ disk'.cell[c].key = disk.token /\ disk'.cell[c].bound = c
      BY <2>4, <2>6, <2>7, <2>8
    <2>10. ASSUME NEW j \in Id, Present(disk', <<"policy", j>>)
           PROVE  Present(disk', <<"credential", j>>)
      <3>1. /\ <<"policy", j>> \in Cell /\ <<"credential", j>> \in Cell
            /\ <<"credential", j>> \in CredentialCells(i) <=> j = i
            /\ <<"policy", j>> \in CredentialCells(i) <=> j = i
        BY ConstantsAssumption DEF Cell, CredentialCells
      <3>2. CASE j = i
        <4>1. disk'.cell[<<"credential", j>>] = Seal(<<"credential", j>>, v)
          BY <2>4, <2>6, <3>1, <3>2
        <4>2. QED
          BY <3>1, <4>1, CellsPresent DEF Present
      <3>3. CASE j # i
        BY <2>6, <2>10, <3>1, <3>3 DEF IInv, RowsHaveOwner, Present
      <3>4. QED
        BY <3>2, <3>3
    <2>11. QED
      BY <1>1, <2>1, <2>6, <2>9, <2>10, RowsSafe
  <1>11. ASSUME NEW cells \in SUBSET Cell, NEW a \in [Id -> BOOLEAN], DeleteRows(cells, a),
                \A i \in Id : <<"credential", i>> \in cells => <<"policy", i>> \in cells
         PROVE  IInv'
    <2>1. vaultExists(disk) /\ session = disk.token /\ task = Idle /\ task' = task
          /\ session' = session /\ work' = disk'
      BY <1>11, SessionMeansVault DEF DeleteRows, InSession, Write
    <2>2. disk' = [WithCells([c \in cells |-> NoBlob]) EXCEPT !.allow = a]
      BY <1>11 DEF DeleteRows, Write
    <2>3. /\ disk'.salt = disk.salt /\ disk'.token = disk.token
          /\ \A c \in Cell : disk'.cell[c] = IF c \in cells THEN NoBlob ELSE disk.cell[c]
      BY <1>1, <2>2 DEF WithCells, Database
    <2>4. NoBlob.key = NoKey
      BY DEF NoBlob
    <2>5. \A i \in Id : <<"policy", i>> \in Cell /\ <<"credential", i>> \in Cell
      BY ConstantsAssumption DEF Cell
    <2>6. \A i \in Id : Present(disk', <<"policy", i>>) => Present(disk', <<"credential", i>>)
      BY <1>11, <2>3, <2>5 DEF IInv, RowsHaveOwner, Present
    <2>7. QED
      BY <1>1, <2>1, <2>3, <2>4, <2>6, RowsSafe
  <1>12. ASSUME NEW i \in Id, deleteNote(i) \/ deleteCredential(i) PROVE IInv'
    <2>1. NoteCells(i) \in SUBSET Cell /\ CredentialCells(i) \in SUBSET Cell
      BY DEF NoteCells, CredentialCells
    <2>2. disk.allow \in [Id -> BOOLEAN] /\ [disk.allow EXCEPT ![i] = FALSE] \in [Id -> BOOLEAN]
      BY <1>1 DEF Database
    <2>3. \A j \in Id : /\ <<"credential", j>> \notin NoteCells(i)
                        /\ <<"credential", j>> \in CredentialCells(i) => <<"policy", j>> \in CredentialCells(i)
      BY ConstantsAssumption DEF NoteCells, CredentialCells, Cell
    <2>4. QED
      BY <1>11, <1>12, <2>1, <2>2, <2>3 DEF deleteNote, deleteCredential
  <1>13. ASSUME \/ \E p \in Password : enableQuickUnlock(p)
                \/ lock
                \/ UNCHANGED vars
         PROVE  IInv'
    <2>1. CASE UNCHANGED vars
      BY <2>1 DEF vars, IInv, TypeOK, VaultHasPassword, RowsOpenWithVaultKey, SessionHasVaultKey,
                  RewriteInStep, RowsHaveOwner, TaskHasKeys
    <2>2. CASE (\E p \in Password : enableQuickUnlock(p)) \/ lock
      <3>1. /\ disk' = disk /\ work' = work /\ task' = task /\ task = Idle
            /\ session' \in {session, NoKey}
        BY <2>2 DEF enableQuickUnlock, lock, InSession
      <3>2. SessionHasVaultKey' /\ TaskHasKeys' /\ task'.at = 1 /\ work' = disk
        BY <1>2, <3>1 DEF IInv, SessionHasVaultKey, TaskHasKeys, vaultExists
      <3>3. QED
        BY <1>1, <3>1, <3>2, StartSafe
    <2>3. QED
      BY <1>13, <2>1, <2>2
  <1>14. ASSUME NEW c \in Cell, DamageBlob(c) PROVE IInv'
    <2>1. task = Idle /\ task' = task /\ session' = session /\ work' = disk' /\ Intact(disk.cell[c])
          /\ disk' = [disk EXCEPT !.cell[c] = Garbled(c)]
      BY <1>14 DEF DamageBlob, Write
    <2>2. /\ disk'.salt = disk.salt /\ disk'.token = disk.token
          /\ \A d \in Cell : disk'.cell[d] = IF d = c THEN Garbled(c) ELSE disk.cell[d]
      BY <1>1, <2>1 DEF Database
    <2>3. Present(disk, c) /\ Garbled(c).key = NoKey /\ Garbled(c) # NoBlob
      BY <2>1, CellsPresent DEF Intact, Present, NoBlob, Garbled
    <2>4. vaultExists(disk)
      BY <2>3 DEF IInv, RowsHaveOwner
    <2>5. \A i \in Id : <<"policy", i>> \in Cell /\ <<"credential", i>> \in Cell
      BY ConstantsAssumption DEF Cell
    <2>6. \A i \in Id : Present(disk', <<"policy", i>>) => Present(disk', <<"credential", i>>)
      BY <2>2, <2>3, <2>5 DEF IInv, RowsHaveOwner, Present
    <2>7. QED
      BY <1>1, <2>1, <2>2, <2>3, <2>4, <2>6, RowsSafe
  <1>15. QED
    BY <1>3, <1>5, <1>6, <1>7, <1>8, <1>9, <1>10, <1>12, <1>13, <1>14, WriteStageSafe, CommitSafe
    DEF Next, StatementFails

\* Whatever is interrupted, fails or is damaged: the vault opens with one
\* password, its rows open with it, and an open session has its key.
THEOREM Safety ==
  Spec => [](VaultHasPassword /\ RowsOpenWithVaultKey /\ SessionHasVaultKey /\ RewriteInStep)
  <1>1. IInv => VaultHasPassword /\ RowsOpenWithVaultKey /\ SessionHasVaultKey /\ RewriteInStep
    BY DEF IInv
  <1>2. QED
    BY InitSafe, NextSafe, <1>1, PTL DEF Spec

\* Whatever statement a password change, a migration or a creation stops at, one
\* password opens the vault (changeMasterPassword, verifyDerivedVaultKey).
THEOREM OnePassword == Spec => []VaultHasPassword
  BY Safety, PTL

\* No password change, wrapped key or crash leaves a session open with a key that is
\* not the vault's (unlockWithDerivedKey, VaultSession).
THEOREM RightKey == Spec => []SessionHasVaultKey
  BY Safety, PTL
=============================================================================
