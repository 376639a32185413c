------------------------ MODULE VaultContent_proofs ------------------------
(***************************************************************************)
(* What the vault of VaultStore says, for every set of passwords, rows and *)
(* values: rewriting it under another key or in another format changes     *)
(* nothing the user stored, and it keeps the promise of VaultPromise.      *)
(***************************************************************************)
EXTENDS VaultStore_proofs

----------------------------------------------------------------------------
(* The invariant: what a database with nothing under way says, and how far *)
(* from it the view of a transaction may be.                               *)

\* Undamaged rows hold what the user last stored in them.
Honest(db, t) ==
  \A c \in Cell : c[1] \in Rewritten /\ Intact(db.cell[c]) => db.cell[c].val = t[c]

\* A vault marked V2 binds every blob; one that is not has only rows of old.
Formatted(db) ==
  \A c \in Cell : Intact(db.cell[c]) => IF db.v2 THEN db.cell[c].bound = c ELSE c[1] \in Rewritten

\* A credential's policy is no wider than the user's, and the clear column agrees.
Policied(db, t) ==
  \A i \in Id :
    /\ db.cell[<<"policy", i>>].val \in Level /\ t[<<"policy", i>>] \in Level
    /\ Present(db, <<"credential", i>>) =>
         /\ Present(db, <<"policy", i>>) => db.cell[<<"policy", i>>].val <= t[<<"policy", i>>]
         /\ db.allow[i] => t[<<"policy", i>>] = 3
         /\ ~Present(db, <<"policy", i>>) => t[<<"policy", i>>] = ClearLevel(db, i)

Sound(db, t) == Honest(db, t) /\ Formatted(db) /\ Policied(db, t)

\* A rewrite seals the rows it found again, all of which it could open.
RowsInStep ==
  /\ \A c \in Cell : c[1] \in Rewritten =>
       /\ Present(work, c) <=> Present(disk, c)
       /\ Intact(work.cell[c]) <=> Intact(disk.cell[c])
       /\ work.cell[c].val = disk.cell[c].val
  /\ task.op \in {"migrate", "rekey"} =>
       \A c \in Cell : c[1] \in Rewritten /\ Present(disk, c) => Intact(disk.cell[c])

\* In its view the rows done are bound, and only rewrites of V2 vaults have others.
FormatInStep ==
  /\ work.v2 <=> disk.v2 \/ Done(task, "format")
  /\ \A c \in Cell : Intact(work.cell[c]) =>
       /\ disk.v2 \/ c[1] \in Rewritten \union {"policy"}
       /\ disk.v2 \/ Done(task, StageOf(c)) => work.cell[c].bound = c
  /\ session # NoKey => disk.v2

CInv ==
  /\ IInv
  /\ Sound(disk, truth)
  /\ RowsInStep /\ FormatInStep
  /\ Policied(work, truth) /\ work.allow = disk.allow

----------------------------------------------------------------------------
(* Starting and committing.                                                *)

\* A cell is a column and a row.
LEMMA CellParts ==
  /\ \A c \in Cell : c = <<c[1], c[2]>> /\ c[1] \in Field /\ c[2] \in Id
  /\ \A i \in Id, f \in Rewritten \union {"policy"} : <<f, i>> \in Cell
  /\ Rewritten \X Id \subseteq Cell
BY ConstantsAssumption DEF Cell, Rewritten

\* What is damaged or there is there.
LEMMA IntactIsPresent ==
  ASSUME NEW db, NEW c, Intact(db.cell[c])
  PROVE  Present(db, c)
BY DEF Intact, Present, NoBlob

\* With nothing under way, a sound database is all there is to show.
LEMMA StartContent ==
  ASSUME IInv', work' = disk', task'.at = 1, Sound(disk', truth'), session' # NoKey => disk'.v2,
         task'.op \in {"migrate", "rekey"} =>
           \A c \in Cell : c[1] \in Rewritten /\ Present(disk', c) => Intact(disk'.cell[c])
  PROVE  CInv'
  <1>1. \A s : ~Done(task', s)
    BY NothingDone
  <1>2. RowsInStep'
    BY DEF RowsInStep, Present
  <1>3. FormatInStep'
    <2>1. disk'.v2 \in BOOLEAN
      BY DEF IInv, TypeOK, Database
    <2>2. QED
      BY <1>1, <2>1 DEF FormatInStep, Sound, Formatted
  <1>4. Sound(disk, truth)' /\ Policied(work, truth)' /\ work'.allow = disk'.allow
    BY DEF Sound, Policied, Honest, Formatted, Present, ClearLevel
  <1>5. QED
    BY <1>2, <1>3, <1>4 DEF CInv

\* The databases the program can start with say what was stored.
LEMMA InitContent == Init => CInv
  <1> SUFFICES ASSUME Init PROVE CInv
    OBVIOUS
  <1> USE ConstantsAssumption
  <1>1. IInv /\ work = disk /\ task = Idle /\ session = NoKey /\ truth = StoredTruth(disk)
    BY InitSafe DEF Init
  <1>2. \A c \in Cell : truth[c] = IF c[1] = "policy" /\ Present(disk, <<"credential", c[2]>>)
                                   THEN ClearLevel(disk, c[2]) ELSE disk.cell[c].val
    BY <1>1 DEF StoredTruth
  <1>3. Honest(disk, truth)
    BY <1>2 DEF Honest, Rewritten
  <1>4. Formatted(disk) /\ \A i \in Id : ~Present(disk, <<"policy", i>>)
    <2>1. CASE disk = EmptyDatabase
      BY <2>1, CellParts DEF EmptyDatabase, Formatted, NoBlob, Intact, Present
    <2>2. ASSUME NEW p \in Password, NEW v2 \in BOOLEAN, NEW a \in [Id -> BOOLEAN],
                 NEW rows \in OlderRows, disk = OlderVault(p, v2, a, rows)
          PROVE  Formatted(disk) /\ \A i \in Id : ~Present(disk, <<"policy", i>>)
      <3> DEFINE w == CHOOSE v \in Value : TRUE
                 old(c) == [key |-> <<p, 1>>, bound |-> IF v2 THEN c ELSE Unbound, val |-> w]
      <3>1. /\ disk.v2 = v2
            /\ \A c \in Cell : disk.cell[c] = IF c \in rows THEN old(c) ELSE NoBlob
        BY <2>2 DEF OlderVault
      <3> HIDE DEF w
      <3>2. \A c : v2 => old(c).bound = c
        OBVIOUS
      <3> HIDE DEF old
      <3>3. \A c \in rows : c[1] \in Rewritten
        BY DEF OlderRows
      <3>4. \A c \in Cell : c \notin rows => ~Intact(disk.cell[c]) /\ ~Present(disk, c)
        BY <3>1 DEF Intact, NoBlob, Present
      <3>5. Formatted(disk)
        BY <3>1, <3>2, <3>3, <3>4 DEF Formatted
      <3>6. \A i \in Id : <<"policy", i>> \notin rows /\ <<"policy", i>> \in Cell
        BY <3>3, CellParts DEF Rewritten
      <3>7. QED
        BY <3>4, <3>5, <3>6
    <2>3. QED
      BY <2>1, <2>2 DEF Init
  <1>5. Policied(disk, truth)
    <2> SUFFICES ASSUME NEW i \in Id
                 PROVE  /\ disk.cell[<<"policy", i>>].val \in Level /\ truth[<<"policy", i>>] \in Level
                        /\ Present(disk, <<"credential", i>>) =>
                             /\ disk.allow[i] => truth[<<"policy", i>>] = 3
                             /\ truth[<<"policy", i>>] = ClearLevel(disk, i)
      BY <1>4 DEF Policied
    <2>1. disk.cell[<<"policy", i>>] = NoBlob /\ <<"policy", i>> \in Cell
      BY <1>4, CellParts DEF Present
    <2>2. truth[<<"policy", i>>] = IF Present(disk, <<"credential", i>>) THEN ClearLevel(disk, i) ELSE 0
      BY <1>2, <2>1 DEF NoBlob
    <2>3. QED
      BY <2>1, <2>2 DEF NoBlob, Level, ClearLevel
  <1>6. QED
    <2>1. Sound(disk, truth) /\ Policied(work, truth)
      BY <1>1, <1>3, <1>4, <1>5 DEF Sound
    <2>2. \A s : ~Done(task, s)
      BY <1>1, NothingDone
    <2>3. RowsInStep
      BY <1>1 DEF RowsInStep, Idle
    <2>4. FormatInStep
      BY <1>1, <2>1, <2>2 DEF FormatInStep, Sound, Formatted, IInv, TypeOK, Database
    <2>5. QED
      BY <1>1, <2>1, <2>3, <2>4 DEF CInv

\* COMMIT installs what the user stored.
LEMMA CommitContent == CInv /\ Commit => CInv'
  <1> SUFFICES ASSUME CInv, Commit PROVE CInv'
    OBVIOUS
  <1>1. IInv /\ IInv' /\ TypeOK
    BY CommitSafe DEF CInv, IInv
  <1>2. /\ Ready(task) /\ disk' = work /\ work' = work /\ session' = task.to /\ truth' = truth
        /\ task' = IF task.op \in {"create", "migrate"} THEN FillPolicies(task.to) ELSE Idle
    BY DEF Commit
  <1>3. task \in Task /\ task.op \in {"create", "migrate", "rekey", "policies"}
    BY <1>1, <1>2 DEF TypeOK, Task, Op, Ready
  <1>4. /\ task.op \in {"create", "migrate"} => Done(task, "format")
        /\ \A s \in Rewritten : Done(task, s) <=> task.op \in {"migrate", "rekey"}
    <2>1. task.at \in 1..6 /\ task.at > Len(Plan[task.op])
      BY <1>2, <1>3 DEF Task, Ready
    <2>2. ASSUME task.op = "create" PROVE Done(task, "format")
      <3>1. Len(Plan[task.op]) = 3 /\ Plan[task.op][3] = "format" /\ 3 < task.at
        BY <2>1, <2>2 DEF Plan
      <3>2. 3 \in 1..5 /\ 3 <= 3
        OBVIOUS
      <3>3. QED
        BY <3>1, <3>2, Zenon DEF Done
    <2>3. ASSUME task.op = "migrate" PROVE Done(task, "format")
      <3>1. Len(Plan[task.op]) = 5 /\ Plan[task.op][5] = "format" /\ 5 < task.at
        BY <2>1, <2>3 DEF Plan
      <3>2. 5 \in 1..5 /\ 5 <= 5
        OBVIOUS
      <3>3. QED
        BY <3>1, <3>2, Zenon DEF Done
    <2>4. QED
      BY <1>2, <1>3, <2>2, <2>3, AllDone
  <1>5. task.op \in {"rekey", "policies"} => disk.v2
    <2>1. task.op \in {"rekey", "policies"} => vaultExists(disk) /\ session = disk.token
      BY <1>1 DEF IInv, TaskHasKeys
    <2>2. vaultExists(disk) => disk.token # NoKey
      BY <1>1, ConstantsAssumption DEF IInv, VaultHasPassword, deriveKey, NoKey
    <2>3. QED
      BY <2>1, <2>2 DEF CInv, FormatInStep
  <1>6. work.v2
    BY <1>3, <1>4, <1>5 DEF CInv, FormatInStep
  <1>7. Formatted(work)
    <2> SUFFICES ASSUME NEW c \in Cell, Intact(work.cell[c]), ~disk.v2 PROVE work.cell[c].bound = c
      BY <1>6 DEF Formatted, CInv, FormatInStep
    <2>1. task.op \in {"create", "migrate"} /\ Present(work, c)
      BY <1>3, <1>5, IntactIsPresent
    <2>2. task.op # "create"
      BY <1>1, <2>1 DEF IInv, TaskHasKeys, RowsHaveOwner, Present
    <2>3. StageOf(c) \in Rewritten
      BY DEF CInv, FormatInStep, StageOf, Rewritten
    <2>4. QED
      BY <1>4, <2>1, <2>2, <2>3 DEF CInv, FormatInStep
  <1>8. Honest(work, truth)
    BY DEF CInv, Sound, Honest, RowsInStep
  <1>9. Sound(disk', truth')
    BY <1>2, <1>7, <1>8 DEF Sound, CInv
  <1>10. task'.at = 1 /\ task'.op \notin {"migrate", "rekey"}
    BY <1>2 DEF FillPolicies, Idle
  <1>11. QED
    BY <1>1, <1>2, <1>6, <1>9, <1>10, StartContent

----------------------------------------------------------------------------
(* One statement of a rewrite.                                             *)

\* What a rewrite puts in a cell, stage by stage.
LEMMA RewriteCases ==
  ASSUME NEW db, NEW t, NEW s, NEW c \in Cell
  PROVE  /\ s \in Rewritten /\ c[1] = s /\ Present(db, c)
              => RewriteCell(db, t, s, c) = encryptField(db.cell[c].val, t.to, c)
         /\ s = "credential" /\ c[1] = "policy" /\ Present(db, <<"credential", c[2]>>)
              => RewriteCell(db, t, s, c) = encryptField(PolicyByte(db, t, c[2]), t.to, c)
         /\ s = "policy" /\ c[1] = "policy" /\ Present(db, <<"credential", c[2]>>) /\ ~Present(db, c)
              => RewriteCell(db, t, s, c) = encryptField(ClearLevel(db, c[2]), t.to, c)
         /\ \/ RewriteCell(db, t, s, c) = db.cell[c]
            \/ s \in Rewritten /\ c[1] = s /\ Present(db, c)
            \/ s = "credential" /\ c[1] = "policy" /\ Present(db, <<"credential", c[2]>>)
            \/ s = "policy" /\ c[1] = "policy" /\ Present(db, <<"credential", c[2]>>) /\ ~Present(db, c)
  <1>1. ASSUME s \in Rewritten, c[1] = s, Present(db, c)
        PROVE  RewriteCell(db, t, s, c) = encryptField(db.cell[c].val, t.to, c)
    BY <1>1, Zenon DEF RewriteCell, Rewritten
  <1>2. ASSUME s = "credential", c[1] = "policy", Present(db, <<"credential", c[2]>>)
        PROVE  RewriteCell(db, t, s, c) = encryptField(PolicyByte(db, t, c[2]), t.to, c)
    BY <1>2, Zenon DEF RewriteCell, Rewritten
  <1>3. ASSUME s = "policy", c[1] = "policy", Present(db, <<"credential", c[2]>>), ~Present(db, c)
        PROVE  RewriteCell(db, t, s, c) = encryptField(ClearLevel(db, c[2]), t.to, c)
    BY <1>3, Zenon DEF RewriteCell, Rewritten
  <1>4. ASSUME ~(s \in Rewritten /\ c[1] = s /\ Present(db, c)),
               ~(s = "credential" /\ c[1] = "policy" /\ Present(db, <<"credential", c[2]>>)),
               ~(s = "policy" /\ c[1] = "policy" /\ Present(db, <<"credential", c[2]>>) /\ ~Present(db, c))
        PROVE  RewriteCell(db, t, s, c) = db.cell[c]
    BY <1>4, Zenon DEF RewriteCell
  <1>5. QED
    BY <1>1, <1>2, <1>3, <1>4, Zenon

\* The policy byte of a rewrite is no wider than the policy.
LEMMA PolicyByteKept ==
  ASSUME NEW db \in Database, NEW t, NEW u, NEW i \in Id, Policied(db, u),
         Present(db, <<"credential", i>>)
  PROVE  PolicyByte(db, t, i) \in Level /\ PolicyByte(db, t, i) <= u[<<"policy", i>>]
  <1> DEFINE b == db.cell[<<"policy", i>>]
             level == u[<<"policy", i>>]
  <1>1. /\ b.val \in 0..3 /\ level \in 0..3 /\ db.allow[i] \in BOOLEAN
        /\ Present(db, <<"policy", i>>) => b.val <= level
        /\ db.allow[i] => level = 3
    BY DEF Policied, Database, Level
  <1>2. decrypts(b, t.from, <<"policy", i>>) => Present(db, <<"policy", i>>)
    BY DEF decrypts, Present, NoBlob
  <1>3. CASE t.op = "rekey" /\ decrypts(b, t.from, <<"policy", i>>)
    <2>1. PolicyByte(db, t, i) = IF b.val # 0 THEN 1 ELSE 0
      BY <1>3 DEF PolicyByte
    <2>2. QED
      BY <1>1, <1>2, <1>3, <2>1 DEF Level
  <1>4. CASE ~(t.op = "rekey" /\ decrypts(b, t.from, <<"policy", i>>))
    <2>1. PolicyByte(db, t, i) = IF db.allow[i] THEN 1 ELSE 0
      BY <1>4 DEF PolicyByte
    <2>2. QED
      BY <1>1, <2>1 DEF Level
  <1>5. QED
    BY <1>3, <1>4

\* The key a rewrite seals with is one.
LEMMA TaskKey ==
  ASSUME IInv, task.op \in {"migrate", "rekey", "policies"}
  PROVE  task.to # NoKey
  <1>1. vaultExists(disk) => disk.token # NoKey
    BY ConstantsAssumption DEF IInv, VaultHasPassword, deriveKey, NoKey
  <1>2. task.op = "rekey" => task.to # NoKey
    BY DEF IInv, TaskHasKeys, deriveKey, NoKey
  <1>3. QED
    BY <1>1, <1>2 DEF IInv, TaskHasKeys

\* The next statement of a rewrite changes no content.
LEMMA WriteStageContent == CInv /\ WriteStage => CInv'
  <1> SUFFICES ASSUME CInv, WriteStage PROVE CInv'
    OBVIOUS
  <1> DEFINE s == Plan[task.op][task.at]
  <1>1. IInv /\ IInv' /\ TypeOK /\ TypeOK'
    BY WriteStageSafe DEF CInv, IInv
  <1>2. /\ UNCHANGED <<disk, session, truth>>
        /\ task.op # "none" /\ ~Ready(task)
        /\ task' = [task EXCEPT !.at = @ + 1]
        /\ work' = Rewrite(work, task, s)
    BY DEF WriteStage
  <1>3. /\ task \in Task /\ task' \in Task /\ work \in Database /\ work' \in Database
        /\ task'.op = task.op /\ task'.at = task.at + 1 /\ task'.to = task.to /\ task'.salt = task.salt
    BY <1>1, <1>2 DEF TypeOK, Task
  <1>4. \A x : Done(task', x) <=> Done(task, x) \/ x = s
    BY <1>2, <1>3, OneMoreDone
  <1>5. /\ s \in {"meta", "token", "format", "note", "attachment", "credential", "policy"}
        /\ s = "policy" => task.op = "policies"
        /\ s \in Rewritten => task.op \in {"migrate", "rekey"}
    BY <1>2, <1>3, StageAllowed
  <1>6. /\ work'.v2 = IF s = "format" THEN TRUE ELSE work.v2
        /\ work'.allow = work.allow
        /\ work'.cell = [c \in Cell |-> RewriteCell(work, task, s, c)]
    BY <1>2 DEF Rewrite
  <1> HIDE DEF s
  <1>7. \A c \in Cell :
          /\ s \in Rewritten /\ c[1] = s /\ Present(work, c)
               => work'.cell[c] = encryptField(work.cell[c].val, task.to, c)
          /\ s = "credential" /\ c[1] = "policy" /\ Present(work, <<"credential", c[2]>>)
               => work'.cell[c] = encryptField(PolicyByte(work, task, c[2]), task.to, c)
          /\ s = "policy" /\ c[1] = "policy" /\ Present(work, <<"credential", c[2]>>) /\ ~Present(work, c)
               => work'.cell[c] = encryptField(ClearLevel(work, c[2]), task.to, c)
          /\ \/ work'.cell[c] = work.cell[c]
             \/ s \in Rewritten /\ c[1] = s /\ Present(work, c)
             \/ s = "credential" /\ c[1] = "policy" /\ Present(work, <<"credential", c[2]>>)
             \/ s = "policy" /\ c[1] = "policy" /\ Present(work, <<"credential", c[2]>>) /\ ~Present(work, c)
    <2> TAKE c \in Cell
    <2>1. work'.cell[c] = RewriteCell(work, task, s, c)
      BY <1>6
    <2>2. /\ s \in Rewritten /\ c[1] = s /\ Present(work, c)
               => RewriteCell(work, task, s, c) = encryptField(work.cell[c].val, task.to, c)
          /\ s = "credential" /\ c[1] = "policy" /\ Present(work, <<"credential", c[2]>>)
               => RewriteCell(work, task, s, c) = encryptField(PolicyByte(work, task, c[2]), task.to, c)
          /\ s = "policy" /\ c[1] = "policy" /\ Present(work, <<"credential", c[2]>>) /\ ~Present(work, c)
               => RewriteCell(work, task, s, c) = encryptField(ClearLevel(work, c[2]), task.to, c)
          /\ \/ RewriteCell(work, task, s, c) = work.cell[c]
             \/ s \in Rewritten /\ c[1] = s /\ Present(work, c)
             \/ s = "credential" /\ c[1] = "policy" /\ Present(work, <<"credential", c[2]>>)
             \/ s = "policy" /\ c[1] = "policy" /\ Present(work, <<"credential", c[2]>>) /\ ~Present(work, c)
      BY RewriteCases
    <2>3. QED
      BY <2>1, <2>2, Zenon
  <1>8. s \in Rewritten \union {"policy"} => task.to # NoKey
    BY <1>1, <1>5, TaskKey
  <1>9. \A c \in Cell : \A v : /\ encryptField(v, task.to, c).key = task.to
                               /\ encryptField(v, task.to, c).bound = c
                               /\ encryptField(v, task.to, c).val = v
                               /\ encryptField(v, task.to, c) # NoBlob
    <2>1. \A c \in Cell : c # Unbound
      BY ConstantsAssumption DEF Cell, Unbound, AllField
    <2>2. QED
      BY <2>1 DEF encryptField, NoBlob
  <1>10. RowsInStep'
    <2>1. ASSUME NEW c \in Cell, c[1] \in Rewritten
          PROVE  /\ Present(work', c) <=> Present(disk, c)
                 /\ Intact(work'.cell[c]) <=> Intact(disk.cell[c])
                 /\ work'.cell[c].val = disk.cell[c].val
      <3>1. /\ Present(work, c) <=> Present(disk, c)
            /\ Intact(work.cell[c]) <=> Intact(disk.cell[c])
            /\ work.cell[c].val = disk.cell[c].val
        BY <2>1 DEF CInv, RowsInStep
      <3>2. CASE work'.cell[c] = work.cell[c]
        BY <3>1, <3>2 DEF Present
      <3>3. CASE s \in Rewritten /\ c[1] = s /\ Present(work, c)
        <4>1. work'.cell[c] = encryptField(work.cell[c].val, task.to, c)
          BY <1>7, <3>3
        <4>2. Intact(disk.cell[c])
          BY <1>5, <2>1, <3>1, <3>3 DEF CInv, RowsInStep
        <4>3. QED
          BY <1>8, <1>9, <3>1, <3>3, <4>1, <4>2 DEF Present, Intact
      <3>4. QED
        BY <1>7, <2>1, <3>2, <3>3 DEF Rewritten
    <2>2. QED
      BY <1>2, <1>3, <2>1 DEF CInv, RowsInStep, Present
  <1>11. FormatInStep'
    <2>1. work'.v2 <=> disk'.v2 \/ Done(task', "format")
      BY <1>2, <1>4, <1>6 DEF CInv, FormatInStep
    <2>2. ASSUME NEW c \in Cell, Intact(work'.cell[c])
          PROVE  /\ disk.v2 \/ c[1] \in Rewritten \union {"policy"}
                 /\ disk.v2 \/ Done(task', StageOf(c)) => work'.cell[c].bound = c
      <3>1. CASE work'.cell[c] = work.cell[c]
        <4>1. /\ disk.v2 \/ c[1] \in Rewritten \union {"policy"}
              /\ disk.v2 \/ Done(task, StageOf(c)) => work.cell[c].bound = c
          BY <2>2, <3>1 DEF CInv, FormatInStep
        <4>2. Present(work, c)
          BY <2>2, <3>1 DEF Intact, Present, NoBlob
        <4>3. ASSUME StageOf(c) = s, ~disk.v2 PROVE work'.cell[c].bound = c
          <5>1. CASE c[1] = "policy"
            <6>1. Present(work, <<"credential", c[2]>>) /\ s = "credential"
              BY <1>1, <4>2, <4>3, <5>1, CellParts DEF IInv, RowsHaveOwner, StageOf
            <6>2. work'.cell[c] = encryptField(PolicyByte(work, task, c[2]), task.to, c)
              BY <1>7, <5>1, <6>1
            <6>3. QED
              BY <1>9, <6>2
          <5>2. CASE c[1] \in Rewritten
            <6>1. s = c[1]
              BY <4>3, <5>2 DEF StageOf, Rewritten
            <6>2. work'.cell[c] = encryptField(work.cell[c].val, task.to, c)
              BY <1>7, <4>2, <5>2, <6>1
            <6>3. QED
              BY <1>9, <6>2
          <5>3. QED
            BY <4>1, <4>3, <5>1, <5>2
        <4>4. ASSUME disk.v2 \/ Done(task', StageOf(c)) PROVE work'.cell[c].bound = c
          BY <1>4, <3>1, <4>1, <4>3, <4>4
        <4>5. QED
          BY <4>1, <4>4
      <3>2. CASE c[1] \in Rewritten \union {"policy"} /\ \E v : work'.cell[c] = encryptField(v, task.to, c)
        BY <1>9, <3>2
      <3>3. QED
        BY <1>7, <3>1, <3>2
    <2>3. QED
      BY <1>2, <2>1, <2>2 DEF CInv, FormatInStep
  <1>12. Policied(work', truth)
    <2> SUFFICES ASSUME NEW i \in Id
                 PROVE  /\ work'.cell[<<"policy", i>>].val \in Level /\ truth[<<"policy", i>>] \in Level
                        /\ Present(work', <<"credential", i>>) =>
                             /\ Present(work', <<"policy", i>>) => work'.cell[<<"policy", i>>].val <= truth[<<"policy", i>>]
                             /\ work'.allow[i] => truth[<<"policy", i>>] = 3
                             /\ ~Present(work', <<"policy", i>>) => truth[<<"policy", i>>] = ClearLevel(work', i)
      BY DEF Policied
    <2> DEFINE pol == <<"policy", i>>
               crd == <<"credential", i>>
    <2>1. pol \in Cell /\ crd \in Cell /\ pol[1] = "policy" /\ pol[2] = i /\ crd[1] = "credential"
      BY CellParts DEF Rewritten
    <2>2. /\ work.cell[pol].val \in Level /\ truth[pol] \in Level
          /\ Present(work, crd) =>
               /\ Present(work, pol) => work.cell[pol].val <= truth[pol]
               /\ work.allow[i] => truth[pol] = 3
               /\ ~Present(work, pol) => truth[pol] = ClearLevel(work, i)
      BY DEF CInv, Policied
    <2>3. Present(work', crd) <=> Present(work, crd)
      BY <1>2, <1>10, <2>1 DEF CInv, RowsInStep, Rewritten
    <2>4. ClearLevel(work', i) = ClearLevel(work, i)
      BY <1>6 DEF ClearLevel
    <2> HIDE DEF pol, crd
    <2>5. CASE work'.cell[pol] = work.cell[pol]
      <3>1. Present(work', pol) <=> Present(work, pol)
        BY <2>5 DEF Present
      <3>2. QED
        BY <1>6, <2>2, <2>3, <2>4, <2>5, <3>1 DEF pol, crd
    <2>6. CASE Present(work, crd) /\ work'.cell[pol] = encryptField(PolicyByte(work, task, i), task.to, pol)
      <3>1. PolicyByte(work, task, i) \in Level /\ PolicyByte(work, task, i) <= truth[pol]
        BY <1>3, <2>6, PolicyByteKept DEF CInv, pol, crd
      <3>2. work'.cell[pol].val = PolicyByte(work, task, i) /\ Present(work', pol)
        BY <1>9, <2>1, <2>6 DEF Present
      <3>3. QED
        BY <1>6, <2>2, <2>6, <3>1, <3>2 DEF pol, crd
    <2>7. CASE /\ Present(work, crd) /\ ~Present(work, pol)
               /\ work'.cell[pol] = encryptField(ClearLevel(work, i), task.to, pol)
      <3>1. ClearLevel(work, i) = truth[pol] /\ truth[pol] \in Level
        BY <2>2, <2>7
      <3>2. work'.cell[pol].val = truth[pol] /\ Present(work', pol)
        BY <1>9, <2>1, <2>7, <3>1 DEF Present
      <3>3. truth[pol] <= truth[pol]
        BY <3>1 DEF Level
      <3>4. QED
        BY <1>6, <2>2, <2>7, <3>1, <3>2, <3>3 DEF pol, crd
    <2>8. QED
      <3>1. \/ work'.cell[pol] = work.cell[pol]
            \/ s = "credential" /\ Present(work, <<"credential", pol[2]>>)
            \/ s = "policy" /\ Present(work, <<"credential", pol[2]>>) /\ ~Present(work, pol)
        BY <1>7, <2>1 DEF Rewritten
      <3>2. s = "credential" /\ Present(work, <<"credential", pol[2]>>)
              => work'.cell[pol] = encryptField(PolicyByte(work, task, pol[2]), task.to, pol)
        BY <1>7, <2>1
      <3>3. s = "policy" /\ Present(work, <<"credential", pol[2]>>) /\ ~Present(work, pol)
              => work'.cell[pol] = encryptField(ClearLevel(work, pol[2]), task.to, pol)
        BY <1>7, <2>1
      <3>4. pol[2] = i /\ crd = <<"credential", i>>
        BY <2>1 DEF crd
      <3>5. QED
        BY <2>5, <2>6, <2>7, <3>1, <3>2, <3>3, <3>4
  <1>13. Sound(disk', truth') /\ Policied(work', truth') /\ work'.allow = disk'.allow
    BY <1>2, <1>6, <1>12 DEF CInv
  <1>14. QED
    BY <1>1, <1>10, <1>11, <1>13 DEF CInv, Sound, Policied, Honest, Formatted, Present, ClearLevel

----------------------------------------------------------------------------
(* The other steps.                                                        *)

\* Steps that start or drop a rewrite, or change the session alone.
LEMMA StartKeepsContent ==
  ASSUME CInv, IInv', disk' = disk, truth' = truth, work' = disk, task'.at = 1,
         session' # NoKey => disk.v2,
         task'.op \in {"migrate", "rekey"} => \E k : AllDecrypt(disk, k)
  PROVE  CInv'
  <1>1. Sound(disk', truth')
    BY DEF CInv, Sound, Honest, Formatted, Policied, Present, ClearLevel
  <1>2. task'.op \in {"migrate", "rekey"} =>
          \A c \in Cell : c[1] \in Rewritten /\ Present(disk', c) => Intact(disk'.cell[c])
    BY DEF AllDecrypt, decrypts, Intact, Present
  <1>3. QED
    BY <1>1, <1>2, StartContent

\* Steps of an open session that write rows.
LEMMA RowsContent ==
  ASSUME CInv, IInv', task = Idle, task' = task, session' = session, work' = disk', disk'.v2 = disk.v2,
         Sound(disk', truth')
  PROVE  CInv'
  <1>1. task'.at = 1 /\ task'.op = "none"
    BY DEF Idle
  <1>2. QED
    BY <1>1, StartContent DEF CInv, FormatInStep

\* Each step keeps the invariant.
LEMMA NextContent == CInv /\ [Next]_vars => CInv'
  <1> SUFFICES ASSUME CInv, [Next]_vars PROVE CInv'
    OBVIOUS
  <1>1. IInv /\ IInv' /\ TypeOK /\ disk \in Database
    BY NextSafe DEF CInv, IInv, TypeOK
  <1>2. task = Idle => task.op = "none" /\ task.at = 1 /\ work = disk
    BY <1>1 DEF Idle, IInv, TaskHasKeys
  <1>3. ASSUME NEW p \in Password, createVault(p) PROVE CInv'
    <2>1. disk' = disk /\ truth' = truth /\ work' = disk /\ task'.at = 1 /\ task'.op = "create" /\ session' = NoKey
      BY <1>3 DEF createVault, Begin
    <2>2. QED
      BY <1>1, <2>1, StartKeepsContent
  <1>4. ASSUME NEW k, OpenWith(k), session = NoKey PROVE CInv'
    <2>1. /\ disk' = disk /\ truth' = truth /\ work' = disk /\ task'.at = 1 /\ (session' # NoKey => disk.v2)
          /\ task'.op \in {"migrate", "rekey"} => AllDecrypt(disk, k)
      BY <1>4 DEF OpenWith, Begin, FillPolicies
    <2>2. QED
      BY <1>1, <2>1, StartKeepsContent
  <1>5. ASSUME NEW p \in Password, unlockVault(p) PROVE CInv'
    BY <1>4, <1>5 DEF unlockVault
  <1>6. ASSUME unlockWithDerivedKey PROVE CInv'
    <2>1. CASE OpenWith(quick)
      BY <1>4, <1>6, <2>1 DEF unlockWithDerivedKey
    <2>2. CASE task = Idle /\ UNCHANGED <<disk, work, task, session, salts, damage, truth>>
      BY <1>1, <1>2, <2>2, StartKeepsContent DEF CInv, FormatInStep
    <2>3. QED
      BY <1>6, <2>1, <2>2 DEF unlockWithDerivedKey
  <1>7. ASSUME NEW p \in Password, NEW q \in Password, changeMasterPassword(p, q) PROVE CInv'
    <2>1. /\ disk' = disk /\ truth' = truth /\ work' = disk /\ task'.at = 1 /\ session' = session
          /\ session # NoKey /\ AllDecrypt(disk, session)
      BY <1>7 DEF changeMasterPassword, Begin
    <2>2. QED
      BY <1>1, <2>1, StartKeepsContent DEF CInv, FormatInStep
  <1>8. ASSUME Rollback \/ Crash PROVE CInv'
    <2>1. /\ disk' = disk /\ truth' = truth /\ work' = disk /\ task'.at = 1 /\ task'.op = "none"
          /\ session' \in {session, NoKey}
      BY <1>8 DEF Rollback, Crash, Idle
    <2>2. QED
      BY <1>1, <2>1, StartKeepsContent DEF CInv, FormatInStep
  <1>9. ASSUME (\E p \in Password : enableQuickUnlock(p)) \/ lock PROVE CInv'
    <2>1. /\ task = Idle /\ disk' = disk /\ truth' = truth /\ work' = work /\ task' = task
          /\ session' \in {session, NoKey}
      BY <1>9 DEF enableQuickUnlock, lock, InSession
    <2>2. QED
      BY <1>1, <1>2, <2>1, StartKeepsContent DEF CInv, FormatInStep
  <1>10. Sound(disk, truth)
    BY DEF CInv
  <1>11. InSession => disk.v2
    BY DEF CInv, FormatInStep, InSession
  <1>12. \A c \in Cell : \A v : /\ Seal(c, v).bound = c /\ Seal(c, v).val = v
                                /\ Seal(c, v) # NoBlob /\ Garbled(c) # NoBlob
    BY CellsPresent DEF Seal, encryptField
  <1>13. NoBlob.key = NoKey /\ NoBlob.val = 0 /\ \A c : Garbled(c).key = NoKey /\ Garbled(c).val = 0
    BY DEF NoBlob, Garbled
  <1>14. \A i \in Id : <<"policy", i>> \in Cell /\ <<"credential", i>> \in Cell
    BY CellParts DEF Rewritten
  <1>15. ASSUME NEW c \in Cell, NEW v \in Value, saveCell(c, v) PROVE CInv'
    <2>1. task = Idle /\ task' = task /\ session' = session /\ work' = disk' /\ InSession
          /\ c[1] \notin {"credential", "policy"}
      BY <1>15 DEF saveCell, InSession, Write
    <2>2. disk' = [disk EXCEPT !.cell[c] = Seal(c, v)] /\ truth' = [truth EXCEPT ![c] = v]
      BY <1>15 DEF saveCell, Write
    <2>3. /\ disk'.v2 = disk.v2 /\ disk'.allow = disk.allow
          /\ \A d \in Cell : disk'.cell[d] = IF d = c THEN Seal(c, v) ELSE disk.cell[d]
      BY <1>1, <2>2 DEF Database
    <2>4. \A d \in Cell : truth'[d] = IF d = c THEN v ELSE truth[d]
      BY <1>1, <2>2 DEF TypeOK
    <2>5. Honest(disk', truth') /\ Formatted(disk')
      BY <1>10, <1>11, <1>12, <2>1, <2>3, <2>4 DEF Sound, Honest, Formatted
    <2>6. \A i \in Id : /\ disk'.cell[<<"policy", i>>] = disk.cell[<<"policy", i>>]
                        /\ disk'.cell[<<"credential", i>>] = disk.cell[<<"credential", i>>]
                        /\ truth'[<<"policy", i>>] = truth[<<"policy", i>>]
      <3>1. \A i \in Id : <<"policy", i>> # c /\ <<"credential", i>> # c
        BY <2>1 DEF Cell
      <3>2. QED
        BY <1>14, <2>3, <2>4, <3>1
    <2>7. Policied(disk', truth')
      BY <1>10, <2>3, <2>6 DEF Sound, Policied, Present, ClearLevel
    <2>8. QED
      BY <1>1, <2>1, <2>3, <2>5, <2>7, RowsContent DEF Sound
  <1>16. ASSUME NEW i \in Id, NEW v \in Value, NEW level \in Level, NEW totp \in BOOLEAN,
                saveCredential(i, v, level, totp)
         PROVE  CInv'
    <2> DEFINE put == [c \in CredentialCells(i) |->
                         CASE c[1] = "policy" -> Seal(c, level)
                           [] c[1] = "totp" /\ ~totp -> NoBlob
                           [] OTHER -> Seal(c, v)]
    <2>1. task = Idle /\ task' = task /\ session' = session /\ work' = disk' /\ InSession
      BY <1>16 DEF saveCredential, InSession, Write
    <2>2. /\ disk' = [WithCells(put) EXCEPT !.allow[i] = (level = 3)]
          /\ truth' = [c \in Cell |-> IF c \notin CredentialCells(i) THEN truth[c]
                                      ELSE IF c[1] = "policy" THEN level ELSE v]
      BY <1>16 DEF saveCredential, Write
    <2>3. \A c \in CredentialCells(i) :
            /\ c[1] = "policy" => put[c] = Seal(c, level)
            /\ c[1] = "credential" => put[c] = Seal(c, v)
            /\ put[c] \in {Seal(c, level), Seal(c, v), NoBlob}
      BY Zenon
    <2> HIDE DEF put
    <2>4. DOMAIN put = CredentialCells(i)
      BY DEF put
    <2>5. /\ disk'.v2 = disk.v2 /\ disk'.allow = [disk.allow EXCEPT ![i] = (level = 3)]
          /\ \A c \in Cell : disk'.cell[c] = IF c \in CredentialCells(i) THEN put[c] ELSE disk.cell[c]
      BY <1>1, <2>2, <2>4 DEF WithCells, Database
    <2>6. \A c \in CredentialCells(i) : c \in Cell /\ c[1] \in {"credential", "totp", "policy"}
      BY DEF CredentialCells
    <2>7. Honest(disk', truth')
      BY <1>10, <1>12, <2>2, <2>3, <2>5, <2>6 DEF Sound, Honest, Rewritten
    <2>8. Formatted(disk')
      <3>1. ASSUME NEW c \in Cell, Intact(disk'.cell[c]) PROVE disk'.cell[c].bound = c
        <4>1. CASE c \in CredentialCells(i)
          BY <1>12, <1>13, <2>3, <2>5, <3>1, <4>1 DEF Intact
        <4>2. CASE c \notin CredentialCells(i)
          BY <1>10, <1>11, <2>1, <2>5, <3>1, <4>2 DEF Sound, Formatted
        <4>3. QED
          BY <4>1, <4>2
      <3>2. QED
        BY <1>11, <2>1, <2>5, <3>1 DEF Formatted
    <2>9. Policied(disk', truth')
      <3> SUFFICES ASSUME NEW j \in Id
                   PROVE  /\ disk'.cell[<<"policy", j>>].val \in Level /\ truth'[<<"policy", j>>] \in Level
                          /\ Present(disk', <<"credential", j>>) =>
                               /\ Present(disk', <<"policy", j>>)
                                    => disk'.cell[<<"policy", j>>].val <= truth'[<<"policy", j>>]
                               /\ disk'.allow[j] => truth'[<<"policy", j>>] = 3
                               /\ ~Present(disk', <<"policy", j>>) => truth'[<<"policy", j>>] = ClearLevel(disk', j)
        BY DEF Policied
      <3>1. /\ <<"credential", j>> \in CredentialCells(i) <=> j = i
            /\ <<"policy", j>> \in CredentialCells(i) <=> j = i
        BY <1>14 DEF CredentialCells
      <3>2. CASE j = i
        <4>1. disk'.cell[<<"policy", j>>] = Seal(<<"policy", j>>, level) /\ truth'[<<"policy", j>>] = level
          BY <1>14, <2>2, <2>3, <2>5, <3>1, <3>2
        <4>2. disk'.allow[j] => level = 3
          <5>1. disk.allow \in [Id -> BOOLEAN]
            BY <1>1 DEF Database
          <5>2. disk'.allow[j] = (level = 3)
            BY <2>5, <3>2, <5>1, Zenon
          <5>3. QED
            BY <5>2
        <4>3. Present(disk', <<"policy", j>>) /\ disk'.cell[<<"policy", j>>].val = level
          <5> DEFINE pol == <<"policy", j>>
          <5>1. pol \in Cell
            BY <1>14
          <5> HIDE DEF pol
          <5>2. Seal(pol, level) # NoBlob /\ Seal(pol, level).val = level
            BY <1>12, <5>1
          <5>3. disk'.cell[pol] = Seal(pol, level)
            BY <4>1 DEF pol
          <5>4. Present(disk', pol) /\ disk'.cell[pol].val = level
            BY <5>2, <5>3 DEF Present
          <5>5. QED
            BY <5>4 DEF pol
        <4>4. level \in Level /\ level <= level
          BY DEF Level
        <4>5. truth'[<<"policy", j>>] = level
          BY <4>1
        <4>6. QED
          BY <4>2, <4>3, <4>4, <4>5
      <3>3. CASE j # i
        <4>1. /\ disk'.cell[<<"policy", j>>] = disk.cell[<<"policy", j>>]
              /\ disk'.cell[<<"credential", j>>] = disk.cell[<<"credential", j>>]
              /\ truth'[<<"policy", j>>] = truth[<<"policy", j>>] /\ disk'.allow[j] = disk.allow[j]
          BY <1>1, <1>14, <2>2, <2>5, <3>1, <3>3 DEF Database
        <4>2. QED
          BY <1>10, <4>1 DEF Sound, Policied, Present, ClearLevel
      <3>4. QED
        BY <3>2, <3>3
    <2>10. QED
      BY <1>1, <2>1, <2>5, <2>7, <2>8, <2>9, RowsContent DEF Sound
  <1>17. ASSUME NEW cells \in SUBSET Cell, NEW a \in [Id -> BOOLEAN], DeleteRows(cells, a),
                \A i \in Id : /\ <<"policy", i>> \in cells <=> <<"credential", i>> \in cells
                              /\ <<"credential", i>> \notin cells => a[i] = disk.allow[i]
         PROVE  CInv'
    <2>1. task = Idle /\ task' = task /\ session' = session /\ work' = disk' /\ InSession
      BY <1>17 DEF DeleteRows, InSession, Write
    <2>2. /\ disk' = [WithCells([c \in cells |-> NoBlob]) EXCEPT !.allow = a]
          /\ truth' = [c \in Cell |-> IF c \in cells THEN 0 ELSE truth[c]]
      BY <1>17 DEF DeleteRows, Write
    <2>3. /\ disk'.v2 = disk.v2 /\ disk'.allow = a
          /\ \A c \in Cell : disk'.cell[c] = IF c \in cells THEN NoBlob ELSE disk.cell[c]
      BY <1>1, <2>2 DEF WithCells, Database
    <2>4. Honest(disk', truth') /\ Formatted(disk')
      BY <1>10, <1>13, <2>2, <2>3 DEF Sound, Honest, Formatted, Intact
    <2>5. Policied(disk', truth')
      <3>1. \A i \in Id : <<"credential", i>> \in cells =>
              /\ disk'.cell[<<"policy", i>>] = NoBlob /\ truth'[<<"policy", i>>] = 0
              /\ ~Present(disk', <<"credential", i>>)
        BY <1>14, <1>17, <2>2, <2>3 DEF Present
      <3>2. \A i \in Id : <<"credential", i>> \notin cells =>
              /\ disk'.cell[<<"policy", i>>] = disk.cell[<<"policy", i>>]
              /\ disk'.cell[<<"credential", i>>] = disk.cell[<<"credential", i>>]
              /\ truth'[<<"policy", i>>] = truth[<<"policy", i>>] /\ disk'.allow[i] = disk.allow[i]
        BY <1>14, <1>17, <2>2, <2>3
      <3>3. 0 \in Level
        BY DEF Level
      <3>4. 0 = NoBlob.val
        BY <1>13
      <3>5. ASSUME NEW i \in Id
            PROVE  /\ disk'.cell[<<"policy", i>>].val \in Level /\ truth'[<<"policy", i>>] \in Level
                   /\ Present(disk', <<"credential", i>>) =>
                        /\ Present(disk', <<"policy", i>>) =>
                             disk'.cell[<<"policy", i>>].val <= truth'[<<"policy", i>>]
                        /\ disk'.allow[i] => truth'[<<"policy", i>>] = 3
                        /\ ~Present(disk', <<"policy", i>>) => truth'[<<"policy", i>>] = ClearLevel(disk', i)
        <4>1. CASE <<"credential", i>> \in cells
          BY <3>1, <3>3, <3>4, <4>1
        <4>2. CASE <<"credential", i>> \notin cells
          BY <1>10, <3>2, <4>2 DEF Sound, Policied, Present, ClearLevel
        <4>3. QED
          BY <4>1, <4>2
      <3>6. QED
        BY <3>5 DEF Policied
    <2>6. QED
      BY <1>1, <2>1, <2>3, <2>4, <2>5, RowsContent DEF Sound
  <1>18. ASSUME NEW i \in Id, deleteNote(i) \/ deleteCredential(i) PROVE CInv'
    <2>1. NoteCells(i) \in SUBSET Cell /\ CredentialCells(i) \in SUBSET Cell
      BY DEF NoteCells, CredentialCells
    <2>2. disk.allow \in [Id -> BOOLEAN] /\ [disk.allow EXCEPT ![i] = FALSE] \in [Id -> BOOLEAN]
      BY <1>1 DEF Database
    <2>3. \A j \in Id : /\ <<"credential", j>> \notin NoteCells(i) /\ <<"policy", j>> \notin NoteCells(i)
                        /\ <<"credential", j>> \in CredentialCells(i) <=> j = i
                        /\ <<"policy", j>> \in CredentialCells(i) <=> j = i
                        /\ j # i => [disk.allow EXCEPT ![i] = FALSE][j] = disk.allow[j]
      <3>1. ASSUME NEW j \in Id PROVE <<"credential", j>> \notin NoteCells(i) /\ <<"policy", j>> \notin NoteCells(i)
        BY <1>14 DEF NoteCells
      <3>2. ASSUME NEW j \in Id PROVE <<"credential", j>> \in CredentialCells(i) <=> j = i
        BY <1>14 DEF CredentialCells
      <3>3. ASSUME NEW j \in Id PROVE <<"policy", j>> \in CredentialCells(i) <=> j = i
        BY <1>14 DEF CredentialCells
      <3>4. ASSUME NEW j \in Id, j # i PROVE [disk.allow EXCEPT ![i] = FALSE][j] = disk.allow[j]
        BY <2>2, <3>4
      <3>5. QED
        BY <3>1, <3>2, <3>3, <3>4, Zenon
    <2>4. CASE deleteNote(i)
      BY <1>17, <2>1, <2>2, <2>3, <2>4 DEF deleteNote
    <2>5. CASE deleteCredential(i)
      <3> DEFINE cells == CredentialCells(i)
                 a == [disk.allow EXCEPT ![i] = FALSE]
      <3>1. DeleteRows(cells, a)
        BY <2>5 DEF deleteCredential
      <3>2. \A j \in Id : /\ <<"policy", j>> \in cells <=> <<"credential", j>> \in cells
                          /\ <<"credential", j>> \notin cells => a[j] = disk.allow[j]
        BY <2>3
      <3>3. cells \in SUBSET Cell /\ a \in [Id -> BOOLEAN]
        BY <2>1, <2>2
      <3> HIDE DEF cells, a
      <3>4. QED
        BY <1>17, <3>1, <3>2, <3>3
    <2>6. QED
      BY <1>18, <2>4, <2>5
  <1>19. ASSUME NEW c \in Cell, DamageBlob(c) PROVE CInv'
    <2>1. task = Idle /\ task' = task /\ session' = session /\ work' = disk' /\ Intact(disk.cell[c])
          /\ truth' = truth /\ disk' = [disk EXCEPT !.cell[c] = Garbled(c)]
      BY <1>19 DEF DamageBlob, Write
    <2>2. /\ disk'.v2 = disk.v2 /\ disk'.allow = disk.allow
          /\ \A d \in Cell : disk'.cell[d] = IF d = c THEN Garbled(c) ELSE disk.cell[d]
      BY <1>1, <2>1 DEF Database
    <2>3. Honest(disk', truth') /\ Formatted(disk')
      BY <1>10, <1>13, <2>1, <2>2 DEF Sound, Honest, Formatted, Intact
    <2>4. Present(disk, c)
      BY <2>1, IntactIsPresent
    <2>5. \A d \in Cell : Present(disk', d) <=> Present(disk, d)
      BY <1>12, <2>2, <2>4 DEF Present
    <2>6. Policied(disk', truth')
      <3>1. \A i \in Id : disk'.cell[<<"policy", i>>].val \in {0, disk.cell[<<"policy", i>>].val}
        BY <1>13, <1>14, <2>2
      <3>2. \A l \in Level : 0 <= l /\ 0 \in Level
        BY DEF Level
      <3>3. QED
        BY <1>10, <1>14, <2>1, <2>2, <2>5, <3>1, <3>2 DEF Sound, Policied, ClearLevel
    <2>7. QED
      BY <1>1, <2>1, <2>2, <2>3, <2>6, RowsContent DEF Sound
  <1>20. CASE UNCHANGED vars
    BY <1>1, <1>20 DEF vars, CInv, Sound, Honest, Formatted, Policied, RowsInStep, FormatInStep, Done,
                       Present, ClearLevel
  <1>21. QED
    BY <1>3, <1>5, <1>6, <1>7, <1>8, <1>9, <1>15, <1>16, <1>18, <1>19, <1>20, WriteStageContent, CommitContent
    DEF Next, StatementFails

\* The invariant of every reachable state.
LEMMA AlwaysContent == Spec => []CInv
BY InitContent, NextContent, PTL DEF Spec

\* Whatever is interrupted, a row that is not damaged says what the user last stored
\* in it, a vault marked V2 has bound every blob, and no credential is filled more
\* widely than the user allowed.
THEOREM Content == Spec => [](ContentKept /\ FormatFlagHonest /\ FillNeverWidened)
  <1>1. CInv => ContentKept /\ FormatFlagHonest /\ FillNeverWidened
    <2> SUFFICES ASSUME CInv PROVE ContentKept /\ FormatFlagHonest /\ FillNeverWidened
      OBVIOUS
    <2>1. ContentKept /\ FormatFlagHonest
      BY DEF CInv, Sound, Honest, Formatted, ContentKept, FormatFlagHonest
    <2>2. FillNeverWidened
      <3> SUFFICES ASSUME NEW i \in Id, Present(disk, <<"credential", i>>)
                   PROVE  resolveFillTrustLevel(disk, i) <= truth[<<"policy", i>>]
        BY DEF FillNeverWidened
      <3>1. /\ truth[<<"policy", i>>] \in 0..3
            /\ Present(disk, <<"policy", i>>) => disk.cell[<<"policy", i>>].val <= truth[<<"policy", i>>]
            /\ ~Present(disk, <<"policy", i>>) => truth[<<"policy", i>>] = ClearLevel(disk, i)
        BY DEF CInv, Sound, Policied, Level
      <3>2. QED
        BY <3>1 DEF resolveFillTrustLevel
    <2>3. QED
      BY <2>1, <2>2
  <1>2. QED
    BY <1>1, AlwaysContent, PTL

\* The V2 flag is set only with rows that are all bound to their cells
\* (migrateDomainBoundCrypto, setCryptoFormatV2).
THEOREM FlagIsHonest == Spec => []FormatFlagHonest
  BY Content, PTL

\* No migration or rewrite raises a credential's fill level above the user's
\* (resolveFillTrustLevel, migrateFillPolicies).
THEOREM NeverWider == Spec => []FillNeverWidened
  BY Content, PTL

----------------------------------------------------------------------------
(* The promise of VaultPromise.                                            *)

Slots == Rewritten \X Id

\* The password that opens the vault, if there is one.
LEMMA MasterIs ==
  ASSUME IInv
  PROVE  /\ vaultExists(disk) => /\ disk.token = <<master, disk.salt>> /\ master \in Password
                                 /\ master # Promise!NoPassword /\ disk.token # NoKey
         /\ ~vaultExists(disk) => master = Promise!NoPassword /\ session = NoKey
  <1>1. CASE vaultExists(disk)
    <2>1. PICK p \in Password : disk.token = <<p, disk.salt>>
      BY <1>1 DEF IInv, VaultHasPassword, deriveKey
    <2>2. master = p
      BY <2>1 DEF master
    <2>3. QED
      BY <1>1, <2>1, <2>2, ConstantsAssumption DEF Promise!NoPassword, NoKey, vaultExists
  <1>2. CASE ~vaultExists(disk)
    <2>1. disk.token = NoKey /\ disk.salt = 0 /\ session = NoKey
      BY <1>2 DEF IInv, VaultHasPassword, vaultExists, SessionHasVaultKey
    <2>2. QED
      BY <1>2, <2>1 DEF master, NoKey, Promise!NoPassword
  <1>3. QED
    BY <1>1, <1>2

\* What a slot holds: its row's plaintext unless it is damaged.
Says(db, c) == IF ~Present(db, c) THEN -1 ELSE IF Intact(db.cell[c]) THEN db.cell[c].val ELSE -2

\* The promise's contents are what the slots say.
LEMMA ContentIs ==
  ASSUME IInv
  PROVE  /\ content = [c \in Slots |-> Says(disk, c)]
         /\ \A c \in Slots : content[c] = Says(disk, c)
  <1>1. ASSUME NEW c \in Slots PROVE decrypts(disk.cell[c], disk.token, c) <=> Intact(disk.cell[c])
    <2>1. c \in Cell /\ c[1] \in Rewritten
      BY CellParts DEF Slots
    <2>2. QED
      BY <2>1 DEF IInv, RowsOpenWithVaultKey, decrypts, Intact
  <1>2. ASSUME NEW c \in Slots
        PROVE  (IF ~Present(disk, c) THEN -1
                ELSE IF decrypts(disk.cell[c], disk.token, c) THEN disk.cell[c].val ELSE -2) = Says(disk, c)
    BY <1>1 DEF Says
  <1>3. QED
    BY <1>2 DEF content, Slots

\* The same of the next state.
LEMMA NextIs ==
  ASSUME IInv'
  PROVE  /\ content' = [c \in Slots |-> Says(disk', c)]
         /\ vaultExists(disk') => disk'.token = <<master', disk'.salt>> /\ master' \in Password
  <1>1. (IInv => content = [c \in Slots |-> Says(disk, c)])'
    BY ContentIs, PTL
  <1>2. (IInv => (vaultExists(disk) => disk.token = <<master, disk.salt>> /\ master \in Password))'
    BY MasterIs, PTL
  <1>3. QED
    BY <1>1, <1>2 DEF Says, Present, Intact, vaultExists

\* The promise cannot see a step that leaves the rows and the session.
LEMMA Unseen ==
  ASSUME IInv, IInv', \A c \in Slots : Says(disk', c) = Says(disk, c),
         disk'.salt = disk.salt, disk'.token = disk.token, session' # NoKey <=> session # NoKey
  PROVE  UNCHANGED Promise!promise
  <1>1. content' = content
    BY ContentIs, NextIs
  <1>2. master' = master
    BY DEF master
  <1>3. (session # NoKey)' = (session # NoKey)
    OBVIOUS
  <1>4. QED
    BY <1>1, <1>2, <1>3 DEF Promise!promise

\* A committed rewrite is a vault created, opened or given another password, with
\* everything in it; a fill of the policies is not seen.
LEMMA CommitPromised ==
  ASSUME CInv, Commit
  PROVE  \/ \E p \in Password : Promise!Create(p) \/ Promise!ChangePassword(p)
         \/ Promise!Unlock
         \/ UNCHANGED Promise!promise
  <1>1. IInv /\ IInv' /\ TypeOK
    BY CommitSafe DEF CInv, IInv
  <1>2. Ready(task) /\ disk' = work /\ session' = task.to
    BY DEF Commit
  <1>3. task \in Task /\ task.op \in {"create", "migrate", "rekey", "policies"}
    BY <1>1, <1>2 DEF TypeOK, Task, Op, Ready
  <1>4. /\ Done(task, "token") <=> task.op \in {"create", "migrate", "rekey"}
        /\ Done(task, "meta") <=> task.op \in {"create", "rekey"}
    BY <1>2, <1>3, AllDone
  <1>5. /\ work.salt = IF Done(task, "meta") THEN task.salt ELSE disk.salt
        /\ work.token = IF Done(task, "token") THEN task.to ELSE disk.token
    BY <1>1 DEF IInv, RewriteInStep
  <1>6. \A c \in Slots : Says(disk', c) = Says(disk, c)
    BY <1>2, CellParts DEF CInv, RowsInStep, Says, Present, Slots
  <1>7. content' = content
    BY <1>1, <1>6, ContentIs, NextIs
  <1>8. task.op \in {"create", "rekey"} =>
          \E p \in Password : task.to = <<p, task.salt>> /\ task.to # NoKey /\ master' = p
    <2> SUFFICES ASSUME task.op \in {"create", "rekey"}
                 PROVE  \E p \in Password : task.to = <<p, task.salt>> /\ task.to # NoKey /\ master' = p
      OBVIOUS
    <2>1. PICK p \in Password : task.to = <<p, task.salt>>
      BY <1>1 DEF IInv, TaskHasKeys, deriveKey
    <2>2. disk'.token = <<p, task.salt>> /\ disk'.salt = task.salt /\ task.salt # 0
      BY <1>1, <1>2, <1>4, <1>5, <2>1 DEF IInv, TaskHasKeys
    <2>3. master' = p
      BY <2>2 DEF master
    <2>4. task.to # NoKey
      BY <2>1, <2>2 DEF NoKey
    <2>5. QED
      BY <2>1, <2>3, <2>4
  <1>9. CASE task.op = "create"
    <2>1. PICK p \in Password : task.to # NoKey /\ master' = p
      BY <1>8, <1>9
    <2>2. master = Promise!NoPassword /\ session = NoKey
      BY <1>1, <1>9, MasterIs DEF IInv, TaskHasKeys
    <2>3. Promise!Create(p)
      BY <1>2, <1>7, <2>1, <2>2 DEF Promise!Create
    <2>4. QED
      BY <2>3
  <1>10. CASE task.op = "rekey"
    <2>1. PICK p \in Password : task.to # NoKey /\ master' = p
      BY <1>8, <1>10
    <2>2. session # NoKey
      BY <1>1, <1>10, MasterIs DEF IInv, TaskHasKeys
    <2>3. Promise!ChangePassword(p)
      BY <1>2, <1>7, <2>1, <2>2 DEF Promise!ChangePassword
    <2>4. QED
      BY <2>3
  <1>11. CASE task.op \in {"migrate", "policies"}
    <2>1. disk'.token = disk.token /\ disk'.salt = disk.salt /\ vaultExists(disk)
          /\ session' = disk.token /\ disk.token # NoKey
      BY <1>1, <1>2, <1>4, <1>5, <1>11, MasterIs DEF IInv, TaskHasKeys
    <2>2. CASE task.op = "policies"
      <3>1. session = disk.token
        BY <1>1, <2>2 DEF IInv, TaskHasKeys
      <3>2. QED
        BY <1>1, <1>6, <2>1, <3>1, Unseen
    <2>3. CASE task.op = "migrate"
      <3>1. session = NoKey /\ master # Promise!NoPassword /\ master' = master
        BY <1>1, <2>1, <2>3, MasterIs DEF IInv, TaskHasKeys, master
      <3>2. Promise!Unlock
        BY <1>7, <2>1, <3>1 DEF Promise!Unlock
      <3>3. QED
        BY <3>2
    <2>4. QED
      BY <1>11, <2>2, <2>3
  <1>12. QED
    BY <1>3, <1>9, <1>10, <1>11

\* Opening a vault of today's format.
LEMMA OpenPromised ==
  ASSUME IInv, IInv', vaultExists(disk), session = NoKey, OpenWith(disk.token)
  PROVE  Promise!Unlock \/ UNCHANGED Promise!promise
  <1>1. disk' = disk
    BY DEF OpenWith
  <1>2. content' = content /\ master' = master
    BY <1>1 DEF content, master, Present, decrypts
  <1>3. CASE session' = disk.token
    BY <1>2, <1>3, MasterIs DEF Promise!Unlock
  <1>4. CASE session' = session
    BY <1>1, <1>4, Unseen DEF Says, Present
  <1>5. QED
    BY <1>3, <1>4 DEF OpenWith

\* A row stored in one slot, and other cells that are no slots.
LEMMA StorePromised ==
  ASSUME IInv, IInv', InSession, session' = session, disk'.salt = disk.salt, disk'.token = disk.token,
         NEW c \in Cell, NEW v \in Value,
         \A d \in Slots : disk'.cell[d] = IF d = c THEN Seal(c, v) ELSE disk.cell[d]
  PROVE  (c \in Slots /\ Promise!Store(c, v)) \/ UNCHANGED Promise!promise
  <1>1. session # NoKey /\ master' = master
    BY DEF InSession, master
  <1>2. CASE c \in Slots
    <2>1. Seal(c, v) # NoBlob /\ Seal(c, v).val = v /\ Seal(c, v).key # NoKey
      BY <1>1, CellsPresent DEF Seal, encryptField
    <2>2. Says(disk', c) = v
      BY <1>2, <2>1 DEF Says, Present, Intact
    <2>3. \A d \in Slots : d # c => Says(disk', d) = Says(disk, d)
      BY DEF Says, Present
    <2>4. content' = [content EXCEPT ![c] = v]
      BY <1>2, <2>2, <2>3, ContentIs, NextIs
    <2>5. Promise!Store(c, v)
      BY <1>1, <2>4 DEF Promise!Store
    <2>6. QED
      BY <1>2, <2>5
  <1>3. CASE c \notin Slots
    <2>1. \A d \in Slots : Says(disk', d) = Says(disk, d)
      BY <1>3 DEF Says, Present
    <2>2. QED
      BY <2>1, Unseen
  <1>4. QED
    BY <1>2, <1>3

\* Rows deleted.
LEMMA RemovePromised ==
  ASSUME IInv, IInv', disk \in Database, NEW cells \in SUBSET Cell, NEW a, DeleteRows(cells, a)
  PROVE  \E slots \in SUBSET Slots : Promise!Remove(slots)
  <1> DEFINE slots == cells \intersect Slots
  <1>1. session # NoKey /\ session' = session /\ disk' = [WithCells([c \in cells |-> NoBlob]) EXCEPT !.allow = a]
    BY DEF DeleteRows, InSession, Write
  <1>2. /\ disk'.salt = disk.salt /\ disk'.token = disk.token
        /\ \A c \in Cell : disk'.cell[c] = IF c \in cells THEN NoBlob ELSE disk.cell[c]
    BY <1>1 DEF WithCells, Database
  <1>3. master' = master
    BY <1>2 DEF master
  <1>4. \A c \in Slots : Says(disk', c) = IF c \in slots THEN -1 ELSE Says(disk, c)
    BY <1>2, CellParts DEF Says, Present, Slots
  <1>5. content' = [c \in Slots |-> IF c \in slots THEN Promise!Absent ELSE content[c]]
    BY <1>4, ContentIs, NextIs DEF Promise!Absent
  <1>6. Promise!Remove(slots)
    BY <1>1, <1>3, <1>5 DEF Promise!Remove, Slots
  <1>7. QED
    BY <1>6

\* A blob damaged.
LEMMA SpoilPromised ==
  ASSUME IInv, IInv', disk \in Database, NEW c \in Cell, DamageBlob(c)
  PROVE  (c \in Slots /\ Promise!Spoil(c)) \/ UNCHANGED Promise!promise
  <1>1. session' = session /\ Intact(disk.cell[c]) /\ disk' = [disk EXCEPT !.cell[c] = Garbled(c)]
    BY DEF DamageBlob, Write
  <1>2. /\ disk'.salt = disk.salt /\ disk'.token = disk.token
        /\ \A d \in Cell : disk'.cell[d] = IF d = c THEN Garbled(c) ELSE disk.cell[d]
    BY <1>1 DEF Database
  <1>3. Garbled(c) # NoBlob /\ Garbled(c).key = NoKey /\ Present(disk, c)
    BY <1>1, CellsPresent, IntactIsPresent DEF Garbled
  <1>4. \A d \in Slots : d # c => Says(disk', d) = Says(disk, d)
    BY <1>2, CellParts DEF Says, Present, Slots
  <1>5. CASE c \in Slots
    <2>1. Says(disk', c) = -2
      BY <1>2, <1>3 DEF Says, Present, Intact
    <2>2. content' = [content EXCEPT ![c] = Promise!Unreadable]
      BY <1>4, <1>5, <2>1, ContentIs, NextIs DEF Promise!Unreadable
    <2>3. disk.cell[c].val \in Nat
      <3>1. disk.cell[c] \in Blob
        BY DEF Database
      <3>2. \A v \in Plain : v \in Nat
        BY ConstantsAssumption DEF Plain, Level
      <3>3. QED
        BY <3>1, <3>2 DEF Blob
    <2>4. content[c] # Promise!Absent
      <3>1. content[c] = disk.cell[c].val
        BY <1>1, <1>3, <1>5, ContentIs DEF Says
      <3>2. QED
        BY <2>3, <3>1 DEF Promise!Absent
    <2>5. master' = master
      BY <1>2 DEF master
    <2>6. QED
      BY <1>1, <1>5, <2>2, <2>4, <2>5 DEF Promise!Spoil
  <1>6. CASE c \notin Slots
    BY <1>1, <1>2, <1>4, <1>6, Unseen
  <1>7. QED
    BY <1>5, <1>6

\* Each step is one the promise allows, or none it sees.
LEMMA StepPromised ==
  ASSUME CInv, [Next]_vars
  PROVE  [Promise!Next]_(Promise!promise)
  <1> USE DEF Promise!Next
  <1>1. IInv /\ IInv' /\ TypeOK /\ disk \in Database
    BY NextSafe DEF CInv, IInv, TypeOK
  <1>2. ASSUME disk' = disk, session' # NoKey <=> session # NoKey PROVE UNCHANGED Promise!promise
    BY <1>1, <1>2, Unseen DEF Says, Present
  <1>3. ASSUME session' = NoKey, session # NoKey, disk' = disk PROVE Promise!Lock
    <2>1. content' = content /\ master' = master
      BY <1>3 DEF content, master, Present, decrypts
    <2>2. QED
      BY <1>3, <2>1 DEF Promise!Lock
  <1>4. CASE \/ \E p \in Password : createVault(p) \/ enableQuickUnlock(p)
             \/ \E p, q \in Password : changeMasterPassword(p, q)
             \/ WriteStage \/ StatementFails \/ UNCHANGED vars
    <2>1. disk' = disk /\ session' = session
      BY <1>4 DEF createVault, enableQuickUnlock, changeMasterPassword, WriteStage, StatementFails,
                  Rollback, vars
    <2>2. QED
      BY <1>2, <2>1
  <1>5. CASE lock \/ Crash
    <2>1. disk' = disk /\ session' = NoKey
      BY <1>5 DEF lock, Crash
    <2>2. QED
      BY <1>2, <1>3, <2>1
  <1>6. ASSUME NEW p \in Password, unlockVault(p)
        PROVE  Promise!Unlock \/ UNCHANGED Promise!promise
    <2>1. vaultExists(disk) /\ session = NoKey /\ OpenWith(disk.token)
      BY <1>6 DEF unlockVault
    <2>2. QED
      BY <1>1, <2>1, OpenPromised
  <1>7. CASE unlockWithDerivedKey
    <2>1. CASE quick = disk.token /\ OpenWith(quick)
      <3>1. vaultExists(disk) /\ session = NoKey /\ OpenWith(disk.token)
        BY <1>1, <1>7, <2>1 DEF unlockWithDerivedKey, IInv, VaultHasPassword
      <3>2. QED
        BY <1>1, <3>1, OpenPromised
    <2>2. CASE UNCHANGED <<disk, session>>
      BY <1>2, <2>2
    <2>3. QED
      BY <1>7, <2>1, <2>2 DEF unlockWithDerivedKey
  <1>8. CASE Commit
    BY <1>8, CommitPromised
  <1>9. ASSUME NEW c \in Cell, NEW v \in Value, saveCell(c, v)
        PROVE  (c \in Slots /\ Promise!Store(c, v)) \/ UNCHANGED Promise!promise
    <2>1. InSession /\ session' = session /\ disk' = [disk EXCEPT !.cell[c] = Seal(c, v)]
      BY <1>9 DEF saveCell, Write
    <2>2. /\ disk'.salt = disk.salt /\ disk'.token = disk.token
          /\ \A d \in Cell : disk'.cell[d] = IF d = c THEN Seal(c, v) ELSE disk.cell[d]
      BY <1>1, <2>1 DEF Database
    <2>3. \A d \in Slots : disk'.cell[d] = IF d = c THEN Seal(c, v) ELSE disk.cell[d]
      BY <2>2, CellParts DEF Slots
    <2>4. QED
      BY <1>1, <2>1, <2>2, <2>3, StorePromised
  <1>10. ASSUME NEW i \in Id, NEW v \in Value, NEW level \in Level, NEW totp \in BOOLEAN,
                saveCredential(i, v, level, totp)
         PROVE  \E c \in Slots : Promise!Store(c, v) \/ UNCHANGED Promise!promise
    <2> DEFINE put == [c \in CredentialCells(i) |->
                         CASE c[1] = "policy" -> Seal(c, level)
                           [] c[1] = "totp" /\ ~totp -> NoBlob
                           [] OTHER -> Seal(c, v)]
               row == <<"credential", i>>
    <2>1. InSession /\ session' = session /\ disk' = [WithCells(put) EXCEPT !.allow[i] = (level = 3)]
      BY <1>10 DEF saveCredential, Write
    <2>2. \A c \in CredentialCells(i) : c[1] = "credential" => put[c] = Seal(c, v)
      BY Zenon
    <2> HIDE DEF put
    <2>3. DOMAIN put = CredentialCells(i)
      BY DEF put
    <2>4. /\ disk'.salt = disk.salt /\ disk'.token = disk.token
          /\ \A c \in Cell : disk'.cell[c] = IF c \in CredentialCells(i) THEN put[c] ELSE disk.cell[c]
      BY <1>1, <2>1, <2>3 DEF WithCells, Database
    <2>5. row \in Slots /\ row \in Cell
      BY CellParts DEF Slots, Rewritten
    <2>6. \A d \in Slots : d \in CredentialCells(i) <=> d = row
      BY CellParts DEF Slots, Rewritten, CredentialCells
    <2>7. \A d \in Slots : disk'.cell[d] = IF d = row THEN Seal(row, v) ELSE disk.cell[d]
      BY <2>2, <2>4, <2>6, CellParts DEF Slots
    <2> HIDE DEF row
    <2>8. QED
      BY <1>1, <2>1, <2>4, <2>5, <2>7, StorePromised
  <1>11. ASSUME NEW i \in Id, deleteNote(i) \/ deleteCredential(i)
         PROVE  \E slots \in SUBSET Slots : Promise!Remove(slots)
    <2>1. NoteCells(i) \in SUBSET Cell /\ CredentialCells(i) \in SUBSET Cell
      BY DEF NoteCells, CredentialCells
    <2>2. QED
      BY <1>1, <1>11, <2>1, RemovePromised DEF deleteNote, deleteCredential
  <1>12. ASSUME NEW c \in Cell, DamageBlob(c)
         PROVE  (c \in Slots /\ Promise!Spoil(c)) \/ UNCHANGED Promise!promise
    BY <1>1, <1>12, SpoilPromised
  <1>13. QED
    BY <1>4, <1>5, <1>6, <1>7, <1>8, <1>9, <1>10, <1>11, <1>12 DEF Next, Slots

\* To its user the vault is a password and what was stored under it, whatever is
\* interrupted, fails or is damaged.
THEOREM PromiseKept == Spec => KeepsPromise
  <1>1. Init => Promise!Init
    <2> SUFFICES ASSUME Init PROVE Promise!Init
      OBVIOUS
    <2>1. CInv /\ IInv /\ session = NoKey /\ task = Idle
      BY InitContent DEF CInv, Init
    <2>2. master \in Password \union {Promise!NoPassword}
      BY <2>1, MasterIs
    <2>3. content \in [Slots -> Value \union {Promise!Absent}]
      <3>1. ASSUME NEW c \in Slots PROVE Says(disk, c) \in Value \union {-1}
        <4>1. c \in Cell /\ c[1] \in Rewritten
          BY CellParts DEF Slots
        <4>2. CASE disk = EmptyDatabase
          BY <4>1, <4>2 DEF EmptyDatabase, Says, Present
        <4>3. ASSUME NEW p \in Password, NEW v2 \in BOOLEAN, NEW a \in [Id -> BOOLEAN],
                     NEW rows \in OlderRows, disk = OlderVault(p, v2, a, rows)
              PROVE  Says(disk, c) \in Value \union {-1}
          <5> DEFINE w == CHOOSE v \in Value : TRUE
                     old == [key |-> <<p, 1>>, bound |-> IF v2 THEN c ELSE Unbound, val |-> w]
          <5>1. disk.cell[c] = IF c \in rows THEN old ELSE NoBlob
            BY <4>1, <4>3 DEF OlderVault
          <5>2. w \in Value
            BY ConstantsAssumption
          <5> HIDE DEF w
          <5>3. old.key # NoKey /\ old.val \in Value
            BY <5>2 DEF NoKey
          <5> HIDE DEF old
          <5>4. CASE c \in rows
            BY <5>1, <5>3, <5>4 DEF Says, Intact
          <5>5. CASE c \notin rows
            BY <5>1, <5>5 DEF Says, Present
          <5>6. QED
            BY <5>4, <5>5
        <4>4. QED
          BY <4>2, <4>3 DEF Init
      <3>2. QED
        BY <2>1, <3>1, ContentIs DEF Promise!Absent
    <2>4. QED
      BY <2>1, <2>2, <2>3 DEF Promise!Init, Slots
  <1>2. CInv /\ [Next]_vars => [Promise!Next]_(Promise!promise)
    BY StepPromised
  <1>3. QED
    BY <1>1, <1>2, AlwaysContent, PTL DEF Spec, KeepsPromise, Promise!Spec
=============================================================================
