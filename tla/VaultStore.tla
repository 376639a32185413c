----------------------------- MODULE VaultStore -----------------------------
(***************************************************************************)
(* The encrypted vault database and the key it is read with: what          *)
(* VaultRepository, NoteRepository, AttachmentRepository,                  *)
(* CredentialRepository and SealedBlockRepository store, and how creating  *)
(* a vault, unlocking it, migrating it to the V2 field format, changing    *)
(* its master password and filling in missing fill policies rewrite it.    *)
(*                                                                         *)
(* A stored column is a CELL <<field, id>> holding a BLOB: the key it was  *)
(* sealed with, the cell its associated data names (Unbound for the legacy *)
(* secretbox format, which has none) and the plaintext.  A note's title    *)
(* and body are one cell, as are the five mandatory fields of a            *)
(* credential: the code always rewrites them together.  A note slot has at *)
(* most one attachment, one sealed block and one runbook session.          *)
(*                                                                         *)
(* Every multi-statement rewrite runs in one SQLite transaction.  SQLite   *)
(* is taken at its word: `work' is the transaction's view, COMMIT installs *)
(* it in one step, ROLLBACK and a crash drop it.                           *)
(***************************************************************************)
EXTENDS Integers, Sequences

CONSTANTS
  Password,   \* the passwords a user may type
  Id,         \* row slots
  Field,      \* the encrypted columns in use, a subset of AllField
  Value,      \* plaintexts
  MaxSalt,    \* bound: how many random salts are ever drawn
  MaxDamage   \* bound: how many stored blobs are ever damaged

AllField == {"note", "attachment", "sealed", "runbook", "chronicle",
             "credential", "totp", "policy"}

ASSUME ConstantsAssumption ==
  /\ Field \subseteq AllField
  /\ {"note", "attachment", "credential", "policy"} \subseteq Field
  /\ Value \subseteq Nat /\ Value # {}
  /\ 0 \notin Password
  /\ MaxSalt \in Nat \ {0}
  /\ MaxDamage \in Nat

VARIABLES
  disk,      \* the committed database
  work,      \* the view of the open transaction (the committed one if none)
  task,      \* the rewrite in progress and how far it has come
  session,   \* VaultSession's key, NoKey while locked
  quick,     \* the key Quick Unlock has wrapped, NoKey if not configured
  salts,     \* salts drawn so far
  damage,    \* blobs damaged so far
  truth      \* history: the plaintext the user last stored in each cell

vars == <<disk, work, task, session, quick, salts, damage, truth>>

----------------------------------------------------------------------------
(* Keys, cells and blobs.                                                  *)

Salt == 1..MaxSalt
Key == Password \X Salt
NoKey == <<0, 0>>

\* CryptoManager::deriveKey: injective in the password and the salt.
deriveKey(p, s) == <<p, s>>

Cell == Field \X Id
Unbound == <<"none", 0>>
Level == 0..3     \* FillTrustLevel: ManualOnly, UsernameOnly, ExactOrigin, AllowSubdomains
Plain == Value \union Level

Blob == [key: Key \union {NoKey}, bound: Cell \union {Unbound}, val: Plain]
NoBlob == [key |-> NoKey, bound |-> Unbound, val |-> 0]
Garbled(c) == [key |-> NoKey, bound |-> c, val |-> 0]

\* CryptoManager::encryptField binds the ciphertext to its cell.
encryptField(v, k, c) == [key |-> k, bound |-> c, val |-> v]

\* CryptoManager::decryptField, then decryptLegacy: a V2 blob opens with its
\* key and its own associated data, a legacy blob with its key alone.
decrypts(b, k, c) == b.key = k /\ k # NoKey /\ b.bound \in {c, Unbound}

\* What is stored and has not been damaged since.
Intact(b) == b.key # NoKey

Database == [salt: 0..MaxSalt,                \* vault_metadata.salt, 0: no row
             token: Key \union {NoKey},       \* the key of app_metadata 'verify'
             v2: BOOLEAN,                     \* app_metadata crypto format flag
             allow: [Id -> BOOLEAN],          \* credentials.allow_subdomains
             cell: [Cell -> Blob]]

vaultExists(db) == db.salt # 0
Present(db, c) == db.cell[c] # NoBlob

----------------------------------------------------------------------------
(* The fill policy of a credential.                                        *)

\* resolveFillTrustLevel for a row whose policy blob is missing.
ClearLevel(db, i) == IF db.allow[i] THEN 3 ELSE 2

resolveFillTrustLevel(db, i) ==
  IF Present(db, <<"policy", i>>) THEN db.cell[<<"policy", i>>].val
                                  ELSE ClearLevel(db, i)

MutPolicyByte(db, t, i) == IF db.allow[i] THEN 3 ELSE 2   \* the clear column wins

\* The policy byte a rewrite stores.  migrateDomainBoundCrypto derives it from
\* allow_subdomains; changeMasterPassword from the old blob if it opens, every
\* level but ManualOnly becoming byte 1.
PolicyByte(db, t, i) ==
  LET b == db.cell[<<"policy", i>>]
      allowSubdomains == IF t.op = "rekey" /\ decrypts(b, t.from, <<"policy", i>>)
                         THEN b.val # 0
                         ELSE db.allow[i]
  IN IF allowSubdomains THEN 1 ELSE 0

----------------------------------------------------------------------------
(* Rewrites: the statements of each transaction, in the code's order.      *)

\* The new salt is forgotten.
MutPlanSalt == [none     |-> <<>>,
                create   |-> <<"meta", "token", "format">>,
                migrate  |-> <<"note", "attachment", "credential", "token", "format">>,
                rekey    |-> <<"token", "note", "attachment", "credential">>,
                policies |-> <<"policy">>]
\* Migration overlooks the attachments.
MutPlanMigrate == [none     |-> <<>>,
                   create   |-> <<"meta", "token", "format">>,
                   migrate  |-> <<"note", "credential", "token", "format">>,
                   rekey    |-> <<"token", "note", "attachment", "credential", "meta">>,
                   policies |-> <<"policy">>]

Plan == [none     |-> <<>>,
         create   |-> <<"meta", "token", "format">>,
         migrate  |-> <<"note", "attachment", "credential", "token", "format">>,
         rekey    |-> <<"token", "note", "attachment", "credential", "meta">>,
         policies |-> <<"policy">>]

Op == {"none", "create", "migrate", "rekey", "policies"}
Task == [op: Op, at: 1..6, from: Key \union {NoKey}, to: Key \union {NoKey},
         salt: 0..MaxSalt]
Idle == [op |-> "none", at |-> 1, from |-> NoKey, to |-> NoKey, salt |-> 0]
Ready(t) == t.op # "none" /\ t.at > Len(Plan[t.op])

\* What MainWindow::onVaultUnlocked starts with once a session has its key.
FillPolicies(k) == [op |-> "policies", at |-> 1, from |-> k, to |-> k, salt |-> 0]

\* The columns both rewrites decrypt and seal again.
Rewritten == {"note", "attachment", "credential"}

RewriteCell(db, t, s, c) ==
  CASE s \in Rewritten /\ c[1] = s /\ Present(db, c)
         -> encryptField(db.cell[c].val, t.to, c)
    [] s = "credential" /\ c[1] = "policy" /\ Present(db, <<"credential", c[2]>>)
         -> encryptField(PolicyByte(db, t, c[2]), t.to, c)
    [] s = "policy" /\ c[1] = "policy" /\ Present(db, <<"credential", c[2]>>)
                    /\ ~Present(db, c)
         -> encryptField(ClearLevel(db, c[2]), t.to, c)
    [] OTHER -> db.cell[c]

\* The database after stage s of rewrite t.
Rewrite(db, t, s) ==
  [salt  |-> IF s = "meta" THEN t.salt ELSE db.salt,
   token |-> IF s = "token" THEN t.to ELSE db.token,
   v2    |-> IF s = "format" THEN TRUE ELSE db.v2,
   allow |-> db.allow,
   cell  |-> [c \in Cell |-> RewriteCell(db, t, s, c)]]

MutAllDecrypt(db, k) == TRUE   \* rows that do not open are skipped

\* Both rewrites first decrypt every row they will seal again; one that does
\* not open fails the whole operation before anything is written.
AllDecrypt(db, k) ==
  \A c \in Cell : c[1] \in Rewritten /\ Present(db, c) => decrypts(db.cell[c], k, c)

----------------------------------------------------------------------------
(* Initial states: no vault, a vault of an older version in the legacy     *)
(* format, or a V2 vault whose credentials predate encrypted policies.     *)

EmptyDatabase ==
  [salt |-> 0, token |-> NoKey, v2 |-> FALSE,
   allow |-> [i \in Id |-> FALSE], cell |-> [c \in Cell |-> NoBlob]]

\* A vault of an earlier version: rows it can hold, all under one key.
OlderVault(p, v2, allow, rows) ==
  [salt |-> 1, token |-> <<p, 1>>, v2 |-> v2, allow |-> allow,
   cell |-> [c \in Cell |->
               IF c \in rows
               THEN [key |-> <<p, 1>>, bound |-> IF v2 THEN c ELSE Unbound,
                     val |-> CHOOSE v \in Value : TRUE]
               ELSE NoBlob]]

\* What the user last stored; nothing (0) where there is no row.
StoredTruth(db) ==
  [c \in Cell |-> IF c[1] = "policy" /\ Present(db, <<"credential", c[2]>>)
                  THEN ClearLevel(db, c[2]) ELSE db.cell[c].val]

OlderRows == {rows \in SUBSET (Rewritten \X Id) :
                \A i \in Id : <<"attachment", i>> \in rows => <<"note", i>> \in rows}

Init ==
  /\ \/ disk = EmptyDatabase /\ salts = 0
     \/ \E p \in Password, v2 \in BOOLEAN, rows \in OlderRows, a \in [Id -> BOOLEAN] :
          /\ \A i \in Id : a[i] => <<"credential", i>> \in rows
          /\ disk = OlderVault(p, v2, a, rows)
          /\ salts = 1
  /\ work = disk
  /\ task = Idle
  /\ session = NoKey
  /\ quick = NoKey
  /\ damage = 0
  /\ truth = StoredTruth(disk)

----------------------------------------------------------------------------
(* Opening and rewriting the vault.                                        *)

Begin(t) == task' = t /\ work' = disk

\* App::onCreateVaultRequested on a database without a vault.
createVault(p) ==
  /\ task = Idle /\ session = NoKey /\ ~vaultExists(disk) /\ salts < MaxSalt
  /\ Begin([op |-> "create", at |-> 1, from |-> NoKey,
            to |-> deriveKey(p, salts + 1), salt |-> salts + 1])
  /\ salts' = salts + 1
  /\ UNCHANGED <<disk, session, quick, damage, truth>>

\* The key is right: a V2 vault opens at once, a legacy one is migrated first.
OpenWith(k) ==
  /\ \/ /\ disk.v2
        /\ session' = k
        /\ Begin(FillPolicies(k))
     \/ /\ ~disk.v2 /\ AllDecrypt(disk, k)
        /\ Begin([op |-> "migrate", at |-> 1, from |-> k, to |-> k, salt |-> 0])
        /\ UNCHANGED session
  /\ UNCHANGED <<disk, quick, salts, damage, truth>>

\* App::onUnlockRequested with VaultRepository::unlockVault.  A wrong password
\* and a legacy row that does not open leave the store as it is.
unlockVault(p) ==
  /\ task = Idle /\ session = NoKey /\ vaultExists(disk)
  /\ deriveKey(p, disk.salt) = disk.token
  /\ OpenWith(deriveKey(p, disk.salt))

\* The wrapped key is trusted.
MutUnlockWithDerivedKey ==
  task = Idle /\ session = NoKey /\ quick # NoKey /\ OpenWith(quick)

\* App::onHelloUnlockRequested with VaultRepository::unlockWithDerivedKey: a
\* wrapped key the vault refuses is thrown away.
unlockWithDerivedKey ==
  /\ task = Idle /\ session = NoKey /\ quick # NoKey
  /\ \/ quick = disk.token /\ OpenWith(quick)
     \/ /\ quick # disk.token \/ (~disk.v2 /\ ~AllDecrypt(disk, quick))
        /\ quick' = NoKey
        /\ UNCHANGED <<disk, work, task, session, salts, damage, truth>>

\* MainWindow::onChangePassword: the current password is checked against the
\* session key, then changeMasterPassword draws a salt and rewrites the vault.
changeMasterPassword(current, new) ==
  /\ task = Idle /\ session # NoKey /\ vaultExists(disk) /\ salts < MaxSalt
  /\ deriveKey(current, disk.salt) = session
  /\ AllDecrypt(disk, session)
  /\ Begin([op |-> "rekey", at |-> 1, from |-> session,
            to |-> deriveKey(new, salts + 1), salt |-> salts + 1])
  /\ salts' = salts + 1
  /\ UNCHANGED <<disk, session, quick, damage, truth>>

\* One stage of the open transaction succeeds.
WriteStage ==
  /\ task.op # "none" /\ ~Ready(task)
  /\ work' = Rewrite(work, task, Plan[task.op][task.at])
  /\ task' = [task EXCEPT !.at = @ + 1]
  /\ UNCHANGED <<disk, session, quick, salts, damage, truth>>

\* The session keeps the key it had.
MutCommit ==
  /\ Ready(task)
  /\ disk' = work
  /\ session' = IF task.op = "rekey" THEN session ELSE task.to
  /\ task' = IF task.op \in {"create", "migrate"} THEN FillPolicies(task.to) ELSE Idle
  /\ UNCHANGED <<work, quick, salts, damage, truth>>

\* COMMIT succeeds.  Creating, migrating and changing the password end with
\* the session on the new key; an unlock goes on to the fill policies.
Commit ==
  /\ Ready(task)
  /\ disk' = work
  /\ session' = task.to
  /\ task' = IF task.op \in {"create", "migrate"} THEN FillPolicies(task.to) ELSE Idle
  /\ UNCHANGED <<work, quick, salts, damage, truth>>

\* What was written so far stays.
MutRollback ==
  /\ task' = Idle
  /\ disk' = work
  /\ UNCHANGED <<work, session, quick, salts, damage, truth>>

\* ~DbTransaction on an early return: the transaction is rolled back.  A
\* session that was open stays open on the key it had.
Rollback ==
  /\ task' = Idle
  /\ work' = disk
  /\ UNCHANGED <<disk, session, quick, salts, damage, truth>>

\* A statement of the transaction, or its COMMIT, fails.
StatementFails == task.op # "none" /\ Rollback

----------------------------------------------------------------------------
(* Reading and writing rows in an open session.                            *)

InSession == task = Idle /\ session # NoKey

Readable(c) == Present(disk, c) => decrypts(disk.cell[c], session, c)

\* The statement takes effect on the committed database.
Write(db) == disk' = db /\ work' = db

WithCells(put) ==   \* put: the new blobs of some cells
  [disk EXCEPT !.cell = [c \in Cell |-> IF c \in DOMAIN put THEN put[c] ELSE @[c]]]

Seal(c, v) == encryptField(v, session, c)

\* createNote, updateNote, storeAttachment, upsertBlock, saveState, appendEvent:
\* one cell sealed under the session key.  An existing note is only saved if it
\* opened (saveCurrentNote returns early on an integrity error).
saveCell(c, v) ==
  /\ InSession
  /\ c[1] \in {"note", "attachment", "sealed", "runbook", "chronicle"}
  /\ c[1] = "note" => Readable(c)
  /\ c[1] = "chronicle" => ~Present(disk, c)
  /\ c[1] \in {"attachment", "sealed", "runbook"} => Present(disk, <<"note", c[2]>>)
  /\ Write([disk EXCEPT !.cell[c] = Seal(c, v)])
  /\ truth' = [truth EXCEPT ![c] = v]
  /\ UNCHANGED <<task, session, quick, salts, damage>>

\* rowToCredential reports an integrity error if any of these does not open.
CredentialCells(i) == {c \in Cell : c[1] \in {"credential", "totp", "policy"} /\ c[2] = i}

\* createCredential and updateCredential: every column in one statement, the
\* TOTP column NULL if the secret is empty.  The editor refuses a credential
\* with an integrity error.
saveCredential(i, v, level, totp) ==
  /\ InSession
  /\ \A c \in CredentialCells(i) : Readable(c)
  /\ LET put == [c \in CredentialCells(i) |->
                   CASE c[1] = "policy" -> Seal(c, level)
                     [] c[1] = "totp" /\ ~totp -> NoBlob
                     [] OTHER -> Seal(c, v)]
     IN /\ Write([WithCells(put) EXCEPT !.allow[i] = (level = 3)])
        /\ truth' = [c \in Cell |-> IF c \notin CredentialCells(i) THEN truth[c]
                                    ELSE IF c[1] = "policy" THEN level ELSE v]
  /\ UNCHANGED <<task, session, quick, salts, damage>>

\* deleteNote with its foreign-key cascade, deleteCredential.
NoteCells(i) ==
  {c \in Cell : c[1] \in {"note", "attachment", "sealed", "runbook"} /\ c[2] = i}

DeleteRows(cells, allow) ==
  /\ InSession
  /\ \E c \in cells : Present(disk, c)
  /\ Write([WithCells([c \in cells |-> NoBlob]) EXCEPT !.allow = allow])
  /\ truth' = [c \in Cell |-> IF c \in cells THEN 0 ELSE truth[c]]
  /\ UNCHANGED <<task, session, quick, salts, damage>>

deleteNote(i) == DeleteRows(NoteCells(i), disk.allow)

deleteCredential(i) == DeleteRows(CredentialCells(i), [disk.allow EXCEPT ![i] = FALSE])

\* MainWindow::onEnableHelloUnlock: unlockVault with the typed password, then
\* PlatformBiometricUnlock::enable wraps the key it returned.
enableQuickUnlock(p) ==
  /\ InSession /\ vaultExists(disk) /\ deriveKey(p, disk.salt) = disk.token
  /\ quick' = deriveKey(p, disk.salt)
  /\ UNCHANGED <<disk, work, task, session, salts, damage, truth>>

\* VaultSession::lock.
lock ==
  /\ InSession
  /\ session' = NoKey
  /\ UNCHANGED <<disk, work, task, quick, salts, damage, truth>>

----------------------------------------------------------------------------
(* What the machine may do.                                                *)

\* The process dies; SQLite rolls an open transaction back on the next open.
Crash ==
  /\ session # NoKey \/ task # Idle
  /\ session' = NoKey
  /\ task' = Idle
  /\ work' = disk
  /\ UNCHANGED <<disk, quick, salts, damage, truth>>

\* A stored blob is damaged on the medium between transactions.
DamageBlob(c) ==
  /\ task = Idle /\ damage < MaxDamage /\ Intact(disk.cell[c])
  /\ Write([disk EXCEPT !.cell[c] = Garbled(c)])
  /\ damage' = damage + 1
  /\ UNCHANGED <<task, session, quick, salts, truth>>

Next ==
  \/ \E p \in Password : createVault(p) \/ unlockVault(p) \/ enableQuickUnlock(p)
  \/ \E p, q \in Password : changeMasterPassword(p, q)
  \/ unlockWithDerivedKey
  \/ WriteStage \/ Commit \/ StatementFails
  \/ \E c \in Cell, v \in Value : saveCell(c, v)
  \/ \E i \in Id, v \in Value, level \in Level, totp \in BOOLEAN : saveCredential(i, v, level, totp)
  \/ \E i \in Id : deleteNote(i) \/ deleteCredential(i)
  \/ lock \/ Crash
  \/ \E c \in Cell : DamageBlob(c)

Spec == Init /\ [][Next]_vars

----------------------------------------------------------------------------
(* Properties.                                                             *)

\* Every variable has its type, and no transaction's view outlives it.
TypeOK ==
  /\ disk \in Database
  /\ work \in Database
  /\ task \in Task
  /\ session \in Key \union {NoKey}
  /\ quick \in Key \union {NoKey}
  /\ salts \in 0..MaxSalt
  /\ damage \in 0..MaxDamage
  /\ truth \in [Cell -> Plain]

\* The stored salt and the stored verification token always belong to one
\* password: no interrupted creation, migration or password change leaves a
\* vault no password opens (storeVaultInfo and the 'verify' row are written by
\* different statements of createVault and changeMasterPassword).
VaultHasPassword ==
  IF vaultExists(disk) THEN \E p \in Password : disk.token = deriveKey(p, disk.salt)
                       ELSE disk.token = NoKey

\* Whatever was interrupted, a committed note, attachment, credential or fill
\* policy that is not damaged opens with the key the verification token opens
\* with: a password change or a migration never leaves a vault half rewritten.
RowsOpenWithVaultKey ==
  \A c \in Cell : c[1] \in Rewritten \union {"policy"} /\ Intact(disk.cell[c])
                    => decrypts(disk.cell[c], disk.token, c)

\* Rewriting never changes what the user stored in a note, an attachment or a
\* credential (the prepared rows of migrateDomainBoundCrypto and
\* changeMasterPassword go back to the rows they came from).
ContentKept ==
  \A c \in Cell : c[1] \in Rewritten /\ Intact(disk.cell[c]) => disk.cell[c].val = truth[c]

\* A vault marked V2 holds no legacy blob: from then on every ciphertext is
\* bound to its row (unlockVault skips the migration once the flag is set).
FormatFlagHonest ==
  disk.v2 => \A c \in Cell : Intact(disk.cell[c]) => disk.cell[c].bound = c

\* No rewrite lets the browser fill more than the user allowed: neither
\* migration nor the password change raises a credential's fill level.
FillNeverWidened ==
  \A i \in Id : Present(disk, <<"credential", i>>)
                  => resolveFillTrustLevel(disk, i) <= truth[<<"policy", i>>]

\* An open session holds the key of the committed vault, also right after a
\* password change that failed half way and after Quick Unlock with a key
\* wrapped before the change: nothing is ever sealed under another key.
SessionHasVaultKey == session # NoKey => session = disk.token

\* The rewrite in progress has gone exactly as far as task.at says: the salt,
\* the token and each row of the transaction's view belong to the new key if
\* their statement has run, to the committed one if not.  This is what lets a
\* COMMIT be safe whatever it follows.
Done(t, s) == \E n \in 1..5 : n < t.at /\ n <= Len(Plan[t.op]) /\ Plan[t.op][n] = s
StageOf(c) == IF c[1] = "policy" THEN "credential" ELSE c[1]
RewriteInStep ==
  /\ work.salt = IF Done(task, "meta") THEN task.salt ELSE disk.salt
  /\ work.token = IF Done(task, "token") THEN task.to ELSE disk.token
  /\ \A c \in Cell : c[1] \in Rewritten \union {"policy"} /\ Intact(work.cell[c])
       => decrypts(work.cell[c], IF Done(task, StageOf(c)) THEN task.to ELSE disk.token, c)

\* A database without a vault holds no rows, and only credentials have policies.
RowsHaveOwner(db) ==
  /\ ~vaultExists(db) => \A c \in Cell : ~Present(db, c)
  /\ \A i \in Id : Present(db, <<"policy", i>>) => Present(db, <<"credential", i>>)

\* The keys a rewrite was started with are still the right ones: nothing else
\* touches the session or the committed database while it runs.
TaskHasKeys ==
  /\ task.op = "none" => work = disk
  /\ task.op = "create" =>
       ~vaultExists(disk) /\ session = NoKey /\ work.cell = disk.cell
  /\ task.op \in {"create", "rekey"} =>
       task.salt # 0 /\ \E p \in Password : task.to = deriveKey(p, task.salt)
  /\ task.op \in {"migrate", "policies"} => task.to = disk.token
  /\ task.op \in {"migrate", "rekey", "policies"} => vaultExists(disk)
  /\ task.op = "migrate" => session = NoKey
  /\ task.op \in {"rekey", "policies"} => session = disk.token

\* The inductive invariant behind the safety theorem.
IInv ==
  /\ TypeOK
  /\ VaultHasPassword
  /\ RowsOpenWithVaultKey
  /\ SessionHasVaultKey
  /\ RewriteInStep
  /\ RowsHaveOwner(disk) /\ RowsHaveOwner(work)
  /\ TaskHasKeys

\* What the user would see: the password that opens the vault, and what each note,
\* attachment and credential says.
master == IF disk.token[2] = disk.salt THEN disk.token[1] ELSE 0
content ==
  [c \in Rewritten \X Id |->
     IF ~Present(disk, c) THEN -1
     ELSE IF decrypts(disk.cell[c], disk.token, c) THEN disk.cell[c].val ELSE -2]

\* To its user the vault is a password and what was stored under it: every
\* operation above, step by step and whatever interrupts it, is one step of
\* VaultPromise or none.  In particular a migration is invisible and a password
\* change happens at once or not at all.
Promise == INSTANCE VaultPromise WITH
  Slot <- Rewritten \X Id, master <- master, content <- content, open <- session # NoKey
KeepsPromise == Promise!Spec

\* Every stored row opens with the vault key, as "Master password changed
\* successfully." (MainWindow.cpp:1503) tells the user.
EveryRowOpens ==
  \A c \in Cell : Intact(disk.cell[c]) => decrypts(disk.cell[c], disk.token, c)
=============================================================================
