# A TLA+ verification of GrimLedger

GrimLedger is an offline, encrypted notebook and password vault (C++/Qt, SQLite,
libsodium), with a browser extension and a phone front end. These modules model what
can go wrong with it over many steps: interrupted rewrites of encrypted rows, file
replacements that fail half way, keys that outlive the vault they belong to, timers
that save and lock in the middle of a handler, requests decided in questions that
outlive their server, answers that come after the page has gone. Paths are relative
to the repository; `src/` alone is its source directory.

## 1. The system

| component | state it keeps | operations | interacts with | module |
|---|---|---|---|---|
| `storage/VaultRepository` | vault metadata (salt, KDF), the verification token, the crypto-format flag | create, unlock, unlock with a wrapped key, migrate to V2, change the password | `CryptoManager`, `Database`; called by `App`, `MainWindow`, the phone | `VaultStore` |
| the same, on files | live vault, `.bak`, temporary files | back up, restore, install a replacement | `App`, `MainWindow` | `App` |
| `storage/Database`, `DbTransaction` | one SQLite connection, the schema | open, close, BEGIN / COMMIT / ROLLBACK by scope | every repository | `VaultStore`, `App`, `NoteTables` |
| `security/CryptoManager` | none | Argon2id, sealed fields bound to a row (V2), legacy secretbox | every repository | `VaultStore`, `Chronicle` |
| `storage/NoteRepository`, `AttachmentRepository` | notes, folders, tags, attachments | create, update, delete (cascade), duplicate | `MainWindow`, bridge (clips), the phone | `NoteTables` |
| `storage/SealedBlockRepository` | sealed parts of note bodies | split a body on save | `MainWindow` | `NoteTables` |
| `storage/CredentialRepository` | credentials, fill policy, TOTP | create, update, delete, fill in missing policies | `MainWindow`, bridge | `VaultStore`, `Window`, `Extension` |
| `security/SecurityChronicle` | a hash-chained log of events | append, list, verify | `MainWindow` | `Chronicle` |
| `security/VaultSession`, `ChamberManager` | the key, the auto-lock timer, chamber keys | set, lock, time out | everything that needs the key | `Window` |
| `App`, `ui/LoginWindow`, `utils/AppSettings` | which window, the counter of failed unlocks | start, unlock, Quick Unlock, create over a vault, self-destruct | `VaultRepository`, `MainWindow` | `App` |
| `ui/MainWindow` | open note and credential, lists, the bridge | every user operation; runs modal dialogs with nested event loops | all of the above | `Window`, `DeskNotes`, `Bridge` |
| `bridge/` | pending fill and clip, clients, lock generation | list matches, fill, clip, confirm, cancel on lock | native host, `MainWindow` | `Bridge`, `OriginMatcher` |
| `tools/grimledger_host`, `browser-extension/` | one request at a time, timeouts of 10 s and 12 s | forward, give up, fill the page | bridge | `Extension` |
| `mobile/GrimVaultController` | the same vault, a second front end | unlock, create, save, delete, photos | repositories, camera | `PhoneNotes` |
| `security/*Unlock` | the vault key wrapped by the platform | enable, offer, disable | `App`, `MainWindow` | `VaultStore` |
| search, graph, markdown, sharing, import, themes, ... | none of its own, or user interface | | | not modelled |

The desktop program has one thread. Its concurrency is the event loop: the auto-lock
and autosave timers, bridge sockets and queued confirmations run between any two
handlers and inside any modal dialog. The extension adds three processes with timers of
their own, the phone a process the system may end under the camera. Everything else
that is hard comes from persistence: a crash or a failing call between two statements or
two file operations, and keys, rows or policies cached from before a change.

What makes each part correct:

* **Vault store**: at any moment one password opens the committed vault and every
  row opens with its key; a rewrite happens at once or not at all; content, row
  binding and fill levels survive rewrites; no session or wrapped key outlives the
  key it stands for.
* **Application and install**: replacing the vault never loses it, reports what
  happened, and never leaves a session on another vault.
* **Bridge**: a server lives in an unlocked session only; a pending request is the one
  its socket's host is waiting for, the user is asked about it, and it does not stay
  pending for ever; a request is answered once, and nothing is filled after a no;
  connections are counted, so that hosts are never locked out.
* **Window**: text goes from the editor to its own row or is given up by the user; a
  locked window shows nothing; a user who has gone finds the vault locked or a question.
* **Notes**: sealed parts are never lost or left behind; what is called saved is held;
  no front end writes one note over another; a photo goes to its note.
* **Chronicle**: its check passes exactly until an append is cut short, the last hash
  is not read or the password changes, and what passes is what was written.
* **Extension and origins**: a login reaches only a page it belongs to; a success told
  is one; every call ends.

`PROJECT.json` lists every component and, with its line, every hazard found.

## 2. Modules

| module | what it is | proofs |
|---|---|---|
| `VaultStore`, `VaultPromise` | the encrypted database and everything that rewrites it; what it promises | `VaultStore_proofs`, `VaultContent_proofs` |
| `App` | login, self-destruct, restore, creation and the install of a replacement file | `App_proofs` |
| `Bridge` | the bridge's server, its two coordinators, the questions of the main window | `Bridge_proofs` |
| `Window`, `SessionPromise` | editing, saving and locking in the main window with its timers and dialogs; what it promises to who writes in it | `Window_proofs` |
| `NoteTables`, `DeskNotes`, `PhoneNotes`, `Notes` | the note tables; the desktop's and the phone's handlers over them; the vault used by either | `Notes_proofs` |
| `Chronicle` | the chain of security events | `Chronicle_proofs` |
| `OriginMatcher`, `Extension` | which page a credential may fill; popup, worker, hosts and page around the desktop | `Extension_proofs` |
| `MC*` + their `.cfg`s | instances for TLC | |

Composition: `Notes` puts both front ends over `NoteTables`. `Extension` contains the
desktop as far as `Bridge` shows it to a host (one pending fill, one pending clip, a
question each), and `OriginMatcher`. `Window`'s dialogs and `Bridge`'s questions are the
same stack seen from two sides: `Bridge` has the questions that decide requests,
`Window` the dialogs that interrupt a handler, and both have the lock that asks.

### VaultStore

A stored column is a cell `<<field, id>>` with a blob: the key it was sealed with,
the cell its associated data names, the plaintext. `decrypts` is the whole of the
cryptography: a V2 blob opens with its key in its own cell, a legacy blob with its
key anywhere. Fields the code always rewrites together are one cell. `disk` is the
committed database, `work` what the open transaction sees.

A rewrite is a `task`: `Plan` lists the statements of `createVault`,
`migrateDomainBoundCrypto`, `changeMasterPassword` and `migrateFillPolicies` in the
order of the code, `WriteStage` runs the next one, `Commit` ends it, and
`StatementFails` or `Crash` may come at any point. `UPDATE`s of all rows of one
table are one stage: SQLite shows no reader the difference, and a failure in the
middle drops them all. Everything decrypted before the first write is `AllDecrypt`.
Each operation of an open session (`saveCell`, `saveCredential`, `deleteNote`, ...)
is one step because it is one statement or one transaction with nothing in between
that another step could see. `truth` is a history variable: what the user stored.
`quick` is the wrapped key of Quick Unlock.

The initial states are an empty database, legacy vaults, and V2 vaults whose
credentials predate encrypted policies. `DamageBlob` is the medium.

### App

A file is absent, an empty database, or a vault with the password it belongs to and
how often it was saved. The paths are the live vault, `.bak`, `vault.restore.tmp`,
`vault.grim.new`, and a removed file still open. An open connection follows its
file through a rename (POSIX; on Windows renaming an open file fails, which is one of the
faults below). `installValidatedPlaintextVault` is cut into one action per file
operation with its error path; `QFile::rename` fails onto an existing path.
A fault is a file operation or a reopen that fails, or the process dying in the
middle of a replacement; when the application is closed or dies elsewhere it is
`stop`, which costs nothing. `onRestoreVault` is two steps, before and after its
password dialog, since the auto-lock timer runs inside it. Restoring a legacy
(GRIMBKUP1) backup takes the same install path and is not distinguished.
`onBackupVault` adds a copy of the live vault to `backups`.

Left out: writes into a database without a vault from a session left open by a
failed restore (they are lost with it), the chronicle entries of these operations,
and a start that cannot open the database (the program shows an error and idles).

### Bridge

One thread, but a nested event loop: a question is modal and runs the loop, so
`questions` is a stack of which only the top can be answered, and every other handler
may run below it. `posted` are the zero timers of `confirmationRequested`, in their
order. A request is the number it has in `requests`; a socket is an address, which a
later connection may be given again, because coordinators and questions know a
request by that address. A handler is one action: no handler of the server runs the
event loop itself, only the questions do, which is why asking (`openQuestion`) and
answering (`answer`, `answerLock`) are two.

* `lockGeneration` is 1 as long as a server lives: `start` calls `stop`, which counts
  one, and `stopBridge` destroys the server after `stop`. The comparison in
  `completeFillDecision` therefore never fails in this program, and
  `PendingIsConnected` says so.
* `stopBridge` calls `cancelPendingRequests`, and `stop` calls it again, so that a host
  is sent its cancellation twice; it reads one line. `Cancelled` writes one.
* `onVaultUnlocked` needs a program without timers or questions: typing a password
  takes many turns of the loop, and questions are application-modal.
* `onLockVault` is the user's or the timer's; when a note or credential cannot be saved
  it asks whether to discard it (`LockQuestion`), which is itself a question that other
  questions may cover. The lock that ends a restore is the same step as `LockNow`.
* A decision that finds no server is a call through a null `m_bridge`. The outcome
  modelled is that the process dies; what runs on is its successor, with no question
  open (`crashed` remembers).
* A credential is what it would give the page that asks (`offer`): fill level and origin
  match together, changed by editing or deleting it.

Left out: `lock_status` and `list_matches`, which change nothing (`Extension` has the
list); the session token, which every host of this model has; the warning of
`listenFailed`, so that a failing start is one step; the clipper's own setting, which is
a refusal that may come at any time; and the note a clip creates.

One thing the model shows: the click on a question can come after its host has gone and
before the question of the request that follows has been opened. If the following
connection has been given the same socket address, that click decides the following
request, with the credential of that one. `FilledIsAsked` allows this case and no other.

### Window

The window while the vault is unlocked, and what goes on behind a lock. One note and one
credential can be open (`editor`, `cred`), the rows are `notes` and `credentials`, a row
that does not decrypt is `Damaged`. `dialogs` is the stack of modal dialogs: a handler
that opens one is two actions, before and after (`deleteNote` and `endDeleteNote`,
`onNoteSelected` and `endSelect`, `onSaveAndClose` and `endSaveAndClose`, ...), and between
them a timer may save (`onAutosaveTimer`) or lock (`onAutoLockTimeout`). Every write may
fail; a failed write is a choice of the action. `locking` is `m_lockingVault`; `timer` the
single-shot timer of `VaultSession`, which firing consumes. `away` says that the user
has gone: from then on no action of the user is taken, which is what `FairSpec` needs.

`SessionPromise` is the same window without timers, lists and dialogs: rows, the note
being edited, and a lock that is closed, open or asking. `Window` implements it under
the mapping `rows <- notes`, `editing <- edited` and `state <- lockState`
(`KeepsPromise`).

Left out: reads that SQLite refuses (rows that do not decrypt are in), what the lists
cache (nothing in it is shown by the editors), previews, exports, drag and drop, the settings that no state depends on. The bodies of notes are
one value here; what is inside them is `Notes`.

### Notes

A repository operation is the set of everything it may return and leave in the database:
`[ok, db]` records, one for each statement that may have failed (`createNote`,
`updateNote`, `storeAttachment`, `NoteSaves`, ...). A crash inside an operation leaves the
database as one of its failures does, so crashes need no action beyond the front end's
end. A body is a sequence of units: words, images, sealed blocks as typed (`BlockWidth`
units wide) and the markers that replace them (`MarkerWidth`), so that
`processBodyForSave`'s use of positions of the original text in the text it has already
changed is what it is. `DeskNotes` has the main window's handlers as single steps,
`PhoneNotes` the controller's calls together with the QML screen that keeps the body,
the camera's result that may come after a lock, a deletion or a new process, and the
setting that remembers what it was for.

The vault may be any one in which rows are sound and texts refer only to rows that were
created (`Sound`, `Intelligible`); a note whose text refers to another's row when the
program starts was copied before, and counts among `copies`. `Known` and `Resolves` are what
the properties mean by a reference that leads somewhere. `MarkedUpTo` is the text when
`processBodyForSave` has come to a position, `MarkedBody` when it has come to the end.

Left out: tags (whose failures every caller ignores), attachments other than images,
`renameFolder` and `deleteFolder`, which no front end calls, and the phone's credentials.

### Chronicle

`appendEvent` runs three statements, each of which may fail, and the process may end
between two. The first reads the hash of the last row; `lastEntryHash` is the set of what
may come of it, since a SELECT that fails returns the empty hash, like an empty table, and
the INSERT goes on from there: a second chain begins (`forked`). The last one seals the row
under its id; without it the row keeps its placeholder (`cut`). A password change leaves
the entries sealed under the old key (`rekeyed`), a restore brings back a backup's table
with its key. A hash is the sequence of events it covers, so that equal hashes mean equal
histories. `written` is a history variable.

`verifyChain` is taken of the rows its SELECT returns. The code's loop ends at the first
step that gives no row, failed or not, and the rows before it decide: `OkIsWritten` is
therefore about every beginning of the table, `IntactVerifies` about a check that reads it
to the end. A SELECT that cannot be prepared fails the check, whatever the table holds;
this is not in the model.

### OriginMatcher and Extension

A host is a sequence of pieces, dots among them, so that "ends with", "ends with a dot
and", and a name that merely ends alike are different things. `IsSite` is the reference
definition the function is compared with: same site, or a subdomain where the level
allows. In `Extension` a port is one request with its native host; `worker[p]` is what
background.js waits for, `host[p]` the process, `answer[p]` what the desktop wrote.
The tab navigates, the credential is edited, the popup closes, hosts die and timers fire
between any two steps.

Left out: the popup's first ping, the session token, the suspension of the service
worker (which ends its ports like `hostDies`), closed tabs (like a rejected message), and
the selectors content.js looks for fields with.

## 3. Runs

| run | bounds | distinct states | shows |
|---|---|---|---|
| `vault_store` | 2 passwords, 1 row slot, 5 columns (the 4 rewritten ones and TOTP), 2 values, 3 salts, 1 damaged blob | 184 358 | the safety properties, and that `VaultStore` implements `VaultPromise` |
| `rekey_forgets` | all 8 columns, 1 value, 2 salts | | **violation**: a password change forgets TOTP secrets, sealed blocks, runbooks and the chronicle |
| `app` | 2 passwords, 1 save per vault, 2 faults | 150 502 | the vault is never lost, sessions stay on their vault, results are true |
| `counts_any_failure` | 1 fault | | **violation**: failures that are not wrong passwords are counted |
| `bridge` | 3 sockets, 2 clients at a time, 3 requests, 1 credential | 1 762 496 | the server and its pending requests follow session and connections, everything pending is asked about, clients are counted, requests decided once |
| `bridge_twice` | 2 sockets, 1 client at a time, 2 requests, 1 server that cannot listen | 450 744 | with requests asked about twice: nothing is filled after a no, what is filled was asked about, nothing stays pending |
| `lock_in_question` | 2 requests | | **violation**: a lock during a question, then its answer, kills the program |
| `window` | 2 notes, 2 credentials, 2 texts, 2 initial vaults | 757 612 | the window keeps `SessionPromise`; what is shown, saved, asked and locked; a user who is away finds it locked or asked |
| `key_outlives_lock` | 1 note, 1 credential | | **violation**: after a restore the chambers keep the master key |
| `notes` | 2 notes, 1 folder, 2 blocks, 1 image, bodies of 2 typed units, 3 initial vaults | 184 770 | both front ends over the tables: nothing left behind, nothing lost, nothing written over |
| `chronicle` | 3 events, 3 keys | 56 106 | three false alarms and no other, none forgotten; no false pass |
| `extension` | 2 ports, 2 pages, 1 credential with 2 versions | 281 520 | what is filled belongs to its page, what is said is done, every call ends |

Why the bounds are enough. Three salts allow one vault and two password changes, back to
the first password too, with Quick Unlock enabled before, between or after them.
Rows do not interact except through the task, and one slot in each column already
separates rows that were rewritten from rows that were not. A damaged blob tries the
paths where a rewrite gives up; more of them try the same path again. In `App` the two
passwords tell the vault from its replacement; one save tells a backup from the vault it
was taken of, and two faults are every way two calls of an install can fail, in every
order with restarts and retries in between. In `Bridge` two connections are needed for a
question over another one (a fill and a clip; a fill and the same address again), a third
request for one that comes after either or is refused because all clients are taken. All
addresses are alike, and the run uses that symmetry. In `Window` a second note is what the
editor moves to, or what a save could hit by mistake; a second text tells an edit from
what is stored; dialogs nest two deep at most (`DialogsInOrder`), which the run and
the proof both show. In `Notes` one block and two units let a save replace a block, keep
a word or an image next to it, and save again; the second block slot is the new row
every save makes. Three chronicle entries have one whose predecessor is not the first, and one in the
second chain that follows that chain's first;
three keys a restore of a backup older than a password change. In `Extension` two ports
are a call and its retry; the two pages are a subdomain and a name that only ends alike.

The theorems of section 5 hold without these bounds.

The deadlock check is off where the program really can stop: `vault_store`
and `rekey_forgets` (a legacy vault with a damaged row and no password that opens it),
`window` and `key_outlives_lock` (the user has gone and the vault is locked).

The properties of `App` say for how many faults they hold. With two faults `VaultKept`
does not, by design of the install: a crash after the replacement moved in leaves the old
vault as `.bak`, a retry removes that `.bak`, and a failure of the retry can then lose
what the user last worked with. Likewise a check that fails with a removal that fails
leaves a replacement live that was reported as failed. So `VaultKept`, `NoForeignKey`
and `ResultTellsLive` speak of at most one fault, `NoLeftovers` of none, and
`OldVaultKept`, the promise one replacement at a time, of any number.

Fairness. `VaultStore`, `App`, `Notes` and `Chronicle` assume none. Elsewhere, no
fairness is assumed of the user.

* `Bridge`: weak fairness of `onClientDisconnected`. A native host waits ten seconds for
  its answer (`tools/grimledger_host/main.cpp:133`) and exits, which closes its
  connection, and the event loop, which runs inside questions too, delivers that.
* `Window`: weak fairness of the autosave timer, and of the auto-lock timer once the
  user is away. A QTimer that runs fires, also in the event loop of a dialog. While the
  user works, activity restarts the auto-lock timer, so that nothing is assumed then.
* `Extension`: weak fairness of background.js's timer, of a host whose input was closed,
  and of the browser delivering or rejecting a message to a tab.

## 4. Disagreements between the code and what it says

Checked by runs that end in a violation:

1. `changeMasterPassword` (`src/storage/VaultRepository.cpp:709`) does not touch
   `encrypted_totp`, sealed blocks, runbook sessions or the chronicle: the old key is
   gone, and with it what they hold. The credential with the TOTP secret then counts as
   damaged and cannot be edited. The user reads "Master password changed
   successfully." (`src/ui/MainWindow.cpp:1503`). (`rekey_forgets`)
2. Any failure of `unlockVault` is announced and counted as a wrong password
   (`src/App.cpp:104`, `216`). (`counts_any_failure`)
3. `m_bridge` is tested before a modal question and used after it
   (`src/ui/MainWindow.cpp:1875`, `1886`); an auto-lock in between resets it. The server
   has an answer for this case, "Vault locked during confirmation."
   (`src/bridge/CredentialBridgeServer.cpp:461`), that is never reached.
   (`lock_in_question`)
4. A restore locks the vault without `m_chambers.reset()`
   (`src/ui/MainWindow.cpp:1626`, compare `1356`): the copy of the master key that the
   chambers were given at the unlock stays, where `SECURITY.md:24` says the key is zeroed
   on lock. (`key_outlives_lock`)

Seen while modelling, and part of what the models do:

* **Vault and files.** Both rewrites store policy byte 1, `UsernameOnly`, for credentials
  that allow subdomains (`VaultRepository.cpp:633`, `906`); `SECURITY.md:18` says the policy
  is stored in the blob. `FillNeverWidened` shows that the error is on the narrow side.
  `App::showLogin` resets the failed-unlock counter at every start (`src/App.cpp:47`), where
  `SECURITY.md:63` says it is persisted. When a replacement cannot be moved into place, the
  rollback (`VaultRepository.cpp:1478`) first removes a live file that is not there, fails,
  and leaves the vault in `.bak`; the application goes on with an empty live database. While
  a fill policy is damaged, a password change falls back on the clear column.
* **Bridge.** `Clipped "%1" from %2` enters the chronicle when the user says yes
  (`MainWindow.cpp:1919`), whether or not a note was saved. When `start` fails, the
  coordinators stay connected (`:1936`); `Qt::UniqueConnection` (`:1897`) does not apply to
  lambdas, so that from the next start on every request is asked about twice.
* **Window.** An idle auto-lock that cannot save asks instead of locking (`README.md:215`
  says it locks). Typed text is lost to a new or duplicated note, to the open note
  clicked again, and to a selection after the warning that it was not saved;
  `TypedIsKept` names each of these. Edits of a credential without a label are dropped
  without a question when the section is left, and edits that could not be saved when
  another one is clicked: going back to the open one in the list loads it again
  (`MainWindow.cpp:637`, `CredentialList.cpp:36`). `clearSensitiveState` refills the
  cached notes while the key is still set (`:1840`), and list items are never cleared. A
  dialog that outlives the lock acts on the locked vault. Locking the Work chamber hides
  nothing, although the message says so (`:1124`).
* **Notes.** With two sealed blocks in one text the second is replaced at its position in
  the original text: part of a secret stays in clear and other text is overwritten
  (`SealedBlockRepository.cpp:73`). `SavedIsHeld` and `WrittenIsTyped` are about texts with
  at most one. Every save makes new rows for the blocks and orphans the old ones. Markers
  are never expanded again in the editor. A duplicate has neither images nor sealed
  blocks: its BEGIN inside a transaction fails (`NoteRepository.cpp:337`).
* **Phone.** "+ New" keeps the folder, star and tags of the note before; a damaged note
  opens empty and saving overwrites it, which the desktop refuses; the QML ignores the
  result of a save; a lock drops what was edited; activity does not restart the
  auto-lock timer; a deleted image leaves its reference.
* **Chronicle.** The check fails after a crash or failure before an entry is sealed under
  its id, after a failed read of the last hash (`SecurityChronicle.cpp:15`) and after a
  password change, from then on, and says "Chain integrity: CHECK FAILED" then; events that
  could not be inserted, and a tail that was cut off, are not noticed.
* **Extension.** A clip may be saved although the popup reported an error, and a retry
  then saves it twice; the popup closes when the desktop's question takes the focus;
  `host:8443` without a scheme is read as a scheme and never matches; a username-only fill
  into a page without a username field still says it succeeded.

## 5. Proofs

All theorems hold for every value of the constants that the named assumptions allow; TLC
evaluates those assumptions in every run. Each proof rests on one inductive invariant,
checked first with TLC on the instances of section 3 and proved by three facts: `Init` implies
it, every step keeps it, and it implies the property.

`VaultStore_proofs` (`ConstantsAssumption`: the columns in use include the four that are
rewritten, values are numbers, 0 is no password, at least one salt).

* `Typing`, `Safety` (`VaultHasPassword`, `RowsOpenWithVaultKey`, `SessionHasVaultKey`,
  `RewriteInStep`), `OnePassword`, `RightKey`. None of the four is inductive: a COMMIT is
  safe only if the transaction's view is consistent, and half-way through a password change
  it is not. `RewriteInStep` says which rows belong to which key, stage by stage. To keep
  it one must know that nobody moves the session or the database while a rewrite runs
  (`TaskHasKeys`), and that a rewrite that leaves a column alone finds no orphans in it
  (`RowsHaveOwner`). The hard cases are `WriteStageSafe` and `CommitSafe`.

`VaultContent_proofs` goes on from there.

* `Content` (`ContentKept`, `FormatFlagHonest`, `FillNeverWidened`), `FlagIsHonest`,
  `NeverWider`. `CInv` adds to `IInv` that the transaction's view says what the database
  says although its blobs differ (`RowsInStep`), which blobs are bound already
  (`FormatInStep`), and that no policy, in either, is above the user's. It needs that a
  rewrite starts only when every row could be opened.
* `PromiseKept`: `Spec => KeepsPromise`, the refinement of `VaultPromise`. The mapping is
  `master` (the password whose key the token is) and `content` (what the rows say); the
  step that matters is COMMIT, which changes the password for all rows at once and
  no content (`CommitPromised`). All other statements of a rewrite are stutters.

`App_proofs` (`AppAssumption`: bounds are naturals, 0 is no password).

* `KeepsOldVault`, `SuccessIsTrue`, `Typing`, for any number of faults, from `AInv`: which
  file has the old vault and which the replacement, at each step of the install
  (`OldIsSomewhere`, `NewIsSomewhere`).
* `NothingIsLost`, `KeyFitsVault`, `ResultIsTrue`, `NothingLeft`, from `FInv`, which adds
  what is true before the first fault (`CleanState`: what the user last had is the live
  vault, and there is no other file) and after it (`AfterOneFault`: a replacement that is
  given up leaves it live or as the `.bak`). After the first fault a replacement succeeds
  unless there is a second, so that it is enough to look at the step the first one
  hits. `OpenInJob` and `SessionInJob` follow the open database through the renames:
  without them a session could find another vault behind its path.

`Bridge_proofs` (`BridgeAssumption`: bounds are naturals, at least one client).

* `Connected` (`TypeOK`, `BridgeFollowsSession`, `PendingIsConnected`) and
  `FollowsSession`, from `IInv` with `ConnectionsAreRequests`: a line just read belongs to a
  request that was made, on a living server of this generation.
* `AskedAll`, `AllCounted`, `AnsweredOnce`. `Kinds` says that every step restarts the
  server, leaves it alone, connects, reads, disconnects, or decides about one question; the
  three are then shown kind by kind. `AskedAll` needs that a server has somebody who asks
  (`SomebodyAsks`); `AllCounted` that the connections are finite; `AnsweredOnce` that no two
  sockets carry one request and that what is unread or pending has no answer yet
  (`Unanswered`).
* `NoIsFinal` (`NothingAfterNo`) and `YesIsPrecise` (`FilledIsAsked`), from `DecidedInv`. A
  no is final because it settles its request: it has been read, it is no longer pending as
  a fill, and no step makes it so again (`Settled`). A yes is precise because the questions,
  open or posted, come in the order of their requests at each socket (`InOrder`), and none
  is about a later request than the one its socket carries; so the one pending is the
  question's own, or a later one whose own question is still posted.

`Window_proofs` (`WindowAssumption`).

* `Inductive`, `TimerAlwaysRuns`, `AskingIsLocking`, `NothingIsShown`, `EditorsAreRows`,
  `SavedIsTrue`. The invariant is `IInv`; `DialogsInOrder` says which dialogs can be over
  which others, hence what a handler that goes on may find, and `EditorIsReadable` that
  a damaged note has no text to save.
* `PromiseIsKept`: `Spec => KeepsPromise`, the refinement of `SessionPromise`, with one
  step for each handler's half. `TypedTextIsKept`: the action property, for any texts.

`Notes_proofs` (`NoteTablesAssumption`, `NotesAssumption`). Each repository operation has a
lemma that holds for everything it may leave behind, so that a handler's case only
composes them.

* `Rows` (`RowsOfNotes`) and `Photos` (`PhotoGoesHome`), from `IInv`, in which a body is any
  value.
* `Types` (`TypeOK`), `Saving` (`SavedIsHeld`), `Referring` (`ReferencesResolve`) and
  `Typing` (`WrittenIsTyped`), from `TextInv` on top of it: what is stored, in the editor and
  on the screen refers to what its note has (`Reads`), and what is called saved is stored
  (`Shown`). They rest on what `processBodyForSave` computes for a body of any length and
  any widths: the body as typed if no block was stored (`MarkedNever`), one replacement
  if one was (`MarkedOnce`), always units of the body and markers of the stored blocks
  (`MarkedType`); and a text of one sealed block says, with its marker in its place and the
  block of that row, what it said before (`SealMarked`: every run of one unit that is in one
  text is in the other, moved by the difference of the widths). How a step can disturb what
  a text says is said once, by `Keeps` and `Beside`: rows created stay created, a note
  loses no block, its images are at most deleted, and other notes' rows are left alone.

`Chronicle_proofs` (`ChronicleAssumption`): `NoFalseAlarm` and `Truthful`, from `Sound` of
the table and of the backup. `RowsSound`: each entry has the hash of the one before or, in a
forked chain, perhaps none, over what was written, and opens unless `cut` or `rekeyed`;
this gives that an unharmed table passes. `Scarred`: each of the three left an entry that
will not pass, by its associated data, its key or its empty link; this gives the converse,
for which a new key must be none that any row has (`KeysMade`).

`Extension_proofs`: `Typing` and `Belonging` (`FilledWhereItBelongs`). `AnswersBelong`
carries the comparison from the answer to the page, and a lemma about `OriginMatcher` shows
that what it accepts is the site or a subdomain. `Said` (`SaidIsDone`) adds `SavedIsDone`: an
answer that says "saved" stands for a clip that was carried out, and a port that is used
again forgets both together.

Induction over the positions of a body cannot cite the library's induction theorems,
whose hypothesis is an operator. `Notes_proofs` states it about a set of numbers instead
(`Induction`), from the well-foundedness of `Nat`, and the recursive function
`MarkedUpTo` is shown to exist stepwise (`MarkedStepwise`) before anything is said of it.

Only model-checked: liveness under fairness (`PendingClears`, `AwayIsLockedOrAsked`,
`CallsEnd`), with ENABLED out of the prover's reach. Every other property of the passing
runs is a theorem's. What TLC alone shows, besides, is that the four statements of section 4
are not so.

## 6. Not modelled

* Sharing and import: file formats, no state beyond creating notes and credentials.
* Search, graph, secret scanning, redaction, breach check: read-only views of what was
  decrypted, with nothing to interleave.
* Markdown, image sanitising, clipboard, TOTP, password generation: pure functions, and one
  timer that clears the clipboard.
* Windows, dialogs, themes: layout; what they trigger is modelled where it is handled.
* Of modelled parts: tags, runbook progress, the phone's credential screens, exports,
  `BridgeAuth`'s tokens, ALTER TABLE upgrades (reflected in `VaultStore`'s initial states),
  what validation reads inside a backup (`App` has one choice: accepted or refused).
* The primitives of libsodium, SQLite's atomic commit and the platform's key store are
  taken at their word.
