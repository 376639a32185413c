-------------------------------- MODULE App --------------------------------
(***************************************************************************)
(* The application around the vault file: the login window, unlocking,     *)
(* failed attempts and self-destruct (App.cpp), replacing the vault file   *)
(* by a restored backup (MainWindow::onRestoreVault) or by a new vault     *)
(* (App::onCreateVaultRequested), and the file operations that install the *)
(* replacement (VaultRepository::installValidatedPlaintextVault).          *)
(*                                                                         *)
(* A file holds nothing, a database without a vault, or a vault: whose     *)
(* password opens it and how many times it was saved (what VaultStore      *)
(* describes is inside).  An open database follows its file when that is   *)
(* renamed, and outlives its removal.  FAULTS are the failures of a file   *)
(* operation and the process dying in the middle of a replacement.  An     *)
(* export is a copy of the live vault the user keeps elsewhere.            *)
(***************************************************************************)
EXTENDS Integers

CONSTANTS
  Password,       \* master passwords
  SelfDestruct,   \* AppSettings::selfDestructEnabled
  MaxSaves,       \* bound: saves of one vault
  MaxFaults       \* bound: failed file operations and ill-timed crashes

kMaxFailedUnlockAttempts == 3
Nobody == 0

ASSUME AppAssumption ==
  /\ Nobody \notin Password
  /\ SelfDestruct \in BOOLEAN
  /\ MaxSaves \in Nat /\ MaxFaults \in Nat

VARIABLES
  file,      \* what is at each path
  db,        \* the path of the file the Database has open, "closed" if none
  session,   \* whose key VaultSession holds, Nobody while locked
  window,    \* "down" (not running), "login", "main"
  prompt,    \* LoginWindow: whether it offers to unlock or only to create
  dialog,    \* onRestoreVault is waiting for the backup's password
  job,       \* the replacement under way and the step it is at
  attempts,  \* the persisted counter of failed unlocks
  wrong,     \* history: how many of them were wrong passwords
  backups,   \* backup files the user has exported
  mine,      \* history: the vault the user has been working with
  faults

vars == <<file, db, session, window, prompt, dialog, job, attempts, wrong,
          backups, mine, faults>>

Content == [kind: {"absent", "empty", "vault"}, owner: Password \union {Nobody},
            saved: 0..MaxSaves]
Absent == [kind |-> "absent", owner |-> Nobody, saved |-> 0]
Empty == [kind |-> "empty", owner |-> Nobody, saved |-> 0]
NewVault(p) == [kind |-> "vault", owner |-> p, saved |-> 0]
IsVault(c) == c.kind = "vault"

\* vault.grim, vault.grim.bak, vault.restore.tmp, vault.grim.new; "unlinked" is
\* a removed file the Database still has open.
File == {"live", "bak", "restore", "staged", "unlinked"}

Idle == [kind |-> "none", at |-> "idle", temp |-> "live",
         old |-> Absent, new |-> Absent, done |-> "none"]
Job == [kind: {"none", "restore", "create"},
        at: {"idle", "clear", "preserve", "move", "check", "discard", "undo", "cleanup", "reopen"},
        temp: {"live", "restore", "staged"},
        old: Content, new: Content,   \* the live file before, the replacement
        done: {"none", "Failed", "Installed", "InstalledWithCleanupWarning"}]

----------------------------------------------------------------------------
(* Files and the open database.                                            *)

Exists(f) == file[f] # Absent
OpenContent == IF db = "closed" THEN Absent ELSE file[db]

\* VaultRepository::vaultExists
vaultExists == IsVault(OpenContent)

Remove(f) ==
  /\ file' = [file EXCEPT ![f] = Absent, !["unlinked"] = IF db = f THEN file[f] ELSE @]
  /\ db' = IF db = f THEN "unlinked" ELSE db

\* Only onto a path where there is no file.
Rename(f, g) ==
  /\ file' = [file EXCEPT ![g] = file[f], ![f] = Absent]
  /\ db' = IF db = f THEN g ELSE db

\* Database::open of the live path creates the file if there is none.
Opened(files) ==
  [files EXCEPT !["live"] = IF @ = Absent THEN Empty ELSE @, !["unlinked"] = Absent]

Fault == faults < MaxFaults /\ faults' = faults + 1

Goto(step) == job' = [job EXCEPT !.at = step]
Finish(result) == job' = [job EXCEPT !.at = "reopen", !.done = result]

Init ==
  /\ file = [f \in File |-> Absent]
  /\ db = "closed"
  /\ session = Nobody
  /\ window = "down"
  /\ prompt = "create"
  /\ dialog = FALSE
  /\ job = Idle
  /\ attempts = 0
  /\ wrong = 0
  /\ backups = {}
  /\ mine = Absent
  /\ faults = 0

----------------------------------------------------------------------------
(* Starting, unlocking, working, locking.                                  *)

\* App::showLogin
showLogin(exists) ==
  /\ window' = "login"
  /\ prompt' = IF exists THEN "unlock" ELSE "create"
  /\ attempts' = 0
  /\ wrong' = 0

\* App::start
start ==
  /\ window = "down"
  /\ file' = Opened(file)
  /\ db' = "live"
  /\ showLogin(IsVault(file["live"]))
  /\ UNCHANGED <<session, dialog, job, backups, mine, faults>>

\* App::onUnlockRequested and onVaultUnlocked.
Unlocked(p) ==
  /\ session' = p
  /\ window' = "main"
  /\ attempts' = 0
  /\ wrong' = 0

AtLogin == window = "login" /\ job = Idle /\ ~dialog

unlock(p) ==
  /\ AtLogin /\ prompt = "unlock"
  /\ vaultExists /\ OpenContent.owner = p
  /\ Unlocked(p)
  /\ UNCHANGED <<file, db, prompt, dialog, job, backups, mine, faults>>

\* The vault is destroyed but the counter goes on.
MutHandleAuthFailure(p) ==
  /\ AtLogin /\ prompt = "unlock" /\ SelfDestruct
  /\ ~(vaultExists /\ OpenContent.owner = p)
  /\ attempts' = attempts + 1
  /\ wrong' = wrong
  /\ UNCHANGED <<session, window, dialog, job, backups, file, db, prompt, mine, faults>>

\* destroyVaultAfterFailedAttempts: the live file is removed and an empty
\* database opened in its place; either may fail.
destroyVault(removed, reopened) ==
  LET left == [file EXCEPT !["live"] = IF removed THEN Absent ELSE @, !["unlinked"] = Absent]
  IN /\ removed \/ Exists("live")
     /\ faults' = faults + (IF removed THEN 0 ELSE 1) + (IF reopened THEN 0 ELSE 1)
     /\ faults' <= MaxFaults
     /\ file' = IF reopened THEN Opened(left) ELSE left
     /\ db' = IF reopened THEN "live" ELSE "closed"
     /\ prompt' = IF reopened /\ IsVault(left["live"]) THEN "unlock" ELSE "create"
     /\ mine' = IF removed THEN Absent ELSE mine

\* App::handleAuthFailure: whatever made unlockVault return false, it is a
\* failed attempt.  Without self-destruct nothing is counted.
handleAuthFailure(p) ==
  /\ AtLogin /\ prompt = "unlock" /\ SelfDestruct
  /\ ~(vaultExists /\ OpenContent.owner = p)
  /\ \/ /\ attempts + 1 < kMaxFailedUnlockAttempts
        /\ attempts' = attempts + 1
        /\ wrong' = wrong + IF vaultExists THEN 1 ELSE 0
        /\ UNCHANGED <<file, db, prompt, mine, faults>>
     \/ /\ attempts + 1 >= kMaxFailedUnlockAttempts
        /\ attempts' = 0
        /\ wrong' = 0
        /\ \E removed, reopened \in BOOLEAN : destroyVault(removed, reopened)
  /\ UNCHANGED <<session, window, dialog, job, backups>>

AtMain == window = "main" /\ job = Idle /\ ~dialog

\* Saving anything in the open vault.
save ==
  /\ AtMain /\ vaultExists /\ file[db].saved < MaxSaves
  /\ file' = [file EXCEPT ![db].saved = @ + 1]
  /\ mine' = file'[db]
  /\ UNCHANGED <<db, session, window, prompt, dialog, job, attempts, wrong, backups, faults>>

\* MainWindow::onBackupVault: exportEncryptedBackupV2 copies the open vault.
onBackupVault ==
  /\ AtMain /\ vaultExists
  /\ backups' = backups \union {file[db]}
  /\ UNCHANGED <<file, db, session, window, prompt, dialog, job, attempts, wrong, mine, faults>>

\* MainWindow::onLockVault, by the user or by the inactivity timer, which also
\* runs while a dialog is open.
onLockVault ==
  /\ window = "main" /\ job = Idle
  /\ session' = Nobody
  /\ showLogin(vaultExists)
  /\ UNCHANGED <<file, db, dialog, job, backups, mine, faults>>

----------------------------------------------------------------------------
(* Beginning to replace the vault.                                         *)

\* MainWindow::onRestoreVault asks for the backup's password ...
onRestoreVault ==
  /\ AtMain /\ backups # {}
  /\ dialog' = TRUE
  /\ UNCHANGED <<file, db, session, window, prompt, job, attempts, wrong, backups, mine, faults>>

\* ... and goes on, even if the vault was locked meanwhile: it closes the
\* database, and restoreFromBackup writes the decrypted, validated backup to
\* vault.restore.tmp; or it gives up before writing anything.
restoreFromBackup(b) ==
  /\ dialog
  /\ dialog' = FALSE
  /\ db' = "closed"
  /\ \/ /\ file' = [file EXCEPT !["restore"] = b, !["unlinked"] = Absent]
        /\ job' = [kind |-> "restore", at |-> "clear", temp |-> "restore",
                   old |-> file["live"], new |-> b, done |-> "none"]
     \/ /\ file' = [file EXCEPT !["unlinked"] = Absent]
        /\ job' = [Idle EXCEPT !.kind = "restore", !.at = "reopen", !.done = "Failed"]
  /\ UNCHANGED <<session, window, prompt, attempts, wrong, backups, mine, faults>>

cancelRestore ==
  /\ dialog
  /\ dialog' = FALSE
  /\ UNCHANGED <<file, db, session, window, prompt, job, attempts, wrong, backups, mine, faults>>

\* App::onCreateVaultRequested: in place if there is no vault, else a staged
\* vault is made to replace the live one.
onCreateVaultRequested(p) ==
  /\ AtLogin /\ db # "closed"
  /\ \/ /\ ~vaultExists
        /\ file' = [file EXCEPT ![db] = NewVault(p)]
        /\ mine' = NewVault(p)
        /\ Unlocked(p)
        /\ UNCHANGED job
     \/ /\ vaultExists
        /\ file' = [file EXCEPT !["staged"] = NewVault(p)]
        /\ job' = [kind |-> "create", at |-> "clear", temp |-> "staged",
                   old |-> file["live"], new |-> NewVault(p), done |-> "none"]
        /\ UNCHANGED <<session, window, attempts, wrong, mine>>
  /\ UNCHANGED <<db, prompt, dialog, backups, faults>>

----------------------------------------------------------------------------
(* VaultRepository::installValidatedPlaintextVault, one file operation at  *)
(* a time.                                                                 *)

\* Everything an install step leaves alone.
Elsewhere == UNCHANGED <<session, window, prompt, dialog, attempts, wrong, backups, mine>>

\* An old .bak is removed if there is a live file to put there; whether that
\* succeeded is not looked at.
clearBackup ==
  /\ job.at = "clear"
  /\ Goto("preserve")
  /\ \/ Exists("live") /\ Exists("bak") /\ Remove("bak") /\ UNCHANGED faults
     \/ Exists("live") /\ Exists("bak") /\ Fault /\ UNCHANGED <<file, db>>
     \/ ~(Exists("live") /\ Exists("bak")) /\ UNCHANGED <<file, db, faults>>
  /\ Elsewhere

\* The live file is removed to make room when it cannot become the .bak.
MutPreserveLive ==
  /\ job.at = "preserve"
  /\ Goto("move")
  /\ IF Exists("bak") THEN Remove("live") ELSE Rename("live", "bak")
  /\ UNCHANGED faults
  /\ Elsewhere

\* The live file becomes the .bak; if it cannot, the attempt ends here.
preserveLive ==
  /\ job.at = "preserve"
  /\ \/ /\ ~Exists("live") /\ Goto("move") /\ UNCHANGED <<file, db, faults>>
     \/ /\ Exists("live") /\ ~Exists("bak") /\ Goto("move")
        /\ Rename("live", "bak") /\ UNCHANGED faults
     \/ /\ Exists("live")
        /\ IF Exists("bak") THEN UNCHANGED faults ELSE Fault
        /\ Finish("Failed")
        /\ Remove(job.temp)
  /\ Elsewhere

\* The old vault is dropped before the new one is checked.
MutMoveReplacement ==
  /\ job.at = "move"
  /\ file' = [file EXCEPT !["live"] = file[job.temp], ![job.temp] = Absent, !["bak"] = Absent]
  /\ Goto("check")
  /\ UNCHANGED <<db, faults>>
  /\ Elsewhere

\* The replacement becomes the live file.  If the rename fails there is no live
\* file, so that removing it fails too and the .bak stays where it is.
moveReplacement ==
  /\ job.at = "move"
  /\ \/ Rename(job.temp, "live") /\ Goto("check") /\ UNCHANGED faults
     \/ Remove(job.temp) /\ Finish("Failed") /\ Fault
  /\ Elsewhere

\* quickCheckOk on the installed file.
checkInstalled ==
  /\ job.at = "check"
  /\ \/ Goto("cleanup") /\ UNCHANGED faults
     \/ Goto("discard") /\ Fault
  /\ UNCHANGED <<file, db>>
  /\ Elsewhere

\* A replacement that fails the check is removed again; whether that succeeded
\* is not looked at.
discardInstalled ==
  /\ job.at = "discard" /\ Goto("undo")
  /\ \/ Remove("live") /\ UNCHANGED faults
     \/ Fault /\ UNCHANGED <<file, db>>
  /\ Elsewhere

\* The .bak is only put back if it can replace a file.
MutUndoInstall ==
  /\ job.at = "undo" /\ Finish("Installed") /\ UNCHANGED <<file, db, faults>> /\ Elsewhere

undoInstall ==
  /\ job.at = "undo"
  /\ Finish("Failed")
  /\ \/ Exists("bak") /\ ~Exists("live") /\ Rename("bak", "live") /\ UNCHANGED faults
     \/ Exists("bak") /\ ~Exists("live") /\ Fault /\ UNCHANGED <<file, db>>
     \/ (Exists("live") \/ ~Exists("bak")) /\ UNCHANGED <<file, db, faults>>
  /\ Elsewhere

\* The .bak is kept.
MutCleanUp ==
  /\ job.at = "cleanup" /\ Finish("Installed") /\ UNCHANGED <<file, db, faults>> /\ Elsewhere

cleanUp ==
  /\ job.at = "cleanup"
  /\ \/ Remove("bak") /\ Finish("Installed") /\ UNCHANGED faults
     \/ Exists("bak") /\ Fault /\ Finish("InstalledWithCleanupWarning") /\ UNCHANGED <<file, db>>
  /\ mine' = job.new
  /\ UNCHANGED <<session, window, prompt, dialog, attempts, wrong, backups>>

----------------------------------------------------------------------------
(* Going on with whatever file is live now.                                *)

Replaced == job.done \in {"Installed", "InstalledWithCleanupWarning"}

\* The session stays open on the restored vault.
MutEndRestore ==
  /\ job.at = "reopen" /\ job.kind = "restore"
  /\ job' = Idle
  /\ file' = Opened(file)
  /\ db' = "live"
  /\ UNCHANGED <<session, window, prompt, attempts, wrong, dialog, backups, mine, faults>>

\* End of onRestoreVault: reopen, then finalizeVaultRestore locks the session
\* and shows the login window; a failed restore goes on as it was.
endRestore ==
  /\ job.at = "reopen" /\ job.kind = "restore"
  /\ job' = Idle
  /\ \/ /\ file' = Opened(file)
        /\ db' = "live"
        /\ UNCHANGED faults
        /\ \/ Replaced /\ session' = Nobody /\ showLogin(IsVault(file["live"]))
           \/ ~Replaced /\ UNCHANGED <<session, window, prompt, attempts, wrong>>
     \/ /\ Fault   \* the database cannot be opened: lock
        /\ UNCHANGED <<file, db>>
        /\ session' = Nobody
        /\ showLogin(FALSE)
  /\ UNCHANGED <<dialog, backups, mine>>

\* End of App::onCreateVaultRequested: the new vault is opened and unlocked;
\* after a failed install the login window keeps the database it had.
endCreate ==
  /\ job.at = "reopen" /\ job.kind = "create"
  /\ job' = Idle
  /\ \/ /\ Replaced
        /\ file' = Opened(file)
        /\ db' = "live"
        /\ Unlocked(job.new.owner)
        /\ UNCHANGED faults
     \/ /\ Replaced /\ Fault   \* the database cannot be opened
        /\ file' = [file EXCEPT !["unlinked"] = Absent]
        /\ db' = "closed"
        /\ UNCHANGED <<session, window, attempts, wrong>>
     \/ /\ ~Replaced
        /\ UNCHANGED <<file, db, session, window, attempts, wrong, faults>>
  /\ UNCHANGED <<prompt, dialog, backups, mine>>

\* The application is closed, or dies: only in the middle of a replacement does
\* dying count as a fault.
stop ==
  /\ window # "down"
  /\ IF job = Idle THEN UNCHANGED faults ELSE Fault
  /\ window' = "down"
  /\ file' = [file EXCEPT !["unlinked"] = Absent]
  /\ db' = "closed"
  /\ session' = Nobody
  /\ dialog' = FALSE
  /\ job' = Idle
  /\ UNCHANGED <<prompt, attempts, wrong, backups, mine>>

Install ==
  clearBackup \/ preserveLive \/ moveReplacement \/ checkInstalled
    \/ discardInstalled \/ undoInstall \/ cleanUp \/ endRestore \/ endCreate

Next ==
  \/ start \/ stop \/ save \/ onBackupVault \/ onLockVault \/ onRestoreVault \/ cancelRestore
  \/ \E p \in Password : unlock(p) \/ handleAuthFailure(p) \/ onCreateVaultRequested(p)
  \/ \E b \in backups : restoreFromBackup(b)
  \/ Install

Spec == Init /\ [][Next]_vars

----------------------------------------------------------------------------
(* Properties.                                                             *)

\* Every variable has its type.
TypeOK ==
  /\ file \in [File -> Content]
  /\ db \in File \union {"closed"}
  /\ session \in Password \union {Nobody}
  /\ window \in {"down", "login", "main"}
  /\ prompt \in {"unlock", "create"}
  /\ dialog \in BOOLEAN
  /\ job \in Job
  /\ attempts \in 0..(kMaxFailedUnlockAttempts - 1)
  /\ wrong \in 0..attempts
  /\ backups \subseteq Content
  /\ mine \in Content
  /\ faults \in 0..MaxFaults

\* "Restore never deletes the live vault until the replacement passes integrity
\* and cryptographic checks" (SECURITY.md:38), however many of the file
\* operations fail: the vault a replacement found live is in some file until the
\* replacement is reported as installed.
OldVaultKept ==
  job # Idle /\ ~Replaced /\ IsVault(job.old) =>
    \E f \in File \ {"unlinked"} : file[f] = job.old

\* No single failure loses the user's vault, across any number of replacements
\* and restarts: what the user last had, down to the last save, is in some
\* file, or the replacement under way is.
VaultKept ==
  faults <= 1 /\ IsVault(mine) =>
    \E f \in File : file[f] = mine \/ (IsVault(job.new) /\ file[f] = job.new)

\* An open session never reads or writes a vault its key does not belong to,
\* also when the vault was replaced under it, or locked while onRestoreVault
\* waited for a password; no single failure makes it.
NoForeignKey ==
  faults <= 1 /\ window = "main" /\ job = Idle /\ vaultExists => OpenContent.owner = session

\* What a replacement reports is what happened: a success has the replacement
\* live, a failure does not leave it there for the next start to open; no single
\* failure makes it lie.
ResultTellsLive == faults <= 1 =>
  /\ Replaced => file["live"] = job.new
  /\ job.done = "Failed" /\ IsVault(job.new) /\ file["live"] = job.new => job.new = mine

\* Without faults no copy of a replaced vault stays behind: the live file is
\* the only one once a replacement is over (its structure is not encrypted).
NoLeftovers ==
  faults = 0 /\ job = Idle => \A f \in File \ {"live"} : ~Exists(f)

\* What is counted, and in the end destroys the vault, is what the login window
\* says: "Incorrect master password. %1 attempt(s) remaining." (App.cpp:216).
CountsWrongPasswords == attempts <= wrong
=============================================================================
