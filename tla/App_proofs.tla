----------------------------- MODULE App_proofs -----------------------------
(***************************************************************************)
(* Proofs about App, for any passwords, any number of saves and any number *)
(* of failed file operations and crashes.                                  *)
(***************************************************************************)
EXTENDS App, TLAPS

Working == {"clear", "preserve", "move", "check", "discard", "undo", "cleanup"}

\* Where the vault a replacement found live is, step by step.
OldIsSomewhere == IsVault(job.old) =>
  /\ job.at \in {"clear", "preserve"} => file["live"] = job.old
  /\ job.at \in {"move", "check", "discard", "undo", "cleanup"} => file["bak"] = job.old
  /\ job.at = "reopen" /\ ~Replaced => \E f \in File \ {"unlinked"} : file[f] = job.old

\* Where the replacement is until it is known to be the live vault.
NewIsSomewhere ==
  /\ job.at \in {"clear", "preserve", "move"} => file[job.temp] = job.new
  /\ job.at \in {"check", "cleanup"} => file["live"] = job.new
  /\ Replaced => job.at = "reopen" /\ file["live"] = job.new

\* A replacement runs in a running application, on a file of its own.
JobInPlace ==
  /\ window = "down" => job.at = "idle" /\ ~dialog
  /\ job.at = "idle" => job = Idle
  /\ job.at \in Working => job.temp \in {"restore", "staged"} /\ job.done = "none"

AInv == TypeOK /\ JobInPlace /\ OldIsSomewhere /\ NewIsSomewhere

\* A replacement that is reported as a success has the new vault live.
SuccessIsLive == Replaced => file["live"] = job.new

----------------------------------------------------------------------------
(* The kinds of contents and files.                                        *)

\* What a file can hold.
LEMMA Contents ==
  /\ Absent \in Content /\ Empty \in Content
  /\ \A p \in Password : NewVault(p) \in Content
  /\ ~IsVault(Absent)
BY AppAssumption DEF Absent, Empty, NewVault, Content, IsVault

\* Idle is a job, at no step.
LEMMA IdleJob == Idle \in Job /\ Idle.at = "idle" /\ Idle.old = Absent /\ Idle.done = "none"
BY Contents DEF Idle, Job, File

\* The fields of a job.
LEMMA Jobs ==
  ASSUME NEW j \in Job
  PROVE  /\ j.temp \in {"live", "restore", "staged"} /\ j.old \in Content /\ j.new \in Content
         /\ j.temp \in File
BY DEF Job, File

\* Going on with a job, or ending it.
LEMMA JobSteps ==
  ASSUME TypeOK
  PROVE  /\ \A step \in {"clear", "preserve", "move", "check", "discard", "undo", "cleanup", "reopen"} :
              Goto(step) => /\ job' \in Job /\ job'.at = step /\ job'.temp = job.temp /\ job'.kind = job.kind
                            /\ job'.old = job.old /\ job'.new = job.new /\ job'.done = job.done
         /\ \A r \in {"Failed", "Installed", "InstalledWithCleanupWarning"} :
              Finish(r) => /\ job' \in Job /\ job'.at = "reopen" /\ job'.temp = job.temp /\ job'.kind = job.kind
                           /\ job'.old = job.old /\ job'.new = job.new /\ job'.done = r
BY DEF TypeOK, Goto, Finish, Job

\* Removing a file.
LEMMA Removed ==
  ASSUME TypeOK, NEW f \in File \ {"unlinked"}, Remove(f)
  PROVE  /\ file' \in [File -> Content] /\ db' \in File \union {"closed"}
         /\ file'[f] = Absent /\ db' = IF db = f THEN "unlinked" ELSE db
         /\ \A g \in File \ {f, "unlinked"} : file'[g] = file[g]
         /\ db # f => file'["unlinked"] = file["unlinked"]
BY Contents DEF TypeOK, Remove, File

\* Renaming a file.
LEMMA Renamed ==
  ASSUME TypeOK, NEW f \in File \ {"unlinked"}, NEW g \in File \ {f, "unlinked"}, Rename(f, g)
  PROVE  /\ file' \in [File -> Content] /\ db' \in File \union {"closed"}
         /\ file'[g] = file[f] /\ file'[f] = Absent /\ db' = IF db = f THEN g ELSE db
         /\ \A h \in File \ {f, g} : file'[h] = file[h]
BY Contents DEF TypeOK, Rename, File

\* Opening the live path makes a database of nothing, and leaves all else.
LEMMA Opens ==
  ASSUME NEW files \in [File -> Content]
  PROVE  /\ Opened(files) \in [File -> Content]
         /\ \A f \in File \ {"live", "unlinked"} : Opened(files)[f] = files[f]
         /\ Opened(files)["live"] = (IF files["live"] = Absent THEN Empty ELSE files["live"])
         /\ Opened(files)["unlinked"] = Absent
BY Contents DEF Opened, File

\* A failure is counted up to its bound.
LEMMA Faults ==
  ASSUME TypeOK, Fault
  PROVE  faults' \in 0..MaxFaults
BY AppAssumption DEF TypeOK, Fault

----------------------------------------------------------------------------
(* The invariant.                                                          *)

\* Nothing is under way at first.
LEMMA InitSafe == Init => AInv
  <1> SUFFICES ASSUME Init PROVE AInv
    OBVIOUS
  <1>1. TypeOK
    <2>1. file \in [File -> Content] /\ mine \in Content
      BY Contents DEF Init
    <2>2. attempts \in 0..(kMaxFailedUnlockAttempts - 1) /\ wrong \in 0..attempts /\ faults \in 0..MaxFaults
      BY AppAssumption DEF Init, kMaxFailedUnlockAttempts
    <2>3. dialog \in BOOLEAN /\ backups \subseteq Content
      BY DEF Init
    <2>4. QED
      BY <2>1, <2>2, <2>3, IdleJob DEF Init, TypeOK
  <1>2. JobInPlace /\ OldIsSomewhere /\ NewIsSomewhere
    BY IdleJob, Contents DEF Init, JobInPlace, OldIsSomewhere, NewIsSomewhere, Working, Replaced
  <1>3. QED
    BY <1>1, <1>2 DEF AInv

\* While nothing is under way, it does not matter what becomes of the files.
LEMMA AtRest ==
  ASSUME TypeOK', job' = Idle, window' = "down" => ~dialog'
  PROVE  AInv'
BY IdleJob, Contents DEF AInv, JobInPlace, OldIsSomewhere, NewIsSomewhere, Working, Replaced

\* Showing the login window, and unlocking, keep the counters in their bounds.
LEMMA Counters ==
  ASSUME TypeOK
  PROVE  /\ \A p \in Password : Unlocked(p) =>
              /\ session' \in Password \union {Nobody} /\ window' = "main"
              /\ attempts' \in 0..(kMaxFailedUnlockAttempts - 1) /\ wrong' \in 0..attempts'
         /\ \A e \in BOOLEAN : showLogin(e) =>
              /\ window' = "login" /\ prompt' \in {"unlock", "create"}
              /\ attempts' \in 0..(kMaxFailedUnlockAttempts - 1) /\ wrong' \in 0..attempts'
BY DEF TypeOK, Unlocked, showLogin, kMaxFailedUnlockAttempts

\* What a failed attempt may destroy.
LEMMA DestroyType ==
  ASSUME TypeOK, NEW removed \in BOOLEAN, NEW reopened \in BOOLEAN, destroyVault(removed, reopened)
  PROVE  /\ file' \in [File -> Content] /\ db' \in File \union {"closed"}
         /\ prompt' \in {"unlock", "create"} /\ mine' \in Content /\ faults' \in 0..MaxFaults
  <1> DEFINE left == [file EXCEPT !["live"] = IF removed THEN Absent ELSE @, !["unlinked"] = Absent]
  <1>1. left \in [File -> Content]
    BY Contents DEF TypeOK, File
  <1>2. file' = IF reopened THEN Opened(left) ELSE left
    BY DEF destroyVault
  <1>3. file' \in [File -> Content]
    BY <1>1, <1>2, Opens
  <1>4. db' \in File \union {"closed"} /\ prompt' \in {"unlock", "create"} /\ mine' \in Content
    BY Contents DEF destroyVault, File, TypeOK
  <1>5. faults' \in 0..MaxFaults
    BY AppAssumption DEF destroyVault, TypeOK
  <1>6. QED
    BY <1>3, <1>4, <1>5

\* What goes on while no replacement is under way, and what begins one.
LEMMA OutsideSafe ==
  ASSUME AInv,
         \/ start \/ stop \/ save \/ onBackupVault \/ onLockVault \/ onRestoreVault \/ cancelRestore
         \/ \E p \in Password : unlock(p) \/ handleAuthFailure(p) \/ onCreateVaultRequested(p)
         \/ \E b \in backups : restoreFromBackup(b)
  PROVE  AInv'
  <1>0. TypeOK /\ JobInPlace /\ OldIsSomewhere /\ NewIsSomewhere
    BY DEF AInv
  <1>1. CASE start
    <2>1. job = Idle /\ ~dialog /\ UNCHANGED <<session, dialog, job, backups, mine, faults>>
      BY <1>0, <1>1 DEF start, JobInPlace
    <2>2. file' \in [File -> Content] /\ db' \in File
      BY <1>0, <1>1, Opens DEF start, TypeOK, File
    <2>3. TypeOK'
      BY <1>0, <1>1, <2>1, <2>2, Counters DEF start, TypeOK, IsVault
    <2>4. QED
      BY <2>1, <2>3, AtRest
  <1>2. CASE stop
    <2>1. file' \in [File -> Content]
      BY <1>0, <1>2, Contents DEF stop, TypeOK, File
    <2>2. faults' \in 0..MaxFaults
      BY <1>0, <1>2, Faults DEF stop, TypeOK
    <2>3. TypeOK' /\ job' = Idle /\ ~dialog'
      BY <1>0, <1>2, <2>1, <2>2, IdleJob DEF stop, TypeOK
    <2>4. QED
      BY <2>3, AtRest
  <1>3. CASE save
    <2>1. db \in File /\ job = Idle /\ window = "main"
      BY <1>0, <1>3, Contents DEF save, AtMain, vaultExists, OpenContent, TypeOK
    <2>2. [file[db] EXCEPT !.saved = @ + 1] \in Content
      BY <1>0, <1>3, <2>1, AppAssumption DEF save, TypeOK, Content
    <2>3. file' = [file EXCEPT ![db] = [file[db] EXCEPT !.saved = @ + 1]] /\ mine' = file'[db]
      BY <1>3 DEF save
    <2>4. file' \in [File -> Content] /\ mine' \in Content
      BY <1>0, <2>1, <2>2, <2>3 DEF TypeOK
    <2>5. TypeOK' /\ job' = Idle /\ window' = "main"
      BY <1>0, <1>3, <2>1, <2>4 DEF save, TypeOK
    <2>6. QED
      BY <2>5, AtRest
  <1>4. CASE onBackupVault
    <2>1. db \in File /\ job = Idle /\ window = "main"
      BY <1>0, <1>4, Contents DEF onBackupVault, AtMain, vaultExists, OpenContent, TypeOK
    <2>2. TypeOK' /\ job' = Idle /\ window' = "main"
      BY <1>0, <1>4, <2>1 DEF onBackupVault, TypeOK
    <2>3. QED
      BY <2>2, AtRest
  <1>5. CASE onLockVault
    <2>1. TypeOK' /\ job' = Idle /\ window' = "login"
      BY <1>0, <1>5, Counters DEF onLockVault, TypeOK, vaultExists, IsVault
    <2>2. QED
      BY <2>1, AtRest
  <1>6. CASE onRestoreVault
    <2>1. TypeOK' /\ job' = Idle /\ window' = "main"
      BY <1>0, <1>6 DEF onRestoreVault, AtMain, TypeOK
    <2>2. QED
      BY <2>1, AtRest
  <1>7. CASE cancelRestore
    <2>1. dialog' = FALSE /\ UNCHANGED <<file, db, session, window, prompt, job, attempts, wrong, backups, mine, faults>>
      BY <1>7 DEF cancelRestore
    <2>2. TypeOK'
      BY <1>0, <2>1 DEF TypeOK
    <2>3. JobInPlace'
      BY <1>0, <2>1 DEF JobInPlace
    <2>4. OldIsSomewhere' /\ NewIsSomewhere'
      BY <1>0, <2>1 DEF OldIsSomewhere, NewIsSomewhere, Replaced
    <2>5. QED
      BY <2>2, <2>3, <2>4 DEF AInv
  <1>8. ASSUME NEW p \in Password, unlock(p) PROVE AInv'
    <2>1. TypeOK' /\ job' = Idle /\ window' = "main"
      BY <1>0, <1>8, Counters DEF unlock, AtLogin, TypeOK
    <2>2. QED
      BY <2>1, AtRest
  <1>9. ASSUME NEW p \in Password, handleAuthFailure(p) PROVE AInv'
    <2>1. job' = Idle /\ window' = "login" /\ UNCHANGED <<session, window, dialog, job, backups>>
      BY <1>9 DEF handleAuthFailure, AtLogin
    <2>2. /\ file' \in [File -> Content] /\ db' \in File \union {"closed"}
          /\ prompt' \in {"unlock", "create"} /\ mine' \in Content /\ faults' \in 0..MaxFaults
      BY <1>0, <1>9, DestroyType DEF handleAuthFailure, TypeOK
    <2>3. attempts' \in 0..(kMaxFailedUnlockAttempts - 1) /\ wrong' \in 0..attempts'
      BY <1>0, <1>9 DEF handleAuthFailure, TypeOK, kMaxFailedUnlockAttempts
    <2>4. TypeOK'
      BY <1>0, <2>1, <2>2, <2>3 DEF TypeOK
    <2>5. QED
      BY <2>1, <2>4, AtRest
  <1>10. ASSUME NEW p \in Password, onCreateVaultRequested(p) PROVE AInv'
    <2>1. /\ db \in File /\ window = "login" /\ job = Idle /\ ~dialog
          /\ UNCHANGED <<db, prompt, dialog, backups, faults>>
      BY <1>0, <1>10 DEF onCreateVaultRequested, AtLogin, TypeOK
    <2>2. CASE ~vaultExists
      <3>1. file' \in [File -> Content] /\ mine' \in Content /\ Unlocked(p) /\ job' = job
        BY <1>0, <1>10, <2>1, <2>2, Contents DEF onCreateVaultRequested, TypeOK
      <3>2. TypeOK' /\ window' = "main"
        BY <1>0, <2>1, <3>1, Counters DEF TypeOK
      <3>3. QED
        BY <2>1, <3>1, <3>2, AtRest
    <2>3. CASE vaultExists
      <3>1. /\ file' = [file EXCEPT !["staged"] = NewVault(p)]
            /\ job' = [kind |-> "create", at |-> "clear", temp |-> "staged",
                       old |-> file["live"], new |-> NewVault(p), done |-> "none"]
            /\ UNCHANGED <<session, window, attempts, wrong, mine>>
        BY <1>10, <2>3 DEF onCreateVaultRequested
      <3>2. file' \in [File -> Content] /\ file'["live"] = file["live"] /\ file'["staged"] = NewVault(p)
        BY <1>0, <3>1, Contents DEF TypeOK, File
      <3>3. job' \in Job
        BY <1>0, <3>1, Contents DEF TypeOK, File, Job
      <3>4. TypeOK'
        BY <1>0, <2>1, <3>1, <3>2, <3>3 DEF TypeOK
      <3>5. JobInPlace' /\ OldIsSomewhere' /\ NewIsSomewhere'
        BY <2>1, <3>1, <3>2 DEF JobInPlace, OldIsSomewhere, NewIsSomewhere, Working, Replaced
      <3>6. QED
        BY <3>4, <3>5 DEF AInv
    <2>4. QED
      BY <2>2, <2>3
  <1>11. ASSUME NEW b \in backups, restoreFromBackup(b) PROVE AInv'
    <2>1. /\ dialog /\ dialog' = FALSE /\ db' = "closed" /\ window # "down" /\ b \in Content
          /\ UNCHANGED <<session, window, prompt, attempts, wrong, backups, mine, faults>>
      BY <1>0, <1>11 DEF restoreFromBackup, JobInPlace, TypeOK
    <2>2. CASE /\ file' = [file EXCEPT !["restore"] = b, !["unlinked"] = Absent]
               /\ job' = [kind |-> "restore", at |-> "clear", temp |-> "restore",
                          old |-> file["live"], new |-> b, done |-> "none"]
      <3>1. file' \in [File -> Content] /\ file'["live"] = file["live"] /\ file'["restore"] = b
        BY <1>0, <2>1, <2>2, Contents DEF TypeOK, File
      <3>2. job' \in Job
        BY <1>0, <2>1, <2>2 DEF TypeOK, File, Job
      <3>3. TypeOK'
        BY <1>0, <2>1, <3>1, <3>2 DEF TypeOK
      <3>4. JobInPlace' /\ OldIsSomewhere' /\ NewIsSomewhere'
        BY <2>1, <2>2, <3>1 DEF JobInPlace, OldIsSomewhere, NewIsSomewhere, Working, Replaced
      <3>5. QED
        BY <3>3, <3>4 DEF AInv
    <2>3. CASE /\ file' = [file EXCEPT !["unlinked"] = Absent]
               /\ job' = [Idle EXCEPT !.kind = "restore", !.at = "reopen", !.done = "Failed"]
      <3>1. file' \in [File -> Content]
        BY <1>0, <2>3, Contents DEF TypeOK, File
      <3>2. job' \in Job /\ job'.at = "reopen" /\ job'.done = "Failed" /\ job'.old = Absent
        BY <2>3, IdleJob DEF Idle, Job
      <3>3. TypeOK'
        BY <1>0, <2>1, <3>1, <3>2 DEF TypeOK
      <3>4. JobInPlace' /\ OldIsSomewhere' /\ NewIsSomewhere'
        BY <2>1, <3>2, Contents DEF JobInPlace, OldIsSomewhere, NewIsSomewhere, Working, Replaced
      <3>5. QED
        BY <3>3, <3>4 DEF AInv
    <2>4. QED
      BY <1>11, <2>2, <2>3 DEF restoreFromBackup
  <1>12. QED
    BY <1>1, <1>2, <1>3, <1>4, <1>5, <1>6, <1>7, <1>8, <1>9, <1>10, <1>11

\* The steps of a replacement.
LEMMA InstallSafe == ASSUME AInv, Install PROVE AInv'
  <1>0. TypeOK /\ JobInPlace /\ OldIsSomewhere /\ NewIsSomewhere
    BY DEF AInv
  <1>00. /\ job.old \in Content /\ job.new \in Content /\ job.temp \in File
         /\ job.at \in Working => job.temp \in {"restore", "staged"}
    BY <1>0, Jobs DEF TypeOK, JobInPlace
  <1>1. ASSUME file' \in [File -> Content], db' \in File \union {"closed"}, job' \in Job,
               faults' \in 0..MaxFaults, Elsewhere
        PROVE  TypeOK'
    BY <1>0, <1>1 DEF TypeOK, Elsewhere
  <1>2. CASE clearBackup
    <2>1. /\ job.at = "clear" /\ job' \in Job /\ job'.at = "preserve" /\ job'.temp = job.temp
          /\ job'.old = job.old /\ job'.new = job.new /\ job'.done = job.done
      BY <1>0, <1>2, JobSteps DEF clearBackup
    <2>2. /\ file' \in [File -> Content] /\ db' \in File \union {"closed"} /\ faults' \in 0..MaxFaults
          /\ \A f \in {"live", "restore", "staged"} : file'[f] = file[f]
      BY <1>0, <1>2, Removed, Faults DEF clearBackup, TypeOK, File
    <2>3. Elsewhere
      BY <1>2 DEF clearBackup
    <2>4. JobInPlace'
      BY <1>0, <2>1, <2>3 DEF JobInPlace, Elsewhere, Working
    <2>5. OldIsSomewhere' /\ NewIsSomewhere'
      BY <1>0, <1>00, <2>1, <2>2 DEF OldIsSomewhere, NewIsSomewhere, Replaced, JobInPlace, Working
    <2>6. QED
      BY <1>1, <2>1, <2>2, <2>3, <2>4, <2>5 DEF AInv
  <1>3. CASE preserveLive
    <2>1. job.at = "preserve" /\ Elsewhere /\ job.temp \in {"restore", "staged"} /\ job.done = "none"
      BY <1>0, <1>3 DEF preserveLive, JobInPlace, Working
    <2>2. CASE ~Exists("live") /\ Goto("move") /\ UNCHANGED <<file, db, faults>>
      <3>1. ~IsVault(job.old)
        BY <1>0, <2>1, <2>2, Contents DEF OldIsSomewhere, Exists
      <3>2. /\ job' \in Job /\ job'.at = "move" /\ job'.temp = job.temp
            /\ job'.old = job.old /\ job'.new = job.new /\ job'.done = job.done
        BY <1>0, <2>2, JobSteps
      <3>3. JobInPlace' /\ OldIsSomewhere' /\ NewIsSomewhere'
        BY <1>0, <2>1, <2>2, <3>1, <3>2
        DEF JobInPlace, OldIsSomewhere, NewIsSomewhere, Replaced, Elsewhere, Working
      <3>4. QED
        BY <1>0, <1>1, <2>1, <2>2, <3>2, <3>3 DEF AInv, TypeOK
    <2>3. CASE Exists("live") /\ ~Exists("bak") /\ Goto("move") /\ Rename("live", "bak") /\ UNCHANGED faults
      <3>1. /\ job' \in Job /\ job'.at = "move" /\ job'.temp = job.temp
            /\ job'.old = job.old /\ job'.new = job.new /\ job'.done = job.done
        BY <1>0, <2>3, JobSteps
      <3>2. /\ file' \in [File -> Content] /\ db' \in File \union {"closed"}
            /\ file'["bak"] = file["live"] /\ \A f \in {"restore", "staged"} : file'[f] = file[f]
        BY <1>0, <2>3, Renamed DEF File
      <3>3. JobInPlace' /\ OldIsSomewhere' /\ NewIsSomewhere'
        BY <1>0, <2>1, <3>1, <3>2
        DEF JobInPlace, OldIsSomewhere, NewIsSomewhere, Replaced, Elsewhere, Working
      <3>4. QED
        BY <1>0, <1>1, <2>1, <2>3, <3>1, <3>2, <3>3 DEF AInv, TypeOK
    <2>4. CASE /\ Exists("live")
               /\ IF Exists("bak") THEN UNCHANGED faults ELSE Fault
               /\ Finish("Failed") /\ Remove(job.temp)
      <3>1. /\ job' \in Job /\ job'.at = "reopen" /\ job'.temp = job.temp
            /\ job'.old = job.old /\ job'.new = job.new /\ job'.done = "Failed"
        BY <1>0, <2>4, JobSteps
      <3>2. /\ file' \in [File -> Content] /\ db' \in File \union {"closed"} /\ faults' \in 0..MaxFaults
            /\ file'["live"] = file["live"]
        BY <1>0, <2>1, <2>4, Removed, Faults DEF File, TypeOK
      <3>3. JobInPlace' /\ OldIsSomewhere' /\ NewIsSomewhere'
        BY <1>0, <2>1, <3>1, <3>2
        DEF JobInPlace, OldIsSomewhere, NewIsSomewhere, Replaced, Elsewhere, Working, File
      <3>4. QED
        BY <1>1, <2>1, <3>1, <3>2, <3>3 DEF AInv
    <2>5. QED
      BY <1>3, <2>2, <2>3, <2>4 DEF preserveLive
  <1>4. CASE moveReplacement
    <2>1. job.at = "move" /\ Elsewhere /\ job.temp \in {"restore", "staged"} /\ job.done = "none"
      BY <1>0, <1>4 DEF moveReplacement, JobInPlace, Working
    <2>2. CASE Rename(job.temp, "live") /\ Goto("check") /\ UNCHANGED faults
      <3>1. /\ job' \in Job /\ job'.at = "check" /\ job'.temp = job.temp
            /\ job'.old = job.old /\ job'.new = job.new /\ job'.done = job.done
        BY <1>0, <2>2, JobSteps
      <3>2. /\ file' \in [File -> Content] /\ db' \in File \union {"closed"}
            /\ file'["live"] = file[job.temp] /\ file'["bak"] = file["bak"]
        BY <1>0, <2>1, <2>2, Renamed DEF File
      <3>3. JobInPlace' /\ OldIsSomewhere' /\ NewIsSomewhere'
        BY <1>0, <2>1, <3>1, <3>2
        DEF JobInPlace, OldIsSomewhere, NewIsSomewhere, Replaced, Elsewhere, Working
      <3>4. QED
        BY <1>0, <1>1, <2>1, <2>2, <3>1, <3>2, <3>3 DEF AInv, TypeOK
    <2>3. CASE Remove(job.temp) /\ Finish("Failed") /\ Fault
      <3>1. /\ job' \in Job /\ job'.at = "reopen" /\ job'.temp = job.temp
            /\ job'.old = job.old /\ job'.new = job.new /\ job'.done = "Failed"
        BY <1>0, <2>3, JobSteps
      <3>2. /\ file' \in [File -> Content] /\ db' \in File \union {"closed"} /\ faults' \in 0..MaxFaults
            /\ file'["bak"] = file["bak"]
        BY <1>0, <2>1, <2>3, Removed, Faults DEF File
      <3>3. JobInPlace' /\ OldIsSomewhere' /\ NewIsSomewhere'
        BY <1>0, <2>1, <3>1, <3>2
        DEF JobInPlace, OldIsSomewhere, NewIsSomewhere, Replaced, Elsewhere, Working, File
      <3>4. QED
        BY <1>1, <2>1, <3>1, <3>2, <3>3 DEF AInv
    <2>4. QED
      BY <1>4, <2>2, <2>3 DEF moveReplacement
  <1>5. CASE checkInstalled
    <2>1. /\ job.at = "check" /\ Elsewhere /\ UNCHANGED <<file, db>> /\ faults' \in 0..MaxFaults
          /\ Goto("cleanup") \/ Goto("discard")
      BY <1>0, <1>5, Faults DEF checkInstalled, TypeOK
    <2>2. /\ job' \in Job /\ job'.at \in {"cleanup", "discard"} /\ job'.temp = job.temp
          /\ job'.old = job.old /\ job'.new = job.new /\ job'.done = job.done
      BY <1>0, <2>1, JobSteps
    <2>3. JobInPlace' /\ OldIsSomewhere' /\ NewIsSomewhere'
      BY <1>0, <2>1, <2>2
      DEF JobInPlace, OldIsSomewhere, NewIsSomewhere, Replaced, Elsewhere, Working
    <2>4. QED
      BY <1>0, <1>1, <2>1, <2>2, <2>3 DEF AInv, TypeOK
  <1>6. CASE discardInstalled
    <2>1. job.at = "discard" /\ Elsewhere /\ Goto("undo")
      BY <1>6 DEF discardInstalled
    <2>2. /\ job' \in Job /\ job'.at = "undo" /\ job'.temp = job.temp
          /\ job'.old = job.old /\ job'.new = job.new /\ job'.done = job.done
      BY <1>0, <2>1, JobSteps
    <2>3. /\ file' \in [File -> Content] /\ db' \in File \union {"closed"} /\ faults' \in 0..MaxFaults
          /\ file'["bak"] = file["bak"]
      BY <1>0, <1>6, Removed, Faults DEF discardInstalled, File, TypeOK
    <2>4. JobInPlace' /\ OldIsSomewhere' /\ NewIsSomewhere'
      BY <1>0, <2>1, <2>2, <2>3
      DEF JobInPlace, OldIsSomewhere, NewIsSomewhere, Replaced, Elsewhere, Working
    <2>5. QED
      BY <1>1, <2>1, <2>2, <2>3, <2>4 DEF AInv
  <1>7. CASE undoInstall
    <2>1. job.at = "undo" /\ Elsewhere /\ Finish("Failed")
      BY <1>7 DEF undoInstall
    <2>2. /\ job' \in Job /\ job'.at = "reopen" /\ job'.temp = job.temp
          /\ job'.old = job.old /\ job'.new = job.new /\ job'.done = "Failed"
      BY <1>0, <2>1, JobSteps
    <2>3. /\ file' \in [File -> Content] /\ db' \in File \union {"closed"} /\ faults' \in 0..MaxFaults
          /\ file'["live"] = file["bak"] \/ file'["bak"] = file["bak"]
      BY <1>0, <1>7, Renamed, Faults DEF undoInstall, File, TypeOK
    <2>4. JobInPlace' /\ OldIsSomewhere' /\ NewIsSomewhere'
      BY <1>0, <2>1, <2>2, <2>3
      DEF JobInPlace, OldIsSomewhere, NewIsSomewhere, Replaced, Elsewhere, Working, File
    <2>5. QED
      BY <1>1, <2>1, <2>2, <2>3, <2>4 DEF AInv
  <1>8. CASE cleanUp
    <2>1. /\ job.at = "cleanup" /\ mine' = job.new
          /\ UNCHANGED <<session, window, prompt, dialog, attempts, wrong, backups>>
          /\ Finish("Installed") \/ Finish("InstalledWithCleanupWarning")
      BY <1>8 DEF cleanUp
    <2>2. /\ job' \in Job /\ job'.at = "reopen" /\ job'.temp = job.temp /\ job'.old = job.old
          /\ job'.new = job.new /\ job'.done \in {"Installed", "InstalledWithCleanupWarning"}
      BY <1>0, <2>1, JobSteps
    <2>3. /\ file' \in [File -> Content] /\ db' \in File \union {"closed"} /\ faults' \in 0..MaxFaults
          /\ file'["live"] = file["live"]
      BY <1>0, <1>8, Removed, Faults DEF cleanUp, File, TypeOK
    <2>4. TypeOK'
      BY <1>0, <1>00, <2>1, <2>2, <2>3 DEF TypeOK
    <2>5. JobInPlace' /\ OldIsSomewhere' /\ NewIsSomewhere'
      BY <1>0, <2>1, <2>2, <2>3
      DEF JobInPlace, OldIsSomewhere, NewIsSomewhere, Replaced, Working
    <2>6. QED
      BY <2>4, <2>5 DEF AInv
  <1>9. CASE endRestore
    <2>1. job' = Idle /\ UNCHANGED <<dialog, backups, mine>> /\ window # "down"
      BY <1>0, <1>9 DEF endRestore, JobInPlace
    <2>2. file' \in [File -> Content] /\ db' \in File \union {"closed"} /\ faults' \in 0..MaxFaults
      BY <1>0, <1>9, Opens, Faults DEF endRestore, TypeOK, File
    <2>3. /\ session' \in Password \union {Nobody} /\ window' \in {"login", "main"}
          /\ prompt' \in {"unlock", "create"}
          /\ attempts' \in 0..(kMaxFailedUnlockAttempts - 1) /\ wrong' \in 0..attempts'
      <3>1. CASE session' = Nobody /\ \E e \in BOOLEAN : showLogin(e)
        BY <1>0, <3>1, Counters
      <3>2. CASE UNCHANGED <<session, window, prompt, attempts, wrong>>
        BY <1>0, <2>1, <3>2 DEF TypeOK
      <3>3. QED
        BY <1>9, <3>1, <3>2 DEF endRestore, IsVault
    <2>4. TypeOK'
      BY <1>0, <2>1, <2>2, <2>3, IdleJob DEF TypeOK
    <2>5. QED
      BY <2>1, <2>3, <2>4, AtRest
  <1>10. CASE endCreate
    <2>1. job' = Idle /\ UNCHANGED <<prompt, dialog, backups, mine>> /\ window # "down"
      BY <1>0, <1>10 DEF endCreate, JobInPlace
    <2>2. file' \in [File -> Content] /\ db' \in File \union {"closed"} /\ faults' \in 0..MaxFaults
      BY <1>0, <1>10, Opens, Faults, Contents DEF endCreate, TypeOK, File
    <2>3. /\ session' \in Password \union {Nobody} /\ window' \in {"login", "main"}
          /\ attempts' \in 0..(kMaxFailedUnlockAttempts - 1) /\ wrong' \in 0..attempts'
      <3>1. job.new.owner \in Password \union {Nobody}
        BY <1>00 DEF Content
      <3>2. CASE Unlocked(job.new.owner)
        BY <3>1, <3>2 DEF Unlocked, kMaxFailedUnlockAttempts
      <3>3. CASE UNCHANGED <<session, window, attempts, wrong>>
        BY <1>0, <2>1, <3>3 DEF TypeOK
      <3>4. QED
        BY <1>10, <3>2, <3>3 DEF endCreate
    <2>4. TypeOK'
      BY <1>0, <2>1, <2>2, <2>3, IdleJob DEF TypeOK
    <2>5. QED
      BY <2>1, <2>3, <2>4, AtRest
  <1>11. QED
    BY <1>2, <1>3, <1>4, <1>5, <1>6, <1>7, <1>8, <1>9, <1>10 DEF Install

----------------------------------------------------------------------------
(* With at most one fault.                                                 *)

\* What the user has been working with is c, if either is a vault.
Mine(c) == IsVault(mine) \/ IsVault(c) => mine = c

\* Without a fault, every file but the live one and those of the replacement
\* under way is gone, and the user has been working with the live vault.
CleanState == faults = 0 =>
  /\ job.at \notin {"discard", "undo"}
  /\ file["bak"] = IF job.at \in {"move", "check", "cleanup"} THEN job.old ELSE Absent
  /\ \A f \in {"restore", "staged"} :
       file[f] = Absent \/ (job.at \in {"clear", "preserve", "move"} /\ f = job.temp)
  /\ file["unlinked"] = Absent \/ Replaced
  /\ job.at = "idle" => db \in {"live", "closed"}
  /\ job.at = "reopen" /\ ~Replaced => job.kind = "restore"
  /\ job.at \in Working => Mine(job.old)
  /\ job.at \notin Working => Mine(file["live"])

\* After one, a replacement that is given up leaves what the user has been
\* working with live, or as the .bak.
AfterOneFault == faults <= 1 =>
  /\ job.at = "preserve" /\ Exists("live") /\ Exists("bak") => Mine(job.old)
  /\ job.at \in {"discard", "undo"} => file["bak"] = job.old /\ Mine(job.old)
  /\ job.at = "undo" => ~Exists("live")
  /\ job.at = "idle" \/ (job.at = "reopen" /\ ~Replaced) =>
       (IsVault(mine) => mine \in {file["live"], file["bak"]})
  /\ job.done = "Failed" /\ IsVault(job.new) /\ file["live"] = job.new => job.new = mine

\* What replaces what, while it is not known to be the new vault.
LiveInJob ==
  /\ job.at \in {"clear", "preserve"} => file["live"] = job.old
  /\ job.at = "move" => ~Exists("live")
  /\ Replaced => mine = job.new
  /\ job.at # "idle" => job.kind \in {"restore", "create"}
  /\ job.at \in Working => IsVault(job.new)
  /\ \A b \in backups : IsVault(b)
  /\ dialog => job = Idle

\* The open database: a restore closes it, and during a creation it follows the
\* old vault.
OpenInJob ==
  /\ job.kind = "restore" => db = "closed"
  /\ job.kind = "create" => window = "login"
  /\ faults <= 1 =>
       /\ job.at = "idle" => db \in {"live", "closed"} \/ (db = "bak" /\ ~Exists("live"))
       /\ job.kind = "create" =>
            /\ job.at \in {"clear", "preserve"} =>
                 (db = "live" /\ IsVault(job.old)) \/ (db = "bak" /\ ~Exists("live"))
            /\ job.at \in {"move", "check", "discard", "undo", "cleanup"} => db = "bak"
            /\ job.at = "reopen" /\ ~Replaced => db = "live" \/ (db = "bak" /\ ~Exists("live"))

\* The session is of the vault that is open, or will be again.
SessionOf(c) == IsVault(c) => c.owner = session
SessionInJob == faults <= 1 /\ window = "main" =>
  /\ job.at = "idle" => db # "closed" /\ SessionOf(OpenContent)
  /\ job.at \in Working => SessionOf(job.old)
  /\ job.at = "reopen" /\ ~Replaced => SessionOf(file["live"])

FInv == AInv /\ CleanState /\ AfterOneFault /\ LiveInJob /\ OpenInJob /\ SessionInJob

\* The same while nothing is under way.
RestClean == faults = 0 =>
  /\ \A f \in {"bak", "restore", "staged", "unlinked"} : file[f] = Absent
  /\ db \in {"live", "closed"}
  /\ Mine(file["live"])
RestOne == faults <= 1 =>
  /\ IsVault(mine) => mine \in {file["live"], file["bak"]}
  /\ db \in {"live", "closed"} \/ (db = "bak" /\ ~Exists("live"))
  /\ window = "main" => db # "closed" /\ SessionOf(OpenContent)

\* What else Idle is.
LEMMA IdleMore == Idle.kind = "none" /\ Idle.new = Absent
BY DEF Idle

\* What is there to show when nothing is under way after a step.
LEMMA ToRest ==
  ASSUME AInv', job' = Idle, RestClean', RestOne', \A b \in backups' : IsVault(b)
  PROVE  FInv'
  <1>1. job'.at = "idle" /\ job'.kind = "none" /\ job'.done = "none" /\ ~Replaced'
    BY IdleJob, IdleMore DEF Replaced
  <1>2. CleanState'
    BY <1>1 DEF CleanState, RestClean, Working
  <1>3. AfterOneFault' /\ LiveInJob'
    BY <1>1 DEF AfterOneFault, LiveInJob, RestOne, Working
  <1>4. OpenInJob' /\ SessionInJob'
    BY <1>1 DEF OpenInJob, SessionInJob, RestOne, Working
  <1>5. QED
    BY <1>2, <1>3, <1>4 DEF FInv

\* What is known while nothing is under way.
LEMMA FromRest ==
  ASSUME FInv, job = Idle
  PROVE  RestClean /\ RestOne /\ \A b \in backups : IsVault(b)
  <1>1. job.at = "idle" /\ ~Replaced
    BY IdleJob DEF Replaced
  <1>2. RestClean
    BY <1>1 DEF FInv, CleanState, RestClean, Working
  <1>3. RestOne
    BY <1>1 DEF FInv, AfterOneFault, OpenInJob, SessionInJob, RestOne
  <1>4. QED
    BY <1>2, <1>3 DEF FInv, LiveInJob

\* A running replacement has a vault, and is of one of two kinds.
LEMMA InJob ==
  ASSUME FInv
  PROVE  /\ job.at \in Working \union {"idle", "reopen"}
         /\ job.at \in Working => job.done = "none" /\ ~Replaced /\ IsVault(job.new)
         /\ job.at # "idle" => job.kind \in {"restore", "create"} /\ ~dialog /\ window # "down"
  <1>1. job.at \in Working \union {"idle", "reopen"}
    BY DEF FInv, AInv, TypeOK, Job, Working
  <1>2. job.at \in Working => job.done = "none" /\ ~Replaced /\ IsVault(job.new)
    BY DEF FInv, AInv, JobInPlace, LiveInJob, Replaced
  <1>3. job.at # "idle" => job.kind \in {"restore", "create"} /\ ~dialog /\ window # "down"
    BY IdleJob DEF FInv, AInv, JobInPlace, LiveInJob
  <1>4. QED
    BY <1>1, <1>2, <1>3

\* An empty file is no vault.
LEMMA EmptyIsNoVault == ~IsVault(Absent) /\ ~IsVault(Empty) /\ \A p \in Password : IsVault(NewVault(p))
BY DEF Absent, Empty, NewVault, IsVault

\* Nothing is under way at first.
LEMMA InitFaults == Init => FInv
  <1> SUFFICES ASSUME Init PROVE FInv
    OBVIOUS
  <1>1. AInv /\ job = Idle
    BY InitSafe DEF Init
  <1>2. job.at = "idle" /\ job.kind = "none" /\ job.done = "none" /\ ~Replaced
    BY <1>1, IdleJob, IdleMore DEF Replaced
  <1>3. CleanState
    BY <1>2, EmptyIsNoVault DEF Init, CleanState, Working, Mine, File
  <1>4. AfterOneFault /\ LiveInJob
    BY <1>2, EmptyIsNoVault DEF Init, AfterOneFault, LiveInJob, Working
  <1>5. OpenInJob /\ SessionInJob
    BY <1>2 DEF Init, OpenInJob, SessionInJob
  <1>6. QED
    BY <1>1, <1>3, <1>4, <1>5 DEF FInv

\* The file that is open while nothing is under way.
LEMMA OpenAtRest ==
  ASSUME FInv, job = Idle, faults <= 1, db # "closed"
  PROVE  /\ db \in {"live", "bak"} /\ OpenContent = file[db]
         /\ db = "bak" => ~Exists("live") /\ faults # 0
BY FromRest DEF RestOne, RestClean, OpenContent

\* Starting and closing.
LEMMA StartStopFaults == ASSUME FInv, start \/ stop PROVE FInv'
  <1>0. AInv /\ AInv' /\ \A b \in backups : IsVault(b)
    BY OutsideSafe DEF FInv, LiveInJob
  <1>1. CASE start
    <2>1. job = Idle /\ job' = Idle /\ window' = "login" /\ UNCHANGED <<backups, mine, faults>>
      BY <1>0, <1>1 DEF start, showLogin, AInv, JobInPlace
    <2>2. /\ db' = "live" /\ file'["unlinked"] = Absent
          /\ \A f \in {"bak", "restore", "staged"} : file'[f] = file[f]
          /\ file'["live"] = IF file["live"] = Absent THEN Empty ELSE file["live"]
      BY <1>0, <1>1, Opens DEF start, AInv, TypeOK, File
    <2>3. RestClean'
      BY <2>1, <2>2, FromRest, EmptyIsNoVault DEF RestClean, Mine
    <2>4. RestOne'
      BY <2>1, <2>2, FromRest, EmptyIsNoVault DEF RestOne
    <2>5. QED
      BY <1>0, <2>1, <2>3, <2>4, ToRest
  <1>2. CASE stop
    <2>1. /\ job' = Idle /\ window' = "down" /\ db' = "closed" /\ UNCHANGED <<backups, mine>>
          /\ IF job = Idle THEN UNCHANGED faults ELSE Fault
      BY <1>2 DEF stop
    <2>2. file'["unlinked"] = Absent /\ \A f \in File \ {"unlinked"} : file'[f] = file[f]
      BY <1>0, <1>2 DEF stop, AInv, TypeOK, File
    <2>3. CASE job = Idle
      <3>1. RestClean' /\ RestOne'
        BY <2>1, <2>2, <2>3, FromRest DEF RestClean, RestOne, Mine, File
      <3>2. QED
        BY <1>0, <2>1, <3>1, ToRest
    <2>4. CASE job # Idle
      <3>1. faults' = faults + 1 /\ faults \in Nat
        BY <1>0, <2>1, <2>4, AppAssumption DEF Fault, AInv, TypeOK
      <3>2. RestClean'
        BY <3>1 DEF RestClean
      <3>3. ASSUME faults = 0, IsVault(mine) PROVE mine \in {file["live"], file["bak"]}
        <4>1. CASE job.at \in Working
          <5>1. mine = job.old
            BY <3>3, <4>1 DEF FInv, CleanState, Mine
          <5>2. job.at \notin {"discard", "undo"}
            BY <3>3 DEF FInv, CleanState
          <5>3. QED
            BY <1>0, <3>3, <4>1, <5>1, <5>2 DEF AInv, OldIsSomewhere, Working
        <4>2. CASE job.at \notin Working
          BY <3>3, <4>2 DEF FInv, CleanState, Mine
        <4>3. QED
          BY <4>1, <4>2
      <3>4. RestOne'
        BY <2>1, <2>2, <3>1, <3>3 DEF RestOne, File
      <3>5. QED
        BY <1>0, <2>1, <3>2, <3>4, ToRest
    <2>5. QED
      BY <2>3, <2>4
  <1>3. QED
    BY <1>1, <1>2

\* Working in the vault, locking it, opening it, and the dialog of a restore.
LEMMA WorkFaults ==
  ASSUME FInv,
         save \/ onBackupVault \/ onLockVault \/ onRestoreVault \/ cancelRestore \/ \E p \in Password : unlock(p)
  PROVE  FInv'
  <1>0. AInv /\ AInv' /\ \A b \in backups : IsVault(b)
    BY OutsideSafe DEF FInv, LiveInJob
  <1>1. CASE save
    <2>1. /\ job = Idle /\ window = "main" /\ vaultExists
          /\ file' = [file EXCEPT ![db] = [file[db] EXCEPT !.saved = @ + 1]] /\ mine' = file'[db]
          /\ UNCHANGED <<db, session, window, job, backups, faults>>
      BY <1>1 DEF save, AtMain
    <2>2. db # "closed"
      BY <2>1, EmptyIsNoVault DEF vaultExists, OpenContent
    <2>3. ASSUME faults <= 1
          PROVE  /\ db \in {"live", "bak"} /\ (db = "bak" => ~Exists("live") /\ faults # 0)
                 /\ file'[db].owner = session /\ IsVault(file'[db])
                 /\ \A f \in File \ {db} : file'[f] = file[f]
      <3>1. db \in {"live", "bak"} /\ OpenContent = file[db] /\ (db = "bak" => ~Exists("live") /\ faults # 0)
        BY <2>1, <2>2, <2>3, OpenAtRest
      <3>2. file[db] \in Content /\ IsVault(file[db]) /\ file[db].owner = session
        BY <1>0, <2>1, <2>3, <3>1, FromRest DEF AInv, TypeOK, vaultExists, RestOne, SessionOf, File
      <3>3. file'[db] = [file[db] EXCEPT !.saved = @ + 1] /\ \A f \in File \ {db} : file'[f] = file[f]
        BY <1>0, <2>1, <3>1 DEF AInv, TypeOK, File
      <3>4. file'[db].owner = file[db].owner /\ file'[db].kind = file[db].kind
        BY <3>2, <3>3 DEF Content
      <3>5. QED
        BY <3>1, <3>2, <3>3, <3>4 DEF IsVault
    <2>4. RestClean'
      BY <2>1, <2>3, FromRest DEF RestClean, Mine, File
    <2>5. RestOne'
      BY <2>1, <2>2, <2>3, FromRest DEF RestOne, SessionOf, OpenContent, Exists, File
    <2>6. QED
      BY <1>0, <2>1, <2>4, <2>5, ToRest
  <1>2. CASE onBackupVault
    <2>1. /\ job = Idle /\ window = "main" /\ vaultExists /\ backups' = backups \union {file[db]}
          /\ UNCHANGED <<file, db, session, window, job, mine, faults>>
      BY <1>2 DEF onBackupVault, AtMain
    <2>2. RestClean' /\ RestOne'
      BY <2>1, FromRest DEF RestClean, RestOne, Mine, SessionOf, OpenContent, Exists
    <2>3. IsVault(file[db])
      BY <2>1, EmptyIsNoVault DEF vaultExists, OpenContent
    <2>4. QED
      BY <1>0, <2>1, <2>2, <2>3, ToRest
  <1>3. CASE onLockVault
    <2>1. job = Idle /\ window' = "login" /\ UNCHANGED <<file, db, job, backups, mine, faults>>
      BY <1>3 DEF onLockVault, showLogin
    <2>2. RestClean' /\ RestOne'
      BY <2>1, FromRest DEF RestClean, RestOne, Mine, Exists
    <2>3. QED
      BY <1>0, <2>1, <2>2, ToRest
  <1>4. CASE onRestoreVault
    <2>1. job = Idle /\ UNCHANGED <<file, db, session, window, job, backups, mine, faults>>
      BY <1>4 DEF onRestoreVault, AtMain
    <2>2. RestClean' /\ RestOne'
      BY <2>1, FromRest DEF RestClean, RestOne, Mine, SessionOf, OpenContent, Exists
    <2>3. QED
      BY <1>0, <2>1, <2>2, ToRest
  <1>5. CASE cancelRestore
    <2>1. job = Idle /\ UNCHANGED <<file, db, session, window, job, backups, mine, faults>>
      BY <1>5 DEF cancelRestore, FInv, LiveInJob
    <2>2. RestClean' /\ RestOne'
      BY <2>1, FromRest DEF RestClean, RestOne, Mine, SessionOf, OpenContent, Exists
    <2>3. QED
      BY <1>0, <2>1, <2>2, ToRest
  <1>6. ASSUME NEW p \in Password, unlock(p) PROVE FInv'
    <2>1. /\ job = Idle /\ vaultExists /\ OpenContent.owner = p /\ session' = p
          /\ UNCHANGED <<file, db, job, backups, mine, faults>>
      BY <1>6 DEF unlock, AtLogin, Unlocked
    <2>2. db # "closed"
      BY <2>1, EmptyIsNoVault DEF vaultExists, OpenContent
    <2>3. RestClean' /\ RestOne'
      BY <2>1, <2>2, FromRest DEF RestClean, RestOne, Mine, SessionOf, OpenContent, Exists
    <2>4. QED
      BY <1>0, <2>1, <2>3, ToRest
  <1>7. QED
    BY <1>1, <1>2, <1>3, <1>4, <1>5, <1>6

\* A failed attempt, and what it may destroy.
LEMMA FailureFaults == ASSUME FInv, NEW p \in Password, handleAuthFailure(p) PROVE FInv'
  <1>0. AInv /\ AInv' /\ \A b \in backups : IsVault(b)
    BY OutsideSafe DEF FInv, LiveInJob
  <1>1. job = Idle /\ window' = "login" /\ UNCHANGED <<job, backups>>
    BY DEF handleAuthFailure, AtLogin
  <1>2. CASE UNCHANGED <<file, db, mine, faults>>
    <2>1. RestClean' /\ RestOne'
      BY <1>1, <1>2, FromRest DEF RestClean, RestOne, Mine, Exists
    <2>2. QED
      BY <1>0, <1>1, <2>1, ToRest
  <1>3. ASSUME NEW removed \in BOOLEAN, NEW reopened \in BOOLEAN, destroyVault(removed, reopened)
        PROVE  FInv'
    <2> DEFINE left == [file EXCEPT !["live"] = IF removed THEN Absent ELSE @, !["unlinked"] = Absent]
    <2>1. /\ left \in [File -> Content] /\ left["unlinked"] = Absent
          /\ left["live"] = (IF removed THEN Absent ELSE file["live"])
          /\ \A f \in {"bak", "restore", "staged"} : left[f] = file[f]
      BY <1>0, Contents DEF AInv, TypeOK, File
    <2>2. /\ file' = (IF reopened THEN Opened(left) ELSE left)
          /\ db' = (IF reopened THEN "live" ELSE "closed")
          /\ mine' = (IF removed THEN Absent ELSE mine)
      BY <1>3 DEF destroyVault
    <2> HIDE DEF left
    <2>3. /\ file'["unlinked"] = Absent /\ \A f \in {"bak", "restore", "staged"} : file'[f] = file[f]
          /\ file'["live"] = left["live"] \/ (left["live"] = Absent /\ file'["live"] = Empty)
      BY <2>1, <2>2, Opens DEF File
    <2>4. faults \in Nat /\ faults' = faults + (IF removed THEN 0 ELSE 1) + (IF reopened THEN 0 ELSE 1)
      BY <1>0, <1>3, AppAssumption DEF destroyVault, AInv, TypeOK
    <2>5. faults <= faults' /\ (faults' = 0 => removed /\ faults = 0)
      BY <2>4
    <2>6. RestClean'
      BY <1>1, <2>1, <2>2, <2>3, <2>5, FromRest, EmptyIsNoVault DEF RestClean, Mine
    <2>7. faults' <= 1 => faults <= 1
      BY <2>4, <2>5
    <2>8. RestOne'
      BY <1>1, <2>1, <2>2, <2>3, <2>7, FromRest, EmptyIsNoVault DEF RestOne
    <2>9. QED
      BY <1>0, <1>1, <2>6, <2>8, ToRest
  <1>4. QED
    BY <1>2, <1>3 DEF handleAuthFailure

\* Creating a vault, in place or beside the one there is.
LEMMA CreateFaults == ASSUME FInv, NEW p \in Password, onCreateVaultRequested(p) PROVE FInv'
  <1>0. AInv /\ AInv' /\ \A b \in backups : IsVault(b)
    BY OutsideSafe DEF FInv, LiveInJob
  <1>1. /\ job = Idle /\ ~dialog /\ window = "login" /\ db # "closed"
        /\ UNCHANGED <<db, prompt, dialog, backups, faults>>
    BY DEF onCreateVaultRequested, AtLogin
  <1>2. faults <= 1 => /\ db \in {"live", "bak"} /\ OpenContent = file[db]
                       /\ db = "bak" => ~Exists("live") /\ faults # 0
    BY <1>1, OpenAtRest
  <1>3. CASE ~vaultExists
    <2>1. file' = [file EXCEPT ![db] = NewVault(p)] /\ mine' = NewVault(p) /\ session' = p /\ job' = Idle
      BY <1>1, <1>3 DEF onCreateVaultRequested, Unlocked
    <2>2. faults <= 1 => file'[db] = NewVault(p) /\ \A f \in File \ {db} : file'[f] = file[f]
      BY <1>0, <1>2, <2>1 DEF AInv, TypeOK, File
    <2>3. NewVault(p).owner = p
      BY DEF NewVault
    <2>4. RestClean'
      BY <1>1, <1>2, <2>1, <2>2, FromRest DEF RestClean, Mine, File
    <2>5. RestOne'
      BY <1>1, <1>2, <2>1, <2>2, <2>3, FromRest DEF RestOne, SessionOf, OpenContent, Exists, File
    <2>6. QED
      BY <1>0, <1>1, <2>1, <2>4, <2>5, ToRest
  <1>4. CASE vaultExists
    <2>1. /\ file' = [file EXCEPT !["staged"] = NewVault(p)]
          /\ job' = [kind |-> "create", at |-> "clear", temp |-> "staged",
                     old |-> file["live"], new |-> NewVault(p), done |-> "none"]
          /\ UNCHANGED <<session, window, mine>>
      BY <1>4 DEF onCreateVaultRequested
    <2>2. file'["staged"] = NewVault(p) /\ \A f \in File \ {"staged"} : file'[f] = file[f]
      BY <1>0, <2>1 DEF AInv, TypeOK, File
    <2>3. /\ job'.kind = "create" /\ job'.at = "clear" /\ job'.temp = "staged" /\ ~Replaced'
          /\ job'.old = file["live"] /\ job'.new = NewVault(p) /\ job'.done = "none"
      BY <2>1 DEF Replaced
    <2>4. CleanState'
      BY <1>1, <2>1, <2>2, <2>3, FromRest DEF CleanState, RestClean, Mine, Working, File
    <2>5. AfterOneFault' /\ LiveInJob'
      BY <1>0, <1>1, <2>2, <2>3, EmptyIsNoVault DEF AfterOneFault, LiveInJob, Working, File
    <2>6. OpenInJob'
      BY <1>1, <1>2, <1>4, <2>1, <2>2, <2>3 DEF OpenInJob, vaultExists, Exists, File
    <2>7. SessionInJob'
      BY <1>1, <2>1 DEF SessionInJob
    <2>8. QED
      BY <1>0, <2>4, <2>5, <2>6, <2>7 DEF FInv
  <1>5. QED
    BY <1>3, <1>4

\* Beginning to restore a backup, or giving up at once.
LEMMA RestoreFaults == ASSUME FInv, NEW b \in backups, restoreFromBackup(b) PROVE FInv'
  <1>0. AInv /\ AInv' /\ IsVault(b) /\ \A c \in backups : IsVault(c)
    BY OutsideSafe DEF FInv, LiveInJob
  <1>1. /\ job = Idle /\ dialog' = FALSE /\ db' = "closed"
        /\ UNCHANGED <<session, window, prompt, attempts, wrong, backups, mine, faults>>
    BY DEF restoreFromBackup, FInv, LiveInJob
  <1>2. faults <= 1 /\ window = "main" => SessionOf(file["live"])
    <2> SUFFICES ASSUME faults <= 1, window = "main" PROVE SessionOf(file["live"])
      OBVIOUS
    <2>1. db # "closed" /\ SessionOf(OpenContent)
      BY <1>1, FromRest DEF RestOne
    <2>2. db \in {"live", "bak"} /\ OpenContent = file[db] /\ (db = "bak" => ~Exists("live"))
      BY <1>1, <2>1, OpenAtRest
    <2>3. QED
      BY <2>1, <2>2, EmptyIsNoVault DEF SessionOf, Exists
  <1>3. CASE /\ file' = [file EXCEPT !["restore"] = b, !["unlinked"] = Absent]
             /\ job' = [kind |-> "restore", at |-> "clear", temp |-> "restore",
                        old |-> file["live"], new |-> b, done |-> "none"]
    <2>1. file'["restore"] = b /\ file'["unlinked"] = Absent /\ \A f \in {"live", "bak", "staged"} : file'[f] = file[f]
      BY <1>0, <1>3 DEF AInv, TypeOK, File
    <2>2. /\ job'.kind = "restore" /\ job'.at = "clear" /\ job'.temp = "restore" /\ ~Replaced'
          /\ job'.old = file["live"] /\ job'.new = b /\ job'.done = "none"
      BY <1>3 DEF Replaced
    <2>3. CleanState'
      BY <1>1, <2>1, <2>2, FromRest DEF CleanState, RestClean, Mine, Working
    <2>4. AfterOneFault' /\ LiveInJob'
      BY <1>0, <1>1, <2>1, <2>2 DEF AfterOneFault, LiveInJob, Working
    <2>5. OpenInJob' /\ SessionInJob'
      BY <1>1, <1>2, <2>2 DEF OpenInJob, SessionInJob, SessionOf, Working
    <2>6. QED
      BY <1>0, <2>3, <2>4, <2>5 DEF FInv
  <1>4. CASE /\ file' = [file EXCEPT !["unlinked"] = Absent]
             /\ job' = [Idle EXCEPT !.kind = "restore", !.at = "reopen", !.done = "Failed"]
    <2>1. file'["unlinked"] = Absent /\ \A f \in {"live", "bak", "restore", "staged"} : file'[f] = file[f]
      BY <1>0, <1>4 DEF AInv, TypeOK, File
    <2>2. /\ job'.kind = "restore" /\ job'.at = "reopen" /\ ~Replaced' /\ job'.done = "Failed" /\ job'.new = Absent
      BY <1>4 DEF Replaced, Idle
    <2>3. CleanState'
      BY <1>1, <2>1, <2>2, FromRest DEF CleanState, RestClean, Mine, Working
    <2>4. AfterOneFault' /\ LiveInJob'
      BY <1>0, <1>1, <2>1, <2>2, FromRest, EmptyIsNoVault DEF AfterOneFault, LiveInJob, Working, RestOne
    <2>5. OpenInJob' /\ SessionInJob'
      BY <1>1, <1>2, <2>1, <2>2 DEF OpenInJob, SessionInJob, SessionOf, Working
    <2>6. QED
      BY <1>0, <2>3, <2>4, <2>5 DEF FInv
  <1>5. QED
    BY <1>3, <1>4 DEF restoreFromBackup

\* A running replacement changes its step; these parts then do not change.
LEMMA StillInJob ==
  ASSUME FInv, job.at \in Working, Elsewhere, job'.at \in Working \union {"reopen"}, job'.kind = job.kind,
         job'.new = job.new, job'.done \notin {"Installed", "InstalledWithCleanupWarning"},
         job'.at \in {"clear", "preserve"} => file'["live"] = job'.old,
         job'.at = "move" => file'["live"] = Absent,
         job.kind = "restore" => db' = "closed"
  PROVE  /\ LiveInJob'
         /\ job'.kind = "restore" => db' = "closed"
         /\ job'.kind = "create" => window' = "login"
  <1>1. ~Replaced' /\ ~dialog' /\ job'.kind \in {"restore", "create"} /\ IsVault(job'.new)
    BY InJob DEF Replaced, Elsewhere, Working
  <1>2. LiveInJob'
    BY <1>1 DEF FInv, LiveInJob, Elsewhere, Exists
  <1>3. QED
    BY <1>2 DEF FInv, OpenInJob, Elsewhere

\* Making room for the .bak.
LEMMA ClearFaults == ASSUME FInv, clearBackup PROVE FInv'
  <1>0. TypeOK /\ AInv' /\ job.at = "clear" /\ Elsewhere
    BY InstallSafe DEF FInv, AInv, Install, clearBackup
  <1>1. /\ job'.at = "preserve" /\ job'.temp = job.temp /\ job'.kind = job.kind
        /\ job'.old = job.old /\ job'.new = job.new /\ job'.done = "none"
    BY <1>0, JobSteps, InJob DEF clearBackup, Working
  <1>2. ~Replaced' /\ ~Replaced
    BY <1>0, <1>1, InJob DEF Replaced, Working
  <1>3. CASE Exists("live") /\ Exists("bak") /\ Remove("bak") /\ UNCHANGED faults
    <2>1. /\ file'["bak"] = Absent /\ \A f \in {"live", "restore", "staged"} : file'[f] = file[f]
          /\ db' = IF db = "bak" THEN "unlinked" ELSE db
      BY <1>0, <1>3, Removed DEF File
    <2>2. faults # 0
      BY <1>0, <1>3 DEF FInv, CleanState, Exists
    <2>3. CleanState' /\ AfterOneFault'
      BY <1>1, <1>3, <2>1, <2>2 DEF CleanState, AfterOneFault, Exists, Replaced
    <2>4. job.kind = "restore" => db' = "closed"
      BY <2>1 DEF FInv, OpenInJob
    <2>5. LiveInJob' /\ (job'.kind = "restore" => db' = "closed") /\ (job'.kind = "create" => window' = "login")
      BY <1>0, <1>1, <2>1, <2>4, StillInJob DEF FInv, LiveInJob, Working
    <2>6. OpenInJob'
      BY <1>0, <1>1, <1>3, <2>1, <2>5 DEF FInv, OpenInJob, Exists
    <2>7. SessionInJob'
      BY <1>0, <1>1, <1>3 DEF FInv, SessionInJob, SessionOf, Elsewhere, Working
    <2>8. QED
      BY <1>0, <2>3, <2>5, <2>6, <2>7 DEF FInv
  <1>4. CASE Exists("live") /\ Exists("bak") /\ Fault /\ UNCHANGED <<file, db>>
    <2>1. faults' = faults + 1 /\ faults \in Nat
      BY <1>0, <1>4, AppAssumption DEF Fault, TypeOK
    <2>2. faults # 0
      BY <1>0, <1>4 DEF FInv, CleanState, Exists
    <2>3. ~(faults' <= 1) /\ faults' # 0
      BY <2>1, <2>2
    <2>4. CleanState' /\ AfterOneFault' /\ SessionInJob'
      BY <2>3 DEF CleanState, AfterOneFault, SessionInJob
    <2>5. LiveInJob' /\ (job'.kind = "restore" => db' = "closed") /\ (job'.kind = "create" => window' = "login")
      BY <1>0, <1>1, <1>4, StillInJob DEF FInv, LiveInJob, OpenInJob, Working
    <2>6. OpenInJob'
      BY <2>3, <2>5 DEF OpenInJob
    <2>7. QED
      BY <1>0, <2>4, <2>5, <2>6 DEF FInv
  <1>5. CASE ~(Exists("live") /\ Exists("bak")) /\ UNCHANGED <<file, db, faults>>
    <2>1. CleanState'
      BY <1>0, <1>1, <1>2, <1>5 DEF FInv, CleanState, Elsewhere, Mine, Working
    <2>2. AfterOneFault'
      BY <1>1, <1>2, <1>5 DEF AfterOneFault, Exists
    <2>3. LiveInJob' /\ (job'.kind = "restore" => db' = "closed") /\ (job'.kind = "create" => window' = "login")
      BY <1>0, <1>1, <1>5, StillInJob DEF FInv, LiveInJob, OpenInJob, Working
    <2>4. OpenInJob'
      BY <1>0, <1>1, <1>5, <2>3 DEF FInv, OpenInJob, Exists
    <2>5. SessionInJob'
      BY <1>0, <1>1, <1>5 DEF FInv, SessionInJob, SessionOf, Elsewhere, Working
    <2>6. QED
      BY <1>0, <2>1, <2>2, <2>3, <2>4, <2>5 DEF FInv
  <1>6. QED
    BY <1>3, <1>4, <1>5 DEF clearBackup

\* The live file becoming the .bak.
LEMMA PreserveFaults == ASSUME FInv, preserveLive PROVE FInv'
  <1>0. /\ TypeOK /\ AInv' /\ job.at = "preserve" /\ Elsewhere /\ job.temp \in {"restore", "staged"}
        /\ file["live"] = job.old /\ job.done = "none" /\ ~Replaced
    BY InstallSafe, InJob DEF FInv, AInv, JobInPlace, LiveInJob, Install, preserveLive, Working
  <1>1. CASE ~Exists("live") /\ Goto("move") /\ UNCHANGED <<file, db, faults>>
    <2>1. /\ job'.at = "move" /\ job'.temp = job.temp /\ job'.kind = job.kind
          /\ job'.old = job.old /\ job'.new = job.new /\ job'.done = "none" /\ ~Replaced'
      BY <1>0, <1>1, JobSteps DEF Replaced
    <2>2. ~IsVault(job.old) /\ file["live"] = Absent /\ job.old = Absent
      BY <1>0, <1>1, EmptyIsNoVault DEF Exists
    <2>3. CleanState'
      BY <1>0, <1>1, <2>1, <2>2 DEF FInv, CleanState, Elsewhere, Mine, Working
    <2>4. AfterOneFault'
      BY <2>1 DEF AfterOneFault
    <2>5. LiveInJob' /\ (job'.kind = "restore" => db' = "closed") /\ (job'.kind = "create" => window' = "login")
      BY <1>0, <1>1, <2>1, <2>2, StillInJob DEF FInv, OpenInJob, Working
    <2>6. OpenInJob'
      BY <1>0, <1>1, <2>1, <2>2, <2>5 DEF FInv, OpenInJob
    <2>7. SessionInJob'
      BY <1>0, <1>1, <2>1 DEF FInv, SessionInJob, SessionOf, Elsewhere, Working
    <2>8. QED
      BY <1>0, <2>3, <2>4, <2>5, <2>6, <2>7 DEF FInv
  <1>2. CASE Exists("live") /\ ~Exists("bak") /\ Goto("move") /\ Rename("live", "bak") /\ UNCHANGED faults
    <2>1. /\ job'.at = "move" /\ job'.temp = job.temp /\ job'.kind = job.kind
          /\ job'.old = job.old /\ job'.new = job.new /\ job'.done = "none" /\ ~Replaced'
      BY <1>0, <1>2, JobSteps DEF Replaced
    <2>2. /\ file'["bak"] = job.old /\ file'["live"] = Absent /\ db' = (IF db = "live" THEN "bak" ELSE db)
          /\ \A f \in {"restore", "staged", "unlinked"} : file'[f] = file[f]
      BY <1>0, <1>2, Renamed DEF File
    <2>3. CleanState'
      BY <1>0, <1>2, <2>1, <2>2 DEF FInv, CleanState, Elsewhere, Mine, Working
    <2>4. AfterOneFault'
      BY <2>1 DEF AfterOneFault
    <2>5. job.kind = "restore" => db' = "closed"
      BY <2>2 DEF FInv, OpenInJob
    <2>6. LiveInJob' /\ (job'.kind = "restore" => db' = "closed") /\ (job'.kind = "create" => window' = "login")
      BY <1>0, <2>1, <2>2, <2>5, StillInJob DEF Working
    <2>7. OpenInJob'
      BY <1>0, <1>2, <2>1, <2>2, <2>6 DEF FInv, OpenInJob
    <2>8. SessionInJob'
      BY <1>0, <1>2, <2>1 DEF FInv, SessionInJob, SessionOf, Elsewhere, Working
    <2>9. QED
      BY <1>0, <2>3, <2>4, <2>6, <2>7, <2>8 DEF FInv
  <1>3. CASE /\ Exists("live")
             /\ IF Exists("bak") THEN UNCHANGED faults ELSE Fault
             /\ Finish("Failed") /\ Remove(job.temp)
    <2>1. /\ job'.at = "reopen" /\ job'.temp = job.temp /\ job'.kind = job.kind
          /\ job'.old = job.old /\ job'.new = job.new /\ job'.done = "Failed" /\ ~Replaced'
      BY <1>0, <1>3, JobSteps DEF Replaced
    <2>2. /\ file'["live"] = job.old
          /\ db' = (IF db = job.temp THEN "unlinked" ELSE db)
      BY <1>0, <1>3, Removed DEF File
    <2>3. faults \in Nat /\ (faults' <= 1 => Mine(job.old)) /\ faults <= faults' /\ faults' # 0
      <3>1. CASE Exists("bak")
        <4>1. faults' = faults /\ faults \in Nat
          BY <1>0, <1>3, <3>1, AppAssumption DEF TypeOK
        <4>2. faults # 0
          BY <1>0, <3>1 DEF FInv, CleanState, Exists
        <4>3. faults <= 1 => Mine(job.old)
          BY <1>0, <1>3, <3>1 DEF FInv, AfterOneFault
        <4>4. QED
          BY <4>1, <4>2, <4>3
      <3>2. CASE ~Exists("bak")
        <4>1. faults' = faults + 1 /\ faults \in Nat
          BY <1>0, <1>3, <3>2, AppAssumption DEF Fault, TypeOK
        <4>2. faults = 0 => Mine(job.old)
          BY <1>0 DEF FInv, CleanState, Working
        <4>3. QED
          BY <4>1, <4>2
      <3>3. QED
        BY <3>1, <3>2
    <2>4. CleanState'
      BY <2>3 DEF CleanState
    <2>5. mine' = mine
      BY <1>0 DEF Elsewhere
    <2>6. AfterOneFault'
      BY <2>1, <2>2, <2>3, <2>5 DEF AfterOneFault, Mine
    <2>7. job.kind = "restore" => db' = "closed"
      BY <1>0, <2>2 DEF FInv, OpenInJob
    <2>8. LiveInJob' /\ (job'.kind = "restore" => db' = "closed") /\ (job'.kind = "create" => window' = "login")
      BY <1>0, <2>1, <2>2, <2>7, StillInJob DEF Working
    <2>9. faults' <= 1 => faults <= 1
      BY <2>3, <1>3 DEF Fault
    <2>10. OpenInJob'
      BY <1>0, <1>3, <2>1, <2>2, <2>8, <2>9 DEF FInv, OpenInJob
    <2>11. SessionInJob'
      BY <1>0, <2>1, <2>2, <2>9 DEF FInv, SessionInJob, SessionOf, Elsewhere, Working
    <2>12. QED
      BY <1>0, <2>4, <2>6, <2>8, <2>10, <2>11 DEF FInv
  <1>4. QED
    BY <1>1, <1>2, <1>3 DEF preserveLive

\* The replacement becoming the live file.
LEMMA MoveFaults == ASSUME FInv, moveReplacement PROVE FInv'
  <1>0. /\ TypeOK /\ AInv' /\ job.at = "move" /\ Elsewhere /\ job.temp \in {"restore", "staged"}
        /\ file["live"] = Absent /\ job.done = "none" /\ ~Replaced
    BY InstallSafe, InJob DEF FInv, AInv, JobInPlace, LiveInJob, Install, moveReplacement, Working, Exists
  <1>1. CASE Rename(job.temp, "live") /\ Goto("check") /\ UNCHANGED faults
    <2>1. /\ job'.at = "check" /\ job'.temp = job.temp /\ job'.kind = job.kind
          /\ job'.old = job.old /\ job'.new = job.new /\ job'.done = "none" /\ ~Replaced'
      BY <1>0, <1>1, JobSteps DEF Replaced
    <2>2. /\ file'["bak"] = file["bak"] /\ file'[job.temp] = Absent /\ file'["unlinked"] = file["unlinked"]
          /\ \A f \in {"restore", "staged"} \ {job.temp} : file'[f] = file[f]
          /\ db' = IF db = job.temp THEN "live" ELSE db
      BY <1>0, <1>1, Renamed DEF File
    <2>3. CleanState'
      BY <1>0, <1>1, <2>1, <2>2 DEF FInv, CleanState, Elsewhere, Mine, Working
    <2>4. AfterOneFault'
      BY <2>1 DEF AfterOneFault
    <2>5. job.kind = "restore" => db' = "closed"
      BY <1>0, <2>2 DEF FInv, OpenInJob
    <2>6. LiveInJob' /\ (job'.kind = "restore" => db' = "closed") /\ (job'.kind = "create" => window' = "login")
      BY <1>0, <2>1, <2>5, StillInJob DEF Working
    <2>7. OpenInJob'
      BY <1>0, <1>1, <2>1, <2>2, <2>6 DEF FInv, OpenInJob
    <2>8. SessionInJob'
      BY <1>0, <1>1, <2>1 DEF FInv, SessionInJob, SessionOf, Elsewhere, Working
    <2>9. QED
      BY <1>0, <2>3, <2>4, <2>6, <2>7, <2>8 DEF FInv
  <1>2. CASE Remove(job.temp) /\ Finish("Failed") /\ Fault
    <2>1. /\ job'.at = "reopen" /\ job'.temp = job.temp /\ job'.kind = job.kind
          /\ job'.old = job.old /\ job'.new = job.new /\ job'.done = "Failed" /\ ~Replaced'
      BY <1>0, <1>2, JobSteps DEF Replaced
    <2>2. /\ file'["live"] = Absent /\ file'["bak"] = file["bak"]
          /\ db' = (IF db = job.temp THEN "unlinked" ELSE db)
      BY <1>0, <1>2, Removed DEF File
    <2>3. faults' # 0 /\ (faults' <= 1 => faults = 0 /\ faults <= 1)
      BY <1>0, <1>2, AppAssumption DEF Fault, TypeOK
    <2>4. CleanState'
      BY <2>3 DEF CleanState
    <2>5. faults = 0 => file["bak"] = job.old /\ Mine(job.old)
      BY <1>0 DEF FInv, CleanState, Working
    <2>6. mine' = mine
      BY <1>0 DEF Elsewhere
    <2>7. AfterOneFault'
      BY <2>1, <2>2, <2>3, <2>5, <2>6, EmptyIsNoVault DEF AfterOneFault, Mine
    <2>8. job.kind = "restore" => db' = "closed"
      BY <1>0, <2>2 DEF FInv, OpenInJob
    <2>9. LiveInJob' /\ (job'.kind = "restore" => db' = "closed") /\ (job'.kind = "create" => window' = "login")
      BY <1>0, <2>1, <2>8, StillInJob DEF Working
    <2>10. OpenInJob'
      BY <1>0, <2>1, <2>2, <2>3, <2>9 DEF FInv, OpenInJob, Exists
    <2>11. SessionInJob'
      BY <2>1, <2>2, EmptyIsNoVault DEF SessionInJob, SessionOf, Working
    <2>12. QED
      BY <1>0, <2>4, <2>7, <2>9, <2>10, <2>11 DEF FInv
  <1>3. QED
    BY <1>1, <1>2 DEF moveReplacement

\* The check of the installed file.
LEMMA CheckFaults == ASSUME FInv, checkInstalled PROVE FInv'
  <1>0. /\ TypeOK /\ AInv' /\ job.at = "check" /\ Elsewhere /\ job.done = "none" /\ ~Replaced
        /\ UNCHANGED <<file, db>>
    BY InstallSafe, InJob DEF FInv, AInv, Install, checkInstalled, Working
  <1>1. ASSUME NEW step \in {"cleanup", "discard"}, Goto(step)
        PROVE  /\ job'.at = step /\ job'.temp = job.temp /\ job'.kind = job.kind
               /\ job'.old = job.old /\ job'.new = job.new /\ job'.done = "none" /\ ~Replaced'
               /\ LiveInJob' /\ (job'.kind = "restore" => db' = "closed")
               /\ (job'.kind = "create" => window' = "login")
    <2>1. /\ job'.at = step /\ job'.temp = job.temp /\ job'.kind = job.kind
          /\ job'.old = job.old /\ job'.new = job.new /\ job'.done = "none" /\ ~Replaced'
      BY <1>0, <1>1, JobSteps DEF Replaced
    <2>2. job.kind = "restore" => db' = "closed"
      BY <1>0 DEF FInv, OpenInJob
    <2>3. QED
      BY <1>0, <2>1, <2>2, StillInJob DEF Working
  <1>2. CASE Goto("cleanup") /\ UNCHANGED faults
    <2>1. CleanState'
      BY <1>0, <1>1, <1>2 DEF FInv, CleanState, Elsewhere, Mine, Working
    <2>2. AfterOneFault'
      BY <1>1, <1>2 DEF AfterOneFault
    <2>3. OpenInJob'
      BY <1>0, <1>1, <1>2 DEF FInv, OpenInJob
    <2>4. SessionInJob'
      BY <1>0, <1>1, <1>2 DEF FInv, SessionInJob, SessionOf, Elsewhere, Working
    <2>5. QED
      BY <1>0, <1>1, <1>2, <2>1, <2>2, <2>3, <2>4 DEF FInv
  <1>3. CASE Goto("discard") /\ Fault
    <2>1. faults' # 0 /\ (faults' <= 1 => faults = 0 /\ faults <= 1)
      BY <1>0, <1>3, AppAssumption DEF Fault, TypeOK
    <2>2. CleanState'
      BY <2>1 DEF CleanState
    <2>3. faults = 0 => file["bak"] = job.old /\ Mine(job.old)
      BY <1>0 DEF FInv, CleanState, Working
    <2>4. mine' = mine
      BY <1>0 DEF Elsewhere
    <2>5. AfterOneFault'
      BY <1>0, <1>1, <1>3, <2>1, <2>3, <2>4 DEF AfterOneFault, Mine
    <2>6. OpenInJob'
      BY <1>0, <1>1, <1>3, <2>1 DEF FInv, OpenInJob
    <2>7. SessionInJob'
      BY <1>0, <1>1, <1>3, <2>1 DEF FInv, SessionInJob, SessionOf, Elsewhere, Working
    <2>8. QED
      BY <1>0, <1>1, <1>3, <2>2, <2>5, <2>6, <2>7 DEF FInv
  <1>4. QED
    BY <1>2, <1>3 DEF checkInstalled

\* Once discarding has begun there has been a fault.
LEMMA FaultBefore ==
  ASSUME FInv, job.at \in {"discard", "undo"}
  PROVE  faults \in Nat /\ faults # 0
BY AppAssumption DEF FInv, CleanState, AInv, TypeOK

\* Removing a replacement that fails its check.
LEMMA DiscardFaults == ASSUME FInv, discardInstalled PROVE FInv'
  <1>0. /\ TypeOK /\ AInv' /\ job.at = "discard" /\ Elsewhere /\ job.done = "none" /\ ~Replaced
    BY InstallSafe, InJob DEF FInv, AInv, Install, discardInstalled, Working
  <1>1. /\ job'.at = "undo" /\ job'.temp = job.temp /\ job'.kind = job.kind
        /\ job'.old = job.old /\ job'.new = job.new /\ job'.done = "none" /\ ~Replaced'
    BY <1>0, JobSteps DEF Replaced, discardInstalled
  <1>2. faults \in Nat /\ faults # 0 /\ faults' \in Nat /\ faults <= faults' /\ (faults' <= 1 => faults' = faults)
    BY <1>0, FaultBefore DEF discardInstalled, Fault
  <1>3. /\ \/ file'["live"] = Absent
           \/ faults' # faults
        /\ file'["bak"] = file["bak"] /\ db' \in {db, IF db = "live" THEN "unlinked" ELSE db}
    <2>1. CASE Remove("live") /\ UNCHANGED faults
      BY <1>0, <2>1, Removed DEF File
    <2>2. CASE Fault /\ UNCHANGED <<file, db>>
      BY <1>2, <2>2 DEF Fault
    <2>3. QED
      BY <2>1, <2>2 DEF discardInstalled
  <1>4. CleanState'
    BY <1>2 DEF CleanState
  <1>5. mine' = mine
    BY <1>0 DEF Elsewhere
  <1>6. AfterOneFault'
    BY <1>0, <1>1, <1>2, <1>3, <1>5 DEF FInv, AfterOneFault, Mine, Exists
  <1>7. job.kind = "restore" => db' = "closed"
    BY <1>3 DEF FInv, OpenInJob
  <1>8. LiveInJob' /\ (job'.kind = "restore" => db' = "closed") /\ (job'.kind = "create" => window' = "login")
    BY <1>0, <1>1, <1>7, StillInJob DEF Working
  <1>9. OpenInJob'
    BY <1>0, <1>1, <1>2, <1>3, <1>8 DEF FInv, OpenInJob
  <1>10. SessionInJob'
    BY <1>0, <1>1, <1>2 DEF FInv, SessionInJob, SessionOf, Elsewhere, Working
  <1>11. QED
    BY <1>0, <1>4, <1>6, <1>8, <1>9, <1>10 DEF FInv

\* Putting the .bak back.
LEMMA UndoFaults == ASSUME FInv, undoInstall PROVE FInv'
  <1>0. /\ TypeOK /\ AInv' /\ job.at = "undo" /\ Elsewhere /\ job.done = "none" /\ ~Replaced
    BY InstallSafe, InJob DEF FInv, AInv, Install, undoInstall, Working
  <1>1. /\ job'.at = "reopen" /\ job'.temp = job.temp /\ job'.kind = job.kind
        /\ job'.old = job.old /\ job'.new = job.new /\ job'.done = "Failed" /\ ~Replaced'
    BY <1>0, JobSteps DEF Replaced, undoInstall
  <1>2. faults \in Nat /\ faults # 0 /\ faults' \in Nat /\ faults <= faults' /\ (faults' <= 1 => faults' = faults)
    BY <1>0, FaultBefore DEF undoInstall, Fault
  <1>3. faults' <= 1 =>
          /\ file["bak"] = job.old /\ Mine(job.old)
          /\ file'["live"] = job.old
          /\ db' = IF db = "bak" /\ Exists("bak") THEN "live" ELSE db
          /\ ~Exists("bak") => ~Exists("live")'
    <2> SUFFICES ASSUME faults' <= 1
                 PROVE  /\ file["bak"] = job.old /\ Mine(job.old)
                        /\ file'["live"] = job.old
                        /\ db' = IF db = "bak" /\ Exists("bak") THEN "live" ELSE db
                        /\ ~Exists("bak") => ~Exists("live")'
      OBVIOUS
    <2>1. file["bak"] = job.old /\ Mine(job.old) /\ ~Exists("live") /\ faults' = faults
      BY <1>0, <1>2 DEF FInv, AfterOneFault
    <2>2. CASE Exists("bak") /\ ~Exists("live") /\ Rename("bak", "live") /\ UNCHANGED faults
      BY <1>0, <2>1, <2>2, Renamed DEF File
    <2>3. CASE Exists("bak") /\ ~Exists("live") /\ Fault /\ UNCHANGED <<file, db>>
      BY <1>2, <2>1, <2>3 DEF Fault
    <2>4. CASE (Exists("live") \/ ~Exists("bak")) /\ UNCHANGED <<file, db, faults>>
      BY <2>1, <2>4 DEF Exists
    <2>5. QED
      BY <2>2, <2>3, <2>4 DEF undoInstall
  <1>4. CleanState'
    BY <1>2 DEF CleanState
  <1>5. mine' = mine
    BY <1>0 DEF Elsewhere
  <1>6. AfterOneFault'
    BY <1>1, <1>3, <1>5 DEF AfterOneFault, Mine
  <1>7. job.kind = "restore" => db' = "closed"
    BY <1>0, Renamed DEF FInv, OpenInJob, undoInstall, File
  <1>8. LiveInJob' /\ (job'.kind = "restore" => db' = "closed") /\ (job'.kind = "create" => window' = "login")
    BY <1>0, <1>1, <1>7, StillInJob DEF Working
  <1>9. OpenInJob'
    BY <1>0, <1>1, <1>2, <1>3, <1>8 DEF FInv, OpenInJob
  <1>10. SessionInJob'
    BY <1>0, <1>1, <1>2, <1>3 DEF FInv, SessionInJob, SessionOf, Elsewhere, Working
  <1>11. QED
    BY <1>0, <1>4, <1>6, <1>8, <1>9, <1>10 DEF FInv

\* Removing the .bak, which ends the replacement.
LEMMA CleanUpFaults == ASSUME FInv, cleanUp PROVE FInv'
  <1>0. /\ TypeOK /\ AInv' /\ job.at = "cleanup" /\ file["live"] = job.new /\ mine' = job.new
        /\ job.kind \in {"restore", "create"} /\ ~dialog
        /\ UNCHANGED <<session, window, prompt, dialog, attempts, wrong, backups>>
    BY InstallSafe, InJob DEF FInv, AInv, NewIsSomewhere, Install, cleanUp, Working
  <1>1. /\ job'.at = "reopen" /\ job'.kind = job.kind /\ job'.new = job.new
        /\ job'.done \in {"Installed", "InstalledWithCleanupWarning"} /\ Replaced'
    BY <1>0, JobSteps DEF Replaced, cleanUp
  <1>2. /\ file'["live"] = job.new /\ db' \in {db, IF db = "bak" THEN "unlinked" ELSE db}
        /\ \A f \in {"restore", "staged"} : file'[f] = file[f]
        /\ faults' = 0 => file'["bak"] = Absent /\ faults = 0
    <2>1. CASE Remove("bak") /\ UNCHANGED faults
      BY <1>0, <2>1, Removed DEF File
    <2>2. CASE Fault /\ UNCHANGED <<file, db>>
      BY <1>0, <2>2, AppAssumption DEF Fault, TypeOK
    <2>3. QED
      BY <2>1, <2>2 DEF cleanUp
  <1>3. CleanState'
    BY <1>0, <1>1, <1>2 DEF FInv, CleanState, Mine, Working
  <1>4. AfterOneFault' /\ LiveInJob'
    BY <1>0, <1>1 DEF FInv, AfterOneFault, LiveInJob, Working
  <1>5. OpenInJob' /\ SessionInJob'
    BY <1>0, <1>1, <1>2 DEF FInv, OpenInJob, SessionInJob, Working
  <1>6. QED
    BY <1>0, <1>3, <1>4, <1>5 DEF FInv

\* What a replacement that is over leaves.
LEMMA AtReopen ==
  ASSUME FInv, job.at = "reopen"
  PROVE  /\ faults = 0 => /\ \A f \in {"bak", "restore", "staged"} : file[f] = Absent
                          /\ Mine(file["live"])
         /\ faults <= 1 /\ IsVault(mine) => mine \in {file["live"], file["bak"]}
         /\ Replaced => file["live"] = job.new
  <1>1. faults = 0 => (\A f \in {"bak", "restore", "staged"} : file[f] = Absent) /\ Mine(file["live"])
    BY DEF FInv, CleanState, Working
  <1>2. Replaced => file["live"] = job.new /\ mine = job.new
    BY DEF FInv, AInv, NewIsSomewhere, LiveInJob
  <1>3. faults <= 1 /\ IsVault(mine) => mine \in {file["live"], file["bak"]}
    BY <1>2 DEF FInv, AfterOneFault
  <1>4. QED
    BY <1>1, <1>2, <1>3

\* Going on after a restore.
LEMMA EndRestoreFaults == ASSUME FInv, endRestore PROVE FInv'
  <1>0. /\ TypeOK /\ AInv' /\ job.at = "reopen" /\ job.kind = "restore" /\ job' = Idle /\ db = "closed"
        /\ UNCHANGED <<dialog, backups, mine>> /\ \A b \in backups' : IsVault(b)
    BY InstallSafe DEF FInv, AInv, OpenInJob, LiveInJob, Install, endRestore
  <1>1. CASE /\ file' = Opened(file) /\ db' = "live" /\ UNCHANGED faults
             /\ \/ Replaced /\ session' = Nobody /\ showLogin(IsVault(file["live"]))
                \/ ~Replaced /\ UNCHANGED <<session, window, prompt, attempts, wrong>>
    <2>1. /\ file'["unlinked"] = Absent /\ \A f \in {"bak", "restore", "staged"} : file'[f] = file[f]
          /\ file'["live"] = IF file["live"] = Absent THEN Empty ELSE file["live"]
      BY <1>0, <1>1, Opens DEF TypeOK, File
    <2>2. RestClean'
      BY <1>0, <1>1, <2>1, AtReopen, EmptyIsNoVault DEF RestClean, Mine
    <2>3. ASSUME window' = "main", faults <= 1 PROVE SessionOf(file["live"]) /\ session' = session
      BY <1>0, <1>1, <2>3 DEF showLogin, FInv, SessionInJob
    <2>4. RestOne'
      BY <1>0, <1>1, <2>1, <2>3, AtReopen, EmptyIsNoVault DEF RestOne, SessionOf, OpenContent
    <2>5. QED
      BY <1>0, <2>2, <2>4, ToRest
  <1>2. CASE Fault /\ UNCHANGED <<file, db>> /\ showLogin(FALSE)
    <2>1. faults' # 0 /\ (faults' <= 1 => faults <= 1) /\ window' = "login"
      BY <1>0, <1>2, AppAssumption DEF Fault, TypeOK, showLogin
    <2>2. RestClean' /\ RestOne'
      BY <1>0, <1>2, <2>1, AtReopen DEF RestClean, RestOne
    <2>3. QED
      BY <1>0, <2>2, ToRest
  <1>3. QED
    BY <1>1, <1>2 DEF endRestore

\* Going on after a creation.
LEMMA EndCreateFaults == ASSUME FInv, endCreate PROVE FInv'
  <1>0. /\ TypeOK /\ AInv' /\ job.at = "reopen" /\ job.kind = "create" /\ job' = Idle /\ window = "login"
        /\ UNCHANGED <<dialog, backups, mine>> /\ \A b \in backups' : IsVault(b)
    BY InstallSafe DEF FInv, AInv, OpenInJob, LiveInJob, Install, endCreate
  <1>1. CASE Replaced /\ file' = Opened(file) /\ db' = "live" /\ Unlocked(job.new.owner) /\ UNCHANGED faults
    <2>1. /\ file'["unlinked"] = Absent /\ \A f \in {"bak", "restore", "staged"} : file'[f] = file[f]
          /\ file'["live"] = (IF file["live"] = Absent THEN Empty ELSE file["live"])
      BY <1>0, <1>1, Opens DEF TypeOK, File
    <2>2. file["live"] = job.new /\ session' = job.new.owner
      BY <1>0, <1>1, AtReopen DEF Unlocked
    <2>3. RestClean'
      BY <1>0, <1>1, <2>1, AtReopen, EmptyIsNoVault DEF RestClean, Mine
    <2>4. RestOne'
      BY <1>0, <1>1, <2>1, <2>2, AtReopen, EmptyIsNoVault DEF RestOne, SessionOf, OpenContent
    <2>5. QED
      BY <1>0, <2>3, <2>4, ToRest
  <1>2. CASE Fault /\ file' = [file EXCEPT !["unlinked"] = Absent] /\ db' = "closed" /\ window' = window
    <2>1. \A f \in File \ {"unlinked"} : file'[f] = file[f]
      BY <1>0, <1>2 DEF TypeOK, File
    <2>2. faults' # 0 /\ (faults' <= 1 => faults <= 1)
      BY <1>0, <1>2, AppAssumption DEF Fault, TypeOK
    <2>3. RestClean' /\ RestOne'
      BY <1>0, <1>2, <2>1, <2>2, AtReopen DEF RestClean, RestOne, File
    <2>4. QED
      BY <1>0, <2>3, ToRest
  <1>3. CASE ~Replaced /\ UNCHANGED <<file, db, session, window, attempts, wrong, faults>>
    <2>1. faults # 0
      BY <1>0, <1>3 DEF FInv, CleanState
    <2>2. faults <= 1 => db = "live" \/ (db = "bak" /\ ~Exists("live"))
      BY <1>0, <1>3 DEF FInv, OpenInJob
    <2>3. RestClean' /\ RestOne'
      BY <1>0, <1>3, <2>1, <2>2, AtReopen DEF RestClean, RestOne, Exists
    <2>4. QED
      BY <1>0, <2>3, ToRest
  <1>4. QED
    BY <1>1, <1>2, <1>3 DEF endCreate

----------------------------------------------------------------------------
(* The theorems.                                                           *)

\* The invariant of every reachable state.
LEMMA Always == Spec => []AInv
  <1>1. AInv /\ [Next]_vars => AInv'
    <2>1. AInv /\ UNCHANGED vars => AInv'
      <3> SUFFICES ASSUME AInv, UNCHANGED vars PROVE AInv'
        OBVIOUS
      <3>1. UNCHANGED <<file, db, session, window, prompt, dialog, job, attempts, wrong, backups, mine, faults>>
        BY DEF vars
      <3>2. TypeOK'
        BY <3>1 DEF AInv, TypeOK
      <3>3. JobInPlace' /\ OldIsSomewhere' /\ NewIsSomewhere'
        BY <3>1 DEF AInv, JobInPlace, OldIsSomewhere, NewIsSomewhere, Replaced
      <3>4. QED
        BY <3>2, <3>3 DEF AInv
    <2>2. AInv /\ Next => AInv'
      BY OutsideSafe, InstallSafe DEF Next
    <2>3. QED
      BY <2>1, <2>2
  <1>2. QED
    BY InitSafe, <1>1, PTL DEF Spec

\* Every variable has its type, in particular the counters their bounds.
THEOREM Typing == Spec => []TypeOK
  <1>1. AInv => TypeOK
    BY DEF AInv
  <1>2. QED
    BY <1>1, Always, PTL

\* However many file operations of installValidatedPlaintextVault fail, and
\* whenever the process dies and starts again, the vault that was live when a
\* replacement began is in a file until the replacement has succeeded.
THEOREM KeepsOldVault == Spec => []OldVaultKept
  <1>1. AInv => OldVaultKept
    <2> SUFFICES ASSUME AInv, job # Idle, ~Replaced, IsVault(job.old)
                 PROVE  \E f \in File \ {"unlinked"} : file[f] = job.old
      BY DEF OldVaultKept
    <2>1. job.at \in Working \union {"reopen"}
      BY DEF AInv, TypeOK, JobInPlace, Job, Working
    <2>2. "live" \in File \ {"unlinked"} /\ "bak" \in File \ {"unlinked"}
      BY DEF File
    <2>3. QED
      BY <2>1, <2>2 DEF AInv, OldIsSomewhere, Working
  <1>2. QED
    BY <1>1, Always, PTL

\* When installValidatedPlaintextVault reports a success, the new vault is the
\* live one, whatever failed on the way.
THEOREM SuccessIsTrue == Spec => []SuccessIsLive
  <1>1. AInv => SuccessIsLive
    BY DEF AInv, NewIsSomewhere, SuccessIsLive
  <1>2. QED
    BY <1>1, Always, PTL

\* The invariant about faults, of every reachable state.
LEMMA AlwaysFaults == Spec => []FInv
  <1>1. FInv /\ UNCHANGED vars => FInv'
    <2> SUFFICES ASSUME FInv, UNCHANGED vars PROVE FInv'
      OBVIOUS
    <2>1. UNCHANGED <<file, db, session, window, prompt, dialog, job, attempts, wrong, backups, mine, faults>>
      BY DEF vars
    <2>2. TypeOK' /\ JobInPlace' /\ OldIsSomewhere' /\ NewIsSomewhere'
      BY <2>1 DEF FInv, AInv, TypeOK, JobInPlace, OldIsSomewhere, NewIsSomewhere, Replaced
    <2>3. CleanState' /\ AfterOneFault'
      BY <2>1 DEF FInv, CleanState, AfterOneFault, Mine, Replaced, Exists
    <2>4. LiveInJob' /\ OpenInJob'
      BY <2>1 DEF FInv, LiveInJob, OpenInJob, Replaced, Exists
    <2>5. SessionInJob'
      BY <2>1 DEF FInv, SessionInJob, SessionOf, OpenContent, Replaced
    <2>6. QED
      BY <2>2, <2>3, <2>4, <2>5 DEF FInv, AInv
  <1>2. FInv /\ Next => FInv'
    <2>1. FInv /\ Install => FInv'
      BY ClearFaults, PreserveFaults, MoveFaults, CheckFaults, DiscardFaults, UndoFaults, CleanUpFaults,
         EndRestoreFaults, EndCreateFaults DEF Install
    <2>2. QED
      BY <2>1, StartStopFaults, WorkFaults, FailureFaults, CreateFaults, RestoreFaults DEF Next
  <1>3. QED
    BY InitFaults, <1>1, <1>2, PTL DEF Spec

\* Through any number of restores, creations, failed attempts and restarts, one
\* failed file operation or one crash does not lose what the user last had: it
\* is in a file, or the replacement the user asked for is.
THEOREM NothingIsLost == Spec => []VaultKept
  <1>1. FInv => VaultKept
    <2> SUFFICES ASSUME FInv, faults <= 1, IsVault(mine)
                 PROVE  \E f \in File : file[f] = mine \/ (IsVault(job.new) /\ file[f] = job.new)
      BY DEF VaultKept
    <2>1. "live" \in File /\ "bak" \in File /\ job.temp \in File
      BY Jobs DEF FInv, AInv, TypeOK, File
    <2>2. CASE job.at \in {"clear", "preserve", "move", "check", "cleanup"}
      BY <2>1, <2>2, InJob DEF FInv, AInv, NewIsSomewhere, Working
    <2>3. CASE job.at \in {"discard", "undo"}
      BY <2>1, <2>3 DEF FInv, AfterOneFault, Mine
    <2>4. CASE job.at = "idle"
      BY <2>1, <2>4 DEF FInv, AfterOneFault
    <2>5. CASE job.at = "reopen"
      BY <2>1, <2>5, AtReopen
    <2>6. QED
      BY <2>2, <2>3, <2>4, <2>5, InJob DEF Working
  <1>2. QED
    BY <1>1, AlwaysFaults, PTL

\* The session's key is that of the vault that is open, also after a restore that
\* failed or that went on behind a lock, with at most one fault.
THEOREM KeyFitsVault == Spec => []NoForeignKey
  <1>1. FInv => NoForeignKey
    BY IdleJob DEF FInv, SessionInJob, SessionOf, NoForeignKey, vaultExists
  <1>2. QED
    BY <1>1, AlwaysFaults, PTL

\* With at most one fault, what the user is told of a replacement is so.
THEOREM ResultIsTrue == Spec => []ResultTellsLive
  <1>1. FInv => ResultTellsLive
    BY DEF FInv, AInv, NewIsSomewhere, AfterOneFault, ResultTellsLive
  <1>2. QED
    BY <1>1, AlwaysFaults, PTL

\* Where nothing failed, no file but the live one is left.
THEOREM NothingLeft == Spec => []NoLeftovers
  <1>1. FInv => NoLeftovers
    BY FromRest DEF RestClean, NoLeftovers, Exists, File
  <1>2. QED
    BY <1>1, AlwaysFaults, PTL
=============================================================================
