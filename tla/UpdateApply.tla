----------------------------- MODULE UpdateApply -----------------------------
(***************************************************************************)
(* One managed AppImage and the update pipeline that replaces it: the      *)
(* caller thread that runs `apply_with_progress`, the helper thread that   *)
(* `CancellableNetwork::download_to_file` starts for the download and      *)
(* abandons on a cancel, the user who cancels, the app that may be started *)
(* or quit meanwhile, failing file-system and database calls, and a crash  *)
(* of the process at any point.  Files outlive a crash, threads do not.    *)
(*                                                                         *)
(* A file's bytes are a member of Content; SHA-256 is the identity on      *)
(* Content.  The update source and the server behind the download URL are  *)
(* outside the program: a check may advertise any content, with a digest,  *)
(* without one, or with one the program cannot read, and a download may    *)
(* deliver any content, whatever was advertised.                           *)
(***************************************************************************)
EXTENDS Naturals, FiniteSets

CONSTANTS
  Content,      \* what a file can hold: builds of the app, and things that are not
  Version,      \* version strings, normalised
  VersionOf,    \* [Content -> Version], the version a source gives for it
  ArchOf,       \* [Content -> architecture in its ELF header, or UnknownArch]
  Supported,    \* architectures this machine can run
  AppArch,      \* architecture in the app's row, UnknownArch when never read
  UnknownArch,  \* also what parsing gives for a file that is no AppImage
  Supersedes,   \* pairs <<new, old>> for which `versions::is_update` is true
  Installed,    \* the content installed before the first update
  Attempt,      \* numbers of the applies, 1..n (bounds the number of applies)
  MaxFaults,    \* bound on failing system calls
  MaxCrashes,   \* bound on crashes of the process
  MaxToggles,   \* bound on how often the app is started or quit
  Nothing,      \* no file, no recorded hash, no desktop entry, no digest
  Partial,      \* a file whose writing has not ended
  BadDigest     \* an advertised digest `parse_expected_sha256` rejects

ASSUME ContentAssumption ==
  /\ Installed \in Content
  /\ VersionOf \in [Content -> Version]
  /\ Nothing \notin Content \cup Version
  /\ Partial \notin Content \cup {Nothing}
  /\ BadDigest \notin Content \cup {Nothing}
  /\ UnknownArch \notin Supported
  /\ Supersedes \subseteq Version \X Version

ASSUME BoundAssumption ==
  /\ Attempt \subseteq Nat \ {0}
  /\ {MaxFaults, MaxCrashes, MaxToggles} \subseteq Nat

VARIABLES
  pc,           \* where the caller thread is; "idle" between applies
  attempt,      \* number of the current or last apply, 0 before the first
  force,        \* the apply may replace a running app
  app,          \* the row as read when the apply began (`app: &InstalledApp`)
  checked,      \* what the update check answered (`checked`)
  stagedHash,   \* the digest of the verified staging file (`staged_hash`)
  cancelAt,     \* pc at which the cancel flag was set, "never" while it is not
  outcome,      \* result of each apply
  live,         \* contents of the managed path
  staging,      \* contents of each apply's .gosh-upd- file
  backup,       \* contents of each apply's .gosh-upd-bak- file
  replaced,     \* history: contents of the managed path when the apply began
  intact,       \* history: the registered file has not been lost since its row was written
  linked,       \* the current backup is a hard link to the live file
  desktop,      \* the version in the desktop entry, Nothing when there is none
  row,          \* the app's row in the registry
  helper,       \* state of each apply's download thread
  helperStop,   \* the stop flag the caller shares with that thread
  running,      \* the app is running
  faults, crashes, toggles

disk     == <<live, staging, backup, linked, desktop, row, intact>>
threads  == <<helper, helperStop>>
request  == <<force, app, checked, stagedHash, replaced>>
world    == <<running, toggles, crashes>>
vars     == <<pc, attempt, request, cancelAt, outcome, disk, threads, world, faults>>

File     == Content \cup {Nothing, Partial}
Row      == [ver : Version, sha : Content \cup {Nothing}]
Checked  == [ver : Version, digest : Content \cup {Nothing, BadDigest}]

BeforeSwap == {"check", "probe", "spawn", "download", "discard", "verify",
               "backup", "lastcheck"}
AfterSwap  == {"desktop", "upsert", "rollbackFile", "rollbackRow", "dropBackup"}
PC         == {"idle", "swap"} \cup BeforeSwap \cup AfterSwap
Over       == {"ok", "failed", "cancelled", "crashed"}
Helper     == {"none", "starting", "opening", "looping", "reading", "ok", "err"}

Cancelled  == cancelAt # "never"

(***************************************************************************)
(* Initially the app is installed.  Its file may have been deleted behind  *)
(* the program's back, its row may be one that adoption wrote, with no     *)
(* hash and no desktop entry.                                              *)
(***************************************************************************)
Init ==
  /\ pc = "idle" /\ attempt = 0 /\ force = FALSE
  /\ \E sha \in {Installed, Nothing} : row = [ver |-> VersionOf[Installed], sha |-> sha]
  /\ app = row
  /\ checked = [ver |-> VersionOf[Installed], digest |-> Nothing]
  /\ stagedHash = Nothing
  /\ cancelAt = "never"
  /\ outcome = [a \in Attempt |-> "none"]
  /\ live \in {Installed, Nothing}
  /\ replaced = live
  /\ staging = [a \in Attempt |-> Nothing]
  /\ backup = [a \in Attempt |-> Nothing]
  /\ intact = (live # Nothing /\ row.sha = live)
  /\ linked = FALSE
  /\ desktop \in {VersionOf[Installed], Nothing}
  /\ helper = [a \in Attempt |-> "none"]
  /\ helperStop = [a \in Attempt |-> FALSE]
  /\ running = FALSE
  /\ faults = 0 /\ crashes = 0 /\ toggles = 0

-----------------------------------------------------------------------------
(* Steps of the caller shared by the actions below.                        *)

Goto(p)   == pc' = p /\ UNCHANGED outcome
Finish(o) == pc' = "idle" /\ outcome' = [outcome EXCEPT ![attempt] = o]
Fault     == faults < MaxFaults /\ faults' = faults + 1
NoFault   == UNCHANGED faults

RemoveStaging == staging' = [staging EXCEPT ![attempt] = Nothing]
RemoveBackup  == backup' = [backup EXCEPT ![attempt] = Nothing]

(* `parse_expected_sha256`: no usable digest is Nothing.                   *)
ExpectedHash(digest) == IF digest \in Content THEN digest ELSE Nothing

(* `offers_update` for a check that found a release with a URL.            *)
OffersUpdate(a, c) ==
  \/ <<c.ver, a.ver>> \in Supersedes
  \/ /\ c.ver = a.ver
     /\ a.sha # Nothing
     /\ ExpectedHash(c.digest) \notin {Nothing, a.sha}

(* The ELF checks on the staged file: an AppImage, for an architecture     *)
(* this machine runs, and the one the app was installed for if known.      *)
Acceptable(c) ==
  /\ ArchOf[c] \in Supported
  /\ AppArch # UnknownArch => ArchOf[c] = AppArch

(* An empty digest is accepted (reduced verification), an unreadable one   *)
(* is not.                                                                 *)
DigestAccepts(c, digest) == digest = Nothing \/ ExpectedHash(digest) = c

(* `fs::rename(backup, live)`, the rollback of the swap.  Renaming one     *)
(* hard link over another link to the same file does nothing, and with no  *)
(* backup the call fails and its error is dropped.                         *)
RenameBackupOverLive(sameFile) ==
  IF backup[attempt] = Nothing \/ sameFile
    THEN UNCHANGED <<live, backup>>
    ELSE live' = backup[attempt] /\ RemoveBackup

-----------------------------------------------------------------------------
(* The caller thread, `apply_with_progress`.                               *)

Start ==
  /\ pc = "idle" /\ attempt + 1 \in Attempt
  /\ attempt' = attempt + 1
  /\ force' \in BOOLEAN
  /\ app' = row
  /\ cancelAt' = "never"
  /\ pc' = "check"
  /\ outcome' = [outcome EXCEPT ![attempt + 1] = "running"]
  /\ stagedHash' = Nothing
  /\ linked' = FALSE
  /\ replaced' = live
  /\ UNCHANGED <<checked, live, staging, backup, desktop, row, intact, threads, world, faults>>

CheckCancelled ==
  /\ pc = "check" /\ Cancelled
  /\ Finish("cancelled")
  /\ UNCHANGED <<attempt, request, cancelAt, disk, threads, world, faults>>

(* The source could not be reached, or has nothing for this app.           *)
CheckFails ==
  /\ pc = "check" /\ ~Cancelled
  /\ Finish("failed")
  /\ UNCHANGED <<attempt, request, cancelAt, disk, threads, world, faults>>

CheckAnswers ==
  /\ pc = "check" /\ ~Cancelled
  /\ \E c \in Content : \E digest \in {c, Nothing, BadDigest} :
       checked' = [ver |-> VersionOf[c], digest |-> digest]
  /\ IF OffersUpdate(app, checked') THEN Goto("probe") ELSE Finish("failed")
  /\ UNCHANGED <<attempt, force, app, stagedHash, replaced, cancelAt, disk, threads, world, faults>>

(* `is_running`, then the refusal, then `mkdir_0700`.                      *)
Probe ==
  /\ pc = "probe"
  /\ \/ Cancelled /\ Finish("cancelled") /\ NoFault
     \/ ~Cancelled /\ running /\ ~force /\ Finish("failed") /\ NoFault
     \/ ~Cancelled /\ (running => force) /\ Goto("spawn") /\ NoFault
     \/ ~Cancelled /\ (running => force) /\ Fault /\ Finish("failed")
  /\ UNCHANGED <<attempt, request, cancelAt, disk, threads, world>>

(* No helper is started for a cancelled download, or when no thread can be. *)
SpawnHelper ==
  /\ pc = "spawn"
  /\ \/ Cancelled /\ Goto("discard") /\ NoFault /\ UNCHANGED helper
     \/ ~Cancelled /\ Fault /\ Goto("discard") /\ UNCHANGED helper
     \/ ~Cancelled /\ NoFault /\ Goto("download")
        /\ helper' = [helper EXCEPT ![attempt] = "starting"]
  /\ UNCHANGED <<attempt, request, cancelAt, disk, helperStop, world>>

DownloadReturns ==
  /\ pc = "download"
  /\ \/ helper[attempt] = "ok" /\ Goto("verify")
     \/ helper[attempt] = "err" /\ Goto("discard")
  /\ UNCHANGED <<attempt, request, cancelAt, disk, threads, world, faults>>

(* Mutant: the helper is not told to stop.                                 *)
AbandonSilently ==
  /\ pc = "download" /\ Cancelled
  /\ Goto("discard")
  /\ UNCHANGED <<attempt, request, cancelAt, disk, threads, world, faults>>

(* Mutant: a cancel is looked at only when the helper has ended.           *)
AbandonAfterHelper ==
  /\ pc = "download" /\ Cancelled /\ helper[attempt] \in {"ok", "err"}
  /\ Goto("discard")
  /\ UNCHANGED <<attempt, request, cancelAt, disk, threads, world, faults>>

(* The poll times out with the flag set: tell the helper, stop waiting.    *)
AbandonHelper ==
  /\ pc = "download" /\ Cancelled
  /\ helperStop' = [helperStop EXCEPT ![attempt] = TRUE]
  /\ Goto("discard")
  /\ UNCHANGED <<attempt, request, cancelAt, disk, helper, world, faults>>

(* The download returned an error: remove whatever is at the staging path. *)
Discard ==
  /\ pc = "discard"
  /\ RemoveStaging
  /\ Finish(IF Cancelled THEN "cancelled" ELSE "failed")
  /\ UNCHANGED <<attempt, request, cancelAt, live, backup, linked, desktop, row, intact,
                 threads, world, faults>>

(* Mutant: the digest is not compared.                                     *)
VerifyWithoutDigest ==
  /\ pc = "verify" /\ ~Cancelled
  /\ Acceptable(staging[attempt])
  /\ stagedHash' = staging[attempt]
  /\ Goto("backup")
  /\ UNCHANGED <<attempt, force, app, checked, replaced, cancelAt, disk, threads, world, faults>>

(* chmod, ELF validation, architecture, hash and digest.                   *)
VerifyAccepts ==
  /\ pc = "verify" /\ ~Cancelled
  /\ Acceptable(staging[attempt])
  /\ DigestAccepts(staging[attempt], checked.digest)
  /\ stagedHash' = staging[attempt]
  /\ Goto("backup")
  /\ UNCHANGED <<attempt, force, app, checked, replaced, cancelAt, disk, threads, world, faults>>

VerifyRefuses ==
  /\ pc = "verify"
  /\ \/ ~Acceptable(staging[attempt]) /\ NoFault /\ Finish("failed")
     \/ ~DigestAccepts(staging[attempt], checked.digest) /\ NoFault /\ Finish("failed")
     \/ Cancelled /\ NoFault /\ Finish("cancelled")
     \/ Fault /\ Finish("failed")
  /\ RemoveStaging
  /\ UNCHANGED <<attempt, request, cancelAt, live, backup, linked, desktop, row, intact,
                 threads, world>>

(* The rollback copy: a hard link, or a full copy where links fail.  A     *)
(* copy that fails half way is not removed.                                *)
MakeBackup ==
  /\ pc = "backup"
  /\ \/ live = Nothing /\ Goto("lastcheck") /\ NoFault
        /\ UNCHANGED <<backup, linked, staging>>
     \/ live # Nothing /\ Goto("lastcheck") /\ NoFault
        /\ backup' = [backup EXCEPT ![attempt] = live]
        /\ linked' \in BOOLEAN
        /\ UNCHANGED staging
     \/ live # Nothing /\ Fault /\ Finish("failed")
        /\ \E left \in {Nothing, Partial} : backup' = [backup EXCEPT ![attempt] = left]
        /\ RemoveStaging
        /\ UNCHANGED linked
  /\ UNCHANGED <<attempt, request, cancelAt, live, desktop, row, intact, threads, world>>

(* Mutant: the cancel flag is not read after the rollback copy is made.    *)
NoLastCheck ==
  /\ pc = "lastcheck" /\ Goto("swap")
  /\ UNCHANGED <<attempt, request, cancelAt, disk, threads, world, faults>>

LastCheck ==
  /\ pc = "lastcheck"
  /\ IF Cancelled
       THEN RemoveStaging /\ RemoveBackup /\ Finish("cancelled")
       ELSE Goto("swap") /\ UNCHANGED <<staging, backup>>
  /\ UNCHANGED <<attempt, request, cancelAt, live, linked, desktop, row, intact,
                 threads, world, faults>>

(* Mutant: the rollback copy is dropped as soon as the swap is done.       *)
SwapDropsBackup ==
  /\ pc = "swap"
  /\ live' = staging[attempt]
  /\ linked' = FALSE
  /\ RemoveStaging /\ RemoveBackup
  /\ Goto("desktop")
  /\ UNCHANGED <<attempt, request, cancelAt, desktop, row, intact, threads, world, faults>>

Swap ==
  /\ pc = "swap"
  /\ live' = staging[attempt]
  /\ linked' = FALSE
  /\ RemoveStaging
  /\ Goto("desktop")
  /\ UNCHANGED <<attempt, request, cancelAt, backup, desktop, row, intact, threads, world, faults>>

(* The rename fails: the backup is renamed back and the staging removed.   *)
SwapFails ==
  /\ pc = "swap" /\ Fault
  /\ RenameBackupOverLive(linked)
  /\ RemoveStaging
  /\ Finish("failed")
  /\ UNCHANGED <<attempt, request, cancelAt, linked, desktop, row, intact, threads, world>>

(* Mutant: the desktop entry is written from the row as it was read.       *)
WriteStaleDesktop ==
  /\ pc = "desktop" /\ Goto("upsert") /\ NoFault
  /\ desktop' = IF desktop = Nothing THEN Nothing ELSE app.ver
  /\ UNCHANGED <<attempt, request, cancelAt, live, staging, backup, linked, row, intact,
                 threads, world>>

(* `atomic_write` of the desktop entry, skipped for a row without one.     *)
WriteDesktop ==
  /\ pc = "desktop"
  /\ \/ Goto("upsert") /\ NoFault
        /\ desktop' = IF desktop = Nothing THEN Nothing ELSE checked.ver
     \/ desktop # Nothing /\ Fault /\ Goto("rollbackFile") /\ UNCHANGED desktop
  /\ UNCHANGED <<attempt, request, cancelAt, live, staging, backup, linked, row, intact,
                 threads, world>>

(* Mutant: a row that cannot be saved leaves the swapped file in place.    *)
UpsertWithoutRollback ==
  /\ pc = "upsert"
  /\ \/ row' = [ver |-> checked.ver, sha |-> stagedHash] /\ Goto("dropBackup") /\ NoFault
        /\ intact' = TRUE
     \/ Fault /\ Finish("failed") /\ UNCHANGED <<row, intact>>
  /\ UNCHANGED <<attempt, request, cancelAt, live, staging, backup, linked, desktop,
                 threads, world>>

Upsert ==
  /\ pc = "upsert"
  /\ \/ row' = [ver |-> checked.ver, sha |-> stagedHash] /\ Goto("dropBackup") /\ NoFault
        /\ intact' = TRUE
     \/ Fault /\ Goto("rollbackFile") /\ UNCHANGED <<row, intact>>
  /\ UNCHANGED <<attempt, request, cancelAt, live, staging, backup, linked, desktop,
                 threads, world>>

(* `fs::rename(backup, live)`; a failure of it is dropped.                 *)
RollbackFile ==
  /\ pc = "rollbackFile"
  /\ \/ RenameBackupOverLive(FALSE) /\ NoFault
     \/ Fault /\ UNCHANGED <<live, backup>>
  /\ Goto("rollbackRow")
  /\ UNCHANGED <<attempt, request, cancelAt, staging, linked, desktop, row, intact, threads, world>>

(* `registry.restore(snapshot)`; a failure of it is dropped.               *)
RollbackRow ==
  /\ pc = "rollbackRow"
  /\ \/ row' = app /\ NoFault
     \/ Fault /\ UNCHANGED row
  /\ Finish("failed")
  /\ UNCHANGED <<attempt, request, cancelAt, live, staging, backup, linked, desktop, intact,
                 threads, world>>

DropBackup ==
  /\ pc = "dropBackup"
  /\ RemoveBackup
  /\ Finish("ok")
  /\ UNCHANGED <<attempt, request, cancelAt, live, staging, linked, desktop, row, intact,
                 threads, world, faults>>

-----------------------------------------------------------------------------
(* The helper thread of apply a: `stream_to_file_reporting`.  It looks at  *)
(* its flag before it opens the file, before each read and at the end of   *)
(* the stream.                                                             *)

(* The request is sent; it may fail, and it is over before the first look  *)
(* at the flag.                                                            *)
HelperRequests(a) ==
  /\ helper[a] = "starting"
  /\ \/ helper' = [helper EXCEPT ![a] = "err"]
     \/ ~helperStop[a] /\ helper' = [helper EXCEPT ![a] = "opening"]
  /\ UNCHANGED <<pc, attempt, request, cancelAt, outcome, disk, helperStop, world, faults>>

HelperOpens(a) ==
  /\ helper[a] = "opening"
  /\ \/ /\ staging' = [staging EXCEPT ![a] = Partial]
        /\ helper' = [helper EXCEPT ![a] = "looping"]
     \/ /\ helper' = [helper EXCEPT ![a] = "err"]
        /\ UNCHANGED staging
  /\ UNCHANGED <<pc, attempt, request, cancelAt, outcome, live, backup, linked, desktop,
                 row, intact, helperStop, world, faults>>

HelperLoops(a) ==
  /\ helper[a] = "looping"
  /\ IF helperStop[a]
       THEN /\ staging' = [staging EXCEPT ![a] = Nothing]
            /\ helper' = [helper EXCEPT ![a] = "err"]
       ELSE /\ helper' = [helper EXCEPT ![a] = "reading"]
            /\ UNCHANGED staging
  /\ UNCHANGED <<pc, attempt, request, cancelAt, outcome, live, backup, linked, desktop,
                 row, intact, helperStop, world, faults>>

(* A read returns: more bytes, an error or too many bytes, or the end.     *)
(* Writing goes to the open file: once the name is removed it has no       *)
(* effect on the directory.                                                *)
HelperReads(a) ==
  /\ helper[a] = "reading"
  /\ \/ /\ helper' = [helper EXCEPT ![a] = "looping"]
        /\ UNCHANGED staging
     \/ /\ helper' = [helper EXCEPT ![a] = "err"]
        /\ staging' = [staging EXCEPT ![a] = Nothing]
     \/ /\ ~helperStop[a]
        /\ helper' = [helper EXCEPT ![a] = "ok"]
        /\ \E c \in Content : staging' = [staging EXCEPT ![a] = c]
  /\ UNCHANGED <<pc, attempt, request, cancelAt, outcome, live, backup, linked, desktop,
                 row, intact, helperStop, world, faults>>

-----------------------------------------------------------------------------
(* The surroundings.                                                       *)

RequestCancel ==
  /\ pc # "idle" /\ ~Cancelled
  /\ cancelAt' = pc
  /\ UNCHANGED <<pc, attempt, request, outcome, disk, threads, world, faults>>

ToggleApp ==
  /\ toggles < MaxToggles
  /\ toggles' = toggles + 1
  /\ running' = ~running
  /\ UNCHANGED <<pc, attempt, request, cancelAt, outcome, disk, threads, crashes, faults>>

(* The process dies and is started again: no code repairs what it left.    *)
Crash ==
  /\ crashes < MaxCrashes
  /\ pc # "idle"
  /\ crashes' = crashes + 1
  /\ Finish("crashed")
  /\ helper' = [a \in Attempt |-> IF helper[a] = "none" THEN "none" ELSE "err"]
  /\ UNCHANGED <<attempt, request, cancelAt, disk, helperStop, running, toggles, faults>>

(* What the caller does without waiting for the network.                   *)
CallerStep ==
  \/ CheckCancelled \/ Probe \/ SpawnHelper \/ DownloadReturns \/ AbandonHelper
  \/ Discard \/ VerifyAccepts \/ VerifyRefuses \/ MakeBackup \/ LastCheck
  \/ Swap \/ SwapFails \/ WriteDesktop \/ Upsert \/ RollbackFile \/ RollbackRow
  \/ DropBackup

HelperStep(a) ==
  HelperRequests(a) \/ HelperOpens(a) \/ HelperLoops(a) \/ HelperReads(a)

Next ==
  \/ Start \/ CheckFails \/ CheckAnswers
  \/ CallerStep
  \/ \E a \in Attempt : HelperStep(a)
  \/ RequestCancel \/ ToggleApp \/ Crash

Spec == Init /\ [][Next]_vars

(* The operating system schedules the caller.  Nothing is assumed of the   *)
(* network: a check may never answer and a read may never return.          *)
FairSpec == Spec /\ WF_vars(CallerStep)

-----------------------------------------------------------------------------
(* Properties.                                                             *)

(* Every variable has its type: files hold a content, nothing or a partial *)
(* write, and the managed path never holds a partial write                 *)
(* (`rename_over` moves a finished file into place).                       *)
TypeOK ==
  /\ pc \in PC
  /\ attempt \in Attempt \cup {0}
  /\ force \in BOOLEAN
  /\ app \in Row /\ row \in Row
  /\ checked \in Checked
  /\ stagedHash \in Content \cup {Nothing}
  /\ cancelAt \in PC \cup {"never"}
  /\ outcome \in [Attempt -> Over \cup {"none", "running"}]
  /\ live \in Content \cup {Nothing}
  /\ replaced \in Content \cup {Nothing}
  /\ staging \in [Attempt -> File]
  /\ backup \in [Attempt -> File]
  /\ intact \in BOOLEAN
  /\ linked \in BOOLEAN
  /\ desktop \in Version \cup {Nothing}
  /\ helper \in [Attempt -> Helper]
  /\ helperStop \in [Attempt -> BOOLEAN]
  /\ running \in BOOLEAN
  /\ faults \in Nat /\ crashes \in Nat /\ toggles \in Nat

(* What is on disk in full, at the managed path or as rollback material.   *)
Held == ({live} \cup {backup[a] : a \in Attempt}) \cap Content

Ended(o) == attempt \in Attempt /\ pc = "idle" /\ outcome[attempt] \in o

(* Whatever fails and wherever the process dies, a registered file is      *)
(* never given up: it stays on disk, at the managed path or as a rollback  *)
(* copy, until the registry names another file that is on disk             *)
(* (`apply_with_progress` drops the copy only after `upsert`; README:      *)
(* "Rollback material is kept until success").                             *)
Store == INSTANCE RecoverableStore WITH committed <- row.sha, held <- Held

RollbackMaterialIsKept == Store!Spec

(* The managed path only ever changes to a file that passed every check of *)
(* this apply, or back to this apply's rollback copy; a download that was  *)
(* abandoned, or that another file replaced, never gets there.             *)
OnlyVerifiedOrRestored ==
  [][live' # live =>
       \/ /\ pc = "swap"
          /\ Acceptable(live')
          /\ DigestAccepts(live', checked.digest)
       \/ pc = "rollbackFile" /\ live' = replaced]_vars

(* A cancel that arrives before the last check, however it interleaves     *)
(* with the download thread and the rollback copy, installs nothing and    *)
(* does not end as a success ("leaves the installed file as it was").      *)
EarlyCancelInstallsNothing ==
  cancelAt \in BeforeSwap =>
    /\ pc \notin AfterSwap \cup {"swap"}
    /\ ~Ended({"ok"})

(* With at most one failing call, an apply that did not succeed leaves the *)
(* managed file and the row as it found them (README: "applied atomically  *)
(* with rollback").  It takes a file to roll back to: when the managed     *)
(* file was missing, a failed apply leaves the new one in its place.       *)
FailedApplyRestores ==
  (Ended({"failed", "cancelled"}) /\ faults <= 1 /\ replaced # Nothing) =>
    live = replaced /\ row = app

(* A successful apply leaves the file, the registry and the desktop entry  *)
(* in line, also when it follows a crash or a failed rollback that had     *)
(* left them apart.  With a digest the recorded version is that of the     *)
(* file; without one the server may have changed the file after the check. *)
SuccessAligns ==
  Ended({"ok"}) =>
    /\ live = row.sha
    /\ desktop \in {Nothing, row.ver}
    /\ ExpectedHash(checked.digest) # Nothing => row.ver = VersionOf[live]

(* The registry never moves to a version that does not supersede the one   *)
(* it has (README: "an older release is never offered").                   *)
NeverDowngrades ==
  [][row'.ver # row.ver => <<row'.ver, row.ver>> \in Supersedes]_vars

(* Once an apply and its download thread are both over, nothing is left at *)
(* its staging path, whichever of the two saw the cancel first             *)
(* (`stream_to_file_reporting`: "a cancelled stream creates nothing, and   *)
(* removes what it wrote").  A crash may leave it.                         *)
NoStagingLeft ==
  \A a \in Attempt :
    ( /\ outcome[a] \in Over /\ crashes = 0
      /\ helper[a] \in {"none", "ok", "err"} ) => staging[a] = Nothing

(* A cancel ends the apply without waiting for the network: a check that   *)
(* never answers or a read that never returns does not hold it up.         *)
CancelEnds == (Cancelled /\ pc \in BeforeSwap) ~> (pc = "idle")

=============================================================================
