# Verification of the Gosh AppImage Manager

TLA+ models of the Gosh AppImage Manager, the TLC runs that check them, and
TLAPS proofs about them. The program installs AppImages into a folder it
manages, keeps a registry of them, writes their desktop entries and icons,
updates them over the network, and removes them. A core in Rust (`src/src`)
does the work; a bridge (`src/bridge`) offers it to a Flutter front end
(`src/flutter`); a command line uses the core directly.

What makes it hard is that almost nothing is atomic. An install, an update or a
removal is a dozen file-system and database calls with an undo for each. Every
bridge call builds a controller of its own, which reads the registry and the
settings when it is built, and no lock is held between calls. A cancelled
download leaves a thread behind that still writes; a stopped child leaves
helpers that hold its pipes. A process may die anywhere.

## Inventory

| Part | State it keeps | Operations | What must hold | Module |
|---|---|---|---|---|
| Update apply (`updates_service.rs`, `cancel.rs`, `network.rs`) | managed file, `.gosh-upd-` and `.gosh-upd-bak-` files, entry, row | check, probe, download on a thread, verify, back up, swap, rewrite entry, upsert, roll back | only verified files are installed; file, row and entry agree; a failure or an early cancel changes nothing | `UpdateApply` |
| Update scan and batch (`updates_service.rs`, `updates_sources.rs`, bridge `updates.rs`, `cli.rs`) | offers, failures, configured sources | scan, apply all, set and unset a source | "up to date" is said only when it is so; a cancel is told; the asset is the machine's | `Updates`, `Sources` |
| Versions (`versions.rs`) | none | normalize, order, is_update | an update never goes back | `Versions` |
| Operations (`tasks.rs`, bridge `common.rs`) | task history, registered operations, cancel flags | begin, progress, finish, cancel, mark, clear | a running task stays listed; a cancel is honoured and ends the operation | `Operations` |
| Integration (`integration.rs`, `desktop.rs`, `safe_fs.rs`) | managed folder, staging and backups, entries, icons, rows | gate, stage, install entry and icon, back up, commit, register, roll back, trash the source | success is complete; a failure removes what it made and restores what it replaced | `Integration` |
| Removal (`removal.rs`) | the same | trash or delete, drop artifacts, drop row | artifacts only after the file; success leaves nothing behind | `Removal` |
| Registry, controller, library (`registry.rs`, `controller.rs`, `library.rs`, bridge `library.rs`) | database rows, a copy per session, entries, icons | open and import, edit, set source, refresh, heal, adopt, remove | no edit is lost to background work; entry, icon and row agree; one row per file | `Sessions` |
| Settings and login check (`settings.rs`, bridge `settings.rs`, `controller.rs`, `cli.rs`) | settings file, its backups, login entry | load, save, set aside, add, remove, reconcile, gate | an unusable file is never lost; no check while checks are off | `Preferences` |
| Inspection (`inspector.rs`, bridge `inspect.rs`) | work directories | gate, hash, extract, confirmed fallback, stage the icon, sweep | the file runs only when confirmed; a cancel gives no result; nothing is left behind that could be removed | `Inspection` |
| Processes (`process.rs`, `proctable.rs`, `launch.rs`) | children, pipes, reader and reaper threads | run, time out, kill, join, launch, probe | every run returns; nothing stopped lives on; "not running" is true of what a query can list | `ProcessRun`, `Launching` |
| Network (`network.rs`, `url_guard.rs`, `cancel.rs`) | client cache, FTP dialogue | get, size, download, redirects | sizes are true; replies belong to their commands; every call ends, or its caller is let go | `Network` |
| GUI state (`app_model.dart`, `drop_queue.rs`) | lane, busy state, cancelled id, Inspect page and its queue, question | operations, cancels, opening and dropping files | the status bar names something alive; nothing stopped is offered | `FrontEnd` |

The parts meet in the managed folder, the registry database, the settings file,
the cancel flag of an operation, and the copies that each controller holds.
`PROJECT.json` lists under "hazards" what is hardest to test, each at its line,
with the property that watches it or the reason there is none.

## Modules

**`UpdateApply`** models `apply_with_progress`. `pc` is the place in that
function; each action is the code between two points at which another thread,
a failing call or a crash can make a difference. `SpawnHelper`,
`DownloadReturns`, `AbandonHelper` and `Discard` are the caller's half of
`CancellableNetwork::download_to_file`, and the four `Helper...` actions the
thread's half, `stream_to_file_reporting`. `linked` records that the backup is a
hard link to the live file, for which `rename(backup, live)` does nothing. A
check advertises any content with a right, missing or unreadable digest, and a
download delivers any content. `replaced` and `intact` are history variables.
**`RecoverableStore`** is the abstract promise: a file that was on disk when the
registry came to name it is not given up before the registry names another that
is. `UpdateApply` implements it with `committed <- row.sha` and `held <-` what
the managed path and the rollback copies hold (`RollbackMaterialIsKept`).
**`UpdateApply_proofs`** holds the theorems.

**`Updates`** models a run over all apps: the scan with a check per app, the
batch that applies the offers, and the three commands of the command line that
do the same, with their exit codes. An app without a source is passed over
(`ScanPasses`). It EXTENDS **`Sources`** (the effective source of an app, what
of the information in a file becomes a configuration, the pattern matcher and
the choice of an asset, as the places of files in a release), which EXTENDS
**`Versions`** (`normalize`, `same`, `order`, `is_update`). Names and patterns
are sequences of the parts a pattern can tell apart (`Word`); texts are ranks.
What the user types for a source may be nothing, and then comes from the file
(`FillConfig`), whose information has named fields for three sources only
(`ConfigFromEmbedded`). A file of a release has the host of its URL and, for
GitLab, that of a direct link. An app may not know its architecture (`Built`);
`PickForArchitecture` and `Suits` say what it takes then. `CheckPicksTheFile`
and `UpdatesGoForward` compare these algorithms with definitions of what they
mean (`MeansMatch`, `Newer`) in every state of the run. A place of the matcher's
walk (`GlobPlaces`) is one in the pattern and one in the text, with the last
star and the text it starts at; `GlobTurn` is one turn of its loop.

**`Operations`** models `TaskQueue`, `OperationGuard` and `cancel_operation`:
worker threads and cancelling threads over two tables with a mutex each.
`Complete` keeps the mutex of the operations while `Settle` takes the queue's,
as `complete` does; `Cancel` releases it before `Mark`.

**`Managed`** declares what integrations and removals share: files by path,
entries and icons by uuid, the database, and one record per process with its
copy of the registry. **`Integration`** has one action per step of
`integrate_inner` and its rollback, **`Removal`** of `RemovalService::remove`,
and **`ManagedSystem`** composes both for any number of processes, with crashes.
An AppImage is a model value; an entry or an icon is the AppImage it was made
from.

**`Sessions`** models the calls of the window and the command line on one
registry: a session loads the table into its copy (`mine`), works, and writes
one row, and `heal_icon` opens a fresh copy after its slow read (`Reopen`).
`refresh_metadata` and `heal_icon` share the icon and entry steps. `writes`
counts the writes to a row and `base` holds that count as a session loaded the
table; a write over a row that changed since makes the app `excused`, and a call
that dies or fails between entry and row makes it `broken`: these two history
variables say exactly where the code gives no guarantee.

**`Preferences`** models the settings file, the names a corrupt one is moved to,
and the login entry, for calls of several processes. `taken` keeps every file
that a save could not use and yet took from its name; `LinkAside`,
`UnlinkOriginal`, `LookForName` and `RenameAside` are `move_aside` with and
without hard links; `Reconcile` and `Gate` are the startup's and the login
check's reading of the entry and the setting.

**`Inspection`** models an inspection as a walk over `pc` with its directories
under the shared temporary directory, each with the two times the sweep looks
at. No removal is sure and the code does not ask whether one worked (`Leave`);
`behind` records what was left by one that failed, or dropped from the result.
**`ProcessRun`** models `run` of the process runner: child, helpers in and out
of its group, reader thread, deadline, kill, bounded join, and the reaper of a
detached child. **`Launching`** EXTENDS it with who uses it: tools, launches and
the host queries of the process table. A path is what the queries can tell of it
(`Paths`): whether it holds the fixed pattern of the batch, means itself as a
pattern, and is the canonical one. `Says` is what `pgrep` may answer,
`HostAnswered` what the code takes for an answer.

**`Network`** models the calls of `HttpNetwork` on helper threads that outlive a
cancelled caller: the client cache with the lock that is held while a name
resolves, the redirect chain, HEAD and the ranged GET after it, bodies up to a
bound, and the FTP dialogue with replies of several lines and with lines that
never end (`FtpDribbles`).

**`FrontEnd`** models the window: an operation waits in the lane, runs, has
ended, has left the lane, and is seen by its caller once the task list was read
again. Between the last two anything may happen, and answers may be seen out of
order. The Inspect page has one path, which is also its text field (`TypePath`),
one result and a queue. A row of the task list is shown while the core lists the
task, and a little longer.

Each `MC...` module gives the constants their values. Definitions marked
"Mutant" are variants of the definition after them with a plausible bug; each
property is violated when its mutant takes that definition's place.

## Runs

| Run | Properties | What it shows |
|---|---|---|
| `UpdateApply.cfg` | `EarlyCancelInstallsNothing` `FailedApplyRestores` `SuccessAligns` `NoStagingLeft` `RollbackMaterialIsKept` `OnlyVerifiedOrRestored` `CancelEnds` | safety of the pipeline over two applies, a failing call, a crash; a cancel ends an update although the network never answers |
| `Operations.cfg` | `RunningIsListed` `CancelIsHonoured` `CancelSettles` | tasks and operations stay consistent; an accepted cancel ends its operation, although the two tables have a mutex each |
| `Managed.cfg` | `FailedIntegrationKeepsFiles` `RemovedIsGone` `RegisteredIsHeld` `MovedIsInstalled` | three integrations and removals in a row, a failing call, a crash |
| `ManagedTwo.cfg` | `FreshInstallsKeepOff` | two processes at once |
| `ManagedEntry.cfg` | `FailedIntegrationRestoresEntry` (violated) | a failed replace leaves the new desktop entry |
| `Launching.cfg` | `StoppedRunsAreGone` `NotRunningIsTrue` `RunReturns` | children, helpers, timeouts, launches and the two host queries over every kind of path |
| `Inspection.cfg` | `FileRunsOnlyConfirmed` `CancelledIsNoResult` `OnlyStagingIsLeft` `LiveDirsAreKept` | two inspections, a changed setting, a cancel, a crash, a failing removal, a sweep |
| `Sessions.cfg` | `TableIsWhatWasAsked` `EntryFollowsRow` `OneRowPerFile` `NamedIconIsThere` | overlapping calls with two failures and one change from outside |
| `Preferences.cfg` | `UnusableFilesAreKept` `LoginEntryIsWanted` | two calls at once out of three, on any settings file, with two failed steps or deaths |
| `Updates.cfg` | `OkMeansUpToDate` `CancelledIsReported` `CheckPicksTheFile` `UpdatesGoForward` | one run over two apps with every small source, file and release, and one change beside it |
| `Network.cfg` | `RequestsStayGuarded` `SizeIsTrue` `RepliesArePaired` `ClientFitsTheCall` `CallsEnd` | two calls on one cache, over HTTPS and FTP; a call ends but for a resolver or an FTP line that does not |
| `FrontEnd.cfg` | `BusyIsLive` `OfferIsWhole` `NoteGoes` | three operations, drops, typed paths, two clicks on Cancel, late answers |

Every module that keeps state declares its types in `TypeOK` (`ProcessTypeOK`
and `LaunchTypeOK` for processes, `NetworkTypeOK`). All of them are proved.

The violated run checks a sentence of the program's own README, quoted in
`PROJECT.json` ("findings"): "A failed integration removes what it created and
restores what it replaced." In a replace the entry is overwritten before it is
backed up, so the rollback puts the new one back.

### Bounds, and why they are enough

*Updates.* The installed build, a newer one, a rebuild of the newer one under
the same version, and one for another architecture. Two applies show a download
thread of the first beside the second, and a success after a failure. One fault
and one crash: a rollback that fails as well and more than one crash are left to
the proofs, which hold for any number of both.

*Batch.* An app whose source comes from its file or from the user, and one that
has a plain file to follow; five releases with every relation to what is
installed (newer, older, a pre-release, a rebuild, a label, no version), assets
for this machine, for another and for none in particular, rows with and without
an architecture, a configuration that was typed, left empty or taken from the
file, and patterns with both wildcards. `Largest = 2` puts a part past the
largest number in reach. `PatternLimit` and `NameLimit` stand for the 256 and
512 bytes of `limits.rs`.

*Operations.* Eviction needs a history at its limit with tasks in every state:
one place, two at once, three in all. Progress has two values.

*Managed folder.* One installed app (integrated, adopted, or with its file
missing), an AppImage with an icon and one without, both named alike, three
paths and two new ids. Three operations give an install, a replace and a removal
in any order. Two processes need two operations. `FailedIntegrationKeepsFiles`
speaks of one failing call and no crash, `RegisteredIsHeld` of any number of
crashes or of one failing call, but not of both: a crash may leave the only copy
of a registered file in a backup, and a second failing call may be the restore
itself, and then the rollback removes every `.gosh-` file (`integration.rs:455`,
`safe_fs.rs:292`). That is a hazard of the code, listed as such.

*Sessions.* Two calls of all six kinds, on the app imported from version 2
under a symbolic link and on one adoption; two failures or deaths, one file or
entry replaced by somebody else. *Preferences.* Three calls, two at once; the
file may be good, corrupt, missing or unreadable, and hold unknown keys. The
second of two backup names (`MaxNames`; the code tries 1000) is taken in a third
call, and a second failure meets the file where the first had left it.

*Inspection.* Two processes with one inspection each: the interference is
between one that sweeps and one that works, and an inspection keeps nothing for
the next of its process but the directories, which the other's sweep meets. One
step in which removals fail (`MaxStuck`): it may leave several directories, and
a removal that fails changes nothing for the next. *Processes.* One retry of a
busy executable, output one past its bound, all eight kinds of path, and two
requests after one another (on NixOS a launch makes two runs of one): the reaper
of a launch runs beside the second, and a probe finds the app that the first
started. *Network.* Two public names and the local network, a file that fits the
bound and one that does not, three URLs in a chain, a cache that is full after
one client, replies of up to two lines.

*Front end.* Three operations are the one that was cancelled, the one seen late
and the one that takes the status bar. Two files tell the one on offer from the
one the page shows.

Where a cfg says `CHECK_DEADLOCK FALSE` the system stops when its bounds are
used up, or rests when nobody asks for anything; `CancelEnds`,
`CancelSettles`, `RunReturns` and `CallsEnd` say what must go on.

### Fairness

`UpdateApply` (`FairSpec`): the caller goes on whenever it can without the
network; an answer of a check need not come, and nothing is assumed of the
download thread. Every wait of the caller polls the cancel flag (`CANCEL_POLL`).
`Operations`: the threads that hold or wait for a mutex go on, a cancelling
thread reaches its mark, and an operation whose flag is set completes, since
every operation polls it. That one is strong fairness, because other threads
take the mutex in between. Nothing is assumed of operations nobody cancels.
`Launching`: the runner, the reader and the reaper go on, and time passes;
nothing is assumed of a child or its helpers. `Network`: a caller that polls
goes on, and so does a helper whose step is bounded: by the timeout of the whole
request over HTTPS or of a connection, or by the size a file may have. Two waits
have no such bound. A name may never resolve; and a line of an FTP reply is read
by `read_line`, with a timeout for each read alone, so a server that sends a
byte now and then holds its helper. `FtpDribbles` is an action without fairness
and without a way on, and `CallsEnd` names both exceptions. Even then a caller
that cancels returns, which is its second part. `FrontEnd` and the modules of
the files are checked for safety only.

## Proofs

A run checks a small instance; the theorems here hold for every value of the
constants: any sets of apps, files, contents, sessions and processes, and any
number of operations, faults, crashes and changes from outside, since the bounds
of the runs are constants too. They rest on the named assumptions of the modules
(`...Assumption`, which TLC evaluates in the runs) and, for four theorems about
the managed folder, on `OneProcess`. Every `..._proofs` module has the same
layout: the inductive invariant in named parts, lemmas about the operators, one
lemma or step per action, and the theorems at the end. Each invariant was checked
by TLC on the instance of the run before it was proved.

| Module | Theorem | Statement |
|---|---|---|
| `UpdateApply_proofs` | `TypeCorrect` | `Spec => []TypeOK` |
| | `Recoverable` | `Spec => RollbackMaterialIsKept`, the refinement of `RecoverableStore` |
| | `VerifiedOnly` | `Spec => OnlyVerifiedOrRestored` |
| | `EarlyCancel` | `Spec => []EarlyCancelInstallsNothing` |
| | `FailureRestores` | `Spec => []FailedApplyRestores` |
| | `SuccessIsAligned` | `Spec => []SuccessAligns` |
| | `NoDowngrade` | `Spec => NeverDowngrades` |
| | `NothingStaysStaged` | `Spec => []NoStagingLeft` |
| `Updates_proofs` | `TypeCorrect` | `Spec => []TypeOK` |
| | `OkUpToDate` | `Spec => []OkMeansUpToDate` |
| | `CancelReported` | `Spec => []CancelledIsReported` |
| | `GoesForward` | `Spec => UpdatesGoForward` |
| | `CheckPicks` | `Spec => []CheckPicksTheFile` |
| `Runtime_proofs` | `TypeCorrect` | `Spec => []TypeOK`, of `Operations` |
| | `RunningStaysListed` | `Spec => []RunningIsListed` |
| | `CancelHonoured` | `Spec => []CancelIsHonoured` |
| | `LaunchTypeCorrect` | `LaunchSpec => []LaunchTypeOK` |
| | `StoppedRunsGone` | `LaunchSpec => []StoppedRunsAreGone` |
| | `NotRunningTrue` | `LaunchSpec => []NotRunningIsTrue` |
| | `NetworkTypeCorrect` | `NetworkSpec => []NetworkTypeOK` |
| | `RequestsGuarded` | `NetworkSpec => []RequestsStayGuarded` |
| | `SizeTrue` | `NetworkSpec => []SizeIsTrue` |
| | `RepliesPaired` | `NetworkSpec => []RepliesArePaired` |
| | `ClientFits` | `NetworkSpec => []ClientFitsTheCall` |
| `ManagedSystem_proofs` | `TypeCorrect` | `Spec => []TypeOK` |
| | `FreshKeepOff` | `Spec => FreshInstallsKeepOff`, for any number of processes |
| | `RegisteredHeld` | `OneProcess`: `Spec => []RegisteredIsHeld` |
| | `FailedKeepsFiles` | `OneProcess`: `Spec => []FailedIntegrationKeepsFiles` |
| | `RemovedGone` | `OneProcess`: `Spec => []RemovedIsGone` |
| | `MovedInstalled` | `OneProcess`: `Spec => MovedIsInstalled` |
| `Sessions_proofs` | `TypeCorrect` | `Spec => []TypeOK` |
| | `TableAsAsked` | `Spec => []TableIsWhatWasAsked` |
| | `OneRow` | `Spec => []OneRowPerFile` |
| | `EntryFollows` | `Spec => []EntryFollowsRow` |
| | `IconThere` | `Spec => []NamedIconIsThere` |
| `Preferences_proofs` | `TypeCorrect` | `Spec => []TypeOK` |
| | `UnusableFilesKept` | `Spec => []UnusableFilesAreKept` |
| | `LoginEntryWanted` | `Spec => []LoginEntryIsWanted` |
| `Inspection_proofs` | `TypeCorrect` | `Spec => []TypeOK` |
| | `RunsOnlyConfirmed` | `Spec => []FileRunsOnlyConfirmed` |
| | `CancelGivesNoResult` | `Spec => []CancelledIsNoResult` |
| | `LeavesOnlyStaging` | `Spec => []OnlyStagingIsLeft` |
| | `SweepKeepsLiveDirs` | `Spec => []LiveDirsAreKept` |
| `FrontEnd_proofs` | `TypeCorrect` | `Spec => []TypeOK` |
| | `BusyLive` | `Spec => []BusyIsLive` |
| | `OfferWhole` | `Spec => []OfferIsWhole` |
| | `NoteGoesAway` | `Spec => []NoteGoes` |

Hardly any of the properties is inductive. What each invariant adds, and why:

*Update apply.* `IInv` adds what the caller may rely on at each place.
`Numbered`: an apply that has not begun has neither a thread nor a rollback
copy. `RowIsCurrent`: the row is the one the apply read until the apply itself
writes it. `StagedIsWhole`: while the caller verifies, backs up or swaps, its
download thread has ended and its staging file is whole, and from the backup on
it has the recorded hash and has passed every check; this is what keeps an
abandoned thread of an earlier apply from mattering. `SwapIsOrdered`: the managed
path holds what it held at the start until the swap and the verified file after
it, and the rollback copy is complete in between. `RowIsHeld`: a registered file
that was not lost is on disk, and is a rollback copy while the managed path holds
another one. `OutcomesStep` then carries what an ended apply promises and
`StagingStep` what its download thread leaves. `NeverDowngrades` is proved, and no
run repeats it.

*Batch.* `Accounted`: an app the run has not settled is still on its list, among
its offers or noted as failed, and every other app is at what its source
publishes, unless it moved. `OfferStands`: what is about to be installed was
offered by the source as it still is. `EarlyIsHeard`: an early cancel finds its
flag still up and an app still to be seen. The lemma that closes the loop is
`UpdatedIsCurrent`: an app that was just updated is not offered the same again,
by any of the four kinds of source. `GreaterIsNewer` shows that the comparison
part by part decides what `Newer` says, for versions of any length, and
`CheckIsChecked` that every source answers with a file of its release.

*The pattern matcher.* `CheckPicks` needs no more of the state than its types;
the work is in what `glob_match` computes, for a pattern and a name of any
length. `GlobLeft` counts down with every turn of the loop (`TurnGoesOn`), so
that the walk is a function (`LoopHasAFunction`, `WalkUnfolds`). `FitsFrom(i,
j)` says that the pattern from place `i` means the text from place `j`;
`FitsLetter`, `FitsStar`, `FitsEnd` and `FitsNothing` are its rules. The code
remembers one star only: what it gives up of earlier stars is no loss because of
`NothingLost`, what can still be reached after the last star can also be reached
from a place ahead of the walk. `TurnKeepsTheMatch` shows that a turn keeps
this, and whether there is a match (this is where a star in the text would break
it). `WalkMeans` follows by a least counterexample, with `LeastNatural` in the
place of an induction.

*Operations.* The registry has exactly the operations at work, under tasks of
their own (`RegistryIsOfWorkers`, `TasksAreOwn`), and a flag belongs to a cancel
that found its operation there (`FlagIsOfACancel`). `PushedKeepsRunning` and its
neighbours say what eviction and clearing keep.

*Processes.* `RunnerKnows` lists what the runner may rely on at each of its
places: what is read of a child that is not there, that only a detached one is
left to a reaper, and that a result says "timed out" only when child and session
were stopped. `AnswerIsOfSeen`: an answer of `pgrep` is of the table it read,
and only a sandboxed manager asks it. `NotRunningTrue` then follows case by
case, from what each query can find of a path.

*Network.* `Sound` is about one call by itself: it is guarded from its first
request on (`Guarded`), has no result before it ends, leaves nothing of a reply
when it sends the next command, and holds no local address without the opt-in. The
last needs `ClientFitsItsKey`, about the cache that all calls share: a client is
pinned as the key says under which others will find it.

*Managed folder.* `SharedInv` (types, rows and operations have uuids that were
given out, only a replace has a backup) is about each record by itself and holds
for any number of processes; `FreshKeepOff` follows from it. The other four
properties relate the folder to the registry, and there another process may
change the file or the row of an operation between any two of its steps: nothing
locks them, and with two processes TLC finds all four violated. They are
therefore proved as the run checks them, for one process at a time (`OneProcess
== \E p : Proc = {p}`), any number of operations one after another, and any
AppImages, paths, faults and crashes. `Kept` says where a registered file is at
each point (in place, in the backup, or in what a crash left) and `Phase` what
an operation has done so far and its rollback still has to undo.

*Sessions.* `Agreed` ties the table to what was asked. `Own` says that a copy is
what the table has, row by row, unless the row was written since it was loaded,
and that the row a call works on is its copy's but for what the call sets.
`EntryAwaitsRow` and `IconAwaitsRow`: between the write of an entry or an icon and
that of its row, what the session will write fits what it has put there;
`EntryFits` and `IconFits` turn that into the properties once all are quiet.

*Settings.* `MovesSafely`: a file a call found corrupt is under its backup name
before the original goes, and the original is gone before the call writes.
`NamesDiffer`: two calls that move at once do not count on one name. The login
entry needs what a call that runs alone knows of the file (`LonelyKnows`,
`LonelyKeepsChecks`, `AloneUnlessSuspect`).

*Inspection.* `InUseIsRecent`: a directory in use has a recent time of change,
whatever time the archive gave its files; this is what keeps it from a sweep.
`Sound` lists for each place of an inspection what its gate, its facts and its
directories are: one it made is at work, named by its facts, gone, or in
`behind`. *Front end.* `LaneInOrder`, `BusyIsNewest`, `CutIsRefused`,
`OfferWasSeen` and `NoteIsOfLane`, in words: the lane is served in order, the
status bar's operation is the newest in it, a cancel in time was answered by an
error, what is offered was seen whole, and the note is about something in the
lane. (`BusyIsNewest` is what the code does, and more than `BusyIsLive` claims.)

Only model-checked: the liveness properties (`CancelEnds`, `CancelSettles`,
`RunReturns`, `CallsEnd`), which need fairness and `ENABLED`. Every safety
property of the passing runs is a theorem, four of them for one process at a
time.

## Where the code and its documents differ

Besides the violated run, these were met while modelling. The models have the
code's behaviour, and the properties leave room for it where they come near.

- An update whose registry write fails is rolled back, but the desktop entry
  keeps the new version (`updates_service.rs:560`; README.md:35-36).
- An app started during the download is replaced while it runs
  (`updates_service.rs:339`; README.md:319), and one started with arguments is
  not found by the query for one app (`proctable.rs:168`).
- In a sandbox a query of the host that is refused, times out or fails falls back
  to the sandbox's own process table, which is blind, and "cannot tell" becomes
  "not running" (`proctable.rs:199-202`, `208-215`; the comment at
  `proctable.rs:157-159` says the guard must not be weakened by a failed probe). A
  `pgrep` that a signal ended and output past its bound read as exit code 1,
  "nothing matched" (`process.rs:517-525`, `proctable.rs:109`, `179`).
- The batch asks for the fixed pattern `.AppImage`, upper and lower case told apart
  (`proctable.rs:102`): of an app installed as `foo.appimage` (`integration.rs:651`,
  `library.rs:212`) it says "not running" while it runs. The query for one app gives
  the path to `pgrep` as it is (`proctable.rs:169`), and there it is a regular
  expression, although the comment at `proctable.rs:156` calls it literal.
- A task that is cancelling and still runs can be dropped from the history
  (`tasks.rs:212`; the comment at `tasks.rs:207`).
- When the restore of a replaced file fails as well, the rollback removes the
  backup with every other `.gosh-` file: the only copy of a registered file
  (`integration.rs:455`, `safe_fs.rs:292`; README.md:324-325).
- Two rows may come to share a path: keep-both picks a name that is free on disk,
  also when a row whose file is missing has it (`integration.rs:668`).
- The rollback of an integration writes back rows of other processes
  (`integration.rs:453`), and an icon that a replace by an AppImage without one
  left behind outlives its app (`integration.rs:312`; `dialogs.dart:24-25`).
- A reader that is given up takes what it had read with it (`process.rs:426`;
  the comment at `process.rs:511-512`).
- A `*` of a file-name pattern that meets a `*` of the name is taken for a letter
  and not remembered (`updates_sources.rs:660`; the comment at
  `updates_sources.rs:647`): `*-x.img` misses `*m-x.img`. `CheckPicks` shows that
  within its limits these are the only names the matcher may miss.
- A row whose architecture is unknown takes the first file that matches
  (`updates_sources.rs:586`) and installs any architecture the program knows to
  run, of whichever machine (`updates_service.rs:430`, `elf.rs:66`): the comment at
  `updates_service.rs:419` names the case it means to keep out.
- Information of GitLab, Codeberg or Forgejo in a file selects its source
  (`tests/test_update_embedded.rs:72`), but its parts have no names
  (`inspector.rs:1195-1222`), so that it never gives a usable configuration.
- An inspection that is stopped after the fallback discards the fallback's icon;
  the one of the safe extraction, which it replaced (`inspector.rs:195`), stays
  until a sweep (the comment at `inspector.rs:557-559`: "along with any staged
  icon"). Removals that fail are not noticed (`inspector.rs:303`, `322`, `390`;
  `safe_fs.rs:336-342`), and a sweep passes over directories of the fallback
  (`inspector.rs:757`).
- A line of an FTP reply has no bound, and its timeout starts again with every byte
  (`network.rs:677`, `692`; the comment at `network.rs:688`: "a server must not be
  able to hold us here indefinitely").
- While one operation runs and another waits the status bar names the one that
  waits, and its Cancel stops that one (`app_model.dart:519`, `593`; the comments at
  `app_model.dart:167-169` and `513-514` say it names the one in progress). With a
  result on the page "Integrate" takes the path in the text field, which a narrow
  window shows beside it and which may have been changed since
  (`app_model.dart:1028`; `inspect_page.dart:28`).
- A file dropped in the moment between the end of an inspection and the showing
  of its result starts at once (`app_model.dart:538`; the comment at
  `app_model.dart:887`).

## Not modelled

How bytes are parsed or written (ELF, desktop files, JSON, URLs, command-line
arguments): the models take the verdicts. The fallback of `rename_no_replace` on
a file system without hard links in the managed folder. The pages of the window
that show what the core last answered, the lane of the preferences and the
polling of the task list. The user editing the managed folder behind the
program's back, except for the changes the models name. That Linux marks the
executable of an app as deleted once its file was replaced, which the local
process table then does not match. Range checks of single settings. What a lost
update costs: two overlapping calls that write back a whole row, a whole
settings file or a whole table undo each other's edits (`registry.rs:600`,
bridge `settings.rs:72`, `integration.rs:453`); the models have this, the code
promises nothing, and the properties except it by name. Files a crash leaves
under a hidden name stay (`updates_service.rs:354`, `inspector.rs:245`), and no
property counts them. Output, translation, layout, packaging and generated code.

## Plan

The models are done as far as the code has states of its own, and every safety
property of the runs is a theorem. What is left are the parts of the four
one-process theorems of the managed folder that survive a second process, each
with the exact step of the other that breaks the rest.
