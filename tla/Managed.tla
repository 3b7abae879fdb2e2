------------------------------- MODULE Managed -------------------------------
(***************************************************************************)
(* What integrations and removals share: the managed folder, the desktop   *)
(* entries and icons, the registry, and one record per process or worker   *)
(* thread.  Every operation opens the registry afresh and keeps what it    *)
(* read (`controller()` of the bridge, a command of the CLI), so two of    *)
(* them work on copies of their own; nothing locks the folder or the       *)
(* registry between their steps.                                           *)
(*                                                                         *)
(* All sources have one file name, so a fresh install wants path 0, and    *)
(* keep-both gives it the first free path after it.  Sources lie outside   *)
(* the managed folder.  A desktop entry and an icon are named after the    *)
(* uuid of their app; what they hold is the AppImage they were made from.  *)
(***************************************************************************)
EXTENDS Naturals, FiniteSets

CONSTANTS
  Proc,        \* processes and worker threads
  Uuid,        \* app ids (bounds the number of fresh installs)
  Path,        \* 0, the wanted name, and its numbered siblings
  Content,     \* AppImages, each with a source file of its own
  HasIcon,     \* those with an icon the inspector can extract
  Old,         \* the uuid of the app that is installed at first
  Installed,   \* its AppImage
  MaxOps,      \* bound on operations started
  MaxFaults,   \* bound on failing system calls
  MaxCrashes,  \* bound on crashes
  Nothing      \* no file, no row

ASSUME ManagedAssumption ==
  /\ 0 \in Path /\ Path \subseteq Nat
  /\ HasIcon \subseteq Content
  /\ Old \in Uuid /\ Installed \in Content
  /\ Nothing \notin Content
  /\ {MaxOps, MaxFaults, MaxCrashes} \subseteq Nat

VARIABLES
  file,    \* path -> the AppImage at it
  entry,   \* uuid -> the AppImage its desktop entry was made from
  icon,    \* uuid -> the AppImage its icon was made from
  db,      \* uuid -> its row in the registry's database
  stage,   \* process -> its .gosh-stage- file
  backup,  \* process -> its backups of a file, a desktop entry and an icon
  left,    \* what .gosh- files of operations that are over hold in the folder
  source,  \* sources that are still where the user has them
  proc,    \* process -> its operation
  used,    \* uuids given out
  intact,  \* history: uuids whose registered file nobody asked to remove
  ops, faults, crashes

artifacts == <<entry, icon>>
bounds    == <<ops, crashes>>
vars      == <<file, artifacts, db, stage, backup, left, source, proc, used, intact, bounds, faults>>

Image    == Content \cup {Nothing}
Row      == [path : Path, sha : Image, desktop : BOOLEAN, icon : BOOLEAN]
Registry == [Uuid -> Row \cup {Nothing}]
ASSUME NothingIsNoRow == Nothing \notin Row
Policy   == {"unspecified", "keepBoth", "replace"}
Step     == {"idle", "gate", "stage", "entry", "icon", "backups", "commit", "upsert",
             "undoFile", "undoEntry", "undoIcon", "undoRows", "undoTemps",
             "dropBackups", "tail",
             "unlink", "dropEntry", "dropIcon", "dropRow"}
Outcome  == {"none", "ok", "failed", "partial", "crashed"}

Operation ==
  [at : Step, outcome : Outcome, kind : {"integrate", "remove"},
   mem : Registry,          \* `registry.apps` of this controller
   from : Content,          \* the source of an integration
   policy : Policy, move : BOOLEAN, permanent : BOOLEAN,
   id : Uuid, dest : Path,
   hadEntry : BOOLEAN, hadIcon : BOOLEAN,  \* desktop_existed, icon_existed
   backed : BOOLEAN,        \* backup_appimage is some
   placed : BOOLEAN,        \* commit_ok
   cleaned : BOOLEAN]       \* artifacts_ok

(* An integrated app, with or without an icon, or an adopted one, whose    *)
(* row has neither a hash nor artifacts; its file may have been deleted.   *)
Init ==
  /\ \E adopted, present \in BOOLEAN :
       LET own == [path |-> 0, sha |-> IF adopted THEN Nothing ELSE Installed,
                   desktop |-> ~adopted, icon |-> ~adopted /\ Installed \in HasIcon]
       IN  /\ db = [u \in Uuid |-> IF u = Old THEN own ELSE Nothing]
           /\ entry = [u \in Uuid |-> IF u = Old /\ own.desktop THEN Installed ELSE Nothing]
           /\ icon = [u \in Uuid |-> IF u = Old /\ own.icon THEN Installed ELSE Nothing]
           /\ file = [q \in Path |-> IF q = 0 /\ present THEN Installed ELSE Nothing]
           /\ intact = IF present /\ ~adopted THEN {Old} ELSE {}
  /\ stage = [p \in Proc |-> Nothing]
  /\ backup = [p \in Proc |-> [app |-> Nothing, entry |-> Nothing, icon |-> Nothing]]
  /\ left = {}
  /\ source = Content
  /\ proc = [p \in Proc |->
       [at |-> "idle", outcome |-> "none", kind |-> "integrate", mem |-> db,
        from |-> Installed, policy |-> "unspecified", move |-> FALSE, permanent |-> FALSE,
        id |-> Old, dest |-> 0, hadEntry |-> FALSE, hadIcon |-> FALSE, backed |-> FALSE,
        placed |-> FALSE, cleaned |-> TRUE]]
  /\ used = {Old}
  /\ ops = 0 /\ faults = 0 /\ crashes = 0

-----------------------------------------------------------------------------
At(p, step)  == proc[p].at = step
Goto(p, step) == proc' = [proc EXCEPT ![p].at = step]
Finish(p, o) == proc' = [proc EXCEPT ![p].at = "idle", ![p].outcome = o]
Named(q)     == {u \in Uuid : db[u] # Nothing /\ db[u].path = q}   \* rows of one file
Fault        == faults < MaxFaults /\ faults' = faults + 1
NoFault      == UNCHANGED faults

(* A new controller: the registry as it is now is read into memory.        *)
Open(p, op) ==
  /\ At(p, "idle") /\ ops < MaxOps
  /\ ops' = ops + 1
  /\ proc' = [proc EXCEPT ![p] =
       [op EXCEPT !.mem = db, !.outcome = "none", !.hadEntry = FALSE, !.hadIcon = FALSE,
                  !.backed = FALSE, !.placed = FALSE, !.cleaned = TRUE]]
  /\ UNCHANGED <<file, artifacts, db, stage, backup, left, source, used, intact, faults, crashes>>
=============================================================================
