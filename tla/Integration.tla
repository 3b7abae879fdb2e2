----------------------------- MODULE Integration -----------------------------
(***************************************************************************)
(* `integrate_inner`: inspect, settle the name, stage and verify, install  *)
(* the desktop entry and the icon, back up what is replaced, commit the    *)
(* file, register it, and on a failed commit undo each of these.           *)
(***************************************************************************)
EXTENDS Managed

Fresh(p)     == proc[p].policy # "replace"
WithIcon(p)  == proc[p].from \in HasIcon
RemoveStage(p) == stage' = [stage EXCEPT ![p] = Nothing]
NewRow(p)    == [path |-> proc[p].dest, sha |-> proc[p].from,
                 desktop |-> TRUE, icon |-> WithIcon(p)]

(* The wanted name is taken by a file or by a row.                         *)
Taken(p) == file[0] # Nothing \/ \E u \in Uuid : proc[p].mem[u] # Nothing /\ proc[p].mem[u].path = 0

(* `choose_keep_both`: the first sibling name no file has.                 *)
KeepBothNames ==
  {q \in Path \ {0} : file[q] = Nothing /\ \A r \in 1..(q - 1) : file[r] # Nothing}

BeginIntegrate(p) ==
  \E c \in source, policy \in Policy, move \in BOOLEAN, u \in Uuid :
    /\ policy # "replace" => u = Old
    /\ Open(p, [proc[p] EXCEPT !.at = "gate", !.kind = "integrate", !.from = c,
                               !.policy = policy, !.move = move, !.id = u])

(* The conflict gate, after an inspection that may refuse the file.        *)
Refuse(p) ==
  /\ At(p, "gate")
  /\ Finish(p, "failed")
  /\ UNCHANGED <<file, artifacts, db, stage, backup, left, source, used, intact, bounds, faults>>

GateReplace(p) ==
  /\ At(p, "gate") /\ ~Fresh(p)
  /\ proc[p].mem[proc[p].id] # Nothing
  /\ proc' = [proc EXCEPT ![p].at = "stage", ![p].dest = proc[p].mem[proc[p].id].path]
  /\ UNCHANGED <<file, artifacts, db, stage, backup, left, source, used, intact, bounds, faults>>

GateFresh(p) ==
  /\ At(p, "gate") /\ Fresh(p)
  /\ \E u \in Uuid \ used, q \in Path :
       /\ IF Taken(p) THEN proc[p].policy = "keepBoth" /\ q \in KeepBothNames ELSE q = 0
       /\ used' = used \cup {u}
       /\ proc' = [proc EXCEPT ![p].at = "stage", ![p].id = u, ![p].dest = q]
  /\ UNCHANGED <<file, artifacts, db, stage, backup, left, source, intact, bounds, faults>>

(* `copy_bounded` and the verification of the copy; a cancel, a source     *)
(* that changed or went away and a failing write all remove the copy.      *)
Stage(p) ==
  /\ At(p, "stage")
  /\ \/ proc[p].from \in source /\ Goto(p, "entry")
        /\ stage' = [stage EXCEPT ![p] = proc[p].from]
     \/ Finish(p, "failed") /\ RemoveStage(p)
  /\ UNCHANGED <<file, artifacts, db, backup, left, source, used, intact, bounds, faults>>

(* `install_files` writes the desktop entry over the one of the replaced   *)
(* app, and then the icon.                                                 *)
InstallEntry(p) ==
  /\ At(p, "entry")
  /\ \/ /\ NoFault
        /\ proc' = [proc EXCEPT ![p].at = "icon",
                                ![p].hadEntry = entry[proc[p].id] # Nothing,
                                ![p].hadIcon = WithIcon(p) /\ icon[proc[p].id] # Nothing]
        /\ entry' = [entry EXCEPT ![proc[p].id] = proc[p].from]
        /\ UNCHANGED stage
     \/ Fault /\ Finish(p, "failed") /\ RemoveStage(p) /\ UNCHANGED entry
  /\ UNCHANGED <<file, icon, db, backup, left, source, used, intact, bounds>>

InstallIcon(p) ==
  /\ At(p, "icon")
  /\ \/ /\ NoFault /\ Goto(p, IF Fresh(p) THEN "commit" ELSE "backups")
        /\ icon' = IF WithIcon(p) THEN [icon EXCEPT ![proc[p].id] = proc[p].from] ELSE icon
        /\ UNCHANGED stage
     \/ WithIcon(p) /\ Fault /\ Finish(p, "failed") /\ RemoveStage(p) /\ UNCHANGED icon
  /\ UNCHANGED <<file, entry, db, backup, left, source, used, intact, bounds>>

(* Mutant: the replaced file itself is not backed up.                      *)
MakeNoFileBackup(p) ==
  /\ At(p, "backups") /\ NoFault /\ Goto(p, "commit")
  /\ backup' = [backup EXCEPT ![p].entry = entry[proc[p].id]]
  /\ UNCHANGED <<file, artifacts, db, stage, left, source, used, intact, bounds>>

(* The backups of a replace: of the file, and of the desktop entry and the *)
(* icon as they are by now.  When one fails those before it are left.      *)
MakeBackups(p) ==
  LET id   == proc[p].id
      app  == file[proc[p].dest]
      desk == entry[id]
      pic  == IF WithIcon(p) THEN icon[id] ELSE Nothing
  IN  /\ At(p, "backups")
      /\ \/ /\ NoFault
            /\ backup' = [backup EXCEPT ![p] = [app |-> app, entry |-> desk, icon |-> pic]]
            /\ proc' = [proc EXCEPT ![p].at = "commit", ![p].backed = (app # Nothing)]
            /\ UNCHANGED <<stage, left>>
         \/ /\ Fault
            /\ left' \in {left, left \cup ({app} \ {Nothing})}
            /\ Finish(p, "failed") /\ RemoveStage(p) /\ UNCHANGED backup
      /\ UNCHANGED <<file, artifacts, db, source, used, intact, bounds>>

(* `rename_over` for a replace; `rename_no_replace`, a hard link and an    *)
(* unlink, for a fresh install.  It fails when another process removed the *)
(* staged file or took the name, and may fail after the link was made.     *)
Commit(p) ==
  LET dest == proc[p].dest
      free == Fresh(p) => file[dest] = Nothing
  IN  /\ At(p, "commit")
      /\ \/ /\ stage[p] # Nothing /\ free /\ NoFault
            /\ file' = [file EXCEPT ![dest] = stage[p]]
            /\ RemoveStage(p)
            /\ proc' = [proc EXCEPT ![p].at = "upsert", ![p].placed = TRUE]
         \/ /\ ~(stage[p] # Nothing /\ free) /\ NoFault
            /\ Goto(p, "undoFile") /\ UNCHANGED <<file, stage>>
         \/ /\ Fault /\ Goto(p, "undoFile") /\ UNCHANGED stage
            /\ \/ UNCHANGED file
               \/ Fresh(p) /\ stage[p] # Nothing /\ free
                  /\ file' = [file EXCEPT ![dest] = stage[p]]
      /\ UNCHANGED <<artifacts, db, backup, left, source, used, intact, bounds>>

(* Mutant: a failing upsert is not noticed.                                *)
RegisterUnchecked(p) ==
  /\ At(p, "upsert") /\ Goto(p, "dropBackups")
  /\ \/ NoFault /\ db' = [db EXCEPT ![proc[p].id] = NewRow(p)]
        /\ intact' = intact \cup {proc[p].id}
     \/ Fault /\ UNCHANGED <<db, intact>>
  /\ UNCHANGED <<file, artifacts, stage, backup, left, source, used, bounds>>

(* A replace takes the file of its own row, and of any that has its path.  *)
Register(p) ==
  /\ At(p, "upsert")
  /\ \/ NoFault /\ Goto(p, "dropBackups")
        /\ db' = [db EXCEPT ![proc[p].id] = NewRow(p)]
        /\ intact' = (intact \ IF Fresh(p) THEN {} ELSE Named(proc[p].dest)) \cup {proc[p].id}
     \/ Fault /\ Goto(p, "undoFile") /\ UNCHANGED <<db, intact>>
  /\ UNCHANGED <<file, artifacts, stage, backup, left, source, used, bounds>>

-----------------------------------------------------------------------------
(* The rollback of a failed commit.  Errors in it are dropped.             *)

(* Mutant: only a replaced file is rolled back, a fresh one is left.       *)
UndoReplacedFile(p) ==
  /\ At(p, "undoFile") /\ Goto(p, "undoEntry") /\ NoFault
  /\ file' = [file EXCEPT ![proc[p].dest] =
       IF backup[p].app # Nothing THEN backup[p].app ELSE @]
  /\ backup' = [backup EXCEPT ![p].app = Nothing]
  /\ UNCHANGED <<artifacts, db, stage, left, source, used, intact, bounds>>

(* Mutant: a fresh install removes the file at its path even when its      *)
(* commit failed because another process had put it there.                 *)
UndoAnyFile(p) ==
  /\ At(p, "undoFile") /\ Goto(p, "undoEntry") /\ NoFault
  /\ file' = [file EXCEPT ![proc[p].dest] = backup[p].app]
  /\ backup' = [backup EXCEPT ![p].app = Nothing]
  /\ UNCHANGED <<artifacts, db, stage, left, source, used, intact, bounds>>

(* `restore_live` renames a backup back, if it is still there.             *)
UndoFile(p) ==
  LET dest == proc[p].dest
  IN  /\ At(p, "undoFile") /\ Goto(p, "undoEntry")
      /\ \/ /\ proc[p].backed /\ backup[p].app # Nothing /\ NoFault
            /\ file' = [file EXCEPT ![dest] = backup[p].app]
            /\ backup' = [backup EXCEPT ![p].app = Nothing]
         \/ /\ ~proc[p].backed /\ proc[p].placed /\ NoFault
            /\ file' = [file EXCEPT ![dest] = Nothing]
            /\ UNCHANGED backup
         \/ /\ IF proc[p].backed THEN backup[p].app = Nothing ELSE ~proc[p].placed
            /\ NoFault /\ UNCHANGED <<file, backup>>
         \/ Fault /\ UNCHANGED <<file, backup>>
      /\ UNCHANGED <<artifacts, db, stage, left, source, used, intact, bounds>>

UndoEntry(p) ==
  LET id == proc[p].id
  IN  /\ At(p, "undoEntry") /\ Goto(p, "undoIcon")
      /\ \/ /\ NoFault
            /\ entry' = [entry EXCEPT ![id] =
                 IF ~proc[p].hadEntry THEN Nothing
                 ELSE IF backup[p].entry = Nothing THEN @ ELSE backup[p].entry]
            /\ backup' = [backup EXCEPT ![p].entry = IF proc[p].hadEntry THEN Nothing ELSE @]
         \/ Fault /\ UNCHANGED <<entry, backup>>
      /\ UNCHANGED <<file, icon, db, stage, left, source, used, intact, bounds>>

UndoIcon(p) ==
  LET id == proc[p].id
  IN  /\ At(p, "undoIcon") /\ Goto(p, "undoRows")
      /\ \/ ~WithIcon(p) /\ NoFault /\ UNCHANGED <<icon, backup>>
         \/ /\ WithIcon(p) /\ NoFault
            /\ icon' = [icon EXCEPT ![id] =
                 IF ~proc[p].hadIcon THEN Nothing
                 ELSE IF backup[p].icon = Nothing THEN @ ELSE backup[p].icon]
            /\ backup' = [backup EXCEPT ![p].icon = IF proc[p].hadIcon THEN Nothing ELSE @]
         \/ WithIcon(p) /\ Fault /\ UNCHANGED <<icon, backup>>
      /\ UNCHANGED <<file, entry, db, stage, left, source, used, intact, bounds>>

(* `registry.restore(snapshot)`: the whole table becomes what this         *)
(* controller read when it was opened.                                     *)
UndoRows(p) ==
  /\ At(p, "undoRows") /\ Goto(p, "undoTemps")
  /\ \/ NoFault /\ db' = proc[p].mem
     \/ Fault /\ UNCHANGED db
  /\ UNCHANGED <<file, artifacts, stage, backup, left, source, used, intact, bounds>>

(* `rollback_temps`: every .gosh- file in the managed folder goes, whoever *)
(* made it.                                                                *)
UndoTemps(p) ==
  /\ At(p, "undoTemps") /\ Finish(p, "failed")
  /\ stage' = [r \in Proc |-> Nothing]
  /\ backup' = [r \in Proc |-> [backup[r] EXCEPT !.app = Nothing, !.entry = IF r = p THEN Nothing ELSE @,
                                                   !.icon = IF r = p THEN Nothing ELSE @]]
  /\ left' = {}
  /\ UNCHANGED <<file, artifacts, db, source, used, intact, bounds, faults>>

-----------------------------------------------------------------------------
DropBackups(p) ==
  /\ At(p, "dropBackups")
  /\ backup' = [backup EXCEPT ![p] = [app |-> Nothing, entry |-> Nothing, icon |-> Nothing]]
  /\ IF proc[p].move THEN Goto(p, "tail") ELSE Finish(p, "ok")
  /\ UNCHANGED <<file, artifacts, db, stage, left, source, used, intact, bounds, faults>>

(* A move sends the source to the Trash; when that fails the app stays     *)
(* installed and the source where it is.                                   *)
TrashSource(p) ==
  /\ At(p, "tail")
  /\ \/ proc[p].from \in source /\ source' = source \ {proc[p].from}
        /\ Finish(p, "ok") /\ NoFault
     \/ proc[p].from \notin source /\ UNCHANGED source /\ Finish(p, "partial") /\ NoFault
     \/ Fault /\ UNCHANGED source /\ Finish(p, "partial")
  /\ UNCHANGED <<file, artifacts, db, stage, backup, left, used, intact, bounds>>

IntegrateStep(p) ==
  \/ BeginIntegrate(p) \/ Refuse(p) \/ GateReplace(p) \/ GateFresh(p) \/ Stage(p)
  \/ InstallEntry(p) \/ InstallIcon(p) \/ MakeBackups(p) \/ Commit(p) \/ Register(p)
  \/ UndoFile(p) \/ UndoEntry(p) \/ UndoIcon(p) \/ UndoRows(p) \/ UndoTemps(p)
  \/ DropBackups(p) \/ TrashSource(p)
=============================================================================
