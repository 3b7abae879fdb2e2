------------------------------- MODULE Removal -------------------------------
(***************************************************************************)
(* `RemovalService::remove`: the file goes to the Trash or is deleted,     *)
(* then the artifacts that carry the app's uuid, then the row.             *)
(***************************************************************************)
EXTENDS Managed

Target(p) == proc[p].mem[proc[p].id]

BeginRemove(p) ==
  \E u \in Uuid, permanent \in BOOLEAN :
    /\ db[u] # Nothing
    /\ Open(p, [proc[p] EXCEPT !.at = "unlink", !.kind = "remove",
                               !.permanent = permanent, !.id = u])

(* Mutant: the artifacts are forgotten.                                    *)
UnlinkOnly(p) ==
  /\ At(p, "unlink") /\ Goto(p, "dropRow") /\ NoFault
  /\ file' = [file EXCEPT ![Target(p).path] = Nothing]
  /\ intact' = intact \ {proc[p].id}
  /\ UNCHANGED <<artifacts, db, stage, backup, left, source, used, bounds>>

(* A file that is gone already is no obstacle.  A failing Trash or a       *)
(* refused or failing delete ends the removal before anything is touched.  *)
Unlink(p) ==
  LET q == Target(p).path
      hasArtifacts == \/ Target(p).desktop /\ entry[proc[p].id] # Nothing
                      \/ Target(p).icon /\ icon[proc[p].id] # Nothing
  IN  /\ At(p, "unlink")
      /\ \/ /\ NoFault /\ Goto(p, IF hasArtifacts THEN "dropEntry" ELSE "dropRow")
            /\ file' = [file EXCEPT ![q] = Nothing]
            /\ intact' = intact \ ({proc[p].id} \cup Named(q))
         \/ /\ file[q] # Nothing /\ Fault
            /\ Finish(p, "failed") /\ UNCHANGED <<file, intact>>
      /\ UNCHANGED <<artifacts, db, stage, backup, left, source, used, bounds>>

(* `remove_owned_artifacts`: a desktop entry that is gone cannot prove its *)
(* ownership, and the icon then stays.                                     *)
DropEntry(p) ==
  LET id == proc[p].id
  IN  /\ At(p, "dropEntry")
      /\ \/ /\ ~Target(p).desktop /\ Goto(p, "dropIcon") /\ NoFault /\ UNCHANGED entry
         \/ /\ Target(p).desktop /\ entry[id] # Nothing /\ NoFault
            /\ Goto(p, "dropIcon") /\ entry' = [entry EXCEPT ![id] = Nothing]
         \/ /\ Target(p).desktop /\ UNCHANGED entry
            /\ IF entry[id] = Nothing THEN NoFault ELSE Fault
            /\ proc' = [proc EXCEPT ![p].at = "dropRow", ![p].cleaned = FALSE]
      /\ UNCHANGED <<file, icon, db, stage, backup, left, source, used, intact, bounds>>

DropIcon(p) ==
  LET id == proc[p].id
  IN  /\ At(p, "dropIcon")
      /\ \/ /\ NoFault /\ Goto(p, "dropRow")
            /\ icon' = IF Target(p).icon THEN [icon EXCEPT ![id] = Nothing] ELSE icon
         \/ /\ Target(p).icon /\ icon[id] # Nothing /\ Fault
            /\ proc' = [proc EXCEPT ![p].at = "dropRow", ![p].cleaned = FALSE]
            /\ UNCHANGED icon
      /\ UNCHANGED <<file, entry, db, stage, backup, left, source, used, intact, bounds>>

(* The row goes whatever became of the artifacts.                          *)
DropRow(p) ==
  /\ At(p, "dropRow")
  /\ \/ NoFault /\ db' = [db EXCEPT ![proc[p].id] = Nothing]
        /\ Finish(p, IF proc[p].cleaned THEN "ok" ELSE "partial")
     \/ Fault /\ UNCHANGED db /\ Finish(p, "partial")
  /\ UNCHANGED <<file, artifacts, stage, backup, left, source, used, intact, bounds>>

RemoveStep(p) ==
  BeginRemove(p) \/ Unlink(p) \/ DropEntry(p) \/ DropIcon(p) \/ DropRow(p)
=============================================================================
