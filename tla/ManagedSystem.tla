---------------------------- MODULE ManagedSystem ----------------------------
(***************************************************************************)
(* Integrations and removals by several processes over one managed folder  *)
(* and one registry, with failing calls and crashes.                       *)
(***************************************************************************)
EXTENDS Integration, Removal

(* The process dies: what it had in temporary files stays in the folder.   *)
Crash(p) ==
  /\ ~At(p, "idle") /\ crashes < MaxCrashes
  /\ crashes' = crashes + 1
  /\ Finish(p, "crashed")
  /\ left' = left \cup ({stage[p], backup[p].app} \ {Nothing})
  /\ stage' = [stage EXCEPT ![p] = Nothing]
  /\ backup' = [backup EXCEPT ![p] = [app |-> Nothing, entry |-> Nothing, icon |-> Nothing]]
  /\ UNCHANGED <<file, artifacts, db, source, used, intact, ops, faults>>

Next == \E p \in Proc : IntegrateStep(p) \/ RemoveStep(p) \/ Crash(p)

Spec == Init /\ [][Next]_vars

-----------------------------------------------------------------------------
Backup == [app : Image, entry : Image, icon : Image]

(* Every variable has its type.                                            *)
TypeOK ==
  /\ file \in [Path -> Image]
  /\ entry \in [Uuid -> Image] /\ icon \in [Uuid -> Image]
  /\ db \in Registry
  /\ stage \in [Proc -> Image] /\ backup \in [Proc -> Backup]
  /\ left \subseteq Content /\ source \subseteq Content
  /\ proc \in [Proc -> Operation]
  /\ used \subseteq Uuid /\ intact \subseteq used
  /\ {ops, faults, crashes} \subseteq Nat

Quiet == \A p \in Proc : At(p, "idle")
Over(p, kind, o) == Quiet /\ proc[p].kind = kind /\ proc[p].outcome = o

(* What is in full in the managed folder, under whatever name.             *)
Held == ({file[q] : q \in Path} \cup left \cup {backup[p].app : p \in Proc}) \cap Content

(* A registered file that nobody asked to remove is somewhere in the       *)
(* managed folder, whatever a replace was doing when the process died or a *)
(* call failed: the backup is made before the commit and dropped after the *)
(* upsert.  When the restore itself fails, or a crash left the only copy   *)
(* in a backup, a rollback may still remove it with all .gosh- files.      *)
RegisteredIsHeld ==
  (faults = 0 \/ (faults <= 1 /\ crashes = 0)) =>
    \A u \in intact : db[u] # Nothing => db[u].sha \in Held

(* With one failing call at most, an integration that failed leaves the    *)
(* registry as it was, every registered file in place, and no file of its  *)
(* own that its commit had placed.                                         *)
FailedIntegrationKeepsFiles ==
  \A p \in Proc : (Over(p, "integrate", "failed") /\ faults <= 1 /\ crashes = 0) =>
    /\ db = proc[p].mem
    /\ \A u \in intact : db[u] # Nothing => file[db[u].path] = db[u].sha
    /\ (Fresh(p) /\ proc[p].placed) => file[proc[p].dest] = Nothing

(* A source is sent to the Trash only once a row names its AppImage and    *)
(* the file of that row has it ("trash the source only after final         *)
(* verification").                                                         *)
MovedIsInstalled ==
  [][\A c \in source \ source' :
       \E u \in Uuid : db[u] # Nothing /\ db[u].sha = c /\ file[db[u].path] = c]_vars

(* A removal that reports success leaves no row and no file of its app,    *)
(* and neither the desktop entry nor the icon that the row named: an icon  *)
(* that cannot be proved ours makes it partial.                            *)
RemovedIsGone ==
  \A p \in Proc : Over(p, "remove", "ok") =>
    LET id == proc[p].id
    IN  /\ db[id] = Nothing /\ file[Target(p).path] = Nothing
        /\ Target(p).desktop => entry[id] = Nothing
        /\ Target(p).icon => icon[id] = Nothing

(* Whatever several processes do at once, a fresh install never takes the  *)
(* place of a file that is there, and its rollback removes nothing from a  *)
(* path where it placed nothing itself: a file only ever gives way to a    *)
(* replace of its app, to the rollback of an install at its path, or to a  *)
(* removal of its app (`rename_no_replace`, "race-safe commit").           *)
FreshInstallsKeepOff ==
  [][\A q \in Path : (file[q] # Nothing /\ file'[q] # file[q]) =>
       \E p \in Proc :
         \/ ~Fresh(p) /\ proc[p].dest = q /\ proc[p].at \in {"commit", "undoFile"}
         \/ Fresh(p) /\ proc[p].dest = q /\ At(p, "undoFile") /\ proc[p].placed
         \/ At(p, "unlink") /\ Target(p).path = q]_vars

(* README: "A failed integration removes what it created and restores what *)
(* it replaced": after one failing call, the desktop entry of a registered *)
(* app is made from its registered file, as before.                        *)
FailedIntegrationRestoresEntry ==
  \A p \in Proc : (Over(p, "integrate", "failed") /\ faults <= 1 /\ crashes = 0) =>
    \A u \in Uuid : (db[u] # Nothing /\ db[u].desktop) => entry[u] = db[u].sha
=============================================================================
