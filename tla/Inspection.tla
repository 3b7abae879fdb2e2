----------------------------- MODULE Inspection -----------------------------
(***************************************************************************)
(* Inspecting an AppImage (src/src/inspector.rs and the bridge's            *)
(* inspect.rs): the gate of the unsafe fallback, the checks, the safe       *)
(* extraction in a private work directory, the fallback that runs a copy,   *)
(* the icon staging the caller owns, the sweep of what earlier runs left,   *)
(* and a cancel at any moment. Several processes (the window and command    *)
(* lines) inspect at once and share the temporary directory.                *)
(* What a program run can come back with is the contract of ProcessRun.     *)
(***************************************************************************)
EXTENDS Naturals, FiniteSets

CONSTANTS
    Procs,           \* processes that inspect
    MaxInspections,  \* bound: inspections of one process
    MaxToggles,      \* bound: changes of the stored setting
    MaxCrashes,      \* bound: processes killed
    MaxStuck         \* bound: steps in which a removal fails

ASSUME InspectionAssumption ==
    /\ MaxInspections \in Nat \ {0} /\ MaxToggles \in Nat /\ MaxCrashes \in Nat
    /\ MaxStuck \in Nat

VARIABLES
    setting,   \* the stored unsafe_extraction_fallback
    pc,        \* where the inspection of each process is
    nth,       \* which inspection of that process it is
    gate,      \* the options it runs with
    cancel,    \* its cancel flag
    facts,     \* what it found so far: the InspectionResult
    ranAt,     \* history: what held when it ran the file, if it did
    dirs,      \* directories below the temporary directory
    times,     \* modification and change time of each, old or recent
    behind,    \* history: directories whose removal failed, or which a result dropped
    toggles, crashes, stuck

disk == <<dirs, times, behind, stuck>>

vars == <<setting, pc, nth, gate, cancel, facts, ranAt, disk, toggles, crashes>>

(* "icon" is staged by the safe extraction, "icon2" by the fallback; both  *)
(* have the prefix icon-.                                                  *)
Kinds == {"inspect", "unsafe", "icon", "icon2"}
Dirs == [proc : Procs, nth : 1..MaxInspections, kind : Kinds]
NoDir == [proc |-> "none", nth |-> 0, kind |-> "none"]
Mine(p, kind) == [proc |-> p, nth |-> nth[p], kind |-> kind]

Times == [mtime : {"old", "recent"}, ctime : {"old", "recent"}]
Recent == [mtime |-> "recent", ctime |-> "recent"]

Results == [magic : BOOLEAN, name : BOOLEAN, icon : Dirs \cup {NoDir},
            staging : Dirs \cup {NoDir}, ran : BOOLEAN, used : BOOLEAN,
            pending : BOOLEAN, error : {"", "invalid", "cancelled"}]

Blank == [magic |-> FALSE, name |-> FALSE, icon |-> NoDir, staging |-> NoDir,
          ran |-> FALSE, used |-> FALSE, pending |-> FALSE, error |-> ""]

Gates == [on : BOOLEAN, confirmed : BOOLEAN, allow : BOOLEAN]
NoGate == [on |-> FALSE, confirmed |-> FALSE, allow |-> FALSE]

InWork == {"list", "desktop", "icon"}
InUnsafe == {"copy", "run", "verify"}

TypeOK ==
    /\ setting \in BOOLEAN
    /\ pc \in [Procs -> {"idle", "check", "hash", "extract", "decide", "fallback", "final", "done"}
                        \cup InWork \cup InUnsafe]
    /\ nth \in [Procs -> 0..MaxInspections]
    /\ gate \in [Procs -> Gates]
    /\ cancel \in [Procs -> BOOLEAN]
    /\ facts \in [Procs -> Results]
    /\ ranAt \in [Procs -> [gate : Gates, named : BOOLEAN, did : BOOLEAN]]
    /\ dirs \subseteq Dirs /\ behind \subseteq Dirs /\ times \in [Dirs -> Times]
    /\ \A p \in Procs : facts[p].icon \in {NoDir, facts[p].staging}
    /\ toggles \in 0..MaxToggles /\ crashes \in 0..MaxCrashes
    /\ stuck \in 0..MaxStuck

NotRun == [gate |-> NoGate, named |-> FALSE, did |-> FALSE]

Init ==
    /\ setting \in BOOLEAN
    /\ pc = [p \in Procs |-> "idle"] /\ nth = [p \in Procs |-> 0]
    /\ gate = [p \in Procs |-> NoGate] /\ cancel = [p \in Procs |-> FALSE]
    /\ facts = [p \in Procs |-> Blank] /\ ranAt = [p \in Procs |-> NotRun]
    /\ dirs = {} /\ behind = {} /\ times = [d \in Dirs |-> Recent]
    /\ toggles = 0 /\ crashes = 0 /\ stuck = 0

-----------------------------------------------------------------------------
Goto(p, step) == pc' = [pc EXCEPT ![p] = step]

(* Directories are made, and others are removed. No removal is sure, and   *)
(* none that fails is told of: one that the archive made read-only, or a    *)
(* full one, stays, with its times as they were or new. What the result     *)
(* drops without removing it stays too.                                    *)
Leave(made, gone, dropped) ==
    LET there == dirs \cup made
    IN  \E left \in SUBSET (gone \cap there) : \E touched \in SUBSET left :
          /\ left # {} => stuck < MaxStuck
          /\ stuck' = IF left = {} THEN stuck ELSE stuck + 1
          /\ dirs' = there \ (gone \ left)
          /\ behind' = (behind \cup left \cup dropped) \cap dirs'
          /\ times' = [d \in Dirs |-> IF d \in made \cup touched THEN Recent ELSE times[d]]

Make(d) == Leave({d}, {}, {})

Remove(d) == Leave({}, {d}, {})

Keep == UNCHANGED <<setting, nth, gate, ranAt, toggles, crashes>>

(* Mutant: the staging is left to the caller, which no longer knows it. *)
StopKeeping(p) ==
    /\ facts' = [facts EXCEPT ![p] = [Blank EXCEPT !.error = "cancelled"]]
    /\ UNCHANGED disk
    /\ Goto(p, "done")

(* stopped: the staging the result names is discarded, and so is all that  *)
(* was read.                                                               *)
Stop(p) ==
    /\ facts' = [facts EXCEPT ![p] = [Blank EXCEPT !.error = "cancelled"]]
    /\ Remove(facts[p].staging)
    /\ Goto(p, "done")

(* Mutant: a caller's confirmation is enough. *)
GatedByCaller(confirmed) == [on |-> setting, confirmed |-> confirmed, allow |-> confirmed]

(* gated_options: the stored setting is read when the inspection starts.   *)
Gated(confirmed) == [on |-> setting, confirmed |-> confirmed, allow |-> setting /\ confirmed]

Begin(p, confirmed) ==
    /\ pc[p] = "idle" /\ nth[p] < MaxInspections
    /\ nth' = [nth EXCEPT ![p] = @ + 1]
    /\ gate' = [gate EXCEPT ![p] = Gated(confirmed)]
    /\ cancel' = [cancel EXCEPT ![p] = FALSE]
    /\ facts' = [facts EXCEPT ![p] = Blank]
    /\ ranAt' = [ranAt EXCEPT ![p] = NotRun]
    /\ Goto(p, "check")
    /\ UNCHANGED <<setting, disk, toggles, crashes>>

(* Only the window registers the cancel flag; a command line never sets it. *)
Cancel(p) ==
    /\ pc[p] \notin {"idle", "done"} /\ ~cancel[p]
    /\ cancel' = [cancel EXCEPT ![p] = TRUE]
    /\ UNCHANGED <<setting, pc, nth, gate, facts, ranAt, disk, toggles, crashes>>

(* The file is regular, not empty, within the bound, an ELF with the magic. *)
Check(p) ==
    /\ pc[p] = "check"
    /\ \/ /\ facts' = [facts EXCEPT ![p].magic = TRUE]
          /\ Goto(p, "hash")
       \/ /\ facts' = [facts EXCEPT ![p].error = "invalid"]
          /\ Goto(p, "done")
    /\ UNCHANGED <<cancel, disk>> /\ Keep

(* The hash reads the cancel flag as it goes, and it is read once more after. *)
Hash(p) ==
    /\ pc[p] = "hash"
    /\ IF cancel[p] THEN Stop(p)
       ELSE \/ Goto(p, "extract") /\ UNCHANGED <<facts, disk>>
            \/ /\ facts' = [facts EXCEPT ![p].error = "invalid"]
               /\ Goto(p, "done")
               /\ UNCHANGED disk
    /\ UNCHANGED cancel /\ Keep

-----------------------------------------------------------------------------
(* The safe extraction. *)

(* Mutant: the modification time alone decides. *)
StaleByMtime(d) == times[d].mtime = "old"

(* A directory is stale by the newer of its two times. *)
Stale(d) == times[d].mtime = "old" /\ times[d].ctime = "old"

Swept == {d \in dirs : d.kind # "unsafe" /\ Stale(d)}

(* sweep_stale_staging, then the work directory. *)
ExtractBegins(p) ==
    /\ pc[p] = "extract"
    /\ \/ Leave({Mine(p, "inspect")}, Swept, {}) /\ Goto(p, "list")
       \/ Leave({}, Swept, {}) /\ Goto(p, "decide")
    /\ UNCHANGED <<facts, cancel>> /\ Keep

(* The extraction is over: its work directory goes whatever came of it.    *)
ExtractEnds(p, found) ==
    /\ facts' = [facts EXCEPT ![p] = found]
    /\ Goto(p, "decide")

ListFails(p) ==
    /\ ExtractEnds(p, facts[p])
    /\ Remove(Mine(p, "inspect"))

(* The tool lists the archive. A run that failed, timed out, was refused   *)
(* (an empty listing with exit code 0) or listed no desktop entry is the   *)
(* end of the extraction.                                                  *)
List(p) ==
    /\ pc[p] = "list"
    /\ \/ Goto(p, "desktop") /\ UNCHANGED <<facts, disk>>
       \/ ListFails(p)
    /\ UNCHANGED cancel /\ Keep

(* The desktop entry is extracted (the extractor may give the directory    *)
(* the archive's own modification time) and parsed; it may have no name.   *)
(* A work directory that is gone fails the extraction.                     *)
Desktop(p) ==
    /\ pc[p] = "desktop"
    /\ \/ /\ Mine(p, "inspect") \in dirs
          /\ \E named \in BOOLEAN, m \in {"old", "recent"} :
               /\ facts' = [facts EXCEPT ![p].name = named]
               /\ times' = [times EXCEPT ![Mine(p, "inspect")].mtime = m]
          /\ Goto(p, "icon") /\ UNCHANGED <<dirs, behind, stuck>>
       \/ ListFails(p)
    /\ UNCHANGED cancel /\ Keep

(* The best candidate is copied to a directory the caller owns, where it   *)
(* outlives the work directory. When that directory cannot be made the      *)
(* whole extraction is lost; when the copy fails it goes again, and the     *)
(* metadata stays without icon.                                            *)
Icon(p) ==
    /\ pc[p] = "icon"
    /\ \/ /\ ExtractEnds(p, facts[p])
          /\ \E tried \in {{}, {Mine(p, "icon")}} : Leave(tried, tried \cup {Mine(p, "inspect")}, {})
       \/ /\ ExtractEnds(p, [facts[p] EXCEPT !.name = FALSE])
          /\ Remove(Mine(p, "inspect"))
       \/ /\ Mine(p, "inspect") \in dirs
          /\ ExtractEnds(p, [facts[p] EXCEPT !.icon = Mine(p, "icon"),
                                             !.staging = Mine(p, "icon")])
          /\ Leave({Mine(p, "icon")}, {Mine(p, "inspect")}, {})
    /\ UNCHANGED cancel /\ Keep

-----------------------------------------------------------------------------
(* The fallback. *)

(* The fallback runs only without a name, with the gate's consent, and not *)
(* for a cancelled inspection.                                             *)
Decide(p) ==
    /\ pc[p] = "decide"
    /\ IF cancel[p] THEN Stop(p)
       ELSE IF ~facts[p].name /\ gate[p].allow
       THEN /\ facts' = [facts EXCEPT ![p].ran = TRUE]
            /\ Goto(p, "fallback")
            /\ UNCHANGED disk
       ELSE /\ facts' = [facts EXCEPT ![p].pending = ~facts[p].name /\ gate[p].on]
            /\ Goto(p, "final")
            /\ UNCHANGED disk
    /\ UNCHANGED cancel /\ Keep

FallbackBegins(p) ==
    /\ pc[p] = "fallback"
    /\ \/ Make(Mine(p, "unsafe")) /\ Goto(p, "copy")
       \/ UNCHANGED disk /\ Goto(p, "final")
    /\ UNCHANGED <<facts, cancel>> /\ Keep

(* The copy reads the cancel flag as it goes. *)
Copy(p) ==
    /\ pc[p] = "copy"
    /\ \/ ~cancel[p] /\ Goto(p, "run") /\ UNCHANGED disk
       \/ Goto(p, "final") /\ Remove(Mine(p, "unsafe"))
    /\ UNCHANGED <<facts, cancel>> /\ Keep

(* The copy runs; a run that was refused, timed out or failed ends the     *)
(* fallback.                                                               *)
Run(p) ==
    /\ pc[p] = "run"
    /\ ranAt' = [ranAt EXCEPT ![p] =
            [gate |-> gate[p], named |-> facts[p].name, did |-> TRUE]]
    /\ \/ Goto(p, "verify") /\ UNCHANGED disk
       \/ Goto(p, "final") /\ Remove(Mine(p, "unsafe"))
    /\ UNCHANGED <<setting, nth, gate, facts, cancel, toggles, crashes>>

(* The tree holds a special file, a link that leaves it, too much or no     *)
(* desktop entry, or there is no directory for its icon: nothing of it is    *)
(* taken.                                                                  *)
TreeRefused(p) == Remove(Mine(p, "unsafe")) /\ UNCHANGED facts

(* The tree is refused, or its desktop entry replaces the metadata. An     *)
(* icon of the tree replaces the staging the result names; without one the *)
(* metadata has no icon, and the staging stays for the discard.            *)
Verify(p) ==
    /\ pc[p] = "verify"
    /\ Goto(p, "final")
    /\ \/ TreeRefused(p)
       \/ \E named \in BOOLEAN :
            /\ facts' = [facts EXCEPT ![p].name = named, ![p].icon = NoDir, ![p].used = TRUE]
            /\ \E tried \in {{}, {Mine(p, "icon2")}} :
                  Leave(tried, tried \cup {Mine(p, "unsafe")}, {})
       \/ \E named \in BOOLEAN :
            /\ facts' = [facts EXCEPT ![p].name = named, ![p].used = TRUE,
                                      ![p].icon = Mine(p, "icon2"),
                                      ![p].staging = Mine(p, "icon2")]
            /\ Leave({Mine(p, "icon2")}, {Mine(p, "unsafe")}, {facts[p].staging})
    /\ UNCHANGED cancel /\ Keep

(* Mutant: the last look at the cancel flag is missing. *)
FinalUnchecked(p) ==
    /\ pc[p] = "final"
    /\ Goto(p, "done")
    /\ UNCHANGED <<facts, disk, cancel>> /\ Keep

Final(p) ==
    /\ pc[p] = "final"
    /\ IF cancel[p] THEN Stop(p)
       ELSE Goto(p, "done") /\ UNCHANGED <<facts, disk>>
    /\ UNCHANGED cancel /\ Keep

-----------------------------------------------------------------------------
(* The caller took what it needs (the bytes of the icon, an integration)   *)
(* and discards the staging.                                               *)
Discard(p) ==
    /\ pc[p] = "done"
    /\ Remove(facts[p].staging)
    /\ Goto(p, "idle")
    /\ facts' = [facts EXCEPT ![p] = Blank]
    /\ UNCHANGED cancel /\ Keep

(* Settings > unsafe extraction fallback. *)
Toggle ==
    /\ toggles < MaxToggles
    /\ setting' = ~setting /\ toggles' = toggles + 1
    /\ UNCHANGED <<pc, nth, gate, cancel, facts, ranAt, disk, crashes>>

(* The process dies: what it had on disk stays. *)
Crash(p) ==
    /\ pc[p] # "idle" /\ crashes < MaxCrashes
    /\ crashes' = crashes + 1
    /\ Goto(p, "idle")
    /\ facts' = [facts EXCEPT ![p] = Blank]
    /\ cancel' = [cancel EXCEPT ![p] = FALSE]
    /\ UNCHANGED <<setting, nth, gate, ranAt, disk, toggles>>

(* More than an hour passes for a directory no inspection works in. One in *)
(* use is younger: every step on it is bounded by the extraction timeout.  *)
InUse(d) == d.nth = nth[d.proc] /\ pc[d.proc] # "idle"

Ages(d) ==
    /\ d \in dirs /\ ~InUse(d) /\ ~Stale(d)
    /\ times' = [times EXCEPT ![d] = [mtime |-> "old", ctime |-> "old"]]
    /\ UNCHANGED <<setting, pc, nth, gate, cancel, facts, ranAt, dirs, behind, stuck, toggles, crashes>>

Step(p) ==
    \/ Check(p) \/ Hash(p) \/ ExtractBegins(p) \/ List(p) \/ Desktop(p) \/ Icon(p)
    \/ Decide(p) \/ FallbackBegins(p) \/ Copy(p) \/ Run(p) \/ Verify(p) \/ Final(p)
    \/ Discard(p)

Next ==
    \/ Toggle
    \/ \E d \in Dirs : Ages(d)
    \/ \E p \in Procs :
        \/ Step(p) \/ Cancel(p) \/ Crash(p)
        \/ \E confirmed \in BOOLEAN : Begin(p, confirmed)

Spec == Init /\ [][Next]_vars

-----------------------------------------------------------------------------
(* A file is run only for an inspection whose gate found the setting on    *)
(* and the file confirmed, after the safe extraction ended without a name. *)
(* Several inspections, toggles of the setting and failures of each step   *)
(* lead there (inspector.rs:22, 175-190).                                  *)
FileRunsOnlyConfirmed ==
    \A p \in Procs : ranAt[p].did =>
        ranAt[p].gate.on /\ ranAt[p].gate.confirmed /\ ~ranAt[p].named

(* An inspection whose cancel arrived before its last step ends with an    *)
(* error and nothing of the file: no name, no offer to run it, no icon     *)
(* (inspector.rs:148, 171, 223).                                           *)
CancelledIsNoResult ==
    \A p \in Procs : (pc[p] = "done" /\ cancel[p]) =>
        /\ facts[p].error # "" /\ ~facts[p].name /\ ~facts[p].pending
        /\ facts[p].staging = NoDir

(* Whatever way an inspection came to an end, it tried to remove every      *)
(* directory it made but the staging its caller was told of. Only what could *)
(* not be removed is still there, and an icon of the safe extraction that   *)
(* the fallback's icon replaced in the result, which nothing removes until   *)
(* a sweep (inspector.rs:195, 303, 322, 390).                               *)
OnlyStagingIsLeft ==
    \A p \in Procs : pc[p] = "done" =>
        \A kind \in Kinds : Mine(p, kind) \in dirs =>
            Mine(p, kind) = facts[p].staging \/ Mine(p, kind) \in behind

(* The sweep of one inspection never takes a directory that another one    *)
(* works in or an icon a caller still holds, whatever time the archive     *)
(* gave it (inspector.rs:740).                                             *)
LiveDirsAreKept ==
    \A p \in Procs :
        /\ pc[p] \in InWork => Mine(p, "inspect") \in dirs
        /\ pc[p] \in InUnsafe => Mine(p, "unsafe") \in dirs
        /\ (pc[p] # "idle" /\ facts[p].icon # NoDir) => facts[p].icon \in dirs
=============================================================================
