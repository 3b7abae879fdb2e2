-------------------------- MODULE Inspection_proofs --------------------------
(* Proofs about Inspection, for any number of processes, inspections,      *)
(* toggles and crashes.                                                    *)
EXTENDS Inspection, TLAPS

(***************************************************************************)
(* The inductive invariant: what an inspection may rely on at each of its  *)
(* steps, whatever other processes sweep, stage or leave behind.           *)
(***************************************************************************)

(* Directories are numbered by inspections that have begun.                *)
Numbered ==
    /\ \A p \in Procs : pc[p] # "idle" => nth[p] # 0
    /\ \A d \in dirs : d.nth <= nth[d.proc]

(* The change time of a directory in use is recent, whatever time of       *)
(* modification the archive gave it: this is what keeps it from a sweep.   *)
InUseIsRecent == \A d \in dirs : InUse(d) => times[d].ctime = "recent"

(* The gate is the setting and the confirmation that the inspection began  *)
(* with, and the fallback is on its way only with both and without a name. *)
GateDecides(p) ==
    /\ gate[p].allow => gate[p].on /\ gate[p].confirmed
    /\ pc[p] \in {"fallback", "copy", "run"} => gate[p].allow /\ ~facts[p].name

(* Before the icon nothing is staged and nothing was run; before the       *)
(* extraction nothing was read.                                            *)
NothingYet(p) ==
    /\ pc[p] \in {"check", "hash", "extract"} => ~facts[p].name /\ ~facts[p].pending
    /\ pc[p] \in {"check", "hash", "extract"} \cup InWork =>
         facts[p].staging = NoDir

(* What an inspection under way has on disk: a work directory only at the  *)
(* steps that use it, an icon only when the result names it, and what       *)
(* nothing removes any more: a removal of it failed, or the result dropped it. *)
OnDisk(p) ==
    /\ Mine(p, "inspect") \in dirs => pc[p] \in InWork \/ Mine(p, "inspect") \in behind
    /\ Mine(p, "unsafe") \in dirs => pc[p] \in InUnsafe \/ Mine(p, "unsafe") \in behind
    /\ Mine(p, "icon") \in dirs =>
         facts[p].staging = Mine(p, "icon") \/ Mine(p, "icon") \in behind
    /\ Mine(p, "icon2") \in dirs =>
         facts[p].staging = Mine(p, "icon2") \/ Mine(p, "icon2") \in behind
    /\ facts[p].staging \in {NoDir, Mine(p, "icon"), Mine(p, "icon2")}
    /\ facts[p].staging = Mine(p, "icon2") => pc[p] \in {"final", "done"}

Kept(p) ==
    /\ pc[p] \in InWork => Mine(p, "inspect") \in dirs
    /\ pc[p] \in InUnsafe => Mine(p, "unsafe") \in dirs
    /\ facts[p].icon # NoDir => facts[p].icon \in dirs

Ran(p) == ranAt[p].did => ranAt[p].gate.on /\ ranAt[p].gate.confirmed /\ ~ranAt[p].named

Cancelled(p) ==
    pc[p] = "done" /\ cancel[p] =>
        /\ facts[p].error # "" /\ ~facts[p].name /\ ~facts[p].pending
        /\ facts[p].staging = NoDir

Sound(p) ==
    /\ GateDecides(p) /\ Ran(p)
    /\ pc[p] # "idle" => NothingYet(p) /\ OnDisk(p) /\ Kept(p) /\ Cancelled(p)

IInv == TypeOK /\ Numbered /\ InUseIsRecent /\ \A p \in Procs : Sound(p)

-----------------------------------------------------------------------------
(* The values of a result that the invariant is about.                     *)
Reads(u, name, icon, staging, pending, error) ==
    /\ u \in Results
    /\ u.name = name /\ u.icon = icon /\ u.staging = staging
    /\ u.pending = pending /\ u.error = error

LEMMA BlankReads ==
  /\ Reads(Blank, FALSE, NoDir, NoDir, FALSE, "")
  /\ Reads([Blank EXCEPT !.error = "cancelled"], FALSE, NoDir, NoDir, FALSE, "cancelled")
<1> QED
  BY DEF Reads, Results, Blank

(* What each assignment of a step changes of a result.                     *)
LEMMA UpdateReads ==
  ASSUME NEW r \in Results
  PROVE  /\ Reads([r EXCEPT !.magic = TRUE], r.name, r.icon, r.staging, r.pending, r.error)
         /\ Reads([r EXCEPT !.error = "invalid"], r.name, r.icon, r.staging, r.pending, "invalid")
         /\ Reads([r EXCEPT !.ran = TRUE], r.name, r.icon, r.staging, r.pending, r.error)
<1>1. Reads([r EXCEPT !.magic = TRUE], r.name, r.icon, r.staging, r.pending, r.error)
  BY DEF Reads, Results
<1>2. Reads([r EXCEPT !.error = "invalid"], r.name, r.icon, r.staging, r.pending, "invalid")
  BY DEF Reads, Results
<1>3. Reads([r EXCEPT !.ran = TRUE], r.name, r.icon, r.staging, r.pending, r.error)
  BY DEF Reads, Results
<1> QED
  BY <1>1, <1>2, <1>3

LEMMA FlagReads ==
  ASSUME NEW r \in Results, NEW b \in BOOLEAN
  PROVE  /\ Reads([r EXCEPT !.name = b], b, r.icon, r.staging, r.pending, r.error)
         /\ Reads([r EXCEPT !.pending = b], r.name, r.icon, r.staging, b, r.error)
         /\ Reads([r EXCEPT !.name = b, !.icon = NoDir, !.used = TRUE],
                  b, NoDir, r.staging, r.pending, r.error)
<1>1. Reads([r EXCEPT !.name = b], b, r.icon, r.staging, r.pending, r.error)
  BY DEF Reads, Results
<1>2. Reads([r EXCEPT !.pending = b], r.name, r.icon, r.staging, b, r.error)
  BY DEF Reads, Results
<1>3. Reads([r EXCEPT !.name = b, !.icon = NoDir, !.used = TRUE],
            b, NoDir, r.staging, r.pending, r.error)
  BY DEF Reads, Results
<1> QED
  BY <1>1, <1>2, <1>3

LEMMA IconReads ==
  ASSUME NEW r \in Results, NEW b \in BOOLEAN, NEW d \in Dirs
  PROVE  /\ Reads([r EXCEPT !.icon = d, !.staging = d], r.name, d, d, r.pending, r.error)
         /\ Reads([r EXCEPT !.name = b, !.used = TRUE, !.icon = d, !.staging = d],
                  b, d, d, r.pending, r.error)
<1>1. Reads([r EXCEPT !.icon = d, !.staging = d], r.name, d, d, r.pending, r.error)
  BY DEF Reads, Results
<1>2. Reads([r EXCEPT !.name = b, !.used = TRUE, !.icon = d, !.staging = d],
            b, d, d, r.pending, r.error)
  BY DEF Reads, Results
<1> QED
  BY <1>1, <1>2

(* The directories of an inspection are its own, one of each kind.         *)
LEMMA MineIsOwn ==
  ASSUME NEW p \in Procs, NEW q \in Procs, NEW k \in Kinds, NEW l \in Kinds
  PROVE  /\ Mine(p, k) = Mine(q, l) => p = q /\ k = l
         /\ Mine(p, k) # NoDir
<1> QED
  BY DEF Mine, NoDir, Kinds

LEMMA NoDirIsNone == TypeOK => NoDir \notin dirs
<1> QED
  BY DEF TypeOK, Dirs, NoDir, Kinds

(***************************************************************************)
(* The frame of a step of p: it leaves what the others have in memory and, *)
(* while they are under way, on disk.                                      *)
(***************************************************************************)
SparesDisk(p) ==
    /\ dirs' \subseteq Dirs /\ behind' \subseteq Dirs /\ times' \in [Dirs -> Times]
    /\ stuck' \in 0..MaxStuck
    /\ \A q \in Procs \ {p}, k \in Kinds : pc[q] # "idle" => (Mine(q, k) \in dirs' <=> Mine(q, k) \in dirs)
    /\ \A d \in behind : d \in dirs' => d \in behind'
    /\ \A d \in dirs' : \/ d \in dirs /\ times'[d].ctime \in {times[d].ctime, "recent"}
                        \/ (\E k \in Kinds : d = Mine(p, k)) /\ times'[d].ctime = "recent"

Spares(p) ==
    /\ nth' = nth /\ gate' = gate
    /\ pc[p] # "idle" /\ \A q \in Procs \ {p} : pc'[q] = pc[q]
    /\ \A q \in Procs \ {p} : cancel'[q] = cancel[q] /\ facts'[q] = facts[q] /\ ranAt'[q] = ranAt[q]
    /\ SparesDisk(p)

(* What is made and removed, as far as the invariant is about it.          *)
Left(made, gone, dropped) ==
    /\ dirs' \subseteq dirs \cup made
    /\ \A d \in (dirs \cup made) \ gone : d \in dirs'
    /\ \A d \in dirs' : d \in gone \/ d \in dropped \/ d \in behind => d \in behind'

LEMMA LeaveParts ==
  ASSUME TypeOK, NEW made \in SUBSET Dirs, NEW gone, NEW dropped, Leave(made, gone, dropped)
  PROVE  /\ Left(made, gone, dropped)
         /\ dirs' \subseteq Dirs /\ behind' \subseteq Dirs /\ times' \in [Dirs -> Times]
         /\ stuck' \in 0..MaxStuck
         /\ \A d \in dirs' : times'[d].ctime \in {times[d].ctime, "recent"}
         /\ \A d \in made : times'[d].ctime = "recent"
<1>0. PICK left \in SUBSET (gone \cap (dirs \cup made)) : \E touched \in SUBSET left :
        /\ left # {} => stuck < MaxStuck
        /\ stuck' = IF left = {} THEN stuck ELSE stuck + 1
        /\ dirs' = (dirs \cup made) \ (gone \ left)
        /\ behind' = (behind \cup left \cup dropped) \cap dirs'
        /\ times' = [d \in Dirs |-> IF d \in made \cup touched THEN Recent ELSE times[d]]
  BY DEF Leave
<1>1. PICK touched \in SUBSET left :
        /\ left # {} => stuck < MaxStuck
        /\ stuck' = IF left = {} THEN stuck ELSE stuck + 1
        /\ dirs' = (dirs \cup made) \ (gone \ left)
        /\ behind' = (behind \cup left \cup dropped) \cap dirs'
        /\ times' = [d \in Dirs |-> IF d \in made \cup touched THEN Recent ELSE times[d]]
  BY <1>0
<1>2. /\ dirs \subseteq Dirs /\ behind \subseteq Dirs /\ times \in [Dirs -> Times]
      /\ stuck \in 0..MaxStuck /\ MaxStuck \in Nat
  BY InspectionAssumption DEF TypeOK
<1>3. Recent \in Times /\ Recent.ctime = "recent"
  BY DEF Recent, Times
<1>4. stuck' \in 0..MaxStuck
  BY <1>1, <1>2
<1>5. Left(made, gone, dropped)
  BY <1>1 DEF Left
<1>6. dirs' \subseteq Dirs /\ behind' \subseteq Dirs
  BY <1>1, <1>2
<1>7. times' \in [Dirs -> Times]
  BY <1>1, <1>2, <1>3
<1>8. /\ \A d \in Dirs : times'[d] = Recent \/ times'[d] = times[d]
      /\ \A d \in made : times'[d] = Recent
  <2>1. \A d \in Dirs : times'[d] = IF d \in made \cup touched THEN Recent ELSE times[d]
    BY <1>1
  <2> QED
    BY <2>1
<1> QED
  BY <1>3, <1>4, <1>5, <1>6, <1>7, <1>8

LEMMA LeaveSpares ==
  ASSUME IInv, NEW p \in Procs, pc[p] # "idle", NEW made \in SUBSET Dirs, NEW gone, NEW dropped,
         \A d \in made : \E k \in Kinds : d = Mine(p, k),
         \A q \in Procs \ {p}, k \in Kinds : pc[q] # "idle" => Mine(q, k) \notin gone,
         Leave(made, gone, dropped)
  PROVE  SparesDisk(p) /\ Left(made, gone, dropped)
<1>1. /\ Left(made, gone, dropped)
      /\ dirs' \subseteq Dirs /\ behind' \subseteq Dirs /\ times' \in [Dirs -> Times]
      /\ stuck' \in 0..MaxStuck
      /\ \A d \in dirs' : times'[d].ctime \in {times[d].ctime, "recent"}
      /\ \A d \in made : times'[d].ctime = "recent"
  BY LeaveParts DEF IInv
<1>2. \A q \in Procs \ {p}, k \in Kinds : Mine(q, k) \notin made
  BY MineIsOwn
<1>3. \A q \in Procs \ {p}, k \in Kinds :
        pc[q] # "idle" => (Mine(q, k) \in dirs' <=> Mine(q, k) \in dirs)
  BY <1>1, <1>2 DEF Left
<1>4. \A d \in behind : d \in dirs' => d \in behind'
  BY <1>1 DEF Left
<1>5. \A d \in dirs' : d \in dirs \/ d \in made
  BY <1>1 DEF Left
<1> QED
  BY <1>1, <1>3, <1>4, <1>5 DEF SparesDisk

(* One directory of the inspection itself goes, or is made while its work  *)
(* directory goes; or nothing happens on disk.                             *)
LEMMA OwnSpares ==
  ASSUME IInv, NEW p \in Procs, pc[p] # "idle", NEW made \in SUBSET Dirs, NEW gone, NEW dropped,
         \A d \in made : \E k \in Kinds : d = Mine(p, k),
         \A d \in gone : d = NoDir \/ \E k \in Kinds : d = Mine(p, k),
         Leave(made, gone, dropped)
  PROVE  SparesDisk(p) /\ Left(made, gone, dropped)
<1>1. \A q \in Procs \ {p}, k \in Kinds : Mine(q, k) \notin gone
  BY MineIsOwn
<1> QED
  BY <1>1, LeaveSpares

LEMMA StillSpares ==
  ASSUME IInv, NEW p \in Procs, UNCHANGED disk
  PROVE  SparesDisk(p) /\ Left({}, {}, {})
<1>1. TypeOK
  BY DEF IInv
<1> QED
  BY <1>1 DEF TypeOK, disk, SparesDisk, Left

LEMMA OthersKeepSound ==
  ASSUME IInv, NEW p \in Procs, Spares(p), NEW q \in Procs \ {p}
  PROVE  Sound(q)'
<1>1. \A k \in Kinds : Mine(q, k)' = Mine(q, k)
  BY DEF Spares, Mine
<1>2. pc[q] # "idle" => \A k \in Kinds : /\ Mine(q, k) \in dirs' <=> Mine(q, k) \in dirs
                                         /\ Mine(q, k) \in dirs' /\ Mine(q, k) \in behind
                                              => Mine(q, k) \in behind'
  BY DEF Spares, SparesDisk
<1>3. Sound(q) /\ facts[q].icon \in {NoDir, facts[q].staging}
  BY DEF IInv, TypeOK
<1>4. pc[q] # "idle" => (Kept(q) => Kept(q)')
  BY <1>1, <1>2, <1>3 DEF Spares, Kept, Sound, OnDisk, Kinds
<1>5. pc[q] # "idle" => (OnDisk(q) => OnDisk(q)')
  BY <1>1, <1>2 DEF Spares, OnDisk, Kinds
<1> QED
  BY <1>3, <1>4, <1>5 DEF Spares, Sound, GateDecides, Ran, NothingYet, Cancelled

LEMMA DirsStayInUse ==
  ASSUME IInv, NEW p \in Procs, Spares(p)
  PROVE  Numbered' /\ InUseIsRecent'
<1>1. \A d \in dirs' : d \in dirs \/ (d.nth = nth[p] /\ d.proc = p)
  BY DEF Spares, SparesDisk, Mine
<1>2. \A q \in Procs : pc'[q] # "idle" => pc[q] # "idle"
  BY DEF Spares
<1>3. \A d \in dirs : d.proc \in Procs /\ d.nth \in Nat
  BY InspectionAssumption DEF IInv, TypeOK, Dirs
<1>4. nth[p] \in Nat
  BY InspectionAssumption DEF IInv, TypeOK
<1>5. Numbered'
  BY <1>1, <1>2, <1>3, <1>4 DEF Spares, IInv, Numbered
<1>6. ASSUME NEW d \in dirs', InUse(d)' PROVE times'[d].ctime = "recent"
  <2>1. CASE d \in dirs /\ times'[d].ctime \in {times[d].ctime, "recent"}
    <3>1. InUse(d)
      BY <1>2, <1>3, <1>6, <2>1 DEF Spares, InUse
    <3> QED
      BY <2>1, <3>1 DEF IInv, InUseIsRecent
  <2> QED
    BY <2>1 DEF Spares, SparesDisk
<1> QED
  BY <1>5, <1>6 DEF InUseIsRecent

-----------------------------------------------------------------------------
(* A step of an inspection keeps the invariant when it keeps the types,    *)
(* spares the others, and is sound for the one that takes it.              *)
LEMMA OwnStep ==
  ASSUME IInv, NEW p \in Procs, TypeOK', Spares(p), Sound(p)'
  PROVE  IInv'
<1> QED
  BY OthersKeepSound, DirsStayInUse DEF IInv

(* The directories of an inspection under way are typed, and the sweep of  *)
(* another one passes them by.                                             *)
LEMMA UnderWayIsKept ==
  ASSUME IInv, NEW q \in Procs, pc[q] # "idle", NEW k \in Kinds
  PROVE  Mine(q, k) \in Dirs /\ Mine(q, k) \notin Swept
<1>1. nth[q] \in 1..MaxInspections
  BY InspectionAssumption DEF IInv, TypeOK, Numbered
<1>2. Mine(q, k) \in Dirs
  BY <1>1 DEF Mine, Dirs
<1>3. InUse(Mine(q, k))
  BY DEF InUse, Mine
<1> QED
  BY <1>2, <1>3 DEF IInv, InUseIsRecent, Swept, Stale

(* The checks: the result stays empty but for an error.                    *)
LEMMA CheckKeeps ==
  ASSUME IInv, NEW p \in Procs, Check(p)
  PROVE  IInv'
<1> USE DEF Keep, Goto
<1>0. TypeOK /\ Sound(p) /\ facts[p] \in Results /\ pc[p] # "idle"
  BY DEF IInv, TypeOK, Check
<1>1. PICK u : /\ facts' = [facts EXCEPT ![p] = u]
               /\ Reads(u, facts[p].name, facts[p].icon, facts[p].staging,
                        facts[p].pending, u.error)
               /\ u.error = "invalid" \/ pc' = [pc EXCEPT ![p] = "hash"]
  BY <1>0, UpdateReads DEF Check, Reads, TypeOK
<1>w. SparesDisk(p) /\ Left({}, {}, {})
  BY StillSpares DEF Check
<1>2. TypeOK'
  BY <1>0, <1>1, <1>w DEF Check, TypeOK, SparesDisk, Reads, InWork, InUnsafe
<1>3. \A q \in Procs, k \in Kinds : Mine(q, k)' = Mine(q, k)
  BY DEF Check, Mine
<1>4. Spares(p)
  BY <1>0, <1>1, <1>w DEF Check, TypeOK, Spares
<1>5. (GateDecides(p) /\ Ran(p) /\ NothingYet(p) /\ Cancelled(p))'
  BY <1>0, <1>1
  DEF Check, TypeOK, Reads, Sound, GateDecides, Ran, NothingYet, Cancelled, InWork
<1>6. OnDisk(p)'
  BY <1>0, <1>1, <1>3, <1>w, MineIsOwn
  DEF Check, TypeOK, Reads, Sound, NothingYet, OnDisk, Left, Kinds, InWork, InUnsafe
<1>7. Kept(p)'
  BY <1>0, <1>1, <1>3, <1>w, MineIsOwn
  DEF Check, TypeOK, Reads, Sound, NothingYet, OnDisk, Kept, Left, Kinds, InWork, InUnsafe
<1> QED
  BY <1>2, <1>4, <1>5, <1>6, <1>7, OwnStep DEF Sound

(* A stop discards the staging and all that was read.                     *)
LEMMA StopKeeps ==
  ASSUME IInv, NEW p \in Procs, pc[p] \in {"hash", "decide", "final"},
         Stop(p), cancel' = cancel, Keep
  PROVE  IInv'
<1> USE DEF Keep, Goto
<1>0. TypeOK /\ Sound(p) /\ facts[p] \in Results /\ pc[p] # "idle"
  BY DEF IInv, TypeOK, Stop
<1>1. PICK u : /\ facts' = [facts EXCEPT ![p] = u]
               /\ Reads(u, FALSE, NoDir, NoDir, FALSE, "cancelled")
  BY <1>0, BlankReads DEF Stop, TypeOK
<1>s. facts[p].staging \in {NoDir, Mine(p, "icon"), Mine(p, "icon2")}
  BY <1>0 DEF Sound, OnDisk
<1>w. SparesDisk(p) /\ Left({}, {facts[p].staging}, {})
  BY <1>0, <1>s, OwnSpares DEF Stop, Remove, Kinds
<1>u. facts'[p] = u /\ pc'[p] = "done" /\ gate' = gate /\ ranAt' = ranAt
  BY <1>0, <1>1 DEF Stop, TypeOK
<1>2. TypeOK'
  <2>1. facts' \in [Procs -> Results] /\ \A q \in Procs : facts'[q].icon \in {NoDir, facts'[q].staging}
    BY <1>0, <1>1 DEF TypeOK, Reads
  <2> QED
    BY <1>0, <1>w, <2>1 DEF Stop, TypeOK, SparesDisk, InWork, InUnsafe
<1>3. \A q \in Procs, k \in Kinds : Mine(q, k)' = Mine(q, k)
  BY DEF Stop, Mine
<1>4. Spares(p)
  BY <1>0, <1>1, <1>w DEF Stop, TypeOK, Spares
<1>5. (GateDecides(p) /\ Ran(p) /\ NothingYet(p) /\ Cancelled(p))'
  BY <1>0, <1>1
  DEF Stop, TypeOK, Reads, Sound, GateDecides, Ran, NothingYet, Cancelled, InWork
<1>6. OnDisk(p)'
  <2>1. /\ u.staging = NoDir /\ OnDisk(p) /\ \A k \in Kinds : Mine(p, k) # NoDir
        /\ \A k \in Kinds \ {"icon"} : Mine(p, k) # Mine(p, "icon")
        /\ \A k \in Kinds \ {"icon2"} : Mine(p, k) # Mine(p, "icon2")
    BY <1>0, <1>1, MineIsOwn DEF Sound, Reads, Kinds
  <2>2. pc[p] \notin InWork \cup InUnsafe
    BY DEF InWork, InUnsafe
  <2> QED
    BY <1>3, <1>u, <1>w, <2>1, <2>2 DEF OnDisk, Left, Kinds
<1>7. Kept(p)'
  BY <1>0, <1>1, <1>3, <1>w, MineIsOwn
  DEF Stop, TypeOK, Reads, Sound, NothingYet, OnDisk, Kept, Left, Kinds, InWork, InUnsafe
<1> QED
  BY <1>2, <1>4, <1>5, <1>6, <1>7, OwnStep DEF Sound

(* The hash: it goes on, finds the file unreadable, or stops.             *)
LEMMA HashGoesOnKeeps ==
  ASSUME IInv, NEW p \in Procs, Hash(p), ~cancel[p]
  PROVE  IInv'
<1> USE DEF Keep, Goto
<1>0. TypeOK /\ Sound(p) /\ facts[p] \in Results /\ pc[p] # "idle"
  BY DEF IInv, TypeOK, Hash
<1>1. PICK u : /\ facts' = [facts EXCEPT ![p] = u]
               /\ Reads(u, facts[p].name, facts[p].icon, facts[p].staging,
                        facts[p].pending, u.error)
               /\ u.error = "invalid" \/ pc' = [pc EXCEPT ![p] = "extract"]
  <2>1. CASE facts' = facts /\ pc' = [pc EXCEPT ![p] = "extract"]
    <3>1. facts' = [facts EXCEPT ![p] = facts[p]]
      BY <1>0, <2>1 DEF TypeOK
    <3> QED
      BY <1>0, <2>1, <3>1 DEF Reads
  <2>2. CASE facts' = [facts EXCEPT ![p].error = "invalid"]
    BY <1>0, <2>2, UpdateReads DEF Reads
  <2> QED
    BY <2>1, <2>2 DEF Hash
<1>w. SparesDisk(p) /\ Left({}, {}, {})
  BY StillSpares DEF Hash
<1>2. TypeOK'
  BY <1>0, <1>1, <1>w DEF Hash, TypeOK, SparesDisk, Reads, InWork, InUnsafe
<1>3. \A q \in Procs, k \in Kinds : Mine(q, k)' = Mine(q, k)
  BY DEF Hash, Mine
<1>4. Spares(p)
  BY <1>0, <1>1, <1>w DEF Hash, TypeOK, Spares
<1>5. (GateDecides(p) /\ Ran(p) /\ NothingYet(p) /\ Cancelled(p))'
  BY <1>0, <1>1
  DEF Hash, TypeOK, Reads, Sound, GateDecides, Ran, NothingYet, Cancelled, InWork
<1>6. OnDisk(p)'
  BY <1>0, <1>1, <1>3, <1>w, MineIsOwn
  DEF Hash, TypeOK, Reads, Sound, NothingYet, OnDisk, Left, Kinds, InWork, InUnsafe
<1>7. Kept(p)'
  BY <1>0, <1>1, <1>3, <1>w, MineIsOwn
  DEF Hash, TypeOK, Reads, Sound, NothingYet, OnDisk, Kept, Left, Kinds, InWork, InUnsafe
<1> QED
  BY <1>2, <1>4, <1>5, <1>6, <1>7, OwnStep DEF Sound

(* The extraction begins: the sweep takes only what nobody works in.       *)
LEMMA ExtractBeginsKeeps ==
  ASSUME IInv, NEW p \in Procs, ExtractBegins(p)
  PROVE  IInv'
<1> USE DEF Keep, Goto
<1>0. TypeOK /\ Sound(p) /\ facts[p] \in Results /\ pc[p] # "idle"
  BY DEF IInv, TypeOK, ExtractBegins
<1>d. /\ \A k \in Kinds : Mine(p, k) \in Dirs
      /\ \A q \in Procs, k \in Kinds : pc[q] # "idle" => Mine(q, k) \notin Swept
  BY <1>0, UnderWayIsKept
<1>w. PICK made \in SUBSET {Mine(p, "inspect")} :
        /\ SparesDisk(p) /\ Left(made, Swept, {})
        /\ \/ made = {} /\ pc' = [pc EXCEPT ![p] = "decide"]
           \/ made = {Mine(p, "inspect")} /\ pc' = [pc EXCEPT ![p] = "list"]
  <2>1. ASSUME NEW made \in SUBSET {Mine(p, "inspect")}, Leave(made, Swept, {})
        PROVE  SparesDisk(p) /\ Left(made, Swept, {})
    <3>1. made \in SUBSET Dirs /\ \A d \in made : \E k \in Kinds : d = Mine(p, k)
      BY <1>d DEF Kinds
    <3> QED
      BY <1>0, <1>d, <2>1, <3>1, LeaveSpares
  <2> QED
    BY <2>1 DEF ExtractBegins
<1>2. TypeOK'
  BY <1>0, <1>w DEF ExtractBegins, TypeOK, SparesDisk, InWork, InUnsafe
<1>3. \A q \in Procs, k \in Kinds : Mine(q, k)' = Mine(q, k)
  BY DEF ExtractBegins, Mine
<1>4. Spares(p)
  BY <1>0, <1>w DEF ExtractBegins, TypeOK, Spares
<1>5. (GateDecides(p) /\ Ran(p) /\ NothingYet(p) /\ Cancelled(p))'
  BY <1>0
  DEF ExtractBegins, TypeOK, Sound, GateDecides, Ran, NothingYet, Cancelled, InWork
<1>u. pc'[p] \in {"list", "decide"} /\ (pc'[p] = "list" <=> made # {}) /\ facts' = facts
      /\ pc[p] = "extract"
  BY <1>0, <1>w DEF ExtractBegins, TypeOK
<1>6. OnDisk(p)'
  BY <1>0, <1>3, <1>d, <1>u, <1>w, MineIsOwn
  DEF Sound, NothingYet, OnDisk, Left, Kinds, InWork, InUnsafe
<1>7. Kept(p)'
  BY <1>0, <1>3, <1>d, <1>u, <1>w, MineIsOwn
  DEF TypeOK, Sound, NothingYet, OnDisk, Kept, Left, Kinds, InWork, InUnsafe
<1> QED
  BY <1>2, <1>4, <1>5, <1>6, <1>7, OwnStep DEF Sound

(* The archive is listed, or the extraction ends.                          *)
LEMMA ListKeeps ==
  ASSUME IInv, NEW p \in Procs, List(p)
  PROVE  IInv'
<1> USE DEF Keep, Goto
<1>0. TypeOK /\ Sound(p) /\ facts[p] \in Results /\ pc[p] # "idle"
  BY DEF IInv, TypeOK, List, ListFails, ExtractEnds
<1>w. /\ SparesDisk(p)
      /\ \/ Left({}, {}, {}) /\ pc'[p] = "desktop"
         \/ Left({}, {Mine(p, "inspect")}, {}) /\ pc'[p] = "decide"
  <2>1. CASE UNCHANGED disk /\ pc'[p] = "desktop"
    BY <2>1, StillSpares
  <2>2. CASE Remove(Mine(p, "inspect")) /\ pc'[p] = "decide"
    BY <1>0, <2>2, OwnSpares DEF Remove, Kinds
  <2> QED
    BY <1>0, <2>1, <2>2 DEF List, ListFails, ExtractEnds, TypeOK
<1>2. TypeOK'
  BY <1>0, <1>w DEF List, ListFails, ExtractEnds, TypeOK, SparesDisk, InWork, InUnsafe
<1>3. \A q \in Procs, k \in Kinds : Mine(q, k)' = Mine(q, k)
  BY DEF List, ListFails, ExtractEnds, Mine
<1>4. Spares(p)
  BY <1>0, <1>w DEF List, ListFails, ExtractEnds, TypeOK, Spares
<1>5. (GateDecides(p) /\ Ran(p) /\ NothingYet(p) /\ Cancelled(p))'
  BY <1>0
  DEF List, ListFails, ExtractEnds, TypeOK, Sound, GateDecides, Ran, NothingYet, Cancelled, InWork
<1>6. OnDisk(p)'
  BY <1>0, <1>3, <1>w, MineIsOwn
  DEF List, ListFails, ExtractEnds, TypeOK, Sound, NothingYet, OnDisk, Left, Kinds, InWork, InUnsafe
<1>7. Kept(p)'
  BY <1>0, <1>3, <1>w, MineIsOwn
  DEF List, ListFails, ExtractEnds, TypeOK, Sound, NothingYet, OnDisk, Kept, Left, Kinds, InWork, InUnsafe
<1> QED
  BY <1>2, <1>4, <1>5, <1>6, <1>7, OwnStep DEF Sound

(* The desktop entry: it has a name or not, and the archive may set back the *)
(* time of modification of the work directory, never that of its change.   *)
LEMMA DesktopKeeps ==
  ASSUME IInv, NEW p \in Procs, Desktop(p)
  PROVE  IInv'
<1> USE DEF Keep, Goto
<1>0. TypeOK /\ Sound(p) /\ facts[p] \in Results /\ pc[p] # "idle"
  BY DEF IInv, TypeOK, Desktop, ListFails, ExtractEnds
<1>1. PICK u : /\ facts' = [facts EXCEPT ![p] = u]
               /\ Reads(u, u.name, facts[p].icon, facts[p].staging, facts[p].pending, facts[p].error)
  <2>1. CASE facts' = [facts EXCEPT ![p] = facts[p]]
    BY <1>0, <2>1 DEF Reads
  <2>2. CASE \E named \in BOOLEAN : facts' = [facts EXCEPT ![p].name = named]
    <3>1. PICK named \in BOOLEAN : facts' = [facts EXCEPT ![p] = [facts[p] EXCEPT !.name = named]]
      BY <2>2
    <3>2. Reads([facts[p] EXCEPT !.name = named], named, facts[p].icon, facts[p].staging,
                facts[p].pending, facts[p].error)
      BY <1>0, FlagReads
    <3> QED
      BY <3>1, <3>2 DEF Reads
  <2> QED
    BY <2>1, <2>2 DEF Desktop, ListFails, ExtractEnds
<1>d. \A k \in Kinds : Mine(p, k) \in Dirs
  BY <1>0, UnderWayIsKept
<1>w. /\ SparesDisk(p)
      /\ \/ Left({}, {}, {}) /\ pc'[p] = "icon" /\ Mine(p, "inspect") \in dirs
         \/ Left({}, {Mine(p, "inspect")}, {}) /\ pc'[p] = "decide"
  <2>1. CASE Remove(Mine(p, "inspect")) /\ pc'[p] = "decide"
    BY <1>0, <2>1, OwnSpares DEF Remove, Kinds
  <2>2. ASSUME NEW m \in {"old", "recent"}, UNCHANGED <<dirs, behind, stuck>>,
               times' = [times EXCEPT ![Mine(p, "inspect")] =
                                        [times[Mine(p, "inspect")] EXCEPT !.mtime = m]]
        PROVE  SparesDisk(p) /\ Left({}, {}, {})
    <3>1. \A t \in Times : [t EXCEPT !.mtime = m] \in Times /\ [t EXCEPT !.mtime = m].ctime = t.ctime
      BY DEF Times
    <3>2. Mine(p, "inspect") \in Dirs /\ times \in [Dirs -> Times] /\ dirs \subseteq Dirs
          /\ behind \subseteq Dirs /\ stuck \in 0..MaxStuck
      BY <1>0, <1>d DEF TypeOK, Kinds
    <3>3. PICK t \in Times : times' = [times EXCEPT ![Mine(p, "inspect")] = t]
                            /\ t.ctime = times[Mine(p, "inspect")].ctime
      BY <2>2, <3>1, <3>2
    <3>4. times' \in [Dirs -> Times] /\ \A d \in Dirs : times'[d].ctime = times[d].ctime
      BY <3>2, <3>3
    <3> QED
      BY <2>2, <3>2, <3>4 DEF SparesDisk, Left
  <2> QED
    BY <1>0, <2>1, <2>2 DEF Desktop, ListFails, ExtractEnds, TypeOK
<1>2. TypeOK'
  BY <1>0, <1>1, <1>w
  DEF Desktop, ListFails, ExtractEnds, TypeOK, SparesDisk, Reads, InWork, InUnsafe
<1>3. \A q \in Procs, k \in Kinds : Mine(q, k)' = Mine(q, k)
  BY DEF Desktop, ListFails, ExtractEnds, Mine
<1>4. Spares(p)
  BY <1>0, <1>1, <1>w DEF Desktop, ListFails, ExtractEnds, TypeOK, Spares
<1>5. (GateDecides(p) /\ Ran(p) /\ NothingYet(p) /\ Cancelled(p))'
  BY <1>0, <1>1
  DEF Desktop, ListFails, ExtractEnds, TypeOK, Reads, Sound, GateDecides,
       Ran, NothingYet, Cancelled, InWork
<1>u. facts'[p] = u /\ pc[p] = "desktop"
  BY <1>0, <1>1 DEF Desktop, TypeOK
<1>6. OnDisk(p)'
  BY <1>0, <1>1, <1>3, <1>u, <1>w, MineIsOwn
  DEF Reads, Sound, NothingYet, OnDisk, Left, Kinds, InWork, InUnsafe
<1>7. Kept(p)'
  BY <1>0, <1>1, <1>3, <1>u, <1>w, MineIsOwn
  DEF TypeOK, Reads, Sound, NothingYet, OnDisk, Kept, Left, Kinds, InWork, InUnsafe
<1> QED
  BY <1>2, <1>4, <1>5, <1>6, <1>7, OwnStep DEF Sound

(* The icon is staged where it outlives the work directory, or is not.     *)
LEMMA IconKeeps ==
  ASSUME IInv, NEW p \in Procs, Icon(p)
  PROVE  IInv'
<1> USE DEF Keep, Goto
<1>0. TypeOK /\ Sound(p) /\ facts[p] \in Results /\ pc[p] # "idle" /\ pc[p] = "icon"
  BY DEF IInv, TypeOK, Icon, ExtractEnds
<1>d. \A k \in Kinds : Mine(p, k) \in Dirs
  BY <1>0, UnderWayIsKept
<1>1. PICK u : /\ facts' = [facts EXCEPT ![p] = u] /\ SparesDisk(p)
               /\ \/ /\ Reads(u, u.name, NoDir, NoDir, facts[p].pending, facts[p].error)
                     /\ \E tried \in {{}, {Mine(p, "icon")}} :
                          Left(tried, tried \cup {Mine(p, "inspect")}, {})
                  \/ /\ Reads(u, u.name, Mine(p, "icon"), Mine(p, "icon"), facts[p].pending, facts[p].error)
                     /\ Left({Mine(p, "icon")}, {Mine(p, "inspect")}, {})
  <2>0. facts[p].icon = NoDir /\ facts[p].staging = NoDir
    BY <1>0 DEF Icon, Sound, NothingYet, InWork, TypeOK
  <2>1. ASSUME NEW tried \in {{}, {Mine(p, "icon")}}, facts' = [facts EXCEPT ![p] = facts[p]],
               Leave(tried, tried \cup {Mine(p, "inspect")}, {})
        PROVE  /\ SparesDisk(p) /\ Left(tried, tried \cup {Mine(p, "inspect")}, {})
               /\ Reads(facts[p], facts[p].name, NoDir, NoDir, facts[p].pending, facts[p].error)
    <3>1. SparesDisk(p) /\ Left(tried, tried \cup {Mine(p, "inspect")}, {})
      BY <1>0, <1>d, <2>1, OwnSpares DEF Kinds
    <3> QED
      BY <1>0, <2>0, <3>1 DEF Reads
  <2>2. ASSUME facts' = [facts EXCEPT ![p] = [facts[p] EXCEPT !.name = FALSE]],
               Remove(Mine(p, "inspect"))
        PROVE  /\ SparesDisk(p) /\ Left({}, {Mine(p, "inspect")}, {})
               /\ Reads([facts[p] EXCEPT !.name = FALSE], FALSE, NoDir, NoDir,
                        facts[p].pending, facts[p].error)
    <3>1. Reads([facts[p] EXCEPT !.name = FALSE], FALSE, NoDir, NoDir, facts[p].pending, facts[p].error)
      BY <1>0, <2>0, FlagReads
    <3>2. SparesDisk(p) /\ Left({}, {Mine(p, "inspect")}, {})
      BY <1>0, <2>2, OwnSpares DEF Remove, Kinds
    <3> QED
      BY <3>1, <3>2
  <2>3. ASSUME facts' = [facts EXCEPT ![p] = [facts[p] EXCEPT !.icon = Mine(p, "icon"),
                                                !.staging = Mine(p, "icon")]],
               Leave({Mine(p, "icon")}, {Mine(p, "inspect")}, {})
        PROVE  /\ SparesDisk(p) /\ Left({Mine(p, "icon")}, {Mine(p, "inspect")}, {})
               /\ Reads([facts[p] EXCEPT !.icon = Mine(p, "icon"), !.staging = Mine(p, "icon")],
                    facts[p].name, Mine(p, "icon"), Mine(p, "icon"), facts[p].pending, facts[p].error)
    <3>1. Mine(p, "icon") \in Dirs
      BY <1>d DEF Kinds
    <3>2. Reads([facts[p] EXCEPT !.icon = Mine(p, "icon"), !.staging = Mine(p, "icon")],
                facts[p].name, Mine(p, "icon"), Mine(p, "icon"), facts[p].pending, facts[p].error)
      BY <1>0, <3>1, IconReads
    <3>3. SparesDisk(p) /\ Left({Mine(p, "icon")}, {Mine(p, "inspect")}, {})
      BY <1>0, <2>3, <3>1, OwnSpares DEF Kinds
    <3> QED
      BY <3>2, <3>3
  <2>4. \/ /\ facts' = [facts EXCEPT ![p] = facts[p]]
           /\ \E tried \in {{}, {Mine(p, "icon")}} : Leave(tried, tried \cup {Mine(p, "inspect")}, {})
        \/ /\ facts' = [facts EXCEPT ![p] = [facts[p] EXCEPT !.name = FALSE]]
           /\ Remove(Mine(p, "inspect"))
        \/ /\ facts' = [facts EXCEPT ![p] = [facts[p] EXCEPT !.icon = Mine(p, "icon"),
                                                             !.staging = Mine(p, "icon")]]
           /\ Leave({Mine(p, "icon")}, {Mine(p, "inspect")}, {})
    BY DEF Icon, ExtractEnds
  <2>5. CASE /\ facts' = [facts EXCEPT ![p] = facts[p]]
             /\ \E tried \in {{}, {Mine(p, "icon")}} : Leave(tried, tried \cup {Mine(p, "inspect")}, {})
    BY <2>1, <2>5
  <2>6. CASE /\ facts' = [facts EXCEPT ![p] = [facts[p] EXCEPT !.name = FALSE]]
             /\ Remove(Mine(p, "inspect"))
    <3> DEFINE u == [facts[p] EXCEPT !.name = FALSE]
    <3>1. Reads(u, u.name, NoDir, NoDir, facts[p].pending, facts[p].error)
      BY <2>2, <2>6 DEF Reads
    <3>2. Left({}, {} \cup {Mine(p, "inspect")}, {})
      BY <2>2, <2>6 DEF Left
    <3> QED
      BY <2>2, <2>6, <3>1, <3>2
  <2>7. CASE /\ facts' = [facts EXCEPT ![p] = [facts[p] EXCEPT !.icon = Mine(p, "icon"),
                                                             !.staging = Mine(p, "icon")]]
             /\ Leave({Mine(p, "icon")}, {Mine(p, "inspect")}, {})
    <3> DEFINE u == [facts[p] EXCEPT !.icon = Mine(p, "icon"), !.staging = Mine(p, "icon")]
    <3>1. Reads(u, u.name, Mine(p, "icon"), Mine(p, "icon"), facts[p].pending, facts[p].error)
      BY <2>3, <2>7 DEF Reads
    <3> QED
      BY <2>3, <2>7, <3>1
  <2> QED
    BY <2>4, <2>5, <2>6, <2>7
<1>2. TypeOK'
  BY <1>0, <1>1 DEF Icon, ExtractEnds, TypeOK, SparesDisk, Reads, InWork, InUnsafe
<1>3. \A q \in Procs, k \in Kinds : Mine(q, k)' = Mine(q, k)
  BY DEF Icon, ExtractEnds, Mine
<1>4. Spares(p)
  BY <1>0, <1>1 DEF Icon, ExtractEnds, TypeOK, Spares
<1>5. (GateDecides(p) /\ Ran(p) /\ NothingYet(p) /\ Cancelled(p))'
  BY <1>0, <1>1
  DEF Icon, ExtractEnds, TypeOK, Reads, Sound, GateDecides, Ran,
       NothingYet, Cancelled, InWork
<1>u. facts'[p] = u /\ pc'[p] = "decide"
  BY <1>0, <1>1 DEF Icon, ExtractEnds, TypeOK
<1>6. OnDisk(p)'
  BY <1>0, <1>1, <1>3, <1>u, MineIsOwn
  DEF Reads, Sound, NothingYet, OnDisk, Left, Kinds, InWork, InUnsafe
<1>7. Kept(p)'
  BY <1>0, <1>1, <1>3, <1>u, MineIsOwn DEF Reads, Kept, Left, Kinds, InWork, InUnsafe
<1> QED
  BY <1>2, <1>4, <1>5, <1>6, <1>7, OwnStep DEF Sound

(* The fallback is on its way only with the gate and without a name.       *)
LEMMA DecideGoesOnKeeps ==
  ASSUME IInv, NEW p \in Procs, Decide(p), ~cancel[p]
  PROVE  IInv'
<1> USE DEF Keep, Goto
<1>0. TypeOK /\ Sound(p) /\ facts[p] \in Results /\ pc[p] # "idle"
  BY DEF IInv, TypeOK, Decide
<1>1. PICK u : /\ facts' = [facts EXCEPT ![p] = u]
               /\ Reads(u, facts[p].name, facts[p].icon, facts[p].staging, u.pending, facts[p].error)
  <2>1. CASE facts' = [facts EXCEPT ![p].ran = TRUE]
    BY <1>0, <2>1, UpdateReads DEF Reads
  <2>2. CASE facts' = [facts EXCEPT ![p].pending = ~facts[p].name /\ gate[p].on]
    <3>1. (~facts[p].name /\ gate[p].on) \in BOOLEAN
      OBVIOUS
    <3>2. Reads([facts[p] EXCEPT !.pending = ~facts[p].name /\ gate[p].on], facts[p].name,
                facts[p].icon, facts[p].staging, ~facts[p].name /\ gate[p].on, facts[p].error)
      BY <1>0, <3>1, FlagReads
    <3> QED
      BY <2>2, <3>2 DEF Reads
  <2> QED
    BY <2>1, <2>2 DEF Decide
<1>w. SparesDisk(p) /\ Left({}, {}, {})
  BY StillSpares DEF Decide
<1>2. TypeOK'
  BY <1>0, <1>1, <1>w DEF Decide, TypeOK, SparesDisk, Reads, InWork, InUnsafe
<1>3. \A q \in Procs, k \in Kinds : Mine(q, k)' = Mine(q, k)
  BY DEF Decide, Mine
<1>4. Spares(p)
  BY <1>0, <1>1, <1>w DEF Decide, TypeOK, Spares
<1>5. (GateDecides(p) /\ Ran(p) /\ NothingYet(p) /\ Cancelled(p))'
  BY <1>0, <1>1
  DEF Decide, TypeOK, Reads, Sound, GateDecides, Ran, NothingYet, Cancelled, InWork
<1>6. OnDisk(p)'
  BY <1>0, <1>1, <1>3, <1>w, MineIsOwn
  DEF Decide, TypeOK, Reads, Sound, NothingYet, OnDisk, Left, Kinds, InWork, InUnsafe
<1>7. Kept(p)'
  BY <1>0, <1>1, <1>3, <1>w, MineIsOwn
  DEF Decide, TypeOK, Reads, Sound, NothingYet, OnDisk, Kept, Left, Kinds, InWork, InUnsafe
<1> QED
  BY <1>2, <1>4, <1>5, <1>6, <1>7, OwnStep DEF Sound

(* The fallback makes its own directory, or gives up.                      *)
LEMMA FallbackBeginsKeeps ==
  ASSUME IInv, NEW p \in Procs, FallbackBegins(p)
  PROVE  IInv'
<1> USE DEF Keep, Goto
<1>0. TypeOK /\ Sound(p) /\ facts[p] \in Results /\ pc[p] # "idle"
  BY DEF IInv, TypeOK, FallbackBegins
<1>d. \A k \in Kinds : Mine(p, k) \in Dirs
  BY <1>0, UnderWayIsKept
<1>w. /\ SparesDisk(p)
      /\ \/ Left({}, {}, {}) /\ pc'[p] = "final"
         \/ Left({Mine(p, "unsafe")}, {}, {}) /\ pc'[p] = "copy"
  <2>1. CASE UNCHANGED disk /\ pc'[p] = "final"
    BY <2>1, StillSpares
  <2>2. CASE Make(Mine(p, "unsafe")) /\ pc'[p] = "copy"
    BY <1>0, <1>d, <2>2, OwnSpares DEF Make, Kinds
  <2> QED
    BY <1>0, <2>1, <2>2 DEF FallbackBegins, TypeOK
<1>2. TypeOK'
  BY <1>0, <1>w DEF FallbackBegins, TypeOK, SparesDisk, InWork, InUnsafe
<1>3. \A q \in Procs, k \in Kinds : Mine(q, k)' = Mine(q, k)
  BY DEF FallbackBegins, Mine
<1>4. Spares(p)
  BY <1>0, <1>w DEF FallbackBegins, TypeOK, Spares
<1>5. (GateDecides(p) /\ Ran(p) /\ NothingYet(p) /\ Cancelled(p))'
  BY <1>0
  DEF FallbackBegins, TypeOK, Sound, GateDecides, Ran, NothingYet, Cancelled, InWork
<1>6. OnDisk(p)'
  BY <1>0, <1>3, <1>w, MineIsOwn
  DEF FallbackBegins, TypeOK, Sound, NothingYet, OnDisk, Left, Kinds, InWork, InUnsafe
<1>7. Kept(p)'
  BY <1>0, <1>3, <1>w, MineIsOwn
  DEF FallbackBegins, TypeOK, Sound, NothingYet, OnDisk, Kept, Left, Kinds, InWork, InUnsafe
<1> QED
  BY <1>2, <1>4, <1>5, <1>6, <1>7, OwnStep DEF Sound

(* The copy of the file, which a cancel may end.                           *)
LEMMA CopyKeeps ==
  ASSUME IInv, NEW p \in Procs, Copy(p)
  PROVE  IInv'
<1> USE DEF Keep, Goto
<1>0. TypeOK /\ Sound(p) /\ facts[p] \in Results /\ pc[p] # "idle"
  BY DEF IInv, TypeOK, Copy
<1>w. /\ SparesDisk(p)
      /\ \/ Left({}, {}, {}) /\ pc'[p] = "run"
         \/ Left({}, {Mine(p, "unsafe")}, {}) /\ pc'[p] = "final"
  <2>1. CASE UNCHANGED disk /\ pc'[p] = "run"
    BY <2>1, StillSpares
  <2>2. CASE Remove(Mine(p, "unsafe")) /\ pc'[p] = "final"
    BY <1>0, <2>2, OwnSpares DEF Remove, Kinds
  <2> QED
    BY <1>0, <2>1, <2>2 DEF Copy, TypeOK
<1>2. TypeOK'
  BY <1>0, <1>w DEF Copy, TypeOK, SparesDisk, InWork, InUnsafe
<1>3. \A q \in Procs, k \in Kinds : Mine(q, k)' = Mine(q, k)
  BY DEF Copy, Mine
<1>4. Spares(p)
  BY <1>0, <1>w DEF Copy, TypeOK, Spares
<1>5. (GateDecides(p) /\ Ran(p) /\ NothingYet(p) /\ Cancelled(p))'
  BY <1>0
  DEF Copy, TypeOK, Sound, GateDecides, Ran, NothingYet, Cancelled, InWork
<1>6. OnDisk(p)'
  BY <1>0, <1>3, <1>w, MineIsOwn
  DEF Copy, TypeOK, Sound, NothingYet, OnDisk, Left, Kinds, InWork, InUnsafe
<1>7. Kept(p)'
  BY <1>0, <1>3, <1>w, MineIsOwn
  DEF Copy, TypeOK, Sound, NothingYet, OnDisk, Kept, Left, Kinds, InWork, InUnsafe
<1> QED
  BY <1>2, <1>4, <1>5, <1>6, <1>7, OwnStep DEF Sound

(* The run: what held when it began is what the gate and the extraction said. *)
LEMMA RunKeeps ==
  ASSUME IInv, NEW p \in Procs, Run(p)
  PROVE  IInv'
<1> USE DEF Keep, Goto
<1>0. TypeOK /\ Sound(p) /\ facts[p] \in Results /\ pc[p] # "idle"
  BY DEF IInv, TypeOK, Run
<1>d. /\ ranAt' \in [Procs -> [gate : Gates, named : BOOLEAN, did : BOOLEAN]]
      /\ ranAt'[p].did /\ ranAt'[p].gate = gate[p] /\ ranAt'[p].named = facts[p].name
      /\ \A q \in Procs \ {p} : ranAt'[q] = ranAt[q]
  <2>1. [gate |-> gate[p], named |-> facts[p].name, did |-> TRUE]
          \in [gate : Gates, named : BOOLEAN, did : BOOLEAN]
    BY <1>0 DEF TypeOK, Results
  <2> QED
    BY <1>0, <2>1 DEF Run, TypeOK
<1>w. /\ SparesDisk(p)
      /\ \/ Left({}, {}, {}) /\ pc'[p] = "verify"
         \/ Left({}, {Mine(p, "unsafe")}, {}) /\ pc'[p] = "final"
  <2>1. CASE UNCHANGED disk /\ pc'[p] = "verify"
    BY <2>1, StillSpares
  <2>2. CASE Remove(Mine(p, "unsafe")) /\ pc'[p] = "final"
    BY <1>0, <2>2, OwnSpares DEF Remove, Kinds
  <2> QED
    BY <1>0, <2>1, <2>2 DEF Run, TypeOK
<1>2. TypeOK'
  <2>1. pc' \in [Procs -> {"idle", "check", "hash", "extract", "decide", "fallback", "final", "done"}
                          \cup InWork \cup InUnsafe]
    BY <1>0 DEF Run, TypeOK, InUnsafe
  <2>2. UNCHANGED <<setting, nth, gate, facts, cancel, toggles, crashes>>
    BY DEF Run
  <2> QED
    BY <1>0, <1>d, <1>w, <2>1, <2>2 DEF TypeOK, SparesDisk
<1>3. \A q \in Procs, k \in Kinds : Mine(q, k)' = Mine(q, k)
  BY DEF Run, Mine
<1>4. Spares(p)
  BY <1>0, <1>d, <1>w DEF Run, TypeOK, Spares
<1>e. /\ pc[p] = "run" /\ pc'[p] \in {"verify", "final"}
      /\ facts' = facts /\ gate' = gate /\ cancel' = cancel
  BY <1>0 DEF Run, TypeOK
<1>5. (GateDecides(p) /\ Ran(p) /\ NothingYet(p) /\ Cancelled(p))'
  <2>1. GateDecides(p)' /\ NothingYet(p)' /\ Cancelled(p)'
    BY <1>0, <1>e DEF Sound, GateDecides, NothingYet, Cancelled, InWork
  <2>2. Ran(p)'
    BY <1>0, <1>d, <1>e DEF Sound, GateDecides, Ran
  <2> QED
    BY <2>1, <2>2
<1>6. OnDisk(p)'
  BY <1>0, <1>d, <1>3, <1>w, MineIsOwn
  DEF Run, TypeOK, Sound, NothingYet, OnDisk, Left, Kinds, InWork, InUnsafe
<1>7. Kept(p)'
  BY <1>0, <1>d, <1>3, <1>w, MineIsOwn
  DEF Run, TypeOK, Sound, NothingYet, OnDisk, Kept, Left, Kinds, InWork, InUnsafe
<1> QED
  BY <1>2, <1>4, <1>5, <1>6, <1>7, OwnStep DEF Sound

(* The tree of the run is refused, read without an icon, or read with one.   *)
LEMMA VerifyKeeps ==
  ASSUME IInv, NEW p \in Procs, Verify(p)
  PROVE  IInv'
<1> USE DEF Keep, Goto
<1>0. TypeOK /\ Sound(p) /\ facts[p] \in Results /\ pc[p] # "idle" /\ pc[p] = "verify"
  BY DEF IInv, TypeOK, Verify
<1>d. \A k \in Kinds : Mine(p, k) \in Dirs
  BY <1>0, UnderWayIsKept
<1>1. PICK u : /\ facts' = [facts EXCEPT ![p] = u] /\ SparesDisk(p)
               /\ \/ /\ Reads(u, u.name, u.icon, facts[p].staging, facts[p].pending, facts[p].error)
                     /\ u.icon \in {NoDir, facts[p].icon}
                     /\ \E tried \in {{}, {Mine(p, "icon2")}} :
                          Left(tried, tried \cup {Mine(p, "unsafe")}, {})
                  \/ /\ Reads(u, u.name, Mine(p, "icon2"), Mine(p, "icon2"), facts[p].pending, facts[p].error)
                     /\ Left({Mine(p, "icon2")}, {Mine(p, "unsafe")}, {facts[p].staging})
  <2>1. ASSUME NEW tried \in {{}, {Mine(p, "icon2")}},
               Leave(tried, tried \cup {Mine(p, "unsafe")}, {})
        PROVE  SparesDisk(p) /\ Left(tried, tried \cup {Mine(p, "unsafe")}, {})
    BY <1>0, <1>d, <2>1, OwnSpares DEF Kinds
  <2>2. ASSUME Leave({Mine(p, "icon2")}, {Mine(p, "unsafe")}, {facts[p].staging})
        PROVE  SparesDisk(p) /\ Left({Mine(p, "icon2")}, {Mine(p, "unsafe")}, {facts[p].staging})
    BY <1>0, <1>d, <2>2, OwnSpares DEF Kinds
  <2>3. CASE facts' = facts /\ Remove(Mine(p, "unsafe"))
    <3>1. facts' = [facts EXCEPT ![p] = facts[p]]
      BY <1>0, <2>3 DEF TypeOK
    <3>2. Leave({}, {} \cup {Mine(p, "unsafe")}, {})
      <4>1. {} \cup {Mine(p, "unsafe")} = {Mine(p, "unsafe")}
        OBVIOUS
      <4> QED
        BY <2>3, <4>1 DEF Remove
    <3>3. Reads(facts[p], facts[p].name, facts[p].icon, facts[p].staging,
                facts[p].pending, facts[p].error)
      BY <1>0 DEF Reads
    <3> QED
      BY <2>1, <3>1, <3>2, <3>3
  <2>4. ASSUME NEW named \in BOOLEAN, NEW tried \in {{}, {Mine(p, "icon2")}},
               Leave(tried, tried \cup {Mine(p, "unsafe")}, {}),
               facts' = [facts EXCEPT ![p] = [facts[p] EXCEPT !.name = named, !.icon = NoDir, !.used = TRUE]]
        PROVE  \E u : /\ facts' = [facts EXCEPT ![p] = u] /\ u.icon = NoDir
                      /\ Reads(u, u.name, u.icon, facts[p].staging, facts[p].pending, facts[p].error)
    <3>1. Reads([facts[p] EXCEPT !.name = named, !.icon = NoDir, !.used = TRUE], named, NoDir,
                facts[p].staging, facts[p].pending, facts[p].error)
      BY <1>0, FlagReads
    <3> QED
      BY <2>4, <3>1 DEF Reads
  <2>5. ASSUME NEW named \in BOOLEAN,
               facts' = [facts EXCEPT ![p] = [facts[p] EXCEPT !.name = named, !.used = TRUE,
                                                !.icon = Mine(p, "icon2"), !.staging = Mine(p, "icon2")]]
        PROVE  \E u : /\ facts' = [facts EXCEPT ![p] = u]
                      /\ Reads(u, u.name, Mine(p, "icon2"), Mine(p, "icon2"), facts[p].pending, facts[p].error)
    <3>1. Mine(p, "icon2") \in Dirs
      BY <1>d DEF Kinds
    <3>2. Reads([facts[p] EXCEPT !.name = named, !.used = TRUE, !.icon = Mine(p, "icon2"),
                                 !.staging = Mine(p, "icon2")],
                named, Mine(p, "icon2"), Mine(p, "icon2"), facts[p].pending, facts[p].error)
      BY <1>0, <3>1, IconReads
    <3> QED
      BY <2>5, <3>2 DEF Reads
  <2>6. CASE \E named \in BOOLEAN :
            /\ facts' = [facts EXCEPT ![p].name = named, ![p].icon = NoDir, ![p].used = TRUE]
            /\ \E tried \in {{}, {Mine(p, "icon2")}} : Leave(tried, tried \cup {Mine(p, "unsafe")}, {})
    BY <2>1, <2>4, <2>6
  <2>7. CASE \E named \in BOOLEAN :
            /\ facts' = [facts EXCEPT ![p].name = named, ![p].used = TRUE,
                                      ![p].icon = Mine(p, "icon2"),
                                      ![p].staging = Mine(p, "icon2")]
            /\ Leave({Mine(p, "icon2")}, {Mine(p, "unsafe")}, {facts[p].staging})
    BY <2>2, <2>5, <2>7
  <2> QED
    BY <2>3, <2>6, <2>7 DEF Verify, TreeRefused
<1>h. facts[p].icon \in {NoDir, facts[p].staging} /\ facts[p].staging # Mine(p, "unsafe")
  BY <1>0, MineIsOwn DEF TypeOK, Sound, OnDisk, Kinds
<1>2. TypeOK'
  BY <1>0, <1>1, <1>h DEF Verify, TypeOK, SparesDisk, Reads, InWork, InUnsafe
<1>3. \A q \in Procs, k \in Kinds : Mine(q, k)' = Mine(q, k)
  BY DEF Verify, Mine
<1>4. Spares(p)
  BY <1>0, <1>1 DEF Verify, TypeOK, Spares
<1>u. facts'[p] = u /\ pc'[p] = "final" /\ ranAt' = ranAt
  BY <1>0, <1>1 DEF Verify, TypeOK
<1>5. (GateDecides(p) /\ Ran(p) /\ NothingYet(p) /\ Cancelled(p))'
  BY <1>0, <1>u
  DEF Verify, Sound, GateDecides, Ran, NothingYet, Cancelled, InWork
<1>m. /\ Mine(p, "inspect") # Mine(p, "icon2") /\ Mine(p, "unsafe") # Mine(p, "icon2")
      /\ Mine(p, "icon") # Mine(p, "icon2") /\ Mine(p, "icon") # Mine(p, "unsafe")
      /\ Mine(p, "icon2") # NoDir /\ Mine(p, "icon") # NoDir
  BY MineIsOwn DEF Kinds
<1>o. OnDisk(p)
  BY <1>0 DEF Sound
<1>6. OnDisk(p)'
  <2>1. CASE /\ u.staging = facts[p].staging
             /\ \E tried \in {{}, {Mine(p, "icon2")}} :
                  Left(tried, tried \cup {Mine(p, "unsafe")}, {})
    BY <1>0, <1>3, <1>m, <1>o, <1>u, <2>1 DEF OnDisk, Left, Kinds, InWork, InUnsafe
  <2>2. CASE /\ u.staging = Mine(p, "icon2")
             /\ Left({Mine(p, "icon2")}, {Mine(p, "unsafe")}, {facts[p].staging})
    BY <1>0, <1>3, <1>m, <1>o, <1>u, <2>2 DEF OnDisk, Left, Kinds, InWork, InUnsafe
  <2> QED
    BY <1>1, <2>1, <2>2 DEF Reads
<1>7. Kept(p)'
  <2>1. /\ facts[p].icon # NoDir => facts[p].icon \in dirs
        /\ facts[p].staging # Mine(p, "icon2")
    BY <1>0, <1>o DEF Sound, Kept, OnDisk
  <2>2. CASE /\ u.icon \in {NoDir, facts[p].icon}
             /\ \E tried \in {{}, {Mine(p, "icon2")}} :
                  Left(tried, tried \cup {Mine(p, "unsafe")}, {})
    BY <1>h, <1>m, <1>u, <2>1, <2>2 DEF Kept, Left, InWork, InUnsafe
  <2>3. CASE /\ u.icon = Mine(p, "icon2")
             /\ Left({Mine(p, "icon2")}, {Mine(p, "unsafe")}, {facts[p].staging})
    BY <1>m, <1>u, <2>3 DEF Kept, Left, InWork, InUnsafe
  <2> QED
    BY <1>1, <2>2, <2>3 DEF Reads
<1> QED
  BY <1>2, <1>4, <1>5, <1>6, <1>7, OwnStep DEF Sound

(* The last look at the cancel flag.                                       *)
LEMMA FinalGoesOnKeeps ==
  ASSUME IInv, NEW p \in Procs, Final(p), ~cancel[p]
  PROVE  IInv'
<1> USE DEF Keep, Goto
<1>0. TypeOK /\ Sound(p) /\ facts[p] \in Results /\ pc[p] # "idle"
  BY DEF IInv, TypeOK, Final
<1>w. SparesDisk(p) /\ Left({}, {}, {})
  BY StillSpares DEF Final
<1>2. TypeOK'
  BY <1>0, <1>w DEF Final, TypeOK, SparesDisk, InWork, InUnsafe
<1>3. \A q \in Procs, k \in Kinds : Mine(q, k)' = Mine(q, k)
  BY DEF Final, Mine
<1>4. Spares(p)
  BY <1>0, <1>w DEF Final, TypeOK, Spares
<1>5. (GateDecides(p) /\ Ran(p) /\ NothingYet(p) /\ Cancelled(p))'
  BY <1>0
  DEF Final, TypeOK, Sound, GateDecides, Ran, NothingYet, Cancelled, InWork
<1>6. OnDisk(p)'
  BY <1>0, <1>3, <1>w, MineIsOwn
  DEF Final, TypeOK, Sound, NothingYet, OnDisk, Left, Kinds, InWork, InUnsafe
<1>7. Kept(p)'
  BY <1>0, <1>3, <1>w, MineIsOwn
  DEF Final, TypeOK, Sound, NothingYet, OnDisk, Kept, Left, Kinds, InWork, InUnsafe
<1> QED
  BY <1>2, <1>4, <1>5, <1>6, <1>7, OwnStep DEF Sound

(* The caller discards the staging: the inspection is over.                *)
LEMMA DiscardKeeps ==
  ASSUME IInv, NEW p \in Procs, Discard(p)
  PROVE  IInv'
<1> USE DEF Keep, Goto
<1>0. TypeOK /\ Sound(p) /\ facts[p] \in Results /\ pc[p] # "idle"
  BY DEF IInv, TypeOK, Discard
<1>1. PICK u : /\ facts' = [facts EXCEPT ![p] = u]
               /\ Reads(u, FALSE, NoDir, NoDir, FALSE, "")
  BY <1>0, BlankReads DEF Discard, TypeOK
<1>s. facts[p].staging \in {NoDir, Mine(p, "icon"), Mine(p, "icon2")}
  BY <1>0 DEF Sound, OnDisk
<1>w. SparesDisk(p) /\ Left({}, {facts[p].staging}, {})
  BY <1>0, <1>s, OwnSpares DEF Discard, Remove, Kinds
<1>2. TypeOK'
  BY <1>0, <1>1, <1>w DEF Discard, TypeOK, SparesDisk, Reads, InWork, InUnsafe
<1>3. \A q \in Procs, k \in Kinds : Mine(q, k)' = Mine(q, k)
  BY DEF Discard, Mine
<1>4. Spares(p)
  BY <1>0, <1>1, <1>w DEF Discard, TypeOK, Spares
<1>5. Sound(p)'
  BY <1>0, <1>1 DEF Discard, TypeOK, Sound, GateDecides, Ran
<1> QED
  BY <1>2, <1>4, <1>5, OwnStep

(* A cancel sets the flag of an inspection that is not over.                *)
LEMMA CancelKeeps ==
  ASSUME IInv, NEW p \in Procs, Cancel(p)
  PROVE  IInv'
<1> USE DEF Keep, Goto
<1>0. TypeOK /\ Sound(p) /\ facts[p] \in Results /\ pc[p] # "idle"
  BY DEF IInv, TypeOK, Cancel
<1>w. SparesDisk(p) /\ Left({}, {}, {})
  BY StillSpares DEF Cancel
<1>2. TypeOK'
  BY <1>0, <1>w DEF Cancel, TypeOK, SparesDisk, InWork, InUnsafe
<1>3. \A q \in Procs, k \in Kinds : Mine(q, k)' = Mine(q, k)
  BY DEF Cancel, Mine
<1>4. Spares(p)
  BY <1>0, <1>w DEF Cancel, TypeOK, Spares
<1>5. (GateDecides(p) /\ Ran(p) /\ NothingYet(p) /\ Cancelled(p))'
  BY <1>0
  DEF Cancel, TypeOK, Sound, GateDecides, Ran, NothingYet, Cancelled, InWork
<1>6. OnDisk(p)'
  BY <1>0, <1>3, <1>w, MineIsOwn
  DEF Cancel, TypeOK, Sound, NothingYet, OnDisk, Left, Kinds, InWork, InUnsafe
<1>7. Kept(p)'
  BY <1>0, <1>3, <1>w, MineIsOwn
  DEF Cancel, TypeOK, Sound, NothingYet, OnDisk, Kept, Left, Kinds, InWork, InUnsafe
<1> QED
  BY <1>2, <1>4, <1>5, <1>6, <1>7, OwnStep DEF Sound

(* A process that dies leaves its directories to the sweep.                *)
LEMMA CrashKeeps ==
  ASSUME IInv, NEW p \in Procs, Crash(p)
  PROVE  IInv'
<1> USE DEF Goto
<1>0. TypeOK /\ Sound(p) /\ facts' = [facts EXCEPT ![p] = Blank] /\ Blank \in Results
  BY BlankReads DEF IInv, Crash, Reads
<1>1. TypeOK'
  <2>1. crashes' \in 0..MaxCrashes
    BY <1>0, InspectionAssumption DEF Crash, TypeOK
  <2>2. \A q \in Procs : facts'[q].icon \in {NoDir, facts'[q].staging}
    BY <1>0, BlankReads DEF TypeOK, Reads
  <2> QED
    BY <1>0, <2>1, <2>2 DEF Crash, TypeOK, disk
<1>w. SparesDisk(p)
  BY StillSpares DEF Crash
<1>2. Spares(p)
  BY <1>0, <1>w DEF Crash, TypeOK, Spares
<1>3. Sound(p)'
  BY <1>0 DEF Crash, TypeOK, Sound, GateDecides, Ran
<1> QED
  BY <1>1, <1>2, <1>3, OwnStep

(* A new inspection finds none of its directories on disk.                 *)
LEMMA BeginKeeps ==
  ASSUME IInv, NEW p \in Procs, NEW confirmed \in BOOLEAN, Begin(p, confirmed)
  PROVE  IInv'
<1> USE DEF Goto, disk
<1>0. TypeOK /\ Sound(p) /\ Numbered
  BY DEF IInv
<1>1. nth[p] \in Nat /\ nth[p] + 1 \in 1..MaxInspections /\ nth'[p] = nth[p] + 1
  BY <1>0, InspectionAssumption DEF Begin, TypeOK
<1>2. TypeOK'
  <2>1. Gated(confirmed) \in Gates /\ NotRun \in [gate : Gates, named : BOOLEAN, did : BOOLEAN]
    BY <1>0 DEF Gated, Gates, NotRun, NoGate, TypeOK
  <2> QED
    <3>1. /\ facts' \in [Procs -> Results] /\ gate' \in [Procs -> Gates]
          /\ ranAt' \in [Procs -> [gate : Gates, named : BOOLEAN, did : BOOLEAN]]
      BY <1>0, <2>1, BlankReads DEF Begin, TypeOK, Reads
    <3>2. \A q \in Procs : facts'[q].icon \in {NoDir, facts'[q].staging}
      BY <1>0, BlankReads DEF Begin, TypeOK, Reads
    <3>3. nth' \in [Procs -> 0..MaxInspections]
      BY <1>0, <1>1 DEF Begin, TypeOK
    <3> QED
      BY <1>0, <3>1, <3>2, <3>3 DEF Begin, TypeOK
<1>3. /\ \A q \in Procs, k \in Kinds : q # p => Mine(q, k)' = Mine(q, k)
      /\ \A k \in Kinds : Mine(p, k)' \notin dirs'
  <2>1. \A k \in Kinds : Mine(p, k)'.proc = p /\ Mine(p, k)'.nth = nth[p] + 1
    BY <1>1 DEF Mine
  <2>2. \A d \in dirs : d.proc = p => d.nth <= nth[p]
    BY <1>0 DEF Numbered
  <2>3. \A d \in dirs : d.proc = p => d.nth # nth[p] + 1
    BY <1>1, <2>2, <1>0 DEF TypeOK, Dirs
  <2>4. \A q \in Procs : q # p => nth'[q] = nth[q]
    BY <1>0 DEF Begin, TypeOK
  <2> QED
    BY <2>1, <2>3, <2>4 DEF Begin, Mine
<1>4. Numbered'
  <2>1. \A d \in dirs : d.proc \in Procs /\ d.nth \in Nat /\ nth[d.proc] \in Nat
    BY <1>0, InspectionAssumption DEF TypeOK, Dirs
  <2>2. \A q \in Procs : nth'[q] = IF q = p THEN nth[p] + 1 ELSE nth[q]
    BY <1>0 DEF Begin, TypeOK
  <2>3. \A q \in Procs \ {p} : pc'[q] = pc[q]
    BY <1>0 DEF Begin, TypeOK
  <2> QED
    BY <1>0, <1>1, <2>1, <2>2, <2>3 DEF Numbered, Begin
<1>5. InUseIsRecent'
  <2>1. \A d \in dirs : d.proc \in Procs
    BY <1>0 DEF TypeOK, Dirs
  <2>2. \A d \in dirs : d.proc = p => d.nth # nth'[p]
    BY <1>0, <1>1, InspectionAssumption DEF Numbered, TypeOK, Dirs
  <2>3. dirs' = dirs /\ times' = times
        /\ \A q \in Procs \ {p} : pc'[q] = pc[q] /\ nth'[q] = nth[q]
    BY <1>0 DEF Begin, TypeOK
  <2> QED
    BY <2>1, <2>2, <2>3 DEF IInv, InUseIsRecent, InUse
<1>6. Sound(p)'
  <2>1. /\ facts'[p] = Blank /\ ranAt'[p] = NotRun /\ gate'[p] = Gated(confirmed) /\ pc'[p] = "check"
    BY <1>0 DEF Begin, TypeOK
  <2>2. /\ ~facts'[p].name /\ ~facts'[p].pending
        /\ facts'[p].staging = NoDir /\ facts'[p].icon = NoDir /\ ~ranAt'[p].did
    <3>1. ~NotRun.did
      BY DEF NotRun
    <3> QED
      BY <2>1, <3>1, BlankReads DEF Reads
  <2>3. gate'[p].allow => gate'[p].on /\ gate'[p].confirmed
    <3>1. setting \in BOOLEAN
      BY <1>0 DEF TypeOK
    <3> QED
      BY <2>1, <3>1 DEF Gated
  <2>4. (GateDecides(p) /\ Ran(p) /\ NothingYet(p) /\ Cancelled(p))'
    BY <2>1, <2>2, <2>3 DEF GateDecides, Ran, NothingYet, Cancelled, InWork
  <2>5. (OnDisk(p) /\ Kept(p))'
    <3>1. Mine(p, "icon2")' # NoDir
      BY DEF Mine, NoDir
    <3> QED
      BY <1>3, <2>1, <2>2, <3>1 DEF OnDisk, Kept, Kinds, InWork, InUnsafe
  <2> QED
    BY <2>4, <2>5 DEF Sound
<1>7. ASSUME NEW q \in Procs \ {p} PROVE Sound(q)'
  <2>1. /\ pc'[q] = pc[q] /\ gate'[q] = gate[q] /\ cancel'[q] = cancel[q] /\ facts'[q] = facts[q]
        /\ ranAt'[q] = ranAt[q] /\ dirs' = dirs /\ behind' = behind
    BY <1>0 DEF Begin, TypeOK
  <2>2. Sound(q)
    BY DEF IInv
  <2>3. GateDecides(q)' /\ Ran(q)'
    BY <2>1, <2>2 DEF Sound, GateDecides, Ran
  <2>4. pc[q] # "idle" => NothingYet(q)' /\ Cancelled(q)'
    BY <2>1, <2>2 DEF Sound, NothingYet, Cancelled
  <2>5. pc[q] # "idle" => OnDisk(q)' /\ Kept(q)'
    BY <1>3, <2>1, <2>2 DEF Sound, OnDisk, Kept, Kinds
  <2> QED
    BY <2>1, <2>3, <2>4, <2>5 DEF Sound
<1> QED
  BY <1>2, <1>4, <1>5, <1>6, <1>7 DEF IInv

(* Time passes for directories that nobody works in.                       *)
LEMMA AgesKeeps ==
  ASSUME IInv, NEW d \in Dirs, Ages(d)
  PROVE  IInv'
<1>1. TypeOK'
  <2>1. [mtime |-> "old", ctime |-> "old"] \in Times
    BY DEF Times
  <2> QED
    BY <2>1 DEF IInv, Ages, TypeOK
<1>2. Numbered'
  BY DEF IInv, Ages, Numbered
<1>3. InUseIsRecent'
  BY DEF IInv, TypeOK, Ages, InUseIsRecent, InUse
<1>4. ASSUME NEW q \in Procs PROVE Sound(q)'
  <2>1. \A k \in Kinds : Mine(q, k)' = Mine(q, k)
    BY DEF Ages, Mine
  <2>2. Sound(q)
    BY DEF IInv
  <2>3. (pc[q] # "idle" => OnDisk(q) /\ Kept(q)) => (pc[q] # "idle" => OnDisk(q) /\ Kept(q))'
    BY <2>1 DEF Ages, OnDisk, Kept, Kinds
  <2> QED
    BY <2>2, <2>3 DEF Ages, Sound, GateDecides, Ran, NothingYet, Cancelled
<1> QED
  BY <1>1, <1>2, <1>3, <1>4 DEF IInv

(* A change of the setting touches no inspection that has begun.           *)
LEMMA QuietKeeps ==
  ASSUME IInv, Toggle \/ UNCHANGED vars
  PROVE  IInv'
<1>0. UNCHANGED <<pc, nth, gate, cancel, facts, ranAt, dirs, times, behind, stuck>>
  BY DEF Toggle, vars, disk
<1>1. TypeOK'
  <2>0. setting \in BOOLEAN /\ toggles \in 0..MaxToggles
    BY DEF IInv, TypeOK
  <2>1. setting' \in BOOLEAN
    BY <2>0 DEF Toggle, vars
  <2>2. toggles' \in 0..MaxToggles /\ crashes' = crashes
    BY <2>0, InspectionAssumption DEF Toggle, vars
  <2> QED
    BY <1>0, <2>1, <2>2 DEF IInv, TypeOK
<1>2. Numbered' /\ InUseIsRecent'
  BY <1>0 DEF IInv, Numbered, InUseIsRecent, InUse
<1>3. ASSUME NEW q \in Procs PROVE Sound(q)'
  <2>1. \A k \in Kinds : Mine(q, k)' = Mine(q, k)
    BY <1>0 DEF Mine
  <2>2. Sound(q)
    BY DEF IInv
  <2>3. (pc[q] # "idle" => OnDisk(q) /\ Kept(q)) => (pc[q] # "idle" => OnDisk(q) /\ Kept(q))'
    BY <1>0, <2>1 DEF OnDisk, Kept, Kinds
  <2> QED
    BY <1>0, <2>2, <2>3 DEF Sound, GateDecides, Ran, NothingYet, Cancelled
<1> QED
  BY <1>1, <1>2, <1>3 DEF IInv

-----------------------------------------------------------------------------
LEMMA IInvInit == Init => IInv
<1> SUFFICES ASSUME Init PROVE IInv
  OBVIOUS
<1> USE InspectionAssumption DEF Init
<1>1. TypeOK
  <2>1. NoGate \in Gates /\ NotRun \in [gate : Gates, named : BOOLEAN, did : BOOLEAN] /\ Recent \in Times
    BY DEF NoGate, Gates, NotRun, Times, Recent
  <2>2. \A p \in Procs : facts[p].icon \in {NoDir, facts[p].staging}
    BY BlankReads DEF Reads
  <2>3. facts \in [Procs -> Results]
    BY BlankReads DEF Reads
  <2> QED
    BY <2>1, <2>2, <2>3 DEF TypeOK
<1>2. Numbered /\ InUseIsRecent
  BY DEF Numbered, InUseIsRecent
<1>3. ASSUME NEW p \in Procs PROVE Sound(p)
  BY DEF Sound, GateDecides, Ran, NoGate, NotRun
<1> QED
  BY <1>1, <1>2, <1>3 DEF IInv

LEMMA IInvStep == IInv /\ [Next]_vars => IInv'
<1> SUFFICES ASSUME IInv, [Next]_vars PROVE IInv'
  OBVIOUS
<1>1. ASSUME NEW p \in Procs, Hash(p) PROVE IInv'
  <2>1. CASE cancel[p]
    BY <1>1, <2>1, StopKeeps DEF Hash
  <2> QED
    BY <1>1, <2>1, HashGoesOnKeeps
<1>2. ASSUME NEW p \in Procs, Decide(p) PROVE IInv'
  <2>1. CASE cancel[p]
    BY <1>2, <2>1, StopKeeps DEF Decide
  <2> QED
    BY <1>2, <2>1, DecideGoesOnKeeps
<1>3. ASSUME NEW p \in Procs, Final(p) PROVE IInv'
  <2>1. CASE cancel[p]
    BY <1>3, <2>1, StopKeeps DEF Final
  <2> QED
    BY <1>3, <2>1, FinalGoesOnKeeps
<1>4. ASSUME NEW p \in Procs, Step(p) PROVE IInv'
  BY <1>1, <1>2, <1>3, <1>4, CheckKeeps, ExtractBeginsKeeps, ListKeeps, DesktopKeeps, IconKeeps,
     FallbackBeginsKeeps, CopyKeeps, RunKeeps, VerifyKeeps, DiscardKeeps DEF Step
<1> QED
  BY <1>4, BeginKeeps, CancelKeeps, CrashKeeps, AgesKeeps, QuietKeeps DEF Next

LEMMA IInvHolds == Spec => []IInv
<1> QED
  BY IInvInit, IInvStep, PTL DEF Spec

-----------------------------------------------------------------------------
(* What an inspection keeps in memory and on disk has its type, and the    *)
(* icon it names is the one it staged (inspector.rs).                      *)
THEOREM TypeCorrect == Spec => []TypeOK
<1>1. IInv => TypeOK
  BY DEF IInv
<1> QED
  BY <1>1, IInvHolds, PTL

(* A file is run only for an inspection that found the setting on and the  *)
(* file confirmed when it began, whatever is toggled meanwhile             *)
(* (inspector.rs:22, 175-190).                                             *)
THEOREM RunsOnlyConfirmed == Spec => []FileRunsOnlyConfirmed
<1>1. IInv => FileRunsOnlyConfirmed
  BY DEF IInv, Sound, Ran, FileRunsOnlyConfirmed
<1> QED
  BY <1>1, IInvHolds, PTL

(* A cancel at any step leaves nothing that passes for a result            *)
(* (inspector.rs:148, 171, 223).                                           *)
THEOREM CancelGivesNoResult == Spec => []CancelledIsNoResult
<1>1. IInv => CancelledIsNoResult
  BY DEF IInv, Sound, Cancelled, CancelledIsNoResult
<1> QED
  BY <1>1, IInvHolds, PTL

(* Every way an inspection can end leaves on disk, of all it made, only    *)
(* the staging it names, what a removal failed to take away, and an icon    *)
(* that the fallback replaced in the result (inspector.rs:195, 303, 322).   *)
THEOREM LeavesOnlyStaging == Spec => []OnlyStagingIsLeft
<1>1. IInv => OnlyStagingIsLeft
  BY DEF IInv, Sound, OnDisk, OnlyStagingIsLeft, Kinds, InWork, InUnsafe
<1> QED
  BY <1>1, IInvHolds, PTL

(* No sweep, of any process at any time, takes a directory that another    *)
(* inspection uses (inspector.rs:740).                                     *)
THEOREM SweepKeepsLiveDirs == Spec => []LiveDirsAreKept
<1>1. IInv => LiveDirsAreKept
  BY DEF IInv, Sound, Kept, LiveDirsAreKept, InWork, InUnsafe
<1> QED
  BY <1>1, IInvHolds, PTL
=============================================================================
