------------------------- MODULE ManagedSystem_proofs -------------------------
(***************************************************************************)
(* Proofs about the managed folder, for any sets of paths, AppImages and   *)
(* uuids and any number of operations, faults and crashes.                 *)
(*                                                                         *)
(* What several processes may not do to each other's files follows from an *)
(* invariant on their records alone (SharedInv).  What one operation does  *)
(* to the folder and the registry is proved for one process at a time      *)
(* (OneProcess), as the runs check it: another process may change the file *)
(* or the row of an operation between any two of its steps.                *)
(***************************************************************************)
EXTENDS ManagedSystem, TLAPS

OneProcess == \E p : Proc = {p}

-----------------------------------------------------------------------------
(* Rows, in the database or read from it, and the app of an operation past *)
(* the gate have a uuid that was given out.                                *)
RowsAreUsed ==
  /\ \A u \in Uuid : db[u] # Nothing => u \in used
  /\ \A p \in Proc : \A u \in Uuid : proc[p].mem[u] # Nothing => u \in used

IdIsUsed ==
  \A p \in Proc : proc[p].at \notin {"idle", "gate"} => proc[p].id \in used

(* Only a replace makes backups.                                           *)
OnlyReplacesBackUp ==
  \A p \in Proc : (At(p, "backups") \/ proc[p].backed) => ~Fresh(p)

SharedInv == TypeOK /\ RowsAreUsed /\ IdIsUsed /\ OnlyReplacesBackUp

-----------------------------------------------------------------------------
(* The rest is about one process.                                          *)
Placing   == {"stage", "entry", "icon", "backups", "commit"}
Undoing   == {"undoFile", "undoEntry", "undoIcon", "undoRows", "undoTemps"}
Removing  == {"unlink", "dropEntry", "dropIcon", "dropRow"}
Integrating == Placing \cup Undoing \cup {"gate", "upsert", "dropBackups", "tail"}
Failed(p) == At(p, "idle") /\ proc[p].kind = "integrate" /\ proc[p].outcome = "failed"

KindFits(p) ==
  /\ proc[p].at \in Integrating => proc[p].kind = "integrate"
  /\ proc[p].at \in Removing => proc[p].kind = "remove" /\ Target(p) # Nothing

(* What was read is what is there until the operation writes its row.      *)
MemIsCurrent(p) ==
  /\ (proc[p].at \notin {"idle", "dropBackups", "tail"} \/ Failed(p)) => db = proc[p].mem
  /\ proc[p].at \in {"dropBackups", "tail"} => db[proc[p].id] = NewRow(p)

(* The file on its way: staged, with the name still free or the file that  *)
(* has it backed up, and then at its path.                                 *)
FileOnItsWay(p) ==
  LET r == proc[p]
  IN  /\ r.at \in Placing \cup {"gate"} => ~r.placed
      /\ r.at \in Placing \ {"stage"} => stage[p] = r.from
      /\ r.at \in Placing /\ Fresh(p) => file[r.dest] = Nothing
      /\ r.at = "commit" /\ ~Fresh(p) =>
           backup[p].app = file[r.dest] /\ r.backed = (file[r.dest] # Nothing)
      /\ r.at \in {"upsert", "dropBackups", "tail"} => file[r.dest] = r.from

(* A rollback comes of a failing call, and what a fresh install placed is  *)
(* gone after its first step, unless a second call fails.                  *)
UndoneForAFault(p) ==
  /\ proc[p].at \in Undoing => faults > 0
  /\ /\ proc[p].at \in Undoing \ {"undoFile"} \/ Failed(p)
     /\ Fresh(p) /\ proc[p].placed /\ faults <= 1
     => file[proc[p].dest] = Nothing

RemovalGoesOn(p) ==
  LET r == proc[p]
  IN  /\ r.at \in Removing \ {"unlink"} => file[Target(p).path] = Nothing
      /\ r.at \in {"dropIcon", "dropRow"} /\ r.cleaned /\ Target(p).desktop =>
           entry[r.id] = Nothing
      /\ r.at = "dropRow" /\ r.cleaned /\ Target(p).icon => icon[r.id] = Nothing
      /\ (At(p, "idle") /\ r.kind = "remove" /\ r.outcome = "ok") =>
           /\ db[r.id] = Nothing /\ file[Target(p).path] = Nothing
           /\ Target(p).desktop => entry[r.id] = Nothing
           /\ Target(p).icon => icon[r.id] = Nothing

(* Where the file of a registered app is.  Between the commit and the      *)
(* upsert or the rollback, a replace has it in its backup; a crash leaves  *)
(* it in a .gosh- file.                                                    *)
Between(u, p) == proc[p].at \in {"upsert", "undoFile"} /\ db[u].path = proc[p].dest

KeptBy(u, p) ==
  IF Between(u, p)
  THEN ~Fresh(p) /\ proc[p].backed /\ backup[p].app = db[u].sha
  ELSE file[db[u].path] = db[u].sha

Tolerated == faults = 0 \/ (faults <= 1 /\ crashes = 0)

Kept ==
  \A u \in intact : db[u] # Nothing =>
    /\ db[u].sha \in Content
    /\ Tolerated => \/ crashes > 0 /\ db[u].sha \in left
                    \/ \A p \in Proc : KeptBy(u, p)

Phase(p) ==
  /\ KindFits(p) /\ MemIsCurrent(p) /\ FileOnItsWay(p)
  /\ UndoneForAFault(p) /\ RemovalGoesOn(p)

IInv == SharedInv /\ Kept /\ \A p \in Proc : Phase(p)

-----------------------------------------------------------------------------
(* One step writes the record of one process.                              *)
Others(p) ==
  proc' \in [Proc -> Operation] /\ \A q \in Proc \ {p} : proc'[q] = proc[q]

SameTask(p) ==
  /\ proc'[p].kind = proc[p].kind /\ proc'[p].mem = proc[p].mem
  /\ proc'[p].from = proc[p].from /\ proc'[p].policy = proc[p].policy

SameWork(p) ==
  /\ proc'[p].id = proc[p].id /\ proc'[p].dest = proc[p].dest
  /\ proc'[p].backed = proc[p].backed /\ proc'[p].placed = proc[p].placed
  /\ proc'[p].cleaned = proc[p].cleaned

LEMMA OperationFields ==
  ASSUME NEW r \in Operation
  PROVE  /\ r.at \in Step /\ r.outcome \in Outcome /\ r.mem \in Registry
         /\ r.from \in Content /\ r.policy \in Policy /\ r.id \in Uuid /\ r.dest \in Path
         /\ r.backed \in BOOLEAN /\ r.placed \in BOOLEAN /\ r.cleaned \in BOOLEAN
         /\ r.move \in BOOLEAN /\ r.permanent \in BOOLEAN
         /\ r.kind \in {"integrate", "remove"}
  BY DEF Operation

LEMMA RecordFrame ==
  ASSUME proc \in [Proc -> Operation], NEW p \in Proc, NEW m \in Operation,
         proc' = [proc EXCEPT ![p] = m]
  PROVE  Others(p) /\ proc'[p] = m
  BY DEF Others

LEMMA GotoRecord ==
  ASSUME proc \in [Proc -> Operation], NEW p \in Proc, NEW s \in Step, Goto(p, s)
  PROVE  /\ Others(p) /\ SameTask(p) /\ SameWork(p)
         /\ proc'[p].at = s /\ proc'[p].outcome = proc[p].outcome
<1> DEFINE m == [proc[p] EXCEPT !.at = s]
<1>1. proc[p] \in Operation
  OBVIOUS
<1>2. /\ m \in Operation /\ m.at = s /\ m.outcome = proc[p].outcome
      /\ m.kind = proc[p].kind /\ m.mem = proc[p].mem /\ m.from = proc[p].from
      /\ m.policy = proc[p].policy /\ m.id = proc[p].id /\ m.dest = proc[p].dest
      /\ m.backed = proc[p].backed /\ m.placed = proc[p].placed
      /\ m.cleaned = proc[p].cleaned
  BY <1>1 DEF Operation
<1>3. proc' = [proc EXCEPT ![p] = m]
  BY DEF Goto
<1> HIDE DEF m
<1>4. Others(p) /\ proc'[p] = m
  BY <1>2, <1>3, RecordFrame
<1> QED
  BY <1>2, <1>4 DEF SameTask, SameWork

LEMMA FinishRecord ==
  ASSUME proc \in [Proc -> Operation], NEW p \in Proc, NEW o \in Outcome, Finish(p, o)
  PROVE  /\ Others(p) /\ SameTask(p) /\ SameWork(p)
         /\ proc'[p].at = "idle" /\ proc'[p].outcome = o
<1> DEFINE m == [proc[p] EXCEPT !.at = "idle", !.outcome = o]
<1>1. proc[p] \in Operation
  OBVIOUS
<1>2. /\ m \in Operation /\ m.at = "idle" /\ m.outcome = o
      /\ m.kind = proc[p].kind /\ m.mem = proc[p].mem /\ m.from = proc[p].from
      /\ m.policy = proc[p].policy /\ m.id = proc[p].id /\ m.dest = proc[p].dest
      /\ m.backed = proc[p].backed /\ m.placed = proc[p].placed
      /\ m.cleaned = proc[p].cleaned
  BY <1>1 DEF Operation, Step
<1>3. proc' = [proc EXCEPT ![p] = m]
  BY DEF Finish
<1> HIDE DEF m
<1>4. Others(p) /\ proc'[p] = m
  BY <1>2, <1>3, RecordFrame
<1> QED
  BY <1>2, <1>4 DEF SameTask, SameWork

(* A new operation reads the registry and starts with nothing done.        *)
LEMMA IntegrateRecord ==
  ASSUME TypeOK, NEW p \in Proc, BeginIntegrate(p)
  PROVE  /\ Others(p)
         /\ proc'[p].at = "gate" /\ proc'[p].outcome = "none"
         /\ proc'[p].kind = "integrate" /\ proc'[p].mem = db
         /\ ~proc'[p].backed /\ ~proc'[p].placed
         /\ At(p, "idle") /\ ops' = ops + 1
         /\ UNCHANGED <<file, artifacts, db, stage, backup, left, source, used, intact,
                        faults, crashes>>
<1>1. PICK c \in source, policy \in Policy, move \in BOOLEAN, u \in Uuid :
        Open(p, [proc[p] EXCEPT !.at = "gate", !.kind = "integrate", !.from = c,
                                !.policy = policy, !.move = move, !.id = u])
  BY DEF BeginIntegrate
<1> DEFINE n == [proc[p] EXCEPT !.at = "gate", !.kind = "integrate", !.from = c,
                                !.policy = policy, !.move = move, !.id = u]
           m == [n EXCEPT !.mem = db, !.outcome = "none", !.hadEntry = FALSE,
                          !.hadIcon = FALSE, !.backed = FALSE, !.placed = FALSE,
                          !.cleaned = TRUE]
<1>2. proc[p] \in Operation /\ db \in Registry /\ c \in Content /\ proc \in [Proc -> Operation]
  BY DEF TypeOK
<1>3. n \in Operation /\ n.at = "gate" /\ n.kind = "integrate"
  BY <1>2 DEF Operation, Step
<1>4. proc' = [proc EXCEPT ![p] = m]
  BY <1>1 DEF Open
<1> HIDE DEF n
<1>5. /\ m \in Operation /\ m.at = "gate" /\ m.kind = "integrate" /\ m.outcome = "none"
      /\ m.mem = db /\ ~m.backed /\ ~m.placed
  BY <1>2, <1>3 DEF Operation, Outcome
<1> HIDE DEF m
<1>6. Others(p) /\ proc'[p] = m
  BY <1>2, <1>4, <1>5, RecordFrame
<1> QED
  BY <1>1, <1>5, <1>6 DEF Open

LEMMA RemoveRecord ==
  ASSUME TypeOK, NEW p \in Proc, BeginRemove(p)
  PROVE  /\ Others(p)
         /\ proc'[p].at = "unlink" /\ proc'[p].outcome = "none"
         /\ proc'[p].kind = "remove" /\ proc'[p].mem = db
         /\ ~proc'[p].backed /\ ~proc'[p].placed /\ db[proc'[p].id] # Nothing
         /\ At(p, "idle") /\ ops' = ops + 1
         /\ UNCHANGED <<file, artifacts, db, stage, backup, left, source, used, intact,
                        faults, crashes>>
<1>1. PICK u \in Uuid, permanent \in BOOLEAN :
        /\ db[u] # Nothing
        /\ Open(p, [proc[p] EXCEPT !.at = "unlink", !.kind = "remove",
                                   !.permanent = permanent, !.id = u])
  BY DEF BeginRemove
<1> DEFINE n == [proc[p] EXCEPT !.at = "unlink", !.kind = "remove",
                                !.permanent = permanent, !.id = u]
           m == [n EXCEPT !.mem = db, !.outcome = "none", !.hadEntry = FALSE,
                          !.hadIcon = FALSE, !.backed = FALSE, !.placed = FALSE,
                          !.cleaned = TRUE]
<1>2. proc[p] \in Operation /\ db \in Registry /\ proc \in [Proc -> Operation]
  BY DEF TypeOK
<1>3. n \in Operation /\ n.at = "unlink" /\ n.kind = "remove" /\ n.id = u
  BY <1>2 DEF Operation, Step
<1>4. proc' = [proc EXCEPT ![p] = m]
  BY <1>1 DEF Open
<1> HIDE DEF n
<1>5. /\ m \in Operation /\ m.at = "unlink" /\ m.kind = "remove" /\ m.outcome = "none"
      /\ m.mem = db /\ ~m.backed /\ ~m.placed /\ m.id = u
  BY <1>2, <1>3 DEF Operation, Outcome
<1> HIDE DEF m
<1>6. Others(p) /\ proc'[p] = m
  BY <1>2, <1>4, <1>5, RecordFrame
<1> QED
  BY <1>1, <1>5, <1>6 DEF Open

LEMMA GateRecord ==
  ASSUME TypeOK, NEW p \in Proc, GateReplace(p) \/ GateFresh(p)
  PROVE  /\ Others(p) /\ SameTask(p)
         /\ proc'[p].at = "stage" /\ proc'[p].backed = proc[p].backed
         /\ proc'[p].placed = proc[p].placed
<1>1. proc[p] \in Operation /\ proc \in [Proc -> Operation]
  BY DEF TypeOK
<1>2. CASE GateReplace(p)
  <2> DEFINE row == proc[p].mem[proc[p].id]
             m == [proc[p] EXCEPT !.at = "stage", !.dest = row.path]
  <2>1. row \in Row
    BY <1>1, <1>2, OperationFields DEF GateReplace, Registry
  <2>2. row.path \in Path
    BY <2>1 DEF Row
  <2>3. proc' = [proc EXCEPT ![p] = m]
    BY <1>2 DEF GateReplace
  <2> HIDE DEF row
  <2>4. /\ m \in Operation /\ m.at = "stage" /\ m.mem = proc[p].mem /\ m.kind = proc[p].kind
        /\ m.from = proc[p].from /\ m.policy = proc[p].policy
        /\ m.backed = proc[p].backed /\ m.placed = proc[p].placed
    BY <1>1, <2>2 DEF Operation, Step
  <2> HIDE DEF m
  <2>5. Others(p) /\ proc'[p] = m
    BY <1>1, <2>3, <2>4, RecordFrame
  <2> QED
    BY <2>4, <2>5 DEF SameTask
<1>3. CASE GateFresh(p)
  <2>1. PICK u \in Uuid \ used, q \in Path :
          proc' = [proc EXCEPT ![p].at = "stage", ![p].id = u, ![p].dest = q]
    BY <1>3 DEF GateFresh
  <2> DEFINE m == [proc[p] EXCEPT !.at = "stage", !.id = u, !.dest = q]
  <2>2. proc' = [proc EXCEPT ![p] = m]
    BY <2>1
  <2>3. /\ m \in Operation /\ m.at = "stage" /\ m.mem = proc[p].mem /\ m.kind = proc[p].kind
        /\ m.from = proc[p].from /\ m.policy = proc[p].policy
        /\ m.backed = proc[p].backed /\ m.placed = proc[p].placed
    BY <1>1 DEF Operation, Step
  <2> HIDE DEF m
  <2>4. Others(p) /\ proc'[p] = m
    BY <1>1, <2>2, <2>3, RecordFrame
  <2> QED
    BY <2>3, <2>4 DEF SameTask
<1> QED
  BY <1>2, <1>3

(* The desktop entry was written.                                          *)
LEMMA EntryRecord ==
  ASSUME TypeOK, NEW p \in Proc,
         proc' = [proc EXCEPT ![p].at = "icon",
                              ![p].hadEntry = entry[proc[p].id] # Nothing,
                              ![p].hadIcon = WithIcon(p) /\ icon[proc[p].id] # Nothing]
  PROVE  Others(p) /\ SameTask(p) /\ SameWork(p) /\ proc'[p].at = "icon"
<1> DEFINE a == (entry[proc[p].id] # Nothing)
           b == (WithIcon(p) /\ icon[proc[p].id] # Nothing)
           m == [proc[p] EXCEPT !.at = "icon", !.hadEntry = a, !.hadIcon = b]
<1>1. proc[p] \in Operation /\ proc \in [Proc -> Operation]
  BY DEF TypeOK
<1>2. a \in BOOLEAN
  BY Zenon
<1>3. b \in BOOLEAN
  BY Zenon
<1>4. proc' = [proc EXCEPT ![p] = m]
  OBVIOUS
<1> HIDE DEF a, b
<1>5. /\ m \in Operation /\ m.at = "icon" /\ m.kind = proc[p].kind /\ m.mem = proc[p].mem
      /\ m.from = proc[p].from /\ m.policy = proc[p].policy /\ m.id = proc[p].id
      /\ m.dest = proc[p].dest /\ m.backed = proc[p].backed /\ m.placed = proc[p].placed
      /\ m.cleaned = proc[p].cleaned
  BY <1>1, <1>2, <1>3 DEF Operation, Step
<1> HIDE DEF m
<1>6. Others(p) /\ proc'[p] = m
  BY <1>1, <1>4, <1>5, RecordFrame
<1> QED
  BY <1>5, <1>6 DEF SameTask, SameWork

(* The backups were made, the file was placed, an artifact was not removed. *)
LEMMA FlagRecord ==
  ASSUME TypeOK, NEW p \in Proc, NEW s \in Step, NEW x \in BOOLEAN
  PROVE  /\ proc' = [proc EXCEPT ![p].at = s, ![p].backed = x] =>
              /\ Others(p) /\ SameTask(p) /\ proc'[p].at = s /\ proc'[p].backed = x
              /\ proc'[p].id = proc[p].id /\ proc'[p].dest = proc[p].dest
              /\ proc'[p].placed = proc[p].placed /\ proc'[p].cleaned = proc[p].cleaned
         /\ proc' = [proc EXCEPT ![p].at = s, ![p].placed = x] =>
              /\ Others(p) /\ SameTask(p) /\ proc'[p].at = s /\ proc'[p].placed = x
              /\ proc'[p].id = proc[p].id /\ proc'[p].dest = proc[p].dest
              /\ proc'[p].backed = proc[p].backed /\ proc'[p].cleaned = proc[p].cleaned
         /\ proc' = [proc EXCEPT ![p].at = s, ![p].cleaned = x] =>
              /\ Others(p) /\ SameTask(p) /\ proc'[p].at = s /\ proc'[p].cleaned = x
              /\ proc'[p].id = proc[p].id /\ proc'[p].dest = proc[p].dest
              /\ proc'[p].backed = proc[p].backed /\ proc'[p].placed = proc[p].placed
<1>1. proc[p] \in Operation /\ proc \in [Proc -> Operation]
  BY DEF TypeOK
<1>2. ASSUME proc' = [proc EXCEPT ![p].at = s, ![p].backed = x]
      PROVE  /\ Others(p) /\ SameTask(p) /\ proc'[p].at = s /\ proc'[p].backed = x
             /\ proc'[p].id = proc[p].id /\ proc'[p].dest = proc[p].dest
             /\ proc'[p].placed = proc[p].placed /\ proc'[p].cleaned = proc[p].cleaned
  <2> DEFINE m == [proc[p] EXCEPT !.at = s, !.backed = x]
  <2>1. proc' = [proc EXCEPT ![p] = m]
    BY <1>2
  <2>2. /\ m \in Operation /\ m.at = s /\ m.backed = x /\ m.kind = proc[p].kind
        /\ m.mem = proc[p].mem /\ m.from = proc[p].from /\ m.policy = proc[p].policy
        /\ m.id = proc[p].id /\ m.dest = proc[p].dest /\ m.placed = proc[p].placed
        /\ m.cleaned = proc[p].cleaned
    BY <1>1 DEF Operation
  <2> HIDE DEF m
  <2>3. Others(p) /\ proc'[p] = m
    BY <1>1, <2>1, <2>2, RecordFrame
  <2> QED
    BY <2>2, <2>3 DEF SameTask
<1>3. ASSUME proc' = [proc EXCEPT ![p].at = s, ![p].placed = x]
      PROVE  /\ Others(p) /\ SameTask(p) /\ proc'[p].at = s /\ proc'[p].placed = x
             /\ proc'[p].id = proc[p].id /\ proc'[p].dest = proc[p].dest
             /\ proc'[p].backed = proc[p].backed /\ proc'[p].cleaned = proc[p].cleaned
  <2> DEFINE m == [proc[p] EXCEPT !.at = s, !.placed = x]
  <2>1. proc' = [proc EXCEPT ![p] = m]
    BY <1>3
  <2>2. /\ m \in Operation /\ m.at = s /\ m.placed = x /\ m.kind = proc[p].kind
        /\ m.mem = proc[p].mem /\ m.from = proc[p].from /\ m.policy = proc[p].policy
        /\ m.id = proc[p].id /\ m.dest = proc[p].dest /\ m.backed = proc[p].backed
        /\ m.cleaned = proc[p].cleaned
    BY <1>1 DEF Operation
  <2> HIDE DEF m
  <2>3. Others(p) /\ proc'[p] = m
    BY <1>1, <2>1, <2>2, RecordFrame
  <2> QED
    BY <2>2, <2>3 DEF SameTask
<1>4. ASSUME proc' = [proc EXCEPT ![p].at = s, ![p].cleaned = x]
      PROVE  /\ Others(p) /\ SameTask(p) /\ proc'[p].at = s /\ proc'[p].cleaned = x
             /\ proc'[p].id = proc[p].id /\ proc'[p].dest = proc[p].dest
             /\ proc'[p].backed = proc[p].backed /\ proc'[p].placed = proc[p].placed
  <2> DEFINE m == [proc[p] EXCEPT !.at = s, !.cleaned = x]
  <2>1. proc' = [proc EXCEPT ![p] = m]
    BY <1>4
  <2>2. /\ m \in Operation /\ m.at = s /\ m.cleaned = x /\ m.kind = proc[p].kind
        /\ m.mem = proc[p].mem /\ m.from = proc[p].from /\ m.policy = proc[p].policy
        /\ m.id = proc[p].id /\ m.dest = proc[p].dest /\ m.backed = proc[p].backed
        /\ m.placed = proc[p].placed
    BY <1>1 DEF Operation
  <2> HIDE DEF m
  <2>3. Others(p) /\ proc'[p] = m
    BY <1>1, <2>1, <2>2, RecordFrame
  <2> QED
    BY <2>2, <2>3 DEF SameTask
<1> QED
  BY <1>2, <1>3, <1>4

-----------------------------------------------------------------------------
(* What several processes share keeps its type, whoever takes a step.      *)
StoreOK ==
  /\ file \in [Path -> Image]
  /\ entry \in [Uuid -> Image] /\ icon \in [Uuid -> Image]
  /\ db \in Registry
  /\ stage \in [Proc -> Image] /\ backup \in [Proc -> Backup]
  /\ left \subseteq Content /\ source \subseteq Content
  /\ used \subseteq Uuid /\ intact \subseteq used
  /\ {ops, faults, crashes} \subseteq Nat

LEMMA SharedFrame ==
  ASSUME SharedInv, NEW p \in Proc, Others(p), StoreOK', used \subseteq used',
         \A u \in Uuid : db'[u] # Nothing => u \in used',
         \A u \in Uuid : proc'[p].mem[u] # Nothing => u \in used',
         proc'[p].at \notin {"idle", "gate"} => proc'[p].id \in used',
         (proc'[p].at = "backups" \/ proc'[p].backed) => proc'[p].policy = "replace"
  PROVE  SharedInv'
<1>1. TypeOK'
  BY DEF TypeOK, StoreOK, Others
<1>2. RowsAreUsed'
  BY DEF SharedInv, RowsAreUsed, Others
<1>3. IdIsUsed'
  BY DEF SharedInv, IdIsUsed, Others
<1>4. OnlyReplacesBackUp'
  BY DEF SharedInv, OnlyReplacesBackUp, Others, At, Fresh
<1> QED
  BY <1>1, <1>2, <1>3, <1>4 DEF SharedInv

(* A step inside an operation that gives out no uuid and leaves the rows.  *)
LEMMA InnerFrame ==
  ASSUME SharedInv, NEW p \in Proc, Others(p), SameTask(p), StoreOK',
         proc'[p].id = proc[p].id, proc[p].at \notin {"idle", "gate"},
         used' = used, db' = db \/ db' = proc[p].mem,
         (proc'[p].at = "backups" \/ proc'[p].backed) => proc[p].policy = "replace"
  PROVE  SharedInv'
<1>1. \A u \in Uuid : db'[u] # Nothing => u \in used'
  BY DEF SharedInv, RowsAreUsed
<1>2. \A u \in Uuid : proc'[p].mem[u] # Nothing => u \in used'
  BY DEF SharedInv, RowsAreUsed, SameTask
<1>3. proc'[p].id \in used'
  BY DEF SharedInv, IdIsUsed
<1>4. (proc'[p].at = "backups" \/ proc'[p].backed) => proc'[p].policy = "replace"
  BY DEF SameTask
<1> QED
  BY <1>1, <1>2, <1>3, <1>4, SharedFrame

LEMMA StartIsShared ==
  ASSUME SharedInv, NEW p \in Proc,
         \/ BeginIntegrate(p) \/ BeginRemove(p)
  PROVE  SharedInv'
<1>1. TypeOK
  BY DEF SharedInv
<1>2. CASE BeginIntegrate(p)
  <2>1. /\ Others(p) /\ proc'[p].at = "gate" /\ proc'[p].mem = db /\ ~proc'[p].backed
        /\ ops' = ops + 1
        /\ UNCHANGED <<file, artifacts, db, stage, backup, left, source, used, intact,
                       faults, crashes>>
    BY <1>1, <1>2, IntegrateRecord
  <2>2. StoreOK'
    BY <1>1, <2>1 DEF StoreOK, TypeOK, artifacts
  <2> QED
    BY <2>1, <2>2, SharedFrame DEF SharedInv, RowsAreUsed
<1>3. CASE BeginRemove(p)
  <2>1. /\ Others(p) /\ proc'[p].at = "unlink" /\ proc'[p].mem = db /\ ~proc'[p].backed
        /\ db[proc'[p].id] # Nothing /\ ops' = ops + 1
        /\ UNCHANGED <<file, artifacts, db, stage, backup, left, source, used, intact,
                       faults, crashes>>
    BY <1>1, <1>3, RemoveRecord
  <2>2. StoreOK'
    BY <1>1, <2>1 DEF StoreOK, TypeOK, artifacts
  <2>3. proc'[p].id \in Uuid
    BY <2>1, OperationFields DEF Others
  <2> QED
    BY <2>1, <2>2, <2>3, SharedFrame DEF SharedInv, RowsAreUsed
<1> QED
  BY <1>2, <1>3

LEMMA GateIsShared ==
  ASSUME SharedInv, NEW p \in Proc, Refuse(p) \/ GateReplace(p) \/ GateFresh(p)
  PROVE  SharedInv'
<1>1. TypeOK /\ proc[p] \in Operation /\ proc \in [Proc -> Operation]
  BY DEF SharedInv, TypeOK
<1>2. \A u \in Uuid : (db[u] # Nothing \/ proc[p].mem[u] # Nothing) => u \in used
  BY DEF SharedInv, RowsAreUsed
<1>3. proc[p].backed => proc[p].policy = "replace"
  BY DEF SharedInv, OnlyReplacesBackUp, Fresh
<1>4. CASE Refuse(p)
  <2>1. Others(p) /\ SameTask(p) /\ SameWork(p) /\ proc'[p].at = "idle"
    BY <1>1, <1>4, FinishRecord DEF Refuse, Outcome
  <2>2. StoreOK' /\ UNCHANGED <<used, db>>
    BY <1>1, <1>4 DEF Refuse, StoreOK, TypeOK, artifacts, bounds
  <2> QED
    BY <1>2, <1>3, <2>1, <2>2, SharedFrame DEF SameTask, SameWork
<1>5. CASE GateReplace(p)
  <2>1. Others(p) /\ SameTask(p) /\ proc'[p].at = "stage" /\ proc'[p].backed = proc[p].backed
    BY <1>1, <1>5, GateRecord
  <2>2. StoreOK' /\ UNCHANGED <<used, db>>
    BY <1>1, <1>5 DEF GateReplace, StoreOK, TypeOK, artifacts, bounds
  <2>3. proc'[p].id = proc[p].id /\ proc[p].id \in Uuid
    BY <1>1, <1>5, OperationFields DEF GateReplace
  <2>4. proc'[p].id \in used'
    BY <1>2, <1>5, <2>2, <2>3 DEF GateReplace
  <2> QED
    BY <1>2, <1>3, <2>1, <2>2, <2>4, SharedFrame DEF SameTask
<1>6. CASE GateFresh(p)
  <2>1. PICK u \in Uuid \ used, q \in Path :
          /\ used' = used \cup {u}
          /\ proc' = [proc EXCEPT ![p].at = "stage", ![p].id = u, ![p].dest = q]
    BY <1>6 DEF GateFresh
  <2>2. Others(p) /\ SameTask(p) /\ proc'[p].at = "stage" /\ proc'[p].backed = proc[p].backed
    BY <1>1, <1>6, GateRecord
  <2>3. StoreOK' /\ UNCHANGED db
    BY <1>1, <1>6, <2>1 DEF GateFresh, StoreOK, TypeOK, artifacts, bounds
  <2>4. proc'[p].id = u
    BY <1>1, <2>1
  <2>5. (proc'[p].at = "backups" \/ proc'[p].backed) => proc'[p].policy = "replace"
    BY <1>3, <2>2 DEF SameTask
  <2>6. /\ \A v \in Uuid : db'[v] # Nothing => v \in used'
        /\ \A v \in Uuid : proc'[p].mem[v] # Nothing => v \in used'
    BY <1>2, <2>1, <2>2, <2>3 DEF SameTask
  <2>7. used \subseteq used' /\ proc'[p].id \in used'
    BY <2>1, <2>4
  <2> QED
    BY <2>2, <2>3, <2>5, <2>6, <2>7, SharedFrame
<1> QED
  BY <1>4, <1>5, <1>6

LEMMA InstallIsShared ==
  ASSUME SharedInv, NEW p \in Proc,
         Stage(p) \/ InstallEntry(p) \/ InstallIcon(p) \/ MakeBackups(p)
  PROVE  SharedInv'
<1>1. TypeOK /\ proc[p] \in Operation /\ proc \in [Proc -> Operation] /\ Nothing \in Image
  BY DEF SharedInv, TypeOK, Image
<1>2. proc[p].id \in Uuid /\ proc[p].dest \in Path /\ proc[p].from \in Content
  BY <1>1, OperationFields
<1>3. (At(p, "backups") \/ proc[p].backed) => proc[p].policy = "replace"
  BY DEF SharedInv, OnlyReplacesBackUp, Fresh
<1>4. CASE Stage(p)
  <2>1. /\ Others(p) /\ SameTask(p) /\ SameWork(p) /\ proc[p].at = "stage"
        /\ proc'[p].at \in {"entry", "idle"}
    BY <1>1, <1>4, FinishRecord, GotoRecord DEF Stage, Outcome, Step, At
  <2>2. StoreOK' /\ UNCHANGED <<used, db>>
    BY <1>1, <1>2, <1>4 DEF Stage, StoreOK, TypeOK, artifacts, bounds, RemoveStage, Image
  <2> QED
    BY <1>3, <2>1, <2>2, InnerFrame DEF SameWork
<1>5. CASE InstallEntry(p)
  <2>1. /\ Others(p) /\ SameTask(p) /\ SameWork(p) /\ proc[p].at = "entry"
        /\ proc'[p].at \in {"icon", "idle"}
    BY <1>1, <1>5, FinishRecord, EntryRecord DEF InstallEntry, Outcome, At
  <2>2. StoreOK' /\ UNCHANGED <<used, db>>
    BY <1>1, <1>2, <1>5
       DEF InstallEntry, StoreOK, TypeOK, bounds, RemoveStage, Fault, NoFault, Image
  <2> QED
    BY <1>3, <2>1, <2>2, InnerFrame DEF SameWork
<1>6. CASE InstallIcon(p)
  <2>1. /\ Others(p) /\ SameTask(p) /\ SameWork(p) /\ proc[p].at = "icon"
        /\ proc'[p].at = "backups" => ~Fresh(p)
    BY <1>1, <1>6, FinishRecord, GotoRecord DEF InstallIcon, Outcome, Step, At
  <2>2. StoreOK' /\ UNCHANGED <<used, db>>
    BY <1>1, <1>2, <1>6
       DEF InstallIcon, StoreOK, TypeOK, bounds, RemoveStage, Fault, NoFault, Image
  <2> QED
    BY <1>3, <2>1, <2>2, InnerFrame DEF SameWork, Fresh
<1>7. CASE MakeBackups(p)
  <2> DEFINE app == file[proc[p].dest]
             made == [app |-> app, entry |-> entry[proc[p].id],
                      icon |-> IF WithIcon(p) THEN icon[proc[p].id] ELSE Nothing]
  <2>1. At(p, "backups") /\ UNCHANGED <<file, artifacts, db, source, used, intact, bounds>>
    BY <1>7 DEF MakeBackups
  <2>2. app \in Image /\ made \in Backup
    BY <1>1, <1>2 DEF TypeOK, Backup
  <2>3. CASE /\ NoFault /\ backup' = [backup EXCEPT ![p] = made]
             /\ proc' = [proc EXCEPT ![p].at = "commit", ![p].backed = (app # Nothing)]
             /\ UNCHANGED <<stage, left>>
    <3> HIDE DEF made
    <3>1. Others(p) /\ SameTask(p) /\ proc'[p].id = proc[p].id
      BY <1>1, <2>3, FlagRecord DEF Step
    <3>2. StoreOK'
      BY <1>1, <2>1, <2>2, <2>3 DEF StoreOK, TypeOK, bounds, artifacts, NoFault
    <3> QED
      BY <1>3, <2>1, <3>1, <3>2, InnerFrame DEF At
  <2>4. CASE /\ Fault /\ left' \in {left, left \cup ({app} \ {Nothing})}
             /\ Finish(p, "failed") /\ RemoveStage(p) /\ UNCHANGED backup
    <3>1. Others(p) /\ SameTask(p) /\ SameWork(p) /\ proc'[p].at = "idle"
      BY <1>1, <2>4, FinishRecord DEF Outcome
    <3>2. StoreOK'
      BY <1>1, <2>1, <2>2, <2>4
         DEF StoreOK, TypeOK, bounds, artifacts, Fault, RemoveStage, Image
    <3> QED
      BY <1>3, <2>1, <3>1, <3>2, InnerFrame DEF At, SameWork
  <2> QED
    BY <1>7, <2>3, <2>4 DEF MakeBackups
<1> QED
  BY <1>4, <1>5, <1>6, <1>7

LEMMA CommitIsShared ==
  ASSUME SharedInv, NEW p \in Proc, Commit(p) \/ Register(p)
  PROVE  SharedInv'
<1>1. TypeOK /\ proc[p] \in Operation /\ proc \in [Proc -> Operation] /\ Nothing \in Image
  BY DEF SharedInv, TypeOK, Image
<1>2. proc[p].id \in Uuid /\ proc[p].dest \in Path /\ proc[p].from \in Content
  BY <1>1, OperationFields
<1>3. (At(p, "backups") \/ proc[p].backed) => proc[p].policy = "replace"
  BY DEF SharedInv, OnlyReplacesBackUp, Fresh
<1>4. CASE Commit(p)
  <2>1. /\ Others(p) /\ SameTask(p) /\ proc'[p].id = proc[p].id /\ proc[p].at = "commit"
        /\ proc'[p].at \in {"upsert", "undoFile"} /\ proc'[p].backed = proc[p].backed
    <3>1. CASE Goto(p, "undoFile")
      BY <1>1, <1>4, <3>1, GotoRecord DEF Commit, Step, At, SameWork
    <3>2. CASE proc' = [proc EXCEPT ![p].at = "upsert", ![p].placed = TRUE]
      BY <1>1, <1>4, <3>2, FlagRecord DEF Commit, Step, At
    <3> QED
      BY <1>4, <3>1, <3>2 DEF Commit
  <2>2. StoreOK' /\ UNCHANGED <<used, db>>
    BY <1>1, <1>2, <1>4
       DEF Commit, StoreOK, TypeOK, artifacts, bounds, RemoveStage, Fault, NoFault
  <2> QED
    BY <1>3, <2>1, <2>2, InnerFrame
<1>5. CASE Register(p)
  <2>1. /\ Others(p) /\ SameTask(p) /\ SameWork(p) /\ proc[p].at = "upsert"
        /\ proc'[p].at \in {"dropBackups", "undoFile"}
    BY <1>1, <1>5, GotoRecord DEF Register, Step, At
  <2>2. proc[p].id \in used
    BY <2>1 DEF SharedInv, IdIsUsed
  <2>3. NewRow(p) \in Row
    BY <1>2 DEF NewRow, Row, Image, WithIcon
  <2>4. StoreOK' /\ UNCHANGED used
    BY <1>1, <1>2, <1>5, <2>2, <2>3
       DEF Register, StoreOK, TypeOK, artifacts, bounds, Fault, NoFault, Registry
  <2>5. \A u \in Uuid : db'[u] # Nothing => u \in used'
    BY <1>1, <1>2, <1>5, <2>2 DEF Register, SharedInv, RowsAreUsed, TypeOK, Registry
  <2>6. \A u \in Uuid : proc'[p].mem[u] # Nothing => u \in used'
    BY <2>1, <2>4 DEF SharedInv, RowsAreUsed, SameTask
  <2>7. proc'[p].id \in used' /\ used \subseteq used'
    BY <2>1, <2>2, <2>4 DEF SameWork
  <2>8. (proc'[p].at = "backups" \/ proc'[p].backed) => proc'[p].policy = "replace"
    BY <1>3, <2>1 DEF SameTask, SameWork
  <2> QED
    BY <2>1, <2>4, <2>5, <2>6, <2>7, <2>8, SharedFrame
<1> QED
  BY <1>4, <1>5

LEMMA UndoIsShared ==
  ASSUME SharedInv, NEW p \in Proc,
         UndoFile(p) \/ UndoEntry(p) \/ UndoIcon(p) \/ UndoRows(p) \/ UndoTemps(p)
  PROVE  SharedInv'
<1>1. TypeOK /\ proc[p] \in Operation /\ proc \in [Proc -> Operation] /\ Nothing \in Image
  BY DEF SharedInv, TypeOK, Image
<1>2. /\ proc[p].id \in Uuid /\ proc[p].dest \in Path /\ proc[p].from \in Content
      /\ proc[p].mem \in Registry
  BY <1>1, OperationFields
<1>3. proc[p].backed => proc[p].policy = "replace"
  BY DEF SharedInv, OnlyReplacesBackUp, Fresh
<1>4. backup[p] \in Backup /\ backup \in [Proc -> Backup]
  BY <1>1 DEF TypeOK
<1>5. backup[p].app \in Image /\ backup[p].entry \in Image /\ backup[p].icon \in Image
  BY <1>4 DEF Backup
<1>6. \A x \in Image : /\ [backup EXCEPT ![p].app = x] \in [Proc -> Backup]
                       /\ [backup EXCEPT ![p].entry = x] \in [Proc -> Backup]
                       /\ [backup EXCEPT ![p].icon = x] \in [Proc -> Backup]
  BY <1>4 DEF Backup
<1>7. CASE UndoFile(p)
  <2>1. /\ Others(p) /\ SameTask(p) /\ SameWork(p) /\ proc[p].at = "undoFile"
        /\ proc'[p].at = "undoEntry"
    BY <1>1, <1>7, GotoRecord DEF UndoFile, Step, At
  <2>2. backup' \in [Proc -> Backup]
    BY <1>1, <1>4, <1>6, <1>7 DEF UndoFile
  <2>3. file' \in [Path -> Image]
    BY <1>1, <1>2, <1>5, <1>7 DEF UndoFile, TypeOK
  <2>4. StoreOK' /\ UNCHANGED <<used, db>>
    BY <1>1, <1>7, <2>2, <2>3 DEF UndoFile, StoreOK, TypeOK, artifacts, bounds, Fault, NoFault
  <2> QED
    BY <1>3, <2>1, <2>4, InnerFrame DEF SameWork
<1>8. CASE UndoEntry(p)
  <2>1. /\ Others(p) /\ SameTask(p) /\ SameWork(p) /\ proc[p].at = "undoEntry"
        /\ proc'[p].at = "undoIcon"
    BY <1>1, <1>8, GotoRecord DEF UndoEntry, Step, At
  <2>2. backup' \in [Proc -> Backup]
    BY <1>1, <1>4, <1>5, <1>6, <1>8 DEF UndoEntry
  <2>3. entry' \in [Uuid -> Image]
    BY <1>1, <1>2, <1>5, <1>8 DEF UndoEntry, TypeOK
  <2>4. StoreOK' /\ UNCHANGED <<used, db>>
    BY <1>1, <1>8, <2>2, <2>3 DEF UndoEntry, StoreOK, TypeOK, bounds, Fault, NoFault
  <2> QED
    BY <1>3, <2>1, <2>4, InnerFrame DEF SameWork
<1>9. CASE UndoIcon(p)
  <2>1. /\ Others(p) /\ SameTask(p) /\ SameWork(p) /\ proc[p].at = "undoIcon"
        /\ proc'[p].at = "undoRows"
    BY <1>1, <1>9, GotoRecord DEF UndoIcon, Step, At
  <2>2. backup' \in [Proc -> Backup]
    BY <1>1, <1>4, <1>5, <1>6, <1>9 DEF UndoIcon
  <2>3. icon' \in [Uuid -> Image]
    BY <1>1, <1>2, <1>5, <1>9 DEF UndoIcon, TypeOK
  <2>4. StoreOK' /\ UNCHANGED <<used, db>>
    BY <1>1, <1>9, <2>2, <2>3 DEF UndoIcon, StoreOK, TypeOK, bounds, Fault, NoFault
  <2> QED
    BY <1>3, <2>1, <2>4, InnerFrame DEF SameWork
<1>10. CASE UndoRows(p)
  <2>1. /\ Others(p) /\ SameTask(p) /\ SameWork(p) /\ proc[p].at = "undoRows"
        /\ proc'[p].at = "undoTemps"
    BY <1>1, <1>10, GotoRecord DEF UndoRows, Step, At
  <2>2. StoreOK' /\ used' = used /\ (db' = db \/ db' = proc[p].mem)
    BY <1>1, <1>2, <1>10 DEF UndoRows, StoreOK, TypeOK, artifacts, bounds, Fault, NoFault
  <2> QED
    BY <1>3, <2>1, <2>2, InnerFrame DEF SameWork
<1>11. CASE UndoTemps(p)
  <2>1. /\ Others(p) /\ SameTask(p) /\ SameWork(p) /\ proc[p].at = "undoTemps"
        /\ proc'[p].at = "idle"
    BY <1>1, <1>11, FinishRecord DEF UndoTemps, Outcome, At
  <2>2. \A r \in Proc : backup[r] \in Backup
    BY <1>4
  <2>3. \A r \in Proc :
          [backup[r] EXCEPT !.app = Nothing, !.entry = IF r = p THEN Nothing ELSE @,
                            !.icon = IF r = p THEN Nothing ELSE @] \in Backup
    BY <1>1, <2>2 DEF Backup
  <2>4. backup' \in [Proc -> Backup]
    BY <1>11, <2>3 DEF UndoTemps
  <2>5. StoreOK' /\ UNCHANGED <<used, db>>
    BY <1>1, <1>11, <2>4 DEF UndoTemps, StoreOK, TypeOK, artifacts, bounds
  <2> QED
    BY <1>3, <2>1, <2>5, InnerFrame DEF SameWork
<1> QED
  BY <1>7, <1>8, <1>9, <1>10, <1>11

LEMMA EndIsShared ==
  ASSUME SharedInv, NEW p \in Proc, DropBackups(p) \/ TrashSource(p)
  PROVE  SharedInv'
<1>1. TypeOK /\ proc[p] \in Operation /\ proc \in [Proc -> Operation] /\ Nothing \in Image
  BY DEF SharedInv, TypeOK, Image
<1>2. proc[p].backed => proc[p].policy = "replace"
  BY DEF SharedInv, OnlyReplacesBackUp, Fresh
<1>3. CASE DropBackups(p)
  <2>1. /\ Others(p) /\ SameTask(p) /\ SameWork(p) /\ proc[p].at = "dropBackups"
        /\ proc'[p].at \in {"tail", "idle"}
    BY <1>1, <1>3, FinishRecord, GotoRecord DEF DropBackups, Outcome, Step, At
  <2>2. [app |-> Nothing, entry |-> Nothing, icon |-> Nothing] \in Backup
    BY <1>1 DEF Backup
  <2>3. backup' \in [Proc -> Backup]
    BY <1>1, <1>3, <2>2 DEF DropBackups, TypeOK
  <2>4. StoreOK' /\ UNCHANGED <<used, db>>
    BY <1>1, <1>3, <2>3 DEF DropBackups, StoreOK, TypeOK, artifacts, bounds
  <2> QED
    BY <1>2, <2>1, <2>4, InnerFrame DEF SameWork
<1>4. CASE TrashSource(p)
  <2>1. /\ Others(p) /\ SameTask(p) /\ SameWork(p) /\ proc[p].at = "tail"
        /\ proc'[p].at = "idle"
    BY <1>1, <1>4, FinishRecord DEF TrashSource, Outcome, At
  <2>2. StoreOK' /\ UNCHANGED <<used, db>>
    BY <1>1, <1>4 DEF TrashSource, StoreOK, TypeOK, artifacts, bounds, Fault, NoFault
  <2> QED
    BY <1>2, <2>1, <2>2, InnerFrame DEF SameWork
<1> QED
  BY <1>3, <1>4

LEMMA RemovalIsShared ==
  ASSUME SharedInv, NEW p \in Proc,
         Unlink(p) \/ DropEntry(p) \/ DropIcon(p) \/ DropRow(p)
  PROVE  SharedInv'
<1>1. TypeOK /\ proc[p] \in Operation /\ proc \in [Proc -> Operation] /\ Nothing \in Image
  BY DEF SharedInv, TypeOK, Image
<1>2. proc[p].id \in Uuid /\ proc[p].mem \in Registry
  BY <1>1, OperationFields
<1>3. proc[p].backed => proc[p].policy = "replace"
  BY DEF SharedInv, OnlyReplacesBackUp, Fresh
<1>4. CASE Unlink(p)
  <2>1. /\ Others(p) /\ SameTask(p) /\ SameWork(p) /\ proc[p].at = "unlink"
        /\ proc'[p].at \in {"dropEntry", "dropRow", "idle"}
    BY <1>1, <1>4, FinishRecord, GotoRecord DEF Unlink, Outcome, Step, At
  <2>2. StoreOK' /\ UNCHANGED <<used, db>>
    BY <1>1, <1>4 DEF Unlink, StoreOK, TypeOK, artifacts, bounds, Fault, NoFault
  <2> QED
    BY <1>3, <2>1, <2>2, InnerFrame DEF SameWork
<1>5. CASE DropEntry(p)
  <2>1. /\ Others(p) /\ SameTask(p) /\ proc'[p].id = proc[p].id /\ proc[p].at = "dropEntry"
        /\ proc'[p].at \in {"dropIcon", "dropRow"} /\ proc'[p].backed = proc[p].backed
    <3>1. CASE Goto(p, "dropIcon")
      BY <1>1, <1>5, <3>1, GotoRecord DEF DropEntry, Step, At, SameWork
    <3>2. CASE proc' = [proc EXCEPT ![p].at = "dropRow", ![p].cleaned = FALSE]
      BY <1>1, <1>5, <3>2, FlagRecord DEF DropEntry, Step, At
    <3> QED
      BY <1>5, <3>1, <3>2 DEF DropEntry
  <2>2. StoreOK' /\ UNCHANGED <<used, db>>
    BY <1>1, <1>2, <1>5 DEF DropEntry, StoreOK, TypeOK, bounds, Fault, NoFault
  <2> QED
    BY <1>3, <2>1, <2>2, InnerFrame
<1>6. CASE DropIcon(p)
  <2>1. /\ Others(p) /\ SameTask(p) /\ proc'[p].id = proc[p].id /\ proc[p].at = "dropIcon"
        /\ proc'[p].at = "dropRow" /\ proc'[p].backed = proc[p].backed
    <3>1. CASE Goto(p, "dropRow")
      BY <1>1, <1>6, <3>1, GotoRecord DEF DropIcon, Step, At, SameWork
    <3>2. CASE proc' = [proc EXCEPT ![p].at = "dropRow", ![p].cleaned = FALSE]
      BY <1>1, <1>6, <3>2, FlagRecord DEF DropIcon, Step, At
    <3> QED
      BY <1>6, <3>1, <3>2 DEF DropIcon
  <2>2. StoreOK' /\ UNCHANGED <<used, db>>
    BY <1>1, <1>2, <1>6 DEF DropIcon, StoreOK, TypeOK, bounds, Fault, NoFault
  <2> QED
    BY <1>3, <2>1, <2>2, InnerFrame
<1>7. CASE DropRow(p)
  <2>1. /\ Others(p) /\ SameTask(p) /\ SameWork(p) /\ proc[p].at = "dropRow"
        /\ proc'[p].at = "idle"
    BY <1>1, <1>7, FinishRecord DEF DropRow, Outcome, At
  <2>2. StoreOK' /\ used' = used
    BY <1>1, <1>2, <1>7
       DEF DropRow, StoreOK, TypeOK, artifacts, bounds, Fault, NoFault, Registry
  <2>3. \A u \in Uuid : db'[u] # Nothing => u \in used'
    BY <1>1, <1>2, <1>7, <2>2 DEF DropRow, SharedInv, RowsAreUsed, TypeOK, Registry
  <2>4. \A u \in Uuid : proc'[p].mem[u] # Nothing => u \in used'
    BY <2>1, <2>2 DEF SharedInv, RowsAreUsed, SameTask
  <2> QED
    BY <1>3, <2>1, <2>2, <2>3, <2>4, SharedFrame DEF SameTask, SameWork
<1> QED
  BY <1>4, <1>5, <1>6, <1>7

LEMMA CrashIsShared ==
  ASSUME SharedInv, NEW p \in Proc, Crash(p)
  PROVE  SharedInv'
<1>1. TypeOK /\ proc[p] \in Operation /\ proc \in [Proc -> Operation] /\ Nothing \in Image
  BY DEF SharedInv, TypeOK, Image
<1>2. /\ Others(p) /\ SameTask(p) /\ SameWork(p) /\ proc'[p].at = "idle"
  BY <1>1, FinishRecord DEF Crash, Outcome
<1>3. backup[p] \in Backup /\ stage[p] \in Image
  BY <1>1 DEF TypeOK
<1>4. backup[p].app \in Image
  BY <1>3 DEF Backup
<1>5. [app |-> Nothing, entry |-> Nothing, icon |-> Nothing] \in Backup
  BY <1>1 DEF Backup
<1>6. backup' \in [Proc -> Backup] /\ stage' \in [Proc -> Image]
  BY <1>1, <1>5 DEF Crash, TypeOK
<1>7. left' \subseteq Content /\ crashes' \in Nat
  BY <1>1, <1>3, <1>4 DEF Crash, TypeOK, Image
<1>8. StoreOK' /\ UNCHANGED <<used, db>>
  BY <1>1, <1>6, <1>7 DEF Crash, StoreOK, TypeOK, artifacts
<1>9. /\ \A u \in Uuid : db'[u] # Nothing => u \in used'
      /\ \A u \in Uuid : proc'[p].mem[u] # Nothing => u \in used'
  BY <1>2, <1>8 DEF SharedInv, RowsAreUsed, SameTask
<1>10. proc'[p].backed => proc'[p].policy = "replace"
  BY <1>2 DEF SharedInv, OnlyReplacesBackUp, Fresh, SameTask, SameWork
<1> QED
  BY <1>2, <1>8, <1>9, <1>10, SharedFrame

LEMMA SharedInit == Init => SharedInv
<1> SUFFICES ASSUME Init PROVE SharedInv
  OBVIOUS
<1> USE ManagedAssumption
<1>1. PICK adopted \in BOOLEAN, present \in BOOLEAN :
        LET own == [path |-> 0, sha |-> IF adopted THEN Nothing ELSE Installed,
                    desktop |-> ~adopted, icon |-> ~adopted /\ Installed \in HasIcon]
        IN  /\ db = [u \in Uuid |-> IF u = Old THEN own ELSE Nothing]
            /\ entry = [u \in Uuid |-> IF u = Old /\ own.desktop THEN Installed ELSE Nothing]
            /\ icon = [u \in Uuid |-> IF u = Old /\ own.icon THEN Installed ELSE Nothing]
            /\ file = [q \in Path |-> IF q = 0 /\ present THEN Installed ELSE Nothing]
            /\ intact = IF present /\ ~adopted THEN {Old} ELSE {}
  BY DEF Init
<1> DEFINE hasIcon == (~adopted /\ Installed \in HasIcon)
           own == [path |-> 0, sha |-> IF adopted THEN Nothing ELSE Installed,
                   desktop |-> ~adopted, icon |-> hasIcon]
           none == [app |-> Nothing, entry |-> Nothing, icon |-> Nothing]
           start == [at |-> "idle", outcome |-> "none", kind |-> "integrate", mem |-> db,
                     from |-> Installed, policy |-> "unspecified", move |-> FALSE,
                     permanent |-> FALSE, id |-> Old, dest |-> 0, hadEntry |-> FALSE,
                     hadIcon |-> FALSE, backed |-> FALSE, placed |-> FALSE, cleaned |-> TRUE]
<1>2. hasIcon \in BOOLEAN
  BY Zenon
<1>3. /\ db = [u \in Uuid |-> IF u = Old THEN own ELSE Nothing]
      /\ entry \in [Uuid -> Image] /\ icon \in [Uuid -> Image]
      /\ file \in [Path -> Image] /\ intact \subseteq {Old}
  BY <1>1 DEF Image
<1> HIDE DEF hasIcon
<1>4. own \in Row
  BY <1>2 DEF Row, Image
<1> HIDE DEF own
<1>5. db \in Registry /\ \A u \in Uuid : db[u] # Nothing => u = Old
  BY <1>3, <1>4 DEF Registry
<1>6. none \in Backup
  BY DEF Backup, Image
<1> HIDE DEF none
<1>7. /\ start \in Operation /\ start.at = "idle" /\ start.mem = db /\ ~start.backed
  BY <1>5 DEF Operation, Step, Outcome, Policy
<1>8. proc = [p \in Proc |-> start]
  BY DEF Init
<1> HIDE DEF start
<1>9. proc \in [Proc -> Operation] /\ \A p \in Proc : proc[p] = start
  BY <1>7, <1>8
<1>10. /\ stage \in [Proc -> Image] /\ left = {} /\ source = Content /\ used = {Old}
       /\ ops = 0 /\ faults = 0 /\ crashes = 0
  BY DEF Init, Image
<1>11. backup \in [Proc -> Backup]
  BY <1>6 DEF Init, none
<1>12. TypeOK
  BY <1>3, <1>5, <1>9, <1>10, <1>11 DEF TypeOK
<1>13. RowsAreUsed
  BY <1>5, <1>7, <1>9, <1>10 DEF RowsAreUsed
<1>14. IdIsUsed /\ OnlyReplacesBackUp
  BY <1>7, <1>9 DEF IdIsUsed, OnlyReplacesBackUp, At
<1> QED
  BY <1>12, <1>13, <1>14 DEF SharedInv

LEMMA SharedStep == SharedInv /\ [Next]_vars => SharedInv'
<1> SUFFICES ASSUME SharedInv, [Next]_vars PROVE SharedInv'
  OBVIOUS
<1>1. CASE UNCHANGED vars
  BY <1>1 DEF SharedInv, TypeOK, RowsAreUsed, IdIsUsed, OnlyReplacesBackUp, At, Fresh,
              vars, artifacts, bounds
<1>2. ASSUME NEW p \in Proc, IntegrateStep(p) PROVE SharedInv'
  BY <1>2, StartIsShared, GateIsShared, InstallIsShared, CommitIsShared, UndoIsShared,
     EndIsShared DEF IntegrateStep
<1>3. ASSUME NEW p \in Proc, RemoveStep(p) PROVE SharedInv'
  BY <1>3, StartIsShared, RemovalIsShared DEF RemoveStep
<1> QED
  BY <1>1, <1>2, <1>3, CrashIsShared DEF Next

(* Every variable has its type, whatever several processes do to the one   *)
(* folder and registry.                                                    *)
THEOREM TypeCorrect == Spec => []TypeOK
<1>1. SharedInv => TypeOK
  BY DEF SharedInv
<1> QED
  BY <1>1, SharedInit, SharedStep, PTL DEF Spec

(* A step takes a file from its path only as a replace, as the rollback of *)
(* what it placed, or as a removal.                                        *)
LEMMA StepKeepsOff ==
  ASSUME SharedInv, Next, NEW q \in Path, file[q] # Nothing, file'[q] # file[q]
  PROVE  \E p \in Proc :
           \/ ~Fresh(p) /\ proc[p].dest = q /\ proc[p].at \in {"commit", "undoFile"}
           \/ Fresh(p) /\ proc[p].dest = q /\ At(p, "undoFile") /\ proc[p].placed
           \/ At(p, "unlink") /\ Target(p).path = q
<1>1. file \in [Path -> Image] /\ TypeOK
  BY DEF SharedInv, TypeOK
<1>2. PICK p \in Proc : Commit(p) \/ UndoFile(p) \/ Unlink(p)
  <2>1. PICK r \in Proc : IntegrateStep(r) \/ RemoveStep(r) \/ Crash(r)
    BY DEF Next
  <2>2. ~(BeginIntegrate(r) \/ BeginRemove(r))
    BY <1>1, IntegrateRecord, RemoveRecord
  <2>3. ~(\/ Refuse(r) \/ GateReplace(r) \/ GateFresh(r) \/ Stage(r) \/ InstallEntry(r)
          \/ InstallIcon(r) \/ MakeBackups(r) \/ Register(r))
    BY DEF Refuse, GateReplace, GateFresh, Stage, InstallEntry, InstallIcon, MakeBackups,
           Register
  <2>4. ~(\/ UndoEntry(r) \/ UndoIcon(r) \/ UndoRows(r) \/ UndoTemps(r) \/ DropBackups(r)
          \/ TrashSource(r))
    BY DEF UndoEntry, UndoIcon, UndoRows, UndoTemps, DropBackups, TrashSource
  <2>5. ~(DropEntry(r) \/ DropIcon(r) \/ DropRow(r) \/ Crash(r))
    BY DEF DropEntry, DropIcon, DropRow, Crash
  <2> QED
    BY <2>1, <2>2, <2>3, <2>4, <2>5 DEF IntegrateStep, RemoveStep
<1>3. CASE Commit(p)
  BY <1>1, <1>3 DEF Commit, At
<1>4. CASE UndoFile(p)
  <2>1. proc[p].backed => ~Fresh(p)
    BY DEF SharedInv, OnlyReplacesBackUp
  <2> QED
    BY <1>1, <1>4, <2>1 DEF UndoFile, At
<1>5. CASE Unlink(p)
  BY <1>1, <1>5 DEF Unlink, At
<1> QED
  BY <1>2, <1>3, <1>4, <1>5

(* Whatever several processes do at once, a fresh install never takes the  *)
(* place of a file that is there, and its rollback removes nothing from a  *)
(* path where it placed nothing.                                           *)
THEOREM FreshKeepOff == Spec => FreshInstallsKeepOff
<1>1. SharedInv /\ [Next]_vars =>
        [\A q \in Path : (file[q] # Nothing /\ file'[q] # file[q]) =>
           \E p \in Proc :
             \/ ~Fresh(p) /\ proc[p].dest = q /\ proc[p].at \in {"commit", "undoFile"}
             \/ Fresh(p) /\ proc[p].dest = q /\ At(p, "undoFile") /\ proc[p].placed
             \/ At(p, "unlink") /\ Target(p).path = q]_vars
  BY StepKeepsOff
<1> QED
  BY <1>1, SharedInit, SharedStep, PTL DEF Spec, FreshInstallsKeepOff

-----------------------------------------------------------------------------
(* One process at a time.  What a step has to show of its process, by      *)
(* where the step leads.                                                   *)
LEMMA OneFrame ==
  ASSUME OneProcess, NEW p \in Proc, SharedInv', Kept', Phase(p)'
  PROVE  IInv'
<1>1. \A q \in Proc : q = p
  BY DEF OneProcess
<1>2. ASSUME NEW q \in Proc PROVE Phase(q)'
  <2>1. q = p
    BY <1>1
  <2> QED
    BY <2>1
<1> QED
  BY <1>2 DEF IInv

LEMMA IdleFrame ==
  ASSUME NEW p \in Proc, SameTask(p), SameWork(p), proc'[p].at = "idle",
         (proc[p].kind = "integrate" /\ proc'[p].outcome = "failed") =>
           /\ db' = proc[p].mem
           /\ (Fresh(p) /\ proc[p].placed /\ faults' <= 1) => file'[proc[p].dest] = Nothing,
         (proc[p].kind = "remove" /\ proc'[p].outcome = "ok") =>
           /\ db'[proc[p].id] = Nothing /\ file'[Target(p).path] = Nothing
           /\ Target(p).desktop => entry'[proc[p].id] = Nothing
           /\ Target(p).icon => icon'[proc[p].id] = Nothing
  PROVE  Phase(p)'
<1>1. KindFits(p)'
  BY DEF KindFits, Integrating, Placing, Undoing, Removing
<1>2. MemIsCurrent(p)'
  BY DEF MemIsCurrent, Failed, At, SameTask
<1>3. FileOnItsWay(p)'
  BY DEF FileOnItsWay, Placing
<1>4. UndoneForAFault(p)'
  BY DEF UndoneForAFault, Undoing, Failed, At, SameTask, SameWork, Fresh
<1>5. RemovalGoesOn(p)'
  BY DEF RemovalGoesOn, Removing, At, SameTask, SameWork, Target
<1> QED
  BY <1>1, <1>2, <1>3, <1>4, <1>5 DEF Phase

LEMMA PlacingFrame ==
  ASSUME NEW p \in Proc, proc'[p].at \in Placing \cup {"gate"},
         proc'[p].kind = "integrate", db' = proc'[p].mem, ~proc'[p].placed,
         proc'[p].at \in Placing \ {"stage"} => stage'[p] = proc'[p].from,
         (proc'[p].at \in Placing /\ proc'[p].policy # "replace") =>
           file'[proc'[p].dest] = Nothing,
         (proc'[p].at = "commit" /\ proc'[p].policy = "replace") =>
           /\ backup'[p].app = file'[proc'[p].dest]
           /\ proc'[p].backed = (file'[proc'[p].dest] # Nothing)
  PROVE  Phase(p)'
<1>1. KindFits(p)'
  BY DEF KindFits, Placing, Removing
<1>2. MemIsCurrent(p)'
  BY DEF MemIsCurrent, Placing
<1>3. FileOnItsWay(p)'
  BY DEF FileOnItsWay, Placing, Fresh
<1>4. UndoneForAFault(p)'
  BY DEF UndoneForAFault, Undoing, Failed, At, Placing
<1>5. RemovalGoesOn(p)'
  BY DEF RemovalGoesOn, Removing, At, Placing
<1> QED
  BY <1>1, <1>2, <1>3, <1>4, <1>5 DEF Phase

LEMMA InstalledFrame ==
  ASSUME NEW p \in Proc, proc'[p].at \in {"upsert", "dropBackups", "tail"},
         proc'[p].kind = "integrate",
         proc'[p].at = "upsert" => db' = proc'[p].mem,
         proc'[p].at # "upsert" => db'[proc'[p].id] = NewRow(p)',
         file'[proc'[p].dest] = proc'[p].from
  PROVE  Phase(p)'
<1>1. KindFits(p)'
  BY DEF KindFits, Removing
<1>2. MemIsCurrent(p)'
  BY DEF MemIsCurrent, Failed, At
<1>3. FileOnItsWay(p)'
  BY DEF FileOnItsWay, Placing
<1>4. UndoneForAFault(p)'
  BY DEF UndoneForAFault, Undoing, Failed, At
<1>5. RemovalGoesOn(p)'
  BY DEF RemovalGoesOn, Removing, At
<1> QED
  BY <1>1, <1>2, <1>3, <1>4, <1>5 DEF Phase

LEMMA UndoFrame ==
  ASSUME NEW p \in Proc, proc'[p].at \in Undoing, proc'[p].kind = "integrate",
         db' = proc'[p].mem, faults' > 0,
         (/\ proc'[p].at # "undoFile" /\ proc'[p].policy # "replace" /\ proc'[p].placed
          /\ faults' <= 1) => file'[proc'[p].dest] = Nothing
  PROVE  Phase(p)'
<1>1. KindFits(p)'
  BY DEF KindFits, Removing, Undoing
<1>2. MemIsCurrent(p)'
  BY DEF MemIsCurrent, Undoing
<1>3. FileOnItsWay(p)'
  BY DEF FileOnItsWay, Placing, Undoing
<1>4. UndoneForAFault(p)'
  BY DEF UndoneForAFault, Undoing, Failed, At, Fresh
<1>5. RemovalGoesOn(p)'
  BY DEF RemovalGoesOn, Removing, At, Undoing
<1> QED
  BY <1>1, <1>2, <1>3, <1>4, <1>5 DEF Phase

LEMMA RemovingFrame ==
  ASSUME NEW p \in Proc, proc'[p].at \in Removing, proc'[p].kind = "remove",
         Target(p)' # Nothing, db' = proc'[p].mem,
         proc'[p].at # "unlink" => file'[Target(p)'.path] = Nothing,
         (proc'[p].at \in {"dropIcon", "dropRow"} /\ proc'[p].cleaned /\ Target(p)'.desktop) =>
           entry'[proc'[p].id] = Nothing,
         (proc'[p].at = "dropRow" /\ proc'[p].cleaned /\ Target(p)'.icon) =>
           icon'[proc'[p].id] = Nothing
  PROVE  Phase(p)'
<1>1. KindFits(p)'
  BY DEF KindFits, Removing, Integrating, Undoing, Placing
<1>2. MemIsCurrent(p)'
  BY DEF MemIsCurrent, Removing
<1>3. FileOnItsWay(p)'
  BY DEF FileOnItsWay, Placing, Removing
<1>4. UndoneForAFault(p)'
  BY DEF UndoneForAFault, Undoing, Failed, At, Removing
<1>5. RemovalGoesOn(p)'
  BY DEF RemovalGoesOn, Removing, At
<1> QED
  BY <1>1, <1>2, <1>3, <1>4, <1>5 DEF Phase

(* A step before the commit or after the rollback of the file moves none   *)
(* of the registered files, nor a copy of one that a crash left.           *)
LEMMA KeptFrame ==
  ASSUME OneProcess, IInv, NEW p \in Proc, UNCHANGED <<file, db, intact>>,
         left \subseteq left' \/ faults > 0,
         faults' \in {faults, faults + 1}, crashes' \in {crashes, crashes + 1},
         proc[p].at \notin {"upsert", "undoFile"},
         proc'[p].at \notin {"upsert", "undoFile"}
  PROVE  Kept'
<1>1. faults \in Nat /\ crashes \in Nat
  BY DEF IInv, SharedInv, TypeOK
<1>2. SUFFICES ASSUME NEW u \in intact, db[u] # Nothing
               PROVE  /\ db[u].sha \in Content
                      /\ Tolerated' =>
                           \/ crashes' > 0 /\ db[u].sha \in left'
                           \/ \A q \in Proc : KeptBy(u, q)'
  BY DEF Kept
<1>3. /\ db[u].sha \in Content
      /\ Tolerated => \/ crashes > 0 /\ db[u].sha \in left
                      \/ \A q \in Proc : KeptBy(u, q)
  BY <1>2 DEF IInv, Kept
<1>4. Tolerated' => Tolerated /\ (faults = 0 \/ crashes = 0)
  BY <1>1 DEF Tolerated
<1>5. \A q \in Proc : q = p
  BY DEF OneProcess
<1>6. KeptBy(u, p) => file[db[u].path] = db[u].sha
  BY DEF KeptBy, Between
<1>7. file[db[u].path] = db[u].sha => \A q \in Proc : KeptBy(u, q)'
  BY <1>5 DEF KeptBy, Between
<1> QED
  BY <1>1, <1>3, <1>4, <1>6, <1>7

(* The same when the file of an app is in place once the step is taken.    *)
LEMMA KeptInPlace ==
  ASSUME OneProcess, NEW p \in Proc,
         \A u \in intact' : db'[u] # Nothing =>
           /\ db'[u].sha \in Content
           /\ Tolerated' => \/ crashes' > 0 /\ db'[u].sha \in left'
                            \/ KeptBy(u, p)'
  PROVE  Kept'
<1>1. \A q \in Proc : q = p
  BY DEF OneProcess
<1>2. ASSUME NEW u, KeptBy(u, p)' PROVE \A q \in Proc : KeptBy(u, q)'
  <2>1. ASSUME NEW q \in Proc PROVE KeptBy(u, q)'
    <3>1. q = p
      BY <1>1
    <3> QED
      BY <1>2, <3>1
  <2> QED
    BY <2>1
<1> QED
  BY <1>2 DEF Kept

LEMMA OneFacts ==
  ASSUME IInv, NEW p \in Proc
  PROVE  /\ SharedInv /\ TypeOK /\ Kept
         /\ KindFits(p) /\ MemIsCurrent(p) /\ FileOnItsWay(p)
         /\ UndoneForAFault(p) /\ RemovalGoesOn(p)
         /\ proc \in [Proc -> Operation] /\ proc[p] \in Operation
         /\ proc[p].id \in Uuid /\ proc[p].dest \in Path /\ proc[p].from \in Content
         /\ proc[p].mem \in Registry /\ proc[p].kind \in {"integrate", "remove"}
         /\ Nothing \notin Content
         /\ faults \in Nat /\ crashes \in Nat
         /\ proc[p].backed => ~Fresh(p)
         /\ proc[p].at = "backups" => ~Fresh(p)
<1>1. SharedInv /\ TypeOK /\ Kept /\ Phase(p)
  BY DEF IInv, SharedInv
<1>2. proc \in [Proc -> Operation] /\ proc[p] \in Operation /\ faults \in Nat /\ crashes \in Nat
  BY <1>1 DEF TypeOK
<1>3. (proc[p].backed => ~Fresh(p)) /\ (proc[p].at = "backups" => ~Fresh(p))
  BY <1>1 DEF SharedInv, OnlyReplacesBackUp, At
<1> QED
  BY <1>1, <1>2, <1>3, OperationFields, ManagedAssumption DEF Phase

LEMMA StartKeeps ==
  ASSUME OneProcess, IInv, NEW p \in Proc, BeginIntegrate(p) \/ BeginRemove(p)
  PROVE  IInv'
<1>1. SharedInv' /\ TypeOK
  BY StartIsShared, OneFacts
<1>2. CASE BeginIntegrate(p)
  <2>1. /\ proc'[p].at = "gate" /\ proc'[p].kind = "integrate" /\ proc'[p].mem = db
        /\ ~proc'[p].placed /\ proc[p].at = "idle"
        /\ UNCHANGED <<file, db, left, intact, faults, crashes>>
    BY <1>1, <1>2, IntegrateRecord DEF At
  <2>2. Phase(p)'
    BY <2>1, PlacingFrame DEF Placing
  <2>3. Kept'
    BY <2>1, KeptFrame
  <2> QED
    BY <1>1, <2>2, <2>3, OneFrame
<1>3. CASE BeginRemove(p)
  <2>1. /\ proc'[p].at = "unlink" /\ proc'[p].kind = "remove" /\ proc'[p].mem = db
        /\ db[proc'[p].id] # Nothing /\ proc[p].at = "idle"
        /\ UNCHANGED <<file, db, left, intact, faults, crashes>>
    BY <1>1, <1>3, RemoveRecord DEF At
  <2>2. Phase(p)'
    BY <2>1, RemovingFrame DEF Removing, Target
  <2>3. Kept'
    BY <2>1, KeptFrame
  <2> QED
    BY <1>1, <2>2, <2>3, OneFrame
<1> QED
  BY <1>2, <1>3

LEMMA GateKeeps ==
  ASSUME OneProcess, IInv, NEW p \in Proc, Refuse(p) \/ GateReplace(p) \/ GateFresh(p)
  PROVE  IInv'
<1>1. SharedInv'
  BY GateIsShared, OneFacts
<1>2. /\ TypeOK /\ proc \in [Proc -> Operation] /\ proc[p] \in Operation
      /\ KindFits(p) /\ MemIsCurrent(p) /\ FileOnItsWay(p) /\ proc[p].at = "gate"
  BY OneFacts DEF Refuse, GateReplace, GateFresh, At
<1>3. proc[p].kind = "integrate" /\ db = proc[p].mem /\ ~proc[p].placed
  BY <1>2 DEF KindFits, Integrating, MemIsCurrent, FileOnItsWay
<1>4. UNCHANGED <<file, db, left, intact, faults, crashes>>
  BY DEF Refuse, GateReplace, GateFresh, bounds
<1>5. CASE Refuse(p)
  <2>1. SameTask(p) /\ SameWork(p) /\ proc'[p].at = "idle"
    BY <1>2, <1>5, FinishRecord DEF Refuse, Outcome
  <2>2. Phase(p)'
    BY <1>3, <1>4, <2>1, IdleFrame
  <2>3. Kept'
    BY <1>2, <1>4, <2>1, KeptFrame
  <2> QED
    BY <1>1, <2>2, <2>3, OneFrame
<1>6. CASE GateReplace(p)
  <2>1. SameTask(p) /\ proc'[p].at = "stage" /\ proc'[p].placed = proc[p].placed
    BY <1>2, <1>6, GateRecord
  <2>2. proc[p].policy = "replace"
    BY <1>6 DEF GateReplace, Fresh
  <2>3. Phase(p)'
    BY <1>3, <1>4, <2>1, <2>2, PlacingFrame DEF Placing, SameTask
  <2>4. Kept'
    BY <1>2, <1>4, <2>1, KeptFrame
  <2> QED
    BY <1>1, <2>3, <2>4, OneFrame
<1>7. CASE GateFresh(p)
  <2>1. SameTask(p) /\ proc'[p].at = "stage" /\ proc'[p].placed = proc[p].placed
    BY <1>2, <1>7, GateRecord
  <2>2. file'[proc'[p].dest] = Nothing
    <3>1. PICK u \in Uuid \ used, q \in Path :
            /\ IF Taken(p) THEN proc[p].policy = "keepBoth" /\ q \in KeepBothNames ELSE q = 0
            /\ proc' = [proc EXCEPT ![p].at = "stage", ![p].id = u, ![p].dest = q]
      BY <1>7 DEF GateFresh
    <3>2. proc'[p].dest = q
      BY <1>2, <3>1
    <3>3. file[q] = Nothing
      BY <3>1 DEF Taken, KeepBothNames
    <3> QED
      BY <1>4, <3>2, <3>3
  <2>3. Phase(p)'
    BY <1>3, <1>4, <2>1, <2>2, PlacingFrame DEF Placing, SameTask
  <2>4. Kept'
    BY <1>2, <1>4, <2>1, KeptFrame
  <2> QED
    BY <1>1, <2>3, <2>4, OneFrame
<1> QED
  BY <1>5, <1>6, <1>7

(* Staging, the desktop entry, the icon and the backups: the file of every *)
(* app is where it was.                                                    *)
LEMMA InstallKeeps ==
  ASSUME OneProcess, IInv, NEW p \in Proc,
         Stage(p) \/ InstallEntry(p) \/ InstallIcon(p) \/ MakeBackups(p)
  PROVE  IInv'
<1>1. SharedInv'
  BY InstallIsShared, OneFacts
<1>2. /\ TypeOK /\ proc \in [Proc -> Operation] /\ proc[p] \in Operation
      /\ KindFits(p) /\ MemIsCurrent(p) /\ FileOnItsWay(p)
      /\ proc[p].at \in {"stage", "entry", "icon", "backups"}
      /\ faults \in Nat /\ crashes \in Nat
      /\ proc[p].at = "backups" => ~Fresh(p)
  BY OneFacts DEF Stage, InstallEntry, InstallIcon, MakeBackups, At
<1>3. /\ proc[p].kind = "integrate" /\ db = proc[p].mem /\ ~proc[p].placed
      /\ proc[p].at # "stage" => stage[p] = proc[p].from
      /\ Fresh(p) => file[proc[p].dest] = Nothing
  BY <1>2 DEF KindFits, Integrating, MemIsCurrent, FileOnItsWay, Placing
<1>4. /\ UNCHANGED <<file, db, intact, crashes>> /\ left \subseteq left'
      /\ faults' \in {faults, faults + 1}
  BY DEF Stage, InstallEntry, InstallIcon, MakeBackups, bounds, Fault, NoFault
<1>5. stage \in [Proc -> Image]
  BY <1>2 DEF TypeOK
<1>6. ASSUME Finish(p, "failed") PROVE IInv'
  <2>1. SameTask(p) /\ SameWork(p) /\ proc'[p].at = "idle"
    BY <1>2, <1>6, FinishRecord DEF Outcome
  <2>2. Phase(p)'
    BY <1>3, <1>4, <2>1, IdleFrame
  <2>3. Kept'
    BY <1>2, <1>4, <2>1, KeptFrame
  <2> QED
    BY <1>1, <2>2, <2>3, OneFrame
<1>7. ASSUME SameTask(p), proc'[p].dest = proc[p].dest, ~proc'[p].placed,
             proc'[p].at \in {"entry", "icon", "backups", "commit"},
             stage'[p] = proc[p].from,
             (proc'[p].at = "commit" /\ ~Fresh(p)) =>
               /\ backup'[p].app = file[proc[p].dest]
               /\ proc'[p].backed = (file[proc[p].dest] # Nothing)
      PROVE  IInv'
  <2>1. /\ proc'[p].kind = "integrate" /\ db' = proc'[p].mem
        /\ proc'[p].from = proc[p].from /\ proc'[p].policy = proc[p].policy
    BY <1>3, <1>4, <1>7 DEF SameTask
  <2>2. proc'[p].policy # "replace" => file'[proc'[p].dest] = Nothing
    BY <1>3, <1>4, <1>7, <2>1 DEF Fresh
  <2>3. (proc'[p].at = "commit" /\ proc'[p].policy = "replace") =>
          /\ backup'[p].app = file'[proc'[p].dest]
          /\ proc'[p].backed = (file'[proc'[p].dest] # Nothing)
    BY <1>4, <1>7, <2>1 DEF Fresh
  <2>4. Phase(p)'
    BY <1>7, <2>1, <2>2, <2>3, PlacingFrame DEF Placing
  <2>5. Kept'
    BY <1>2, <1>4, <1>7, KeptFrame
  <2> QED
    BY <1>1, <2>4, <2>5, OneFrame
<1>8. CASE Stage(p)
  <2>1. CASE Goto(p, "entry") /\ stage' = [stage EXCEPT ![p] = proc[p].from]
    <3>1. SameTask(p) /\ SameWork(p) /\ proc'[p].at = "entry"
      BY <1>2, <2>1, GotoRecord DEF Step
    <3>2. stage'[p] = proc[p].from
      BY <1>5, <2>1
    <3> QED
      BY <1>3, <1>7, <3>1, <3>2 DEF SameWork
  <2> QED
    BY <1>6, <1>8, <2>1 DEF Stage
<1>9. CASE InstallEntry(p)
  <2>1. CASE ~Finish(p, "failed")
    <3>1. SameTask(p) /\ SameWork(p) /\ proc'[p].at = "icon"
      BY <1>2, <1>9, <2>1, EntryRecord DEF InstallEntry
    <3>2. stage'[p] = proc[p].from
      BY <1>3, <1>9, <2>1 DEF InstallEntry, At
    <3> QED
      BY <1>3, <1>7, <3>1, <3>2 DEF SameWork
  <2> QED
    BY <1>6, <2>1
<1>10. CASE InstallIcon(p)
  <2>1. CASE ~Finish(p, "failed")
    <3>1. /\ SameTask(p) /\ SameWork(p) /\ proc'[p].at \in {"commit", "backups"}
          /\ proc'[p].at = "commit" => Fresh(p)
      BY <1>2, <1>10, <2>1, GotoRecord DEF InstallIcon, Step
    <3>2. stage'[p] = proc[p].from
      BY <1>3, <1>10, <2>1 DEF InstallIcon, At
    <3> QED
      BY <1>3, <1>7, <3>1, <3>2 DEF SameWork
  <2> QED
    BY <1>6, <2>1
<1>11. CASE MakeBackups(p)
  <2>1. CASE ~Finish(p, "failed")
    <3> DEFINE held == (file[proc[p].dest] # Nothing)
               made == [app |-> file[proc[p].dest], entry |-> entry[proc[p].id],
                        icon |-> IF WithIcon(p) THEN icon[proc[p].id] ELSE Nothing]
    <3>1. /\ backup' = [backup EXCEPT ![p] = made]
          /\ proc' = [proc EXCEPT ![p].at = "commit", ![p].backed = held]
          /\ UNCHANGED stage
      BY <1>11, <2>1 DEF MakeBackups
    <3>2. made.app = file[proc[p].dest] /\ held \in BOOLEAN
      OBVIOUS
    <3>3. backup \in [Proc -> Backup]
      BY <1>2 DEF TypeOK
    <3>4. held = (file[proc[p].dest] # Nothing)
      OBVIOUS
    <3> HIDE DEF made, held
    <3>5. backup'[p].app = file[proc[p].dest]
      BY <3>1, <3>2, <3>3
    <3>6. /\ SameTask(p) /\ proc'[p].at = "commit" /\ proc'[p].backed = held
          /\ proc'[p].dest = proc[p].dest /\ proc'[p].placed = proc[p].placed
      BY <1>2, <3>1, <3>2, FlagRecord DEF Step
    <3>7. stage'[p] = proc[p].from
      BY <1>3, <1>11, <3>1 DEF MakeBackups, At
    <3> QED
      BY <1>3, <1>7, <3>4, <3>5, <3>6, <3>7
  <2> QED
    BY <1>6, <2>1
<1> QED
  BY <1>8, <1>9, <1>10, <1>11

LEMMA CommitKeeps ==
  ASSUME OneProcess, IInv, NEW p \in Proc, Commit(p)
  PROVE  IInv'
<1> DEFINE dest == proc[p].dest
           free == Fresh(p) => file[dest] = Nothing
<1>1. SharedInv'
  BY CommitIsShared, OneFacts
<1>2. /\ TypeOK /\ proc \in [Proc -> Operation] /\ proc[p] \in Operation /\ Kept
      /\ KindFits(p) /\ MemIsCurrent(p) /\ FileOnItsWay(p) /\ proc[p].at = "commit"
      /\ faults \in Nat /\ crashes \in Nat /\ dest \in Path /\ Nothing \notin Content
      /\ proc[p].from \in Content
  BY OneFacts DEF Commit, At
<1>3. /\ proc[p].kind = "integrate" /\ db = proc[p].mem
      /\ stage[p] = proc[p].from
      /\ Fresh(p) => file[dest] = Nothing
      /\ ~Fresh(p) => backup[p].app = file[dest] /\ proc[p].backed = (file[dest] # Nothing)
  BY <1>2 DEF KindFits, Integrating, MemIsCurrent, FileOnItsWay, Placing
<1>4. UNCHANGED <<db, backup, left, intact, crashes>>
  BY DEF Commit, bounds
<1>5. file \in [Path -> Image]
  BY <1>2 DEF TypeOK
<1>6. ASSUME NEW u \in intact, db[u] # Nothing
      PROVE  /\ db[u].sha \in Content
             /\ Tolerated => \/ crashes > 0 /\ db[u].sha \in left
                             \/ file[db[u].path] = db[u].sha
  BY <1>2, <1>6 DEF Kept, KeptBy, Between
(* A fresh install took a free name; what a replace writes over is held.   *)
<1>7. ASSUME SameTask(p), proc'[p].dest = dest, proc'[p].backed = proc[p].backed,
             proc'[p].at \in {"upsert", "undoFile"}, Tolerated' => Tolerated,
             \A q \in Path \ {dest} : file'[q] = file[q]
      PROVE  Kept'
  <2>1. ASSUME NEW u \in intact, db[u] # Nothing, file[db[u].path] = db[u].sha
        PROVE  KeptBy(u, p)'
    <3>1. db[u].sha \in Content /\ db[u].path \in Path
      <4>1. u \in Uuid /\ db[u] \in Row
        BY <1>2, <2>1 DEF TypeOK, Registry
      <4> QED
        BY <1>6, <2>1, <4>1 DEF Row
    <3>2. CASE db[u].path = dest
      <4>1. ~Fresh(p) /\ proc[p].backed /\ backup[p].app = db[u].sha
        BY <1>2, <1>3, <2>1, <3>1, <3>2
      <4> QED
        BY <1>4, <1>7, <3>2, <4>1 DEF KeptBy, Between, Fresh, SameTask
    <3>3. CASE db[u].path # dest
      BY <1>4, <1>7, <2>1, <3>1, <3>3 DEF KeptBy, Between
    <3> QED
      BY <3>2, <3>3
  <2> QED
    BY <1>4, <1>6, <1>7, <2>1, KeptInPlace
<1>8. CASE /\ NoFault /\ file' = [file EXCEPT ![dest] = stage[p]]
           /\ proc' = [proc EXCEPT ![p].at = "upsert", ![p].placed = TRUE]
  <2>1. /\ SameTask(p) /\ proc'[p].at = "upsert" /\ proc'[p].dest = dest
        /\ proc'[p].backed = proc[p].backed
    BY <1>2, <1>8, FlagRecord DEF Step
  <2>2. file'[dest] = proc[p].from /\ \A q \in Path \ {dest} : file'[q] = file[q]
    BY <1>2, <1>3, <1>5, <1>8
  <2>3. Phase(p)'
    BY <1>3, <1>4, <2>1, <2>2, InstalledFrame DEF SameTask
  <2>4. Tolerated' => Tolerated
    BY <1>4, <1>8 DEF Tolerated, NoFault
  <2> QED
    BY <1>1, <1>7, <2>1, <2>2, <2>3, <2>4, OneFrame
<1>9. CASE ~(stage[p] # Nothing /\ free)
  BY <1>2, <1>3, <1>9
<1>10. CASE /\ Fault /\ Goto(p, "undoFile")
            /\ \/ UNCHANGED file
               \/ file' = [file EXCEPT ![dest] = stage[p]]
  <2>1. SameTask(p) /\ SameWork(p) /\ proc'[p].at = "undoFile"
    BY <1>2, <1>10, GotoRecord DEF Step
  <2>2. \A q \in Path \ {dest} : file'[q] = file[q]
    BY <1>5, <1>10
  <2>3. Phase(p)'
    BY <1>2, <1>3, <1>4, <1>10, <2>1, UndoFrame DEF SameTask, Undoing, Fault
  <2>4. Tolerated' => Tolerated
    BY <1>2, <1>4, <1>10 DEF Tolerated, Fault
  <2> QED
    BY <1>1, <1>7, <2>1, <2>2, <2>3, <2>4, OneFrame DEF SameWork
<1> QED
  BY <1>8, <1>9, <1>10 DEF Commit

LEMMA RegisterKeeps ==
  ASSUME OneProcess, IInv, NEW p \in Proc, Register(p)
  PROVE  IInv'
<1> DEFINE dest == proc[p].dest
           id == proc[p].id
<1>1. SharedInv'
  BY CommitIsShared, OneFacts
<1>2. /\ TypeOK /\ proc \in [Proc -> Operation] /\ proc[p] \in Operation /\ Kept
      /\ KindFits(p) /\ MemIsCurrent(p) /\ FileOnItsWay(p) /\ proc[p].at = "upsert"
      /\ faults \in Nat /\ crashes \in Nat /\ dest \in Path /\ id \in Uuid
      /\ proc[p].from \in Content
  BY OneFacts DEF Register, At
<1>3. /\ proc[p].kind = "integrate" /\ db = proc[p].mem /\ file[dest] = proc[p].from
  BY <1>2 DEF KindFits, Integrating, MemIsCurrent, FileOnItsWay
<1>4. UNCHANGED <<file, backup, left, crashes>>
  BY DEF Register, bounds
<1>5. db \in Registry
  BY <1>2 DEF TypeOK
<1>6. CASE /\ NoFault /\ Goto(p, "dropBackups")
           /\ db' = [db EXCEPT ![id] = NewRow(p)]
           /\ intact' = (intact \ IF Fresh(p) THEN {} ELSE Named(dest)) \cup {id}
  <2>1. SameTask(p) /\ SameWork(p) /\ proc'[p].at = "dropBackups"
    BY <1>2, <1>6, GotoRecord DEF Step
  <2>2. db'[id] = NewRow(p) /\ \A u \in Uuid \ {id} : db'[u] = db[u]
    BY <1>2, <1>5, <1>6 DEF Registry
  <2>3. NewRow(p)' = NewRow(p)
    BY <2>1 DEF NewRow, WithIcon, SameTask, SameWork
  <2>4. Phase(p)'
    BY <1>3, <1>4, <2>1, <2>2, <2>3, InstalledFrame DEF SameTask, SameWork
  <2>5. Tolerated' => Tolerated
    BY <1>4, <1>6 DEF Tolerated, NoFault
  <2>6. NewRow(p).sha = proc[p].from /\ NewRow(p).path = dest
    BY DEF NewRow
  <2>7. ASSUME NEW u \in intact', db'[u] # Nothing
        PROVE  /\ db'[u].sha \in Content
               /\ Tolerated' => \/ crashes' > 0 /\ db'[u].sha \in left'
                                \/ KeptBy(u, p)'
    <3>1. CASE u = id
      <4>1. db'[u].sha = proc[p].from /\ file'[db'[u].path] = db'[u].sha
        BY <1>3, <1>4, <2>2, <2>6, <3>1
      <4> QED
        BY <1>2, <2>1, <4>1 DEF KeptBy, Between
    <3>2. CASE u # id
      <4>1. /\ u \in intact /\ u \in Uuid /\ db'[u] = db[u] /\ db[u] # Nothing
            /\ ~Fresh(p) => db[u].path # dest
        BY <1>2, <1>6, <2>2, <2>7, <3>2 DEF TypeOK, Named
      <4>2. /\ db[u].sha \in Content
            /\ Tolerated => \/ crashes > 0 /\ db[u].sha \in left
                            \/ KeptBy(u, p)
        BY <1>2, <4>1 DEF Kept
      <4>3. KeptBy(u, p) => file[db[u].path] = db[u].sha
        BY <1>2, <4>1 DEF KeptBy, Between
      <4>4. file[db[u].path] = db[u].sha => KeptBy(u, p)'
        BY <1>4, <2>1, <4>1 DEF KeptBy, Between
      <4> QED
        BY <1>4, <2>5, <4>1, <4>2, <4>3, <4>4
    <3> QED
      BY <3>1, <3>2
  <2>8. Kept'
    BY <2>7, KeptInPlace
  <2> QED
    BY <1>1, <2>4, <2>8, OneFrame
<1>7. CASE Fault /\ Goto(p, "undoFile") /\ UNCHANGED <<db, intact>>
  <2>1. SameTask(p) /\ SameWork(p) /\ proc'[p].at = "undoFile"
    BY <1>2, <1>7, GotoRecord DEF Step
  <2>2. Phase(p)'
    BY <1>2, <1>3, <1>7, <2>1, UndoFrame DEF SameTask, Undoing, Fault
  <2>3. Tolerated' => Tolerated
    BY <1>2, <1>4, <1>7 DEF Tolerated, Fault
  <2>4. ASSUME NEW u \in intact, db[u] # Nothing
        PROVE  /\ db[u].sha \in Content
               /\ Tolerated => \/ crashes > 0 /\ db[u].sha \in left
                               \/ KeptBy(u, p)
    BY <1>2, <2>4 DEF Kept
  <2>5. ASSUME NEW u \in intact, KeptBy(u, p) PROVE KeptBy(u, p)'
    BY <1>2, <1>4, <1>7, <2>1, <2>5 DEF KeptBy, Between, Fresh, SameTask, SameWork
  <2>6. Kept'
    BY <1>4, <1>7, <2>3, <2>4, <2>5, KeptInPlace
  <2> QED
    BY <1>1, <2>2, <2>6, OneFrame
<1> QED
  BY <1>6, <1>7 DEF Register

LEMMA UndoFileKeeps ==
  ASSUME OneProcess, IInv, NEW p \in Proc, UndoFile(p)
  PROVE  IInv'
<1> DEFINE dest == proc[p].dest
           app == backup[p].app
<1>1. SharedInv'
  BY UndoIsShared, OneFacts
<1>2. /\ TypeOK /\ proc \in [Proc -> Operation] /\ proc[p] \in Operation /\ Kept
      /\ KindFits(p) /\ MemIsCurrent(p) /\ UndoneForAFault(p) /\ proc[p].at = "undoFile"
      /\ faults \in Nat /\ crashes \in Nat /\ dest \in Path /\ Nothing \notin Content
      /\ proc[p].backed => ~Fresh(p)
  BY OneFacts DEF UndoFile, At
<1>3. proc[p].kind = "integrate" /\ db = proc[p].mem /\ faults > 0
  BY <1>2 DEF KindFits, Integrating, MemIsCurrent, UndoneForAFault, Undoing
<1>4. /\ UNCHANGED <<db, left, intact, crashes>> /\ faults' \in {faults, faults + 1}
      /\ SameTask(p) /\ SameWork(p) /\ proc'[p].at = "undoEntry"
  BY <1>2, GotoRecord DEF UndoFile, bounds, Step, Fault, NoFault
<1>5. file \in [Path -> Image]
  BY <1>2 DEF TypeOK
<1>6. \/ /\ proc[p].backed /\ app # Nothing /\ faults' = faults
         /\ file' = [file EXCEPT ![dest] = app]
      \/ /\ ~proc[p].backed /\ proc[p].placed /\ faults' = faults
         /\ file' = [file EXCEPT ![dest] = Nothing]
      \/ /\ IF proc[p].backed THEN app = Nothing ELSE ~proc[p].placed
         /\ faults' = faults /\ UNCHANGED file
      \/ faults' = faults + 1 /\ UNCHANGED file
  BY DEF UndoFile, Fault, NoFault
<1>7. Phase(p)'
  <2>1. (Fresh(p) /\ proc[p].placed /\ faults' <= 1) => file'[dest] = Nothing
    BY <1>2, <1>3, <1>5, <1>6
  <2> QED
    BY <1>2, <1>3, <1>4, <2>1, UndoFrame DEF Undoing, SameTask, SameWork, Fresh
<1>8. Tolerated' => Tolerated /\ crashes = 0 /\ faults' = faults
  BY <1>2, <1>3, <1>4 DEF Tolerated
<1>9. ASSUME NEW u \in intact, db[u] # Nothing
      PROVE  /\ db[u].sha \in Content
             /\ Tolerated' => KeptBy(u, p)'
  <2>1. /\ db[u].sha \in Content
        /\ Tolerated => \/ crashes > 0 /\ db[u].sha \in left
                        \/ KeptBy(u, p)
    BY <1>2, <1>9 DEF Kept
  <2>2. db[u].path \in Path
    <3>1. u \in Uuid /\ db[u] \in Row
      BY <1>2, <1>9 DEF TypeOK, Registry
    <3> QED
      BY <3>1 DEF Row
  <2>3. ASSUME Tolerated' PROVE file'[db[u].path] = db[u].sha
    <3>1. KeptBy(u, p) /\ faults' = faults
      BY <1>2, <1>8, <2>1, <2>3
    <3>2. CASE db[u].path = dest
      <4>1. proc[p].backed /\ app = db[u].sha /\ app # Nothing
        BY <1>2, <2>1, <3>1, <3>2 DEF KeptBy, Between
      <4> QED
        BY <1>2, <1>5, <1>6, <3>1, <3>2, <4>1
    <3>3. CASE db[u].path # dest
      <4>1. file[db[u].path] = db[u].sha
        BY <3>1, <3>3 DEF KeptBy, Between
      <4> QED
        BY <1>5, <1>6, <2>2, <3>3, <4>1
    <3> QED
      BY <3>2, <3>3
  <2>4. file'[db[u].path] = db[u].sha => KeptBy(u, p)'
    BY <1>4 DEF KeptBy, Between
  <2> QED
    BY <2>1, <2>3, <2>4
<1>10. Kept'
  BY <1>4, <1>9, KeptInPlace
<1> QED
  BY <1>1, <1>7, <1>10, OneFrame

(* The rest of a rollback, once the file is where it was.                  *)
LEMMA UndoKeeps ==
  ASSUME OneProcess, IInv, NEW p \in Proc,
         UndoEntry(p) \/ UndoIcon(p) \/ UndoRows(p) \/ UndoTemps(p)
  PROVE  IInv'
<1>1. SharedInv'
  BY UndoIsShared, OneFacts
<1>2. /\ TypeOK /\ proc \in [Proc -> Operation] /\ proc[p] \in Operation
      /\ KindFits(p) /\ MemIsCurrent(p) /\ UndoneForAFault(p)
      /\ proc[p].at \in {"undoEntry", "undoIcon", "undoRows", "undoTemps"}
      /\ faults \in Nat /\ crashes \in Nat
  BY OneFacts DEF UndoEntry, UndoIcon, UndoRows, UndoTemps, At
<1>3. /\ proc[p].kind = "integrate" /\ db = proc[p].mem /\ faults > 0
      /\ (Fresh(p) /\ proc[p].placed /\ faults <= 1) => file[proc[p].dest] = Nothing
  BY <1>2 DEF KindFits, Integrating, MemIsCurrent, UndoneForAFault, Undoing
<1>4. /\ UNCHANGED <<file, db, intact, crashes>> /\ faults' \in {faults, faults + 1}
  BY <1>3 DEF UndoEntry, UndoIcon, UndoRows, UndoTemps, bounds, Fault, NoFault
<1>5. (Fresh(p) /\ proc[p].placed /\ faults' <= 1) => file'[proc[p].dest] = Nothing
  BY <1>2, <1>3, <1>4
<1>6. CASE UndoTemps(p)
  <2>1. SameTask(p) /\ SameWork(p) /\ proc'[p].at = "idle"
    BY <1>2, <1>6, FinishRecord DEF UndoTemps, Outcome
  <2>2. Phase(p)'
    BY <1>3, <1>4, <1>5, <2>1, IdleFrame
  <2>3. Kept'
    BY <1>2, <1>3, <1>4, <2>1, KeptFrame
  <2> QED
    BY <1>1, <2>2, <2>3, OneFrame
<1>7. CASE UndoEntry(p) \/ UndoIcon(p) \/ UndoRows(p)
  <2>1. /\ SameTask(p) /\ SameWork(p)
        /\ proc'[p].at \in {"undoIcon", "undoRows", "undoTemps"}
    BY <1>2, <1>7, GotoRecord DEF UndoEntry, UndoIcon, UndoRows, Step
  <2>2. db' = proc'[p].mem /\ faults' > 0
    BY <1>2, <1>3, <1>4, <2>1 DEF SameTask
  <2>3. Phase(p)'
    BY <1>3, <1>5, <2>1, <2>2, UndoFrame DEF Undoing, SameTask, SameWork, Fresh
  <2>4. Kept'
    BY <1>2, <1>3, <1>4, <2>1, KeptFrame
  <2> QED
    BY <1>1, <2>3, <2>4, OneFrame
<1> QED
  BY <1>6, <1>7

LEMMA EndKeeps ==
  ASSUME OneProcess, IInv, NEW p \in Proc, DropBackups(p) \/ TrashSource(p)
  PROVE  IInv'
<1>1. SharedInv'
  BY EndIsShared, OneFacts
<1>2. /\ TypeOK /\ proc \in [Proc -> Operation] /\ proc[p] \in Operation
      /\ KindFits(p) /\ MemIsCurrent(p) /\ FileOnItsWay(p)
      /\ proc[p].at \in {"dropBackups", "tail"}
  BY OneFacts DEF DropBackups, TrashSource, At
<1>3. /\ proc[p].kind = "integrate" /\ db[proc[p].id] = NewRow(p)
      /\ file[proc[p].dest] = proc[p].from
  BY <1>2 DEF KindFits, Integrating, MemIsCurrent, FileOnItsWay
<1>4. /\ UNCHANGED <<file, db, left, intact, crashes>> /\ faults' \in {faults, faults + 1}
  BY DEF DropBackups, TrashSource, bounds, Fault, NoFault
<1>5. CASE proc'[p].at = "idle"
  <2>1. SameTask(p) /\ SameWork(p) /\ proc'[p].outcome \in {"ok", "partial"}
    BY <1>2, <1>5, FinishRecord, GotoRecord DEF DropBackups, TrashSource, Outcome, Step
  <2>2. Phase(p)'
    BY <1>3, <1>5, <2>1, IdleFrame
  <2>3. Kept'
    BY <1>2, <1>4, <1>5, KeptFrame
  <2> QED
    BY <1>1, <2>2, <2>3, OneFrame
<1>6. CASE proc'[p].at # "idle"
  <2>1. SameTask(p) /\ SameWork(p) /\ proc'[p].at = "tail"
    BY <1>2, <1>6, FinishRecord, GotoRecord DEF DropBackups, TrashSource, Outcome, Step
  <2>2. NewRow(p)' = NewRow(p)
    BY <2>1 DEF NewRow, WithIcon, SameTask, SameWork
  <2>3. Phase(p)'
    BY <1>3, <1>4, <2>1, <2>2, InstalledFrame DEF SameTask, SameWork
  <2>4. Kept'
    BY <1>2, <1>4, <2>1, KeptFrame
  <2> QED
    BY <1>1, <2>3, <2>4, OneFrame
<1> QED
  BY <1>5, <1>6

(* A removal takes one file, and no other app is intact that has it.       *)
LEMMA UnlinkKeeps ==
  ASSUME OneProcess, IInv, NEW p \in Proc, Unlink(p)
  PROVE  IInv'
<1> DEFINE id == proc[p].id
           q == Target(p).path
<1>1. SharedInv'
  BY RemovalIsShared, OneFacts
<1>2. /\ TypeOK /\ proc \in [Proc -> Operation] /\ proc[p] \in Operation /\ Kept
      /\ KindFits(p) /\ MemIsCurrent(p) /\ proc[p].at = "unlink"
      /\ id \in Uuid /\ faults \in Nat /\ crashes \in Nat
  BY OneFacts DEF Unlink, At
<1>3. proc[p].kind = "remove" /\ Target(p) # Nothing /\ db = proc[p].mem
  BY <1>2 DEF KindFits, Removing, MemIsCurrent
<1>4. file \in [Path -> Image] /\ db \in Registry
  BY <1>2 DEF TypeOK
<1>5. Target(p) \in Row /\ q \in Path
  <2>1. Target(p) \in Row
    BY <1>2, <1>3, <1>4 DEF Target, Registry
  <2> QED
    BY <2>1 DEF Row
<1>6. UNCHANGED <<artifacts, db, left, crashes>>
  BY DEF Unlink, bounds
<1>7. CASE Fault
  <2>1. Finish(p, "failed") /\ UNCHANGED <<file, intact>>
    BY <1>2, <1>7 DEF Unlink, Fault, NoFault
  <2>2. /\ SameTask(p) /\ SameWork(p) /\ proc'[p].at = "idle" /\ proc'[p].outcome = "failed"
    BY <1>2, <2>1, FinishRecord DEF Outcome
  <2>3. Phase(p)'
    BY <1>3, <2>2, IdleFrame
  <2>4. Kept'
    BY <1>2, <1>6, <1>7, <2>1, <2>2, KeptFrame DEF Fault
  <2> QED
    BY <1>1, <2>3, <2>4, OneFrame
<1>8. CASE NoFault
  <2> DEFINE hasArtifacts == \/ Target(p).desktop /\ entry[id] # Nothing
                             \/ Target(p).icon /\ icon[id] # Nothing
  <2>1. /\ Goto(p, IF hasArtifacts THEN "dropEntry" ELSE "dropRow")
        /\ file' = [file EXCEPT ![q] = Nothing]
        /\ intact' = intact \ ({id} \cup Named(q)) /\ faults' = faults
    BY <1>2, <1>8 DEF Unlink, Fault, NoFault
  <2>2. (IF hasArtifacts THEN "dropEntry" ELSE "dropRow") \in Step
    BY DEF Step
  <2>3. /\ SameTask(p) /\ SameWork(p)
        /\ proc'[p].at = IF hasArtifacts THEN "dropEntry" ELSE "dropRow"
    BY <1>2, <2>1, <2>2, GotoRecord
  <2>4. Target(p)' = Target(p)
    BY <2>3 DEF Target, SameTask, SameWork
  <2>5. file'[q] = Nothing
    BY <1>4, <1>5, <2>1
  <2>6. proc'[p].at = "dropRow" =>
          /\ Target(p).desktop => entry'[id] = Nothing
          /\ Target(p).icon => icon'[id] = Nothing
    BY <1>6, <2>3 DEF artifacts
  <2>7. Phase(p)'
    BY <1>3, <1>6, <2>3, <2>4, <2>5, <2>6, RemovingFrame DEF Removing, SameTask, SameWork
  <2>8. ASSUME NEW u \in intact', db'[u] # Nothing
        PROVE  /\ db'[u].sha \in Content
               /\ Tolerated' => \/ crashes' > 0 /\ db'[u].sha \in left'
                                \/ KeptBy(u, p)'
    <3>1. u \in intact /\ u \in Uuid /\ db[u] # Nothing /\ db[u].path # q
      BY <1>2, <1>6, <2>1, <2>8 DEF TypeOK, Named
    <3>2. /\ db[u].sha \in Content
          /\ Tolerated => \/ crashes > 0 /\ db[u].sha \in left
                          \/ KeptBy(u, p)
      BY <1>2, <3>1 DEF Kept
    <3>3. db[u].path \in Path
      <4>1. db[u] \in Row
        BY <1>4, <3>1 DEF Registry
      <4> QED
        BY <4>1 DEF Row
    <3>4. KeptBy(u, p) => file[db[u].path] = db[u].sha
      BY <1>2 DEF KeptBy, Between
    <3>5. file'[db[u].path] = file[db[u].path]
      BY <1>4, <2>1, <3>1, <3>3
    <3>6. file[db[u].path] = db[u].sha => KeptBy(u, p)'
      BY <1>6, <2>3, <3>5 DEF KeptBy, Between
    <3>7. Tolerated' => Tolerated
      BY <1>6, <2>1 DEF Tolerated
    <3> QED
      BY <1>6, <3>2, <3>4, <3>6, <3>7
  <2>9. Kept'
    BY <2>8, KeptInPlace
  <2> QED
    BY <1>1, <2>7, <2>9, OneFrame
<1> QED
  BY <1>7, <1>8 DEF Unlink

LEMMA DropArtifactsKeeps ==
  ASSUME OneProcess, IInv, NEW p \in Proc, DropEntry(p) \/ DropIcon(p)
  PROVE  IInv'
<1> DEFINE id == proc[p].id
<1>1. SharedInv'
  BY RemovalIsShared, OneFacts
<1>2. /\ TypeOK /\ proc \in [Proc -> Operation] /\ proc[p] \in Operation
      /\ KindFits(p) /\ MemIsCurrent(p) /\ RemovalGoesOn(p)
      /\ proc[p].at \in {"dropEntry", "dropIcon"}
      /\ id \in Uuid /\ faults \in Nat /\ crashes \in Nat
  BY OneFacts DEF DropEntry, DropIcon, At
<1>3. /\ proc[p].kind = "remove" /\ Target(p) # Nothing /\ db = proc[p].mem
      /\ file[Target(p).path] = Nothing
      /\ (proc[p].at = "dropIcon" /\ proc[p].cleaned /\ Target(p).desktop) =>
           entry[id] = Nothing
  BY <1>2 DEF KindFits, Removing, MemIsCurrent, RemovalGoesOn
<1>4. entry \in [Uuid -> Image] /\ icon \in [Uuid -> Image]
  BY <1>2 DEF TypeOK
<1>5. /\ UNCHANGED <<file, db, left, intact, crashes>> /\ faults' \in {faults, faults + 1}
  BY DEF DropEntry, DropIcon, bounds, Fault, NoFault
<1>6. ASSUME SameTask(p), proc'[p].id = id, proc'[p].at \in {"dropIcon", "dropRow"},
             (proc'[p].cleaned /\ Target(p).desktop) => entry'[id] = Nothing,
             (proc'[p].at = "dropRow" /\ proc'[p].cleaned /\ Target(p).icon) =>
               icon'[id] = Nothing
      PROVE  IInv'
  <2>1. Target(p)' = Target(p)
    BY <1>6 DEF Target, SameTask
  <2>2. Phase(p)'
    BY <1>3, <1>5, <1>6, <2>1, RemovingFrame DEF Removing, SameTask
  <2>3. Kept'
    BY <1>2, <1>5, <1>6, KeptFrame
  <2> QED
    BY <1>1, <2>2, <2>3, OneFrame
<1>7. CASE DropEntry(p)
  <2>1. CASE Goto(p, "dropIcon")
    <3>1. SameTask(p) /\ SameWork(p) /\ proc'[p].at = "dropIcon"
      BY <1>2, <2>1, GotoRecord DEF Step
    <3>2. ~(proc' = [proc EXCEPT ![p].at = "dropRow", ![p].cleaned = FALSE])
      BY <1>2, <3>1, FlagRecord DEF Step
    <3>3. Target(p).desktop => entry'[id] = Nothing
      BY <1>2, <1>4, <1>7, <3>2 DEF DropEntry
    <3> QED
      BY <1>6, <3>1, <3>3 DEF SameWork
  <2>2. CASE proc' = [proc EXCEPT ![p].at = "dropRow", ![p].cleaned = FALSE]
    <3>1. /\ SameTask(p) /\ proc'[p].at = "dropRow" /\ ~proc'[p].cleaned
          /\ proc'[p].id = id
      BY <1>2, <2>2, FlagRecord DEF Step
    <3> QED
      BY <1>6, <3>1
  <2> QED
    BY <1>7, <2>1, <2>2 DEF DropEntry
<1>8. CASE DropIcon(p)
  <2>1. CASE Goto(p, "dropRow") /\ icon' = IF Target(p).icon
                                            THEN [icon EXCEPT ![id] = Nothing] ELSE icon
    <3>1. SameTask(p) /\ SameWork(p) /\ proc'[p].at = "dropRow"
      BY <1>2, <2>1, GotoRecord DEF Step
    <3>2. Target(p).icon => icon'[id] = Nothing
      BY <1>2, <1>4, <2>1
    <3>3. (proc'[p].cleaned /\ Target(p).desktop) => entry'[id] = Nothing
      BY <1>3, <1>8, <3>1 DEF DropIcon, SameWork, At
    <3> QED
      BY <1>6, <3>1, <3>2, <3>3 DEF SameWork
  <2>2. CASE proc' = [proc EXCEPT ![p].at = "dropRow", ![p].cleaned = FALSE]
    <3>1. /\ SameTask(p) /\ proc'[p].at = "dropRow" /\ ~proc'[p].cleaned
          /\ proc'[p].id = id
      BY <1>2, <2>2, FlagRecord DEF Step
    <3> QED
      BY <1>6, <3>1
  <2> QED
    BY <1>8, <2>1, <2>2 DEF DropIcon
<1> QED
  BY <1>7, <1>8

LEMMA DropRowKeeps ==
  ASSUME OneProcess, IInv, NEW p \in Proc, DropRow(p)
  PROVE  IInv'
<1> DEFINE id == proc[p].id
<1>1. SharedInv'
  BY RemovalIsShared, OneFacts
<1>2. /\ TypeOK /\ proc \in [Proc -> Operation] /\ proc[p] \in Operation /\ Kept
      /\ KindFits(p) /\ MemIsCurrent(p) /\ RemovalGoesOn(p) /\ proc[p].at = "dropRow"
      /\ id \in Uuid /\ faults \in Nat /\ crashes \in Nat
  BY OneFacts DEF DropRow, At
<1>3. /\ proc[p].kind = "remove" /\ file[Target(p).path] = Nothing
      /\ (proc[p].cleaned /\ Target(p).desktop) => entry[id] = Nothing
      /\ (proc[p].cleaned /\ Target(p).icon) => icon[id] = Nothing
  BY <1>2 DEF KindFits, Removing, RemovalGoesOn
<1>4. db \in Registry
  BY <1>2 DEF TypeOK
<1>5. /\ UNCHANGED <<file, artifacts, left, intact, crashes>>
      /\ faults' \in {faults, faults + 1}
      /\ db' \in {db, [db EXCEPT ![id] = Nothing]}
  BY DEF DropRow, bounds, Fault, NoFault
<1>6. /\ SameTask(p) /\ SameWork(p) /\ proc'[p].at = "idle"
      /\ proc'[p].outcome = "ok" => proc[p].cleaned /\ db'[id] = Nothing
  <2>1. CASE NoFault /\ db' = [db EXCEPT ![id] = Nothing]
             /\ Finish(p, IF proc[p].cleaned THEN "ok" ELSE "partial")
    <3>1. (IF proc[p].cleaned THEN "ok" ELSE "partial") \in Outcome
      BY DEF Outcome
    <3>2. db'[id] = Nothing
      BY <1>2, <1>4, <2>1 DEF Registry
    <3> QED
      BY <1>2, <2>1, <3>1, <3>2, FinishRecord
  <2>2. CASE Finish(p, "partial")
    BY <1>2, <2>2, FinishRecord DEF Outcome
  <2> QED
    BY <2>1, <2>2 DEF DropRow
<1>7. Phase(p)'
  BY <1>3, <1>5, <1>6, IdleFrame DEF artifacts
<1>8. ASSUME NEW u \in intact', db'[u] # Nothing
      PROVE  /\ db'[u].sha \in Content
             /\ Tolerated' => \/ crashes' > 0 /\ db'[u].sha \in left'
                              \/ KeptBy(u, p)'
  <2>1. u \in intact /\ u \in Uuid
    BY <1>2, <1>5 DEF TypeOK
  <2>2. db'[u] = db[u] /\ db[u] # Nothing
    BY <1>4, <1>5, <1>8, <2>1 DEF Registry
  <2>3. /\ db[u].sha \in Content
        /\ Tolerated => \/ crashes > 0 /\ db[u].sha \in left
                        \/ KeptBy(u, p)
    BY <1>2, <2>1, <2>2 DEF Kept
  <2>4. KeptBy(u, p) => KeptBy(u, p)'
    BY <1>2, <1>5, <1>6, <2>2 DEF KeptBy, Between
  <2>5. Tolerated' => Tolerated
    BY <1>2, <1>5 DEF Tolerated
  <2> QED
    BY <1>5, <2>2, <2>3, <2>4, <2>5
<1>9. Kept'
  BY <1>8, KeptInPlace
<1> QED
  BY <1>1, <1>7, <1>9, OneFrame

(* A crash between the commit and the upsert leaves the backup behind.     *)
LEMMA CrashKeeps ==
  ASSUME OneProcess, IInv, NEW p \in Proc, Crash(p)
  PROVE  IInv'
<1>1. SharedInv'
  BY CrashIsShared, OneFacts
<1>2. /\ TypeOK /\ proc \in [Proc -> Operation] /\ proc[p] \in Operation /\ Kept
      /\ UndoneForAFault(p) /\ faults \in Nat /\ crashes \in Nat /\ Nothing \notin Content
  BY OneFacts
<1>3. /\ UNCHANGED <<file, db, intact, faults>> /\ crashes' = crashes + 1
      /\ left' = left \cup ({stage[p], backup[p].app} \ {Nothing})
  BY DEF Crash
<1>4. /\ SameTask(p) /\ SameWork(p) /\ proc'[p].at = "idle" /\ proc'[p].outcome = "crashed"
  BY <1>2, FinishRecord DEF Crash, Outcome
<1>5. Phase(p)'
  BY <1>4, IdleFrame
<1>6. ASSUME NEW u \in intact, db[u] # Nothing
      PROVE  /\ db[u].sha \in Content
             /\ Tolerated' => \/ crashes' > 0 /\ db[u].sha \in left'
                              \/ KeptBy(u, p)'
  <2>1. /\ db[u].sha \in Content
        /\ Tolerated => \/ crashes > 0 /\ db[u].sha \in left
                        \/ KeptBy(u, p)
    BY <1>2, <1>6 DEF Kept
  <2>2. Tolerated' => Tolerated
    BY <1>2, <1>3 DEF Tolerated
  <2>3. CASE Between(u, p)
    BY <1>2, <1>3, <2>1, <2>2, <2>3 DEF KeptBy
  <2>4. CASE ~Between(u, p)
    <3>1. KeptBy(u, p) => KeptBy(u, p)'
      BY <1>3, <1>4, <2>4 DEF KeptBy, Between
    <3> QED
      BY <1>2, <1>3, <2>1, <2>2, <3>1
  <2> QED
    BY <2>3, <2>4
<1>7. Kept'
  BY <1>3, <1>6, KeptInPlace
<1> QED
  BY <1>1, <1>5, <1>7, OneFrame

LEMMA OneInit == Init => IInv
<1> SUFFICES ASSUME Init PROVE IInv
  OBVIOUS
<1>1. SharedInv
  BY SharedInit
<1>2. \A p \in Proc : /\ proc[p].at = "idle" /\ proc[p].outcome = "none"
                      /\ proc[p].kind = "integrate"
  BY DEF Init
<1>3. \A p \in Proc : Phase(p)
  BY <1>2 DEF Phase, KindFits, MemIsCurrent, FileOnItsWay, UndoneForAFault, RemovalGoesOn,
              Integrating, Placing, Undoing, Removing, Failed, At
<1>4. ASSUME NEW u \in intact
      PROVE  db[u].sha \in Content /\ file[db[u].path] = db[u].sha
  <2>1. PICK adopted \in BOOLEAN, present \in BOOLEAN :
          LET own == [path |-> 0, sha |-> IF adopted THEN Nothing ELSE Installed,
                      desktop |-> ~adopted, icon |-> ~adopted /\ Installed \in HasIcon]
          IN  /\ db = [v \in Uuid |-> IF v = Old THEN own ELSE Nothing]
              /\ file = [q \in Path |-> IF q = 0 /\ present THEN Installed ELSE Nothing]
              /\ intact = IF present /\ ~adopted THEN {Old} ELSE {}
    BY DEF Init
  <2>2. present /\ ~adopted /\ u = Old
    BY <1>4, <2>1
  <2>3. db[u].sha = Installed /\ db[u].path = 0
    BY <2>1, <2>2, ManagedAssumption
  <2> QED
    BY <2>1, <2>2, <2>3, ManagedAssumption
<1>5. \A u \in Uuid, p \in Proc : ~Between(u, p)
  BY <1>2 DEF Between
<1>6. Kept
  <2>1. intact \subseteq Uuid
    BY <1>1 DEF SharedInv, TypeOK
  <2> QED
    BY <1>4, <1>5, <2>1 DEF Kept, KeptBy
<1> QED
  BY <1>1, <1>3, <1>6 DEF IInv

LEMMA OneStep ==
  ASSUME OneProcess
  PROVE  IInv /\ [Next]_vars => IInv'
<1> SUFFICES ASSUME IInv, [Next]_vars PROVE IInv'
  OBVIOUS
<1>1. CASE UNCHANGED vars
  <2>1. SharedInv'
    BY <1>1, SharedStep DEF IInv
  <2>2. Kept'
    BY <1>1 DEF IInv, Kept, KeptBy, Between, Tolerated, Fresh, vars, bounds
  <2>3. \A p \in Proc : Phase(p)'
    BY <1>1 DEF IInv, Phase, KindFits, MemIsCurrent, FileOnItsWay, UndoneForAFault,
                RemovalGoesOn, Failed, At, Fresh, Target, NewRow, WithIcon, vars, artifacts
  <2> QED
    BY <2>1, <2>2, <2>3 DEF IInv
<1>2. ASSUME NEW p \in Proc, IntegrateStep(p) PROVE IInv'
  BY <1>2, StartKeeps, GateKeeps, InstallKeeps, CommitKeeps, RegisterKeeps, UndoFileKeeps,
     UndoKeeps, EndKeeps DEF IntegrateStep
<1>3. ASSUME NEW p \in Proc, RemoveStep(p) PROVE IInv'
  BY <1>3, StartKeeps, UnlinkKeeps, DropArtifactsKeeps, DropRowKeeps DEF RemoveStep
<1> QED
  BY <1>1, <1>2, <1>3, CrashKeeps DEF Next

-----------------------------------------------------------------------------
(* A registered file that nobody asked to remove is in the managed folder, *)
(* in place, in a backup or in what a crash left: before, between and      *)
(* after any of the steps of a replace, and whichever of them fails.       *)
THEOREM RegisteredHeld ==
  ASSUME OneProcess PROVE Spec => []RegisteredIsHeld
<1>1. ASSUME IInv PROVE RegisteredIsHeld
  <2> SUFFICES ASSUME faults = 0 \/ (faults <= 1 /\ crashes = 0),
                      NEW u \in intact, db[u] # Nothing
               PROVE  db[u].sha \in Held
    BY DEF RegisteredIsHeld
  <2>1. /\ db[u].sha \in Content
        /\ db[u].sha \in left \/ \A p \in Proc : KeptBy(u, p)
    BY <1>1 DEF IInv, Kept, Tolerated
  <2>2. db[u].path \in Path
    <3>1. u \in Uuid /\ db[u] \in Row
      BY <1>1 DEF IInv, SharedInv, TypeOK, Registry
    <3> QED
      BY <3>1 DEF Row
  <2>3. PICK p \in Proc : TRUE
    BY DEF OneProcess
  <2>4. \/ db[u].sha \in left \/ backup[p].app = db[u].sha
        \/ file[db[u].path] = db[u].sha
    BY <2>1, <2>3 DEF KeptBy
  <2> QED
    BY <2>1, <2>2, <2>3, <2>4 DEF Held
<1> QED
  BY <1>1, OneInit, OneStep, PTL DEF Spec

(* A failed integration leaves the registry as it was read, every          *)
(* registered file in place, and nothing at the path of a fresh install    *)
(* that had placed its file, after one failing call.                       *)
THEOREM FailedKeepsFiles ==
  ASSUME OneProcess PROVE Spec => []FailedIntegrationKeepsFiles
<1>1. ASSUME IInv PROVE FailedIntegrationKeepsFiles
  <2> SUFFICES ASSUME NEW p \in Proc, Over(p, "integrate", "failed"), faults <= 1, crashes = 0
               PROVE  /\ db = proc[p].mem
                      /\ \A u \in intact : db[u] # Nothing => file[db[u].path] = db[u].sha
                      /\ (Fresh(p) /\ proc[p].placed) => file[proc[p].dest] = Nothing
    BY DEF FailedIntegrationKeepsFiles
  <2>1. proc[p].at = "idle" /\ Failed(p) /\ Kept /\ MemIsCurrent(p) /\ UndoneForAFault(p)
    BY <1>1, OneFacts DEF Over, Quiet, At, Failed
  <2>2. db = proc[p].mem
    BY <2>1 DEF MemIsCurrent
  <2>3. \A u \in intact : db[u] # Nothing => file[db[u].path] = db[u].sha
    <3> SUFFICES ASSUME NEW u \in intact, db[u] # Nothing
                 PROVE  file[db[u].path] = db[u].sha
      OBVIOUS
    <3>1. crashes \in Nat /\ KeptBy(u, p)
      BY <1>1, <2>1, OneFacts DEF Kept, Tolerated
    <3> QED
      BY <2>1, <3>1 DEF KeptBy, Between
  <2>4. (Fresh(p) /\ proc[p].placed) => file[proc[p].dest] = Nothing
    BY <2>1 DEF UndoneForAFault
  <2> QED
    BY <2>2, <2>3, <2>4
<1> QED
  BY <1>1, OneInit, OneStep, PTL DEF Spec

(* A removal that reports success leaves no row, no file, and neither the  *)
(* desktop entry nor the icon its row named.                               *)
THEOREM RemovedGone ==
  ASSUME OneProcess PROVE Spec => []RemovedIsGone
<1>1. ASSUME IInv PROVE RemovedIsGone
  <2> SUFFICES ASSUME NEW p \in Proc, Over(p, "remove", "ok")
               PROVE  /\ db[proc[p].id] = Nothing /\ file[Target(p).path] = Nothing
                      /\ Target(p).desktop => entry[proc[p].id] = Nothing
                      /\ Target(p).icon => icon[proc[p].id] = Nothing
    BY DEF RemovedIsGone
  <2>1. RemovalGoesOn(p)
    BY <1>1, OneFacts
  <2> QED
    BY <2>1 DEF RemovalGoesOn, Over, Quiet, At
<1> QED
  BY <1>1, OneInit, OneStep, PTL DEF Spec

(* A source goes to the Trash only once a row names its AppImage and the   *)
(* file of that row has it.                                                *)
THEOREM MovedInstalled ==
  ASSUME OneProcess PROVE Spec => MovedIsInstalled
<1>1. IInv /\ [Next]_vars =>
        [\A c \in source \ source' :
           \E u \in Uuid : db[u] # Nothing /\ db[u].sha = c /\ file[db[u].path] = c]_vars
  <2> SUFFICES ASSUME IInv, Next, NEW c \in source \ source'
               PROVE  \E u \in Uuid : db[u] # Nothing /\ db[u].sha = c /\ file[db[u].path] = c
    OBVIOUS
  <2>1. PICK p \in Proc : TrashSource(p)
    <3>1. PICK r \in Proc : IntegrateStep(r) \/ RemoveStep(r) \/ Crash(r)
      BY DEF Next
    <3>2. ~(BeginIntegrate(r) \/ BeginRemove(r))
      BY IntegrateRecord, RemoveRecord, OneFacts
    <3>3. ~(\/ Refuse(r) \/ GateReplace(r) \/ GateFresh(r) \/ Stage(r) \/ InstallEntry(r)
            \/ InstallIcon(r) \/ MakeBackups(r) \/ Commit(r) \/ Register(r))
      BY DEF Refuse, GateReplace, GateFresh, Stage, InstallEntry, InstallIcon, MakeBackups,
             Commit, Register
    <3>4. ~(\/ UndoFile(r) \/ UndoEntry(r) \/ UndoIcon(r) \/ UndoRows(r) \/ UndoTemps(r)
            \/ DropBackups(r))
      BY DEF UndoFile, UndoEntry, UndoIcon, UndoRows, UndoTemps, DropBackups
    <3>5. ~(Unlink(r) \/ DropEntry(r) \/ DropIcon(r) \/ DropRow(r) \/ Crash(r))
      BY DEF Unlink, DropEntry, DropIcon, DropRow, Crash
    <3> QED
      BY <3>1, <3>2, <3>3, <3>4, <3>5 DEF IntegrateStep, RemoveStep
  <2>2. proc[p].at = "tail" /\ c = proc[p].from
    BY <2>1 DEF TrashSource, At
  <2>3. /\ proc[p].id \in Uuid /\ db[proc[p].id] = NewRow(p)
        /\ file[proc[p].dest] = proc[p].from /\ Nothing \notin Content
    BY <2>2, OneFacts DEF MemIsCurrent, FileOnItsWay
  <2>4. NewRow(p).sha = proc[p].from /\ NewRow(p).path = proc[p].dest
    BY DEF NewRow
  <2>5. NewRow(p) \in Row
    BY <2>1, OneFacts DEF NewRow, Row, Image, WithIcon
  <2>6. db[proc[p].id] # Nothing
    BY <2>3, <2>5, NothingIsNoRow
  <2> QED
    BY <2>2, <2>3, <2>4, <2>6
<1> QED
  BY <1>1, OneInit, OneStep, PTL DEF Spec, MovedIsInstalled
===============================================================================
