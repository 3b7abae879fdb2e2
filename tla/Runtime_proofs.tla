---------------------------- MODULE Runtime_proofs ----------------------------
(* Proofs about the parts that run beside their callers: the operations of *)
(* the bridge (Operations), the programs the manager starts and its        *)
(* queries of the process table (ProcessRun and Launching), and the        *)
(* helpers of the network client (Network).  They hold for every set of    *)
(* operations and of calls, and for every limit.                           *)
EXTENDS Operations, Network, Launching, SequenceTheorems, TLAPS

-----------------------------------------------------------------------------
(* PART ONE.  The operations.                                              *)

(***************************************************************************)
(* The inductive invariant: what ties an operation, its entry in the       *)
(* registry, its task and its cancel flag together.                        *)
(***************************************************************************)

(* Exactly the working operations are registered, under their own task;    *)
(* and the one that is completing holds the registry's mutex.              *)
RegistryIsOfWorkers ==
  /\ DOMAIN registry = {o \in Op : worker[o] = "working"}
  /\ \A o \in DOMAIN registry : registry[o] = taskOf[o]
  /\ \A o \in Op : worker[o] = "finishing" <=> registryBy = o

(* Operations have tasks of their own once they have begun.                *)
TasksAreOwn ==
  /\ \A o \in Op : worker[o] = "new" <=> taskOf[o] = 0
  /\ \A o, p \in Op : taskOf[o] = taskOf[p] /\ taskOf[o] # 0 => o = p

(* A flag is set, and a task is about to be marked, only for an operation  *)
(* that was registered when it was cancelled.                              *)
FlagIsOfACancel ==
  /\ \A o \in Op : flag[o] => worker[o] \in {"working", "finishing", "done"}
  /\ \A o \in Op : taskOf[o] \in marking => flag[o]

(* What `complete` passes on is the flag, which nobody can set any more.   *)
ResultHasFlag == \A o \in Op : worker[o] = "finishing" => outcomeOf[o].cancelled = flag[o]

IInv ==
  /\ TypeOK /\ RegistryIsOfWorkers /\ TasksAreOwn /\ FlagIsOfACancel /\ ResultHasFlag
  /\ RunningIsListed /\ CancelIsHonoured

-----------------------------------------------------------------------------
(* `push` lists the new task as running, drops no running one, and changes *)
(* none that it keeps.                                                     *)
LEMMA PushedKeepsRunning ==
  ASSUME NEW h, NEW id, id \notin DOMAIN h
  PROVE  /\ DOMAIN Pushed(h, id) \subseteq DOMAIN h \cup {id}
         /\ Pushed(h, id) = [i \in DOMAIN Pushed(h, id) |-> Pushed(h, id)[i]]
         /\ id \in DOMAIN Pushed(h, id)
         /\ Pushed(h, id)[id] = [state |-> "Running", progress |-> 0]
         /\ \A i \in DOMAIN h :
              /\ i \in DOMAIN Pushed(h, id) => Pushed(h, id)[i] = h[i]
              /\ h[i].state = "Running" => i \in DOMAIN Pushed(h, id)
<1> DEFINE all == [i \in DOMAIN h \cup {id} |->
                     IF i = id THEN [state |-> "Running", progress |-> 0] ELSE h[i]]
<1>1. Pushed(h, id) = [i \in DOMAIN all \ Evicted(all) |-> all[i]]
  BY DEF Pushed, Only
<1>2. \A i \in DOMAIN all : all[i].state = "Running" => i \notin Evicted(all)
  BY DEF Evicted
<1>3. all[id] = [state |-> "Running", progress |-> 0] /\ DOMAIN all = DOMAIN h \cup {id}
  OBVIOUS
<1>4. \A i \in DOMAIN h : all[i] = h[i]
  OBVIOUS
<1> HIDE DEF all
<1> QED
  BY <1>1, <1>2, <1>3, <1>4

(* A finished task has an outcome; no other task is touched.               *)
LEMMA FinishedIsTerminal ==
  ASSUME NEW S, NEW h \in [S -> Task], NEW id, NEW r \in Result, MaxProgress \in Nat
  PROVE  /\ Finished(h, id, r) \in [S -> Task]
         /\ \A i \in S \ {id} : Finished(h, id, r)[i] = h[i]
         /\ id \in S => Finished(h, id, r)[id].state =
              IF r.ok THEN "Succeeded" ELSE IF r.cancelled THEN "Cancelled" ELSE "Failed"
<1>1. \A s \in Terminal : \A i \in S : [h[i] EXCEPT !.state = s] \in Task
  BY DEF Task, Terminal, InFlight
<1>2. [state |-> "Succeeded", progress |-> MaxProgress] \in Task
  BY DEF Task, Terminal
<1>3. \A i \in S, s \in Terminal : [h[i] EXCEPT !.state = s].state = s
  BY DEF Task
<1> QED
  BY <1>1, <1>2, <1>3 DEF Finished, Terminal

(* A mark changes a running task only.                                     *)
LEMMA MarkedWasRunning ==
  ASSUME NEW S, NEW h \in [S -> Task], NEW id
  PROVE  /\ MarkedCancelling(h, id) \in [S -> Task]
         /\ \A i \in S : MarkedCancelling(h, id)[i] # h[i] => i = id /\ h[i].state = "Running"
<1>1. \A i \in S : [h[i] EXCEPT !.state = "Cancelling"] \in Task
  BY DEF Task, InFlight
<1> QED
  BY <1>1 DEF MarkedCancelling

-----------------------------------------------------------------------------
(* The initial state satisfies the invariant.                              *)
LEMMA IInvInit == Init => IInv
<1> SUFFICES ASSUME Init PROVE IInv
  OBVIOUS
<1> USE OperationsAssumption DEF Init
<1>1. TypeOK
  BY DEF TypeOK, Phase, Result
<1>2. RegistryIsOfWorkers /\ TasksAreOwn /\ FlagIsOfACancel /\ ResultHasFlag
  BY DEF RegistryIsOfWorkers, TasksAreOwn, FlagIsOfACancel, ResultHasFlag
<1>3. RunningIsListed /\ CancelIsHonoured
  BY DEF RunningIsListed, CancelIsHonoured, Live
<1> QED
  BY <1>1, <1>2, <1>3 DEF IInv

(* Every step keeps the types: task numbers grow and are never reused.     *)
LEMMA TypeStep == IInv /\ [Next]_vars => TypeOK'
<1> SUFFICES ASSUME IInv, [Next]_vars PROVE TypeOK'
  OBVIOUS
<1> USE OperationsAssumption
<1>0. TypeOK
  BY DEF IInv
<1>1. ASSUME NEW o \in Op, Record(o) PROVE TypeOK'
  <2>1. nextId \notin DOMAIN tasks /\ nextId' = nextId + 1 /\ nextId \in Nat \ {0}
    BY <1>0, <1>1 DEF TypeOK, Record
  <2>2. tasks' = Pushed(tasks, nextId)
    BY <1>1 DEF Record
  <2>3. DOMAIN tasks' \subseteq 1..(nextId' - 1)
    BY <1>0, <2>1, <2>2, PushedKeepsRunning DEF TypeOK
  <2>4. [state |-> "Running", progress |-> 0] \in Task
    BY DEF Task, InFlight
  <2>5. tasks' \in [DOMAIN tasks' -> Task]
    BY <1>0, <2>1, <2>2, <2>4, PushedKeepsRunning DEF TypeOK
  <2>6. 1..(nextId - 1) \subseteq 1..(nextId' - 1) /\ 0..(nextId - 1) \subseteq 0..(nextId' - 1)
    BY <2>1
  <2>7. taskOf' \in [Op -> 0..(nextId' - 1)] /\ worker' \in [Op -> Phase]
    BY <1>0, <1>1, <2>1, <2>6 DEF TypeOK, Record, Phase
  <2> QED
    BY <1>0, <1>1, <2>1, <2>3, <2>5, <2>6, <2>7 DEF TypeOK, Record
<1>2. ASSUME NEW o \in Op, Register(o) PROVE TypeOK'
  <2>1. taskOf[o] \in 1..(nextId - 1)
    BY <1>0, <1>2 DEF TypeOK, Register, IInv, TasksAreOwn
  <2> QED
    BY <1>0, <1>2, <2>1 DEF TypeOK, Register, Phase
<1>3. ASSUME NEW o \in Op, Report(o) PROVE TypeOK'
  <2>1. \A i \in DOMAIN tasks, p \in 0..MaxProgress : [tasks[i] EXCEPT !.progress = p] \in Task
    BY <1>0 DEF TypeOK, Task
  <2> QED
    BY <1>0, <1>3, <2>1 DEF TypeOK, Report
<1>4. ASSUME NEW o \in Op, Complete(o) PROVE TypeOK'
  BY <1>0, <1>4 DEF TypeOK, Complete, Phase, Result, Only
<1>5. ASSUME NEW o \in Op, Settle(o) PROVE TypeOK'
  <2>1. tasks' \in [DOMAIN tasks -> Task]
    BY <1>0, <1>5, FinishedIsTerminal DEF TypeOK, Settle
  <2> QED
    BY <1>0, <1>5, <2>1 DEF TypeOK, Settle, Phase
<1>6. ASSUME NEW o \in Op, Cancel(o) PROVE TypeOK'
  BY <1>0, <1>6 DEF TypeOK, Cancel
<1>7. ASSUME NEW t \in marking, Mark(t) PROVE TypeOK'
  <2>1. tasks' \in [DOMAIN tasks -> Task]
    BY <1>0, <1>7, MarkedWasRunning DEF TypeOK, Mark
  <2> QED
    BY <1>0, <1>7, <2>1 DEF TypeOK, Mark
<1>8. CASE ClearFinished
  BY <1>0, <1>8 DEF TypeOK, ClearFinished, Only
<1>9. CASE UNCHANGED vars
  BY <1>0, <1>9 DEF TypeOK, vars
<1> QED
  BY <1>1, <1>2, <1>3, <1>4, <1>5, <1>6, <1>7, <1>8, <1>9 DEF Next

(* Every step keeps operations, registry, tasks and flags tied together.   *)
LEMMA TiesStep ==
  IInv /\ [Next]_vars => (RegistryIsOfWorkers /\ TasksAreOwn /\ FlagIsOfACancel /\ ResultHasFlag)'
<1> DEFINE Ties == RegistryIsOfWorkers /\ TasksAreOwn /\ FlagIsOfACancel /\ ResultHasFlag
<1> SUFFICES ASSUME IInv, [Next]_vars PROVE Ties'
  OBVIOUS
<1> USE OperationsAssumption DEF RegistryIsOfWorkers, TasksAreOwn, FlagIsOfACancel, ResultHasFlag
<1>0. TypeOK /\ Ties
  BY DEF IInv
<1>1. ASSUME NEW o \in Op, Record(o) PROVE Ties'
  BY <1>0, <1>1 DEF TypeOK, Record
<1>2. ASSUME NEW o \in Op, Register(o) PROVE Ties'
  BY <1>0, <1>2 DEF TypeOK, Register
<1>3. ASSUME NEW o \in Op, Report(o) PROVE Ties'
  BY <1>0, <1>3 DEF TypeOK, Report
<1>4. ASSUME NEW o \in Op, Complete(o) PROVE Ties'
  BY <1>0, <1>4 DEF TypeOK, Complete, Only
<1>5. ASSUME NEW o \in Op, Settle(o) PROVE Ties'
  BY <1>0, <1>5 DEF TypeOK, Settle
<1>6. ASSUME NEW o \in Op, Cancel(o) PROVE Ties'
  <2>1. /\ worker' = worker /\ taskOf' = taskOf /\ registry' = registry
        /\ registryBy' = registryBy /\ outcomeOf' = outcomeOf
        /\ worker[o] = "working" /\ registry[o] = taskOf[o] /\ registryBy = NoOp
        /\ \A q \in Op : flag'[q] <=> flag[q] \/ q = o
        /\ \A q \in Op \ {o} : flag'[q] = flag[q]
        /\ marking' = marking \cup {taskOf[o]}
    BY <1>0, <1>6 DEF TypeOK, Cancel
  <2>2. (RegistryIsOfWorkers /\ TasksAreOwn)'
    BY <1>0, <2>1
  <2>3. FlagIsOfACancel'
    BY <1>0, <2>1
  <2>4. ResultHasFlag'
    BY <1>0, <2>1
  <2> QED
    BY <2>2, <2>3, <2>4
<1>7. ASSUME NEW t \in marking, Mark(t) PROVE Ties'
  BY <1>0, <1>7 DEF TypeOK, Mark
<1>8. CASE ClearFinished
  BY <1>0, <1>8 DEF ClearFinished
<1>9. CASE UNCHANGED vars
  BY <1>0, <1>9 DEF vars
<1> QED
  BY <1>1, <1>2, <1>3, <1>4, <1>5, <1>6, <1>7, <1>8, <1>9 DEF Next

(* Every step keeps what the task list says of an operation, running or    *)
(* over.                                                                   *)
LEMMA ListStep == IInv /\ [Next]_vars => (RunningIsListed /\ CancelIsHonoured)'
<1> DEFINE Listed == RunningIsListed /\ CancelIsHonoured
<1> SUFFICES ASSUME IInv, [Next]_vars PROVE Listed'
  OBVIOUS
<1> USE OperationsAssumption DEF RunningIsListed, CancelIsHonoured, Live
<1>0. TypeOK /\ Listed
  BY DEF IInv
<1>1. ASSUME NEW o \in Op, Record(o) PROVE Listed'
  <2>1. nextId \notin DOMAIN tasks /\ \A p \in Op : taskOf[p] # nextId
    BY <1>0 DEF TypeOK
  <2>2. /\ tasks' = Pushed(tasks, nextId)
        /\ flag' = flag /\ worker' = [worker EXCEPT ![o] = "recorded"]
        /\ taskOf' = [taskOf EXCEPT ![o] = nextId]
    BY <1>1 DEF Record
  <2>3. taskOf'[o] \in DOMAIN tasks' /\ tasks'[taskOf'[o]].state = "Running" /\ worker'[o] = "recorded"
    BY <1>0, <2>1, <2>2, PushedKeepsRunning DEF TypeOK
  <2>4. \A p \in Op \ {o} : worker'[p] = worker[p] /\ taskOf'[p] = taskOf[p]
    BY <1>0, <2>2 DEF TypeOK
  <2>5. \A i \in DOMAIN tasks : /\ i \in DOMAIN tasks' => tasks'[i] = tasks[i]
                                /\ tasks[i].state = "Running" => i \in DOMAIN tasks'
    BY <2>1, <2>2, PushedKeepsRunning
  <2>6. \A p \in Op : taskOf[p] \in DOMAIN tasks' => taskOf[p] \in DOMAIN tasks
    BY <2>1, <2>2, PushedKeepsRunning
  <2> QED
    BY <1>0, <2>2, <2>3, <2>4, <2>5, <2>6
<1>2. ASSUME NEW o \in Op, Register(o) PROVE Listed'
  BY <1>0, <1>2 DEF TypeOK, Register
<1>3. ASSUME NEW o \in Op, Report(o) PROVE Listed'
  <2>1. DOMAIN tasks' = DOMAIN tasks /\ \A i \in DOMAIN tasks : tasks'[i].state = tasks[i].state
    BY <1>0, <1>3 DEF TypeOK, Report, Task
  <2> QED
    BY <1>0, <1>3, <2>1 DEF Report
<1>4. ASSUME NEW o \in Op, Complete(o) PROVE Listed'
  BY <1>0, <1>4 DEF TypeOK, Complete
<1>5. ASSUME NEW o \in Op, Settle(o) PROVE Listed'
  <2>1. outcomeOf[o] \in Result /\ outcomeOf[o].cancelled = flag[o]
    BY <1>0, <1>5 DEF TypeOK, Settle, IInv, ResultHasFlag
  <2>2. /\ tasks' = Finished(tasks, taskOf[o], outcomeOf[o]) /\ tasks \in [DOMAIN tasks -> Task]
        /\ taskOf' = taskOf /\ flag' = flag
    BY <1>0, <1>5 DEF TypeOK, Settle
  <2>3. /\ DOMAIN tasks' = DOMAIN tasks
        /\ \A i \in DOMAIN tasks \ {taskOf[o]} : tasks'[i] = tasks[i]
        /\ taskOf[o] \in DOMAIN tasks => tasks'[taskOf[o]].state \in
             (IF flag[o] THEN {"Succeeded", "Cancelled"} ELSE {"Succeeded", "Failed"})
    BY <2>1, <2>2, FinishedIsTerminal DEF Result
  <2>4. \A p \in Op \ {o} : taskOf[p] # taskOf[o] /\ worker'[p] = worker[p]
    BY <1>0, <1>5 DEF TypeOK, Settle, IInv, TasksAreOwn
  <2>5. worker'[o] = "done"
    BY <1>0, <1>5 DEF TypeOK, Settle
  <2> QED
    BY <1>0, <2>2, <2>3, <2>4, <2>5
<1>6. ASSUME NEW o \in Op, Cancel(o) PROVE Listed'
  <2>1. worker[o] = "working"
    BY <1>6 DEF Cancel, IInv, RegistryIsOfWorkers
  <2> QED
    BY <1>0, <1>6, <2>1 DEF TypeOK, Cancel
<1>7. ASSUME NEW t \in marking, Mark(t) PROVE Listed'
  <2>1. /\ tasks' \in [DOMAIN tasks -> Task]
        /\ \A i \in DOMAIN tasks : tasks'[i] # tasks[i] => i = t /\ tasks[i].state = "Running"
    BY <1>0, <1>7, MarkedWasRunning DEF TypeOK, Mark
  <2>2. \A o \in Op : taskOf[o] = t => flag[o]
    BY DEF IInv, FlagIsOfACancel
  <2> QED
    BY <1>0, <1>7, <2>1, <2>2 DEF Mark
<1>8. CASE ClearFinished
  BY <1>0, <1>8 DEF ClearFinished, Only, InFlight
<1>9. CASE UNCHANGED vars
  BY <1>0, <1>9 DEF vars
<1> QED
  BY <1>1, <1>2, <1>3, <1>4, <1>5, <1>6, <1>7, <1>8, <1>9 DEF Next

LEMMA IInvStep == IInv /\ [Next]_vars => IInv'
<1> QED
  BY TypeStep, TiesStep, ListStep DEF IInv

LEMMA IInvHolds == Spec => []IInv
<1> QED
  BY IInvInit, IInvStep, PTL DEF Spec

-----------------------------------------------------------------------------
(* The tables of the bridge keep their types (common.rs, tasks.rs).        *)
THEOREM TypeCorrect == Spec => []TypeOK
<1>1. IInv => TypeOK
  BY DEF IInv
<1> QED
  BY <1>1, IInvHolds, PTL

(* However many operations run and however short the history is, one that  *)
(* nobody cancelled is listed as running until it ends (tasks.rs:207-218). *)
THEOREM RunningStaysListed == Spec => []RunningIsListed
<1>1. IInv => RunningIsListed
  BY DEF IInv
<1> QED
  BY <1>1, IInvHolds, PTL

(* An accepted cancel is never reported as a failure, whenever it came     *)
(* (common.rs:249-262).                                                    *)
THEOREM CancelHonoured == Spec => []CancelIsHonoured
<1>1. IInv => CancelIsHonoured
  BY DEF IInv
<1> QED
  BY <1>1, IInvHolds, PTL

-----------------------------------------------------------------------------
(* PART TWO.  The processes.                                               *)

(* What the runner may rely on at each of its places.                      *)
RunnerKnows ==
  /\ pc = "reap" => detached
  /\ pc \in {"readers", "wait", "kill", "join"} => ~detached
  /\ pc \in {"idle", "spawn"} => child = "none" /\ helper = "none"
  /\ pc \in {"readers", "kill"} => child \in {"running", "exited"}
  /\ pc = "wait" => child \in {"running", "exited", "stolen"}
  /\ pc = "join" => child = "reaped"
  /\ pc \in {"idle", "spawn", "readers", "wait", "kill", "reap"} => ~result.timedOut
  /\ result.timedOut => child # "running" /\ helper # "session"

(* Only a sandboxed manager asks pgrep, and its answer is of the table it  *)
(* read.                                                                   *)
AnswerIsOfSeen ==
  use \in Probes => sandboxed /\ (answer = "nomatch" => seen \cap Found(use) = {})

PInv ==
  /\ LaunchTypeOK /\ RunnerKnows /\ AnswerIsOfSeen
  /\ StoppedRunsAreGone /\ NotRunningIsTrue

(* The parts of a result that the steps set.                               *)
LEMMA ResultParts ==
  ASSUME NEW r \in Results
  PROVE  /\ [r EXCEPT !.refused = TRUE] \in Results
         /\ [r EXCEPT !.refused = TRUE].timedOut = r.timedOut
         /\ [r EXCEPT !.timedOut = TRUE] \in Results
         /\ [r EXCEPT !.timedOut = TRUE].timedOut = TRUE
         /\ [r EXCEPT !.refused = TRUE, !.code = 1] \in Results
         /\ [r EXCEPT !.refused = TRUE, !.code = 1].timedOut = r.timedOut
<1>1. /\ [r EXCEPT !.refused = TRUE] \in Results
      /\ [r EXCEPT !.refused = TRUE].timedOut = r.timedOut
      /\ [r EXCEPT !.timedOut = TRUE] \in Results
      /\ [r EXCEPT !.timedOut = TRUE].timedOut = TRUE
  BY DEF Results
<1>2. ASSUME NEW code \in 0..2
      PROVE  /\ [r EXCEPT !.refused = TRUE, !.code = code] \in Results
             /\ [r EXCEPT !.refused = TRUE, !.code = code].timedOut = r.timedOut
  BY DEF Results
<1>3. 1 \in 0..2
  OBVIOUS
<1> QED
  BY <1>1, <1>2, <1>3, Zenon

LEMMA ConcludedParts ==
  ASSUME result \in Results, NEW out \in 0..(MaxOutput + 1)
  PROVE  Concluded(out) \in Results /\ Concluded(out).timedOut = result.timedOut
<1>1. ASSUME NEW code \in 0..2
      PROVE  [result EXCEPT !.out = out, !.code = code] \in Results
  BY DEF Results
<1>2. ASSUME NEW code \in 0..2
      PROVE  [result EXCEPT !.out = out, !.code = code].timedOut = result.timedOut
  BY DEF Results
<1>3. (IF out <= MaxOutput /\ status = "ok" THEN 0 ELSE 1) \in 0..2
  OBVIOUS
<1> QED
  BY <1>1, <1>2, <1>3, Zenon DEF Concluded

(* The types of the runner's own variables.                                *)
LEMMA ProcessTypes ==
  ASSUME ProcessTypeOK, ProcessStep \/ (\E d \in BOOLEAN : Request(d)) \/ UNCHANGED procVars
  PROVE  ProcessTypeOK'
<1> USE ProcessAssumption DEF ProcessTypeOK
<1>1. result \in Results /\ 0 \in 0..(MaxOutput + 1)
  OBVIOUS
<1>2. \A out \in 0..(MaxOutput + 1) : Concluded(out) \in Results
  BY <1>1, ConcludedParts
<1>3. NoResult \in Results
  BY DEF NoResult, Results
<1>4. CASE \E d \in BOOLEAN : Request(d)
  BY <1>3, <1>4 DEF Request
<1>5. CASE RunnerStep
  <2>1. CASE SpawnRefused
    BY <1>1, <2>1, ResultParts DEF SpawnRefused
  <2>5. CASE SpawnBusy
    BY <2>5 DEF SpawnBusy
  <2>6. CASE Spawned \/ StartReaders
    BY <2>6 DEF Spawned, StartReaders
  <2>2. CASE AbandonChild \/ PollExited \/ Deadline \/ KillAtDeadline \/ PollFails
    BY <1>1, <2>2, ResultParts DEF AbandonChild, PollExited, Deadline, KillAtDeadline, PollFails, KillSession
  <2>3. CASE JoinReader \/ JoinGrace
    <3>1. taken \in 0..(MaxOutput + 1)
      OBVIOUS
    <3> QED
      BY <1>1, <1>2, <2>3, <3>1 DEF JoinReader, JoinGrace
  <2>4. CASE DetachedStarted \/ DetachedUnreaped
    BY <1>1, <2>4, ResultParts DEF DetachedStarted, DetachedUnreaped
  <2> QED
    BY <1>5, <2>1, <2>2, <2>3, <2>4, <2>5, <2>6 DEF RunnerStep
<1>6. CASE ReaderStep
  BY <1>6 DEF ReaderStep, ReaderTakes, ReaderEnds, DetachedReaps
<1>7. CASE ChildStep
  BY <1>7 DEF ChildStep, ChildForks, ChildWrites, ChildExits, HelperExits, ReapedElsewhere
<1>8. CASE UNCHANGED procVars
  BY <1>8 DEF procVars
<1> QED
  BY <1>4, <1>5, <1>6, <1>7, <1>8 DEF ProcessStep

(* What the runner relies on, and what a run that returned leaves: only    *)
(* the watch, the kill and the abandonment of a child settle it, and none  *)
(* of them leaves a child that is alive or waits to be reaped.             *)
LEMMA RunnerStepKeeps ==
  ASSUME ProcessTypeOK, RunnerKnows, StoppedRunsAreGone,
         ProcessStep \/ (\E d \in BOOLEAN : Request(d)) \/ UNCHANGED procVars
  PROVE  (RunnerKnows /\ StoppedRunsAreGone)'
<1> DEFINE Good == RunnerKnows /\ StoppedRunsAreGone
<1> SUFFICES Good'
  OBVIOUS
<1> USE DEF RunnerKnows, StoppedRunsAreGone, SessionAlive, ProcessTypeOK
<1>1. result \in Results /\ 0 \in 0..(MaxOutput + 1)
  BY ProcessAssumption
<1>2. \A out \in 0..(MaxOutput + 1) : Concluded(out).timedOut = result.timedOut
  BY <1>1, ConcludedParts
<1>3. CASE \E d \in BOOLEAN : Request(d)
  BY <1>3 DEF Request, NoResult
<1>4. CASE SpawnRefused
  BY <1>1, <1>4, ResultParts DEF SpawnRefused
<1>11. CASE SpawnBusy \/ Spawned \/ StartReaders
  <2>1. CASE SpawnBusy
    BY <2>1 DEF SpawnBusy
  <2>2. CASE Spawned /\ detached
    BY <2>2 DEF Spawned
  <2>3. CASE Spawned /\ ~detached
    BY <2>3 DEF Spawned
  <2>4. CASE StartReaders
    BY <2>4 DEF StartReaders
  <2> QED
    BY <1>11, <2>1, <2>2, <2>3, <2>4
<1>5. CASE AbandonChild \/ PollFails
  BY <1>1, <1>5, ResultParts DEF AbandonChild, PollFails, KillSession
<1>12. CASE PollExited \/ Deadline
  BY <1>12 DEF PollExited, Deadline
<1>13. CASE KillAtDeadline
  BY <1>1, <1>13, ResultParts DEF KillAtDeadline, KillSession
<1>6. CASE JoinReader \/ JoinGrace
  BY <1>1, <1>2, <1>6, ProcessAssumption DEF JoinReader, JoinGrace
<1>7. CASE DetachedStarted \/ DetachedUnreaped
  BY <1>1, <1>7, ResultParts DEF DetachedStarted, DetachedUnreaped
<1>8. CASE ReaderStep
  BY <1>8 DEF ReaderStep, ReaderTakes, ReaderEnds, DetachedReaps
<1>9. CASE ChildStep
  BY <1>9 DEF ChildStep, ChildForks, ChildWrites, ChildExits, HelperExits, ReapedElsewhere
<1>10. CASE UNCHANGED procVars
  BY <1>10 DEF procVars
<1> QED
  BY <1>3, <1>4, <1>5, <1>6, <1>7, <1>8, <1>9, <1>10, <1>11, <1>12, <1>13
  DEF ProcessStep, RunnerStep

(* Whatever a launch or a query does, the runner takes a step of its own,  *)
(* or a new request, or none.                                              *)
LEMMA LaunchMovesRunner ==
  ASSUME [LaunchNext]_launchVars
  PROVE  ProcessStep \/ (\E d \in BOOLEAN : Request(d)) \/ UNCHANGED procVars
<1> QED
  BY DEF LaunchNext, launchVars, EditArguments, RunTool, Launch, NixProbed, Runs, Returned,
         AppEnds, Answered, Query, Ask

(* The types of what is asked, of what pgrep said and of the verdict.      *)
LEMMA LaunchTypes ==
  ASSUME PInv, [LaunchNext]_launchVars
  PROVE  LaunchTypeOK'
<1>1. ProcessTypeOK'
  BY LaunchMovesRunner, ProcessTypes DEF PInv, LaunchTypeOK
<1>2. LaunchTypeOK
  BY DEF PInv
<1> USE <1>1, <1>2, LaunchingAssumption DEF LaunchTypeOK
<1>3. \A p \in Probes, h, r, b \in BOOLEAN, s \in SUBSET Lines :
        [by |-> p, host |-> h, running |-> r, saw |-> s, broken |-> b] \in Verdicts
  BY DEF Verdicts
<1>4. CASE EditArguments
  BY <1>4 DEF EditArguments
<1>5. CASE RunTool \/ Launch
  <2>1. requests < MaxRequests /\ \E u \in {"tool", "nixprobe", "launch"}, d \in BOOLEAN : Ask(u, d)
    BY <1>5 DEF RunTool, Launch
  <2> QED
    BY <2>1 DEF Ask
<1>6. CASE NixProbed
  BY <1>6 DEF NixProbed
<1>7. CASE Runs
  <2>1. \A u \in Probes, code \in {"ok", "failed", "none"} : Says(u, code) \subseteq PgrepAnswers
    BY DEF Says
  <2>2. answer' \in {"none"} \cup PgrepAnswers
    BY <1>1, <1>7, <2>1 DEF Runs, ProcessTypeOK
  <2> QED
    BY <1>7, <2>2 DEF Runs, Line, Lines
<1>8. CASE Returned \/ AppEnds
  BY <1>8 DEF Returned, AppEnds
<1>9. CASE Answered
  <2> DEFINE asked == HostAnswered
             cut == answer \in {"none", "mute"} \/ Cut
  <2>1. asked \in BOOLEAN /\ cut \in BOOLEAN
    BY DEF HostAnswered, Cut
  <2> HIDE DEF asked, cut
  <2>2. PICK kept \in BOOLEAN :
          verdict' = [by |-> use, host |-> asked,
                      running |-> asked /\ answer = "match" /\ kept, saw |-> seen,
                      broken |-> cut]
    BY <1>9 DEF Answered, asked, cut
  <2>3. (asked /\ answer = "match" /\ kept) \in BOOLEAN
    BY <2>1
  <2>4. verdict' \in Verdicts
    BY <1>3, <1>9, <2>1, <2>2, <2>3 DEF Answered
  <2> QED
    BY <1>9, <2>4 DEF Answered
<1>10. ASSUME NEW probe \in Probes, Query(probe)
       PROVE  LaunchTypeOK'
  <2>1. CASE sandboxed
    BY <1>10, <2>1 DEF Query, Ask
  <2>2. CASE ~sandboxed
    <3> DEFINE found == app \cap FoundLocally # {}
    <3>1. found \in BOOLEAN
      OBVIOUS
    <3> HIDE DEF found
    <3>2. verdict' = [by |-> probe, host |-> FALSE, running |-> found, saw |-> app,
                      broken |-> FALSE]
      BY <1>10, <2>2 DEF Query, found
    <3>3. verdict' \in Verdicts
      BY <1>3, <3>1, <3>2
    <3> QED
      BY <1>10, <2>2, <3>3 DEF Query
  <2> QED
    BY <2>1, <2>2
<1>11. CASE UNCHANGED launchVars
  BY <1>11 DEF launchVars, callVars
<1> QED
  BY <1>4, <1>5, <1>6, <1>7, <1>8, <1>9, <1>10, <1>11 DEF LaunchNext

(* The answer of pgrep, and the verdict, stay true of what was read.       *)
LEMMA VerdictStep ==
  ASSUME PInv, [LaunchNext]_launchVars
  PROVE  (AnswerIsOfSeen /\ NotRunningIsTrue)'
<1> DEFINE Good == AnswerIsOfSeen /\ NotRunningIsTrue
<1> SUFFICES Good'
  OBVIOUS
<1> USE DEF AnswerIsOfSeen, NotRunningIsTrue
<1>1. Good /\ LaunchTypeOK
  BY DEF PInv
<1>2. CASE EditArguments
  BY <1>1, <1>2 DEF EditArguments, Found
<1>3. CASE RunTool \/ Launch \/ NixProbed
  BY <1>1, <1>3 DEF RunTool, Launch, NixProbed, Ask, Probes, Found
<1>4. CASE Runs
  <2>1. verdict' = verdict /\ path' = path /\ sandboxed' = sandboxed /\ use' = use
    BY <1>4 DEF Runs
  <2>2. use \in Probes => (answer' = "nomatch" => seen' \cap Found(use) = {})
    <3>1. CASE UNCHANGED <<seen, answer>>
      BY <1>1, <3>1
    <3>2. CASE seen' = app /\ answer' \in Says(use, status')
      BY <3>2 DEF Says
    <3> QED
      BY <1>4, <3>1, <3>2 DEF Runs
  <2>3. Found(use)' = Found(use)
    BY <2>1 DEF Found
  <2> QED
    BY <1>1, <2>1, <2>2, <2>3
<1>5. CASE Returned \/ AppEnds
  BY <1>1, <1>5 DEF Returned, AppEnds, Probes, Found
<1>6. CASE Answered
  <2> DEFINE asked == HostAnswered
             cut == answer \in {"none", "mute"} \/ Cut
  <2>1. PICK kept \in BOOLEAN :
          /\ ~kept => Cut
          /\ verdict' = [by |-> use, host |-> asked,
                         running |-> asked /\ answer = "match" /\ kept, saw |-> seen,
                         broken |-> cut]
    BY <1>6 DEF Answered
  <2>2. asked /\ ~cut /\ ~(answer = "match" /\ kept) => answer = "nomatch"
    <3>1. answer \in {"none", "match", "nomatch", "mute", "error"}
      BY <1>1 DEF LaunchTypeOK, PgrepAnswers
    <3> QED
      BY <2>1, <3>1 DEF HostAnswered
  <2>3. use \in Probes /\ use' = "none" /\ sandboxed' = sandboxed /\ path' = path
    BY <1>6 DEF Answered
  <2> HIDE DEF asked, cut
  <2>4. ASSUME ~verdict'.running, verdict'.host, ~verdict'.broken, path.real
        PROVE  /\ use = "among" /\ path.tagged => {"bare", "args"} \cap seen = {}
               /\ use = "pids" /\ path.literal => "bare" \notin seen
    <3>1. seen \cap Found(use) = {}
      BY <1>1, <2>1, <2>2, <2>3, <2>4
    <3> QED
      BY <2>3, <2>4, <3>1 DEF Found, Probes
  <2>5. verdict'.by = use /\ verdict'.saw = seen
    BY <2>1
  <2>6. sandboxed
    BY <1>1, <2>3
  <2> QED
    BY <2>3, <2>4, <2>5, <2>6 DEF Probes
<1>7. ASSUME NEW probe \in Probes, Query(probe)
      PROVE  Good'
  <2>1. CASE sandboxed
    BY <1>1, <1>7, <2>1 DEF Query, Ask, Found
  <2>2. CASE ~sandboxed
    <3> DEFINE found == app \cap FoundLocally # {}
    <3>1. ~found => "bare" \notin app /\ "args" \notin app
      BY DEF FoundLocally
    <3> HIDE DEF found
    <3>2. verdict' = [by |-> probe, host |-> FALSE, running |-> found, saw |-> app,
                      broken |-> FALSE]
      BY <1>7, <2>2 DEF Query, found
    <3>3. /\ use' = use /\ answer' = answer /\ seen' = seen
          /\ sandboxed' = sandboxed /\ path' = path
      BY <1>7, <2>2 DEF Query
    <3>4. {"bare", "args"} \cap app # {} => found
      BY <3>1
    <3> QED
      BY <1>1, <2>2, <3>2, <3>3, <3>4 DEF Found
  <2> QED
    BY <2>1, <2>2
<1>8. CASE UNCHANGED launchVars
  BY <1>1, <1>8 DEF launchVars, callVars, Found
<1> QED
  BY <1>2, <1>3, <1>4, <1>5, <1>6, <1>7, <1>8 DEF LaunchNext

LEMMA PInvInit == LaunchInit => PInv
<1> SUFFICES ASSUME LaunchInit PROVE PInv
  OBVIOUS
<1> USE DEF LaunchInit, ProcessInit
<1>1. result = NoResult /\ NoResult \in Results /\ ~NoResult.timedOut
  BY ProcessAssumption DEF NoResult, Results
<1>2. ProcessTypeOK
  <2>1. 0 \in 0..BusyAttempts /\ 0 \in 0..(MaxOutput + 1) /\ 0 \in 0..0
    BY ProcessAssumption
  <2> QED
    BY <1>1, <2>1 DEF ProcessTypeOK
<1>3. LaunchTypeOK
  <2>1. verdict \in Verdicts
    BY DEF Verdicts
  <2>3. path \in Paths /\ answer \in {"none"} \cup PgrepAnswers
    OBVIOUS
  <2>2. requests \in 0..MaxRequests
    BY LaunchingAssumption
  <2> QED
    BY <1>2, <2>1, <2>2, <2>3 DEF LaunchTypeOK
<1>4. RunnerKnows /\ StoppedRunsAreGone
  BY <1>1 DEF RunnerKnows, StoppedRunsAreGone
<1>5. AnswerIsOfSeen /\ NotRunningIsTrue
  BY DEF AnswerIsOfSeen, NotRunningIsTrue, Probes
<1> QED
  BY <1>2, <1>3, <1>4, <1>5 DEF PInv

LEMMA PInvStep == PInv /\ [LaunchNext]_launchVars => PInv'
<1> SUFFICES ASSUME PInv, [LaunchNext]_launchVars PROVE PInv'
  OBVIOUS
<1>1. (RunnerKnows /\ StoppedRunsAreGone)'
  BY LaunchMovesRunner, RunnerStepKeeps DEF PInv, LaunchTypeOK
<1> QED
  BY <1>1, LaunchTypes, VerdictStep DEF PInv

LEMMA PInvHolds == LaunchSpec => []PInv
<1> QED
  BY PInvInit, PInvStep, PTL DEF LaunchSpec

(* The runner's and the launcher's variables keep their types: output is   *)
(* taken up to one chunk past the bound and no further (process.rs:258).   *)
THEOREM LaunchTypeCorrect == LaunchSpec => []LaunchTypeOK
<1>1. PInv => LaunchTypeOK
  BY DEF PInv
<1> QED
  BY <1>1, PInvHolds, PTL

(* A run that returned leaves no child to be reaped, and one it stopped    *)
(* left nothing alive in the child's session, whatever the child started   *)
(* and whenever the deadline came (process.rs:436, 500).                   *)
THEOREM StoppedRunsGone == LaunchSpec => []StoppedRunsAreGone
<1>1. PInv => StoppedRunsAreGone
  BY DEF PInv
<1> QED
  BY <1>1, PInvHolds, PTL

(* "Not running" was true of the table it was read from, for the paths and *)
(* command lines the query can match, whatever the probe's program did      *)
(* (proctable.rs:102, 118, 169). Of a host that could not be asked in a      *)
(* sandbox it says nothing: the code answers "not running" then.            *)
THEOREM NotRunningTrue == LaunchSpec => []NotRunningIsTrue
<1>1. PInv => NotRunningIsTrue
  BY DEF PInv
<1> QED
  BY <1>1, PInvHolds, PTL

-----------------------------------------------------------------------------
(* PART THREE.  The network client.                                        *)

Over == {"none", "end"}
Requesting == {"send", "ranged"}

(* What holds of a call by itself: it has no result until it ends, it is   *)
(* guarded while its helper works, only a download opens a data connection *)
(* and nothing of a reply is left when the next command is sent.           *)
Guarded(c) ==
  /\ c.at \notin Over \cup FtpPlaces \cup {"data", "dribble"} => c.url.scheme = "https"
  /\ c.at \notin Over => c.url \in Url /\ c.start \in Hosts
  /\ c.at \notin Over => (c.url.host = "lan" => c.start = "lan") /\ (c.start = "lan" => c.local)
  /\ c.at \in Requesting => c.tried \in 1..MaxRedirects

Sound(c) ==
  /\ Guarded(c)
  /\ c.at # "end" => ~c.got.ok
  /\ c.at \in {"pasv", "retr", "data"} => c.op # "size"
  /\ c.op = "size" /\ c.got.ok => c.got.size \in {-1, Size[c.url.host]}
  /\ c.lines = <<>> /\ c.paired
  /\ ~c.local => "local" \notin c.pins

(* A client in the cache is pinned as its key says.                        *)
ClientFitsItsKey == \A key \in DOMAIN cache : ~key[2] => "local" \notin cache[key].pins

NInv == NetworkTypeOK /\ ClientFitsItsKey /\ \A i \in Calls : Sound(call[i])

-----------------------------------------------------------------------------
LEMMA GotIsOk ==
  /\ Failed \in Got /\ ~Failed.ok /\ Nothing \in Got /\ ~Nothing.ok
  /\ \A size \in Int : Sized(size) \in Got /\ Sized(size).ok /\ Sized(size).size = size
  /\ \A size \in Int : Body(size) \in Got /\ Body(size).ok /\ Body(size).size = size
<1> QED
  BY DEF Got, Failed, Nothing, Sized, Body

(* A call that is not made.                                                *)
LEMMA NoCallIsSound == NoCall \in Call /\ Sound(NoCall)
<1>1. <<>> \in Seq([to : FtpPlaces, code : Nat, more : BOOLEAN])
  OBVIOUS
<1>2. NoCall \in Call
  BY <1>1, GotIsOk DEF NoCall, Call
<1> QED
  BY <1>2, GotIsOk DEF NoCall, Sound, Guarded, Over, Requesting, FtpPlaces, Codes

(* What ends a call keeps the rest of it.                                  *)
EndOf(c, got, wait, paired) ==
  [c EXCEPT !.at = "end", !.got = got, !.wait = wait, !.paired = paired]

LEMMA EndOfParts ==
  ASSUME NEW c \in Call, NEW got \in Got, NEW paired \in BOOLEAN,
         NEW wait \in {"none", "waits", "done", "cancelled"},
         NEW e, e = EndOf(c, got, wait, paired)
  PROVE  /\ e \in Call /\ e.at = "end" /\ e.got = got /\ e.paired = paired
         /\ e.lines = c.lines /\ e.pins = c.pins /\ e.op = c.op /\ e.url = c.url
  BY DEF Call, EndOf

(* A call that ended, with what it was asked if it has a result.           *)
LEMMA EndedParts ==
  ASSUME NEW i \in Calls, call[i] \in Call, NEW got \in Got
  PROVE  /\ Ended(i, got) \in Call
         /\ Ended(i, got).at = "end" /\ Ended(i, got).got = got
         /\ Ended(i, got).paired = call[i].paired /\ Ended(i, got).lines = <<>>
         /\ Ended(i, got).pins = {}
         /\ got.ok => Ended(i, got).op = call[i].op /\ Ended(i, got).url = call[i].url
<1> DEFINE base == IF got.ok THEN [NoCall EXCEPT !.op = call[i].op, !.url = call[i].url] ELSE NoCall
           e == Ended(i, got)
           wait == call[i].wait
           paired == call[i].paired
<1>1. /\ base \in Call /\ base.lines = <<>> /\ base.pins = {}
      /\ got.ok => base.op = call[i].op /\ base.url = call[i].url
  BY NoCallIsSound DEF Call, NoCall
<1>2. base \in Call
  BY <1>1
<1>3. e = EndOf(base, got, wait, paired)
  BY DEF Ended, EndOf
<1>4. wait \in {"none", "waits", "done", "cancelled"} /\ paired \in BOOLEAN
  BY DEF Call
<1> HIDE DEF base, e, wait, paired
<1>5. /\ e \in Call /\ e.at = "end" /\ e.got = got /\ e.paired = paired
      /\ e.lines = base.lines /\ e.pins = base.pins /\ e.op = base.op /\ e.url = base.url
  BY <1>2, <1>3, <1>4, EndOfParts
<1> QED
  BY <1>1, <1>5 DEF e, paired

(* A call that fails, or that ends with the size of its file, is sound.    *)
LEMMA EndedIsSound ==
  ASSUME NEW i \in Calls, call[i] \in Call, Sound(call[i]), NEW got \in Got, got.ok \in BOOLEAN,
         got.ok /\ call[i].op = "size" => got.size \in {-1, Size[Host(i)]}
  PROVE  Ended(i, got) \in Call /\ Sound(Ended(i, got))
<1> DEFINE e == Ended(i, got)
<1>1. /\ e \in Call /\ e.at = "end" /\ e.got = got /\ e.paired = call[i].paired
      /\ e.lines = <<>> /\ e.pins = {}
      /\ got.ok => e.op = call[i].op /\ e.url = call[i].url
  BY EndedParts
<1> HIDE DEF e
<1>2. Guarded(e)
  BY <1>1 DEF Guarded, Over, Requesting
<1>3. Sound(e)
  BY <1>1, <1>2 DEF Sound, Host
<1> QED
  BY <1>1, <1>3 DEF e

-----------------------------------------------------------------------------
(* A step of one call that touches neither the lock nor the cache.         *)
LEMMA CallMoves ==
  ASSUME NInv, NEW i \in Calls, NEW m \in Call, Sound(m), call' = [call EXCEPT ![i] = m],
         UNCHANGED <<cancel, cache, lock, dns, world>>,
         m.at = "resolve" <=> At(i, "resolve")
  PROVE  NInv'
<1>1. /\ call' \in [Calls -> Call] /\ call'[i] = m
      /\ \A j \in Calls \ {i} : call'[j] = call[j]
  BY DEF NInv, NetworkTypeOK
<1>2. \A j \in Calls : Sound(call'[j])
  BY <1>1 DEF NInv
<1>3. \A j \in Calls : lock' = j <=> call'[j].at = "resolve"
  BY <1>1 DEF NInv, NetworkTypeOK, At
<1>4. NetworkTypeOK'
  BY <1>1, <1>3 DEF NInv, NetworkTypeOK, At
<1>5. ClientFitsItsKey'
  BY DEF NInv, ClientFitsItsKey
<1> QED
  BY <1>2, <1>4, <1>5 DEF NInv

(* A step that ends a call.                                                *)
LEMMA CallEnds ==
  ASSUME NInv, NEW i \in Calls, NEW got \in Got, got.ok \in BOOLEAN, Ends(i, got),
         got.ok /\ call[i].op = "size" => got.size \in {-1, Size[Host(i)]},
         UNCHANGED <<cancel, cache, lock, dns, world>>, ~At(i, "resolve")
  PROVE  NInv'
<1>1. call[i] \in Call /\ Sound(call[i])
  BY DEF NInv, NetworkTypeOK
<1>2. Ended(i, got) \in Call /\ Sound(Ended(i, got)) /\ Ended(i, got).at = "end"
  BY <1>1, EndedIsSound, EndedParts
<1> QED
  BY <1>2, CallMoves DEF Ends

LEMMA StartKeeps == ASSUME NInv, NEW i \in Calls, Start(i) PROVE NInv'
<1>1. PICK asked \in Asked[i] :
        call' = [call EXCEPT ![i] =
             IF ~Accepted(asked.op, asked.url, asked.local)
             THEN [NoCall EXCEPT !.at = "end", !.wait = "waits", !.got = Failed]
             ELSE [NoCall EXCEPT
               !.op = asked.op, !.url = asked.url, !.start = asked.url.host,
               !.local = asked.local, !.wait = "waits",
               !.at = IF asked.url.scheme = "ftp" THEN "greeting" ELSE "client"]]
  BY DEF Start
<1>2. /\ asked.op \in {"get", "size", "file"} /\ asked.url \in Url /\ asked.local \in BOOLEAN
      /\ asked.url.host \in Hosts
  BY NetworkAssumption DEF Url
<1>3. ~At(i, "resolve")
  BY DEF Start, At
<1> DEFINE refused == [NoCall EXCEPT !.at = "end", !.wait = "waits", !.got = Failed]
           m == [NoCall EXCEPT
               !.op = asked.op, !.url = asked.url, !.start = asked.url.host,
               !.local = asked.local, !.wait = "waits",
               !.at = IF asked.url.scheme = "ftp" THEN "greeting" ELSE "client"]
<1>4. CASE ~Accepted(asked.op, asked.url, asked.local)
  <2>1. /\ refused \in Call /\ refused.at = "end" /\ refused.got = Failed
        /\ refused.lines = <<>> /\ refused.paired /\ refused.pins = {}
    BY NoCallIsSound, GotIsOk DEF Call, NoCall
  <2>2. call' = [call EXCEPT ![i] = refused]
    BY <1>1, <1>4
  <2> HIDE DEF refused
  <2>3. Sound(refused)
    BY <2>1, GotIsOk DEF Sound, Guarded, Over, Requesting
  <2> QED
    BY <1>3, <2>1, <2>2, <2>3, CallMoves DEF Start
<1>5. CASE Accepted(asked.op, asked.url, asked.local)
  <2>1. call' = [call EXCEPT ![i] = m]
    BY <1>1, <1>5
  <2>2. /\ m \in Call /\ m.lines = <<>> /\ m.paired /\ m.pins = {} /\ m.got = Nothing
        /\ m.url = asked.url /\ m.start = asked.url.host /\ m.local = asked.local
        /\ m.at = IF asked.url.scheme = "ftp" THEN "greeting" ELSE "client"
    <3> DEFINE place == IF asked.url.scheme = "ftp" THEN "greeting" ELSE "client"
    <3>1. place \in {"client"} \cup FtpPlaces
      BY DEF FtpPlaces, Codes
    <3> HIDE DEF place
    <3>2. LET n == [NoCall EXCEPT !.op = asked.op, !.url = asked.url, !.start = asked.url.host,
                      !.local = asked.local, !.wait = "waits", !.at = place]
          IN  /\ n \in Call /\ n.lines = <<>> /\ n.paired /\ n.pins = {} /\ n.got = Nothing
              /\ n.url = asked.url /\ n.start = asked.url.host /\ n.local = asked.local
              /\ n.at = place
      BY <1>2, <3>1, NoCallIsSound DEF Call, NoCall
    <3> QED
      BY <3>2 DEF place
  <2>3. asked.url.scheme \in {"https", "ftp"} /\ (asked.url.host = "lan" => asked.local)
    BY <1>2, <1>5 DEF Accepted, Valid, Url
  <2> HIDE DEF m
  <2>4. Guarded(m)
    BY <1>2, <2>2, <2>3 DEF Guarded, Over, Requesting, FtpPlaces, Codes
  <2>5. Sound(m)
    BY <2>2, <2>4, GotIsOk DEF Sound
  <2> QED
    BY <1>3, <2>1, <2>2, <2>5, CallMoves DEF Start
<1> QED
  BY <1>4, <1>5

(* What `call[i]` becomes when only its place and its wait change.         *)
LEMMA WaitKeeps ==
  ASSUME NInv, NEW i \in Calls, NEW w \in {"done", "cancelled"}, NEW p \in {call[i].at, "end"},
         call' = [call EXCEPT ![i] = [call[i] EXCEPT !.at = p, !.wait = w]],
         p = "end" => ~At(i, "resolve"), call[i].at # "end" => p = call[i].at \/ At(i, "none"),
         UNCHANGED <<cancel, cache, lock, dns, world>>
  PROVE  NInv'
<1> DEFINE m == [call[i] EXCEPT !.at = p, !.wait = w]
<1>1. call[i] \in Call /\ Sound(call[i])
  BY DEF NInv, NetworkTypeOK
<1>2. /\ m \in Call /\ m.at = p
      /\ m.op = call[i].op /\ m.url = call[i].url /\ m.start = call[i].start
      /\ m.local = call[i].local /\ m.tried = call[i].tried /\ m.got = call[i].got
      /\ m.lines = call[i].lines /\ m.paired = call[i].paired /\ m.pins = call[i].pins
  BY <1>1 DEF Call
<1> HIDE DEF m
<1>3. Sound(m)
  BY <1>1, <1>2 DEF Sound, Guarded, Over, Requesting, At
<1> QED
  BY <1>1, <1>2, <1>3, CallMoves DEF At, m

LEMMA CallerKeeps ==
  ASSUME NInv, NEW i \in Calls, StartCancelled(i) \/ CancelCall(i) \/ Returns(i)
  PROVE  NInv'
<1>1. call \in [Calls -> Call] /\ call[i] \in Call
  BY DEF NInv, NetworkTypeOK
<1>2. CASE StartCancelled(i)
  <2>1. call' = [call EXCEPT ![i] = [call[i] EXCEPT !.at = "end", !.wait = "cancelled"]]
    BY <1>1, <1>2 DEF StartCancelled
  <2> QED
    BY <1>2, <2>1, WaitKeeps DEF StartCancelled, At
<1>3. CASE CancelCall(i)
  BY <1>3 DEF CancelCall, NInv, NetworkTypeOK, At, ClientFitsItsKey
<1>4. ASSUME NEW w \in {"done", "cancelled"}, call' = [call EXCEPT ![i].wait = w],
             UNCHANGED <<cancel, cache, lock, dns, world>>
      PROVE  NInv'
  <2>1. call' = [call EXCEPT ![i] = [call[i] EXCEPT !.at = call[i].at, !.wait = w]]
    <3>1. [call[i] EXCEPT !.wait = w] = [call[i] EXCEPT !.at = call[i].at, !.wait = w]
      BY <1>1 DEF Call
    <3> QED
      BY <1>1, <1>4, <3>1
  <2> QED
    BY <1>4, <2>1, WaitKeeps DEF At
<1>5. CASE Returns(i)
  BY <1>4, <1>5 DEF Returns
<1> QED
  BY <1>2, <1>3, <1>5

-----------------------------------------------------------------------------
(* Names and clients.                                                      *)

LEMMA TakesClientKeeps == ASSUME NInv, NEW i \in Calls, TakesClient(i) PROVE NInv'
<1> DEFINE pins == cache[Key(i)].pins
           m == [call[i] EXCEPT !.at = "send", !.pins = pins, !.tried = 1]
<1>1. call \in [Calls -> Call] /\ call[i] \in Call /\ Sound(call[i]) /\ At(i, "client")
  BY DEF NInv, NetworkTypeOK, TakesClient
<1>2. pins \in SUBSET Addresses /\ (~call[i].local => "local" \notin pins)
  BY <1>1 DEF NInv, NetworkTypeOK, ClientFitsItsKey, TakesClient, Key
<1> HIDE DEF pins
<1>3. call' = [call EXCEPT ![i] = m]
  BY <1>1 DEF TakesClient, pins
<1>4. /\ m \in Call /\ m.at = "send" /\ m.pins = pins /\ m.tried = 1
      /\ m.op = call[i].op /\ m.url = call[i].url /\ m.start = call[i].start
      /\ m.local = call[i].local /\ m.got = call[i].got
      /\ m.lines = call[i].lines /\ m.paired = call[i].paired
  BY <1>1, <1>2 DEF Call
<1> HIDE DEF m
<1>5. Sound(m)
  BY <1>1, <1>2, <1>4, NetworkAssumption DEF Sound, Guarded, Over, Requesting, At, FtpPlaces, Codes
<1> QED
  BY <1>1, <1>3, <1>4, <1>5, CallMoves DEF TakesClient, At

LEMMA LocksKeeps == ASSUME NInv, NEW i \in Calls, Locks(i) PROVE NInv'
<1> DEFINE m == [call[i] EXCEPT !.at = "resolve"]
<1>1. /\ call \in [Calls -> Call] /\ call[i] \in Call /\ Sound(call[i]) /\ call[i].at = "client"
      /\ lock = Free /\ lock' = i /\ call' = [call EXCEPT ![i] = m]
  BY DEF NInv, NetworkTypeOK, Locks, At, Goes
<1>2. /\ m \in Call /\ m.at = "resolve" /\ m.tried = call[i].tried
      /\ m.op = call[i].op /\ m.url = call[i].url /\ m.start = call[i].start
      /\ m.local = call[i].local /\ m.got = call[i].got /\ m.pins = call[i].pins
      /\ m.lines = call[i].lines /\ m.paired = call[i].paired
  BY <1>1 DEF Call
<1> HIDE DEF m
<1>3. Sound(m)
  BY <1>1, <1>2 DEF Sound, Guarded, Over, Requesting, FtpPlaces, Codes
<1>4. call' \in [Calls -> Call] /\ \A j \in Calls : Sound(call'[j])
  BY <1>1, <1>2, <1>3 DEF NInv
<1>5. \A j \in Calls : lock' = j <=> call'[j].at = "resolve"
  BY <1>1, <1>2, NetworkAssumption DEF NInv, NetworkTypeOK, At
<1> QED
  BY <1>4, <1>5 DEF NInv, NetworkTypeOK, ClientFitsItsKey, Locks, At

(* A client that is put into the cache is pinned as its key says.          *)
LEMMA CachedFits ==
  ASSUME NInv, NEW i \in Calls, call[i] \in Call, Host(i) \in Hosts,
         NEW pins \in SUBSET Addresses, ~call[i].local => "local" \notin pins,
         cache' = [key \in DOMAIN Kept(cache) \cup {Key(i)} |->
                     IF key = Key(i) THEN [pins |-> pins, age |-> 0] ELSE Kept(cache)[key]]
  PROVE  /\ DOMAIN cache' \subseteq Hosts \X BOOLEAN
         /\ cache' \in [DOMAIN cache' -> [pins : SUBSET Addresses, age : 0..Fresh]]
         /\ ClientFitsItsKey'
<1>1. DOMAIN cache' = DOMAIN Kept(cache) \cup {Key(i)} /\ DOMAIN Kept(cache) \subseteq DOMAIN cache
  BY DEF Kept
<1>2. Key(i) \in Hosts \X BOOLEAN /\ Key(i)[2] = call[i].local
  BY DEF Key, Call
<1>3. [pins |-> pins, age |-> 0] \in [pins : SUBSET Addresses, age : 0..Fresh]
  BY NetworkAssumption
<1>4. \A key \in DOMAIN Kept(cache) : Kept(cache)[key] = cache[key]
  BY DEF Kept
<1>5. \A key \in DOMAIN cache' :
        /\ cache'[key] = IF key = Key(i) THEN [pins |-> pins, age |-> 0] ELSE cache[key]
        /\ key = Key(i) \/ key \in DOMAIN cache
  BY <1>1, <1>4
<1>6. DOMAIN cache' \subseteq Hosts \X BOOLEAN
  BY <1>1, <1>2 DEF NInv, NetworkTypeOK
<1>7. \A key \in DOMAIN cache' : cache'[key] \in [pins : SUBSET Addresses, age : 0..Fresh]
  BY <1>3, <1>5 DEF NInv, NetworkTypeOK
<1>8. cache' \in [DOMAIN cache' -> [pins : SUBSET Addresses, age : 0..Fresh]]
  BY <1>1, <1>7
<1>9. ClientFitsItsKey'
  BY <1>2, <1>5 DEF NInv, ClientFitsItsKey
<1> QED
  BY <1>6, <1>8, <1>9

LEMMA ResolvesKeeps == ASSUME NInv, NEW i \in Calls, Resolves(i) PROVE NInv'
<1> DEFINE pins == Pinned(Host(i), call[i].local)
           sent == [call[i] EXCEPT !.at = "send", !.pins = pins, !.tried = 1]
           m == IF pins = {} THEN Ended(i, Failed) ELSE sent
<1>1. /\ call \in [Calls -> Call] /\ call[i] \in Call /\ Sound(call[i]) /\ call[i].at = "resolve"
      /\ lock = i /\ lock' = Free
  BY DEF NInv, NetworkTypeOK, Resolves, At
<1>2. Host(i) \in Hosts
  BY <1>1 DEF Sound, Guarded, Over, Host, Url
<1>3. pins \in SUBSET Addresses /\ (~call[i].local => "local" \notin pins)
  BY <1>2 DEF Pinned, NInv, NetworkTypeOK
<1>4. /\ call' = [call EXCEPT ![i] = m] /\ UNCHANGED <<cancel, dns, world>>
      /\ pins = {} => cache' = cache
      /\ pins # {} => cache' = [key \in DOMAIN Kept(cache) \cup {Key(i)} |->
                     IF key = Key(i) THEN [pins |-> pins, age |-> 0] ELSE Kept(cache)[key]]
  BY <1>1 DEF Resolves, Ends
<1> HIDE DEF pins
<1>5. /\ sent \in Call /\ sent.at = "send" /\ sent.pins = pins /\ sent.tried = 1
      /\ sent.op = call[i].op /\ sent.url = call[i].url /\ sent.start = call[i].start
      /\ sent.local = call[i].local /\ sent.got = call[i].got
      /\ sent.lines = call[i].lines /\ sent.paired = call[i].paired
  BY <1>1, <1>3 DEF Call
<1> HIDE DEF sent
<1>6. Sound(sent)
  BY <1>1, <1>3, <1>5, NetworkAssumption DEF Sound, Guarded, Over, Requesting, FtpPlaces, Codes
<1>7. Ended(i, Failed) \in Call /\ Sound(Ended(i, Failed)) /\ Ended(i, Failed).at = "end"
  BY <1>1, GotIsOk, EndedIsSound, EndedParts DEF Failed
<1>8. m \in Call /\ Sound(m) /\ m.at # "resolve"
  BY <1>5, <1>6, <1>7
<1> HIDE DEF m
<1>9. call' \in [Calls -> Call] /\ \A j \in Calls : Sound(call'[j])
  BY <1>1, <1>4, <1>8 DEF NInv
<1>10. \A j \in Calls : lock' = j <=> call'[j].at = "resolve"
  BY <1>1, <1>4, <1>8, NetworkAssumption DEF NInv, NetworkTypeOK, At
<1>11. /\ DOMAIN cache' \subseteq Hosts \X BOOLEAN
       /\ cache' \in [DOMAIN cache' -> [pins : SUBSET Addresses, age : 0..Fresh]]
       /\ ClientFitsItsKey'
  <2>1. CASE pins = {}
    BY <1>4, <2>1 DEF NInv, NetworkTypeOK, ClientFitsItsKey
  <2>2. CASE pins # {}
    BY <1>1, <1>2, <1>3, <1>4, <2>2, CachedFits
  <2> QED
    BY <2>1, <2>2
<1> QED
  BY <1>1, <1>4, <1>9, <1>10, <1>11 DEF NInv, NetworkTypeOK, At

-----------------------------------------------------------------------------
(* Requests.                                                               *)

LEMMA RedirectsKeeps == ASSUME NInv, NEW i \in Calls, Redirects(i) PROVE NInv'
<1>1. /\ call \in [Calls -> Call] /\ call[i] \in Call /\ Sound(call[i])
      /\ call[i].at \in Requesting
  BY DEF NInv, NetworkTypeOK, Redirects, Requesting
<1>2. PICK to \in Targets :
        IF Follows(i, to)
        THEN call' = [call EXCEPT ![i].url = to, ![i].pins = {},
                        ![i].tried = IF call[i].tried < MaxRedirects THEN @ + 1 ELSE @]
        ELSE Ends(i, Failed)
  BY Zenon DEF Redirects
<1>3. to \in Url /\ to.host \in Hosts
  BY NetworkAssumption DEF Url
<1>4. CASE ~Follows(i, to)
  <2>1. Ends(i, Failed) /\ ~At(i, "resolve")
    BY <1>1, <1>2, <1>4 DEF At, Requesting
  <2> QED
    BY <2>1, GotIsOk, CallEnds DEF Failed, Redirects
<1>5. CASE Follows(i, to)
  <2> DEFINE m == [call[i] EXCEPT !.url = to, !.pins = {}, !.tried = call[i].tried + 1]
  <2>1. /\ call[i].tried < MaxRedirects /\ call[i].url.scheme = "https"
        /\ to.scheme = "https" /\ to.host # "lan"
    BY <1>1, <1>5 DEF Follows, MayFollow, Sound, Guarded, Over, Requesting, FtpPlaces, Codes
  <2>2. call' = [call EXCEPT ![i] = m]
    BY <1>1, <1>2, <1>5, <2>1
  <2>6. call[i].tried \in Nat /\ call[i].tried + 1 \in Nat
    BY <1>1 DEF Call
  <2>3. /\ m \in Call /\ m.at = call[i].at /\ m.pins = {} /\ m.tried = call[i].tried + 1
        /\ m.op = call[i].op /\ m.url = to /\ m.start = call[i].start
        /\ m.local = call[i].local /\ m.got = call[i].got
        /\ m.lines = call[i].lines /\ m.paired = call[i].paired
    <3> DEFINE tries == call[i].tried + 1
    <3>1. tries \in Nat /\ m = [call[i] EXCEPT !.url = to, !.pins = {}, !.tried = tries]
      BY <2>6
    <3> HIDE DEF tries, m
    <3>2. /\ m \in Call /\ m.at = call[i].at /\ m.pins = {} /\ m.tried = tries
          /\ m.op = call[i].op /\ m.url = to /\ m.start = call[i].start
          /\ m.local = call[i].local /\ m.got = call[i].got
          /\ m.lines = call[i].lines /\ m.paired = call[i].paired
      BY <1>1, <1>3, <3>1 DEF Call
    <3> QED
      BY <3>2 DEF tries
  <2> HIDE DEF m
  <2>4. m.tried \in 1..MaxRedirects
    BY <1>1, <2>1, <2>3, NetworkAssumption DEF Call
  <2>5. Sound(m)
    BY <1>1, <1>3, <2>1, <2>3, <2>4 DEF Sound, Guarded, Over, Requesting, FtpPlaces, Codes
  <2> QED
    BY <1>1, <2>2, <2>3, <2>5, CallMoves DEF Redirects, At
<1> QED
  BY <1>4, <1>5

LEMMA SizesAreInts == \A host \in Hosts : Size[host] \in Int /\ Size[host] \in Nat
<1> QED
  BY NetworkAssumption

LEMMA ReadIsGot ==
  ASSUME NEW size \in Int
  PROVE  ReadBounded(size) \in Got /\ ReadBounded(size).ok \in BOOLEAN
<1>1. CASE size > BodyBound
  BY <1>1, GotIsOk DEF ReadBounded, Failed
<1>2. CASE ~(size > BodyBound)
  BY <1>2, GotIsOk DEF ReadBounded, Body
<1> QED
  BY <1>1, <1>2

LEMMA AnswersKeep ==
  ASSUME NInv, NEW i \in Calls,
         RequestFails(i) \/ HeadAnswers(i) \/ RangedAnswer(i) \/ BodyAnswers(i)
  PROVE  NInv'
<1>1. /\ call \in [Calls -> Call] /\ call[i] \in Call /\ Sound(call[i])
      /\ call[i].at \in Requesting
  BY DEF NInv, NetworkTypeOK, RequestFails, HeadAnswers, RangedAnswer, BodyAnswers, Requesting, At
<1>2. Host(i) \in Hosts /\ ~At(i, "resolve") /\ call[i].start \in Hosts
  BY <1>1 DEF Sound, Guarded, Over, Requesting, Host, Url, At
<1>3. CASE RequestFails(i)
  BY <1>2, <1>3, GotIsOk, CallEnds DEF RequestFails, Failed
<1>4. ASSUME NEW size \in {-1, Size[Host(i)]}, Ends(i, Sized(size)),
             UNCHANGED <<cancel, cache, lock, dns, world>>
      PROVE  NInv'
  <2>1. size \in Int
    BY <1>2, SizesAreInts
  <2>2. Sized(size) \in Got /\ Sized(size).ok \in BOOLEAN /\ Sized(size).size = size
    BY <2>1, GotIsOk
  <2> QED
    BY <1>2, <1>4, <2>2, CallEnds
<1>5. CASE HeadAnswers(i)
  <2> DEFINE again == [call[i].url EXCEPT !.host = call[i].start, !.scheme = "https"]
             m == [call[i] EXCEPT !.at = "ranged", !.url = again, !.tried = 1]
  <2>1. CASE \E length \in {-1, Size[Host(i)]} : Ends(i, Sized(length))
    BY <1>4, <1>5, <2>1 DEF HeadAnswers
  <2>2. CASE call' = [call EXCEPT ![i].at = "ranged", ![i].url.host = call[i].start,
                             ![i].url.scheme = "https", ![i].tried = 1]
    <3>1. call[i].url \in Url
      BY <1>1 DEF Sound, Guarded, Over, Requesting
    <3>2. again \in Url /\ again.host = call[i].start /\ again.scheme = "https"
      BY <1>2, <3>1 DEF Url
    <3>3. call' = [call EXCEPT ![i] = m]
      BY <1>1, <2>2
    <3> HIDE DEF again
    <3>4. /\ m \in Call /\ m.at = "ranged" /\ m.pins = call[i].pins /\ m.tried = 1
          /\ m.op = call[i].op /\ m.url = again /\ m.start = call[i].start
          /\ m.local = call[i].local /\ m.got = call[i].got
          /\ m.lines = call[i].lines /\ m.paired = call[i].paired
      BY <1>1, <3>2 DEF Call
    <3> HIDE DEF m
    <3>5. Sound(m)
      BY <1>1, <1>2, <3>2, <3>4, NetworkAssumption DEF Sound, Guarded, Over, Requesting, FtpPlaces, Codes
    <3> QED
      BY <1>2, <1>5, <3>3, <3>4, <3>5, CallMoves DEF HeadAnswers
  <2> QED
    BY <1>5, <2>1, <2>2 DEF HeadAnswers
<1>6. CASE RangedAnswer(i)
  <2>1. PICK said \in RangedAnswers(Size[Host(i)]) : Ends(i, Sized(ProbeSize(said)))
    BY <1>6 DEF RangedAnswer
  <2>2. ProbeSize(said) \in {-1, Size[Host(i)]}
    BY DEF RangedAnswers, ProbeSize
  <2> QED
    BY <1>4, <1>6, <2>1, <2>2 DEF RangedAnswer
<1>7. CASE BodyAnswers(i)
  <2>1. Size[Host(i)] \in Int
    BY <1>2, SizesAreInts
  <2>2. ReadBounded(Size[Host(i)]) \in Got /\ ReadBounded(Size[Host(i)]).ok \in BOOLEAN
    BY <2>1, ReadIsGot
  <2> QED
    BY <1>2, <1>7, <2>2, CallEnds DEF BodyAnswers
<1> QED
  BY <1>3, <1>5, <1>6, <1>7

-----------------------------------------------------------------------------
(* The FTP dialogue.                                                       *)

FtpLines == [to : FtpPlaces, code : Nat, more : BOOLEAN]

(* A reply is read to its own last line, whatever its form, or not at all. *)
LEMMA ReplyIsRead ==
  ASSUME NEW command \in FtpPlaces, NEW code \in Nat, NEW reply \in Replies(command, code)
  PROVE  /\ reply \in Seq(FtpLines) /\ Len(reply) \in Nat \ {0}
         /\ \/ ReplyEnd(reply) = 0
            \/ /\ ReplyEnd(reply) = Len(reply)
               /\ reply[Len(reply)] = ReplyLine(command, code, FALSE)
<1> DEFINE middle == ReplyLine(command, code, TRUE)
           final == ReplyLine(command, code, FALSE)
<1>1. /\ middle \in FtpLines /\ final \in FtpLines /\ middle.code = final.code
      /\ middle.more = TRUE /\ final.more = FALSE
  BY DEF ReplyLine, FtpLines
<1>2. \/ reply = <<final>> \/ reply = <<middle, final>>
      \/ reply = [k \in 1..(LineBound + 2) |-> middle]
  BY DEF Replies
<1> HIDE DEF middle, final
<1>3. CASE reply = <<final>>
  <2>1. reply \in Seq(FtpLines) /\ Len(reply) = 1 /\ reply[1] = final
    BY <1>1, <1>3
  <2>2. ReplyEnd(reply) = 1
    BY <1>1, <2>1 DEF ReplyEnd
  <2> QED
    BY <2>1, <2>2 DEF final
<1>4. CASE reply = <<middle, final>>
  <2>1. reply \in Seq(FtpLines) /\ Len(reply) = 2 /\ reply[1] = middle /\ reply[2] = final
    BY <1>1, <1>4
  <2> DEFINE ends == {k \in 2..Len(reply) : reply[k].code = reply[1].code /\ ~reply[k].more}
             first == CHOOSE k \in ends : \A j \in ends : k <= j
  <2>2. ends = {2}
    BY <1>1, <2>1
  <2>3. first = 2
    BY <2>2
  <2>4. ReplyEnd(reply) = IF ends # {} /\ first <= LineBound + 1 THEN first ELSE 0
    BY <1>1, <2>1 DEF ReplyEnd
  <2> QED
    BY <2>1, <2>3, <2>4 DEF final
<1>5. CASE reply = [k \in 1..(LineBound + 2) |-> middle]
  <2>1. LineBound + 2 \in Nat \ {0}
    BY NetworkAssumption
  <2>2. reply \in Seq(FtpLines) /\ Len(reply) = LineBound + 2
    <3>1. reply \in [1..(LineBound + 2) -> FtpLines] /\ LineBound + 2 \in Nat
      BY <1>1, <1>5, <2>1
    <3>2. reply \in Seq(FtpLines)
      BY <3>1, SeqDef
    <3> QED
      BY <3>1, <3>2, LenProperties
  <2>3. \A k \in 1..Len(reply) : reply[k].more = TRUE
    BY <1>1, <1>5, <2>2
  <2> DEFINE ends == {k \in 2..Len(reply) : reply[k].code = reply[1].code /\ ~reply[k].more}
             first == CHOOSE k \in ends : \A j \in ends : k <= j
  <2>4. ends = {}
    BY <2>1, <2>2, <2>3
  <2>5. ReplyEnd(reply) = IF ends # {} /\ first <= LineBound + 1 THEN first ELSE 0
    BY <2>1, <2>2, <2>3 DEF ReplyEnd
  <2> QED
    BY <2>1, <2>2, <2>4, <2>5
<1> QED
  BY <1>2, <1>3, <1>4, <1>5

(* The codes of the replies, and where the dialogue goes with one: only a  *)
(* download is asked for an address, and only then for data.               *)
LEMMA CodesAreNat == \A place \in FtpPlaces : Codes[place] \subseteq Nat
<1> QED
  BY DEF FtpPlaces, Codes

LEMMA OnwardIsAPlace ==
  ASSUME NEW i \in Calls, call[i].at \in FtpPlaces, Sound(call[i]), NEW code \in Nat,
         Onward(i, code) # "end"
  PROVE  /\ Onward(i, code) \in {"user", "pass", "type", "size", "pasv", "retr", "data"}
         /\ Onward(i, code) \in {"pasv", "retr", "data"} => call[i].op # "size"
<1> DEFINE on == Onward(i, code)
           positive == code \div 100 = 2
           login == code \div 10 = 33
<1> HIDE DEF positive, login
<1>1. on = CASE At(i, "greeting") /\ positive -> "user"
             [] At(i, "user") /\ login -> "pass"
             [] At(i, "user") /\ positive -> "type"
             [] At(i, "pass") /\ positive -> "type"
             [] At(i, "type") /\ positive -> IF call[i].op = "size" THEN "size" ELSE "pasv"
             [] At(i, "pasv") /\ code = 227 -> "retr"
             [] At(i, "retr") /\ code = 150 -> "data"
             [] OTHER -> "end"
  BY DEF Onward, positive, login
<1> HIDE DEF on
<1>2. on # "end"
  BY DEF on
<1>3. call[i].at \in {"pasv", "retr"} => call[i].op # "size"
  BY DEF Sound
<1>4. CASE At(i, "greeting")
  BY <1>1, <1>2, <1>4 DEF At, on
<1>5. CASE At(i, "user")
  BY <1>1, <1>2, <1>5 DEF At, on
<1>6. CASE At(i, "pass")
  BY <1>1, <1>2, <1>6 DEF At, on
<1>7. CASE At(i, "type")
  BY <1>1, <1>2, <1>7 DEF At, on
<1>8. CASE At(i, "pasv")
  BY <1>1, <1>2, <1>3, <1>8 DEF At, on
<1>9. CASE At(i, "retr")
  BY <1>1, <1>2, <1>3, <1>9 DEF At, on
<1>10. CASE At(i, "size")
  BY <1>1, <1>2, <1>10 DEF At
<1> QED
  BY <1>4, <1>5, <1>6, <1>7, <1>8, <1>9, <1>10 DEF At, FtpPlaces, Codes

LEMMA FtpStepKeeps == ASSUME NInv, NEW i \in Calls, FtpStep(i) PROVE NInv'
<1>1. /\ call \in [Calls -> Call] /\ call[i] \in Call /\ Sound(call[i])
      /\ call[i].at \in FtpPlaces /\ UNCHANGED <<cancel, cache, lock, dns, world>>
  <2>1. call[i].at \in FtpPlaces /\ UNCHANGED <<cancel, cache, lock, dns, world>>
    BY Zenon DEF FtpStep
  <2> QED
    BY <2>1 DEF NInv, NetworkTypeOK
<1>2. /\ Host(i) \in Hosts /\ ~At(i, "resolve") /\ call[i].lines = <<>>
      /\ call[i].paired = TRUE
  BY <1>1 DEF Sound, Guarded, Over, Host, Url, At, FtpPlaces, Codes, Call
<1>3. PICK code, reply :
        /\ code \in Codes[call[i].at] /\ reply \in Replies(call[i].at, code)
        /\ LET lines == call[i].lines \o reply
               last == ReplyEnd(lines)
               read == lines[IF last = 0 THEN 1 ELSE last]
               onward == IF last = 0 THEN "end" ELSE Onward(i, read.code)
               paired == last = 0 \/ read.to = call[i].at
               then == IF onward # "end"
                       THEN [call[i] EXCEPT !.at = onward, !.lines = SubSeq(lines, last + 1, Len(lines))]
                       ELSE Ended(i, IF last = 0 THEN Failed ELSE FtpGot(i, read.code))
           IN  call' = [call EXCEPT ![i] = [then EXCEPT !.paired = @ /\ paired]]
  BY Zenon DEF FtpStep
<1>10. code \in Codes[call[i].at] /\ reply \in Replies(call[i].at, code)
  BY <1>3, Zenon
<1>4. code \in Nat
  BY <1>1, <1>10, CodesAreNat
<1>5. /\ reply \in Seq(FtpLines) /\ Len(reply) \in Nat \ {0}
      /\ \/ ReplyEnd(reply) = 0
         \/ /\ ReplyEnd(reply) = Len(reply)
            /\ reply[Len(reply)] = ReplyLine(call[i].at, code, FALSE)
  BY <1>1, <1>4, <1>10, ReplyIsRead
<1>6. call[i].lines \o reply = reply
  BY <1>2, <1>5, ConcatEmptySeq
<1>7. ASSUME NEW got \in Got, got.ok \in BOOLEAN,
             got.ok /\ call[i].op = "size" => got.size \in {-1, Size[Host(i)]},
             call' = [call EXCEPT ![i] = [Ended(i, got) EXCEPT !.paired = TRUE]]
      PROVE  NInv'
  <2> DEFINE e == Ended(i, got)
  <2>1. e \in Call /\ Sound(e) /\ e.at = "end" /\ e.paired = TRUE
    BY <1>1, <1>2, <1>7, EndedIsSound, EndedParts
  <2> HIDE DEF e
  <2>2. [e EXCEPT !.paired = TRUE] = e
    BY <2>1 DEF Call
  <2>3. call' = [call EXCEPT ![i] = e]
    BY <1>7, <2>2 DEF e
  <2> QED
    BY <1>1, <1>2, <2>1, <2>3, CallMoves DEF At
<1>8. CASE ReplyEnd(reply) = 0
  <2>1. call' = [call EXCEPT ![i] = [Ended(i, Failed) EXCEPT !.paired = @ /\ TRUE]]
    BY <1>3, <1>6, <1>8
  <2>2. Ended(i, Failed) \in Call /\ Ended(i, Failed).paired = TRUE
    BY <1>1, <1>2, GotIsOk, EndedParts DEF Failed
  <2>3. [Ended(i, Failed) EXCEPT !.paired = @ /\ TRUE] = [Ended(i, Failed) EXCEPT !.paired = TRUE]
    BY <2>2 DEF Call
  <2> QED
    BY <1>7, <2>1, <2>3, GotIsOk DEF Failed
<1>9. CASE ReplyEnd(reply) # 0
  <2> DEFINE onward == Onward(i, code)
             got == FtpGot(i, code)
             moved == [call[i] EXCEPT !.at = onward, !.lines = <<>>]
             then == IF onward # "end" THEN moved ELSE Ended(i, got)
  <2>1. /\ ReplyEnd(reply) = Len(reply)
        /\ reply[Len(reply)].code = code /\ reply[Len(reply)].to = call[i].at
    BY <1>5, <1>9 DEF ReplyLine
  <2>2. SubSeq(reply, Len(reply) + 1, Len(reply)) = <<>>
    BY <1>5, SubSeqEmpty
  <2>3. call' = [call EXCEPT ![i] = [then EXCEPT !.paired = @ /\ TRUE]]
    BY <1>3, <1>6, <1>9, <2>1, <2>2
  <2>4. CASE onward = "end"
    <3>1. /\ got \in Got /\ got.ok \in BOOLEAN
          /\ got.ok => got.size \in {-1, Size[Host(i)]}
      <4>1. Size[Host(i)] \in Int /\ -1 \in Int
        BY <1>2, SizesAreInts
      <4>2. CASE At(i, "size") /\ code = 213
        BY <4>1, <4>2, GotIsOk DEF FtpGot
      <4>3. CASE At(i, "size") /\ code # 213
        BY <4>1, <4>3, GotIsOk DEF FtpGot
      <4>4. CASE ~At(i, "size")
        BY <4>4, GotIsOk DEF FtpGot, Failed
      <4> QED
        BY <4>2, <4>3, <4>4
    <3> HIDE DEF got
    <3>2. Ended(i, got) \in Call /\ Ended(i, got).paired = TRUE
      BY <1>1, <1>2, <3>1, EndedParts
    <3>3. [Ended(i, got) EXCEPT !.paired = @ /\ TRUE] = [Ended(i, got) EXCEPT !.paired = TRUE]
      BY <3>2 DEF Call
    <3>4. call' = [call EXCEPT ![i] = [Ended(i, got) EXCEPT !.paired = TRUE]]
      BY <2>3, <2>4, <3>3
    <3> QED
      BY <1>7, <3>1, <3>4
  <2>5. CASE onward # "end"
    <3>1. /\ onward \in {"user", "pass", "type", "size", "pasv", "retr", "data"}
          /\ onward \in {"pasv", "retr", "data"} => call[i].op # "size"
      BY <1>1, <1>4, <2>5, OnwardIsAPlace
    <3> HIDE DEF onward
    <3>2. /\ <<>> \in Seq([to : FtpPlaces, code : Nat, more : BOOLEAN])
          /\ onward \in FtpPlaces \cup {"data"}
      BY <3>1 DEF FtpPlaces, Codes
    <3>3. /\ moved \in Call /\ moved.at = onward /\ moved.lines = <<>>
          /\ moved.op = call[i].op /\ moved.url = call[i].url /\ moved.start = call[i].start
          /\ moved.local = call[i].local /\ moved.got = call[i].got
          /\ moved.pins = call[i].pins /\ moved.paired = TRUE
      BY <1>1, <1>2, <3>2 DEF Call
    <3> HIDE DEF moved
    <3>4. [moved EXCEPT !.paired = @ /\ TRUE] = moved
      BY <3>3 DEF Call
    <3>5. call' = [call EXCEPT ![i] = moved]
      BY <2>3, <2>5, <3>4
    <3>6. Guarded(moved)
      BY <1>1, <3>1, <3>3 DEF Sound, Guarded, Over, Requesting, FtpPlaces, Codes
    <3>7. Sound(moved)
      BY <1>1, <3>1, <3>3, <3>6 DEF Sound, FtpPlaces, Codes
    <3> QED
      BY <1>1, <1>2, <3>1, <3>3, <3>5, <3>7, CallMoves DEF At
  <2> QED
    BY <2>4, <2>5
<1> QED
  BY <1>8, <1>9

LEMMA FtpEndKeeps == ASSUME NInv, NEW i \in Calls, FtpFails(i) \/ FtpData(i) PROVE NInv'
<1>1. /\ call[i] \in Call /\ Sound(call[i]) /\ call[i].at \in FtpPlaces \cup {"data"}
      /\ ~At(i, "resolve")
  BY DEF NInv, NetworkTypeOK, FtpFails, FtpData, At, FtpPlaces, Codes
<1>2. CASE FtpFails(i)
  BY <1>1, <1>2, GotIsOk, CallEnds DEF FtpFails, Failed
<1>3. CASE FtpData(i)
  <2>1. PICK size \in 0..Size[Host(i)] : Ends(i, ReadBounded(size))
    BY <1>3 DEF FtpData
  <2>2. ReadBounded(size) \in Got /\ ReadBounded(size).ok \in BOOLEAN
    BY ReadIsGot
  <2>3. call[i].op # "size"
    BY <1>1, <1>3 DEF Sound, FtpData, At
  <2> QED
    BY <1>1, <1>3, <2>1, <2>2, <2>3, CallEnds DEF FtpData
<1> QED
  BY <1>2, <1>3

LEMMA FtpDribblesKeeps == ASSUME NInv, NEW i \in Calls, FtpDribbles(i) PROVE NInv'
<1> DEFINE m == [call[i] EXCEPT !.at = "dribble"]
<1>1. call[i] \in Call /\ Sound(call[i]) /\ call[i].at \in FtpPlaces \cup {"data"}
  BY DEF NInv, NetworkTypeOK, FtpDribbles
<1>2. /\ m \in Call /\ m.at = "dribble"
      /\ m.op = call[i].op /\ m.url = call[i].url /\ m.start = call[i].start
      /\ m.local = call[i].local /\ m.tried = call[i].tried /\ m.got = call[i].got
      /\ m.lines = call[i].lines /\ m.paired = call[i].paired /\ m.pins = call[i].pins
  BY <1>1 DEF Call
<1>3. call' = [call EXCEPT ![i] = m]
  BY DEF FtpDribbles, Goes
<1> HIDE DEF m
<1>4. call[i].at \notin {"none", "end", "resolve"}
  BY <1>1 DEF FtpPlaces, Codes
<1>5. Sound(m)
  BY <1>1, <1>2, <1>4 DEF Sound, Guarded, Over, Requesting
<1> QED
  BY <1>2, <1>3, <1>4, <1>5, CallMoves DEF At, FtpDribbles

-----------------------------------------------------------------------------
LEMMA WorldKeeps == ASSUME NInv, Tick \/ Readdress PROVE NInv'
<1>1. CASE Tick
  <2>1. /\ DOMAIN cache' = DOMAIN cache
        /\ \A key \in DOMAIN cache :
             cache'[key] = [cache[key] EXCEPT !.age = IF @ < Fresh THEN @ + 1 ELSE @]
    BY <1>1 DEF Tick
  <2>2. Fresh \in Nat
    BY NetworkAssumption
  <2>3. ASSUME NEW kept \in [pins : SUBSET Addresses, age : 0..Fresh]
        PROVE  /\ [kept EXCEPT !.age = IF @ < Fresh THEN @ + 1 ELSE @]
                    \in [pins : SUBSET Addresses, age : 0..Fresh]
               /\ [kept EXCEPT !.age = IF @ < Fresh THEN @ + 1 ELSE @].pins = kept.pins
    BY <2>2
  <2>4. \A key \in DOMAIN cache' :
          /\ cache'[key] \in [pins : SUBSET Addresses, age : 0..Fresh]
          /\ cache'[key].pins = cache[key].pins
    BY <2>1, <2>3 DEF NInv, NetworkTypeOK
  <2>5. cache' \in [DOMAIN cache' -> [pins : SUBSET Addresses, age : 0..Fresh]]
    <3>1. cache' = [key \in DOMAIN cache' |-> cache'[key]]
      BY <1>1 DEF Tick
    <3> QED
      BY <2>4, <3>1
  <2>6. world' \in 0..MaxWorld
    BY <1>1, NetworkAssumption DEF Tick, NInv, NetworkTypeOK
  <2>7. ClientFitsItsKey'
    BY <2>1, <2>4 DEF NInv, ClientFitsItsKey
  <2> QED
    BY <1>1, <2>1, <2>5, <2>6, <2>7 DEF Tick, NInv, NetworkTypeOK, At
<1>2. CASE Readdress
  <2>1. PICK name \in Names, to \in {{"local"}, Hangs} : dns' = [dns EXCEPT ![name] = to]
    BY <1>2 DEF Readdress
  <2>2. dns' \in [Hosts -> SUBSET Addresses]
    BY <2>1 DEF NInv, NetworkTypeOK, Hosts, Hangs, Addresses
  <2>3. world' \in 0..MaxWorld
    BY <1>2, NetworkAssumption DEF Readdress, NInv, NetworkTypeOK
  <2> QED
    BY <1>2, <2>2, <2>3 DEF Readdress, NInv, NetworkTypeOK, ClientFitsItsKey, At
<1> QED
  BY <1>1, <1>2

LEMMA NInvInit == NetworkInit => NInv
<1> SUFFICES ASSUME NetworkInit PROVE NInv
  OBVIOUS
<1>1. /\ call = [i \in Calls |-> NoCall] /\ cancel = {} /\ DOMAIN cache = {}
      /\ cache = [key \in {} |-> NoCall] /\ lock = Free /\ world = 0
  BY DEF NetworkInit
<1>2. \A i \in Calls : call[i] = NoCall /\ call[i].at = "none"
  BY <1>1 DEF NoCall
<1>3. dns \in [Hosts -> SUBSET Addresses]
  BY DEF NetworkInit, Addresses
<1>4. world \in 0..MaxWorld
  BY <1>1, NetworkAssumption
<1>5. \A i \in Calls : lock = i <=> At(i, "resolve")
  BY <1>1, <1>2, NetworkAssumption DEF At
<1>6. call \in [Calls -> Call] /\ \A i \in Calls : Sound(call[i])
  BY <1>1, <1>2, NoCallIsSound
<1> QED
  BY <1>1, <1>3, <1>4, <1>5, <1>6 DEF NInv, NetworkTypeOK, ClientFitsItsKey

LEMMA NInvStep == NInv /\ [NetworkNext]_networkVars => NInv'
<1> SUFFICES ASSUME NInv, [NetworkNext]_networkVars PROVE NInv'
  OBVIOUS
<1>1. ASSUME NEW i \in Calls,
             \/ Start(i) \/ StartCancelled(i) \/ CancelCall(i) \/ Returns(i)
             \/ Helper(i) \/ FtpDribbles(i)
      PROVE  NInv'
  <2>1. CASE Start(i)
    BY <2>1, StartKeeps
  <2>2. CASE StartCancelled(i) \/ CancelCall(i) \/ Returns(i)
    BY <2>2, CallerKeeps
  <2>3. CASE TakesClient(i)
    BY <2>3, TakesClientKeeps
  <2>4. CASE Locks(i)
    BY <2>4, LocksKeeps
  <2>5. CASE Resolves(i)
    BY <2>5, ResolvesKeeps
  <2>6. CASE Redirects(i)
    BY <2>6, RedirectsKeeps
  <2>7. CASE RequestFails(i) \/ HeadAnswers(i) \/ RangedAnswer(i) \/ BodyAnswers(i)
    BY <2>7, AnswersKeep
  <2>8. CASE FtpStep(i)
    BY <2>8, FtpStepKeeps
  <2>9. CASE FtpFails(i) \/ FtpData(i)
    BY <2>9, FtpEndKeeps
  <2>10. CASE FtpDribbles(i)
    BY <2>10, FtpDribblesKeeps
  <2> QED
    BY <1>1, <2>10, <2>1, <2>2, <2>3, <2>4, <2>5, <2>6, <2>7, <2>8, <2>9 DEF Helper
<1>2. CASE Tick \/ Readdress
  BY <1>2, WorldKeeps
<1>3. CASE UNCHANGED networkVars
  BY <1>3 DEF networkVars, NInv, NetworkTypeOK, ClientFitsItsKey, At
<1> QED
  BY <1>1, <1>2, <1>3 DEF NetworkNext

LEMMA NInvHolds == NetworkSpec => []NInv
<1> QED
  BY NInvInit, NInvStep, PTL DEF NetworkSpec

(* The calls, the cache of clients and its lock keep to their types, and   *)
(* the lock is held exactly by the call that resolves a name.              *)
THEOREM NetworkTypeCorrect == NetworkSpec => []NetworkTypeOK
<1>1. NInv => NetworkTypeOK
  BY DEF NInv
<1> QED
  BY <1>1, NInvHolds, PTL

(* However its server redirects it, a request goes over HTTPS, along a     *)
(* bounded chain, and to the local network only if that was asked for with *)
(* the opt-in (RequestsStayGuarded).                                       *)
THEOREM RequestsGuarded == NetworkSpec => []RequestsStayGuarded
<1>1. NInv => RequestsStayGuarded
  BY DEF NInv, Sound, Guarded, RequestsStayGuarded, Over, Requesting, Host, FtpPlaces, Codes
<1> QED
  BY <1>1, NInvHolds, PTL

(* A size that a call reports is its file's, or not known (SizeIsTrue).    *)
THEOREM SizeTrue == NetworkSpec => []SizeIsTrue
<1>1. NInv => SizeIsTrue
  BY DEF NInv, Sound, SizeIsTrue, Host
<1> QED
  BY <1>1, NInvHolds, PTL

(* The FTP dialogue acts on the answer to the command it just sent         *)
(* (RepliesArePaired).                                                     *)
THEOREM RepliesPaired == NetworkSpec => []RepliesArePaired
<1>1. NInv => RepliesArePaired
  BY DEF NInv, Sound, RepliesArePaired
<1> QED
  BY <1>1, NInvHolds, PTL

(* Without the opt-in a call works with no client pinned to a local        *)
(* address, whoever built it (ClientFitsTheCall).                          *)
THEOREM ClientFits == NetworkSpec => []ClientFitsTheCall
<1>1. NInv => ClientFitsTheCall
  BY DEF NInv, Sound, ClientFitsTheCall
<1> QED
  BY <1>1, NInvHolds, PTL
=============================================================================
