----------------------------- MODULE Operations -----------------------------
(***************************************************************************)
(* The operations of the bridge and the tasks the GUI lists for them.      *)
(* Every operation runs on a worker thread of its own: `OperationGuard`    *)
(* records a task in the TaskQueue and then registers the operation under  *)
(* its id, so that `cancel_operation`, on another thread, can reach its    *)
(* cancel flag.  Two mutexes protect the two tables.  They are taken one   *)
(* after the other, except by `complete`, which holds the registry's while *)
(* it takes the queue's.                                                   *)
(*                                                                         *)
(* The history is a VecDeque in the order of its task numbers, so it is a  *)
(* function on the set of the numbers it still lists.  Operation ids are   *)
(* used once, as the front end's are.                                      *)
(***************************************************************************)
EXTENDS Integers, FiniteSets

CONSTANTS
  Op,             \* operation ids (bounds the number of operations)
  NoOp,           \* no operation
  MaxHistory,     \* MAX_TASK_HISTORY
  MaxConcurrent,  \* bound on operations in flight, the bridge's worker threads
  MaxProgress     \* progress runs over 0..MaxProgress

ASSUME OperationsAssumption ==
  /\ IsFiniteSet(Op) /\ NoOp \notin Op
  /\ MaxHistory \in Nat /\ MaxConcurrent \in Nat /\ MaxProgress \in Nat

VARIABLES
  tasks,      \* the history: task number -> [state, progress]
  nextId,     \* number of the next task
  registry,   \* the registered operations: op -> its task number
  registryBy, \* who holds the registry's mutex across a step: an op, or NoOp
  worker,     \* op -> where its worker is
  taskOf,     \* op -> number of its task, 0 before it has one
  flag,       \* op -> its cancel flag
  outcomeOf,  \* op -> outcome and cancelled as `complete` passes them on
  marking     \* tasks whose flag is set and whose mark_cancelling is to come

vars == <<tasks, nextId, registry, registryBy, worker, taskOf, flag, outcomeOf, marking>>

InFlight == {"Running", "Cancelling"}
Terminal == {"Succeeded", "Failed", "Cancelled"}
Task     == [state : InFlight \cup Terminal, progress : 0..MaxProgress]
Result   == [ok : BOOLEAN, cancelled : BOOLEAN]
Phase    == {"new", "recorded", "working", "finishing", "done"}

Live(o)  == worker[o] \in {"recorded", "working", "finishing"}
Only(f, S) == [i \in S |-> f[i]]

Init ==
  /\ tasks = [i \in {} |-> 0] /\ nextId = 1
  /\ registry = [o \in {} |-> 0] /\ registryBy = NoOp
  /\ worker = [o \in Op |-> "new"]
  /\ taskOf = [o \in Op |-> 0]
  /\ flag = [o \in Op |-> FALSE]
  /\ outcomeOf = [o \in Op |-> [ok |-> FALSE, cancelled |-> FALSE]]
  /\ marking = {}

-----------------------------------------------------------------------------
(* The task queue.                                                         *)

(* Mutant: any task may be dropped.                                        *)
AnyEvicted(h) ==
  {i \in DOMAIN h :
     Cardinality({j \in DOMAIN h : j < i}) < Cardinality(DOMAIN h) - MaxHistory}

(* `push`: while the history is too long, drop the oldest task that is     *)
(* neither running nor queued.                                             *)
Evicted(h) ==
  LET removable == {i \in DOMAIN h : h[i].state # "Running"}
  IN  {i \in removable :
         Cardinality({j \in removable : j < i}) < Cardinality(DOMAIN h) - MaxHistory}

Pushed(h, id) ==
  LET all == [i \in DOMAIN h \cup {id} |->
                IF i = id THEN [state |-> "Running", progress |-> 0] ELSE h[i]]
  IN  Only(all, DOMAIN all \ Evicted(all))

MarkedCancelling(h, id) ==
  IF id \in DOMAIN h /\ h[id].state = "Running"
    THEN [h EXCEPT ![id].state = "Cancelling"]
    ELSE h

(* Mutant: only a running task is finished.                                *)
FinishedIfRunning(h, id, r) ==
  IF id \notin DOMAIN h \/ h[id].state # "Running" THEN h
  ELSE [h EXCEPT ![id].state = IF r.ok THEN "Succeeded" ELSE "Failed"]

Finished(h, id, r) ==
  IF id \notin DOMAIN h THEN h
  ELSE IF r.ok THEN [h EXCEPT ![id] = [state |-> "Succeeded", progress |-> MaxProgress]]
  ELSE [h EXCEPT ![id].state = IF r.cancelled THEN "Cancelled" ELSE "Failed"]

-----------------------------------------------------------------------------
(* The worker thread of operation o.                                       *)

(* `OperationGuard::begin`, its first half: `TaskQueue::begin`.            *)
Record(o) ==
  /\ worker[o] = "new"
  /\ Cardinality({p \in Op : Live(p)}) < MaxConcurrent
  /\ worker' = [worker EXCEPT ![o] = "recorded"]
  /\ taskOf' = [taskOf EXCEPT ![o] = nextId]
  /\ tasks' = Pushed(tasks, nextId)
  /\ nextId' = nextId + 1
  /\ UNCHANGED <<registry, registryBy, flag, outcomeOf, marking>>

(* `OperationGuard::begin`, its second half: the insert into the registry. *)
Register(o) ==
  /\ worker[o] = "recorded" /\ registryBy = NoOp
  /\ worker' = [worker EXCEPT ![o] = "working"]
  /\ registry' = [p \in DOMAIN registry \cup {o} |-> IF p = o THEN taskOf[o] ELSE registry[p]]
  /\ UNCHANGED <<tasks, nextId, registryBy, taskOf, flag, outcomeOf, marking>>

(* `progress` and `phase`: dropped unless the task is running.             *)
Report(o) ==
  /\ worker[o] = "working" /\ registryBy = NoOp
  /\ o \in DOMAIN registry /\ registry[o] \in DOMAIN tasks
  /\ tasks[registry[o]].state = "Running"
  /\ \E p \in 0..MaxProgress : tasks' = [tasks EXCEPT ![registry[o]].progress = p]
  /\ UNCHANGED <<nextId, registry, registryBy, worker, taskOf, flag, outcomeOf, marking>>

(* Mutant: the flag is read before the operation is taken out of the       *)
(* registry, and without holding its mutex.                                *)
CompleteReadsFirst(o) ==
  /\ worker[o] = "working" /\ registryBy = NoOp
  /\ worker' = [worker EXCEPT ![o] = "finishing"]
  /\ \E ok \in BOOLEAN : outcomeOf' = [outcomeOf EXCEPT ![o] = [ok |-> ok, cancelled |-> flag[o]]]
  /\ UNCHANGED <<tasks, nextId, registry, registryBy, taskOf, flag, marking>>

(* `complete`, from `finish` or, after a panic, from `drop`: the operation *)
(* leaves the registry and its flag is read; the mutex is kept.            *)
Complete(o) ==
  /\ worker[o] = "working" /\ registryBy = NoOp
  /\ worker' = [worker EXCEPT ![o] = "finishing"]
  /\ registryBy' = o
  /\ registry' = Only(registry, DOMAIN registry \ {o})
  /\ \E ok \in BOOLEAN : outcomeOf' = [outcomeOf EXCEPT ![o] = [ok |-> ok, cancelled |-> flag[o]]]
  /\ UNCHANGED <<tasks, nextId, taskOf, flag, marking>>

Settle(o) ==
  /\ worker[o] = "finishing"
  /\ worker' = [worker EXCEPT ![o] = "done"]
  /\ tasks' = Finished(tasks, taskOf[o], outcomeOf[o])
  /\ registryBy' = NoOp
  /\ UNCHANGED <<nextId, registry, taskOf, flag, outcomeOf, marking>>

-----------------------------------------------------------------------------
(* The user: `cancel_operation` finds the operation by its id or by the    *)
(* task's, sets the flag under the registry's mutex, and marks the task    *)
(* after it has released it.                                               *)

Cancel(o) ==
  /\ registryBy = NoOp /\ o \in DOMAIN registry
  /\ flag' = [flag EXCEPT ![o] = TRUE]
  /\ marking' = marking \cup {registry[o]}
  /\ UNCHANGED <<tasks, nextId, registry, registryBy, worker, taskOf, outcomeOf>>

Mark(t) ==
  /\ t \in marking
  /\ tasks' = MarkedCancelling(tasks, t)
  /\ marking' = marking \ {t}
  /\ UNCHANGED <<nextId, registry, registryBy, worker, taskOf, flag, outcomeOf>>

(* `clear_finished`, from the Tasks page.                                  *)
ClearFinished ==
  /\ \E i \in DOMAIN tasks : tasks[i].state \in Terminal
  /\ tasks' = Only(tasks, {i \in DOMAIN tasks : tasks[i].state \in InFlight})
  /\ UNCHANGED <<nextId, registry, registryBy, worker, taskOf, flag, outcomeOf, marking>>

Next ==
  \/ \E o \in Op : Record(o) \/ Register(o) \/ Report(o) \/ Complete(o) \/ Settle(o) \/ Cancel(o)
  \/ \E t \in marking : Mark(t)
  \/ ClearFinished

Spec == Init /\ [][Next]_vars

(* A cancelled operation stops: the core polls its flag, and the threads   *)
(* that hold a mutex or are about to mark a task are scheduled.  Nothing   *)
(* is assumed of an operation nobody cancels.                              *)
FairSpec ==
  /\ Spec
  /\ \A o \in Op : /\ WF_vars(Register(o))
                   /\ SF_vars(flag[o] /\ Complete(o))
                   /\ WF_vars(Settle(o))
  /\ WF_vars(\E t \in marking : Mark(t))

-----------------------------------------------------------------------------
(* Properties.                                                             *)

(* Tables and threads have their types; task numbers are never reused.     *)
TypeOK ==
  /\ nextId \in Nat \ {0}
  /\ DOMAIN tasks \subseteq 1..(nextId - 1)
  /\ tasks \in [DOMAIN tasks -> Task]
  /\ DOMAIN registry \subseteq Op
  /\ registry \in [DOMAIN registry -> 1..(nextId - 1)]
  /\ registryBy \in Op \cup {NoOp}
  /\ worker \in [Op -> Phase]
  /\ taskOf \in [Op -> 0..(nextId - 1)]
  /\ flag \in [Op -> BOOLEAN]
  /\ outcomeOf \in [Op -> Result]
  /\ marking \subseteq 1..(nextId - 1)

(* The task of an operation that nobody cancelled stays listed as running  *)
(* from its beginning to its end, however many tasks come and go: neither  *)
(* `push` nor `clear_finished` drops it.                                   *)
RunningIsListed ==
  \A o \in Op : (Live(o) /\ ~flag[o]) =>
    taskOf[o] \in DOMAIN tasks /\ tasks[taskOf[o]].state = "Running"

(* A cancel that was accepted (`cancel_operation` returned true) is not    *)
(* reported as a failure, even when it arrives while the operation ends;   *)
(* and no operation ends as cancelled that nobody cancelled.               *)
CancelIsHonoured ==
  \A o \in Op : (worker[o] = "done" /\ taskOf[o] \in DOMAIN tasks) =>
    tasks[taskOf[o]].state \in
      (IF flag[o] THEN {"Succeeded", "Cancelled"} ELSE {"Succeeded", "Failed"})

(* An accepted cancel ends: the operation is over and its task is not left *)
(* as cancelling.                                                          *)
CancelSettles ==
  \A o \in Op : flag[o] ~>
    /\ worker[o] = "done"
    /\ taskOf[o] \in DOMAIN tasks => tasks[taskOf[o]].state \in Terminal
=============================================================================
