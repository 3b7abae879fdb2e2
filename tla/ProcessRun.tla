----------------------------- MODULE ProcessRun -----------------------------
(***************************************************************************)
(* One program started by the manager, from the request to the result      *)
(* (src/src/process.rs): the policy check, the spawn with its retries, the  *)
(* output reader, the wait with its deadline, the kill of the session, the  *)
(* bounded join, and the detached start that only reaps.                    *)
(* The two output pipes behave alike; one stands for both.                  *)
(***************************************************************************)
EXTENDS Naturals

CONSTANTS
    BusyAttempts,   \* how often a busy executable is tried again (50 in the code)
    MaxOutput       \* the output bound, in chunks

ASSUME ProcessAssumption == BusyAttempts \in Nat /\ MaxOutput \in Nat \ {0}

VARIABLES
    pc,         \* where the runner is
    detached,   \* start_detached, or run
    child,      \* the child as the kernel sees it
    helper,     \* a process the child started: in its session or in its own
    attempts,   \* spawns that met a busy executable
    written,    \* chunks the child and its helper wrote to the pipe
    taken,      \* chunks the reader took from it
    reader,     \* the reader thread
    status,     \* the exit status the wait saw
    result      \* what run returns

procVars == <<pc, detached, child, helper, attempts, written, taken, reader, status, result>>

NoResult == [refused |-> FALSE, timedOut |-> FALSE, code |-> 0, out |-> 0]

Results == [refused : BOOLEAN, timedOut : BOOLEAN, code : 0..2, out : 0..MaxOutput + 1]

ProcessTypeOK ==
    /\ pc \in {"idle", "spawn", "readers", "wait", "kill", "lost", "join", "reap", "done"}
    /\ detached \in BOOLEAN
    /\ child \in {"none", "running", "exited", "reaped", "stolen"}
    /\ helper \in {"none", "session", "own", "gone"}
    /\ attempts \in 0..BusyAttempts
    /\ written \in 0..MaxOutput + 1 /\ taken \in 0..written
    /\ reader \in {"none", "reading", "reaping", "parked", "ended"}
    /\ status \in {"none", "ok", "failed"}
    /\ result \in Results

ProcessInit ==
    /\ pc = "idle" /\ detached = FALSE
    /\ child = "none" /\ helper = "none"
    /\ attempts = 0 /\ written = 0 /\ taken = 0
    /\ reader = "none" /\ status = "none"
    /\ result = NoResult

(* A request reaches the runner; the previous child, if any, is forgotten. *)
Request(d) ==
    /\ pc \in {"idle", "done"}
    /\ pc' = "spawn" /\ detached' = d
    /\ child' = "none" /\ helper' = "none"
    /\ attempts' = 0 /\ written' = 0 /\ taken' = 0
    /\ reader' = "none" /\ status' = "none"
    /\ result' = NoResult

(* The policy refuses the program, its name is empty, or it cannot be      *)
(* started: nothing runs. The exit code keeps its default.                 *)
SpawnRefused ==
    /\ pc = "spawn"
    /\ pc' = "done"
    /\ result' = [result EXCEPT !.refused = TRUE]
    /\ UNCHANGED <<detached, child, helper, attempts, written, taken, reader, status>>

(* The executable is busy (it was just written): try again, a bounded time. *)
SpawnBusy ==
    /\ pc = "spawn" /\ attempts < BusyAttempts
    /\ attempts' = attempts + 1
    /\ UNCHANGED <<pc, detached, child, helper, written, taken, reader, status, result>>

(* The child leads a session of its own. *)
Spawned ==
    /\ pc = "spawn"
    /\ child' = "running"
    /\ pc' = IF detached THEN "reap" ELSE "readers"
    /\ UNCHANGED <<detached, helper, attempts, written, taken, reader, status, result>>

-----------------------------------------------------------------------------
(* The child and what it starts. *)

SessionAlive == child = "running" \/ helper = "session"

Writers == child = "running" \/ helper \in {"session", "own"}

ChildForks(session) ==
    /\ child = "running" /\ helper = "none" /\ ~detached
    /\ helper' = IF session THEN "session" ELSE "own"
    /\ UNCHANGED <<pc, detached, child, attempts, written, taken, reader, status, result>>

ChildWrites ==
    /\ Writers /\ ~detached
    /\ written <= MaxOutput /\ written' = written + 1
    /\ UNCHANGED <<pc, detached, child, helper, attempts, taken, reader, status, result>>

ChildExits ==
    /\ child = "running"
    /\ child' = "exited"
    /\ status' \in {"ok", "failed"}
    /\ UNCHANGED <<pc, detached, helper, attempts, written, taken, reader, result>>

HelperExits ==
    /\ helper \in {"session", "own"}
    /\ helper' = "gone"
    /\ UNCHANGED <<pc, detached, child, attempts, written, taken, reader, status, result>>

(* Another part of the process reaps the child before the runner asks. *)
ReapedElsewhere ==
    /\ child = "exited" /\ pc = "wait"
    /\ child' = "stolen"
    /\ UNCHANGED <<pc, detached, helper, attempts, written, taken, reader, status, result>>

-----------------------------------------------------------------------------
(* The runner. *)

StartReaders ==
    /\ pc = "readers"
    /\ reader' = "reading" /\ pc' = "wait"
    /\ UNCHANGED <<detached, child, helper, attempts, written, taken, status, result>>

(* Mutant: only the child is killed. *)
KillChildOnly ==
    /\ child' = "reaped"
    /\ UNCHANGED helper

(* Kill the group the child leads, then the child, and wait for it. *)
KillSession ==
    /\ child' = "reaped"
    /\ helper' = IF helper = "session" THEN "gone" ELSE helper

(* No thread can be made to read the output: the child is stopped. *)
AbandonChild ==
    /\ pc = "readers"
    /\ KillSession
    /\ result' = [result EXCEPT !.refused = TRUE, !.code = 1]
    /\ pc' = "done"
    /\ UNCHANGED <<detached, attempts, written, taken, reader, status>>

(* The reader takes a chunk; past the bound it stops and closes the pipe.  *)
ReaderTakes ==
    /\ reader = "reading" /\ taken < written
    /\ taken' = taken + 1
    /\ reader' = IF taken' > MaxOutput THEN "ended" ELSE reader
    /\ UNCHANGED <<pc, detached, child, helper, attempts, written, status, result>>

(* The pipe is at its end: every process that held it is gone. *)
ReaderEnds ==
    /\ reader = "reading" /\ taken = written /\ ~Writers
    /\ reader' = "ended"
    /\ UNCHANGED <<pc, detached, child, helper, attempts, written, taken, status, result>>

(* A poll sees the exit. A poll that sees a running child, or that is      *)
(* interrupted, changes nothing and is asked again.                        *)
PollExited ==
    /\ pc = "wait" /\ child = "exited"
    /\ child' = "reaped" /\ pc' = "join"
    /\ UNCHANGED <<detached, helper, attempts, written, taken, reader, status, result>>

(* The deadline passes while the child runs. *)
Deadline ==
    /\ pc = "wait" /\ child = "running"
    /\ pc' = "kill"
    /\ UNCHANGED <<detached, child, helper, attempts, written, taken, reader, status, result>>

KillAtDeadline ==
    /\ pc = "kill"
    /\ KillSession
    /\ status' = "none"
    /\ result' = [result EXCEPT !.timedOut = TRUE]
    /\ pc' = "join"
    /\ UNCHANGED <<detached, attempts, written, taken, reader>>

(* The child cannot be watched. One that was reaped elsewhere is left      *)
(* alone: its number may belong to another process.                        *)
PollFails ==
    /\ pc = "wait"
    /\ IF child = "stolen"
       THEN UNCHANGED child
       ELSE child' = "reaped"
    /\ result' = [result EXCEPT !.refused = TRUE, !.code = 1]
    /\ pc' = "done"
    /\ UNCHANGED <<detached, helper, attempts, written, taken, reader, status>>

(* What the result says once the output is in hand: output past the bound  *)
(* is a failure, and a run without a status is one.                        *)
Concluded(out) ==
    [result EXCEPT
        !.out = out,
        !.code = IF out <= MaxOutput /\ status = "ok" THEN 0 ELSE 1]

JoinReader ==
    /\ pc = "join" /\ reader = "ended"
    /\ result' = Concluded(taken)
    /\ pc' = "done"
    /\ UNCHANGED <<detached, child, helper, attempts, written, taken, reader, status>>

(* Mutant: a reader that is still blocked is waited for. *)
JoinGraceNever == FALSE /\ UNCHANGED procVars

(* The grace is over and the reader is still blocked on a pipe that some   *)
(* process holds open: it is left there and nothing is taken from it. (A   *)
(* reader whose pipe has ended finishes within the two seconds.)           *)
JoinGrace ==
    /\ pc = "join" /\ reader = "reading" /\ Writers
    /\ result' = Concluded(0)
    /\ reader' = "parked" /\ pc' = "done"
    /\ UNCHANGED <<detached, child, helper, attempts, written, taken, status>>

-----------------------------------------------------------------------------
(* start_detached: the child is handed to a thread that only reaps it.     *)

DetachedStarted ==
    /\ pc = "reap" /\ reader = "none"
    /\ reader' = "reaping" /\ pc' = "done"
    /\ UNCHANGED <<detached, child, helper, attempts, written, taken, status, result>>

(* The thread cannot be made: the start is reported as failed. *)
DetachedUnreaped ==
    /\ pc = "reap" /\ reader = "none"
    /\ result' = [result EXCEPT !.refused = TRUE]
    /\ pc' = "done"
    /\ UNCHANGED <<detached, child, helper, attempts, written, taken, reader, status>>

DetachedReaps ==
    /\ detached /\ child = "exited" /\ reader = "reaping"
    /\ child' = "reaped" /\ reader' = "ended"
    /\ UNCHANGED <<pc, detached, helper, attempts, written, taken, status, result>>

-----------------------------------------------------------------------------
RunnerStep ==
    \/ SpawnRefused \/ SpawnBusy \/ Spawned
    \/ StartReaders \/ AbandonChild
    \/ PollExited \/ Deadline \/ KillAtDeadline \/ PollFails
    \/ JoinReader \/ JoinGrace
    \/ DetachedStarted \/ DetachedUnreaped

ReaderStep == ReaderTakes \/ ReaderEnds \/ DetachedReaps

ChildStep ==
    \/ \E session \in BOOLEAN : ChildForks(session)
    \/ ChildWrites \/ ChildExits \/ HelperExits \/ ReapedElsewhere

ProcessStep == RunnerStep \/ ReaderStep \/ ChildStep

-----------------------------------------------------------------------------
(* A run that returned has no child left to reap and, unless the watch     *)
(* itself failed, no process of a run it stopped: what shares the session  *)
(* of a child killed at its deadline is gone with it                       *)
(* (process.rs:500, kill_process_group at 436).                            *)
StoppedRunsAreGone ==
    (pc = "done" /\ ~detached) =>
        /\ child \in {"none", "reaped", "stolen"}
        /\ result.timedOut => ~SessionAlive

(* Every run returns: a helper that keeps the pipe open, in whatever       *)
(* session, delays the answer by the grace and no more (process.rs:509).   *)
RunReturns == (pc = "spawn") ~> (pc = "done")

=============================================================================
