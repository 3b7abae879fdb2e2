------------------------------- MODULE FrontEnd -------------------------------
(***************************************************************************)
(* The window's state (flutter/lib/state/app_model.dart, with the drop     *)
(* rule of src/drop_queue.rs).  Operations wait in one lane, the status    *)
(* bar names one of them and its Cancel goes to that one.  An operation    *)
(* that has ended leaves the lane, and its caller sees the answer only     *)
(* when the task list has been read again: the user may act in between,    *)
(* and a later answer may be seen first.  The Inspect page has one path,   *)
(* one result on offer and a list of files that wait.                      *)
(***************************************************************************)
EXTENDS Naturals, Sequences

CONSTANTS
  File,        \* paths of AppImages
  MaxOps,      \* bound: operations asked for
  MaxWaiting,  \* bound: files that wait
  MaxCancels   \* bound: clicks on Cancel

ASSUME FrontEndAssumption == {MaxOps, MaxWaiting, MaxCancels} \subseteq Nat

VARIABLES
  ops,         \* the operations asked for, in order
  busy,        \* the operation the status bar names, 0 if none
  cancelled,   \* the operation the user last asked to cancel, 0 if none
  requests,    \* cancels on their way to the core
  note,        \* the status line: "cancelling" or any other
  path, offer, queue,  \* the Inspect page: path, inspection on offer, files that wait
  dialog,      \* a question about a file
  cancels,     \* counter of the bound
  late         \* history: a cancel for an operation that had left the lane

vars == <<ops, busy, cancelled, requests, note, path, offer, queue, dialog, cancels, late>>

NoFile == "none"
NoDialog == [asks |-> "nothing", path |-> NoFile]

Init ==
  /\ ops = <<>> /\ busy = 0 /\ cancelled = 0 /\ requests = {} /\ note = "other"
  /\ path = NoFile /\ offer = 0 /\ queue = <<>> /\ dialog = NoDialog
  /\ cancels = 0 /\ late = FALSE

At(i, place) == i \in DOMAIN ops /\ ops[i].at = place
Goes(i, place) == ops' = [ops EXCEPT ![i].at = place]
Answered(i, answer) == ops[i].answer = answer
Newest == Len(ops) + 1
Page == UNCHANGED <<path, offer, queue, dialog>>
Cancels == UNCHANGED <<cancelled, requests, cancels, late>>

\* An operation is in the lane from when it is asked for until it has ended.
InLane(i) == ops[i].at \in {"waits", "runs", "ended"}

-----------------------------------------------------------------------------
(* Operations. *)

(* `_operation`: the newest takes the status bar and joins the lane.       *)
Ask(kind, file) ==
  /\ Len(ops) < MaxOps
  /\ ops' = Append(ops, [kind |-> kind, path |-> file, at |-> "waits", cut |-> FALSE,
                         answer |-> "none"])
  /\ busy' = Newest

(* `_serial`: one at a time, in the order asked, whether the one before    *)
(* succeeded or not.                                                       *)
FirstInLane(i) == \A j \in 1..(i - 1) : ~InLane(j)

(* The core's side: it lists the operation, which can be cancelled then.   *)
Runs(i) ==
  /\ At(i, "waits") /\ FirstInLane(i) /\ Goes(i, "runs")
  /\ UNCHANGED <<busy, note>> /\ Page /\ Cancels

(* It ends well, refused, or with a question: unsafe fallback, conflict or *)
(* running app.  A cancel that came in time is answered by an error.       *)
Answers(i) ==
  /\ At(i, "runs")
  /\ \E answer \in (IF ops[i].cut THEN {"refused"} ELSE {"whole", "refused", "asks"}) :
       ops' = [ops EXCEPT ![i].at = "ended", ![i].answer = answer]
  /\ requests' = requests \ {i}   \* one that comes later finds nothing
  /\ UNCHANGED <<busy, note, cancelled, cancels, late>> /\ Page

(* Mutant: whatever ends clears the status bar.                            *)
ClearedBy(i) == 0

BusyAfter(i) == IF busy = i THEN 0 ELSE busy

(* Mutant: the note stays for the caller to replace.                       *)
NoteKept(i) == note

NoteAfter(i) == IF cancelled = i /\ note = "cancelling" THEN "other" ELSE note

(* The end of `_operation`, in one turn of the event loop: the lane moves  *)
(* on, the status bar is cleared if it names this one, and the note of its *)
(* cancel goes.                                                            *)
Settles(i) ==
  /\ At(i, "ended") /\ Goes(i, "settled")
  /\ busy' = BusyAfter(i) /\ note' = NoteAfter(i)
  /\ Page /\ Cancels

\* A cancel on its way to the core, when there is something left to stop.
Request(i) ==
  requests' = IF ops[i].at \in {"waits", "runs"} THEN requests \cup {i} ELSE requests

(* `cancelBusy`: the status bar's Cancel.                                  *)
CancelBusy ==
  /\ busy # 0 /\ cancels < MaxCancels /\ cancels' = cancels + 1
  /\ cancelled' = busy /\ Request(busy) /\ note' = "cancelling"
  /\ UNCHANGED <<ops, busy, late>> /\ Page

(* `cancelTaskById`: a row's Cancel.  A row is shown from when the core    *)
(* lists the task until the list is read after its end, `refreshTasks`.    *)
CancelTask(i) ==
  /\ ops[i].at \in {"runs", "ended", "settled"} /\ cancels < MaxCancels /\ cancels' = cancels + 1
  /\ cancelled' = i /\ Request(i) /\ late' = (late \/ ~InLane(i))
  /\ UNCHANGED <<ops, busy, note>> /\ Page

(* The core refuses to cancel what does not run yet.                       *)
CancelArrives(i) ==
  /\ i \in requests /\ requests' = requests \ {i}
  /\ ops' = [ops EXCEPT ![i].cut = @ \/ At(i, "runs")]
  /\ UNCHANGED <<busy, note, cancelled, cancels, late>> /\ Page

-----------------------------------------------------------------------------
(* The Inspect page. *)

StartInspect(file) == path' = file /\ offer' = 0 /\ Ask("inspect", file)

(* `openPaths`: files chosen, or given on the command line.  They take the *)
(* place of those that wait.                                               *)
OpenPaths ==
  /\ \E first \in File, rest \in {<<>>} \cup {<<f>> : f \in File} :
       Len(rest) <= MaxWaiting /\ queue' = rest /\ StartInspect(first)
  /\ UNCHANGED <<note, dialog>> /\ Cancels

(* `setInspectPath`: text typed into the path field, which a narrow window *)
(* shows beside a result too.  The result stays on offer.                  *)
TypePath ==
  /\ \E text \in File \cup {NoFile} : path' = text
  /\ UNCHANGED <<ops, busy, note, offer, queue, dialog>> /\ Cancels

(* `inspectFromInput`.                                                     *)
InspectFromInput ==
  /\ path # NoFile /\ StartInspect(path)
  /\ UNCHANGED <<note, queue, dialog>> /\ Cancels

(* `plan_drop`.                                                            *)
PlanDrop(incoming) ==
  IF busy # 0 \/ offer # 0 THEN [start |-> <<>>, queue |-> queue \o incoming]
  ELSE [start |-> <<Head(incoming)>>, queue |-> queue \o Tail(incoming)]

(* `dropFiles`.                                                            *)
DropFiles ==
  /\ \E incoming \in {<<f>> : f \in File} \cup {<<f, g>> : f, g \in File} :
       LET plan == PlanDrop(incoming)
       IN  /\ Len(plan.queue) <= MaxWaiting /\ queue' = plan.queue
           /\ IF plan.start # <<>> THEN StartInspect(plan.start[1])
              ELSE UNCHANGED <<ops, busy, path, offer>>
  /\ UNCHANGED <<note, dialog>> /\ Cancels

(* `clearInspect`: the page's Cancel.                                      *)
ClearInspect ==
  /\ offer # 0 /\ offer' = 0 /\ path' = NoFile
  /\ UNCHANGED <<ops, busy, note, queue, dialog>> /\ Cancels

(* `integrateFromInspect` takes the path in the field, which need not be   *)
(* that of the file whose result shows.                                    *)
IntegrateFromInspect ==
  /\ offer # 0 /\ path # NoFile /\ Ask("integrate", path)
  /\ UNCHANGED <<note, path, offer, queue, dialog>> /\ Cancels

(* An update, a check, a removal, an adoption or a refresh.                *)
OtherOperation ==
  /\ Ask("other", NoFile)
  /\ UNCHANGED note /\ Page /\ Cancels

(* The answer to a question is an operation on the file it was about.      *)
Confirm ==
  /\ dialog.asks # "nothing" /\ dialog' = NoDialog
  /\ IF dialog.asks = "run" THEN StartInspect(dialog.path)
     ELSE /\ Ask(IF dialog.asks = "force" THEN "other" ELSE "integrate", dialog.path)
          /\ UNCHANGED <<path, offer>>
  /\ UNCHANGED <<note, queue>> /\ Cancels

Dismiss ==
  /\ dialog.asks # "nothing" /\ dialog' = NoDialog
  /\ UNCHANGED <<ops, busy, note, path, offer, queue>> /\ Cancels

-----------------------------------------------------------------------------
(* An operation's caller sees its answer. *)

(* The run that the user last asked to stop shows its error.               *)
Stopped(i) == cancelled = i

(* Mutant: only a run that was stopped is refused.                         *)
OfferedUnlessStopped(i) == ~Stopped(i)

(* A question comes with what could be read safely.                        *)
Offered(i) == ~Stopped(i) /\ ops[i].answer \in {"whole", "asks"}

(* `startInspect`, the rest of it.                                         *)
SeesInspection(i) ==
  /\ At(i, "settled") /\ ops[i].kind = "inspect" /\ Goes(i, "seen")
  /\ offer' = IF Offered(i) THEN i ELSE 0
  /\ note' = IF Stopped(i) THEN "other" ELSE note
  /\ dialog' = IF Answered(i, "asks") /\ ~Stopped(i)
               THEN [asks |-> "run", path |-> ops[i].path] ELSE dialog
  /\ UNCHANGED <<busy, path, queue>> /\ Cancels

(* `_integrate`, the rest of it: after a success the page is emptied and   *)
(* the library read, and then the next file that waits is inspected.       *)
SeesIntegration(i) ==
  /\ At(i, "settled") /\ ops[i].kind = "integrate"
  /\ IF Answered(i, "whole")
     THEN Goes(i, "reloads") /\ path' = NoFile /\ offer' = 0
     ELSE Goes(i, "seen") /\ UNCHANGED <<path, offer>>
  /\ note' = IF Answered(i, "asks") THEN note ELSE "other"
  /\ dialog' = IF Answered(i, "asks")
               THEN [asks |-> "conflict", path |-> ops[i].path] ELSE dialog
  /\ UNCHANGED <<busy, queue>> /\ Cancels

TakeNextQueued(i) ==
  /\ At(i, "reloads")
  /\ IF queue = <<>> THEN Goes(i, "seen") /\ UNCHANGED <<busy, path, offer, queue>>
     ELSE /\ Len(ops) < MaxOps
          /\ ops' = Append([ops EXCEPT ![i].at = "seen"],
                      [kind |-> "inspect", path |-> Head(queue), at |-> "waits", cut |-> FALSE,
                       answer |-> "none"])
          /\ busy' = Newest /\ path' = Head(queue) /\ offer' = 0 /\ queue' = Tail(queue)
  /\ UNCHANGED <<note, dialog>> /\ Cancels

(* The others set the status line, or ask about a running app.             *)
SeesOther(i) ==
  /\ At(i, "settled") /\ ops[i].kind = "other" /\ Goes(i, "seen")
  /\ note' = IF Answered(i, "asks") THEN note ELSE "other"
  /\ dialog' = IF Answered(i, "asks") THEN [asks |-> "force", path |-> NoFile] ELSE dialog
  /\ UNCHANGED <<busy, path, offer, queue>> /\ Cancels

Sees(i) == SeesInspection(i) \/ SeesIntegration(i) \/ TakeNextQueued(i) \/ SeesOther(i)

User ==
  \/ OpenPaths \/ TypePath \/ InspectFromInput \/ DropFiles \/ ClearInspect \/ IntegrateFromInspect
  \/ OtherOperation \/ Confirm \/ Dismiss \/ CancelBusy \/ \E i \in DOMAIN ops : CancelTask(i)

Works(i) == Runs(i) \/ Answers(i) \/ Settles(i) \/ Sees(i)

Next ==
  \/ User
  \/ \E i \in requests : CancelArrives(i)
  \/ \E i \in DOMAIN ops : Works(i)

Spec == Init /\ [][Next]_vars

-----------------------------------------------------------------------------
(* Properties. *)

TypeOK ==
  /\ ops \in Seq([kind : {"inspect", "integrate", "other"}, path : File \cup {NoFile},
                   at : {"waits", "runs", "ended", "settled", "reloads", "seen"},
                   cut : BOOLEAN, answer : {"none", "whole", "refused", "asks"}])
  /\ busy \in 0..Len(ops) /\ cancelled \in 0..Len(ops) /\ offer \in 0..Len(ops)
  /\ requests \subseteq DOMAIN ops
  /\ path \in File \cup {NoFile} /\ queue \in Seq(File)
  /\ dialog \in [asks : {"nothing", "run", "conflict", "force"}, path : File \cup {NoFile}]
  /\ note \in {"cancelling", "other"} /\ late \in BOOLEAN /\ cancels \in 0..MaxCancels

\* As long as anything waits or runs, the status bar names one of these, so
\* that its Cancel has something to stop, and nothing else: when one of several
\* ends, another keeps the bar (app_model.dart:519, 525).  Which one it names
\* is no part of this: the comment at 167-169 says the one in progress, and the
\* code takes the newest asked for.
BusyIsLive ==
  LET lane == {i \in DOMAIN ops : InLane(i)}
  IN  IF lane = {} THEN busy = 0 ELSE busy \in lane

\* Nothing is on offer but what an inspection that was not cut short has
\* read, in whatever order answers come and whichever run was cancelled last.
OfferIsWhole ==
  offer # 0 => ~ops[offer].cut /\ ops[offer].answer \in {"whole", "asks"}

\* Once every operation has been seen, "Cancelling" is gone, unless a row that
\* was out of date was cancelled.
NoteGoes ==
  note = "cancelling" /\ (\A i \in DOMAIN ops : At(i, "seen")) => late

=============================================================================
