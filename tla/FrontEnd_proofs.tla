--------------------------- MODULE FrontEnd_proofs ---------------------------
(* Proofs about FrontEnd, for every set of files and every bound.          *)
EXTENDS FrontEnd, TLAPS

(***************************************************************************)
(* The inductive invariant.                                                *)
(***************************************************************************)

(* The lane is served in order: what runs has nothing before it.           *)
LaneInOrder == \A i \in DOMAIN ops : ops[i].at \in {"runs", "ended"} => FirstInLane(i)

(* The status bar's operation is the newest of those in the lane.          *)
BusyIsNewest ==
  /\ busy # 0 => InLane(busy)
  /\ \A i \in DOMAIN ops : InLane(i) => i <= busy

(* A cancel that came in time has been answered by an error.               *)
CutIsRefused ==
  \A i \in DOMAIN ops : ops[i].cut /\ ops[i].at \notin {"waits", "runs"}
                          => ops[i].answer = "refused"

(* What is on offer has been seen, and was read to its end.                *)
OfferWasSeen ==
  offer # 0 => /\ ops[offer].at = "seen" /\ ~ops[offer].cut
               /\ ops[offer].answer \in {"whole", "asks"}

(* "Cancelling" is about an operation that has not settled: it clears the  *)
(* note when it does.                                                      *)
NoteIsOfLane == note = "cancelling" /\ ~late => cancelled # 0 /\ InLane(cancelled)

IInv ==
  /\ TypeOK /\ LaneInOrder /\ BusyIsNewest /\ CutIsRefused /\ OfferWasSeen /\ NoteIsOfLane

-----------------------------------------------------------------------------
(* What the actions do to the list of operations.                          *)

Operation ==
  [kind : {"inspect", "integrate", "other"}, path : File \cup {NoFile},
   at : {"waits", "runs", "ended", "settled", "reloads", "seen"},
   cut : BOOLEAN, answer : {"none", "whole", "refused", "asks"}]

(* All but `i` stay as they are.                                           *)
Touches(i) ==
  /\ ops' \in Seq(Operation) /\ Len(ops') = Len(ops) /\ DOMAIN ops' = DOMAIN ops
  /\ \A j \in DOMAIN ops \ {i} : ops'[j] = ops[j]

(* Operations that have left the lane may move on; nothing else changes.   *)
Kept(j) ==
  /\ ops'[j].cut = ops[j].cut /\ ops'[j].answer = ops[j].answer
  /\ \/ ops'[j].at = ops[j].at
     \/ ops[j].at \in {"settled", "reloads"} /\ ops'[j].at \in {"reloads", "seen"}

(* A new one waits, after all the others.                                  *)
Grows ==
  /\ ops' \in Seq(Operation) /\ Len(ops') = Newest /\ busy' = Newest
  /\ \A j \in DOMAIN ops : Kept(j)
  /\ ops'[Newest].at = "waits" /\ ~ops'[Newest].cut

LEMMA OpsType ==
  TypeOK => ops \in Seq(Operation) /\ Len(ops) \in Nat /\ DOMAIN ops = 1..Len(ops)
  BY DEF TypeOK, Operation

LEMMA GoesTouches ==
  ASSUME TypeOK, NEW i \in DOMAIN ops, NEW place \in {"runs", "settled", "reloads", "seen"},
         Goes(i, place)
  PROVE  /\ Touches(i)
         /\ ops'[i].at = place /\ ops'[i].cut = ops[i].cut /\ ops'[i].answer = ops[i].answer
         /\ ops'[i].kind = ops[i].kind
<1>0. ops \in Seq(Operation) /\ Len(ops) \in Nat /\ DOMAIN ops = 1..Len(ops)
  BY OpsType
<1> DEFINE r == [ops[i] EXCEPT !.at = place]
<1>1. ops[i] \in Operation
  BY <1>0
<1>2. /\ r \in Operation /\ r.at = place /\ r.cut = ops[i].cut /\ r.answer = ops[i].answer
      /\ r.kind = ops[i].kind
  BY <1>1 DEF Operation
<1>3. ops' = [ops EXCEPT ![i] = r]
  BY DEF Goes
<1> HIDE DEF r
<1> QED
  BY <1>0, <1>2, <1>3 DEF Touches

LEMMA AskGrows ==
  ASSUME TypeOK, NEW kind \in {"inspect", "integrate", "other"}, NEW file \in File \cup {NoFile},
         Ask(kind, file)
  PROVE  Grows
<1>0. ops \in Seq(Operation) /\ Len(ops) \in Nat /\ DOMAIN ops = 1..Len(ops)
  BY OpsType
<1> DEFINE r == [kind |-> kind, path |-> file, at |-> "waits", cut |-> FALSE, answer |-> "none"]
<1>1. r \in Operation /\ r.at = "waits" /\ r.cut = FALSE
  BY DEF Operation
<1>2. ops' = Append(ops, r) /\ busy' = Newest
  BY DEF Ask
<1> HIDE DEF r
<1> QED
  BY <1>0, <1>1, <1>2 DEF Grows, Kept, Newest

-----------------------------------------------------------------------------
(* How the parts of the invariant carry over.                              *)

LEMMA LaneShrinks ==
  ASSUME IInv, DOMAIN ops' = DOMAIN ops, \A j \in DOMAIN ops : InLane(j)' => InLane(j),
         \A j \in DOMAIN ops : ops'[j].at \in {"runs", "ended"} => ops[j].at \in {"runs", "ended"}
  PROVE  LaneInOrder'
<1> SUFFICES ASSUME NEW i \in DOMAIN ops, ops'[i].at \in {"runs", "ended"}, NEW j \in 1..(i - 1)
             PROVE  ~InLane(j)'
  BY DEF LaneInOrder, FirstInLane
<1>1. j \in DOMAIN ops
  BY OpsType DEF IInv
<1> QED
  BY <1>1 DEF IInv, LaneInOrder, FirstInLane

LEMMA OfferKept ==
  ASSUME OfferWasSeen, TypeOK, \A j \in DOMAIN ops : Kept(j), offer' \in {0, offer}
  PROVE  OfferWasSeen'
<1>1. offer # 0 => offer \in DOMAIN ops
  BY OpsType DEF TypeOK
<1> QED
  BY <1>1 DEF OfferWasSeen, Kept

(* A new operation joins the lane last and takes the status bar.           *)
LEMMA GrownLane ==
  ASSUME IInv, Grows, UNCHANGED <<note, cancelled, late>>
  PROVE  LaneInOrder' /\ BusyIsNewest' /\ CutIsRefused' /\ NoteIsOfLane'
<1>0. ops \in Seq(Operation) /\ Len(ops) \in Nat /\ DOMAIN ops = 1..Len(ops) /\ TypeOK
  BY OpsType DEF IInv
<1>1. DOMAIN ops' = 1..Newest /\ Newest = Len(ops) + 1
  BY <1>0 DEF Grows, Newest
<1>2. \A j \in DOMAIN ops : InLane(j) <=> InLane(j)'
  BY DEF Grows, Kept, InLane
<1>3. LaneInOrder'
  <2> SUFFICES ASSUME NEW i \in DOMAIN ops', ops'[i].at \in {"runs", "ended"},
                      NEW j \in 1..(i - 1)
               PROVE  ~InLane(j)'
    BY DEF LaneInOrder, FirstInLane
  <2>1. i \in DOMAIN ops /\ j \in DOMAIN ops /\ ops[i].at \in {"runs", "ended"}
    BY <1>0, <1>1 DEF Grows, Kept
  <2> QED
    BY <1>2, <2>1 DEF IInv, LaneInOrder, FirstInLane
<1>4. BusyIsNewest'
  BY <1>0, <1>1 DEF BusyIsNewest, Grows, InLane
<1>5. CutIsRefused'
  BY <1>0, <1>1 DEF IInv, CutIsRefused, Grows, Kept
<1>6. NoteIsOfLane'
  <2>1. cancelled # 0 => cancelled \in DOMAIN ops
    BY <1>0 DEF TypeOK
  <2> QED
    BY <1>2, <2>1 DEF IInv, NoteIsOfLane
<1> QED
  BY <1>3, <1>4, <1>5, <1>6

(* Steps that leave the lane alone.                                        *)
LEMMA SameLane ==
  ASSUME IInv, DOMAIN ops' = DOMAIN ops, \A j \in DOMAIN ops : Kept(j),
         UNCHANGED <<busy, cancelled, late>>, note' \in {note, "other"}
  PROVE  LaneInOrder' /\ BusyIsNewest' /\ CutIsRefused' /\ NoteIsOfLane'
<1>0. Len(ops) \in Nat /\ DOMAIN ops = 1..Len(ops) /\ TypeOK
  BY OpsType DEF IInv
<1>1. \A j \in DOMAIN ops : InLane(j) <=> InLane(j)'
  BY DEF Kept, InLane
<1>2. \A j \in DOMAIN ops : ops'[j].at \in {"runs", "ended"} => ops[j].at \in {"runs", "ended"}
  BY DEF Kept
<1>3. LaneInOrder'
  BY <1>1, <1>2, LaneShrinks
<1>4. (busy # 0 => busy \in DOMAIN ops) /\ (cancelled # 0 => cancelled \in DOMAIN ops)
  BY <1>0 DEF TypeOK
<1>5. BusyIsNewest'
  BY <1>1, <1>4 DEF IInv, BusyIsNewest
<1>6. NoteIsOfLane'
  BY <1>1, <1>4 DEF IInv, NoteIsOfLane
<1>7. CutIsRefused'
  BY DEF IInv, CutIsRefused, Kept
<1> QED
  BY <1>3, <1>5, <1>6, <1>7

(* The same, for the steps that do not touch the list.                     *)
LEMMA SameOps ==
  ASSUME UNCHANGED ops PROVE DOMAIN ops' = DOMAIN ops /\ \A j \in DOMAIN ops : Kept(j)
  BY DEF Kept

-----------------------------------------------------------------------------
LEMMA ShortSeqs ==
  ASSUME NEW S
  PROVE  /\ <<>> \in Seq(S)
         /\ \A a \in S : <<a>> \in Seq(S) /\ Head(<<a>>) = a /\ Tail(<<a>>) = <<>>
         /\ \A a, b \in S : <<a, b>> \in Seq(S) /\ Head(<<a, b>>) = a /\ Tail(<<a, b>>) = <<b>>
<1>1. <<>> \in Seq(S)
  OBVIOUS
<1>2. ASSUME NEW a \in S PROVE <<a>> \in Seq(S) /\ Head(<<a>>) = a /\ Tail(<<a>>) = <<>>
  BY <1>1
<1>3. ASSUME NEW a \in S, NEW b \in S
      PROVE  <<a, b>> \in Seq(S) /\ Head(<<a, b>>) = a /\ Tail(<<a, b>>) = <<b>>
  OBVIOUS
<1> QED
  BY <1>1, <1>2, <1>3

(* The initial state satisfies the invariant.                              *)
LEMMA IInvInit == Init => IInv
<1> SUFFICES ASSUME Init PROVE IInv
  OBVIOUS
<1>1. TypeOK
  <2>1. ops = <<>> /\ queue = <<>> /\ Len(ops) = 0
    BY DEF Init
  <2>2. ops \in Seq(Operation) /\ queue \in Seq(File)
    BY <2>1, ShortSeqs
  <2>3. dialog \in [asks : {"nothing", "run", "conflict", "force"}, path : File \cup {NoFile}]
    BY DEF Init, NoDialog
  <2>4. busy = 0 /\ cancelled = 0 /\ offer = 0 /\ requests = {} /\ path = NoFile /\ note = "other"
        /\ late = FALSE /\ cancels = 0
    BY DEF Init
  <2>5. cancels \in 0..MaxCancels
    BY <2>4, FrontEndAssumption
  <2>6. busy \in 0..Len(ops) /\ cancelled \in 0..Len(ops) /\ offer \in 0..Len(ops)
    BY <2>1, <2>4
  <2> QED
    BY <2>2, <2>3, <2>4, <2>5, <2>6 DEF TypeOK, Operation
<1>2. DOMAIN ops = {}
  BY DEF Init
<1> QED
  BY <1>1, <1>2 DEF Init, IInv, LaneInOrder, BusyIsNewest, CutIsRefused, OfferWasSeen, NoteIsOfLane

(* The user starts an inspection: the page empties itself.                 *)
LEMMA StartsInspection ==
  ASSUME IInv, NEW file \in File \cup {NoFile}, StartInspect(file),
         queue' \in Seq(File), Cancels, UNCHANGED note, dialog' \in {dialog, NoDialog}
  PROVE  IInv'
<1>0. TypeOK /\ OfferWasSeen /\ Len(ops) \in Nat /\ DOMAIN ops = 1..Len(ops)
  BY OpsType DEF IInv
<1>1. Grows /\ offer' = 0 /\ path' = file
  BY <1>0, AskGrows DEF StartInspect
<1>2. LaneInOrder' /\ BusyIsNewest' /\ CutIsRefused' /\ NoteIsOfLane'
  BY <1>1, GrownLane DEF Cancels
<1>3. OfferWasSeen'
  BY <1>0, <1>1, OfferKept DEF Grows
<1>4. TypeOK'
  BY <1>0, <1>1 DEF TypeOK, Grows, Newest, Operation, Cancels, NoDialog
<1> QED
  BY <1>2, <1>3, <1>4 DEF IInv

(* The user asks for anything else.                                        *)
LEMMA AsksOther ==
  ASSUME IInv, NEW kind \in {"inspect", "integrate", "other"}, NEW file \in File \cup {NoFile},
         Ask(kind, file), UNCHANGED <<path, offer, queue, note>>, Cancels,
         dialog' \in {dialog, NoDialog}
  PROVE  IInv'
<1>0. TypeOK /\ OfferWasSeen /\ Len(ops) \in Nat /\ DOMAIN ops = 1..Len(ops)
  BY OpsType DEF IInv
<1>1. Grows
  BY <1>0, AskGrows
<1>2. LaneInOrder' /\ BusyIsNewest' /\ CutIsRefused' /\ NoteIsOfLane'
  BY <1>1, GrownLane DEF Cancels
<1>3. OfferWasSeen'
  BY <1>0, <1>1, OfferKept DEF Grows
<1>4. TypeOK'
  BY <1>0, <1>1 DEF TypeOK, Grows, Newest, Operation, Cancels, NoDialog
<1> QED
  BY <1>2, <1>3, <1>4 DEF IInv

(* Every action of the user keeps the invariant.                           *)
LEMMA UserStep == IInv /\ User => IInv'
<1> SUFFICES ASSUME IInv, User PROVE IInv'
  OBVIOUS
<1>0. TypeOK /\ Len(ops) \in Nat /\ DOMAIN ops = 1..Len(ops)
  BY OpsType DEF IInv
<1>1. CASE OpenPaths
  <2>1. PICK first \in File, rest \in {<<>>} \cup {<<f>> : f \in File} :
          queue' = rest /\ StartInspect(first)
    BY <1>1 DEF OpenPaths
  <2>2. queue' \in Seq(File)
    BY <2>1, ShortSeqs
  <2>3. UNCHANGED <<note, dialog>> /\ Cancels
    BY <1>1 DEF OpenPaths
  <2> QED
    BY <2>1, <2>2, <2>3, StartsInspection
<1>2. CASE InspectFromInput
  <2>1. path \in File \cup {NoFile} /\ StartInspect(path)
    BY <1>0, <1>2 DEF InspectFromInput, TypeOK
  <2>2. queue' \in Seq(File) /\ UNCHANGED <<note, dialog>> /\ Cancels
    BY <1>0, <1>2 DEF InspectFromInput, TypeOK
  <2> QED
    BY <2>1, <2>2, StartsInspection
<1>3. CASE DropFiles
  <2>1. PICK incoming \in {<<f>> : f \in File} \cup {<<f, g>> : f, g \in File} :
          LET plan == PlanDrop(incoming)
          IN  /\ queue' = plan.queue
              /\ IF plan.start # <<>> THEN StartInspect(plan.start[1])
                 ELSE UNCHANGED <<ops, busy, path, offer>>
    BY <1>3 DEF DropFiles
  <2>2. UNCHANGED <<note, dialog>> /\ Cancels
    BY <1>3 DEF DropFiles
  <2>3. incoming \in Seq(File) /\ Head(incoming) \in File /\ Tail(incoming) \in Seq(File)
    <3>1. CASE incoming \in {<<f>> : f \in File}
      <4>1. PICK f \in File : incoming = <<f>>
        BY <3>1
      <4> QED
        BY <4>1, ShortSeqs
    <3>2. CASE incoming \in {<<f, g>> : f, g \in File}
      <4>1. PICK f, g \in File : incoming = <<f, g>>
        BY <3>2
      <4>2. <<g>> \in Seq(File)
        BY ShortSeqs
      <4> QED
        BY <4>1, <4>2, ShortSeqs
    <3> QED
      BY <3>1, <3>2
  <2>4. queue \in Seq(File)
    BY <1>0 DEF TypeOK
  <2>5. CASE busy # 0 \/ offer # 0
    <3>1. queue' = queue \o incoming /\ UNCHANGED <<ops, busy, path, offer>>
      BY <2>1, <2>5 DEF PlanDrop
    <3>2. queue' \in Seq(File)
      BY <2>3, <2>4, <3>1
    <3>3. TypeOK'
      BY <1>0, <2>2, <3>1, <3>2 DEF TypeOK, Cancels
    <3>4. DOMAIN ops' = DOMAIN ops /\ \A j \in DOMAIN ops : Kept(j)
      BY <3>1, SameOps
    <3>5. LaneInOrder' /\ BusyIsNewest' /\ CutIsRefused' /\ NoteIsOfLane'
      BY <2>2, <3>1, <3>4, SameLane DEF Cancels
    <3>6. OfferWasSeen'
      BY <3>1 DEF IInv, OfferWasSeen
    <3> QED
      BY <3>3, <3>5, <3>6 DEF IInv
  <2>6. CASE ~(busy # 0 \/ offer # 0)
    <3>1. queue' = queue \o Tail(incoming) /\ StartInspect(Head(incoming))
      BY <2>1, <2>6 DEF PlanDrop
    <3>2. queue' \in Seq(File)
      BY <2>3, <2>4, <3>1
    <3> QED
      BY <2>2, <2>3, <3>1, <3>2, StartsInspection
  <2> QED
    BY <2>5, <2>6
<1>4. CASE ClearInspect \/ Dismiss \/ TypePath
  <2>1. UNCHANGED <<ops, busy, note, queue>> /\ Cancels /\ offer' \in {0, offer}
        /\ path' \in File \cup {path, NoFile} /\ dialog' \in {dialog, NoDialog}
    BY <1>4 DEF ClearInspect, Dismiss, TypePath
  <2>2. DOMAIN ops' = DOMAIN ops /\ \A j \in DOMAIN ops : Kept(j)
    BY <2>1, SameOps
  <2>3. LaneInOrder' /\ BusyIsNewest' /\ CutIsRefused' /\ NoteIsOfLane'
    BY <2>1, <2>2, SameLane DEF Cancels
  <2>4. OfferWasSeen'
    BY <1>0, <2>1, <2>2, OfferKept DEF IInv
  <2>5. TypeOK'
    BY <1>0, <2>1 DEF TypeOK, Cancels, NoDialog
  <2> QED
    BY <2>3, <2>4, <2>5 DEF IInv
<1>5. CASE IntegrateFromInspect
  <2>1. path \in File \cup {NoFile} /\ Ask("integrate", path)
    BY <1>0, <1>5 DEF IntegrateFromInspect, TypeOK
  <2>2. UNCHANGED <<note, path, offer, queue, dialog>> /\ Cancels
    BY <1>5 DEF IntegrateFromInspect
  <2> QED
    BY <2>1, <2>2, AsksOther
<1>6. CASE OtherOperation
  <2>1. Ask("other", NoFile)
    BY <1>6 DEF OtherOperation
  <2>2. UNCHANGED <<note, path, offer, queue, dialog>> /\ Cancels
    BY <1>6 DEF OtherOperation, Page
  <2> QED
    BY <2>1, <2>2, AsksOther
<1>7. CASE Confirm
  <2>1. dialog.path \in File \cup {NoFile} /\ queue \in Seq(File)
    BY <1>0 DEF TypeOK
  <2>2. dialog' = NoDialog /\ UNCHANGED <<note, queue>> /\ Cancels
    BY <1>7 DEF Confirm
  <2>3. CASE dialog.asks = "run"
    <3>1. StartInspect(dialog.path)
      BY <1>7, <2>3 DEF Confirm
    <3> QED
      BY <2>1, <2>2, <3>1, StartsInspection
  <2>4. CASE dialog.asks # "run"
    <3>1. PICK kind \in {"integrate", "other"} : Ask(kind, dialog.path)
      BY <1>7, <2>4 DEF Confirm
    <3>2. UNCHANGED <<path, offer>>
      BY <1>7, <2>4 DEF Confirm
    <3> QED
      BY <2>1, <2>2, <3>1, <3>2, AsksOther
  <2> QED
    BY <2>3, <2>4
<1>8. CASE CancelBusy \/ \E i \in DOMAIN ops : CancelTask(i)
  <2>1. UNCHANGED <<ops, busy, path, offer, queue, dialog>>
    BY <1>8 DEF CancelBusy, CancelTask, Page
  <2>2. PICK i \in DOMAIN ops : cancelled' = i /\ Request(i) /\ (~late' => ~late /\ InLane(i))
    <3>1. CASE CancelBusy
      <4>1. busy \in DOMAIN ops /\ InLane(busy)
        BY <1>0, <3>1 DEF CancelBusy, TypeOK, IInv, BusyIsNewest
      <4> QED
        BY <3>1, <4>1 DEF CancelBusy
    <3>2. CASE \E i \in DOMAIN ops : CancelTask(i)
      BY <3>2 DEF CancelTask
    <3> QED
      BY <1>8, <3>1, <3>2
  <2>3. note' \in {note, "cancelling"} /\ cancels' = cancels + 1 /\ cancels < MaxCancels
    BY <1>8 DEF CancelBusy, CancelTask
  <2>4. late' \in BOOLEAN
    BY <1>0, <1>8 DEF CancelBusy, CancelTask, TypeOK
  <2>5. NoteIsOfLane'
    BY <1>0, <2>1, <2>2 DEF NoteIsOfLane, InLane
  <2>6. LaneInOrder' /\ BusyIsNewest' /\ CutIsRefused' /\ OfferWasSeen'
    BY <2>1 DEF IInv, LaneInOrder, FirstInLane, BusyIsNewest, CutIsRefused, OfferWasSeen, InLane
  <2>7. TypeOK'
    BY <1>0, <2>1, <2>2, <2>3, <2>4, FrontEndAssumption DEF TypeOK, Request
  <2> QED
    BY <2>5, <2>6, <2>7 DEF IInv
<1> QED
  BY <1>1, <1>2, <1>3, <1>4, <1>5, <1>6, <1>7, <1>8 DEF User

-----------------------------------------------------------------------------
(* The operation at work, and its caller.                                  *)

(* The core takes up the first of the lane.                                *)
LEMMA RunsKeeps ==
  ASSUME IInv, NEW i \in DOMAIN ops, Runs(i) PROVE IInv'
<1>0. TypeOK /\ Len(ops) \in Nat /\ DOMAIN ops = 1..Len(ops)
  BY OpsType DEF IInv
<1>1. /\ Touches(i) /\ ops'[i].at = "runs" /\ ops'[i].cut = ops[i].cut
      /\ ops'[i].answer = ops[i].answer /\ ops'[i].kind = ops[i].kind
  BY <1>0, GoesTouches DEF Runs
<1>2. ops[i].at = "waits" /\ FirstInLane(i) /\ UNCHANGED <<busy, note>> /\ Page /\ Cancels
  BY DEF Runs, At
<1>3. TypeOK'
  BY <1>0, <1>1, <1>2 DEF TypeOK, Touches, Operation, Page, Cancels
<1>4. \A j \in DOMAIN ops : InLane(j) <=> InLane(j)'
  BY <1>1, <1>2 DEF Touches, InLane
<1>5. (busy # 0 => busy \in DOMAIN ops) /\ (cancelled # 0 => cancelled \in DOMAIN ops)
      /\ (offer # 0 => offer \in DOMAIN ops)
  BY <1>0 DEF TypeOK
<1>6. LaneInOrder'
  <2> SUFFICES ASSUME NEW k \in DOMAIN ops, ops'[k].at \in {"runs", "ended"},
                      NEW j \in 1..(k - 1)
               PROVE  ~InLane(j)'
    BY <1>1 DEF Touches, LaneInOrder, FirstInLane
  <2>1. j \in DOMAIN ops /\ (k # i => ops[k].at \in {"runs", "ended"})
    BY <1>0, <1>1 DEF Touches
  <2>2. FirstInLane(k)
    BY <1>2, <2>1 DEF IInv, LaneInOrder
  <2> QED
    BY <1>4, <2>1, <2>2 DEF FirstInLane
<1>7. BusyIsNewest' /\ NoteIsOfLane'
  BY <1>1, <1>2, <1>4, <1>5 DEF IInv, BusyIsNewest, NoteIsOfLane, Touches, Cancels
<1>8. CutIsRefused' /\ OfferWasSeen'
  BY <1>1, <1>2, <1>5 DEF IInv, CutIsRefused, OfferWasSeen, Touches, Page
<1> QED
  BY <1>3, <1>6, <1>7, <1>8 DEF IInv

(* It answers; a cancel that came in time is answered by an error.         *)
LEMMA AnswersKeeps ==
  ASSUME IInv, NEW i \in DOMAIN ops, Answers(i) PROVE IInv'
<1>0. TypeOK /\ ops \in Seq(Operation) /\ Len(ops) \in Nat /\ DOMAIN ops = 1..Len(ops)
  BY OpsType DEF IInv
<1>1. PICK answer \in (IF ops[i].cut THEN {"refused"} ELSE {"whole", "refused", "asks"}) :
        ops' = [ops EXCEPT ![i].at = "ended", ![i].answer = answer]
  BY DEF Answers
<1>2. /\ Touches(i) /\ ops'[i].at = "ended" /\ ops'[i].cut = ops[i].cut
      /\ ops'[i].answer = answer /\ ops'[i].kind = ops[i].kind
  <2> DEFINE r == [ops[i] EXCEPT !.at = "ended", !.answer = answer]
  <2>1. ops[i] \in Operation /\ answer \in {"whole", "refused", "asks"}
    BY <1>0
  <2>2. /\ r \in Operation /\ r.at = "ended" /\ r.cut = ops[i].cut /\ r.answer = answer
        /\ r.kind = ops[i].kind
    BY <2>1 DEF Operation
  <2>3. ops' = [ops EXCEPT ![i] = r]
    BY <1>1
  <2> HIDE DEF r
  <2> QED
    BY <1>0, <2>2, <2>3 DEF Touches
<1>3. ops[i].at = "runs" /\ UNCHANGED <<busy, note, cancelled, cancels, late>> /\ Page
      /\ requests' \subseteq requests
  BY DEF Answers, At
<1>4. TypeOK'
  BY <1>0, <1>2, <1>3 DEF TypeOK, Touches, Operation, Page
<1>5. \A j \in DOMAIN ops : InLane(j) <=> InLane(j)'
  BY <1>2, <1>3 DEF Touches, InLane
<1>6. (busy # 0 => busy \in DOMAIN ops) /\ (cancelled # 0 => cancelled \in DOMAIN ops)
      /\ (offer # 0 => offer \in DOMAIN ops)
  BY <1>0 DEF TypeOK
<1>7. LaneInOrder'
  <2>1. \A j \in DOMAIN ops : ops'[j].at \in {"runs", "ended"} => ops[j].at \in {"runs", "ended"}
    BY <1>2, <1>3 DEF Touches
  <2> QED
    BY <1>2, <1>5, <2>1, LaneShrinks DEF Touches
<1>8. BusyIsNewest' /\ NoteIsOfLane'
  BY <1>2, <1>3, <1>5, <1>6 DEF IInv, BusyIsNewest, NoteIsOfLane, Touches
<1>9. CutIsRefused' /\ OfferWasSeen'
  BY <1>1, <1>2, <1>3, <1>6 DEF IInv, CutIsRefused, OfferWasSeen, Touches, Page
<1> QED
  BY <1>4, <1>7, <1>8, <1>9 DEF IInv

(* The end of an operation empties the lane when it is the newest.         *)
LEMMA SettlesKeeps ==
  ASSUME IInv, NEW i \in DOMAIN ops, Settles(i) PROVE IInv'
<1>0. TypeOK /\ Len(ops) \in Nat /\ DOMAIN ops = 1..Len(ops)
  BY OpsType DEF IInv
<1>1. /\ Touches(i) /\ ops'[i].at = "settled" /\ ops'[i].cut = ops[i].cut
      /\ ops'[i].answer = ops[i].answer /\ ops'[i].kind = ops[i].kind
  BY <1>0, GoesTouches DEF Settles
<1>2. ops[i].at = "ended" /\ Page /\ Cancels
  BY DEF Settles, At
<1>3. busy' = (IF busy = i THEN 0 ELSE busy)
      /\ note' = (IF cancelled = i /\ note = "cancelling" THEN "other" ELSE note)
  BY DEF Settles, BusyAfter, NoteAfter
<1>4. TypeOK'
  BY <1>0, <1>1, <1>2, <1>3 DEF TypeOK, Touches, Operation, Page, Cancels
<1>5. \A j \in DOMAIN ops : InLane(j)' <=> InLane(j) /\ j # i
  BY <1>1 DEF Touches, InLane
<1>6. (busy # 0 => busy \in DOMAIN ops) /\ (cancelled # 0 => cancelled \in DOMAIN ops)
      /\ (offer # 0 => offer \in DOMAIN ops)
  BY <1>0 DEF TypeOK
<1>7. LaneInOrder'
  <2>1. \A j \in DOMAIN ops : ops'[j].at \in {"runs", "ended"} => ops[j].at \in {"runs", "ended"}
    BY <1>1, <1>2 DEF Touches
  <2> QED
    BY <1>1, <1>5, <2>1, LaneShrinks DEF Touches
<1>8. BusyIsNewest'
  <2>1. CASE busy = i
    <3>1. \A j \in DOMAIN ops : InLane(j) => j <= i
      BY <2>1 DEF IInv, BusyIsNewest
    <3>2. \A j \in 1..(i - 1) : ~InLane(j)
      BY <1>2 DEF IInv, LaneInOrder, FirstInLane
    <3>3. \A j \in DOMAIN ops : ~InLane(j)'
      BY <1>0, <1>5, <3>1, <3>2
    <3> QED
      BY <1>1, <1>3, <2>1, <3>3 DEF BusyIsNewest, Touches
  <2>2. CASE busy # i
    BY <1>1, <1>3, <1>5, <1>6, <2>2 DEF IInv, BusyIsNewest, Touches
  <2> QED
    BY <2>1, <2>2
<1>9. NoteIsOfLane'
  BY <1>2, <1>3, <1>5, <1>6 DEF IInv, NoteIsOfLane, Cancels
<1>10. CutIsRefused' /\ OfferWasSeen'
  BY <1>1, <1>2, <1>6 DEF IInv, CutIsRefused, OfferWasSeen, Touches, Page
<1> QED
  BY <1>4, <1>7, <1>8, <1>9, <1>10 DEF IInv

(* A cancel reaches the core: only what runs is cut short.                 *)
LEMMA CancelArrivesKeeps ==
  ASSUME IInv, NEW i \in requests, CancelArrives(i) PROVE IInv'
<1>0. TypeOK /\ ops \in Seq(Operation) /\ Len(ops) \in Nat /\ DOMAIN ops = 1..Len(ops)
      /\ i \in DOMAIN ops
  BY OpsType DEF IInv, TypeOK
<1>1. /\ Touches(i) /\ ops'[i].at = ops[i].at /\ ops'[i].answer = ops[i].answer
      /\ ops'[i].kind = ops[i].kind
      /\ ops[i].at # "runs" => ops'[i].cut = ops[i].cut
  <2> DEFINE r == [ops[i] EXCEPT !.cut = ops[i].cut \/ At(i, "runs")]
  <2>1. ops[i] \in Operation /\ ops[i].cut \in BOOLEAN /\ At(i, "runs") \in BOOLEAN
    <3>1. ops[i] \in Operation
      BY <1>0
    <3>2. ops[i].cut \in BOOLEAN
      BY <3>1 DEF Operation
    <3>3. At(i, "runs") \in BOOLEAN
      BY Zenon DEF At
    <3> QED
      BY <3>1, <3>2, <3>3
  <2>2. ASSUME NEW b \in BOOLEAN
        PROVE  /\ [ops[i] EXCEPT !.cut = b] \in Operation
               /\ [ops[i] EXCEPT !.cut = b].at = ops[i].at
               /\ [ops[i] EXCEPT !.cut = b].answer = ops[i].answer
               /\ [ops[i] EXCEPT !.cut = b].kind = ops[i].kind
               /\ [ops[i] EXCEPT !.cut = b].cut = b
    BY <2>1 DEF Operation
  <2>3. ops[i].cut \/ At(i, "runs") \in BOOLEAN
    BY <2>1
  <2>4. /\ r \in Operation /\ r.at = ops[i].at /\ r.answer = ops[i].answer
        /\ r.kind = ops[i].kind /\ r.cut = (ops[i].cut \/ At(i, "runs"))
    BY <2>2, <2>3
  <2>5. ops' = [ops EXCEPT ![i] = r]
    BY DEF CancelArrives
  <2>6. ASSUME ops[i].at # "runs" PROVE (ops[i].cut \/ At(i, "runs")) = ops[i].cut
    <3>1. ~At(i, "runs")
      BY <2>6 DEF At
    <3> QED
      BY <2>1, <3>1
  <2> HIDE DEF r
  <2> QED
    BY <1>0, <2>4, <2>5, <2>6 DEF Touches
<1>2. UNCHANGED <<busy, note, cancelled, cancels, late>> /\ Page /\ requests' \subseteq requests
  BY DEF CancelArrives
<1>3. TypeOK'
  BY <1>0, <1>1, <1>2 DEF TypeOK, Touches, Operation, Page
<1>4. \A j \in DOMAIN ops : InLane(j) <=> InLane(j)'
  BY <1>1 DEF Touches, InLane
<1>5. (busy # 0 => busy \in DOMAIN ops) /\ (cancelled # 0 => cancelled \in DOMAIN ops)
      /\ (offer # 0 => offer \in DOMAIN ops)
  BY <1>0 DEF TypeOK
<1>6. LaneInOrder'
  <2>1. \A j \in DOMAIN ops : ops'[j].at \in {"runs", "ended"} => ops[j].at \in {"runs", "ended"}
    BY <1>1 DEF Touches
  <2> QED
    BY <1>1, <1>4, <2>1, LaneShrinks DEF Touches
<1>7. BusyIsNewest' /\ NoteIsOfLane'
  BY <1>1, <1>2, <1>4, <1>5 DEF IInv, BusyIsNewest, NoteIsOfLane, Touches
<1>8. CutIsRefused' /\ OfferWasSeen'
  BY <1>1, <1>2, <1>5 DEF IInv, CutIsRefused, OfferWasSeen, Touches, Page
<1> QED
  BY <1>3, <1>6, <1>7, <1>8 DEF IInv

(* What the callers do with the lane: nothing.                             *)
LEMMA SeesMove ==
  ASSUME TypeOK, NEW i \in DOMAIN ops, NEW place \in {"reloads", "seen"},
         ops[i].at \in {"settled", "reloads"}, Goes(i, place)
  PROVE  /\ ops' \in Seq(Operation) /\ Len(ops') = Len(ops) /\ DOMAIN ops' = DOMAIN ops
         /\ \A j \in DOMAIN ops : Kept(j)
         /\ ops'[i].at = place /\ ops'[i].kind = ops[i].kind
         /\ \A j \in DOMAIN ops \ {i} : ops'[j] = ops[j]
  BY GoesTouches DEF Touches, Kept

(* An answer seen keeps the invariant, whichever the order: what is        *)
(* offered was not cut short, for its answer was no error.                 *)
LEMMA SeesInspectionKeeps ==
  ASSUME IInv, NEW i \in DOMAIN ops, SeesInspection(i) PROVE IInv'
<1>0. TypeOK /\ ops \in Seq(Operation) /\ Len(ops) \in Nat /\ DOMAIN ops = 1..Len(ops)
  BY OpsType DEF IInv
<1>1. ops[i].at = "settled" /\ ops[i].kind = "inspect" /\ Goes(i, "seen")
  BY DEF SeesInspection, At
<1>2. /\ ops' \in Seq(Operation) /\ Len(ops') = Len(ops) /\ DOMAIN ops' = DOMAIN ops
      /\ \A j \in DOMAIN ops : Kept(j)
      /\ ops'[i].at = "seen"
  BY <1>0, <1>1, SeesMove
<1>3. UNCHANGED <<busy, path, queue>> /\ Cancels /\ note' \in {note, "other"} /\ offer' \in {0, i}
  BY DEF SeesInspection
<1>4. LaneInOrder' /\ BusyIsNewest' /\ CutIsRefused' /\ NoteIsOfLane'
  BY <1>2, <1>3, SameLane DEF Cancels
<1>5. OfferWasSeen'
  <2> SUFFICES ASSUME offer' # 0
               PROVE  ops'[offer'].at = "seen" /\ ~ops'[offer'].cut
                      /\ ops'[offer'].answer \in {"whole", "asks"}
    BY DEF OfferWasSeen
  <2>1. offer' = i /\ ops[i].answer \in {"whole", "asks"}
    BY DEF SeesInspection, Offered
  <2>2. ~ops[i].cut
    BY <1>1, <2>1 DEF IInv, CutIsRefused
  <2> QED
    BY <1>2, <2>1, <2>2 DEF Kept
<1>6. dialog' \in [asks : {"nothing", "run", "conflict", "force"}, path : File \cup {NoFile}]
  <2>1. ops[i].path \in File \cup {NoFile}
    <3>1. ops[i] \in Operation
      BY <1>0
    <3> QED
      BY <3>1 DEF Operation
  <2> QED
    BY <1>0, <2>1 DEF SeesInspection, TypeOK
<1>7. TypeOK'
  BY <1>0, <1>2, <1>3, <1>6 DEF TypeOK, Operation, Cancels
<1> QED
  BY <1>4, <1>5, <1>7 DEF IInv

LEMMA SeesIntegrationKeeps ==
  ASSUME IInv, NEW i \in DOMAIN ops, SeesIntegration(i) PROVE IInv'
<1>0. TypeOK /\ ops \in Seq(Operation) /\ Len(ops) \in Nat /\ DOMAIN ops = 1..Len(ops)
  BY OpsType DEF IInv
<1>1. PICK place \in {"reloads", "seen"} : Goes(i, place)
  BY DEF SeesIntegration
<1>2. ops[i].at = "settled"
  BY DEF SeesIntegration, At
<1>3. /\ ops' \in Seq(Operation) /\ Len(ops') = Len(ops) /\ DOMAIN ops' = DOMAIN ops
      /\ \A j \in DOMAIN ops : Kept(j)
  BY <1>0, <1>1, <1>2, SeesMove
<1>4. UNCHANGED <<busy, queue>> /\ Cancels /\ note' \in {note, "other"} /\ offer' \in {0, offer}
      /\ path' \in {path, NoFile}
  BY DEF SeesIntegration
<1>5. LaneInOrder' /\ BusyIsNewest' /\ CutIsRefused' /\ NoteIsOfLane'
  BY <1>3, <1>4, SameLane DEF Cancels
<1>6. OfferWasSeen'
  BY <1>0, <1>3, <1>4, OfferKept DEF IInv
<1>7. dialog' \in [asks : {"nothing", "run", "conflict", "force"}, path : File \cup {NoFile}]
  <2>1. ops[i].path \in File \cup {NoFile}
    <3>1. ops[i] \in Operation
      BY <1>0
    <3> QED
      BY <3>1 DEF Operation
  <2> QED
    BY <1>0, <2>1 DEF SeesIntegration, TypeOK
<1>8. TypeOK'
  BY <1>0, <1>3, <1>4, <1>7 DEF TypeOK, Operation, Cancels
<1> QED
  BY <1>5, <1>6, <1>8 DEF IInv

LEMMA SeesOtherKeeps ==
  ASSUME IInv, NEW i \in DOMAIN ops, SeesOther(i) PROVE IInv'
<1>0. TypeOK /\ ops \in Seq(Operation) /\ Len(ops) \in Nat /\ DOMAIN ops = 1..Len(ops)
  BY OpsType DEF IInv
<1>1. ops[i].at = "settled" /\ Goes(i, "seen")
  BY DEF SeesOther, At
<1>2. /\ ops' \in Seq(Operation) /\ Len(ops') = Len(ops) /\ DOMAIN ops' = DOMAIN ops
      /\ \A j \in DOMAIN ops : Kept(j)
  BY <1>0, <1>1, SeesMove
<1>3. UNCHANGED <<busy, path, offer, queue>> /\ Cancels /\ note' \in {note, "other"}
  BY DEF SeesOther
<1>4. LaneInOrder' /\ BusyIsNewest' /\ CutIsRefused' /\ NoteIsOfLane'
  BY <1>2, <1>3, SameLane DEF Cancels
<1>5. OfferWasSeen'
  BY <1>0, <1>2, <1>3, OfferKept DEF IInv
<1>6. dialog' \in [asks : {"nothing", "run", "conflict", "force"}, path : File \cup {NoFile}]
  BY <1>0 DEF SeesOther, TypeOK
<1>7. TypeOK'
  BY <1>0, <1>2, <1>3, <1>6 DEF TypeOK, Operation, Cancels
<1> QED
  BY <1>4, <1>5, <1>7 DEF IInv

(* The next file that waits is inspected: a new operation joins the lane.  *)
LEMMA TakeNextQueuedKeeps ==
  ASSUME IInv, NEW i \in DOMAIN ops, TakeNextQueued(i) PROVE IInv'
<1>0. TypeOK /\ ops \in Seq(Operation) /\ Len(ops) \in Nat /\ DOMAIN ops = 1..Len(ops)
      /\ queue \in Seq(File)
  BY OpsType DEF IInv, TypeOK
<1>1. ops[i].at = "reloads" /\ UNCHANGED <<note, dialog>> /\ Cancels
  BY DEF TakeNextQueued, At
<1>2. CASE queue = <<>>
  <2>1. Goes(i, "seen") /\ UNCHANGED <<busy, path, offer, queue>>
    BY <1>2 DEF TakeNextQueued
  <2>2. /\ ops' \in Seq(Operation) /\ Len(ops') = Len(ops) /\ DOMAIN ops' = DOMAIN ops
        /\ \A j \in DOMAIN ops : Kept(j)
    BY <1>0, <1>1, <2>1, SeesMove
  <2>3. LaneInOrder' /\ BusyIsNewest' /\ CutIsRefused' /\ NoteIsOfLane'
    BY <1>1, <2>1, <2>2, SameLane DEF Cancels
  <2>4. OfferWasSeen'
    BY <1>0, <2>1, <2>2, OfferKept DEF IInv
  <2>5. TypeOK'
    BY <1>0, <1>1, <2>1, <2>2 DEF TypeOK, Operation, Cancels
  <2> QED
    BY <2>3, <2>4, <2>5 DEF IInv
<1>3. CASE queue # <<>>
  <2> DEFINE moved == [ops EXCEPT ![i].at = "seen"]
             new == [kind |-> "inspect", path |-> Head(queue), at |-> "waits", cut |-> FALSE,
                     answer |-> "none"]
  <2>1. /\ ops' = Append(moved, new)
        /\ busy' = Newest /\ path' = Head(queue) /\ offer' = 0 /\ queue' = Tail(queue)
    BY <1>3 DEF TakeNextQueued
  <2>2. Head(queue) \in File /\ Tail(queue) \in Seq(File)
    BY <1>0, <1>3
  <2>3. new \in Operation /\ new.at = "waits" /\ new.cut = FALSE
    BY <2>2 DEF Operation
  <2>4. /\ moved \in Seq(Operation) /\ Len(moved) = Len(ops)
        /\ \A j \in DOMAIN ops \ {i} : moved[j] = ops[j]
        /\ moved[i].at = "seen" /\ moved[i].cut = ops[i].cut /\ moved[i].answer = ops[i].answer
    <3> DEFINE r == [ops[i] EXCEPT !.at = "seen"]
    <3>1. r \in Operation /\ r.at = "seen" /\ r.cut = ops[i].cut /\ r.answer = ops[i].answer
      <4>1. ops[i] \in Operation
        BY <1>0
      <4> QED
        BY <4>1 DEF Operation
    <3>2. moved = [ops EXCEPT ![i] = r]
      OBVIOUS
    <3> HIDE DEF moved, r
    <3> QED
      BY <1>0, <3>1, <3>2
  <2> HIDE DEF moved, new
  <2>5. /\ ops' \in Seq(Operation) /\ Len(ops') = Newest /\ ops'[Newest] = new
        /\ \A j \in DOMAIN ops : ops'[j] = moved[j]
    BY <1>0, <2>1, <2>3, <2>4 DEF Newest
  <2>6. Grows
    BY <1>1, <2>1, <2>3, <2>4, <2>5 DEF Grows, Kept
  <2>7. LaneInOrder' /\ BusyIsNewest' /\ CutIsRefused' /\ NoteIsOfLane'
    BY <1>1, <2>6, GrownLane DEF Cancels
  <2>8. OfferWasSeen'
    BY <1>0, <2>1, <2>6, OfferKept DEF IInv, Grows
  <2>9. TypeOK'
    BY <1>0, <1>1, <2>1, <2>2, <2>5 DEF TypeOK, Operation, Newest, Cancels
  <2> QED
    BY <2>7, <2>8, <2>9 DEF IInv
<1> QED
  BY <1>2, <1>3

-----------------------------------------------------------------------------
(* Every step keeps the invariant.                                         *)
LEMMA IInvStep == IInv /\ [Next]_vars => IInv'
<1> SUFFICES ASSUME IInv, [Next]_vars PROVE IInv'
  OBVIOUS
<1>1. CASE User
  BY <1>1, UserStep
<1>2. CASE \E i \in requests : CancelArrives(i)
  BY <1>2, CancelArrivesKeeps
<1>3. ASSUME NEW i \in DOMAIN ops, Works(i) PROVE IInv'
  <2>1. CASE Runs(i)
    BY <2>1, RunsKeeps
  <2>2. CASE Answers(i)
    BY <2>2, AnswersKeeps
  <2>3. CASE Settles(i)
    BY <2>3, SettlesKeeps
  <2>4. CASE SeesInspection(i)
    BY <2>4, SeesInspectionKeeps
  <2>5. CASE SeesIntegration(i)
    BY <2>5, SeesIntegrationKeeps
  <2>6. CASE TakeNextQueued(i)
    BY <2>6, TakeNextQueuedKeeps
  <2>7. CASE SeesOther(i)
    BY <2>7, SeesOtherKeeps
  <2> QED
    BY <1>3, <2>1, <2>2, <2>3, <2>4, <2>5, <2>6, <2>7 DEF Works, Sees
<1>4. CASE UNCHANGED vars
  <2>1. DOMAIN ops' = DOMAIN ops /\ \A j \in DOMAIN ops : Kept(j)
    BY <1>4, SameOps DEF vars
  <2>2. LaneInOrder' /\ BusyIsNewest' /\ CutIsRefused' /\ NoteIsOfLane'
    BY <1>4, <2>1, SameLane DEF vars
  <2>3. TypeOK' /\ OfferWasSeen'
    BY <1>4 DEF IInv, TypeOK, OfferWasSeen, vars
  <2> QED
    BY <2>2, <2>3 DEF IInv
<1> QED
  BY <1>1, <1>2, <1>3, <1>4 DEF Next

(* The status bar, the offer and the note follow from it.                  *)
LEMMA IInvImplies == IInv => TypeOK /\ BusyIsLive /\ OfferIsWhole /\ NoteGoes
<1> SUFFICES ASSUME IInv PROVE BusyIsLive /\ OfferIsWhole /\ NoteGoes
  BY DEF IInv
<1>0. TypeOK /\ DOMAIN ops = 1..Len(ops) /\ Len(ops) \in Nat
  BY OpsType DEF IInv
<1>1. BusyIsLive
  BY <1>0 DEF IInv, TypeOK, BusyIsNewest, BusyIsLive
<1>2. OfferIsWhole
  BY DEF IInv, OfferWasSeen, OfferIsWhole
<1>3. NoteGoes
  <2>1. cancelled # 0 => cancelled \in DOMAIN ops
    BY <1>0 DEF TypeOK
  <2> QED
    BY <2>1 DEF IInv, NoteIsOfLane, NoteGoes, InLane, At
<1> QED
  BY <1>1, <1>2, <1>3

(* Every state of the window has the types of the model.                   *)
THEOREM TypeCorrect == Spec => []TypeOK
  BY IInvInit, IInvStep, IInvImplies, PTL DEF Spec

(* The status bar of the window names an operation that waits or runs for  *)
(* as long as there is one, and nothing when there is none                 *)
(* (app_model.dart:519, 525).                                              *)
THEOREM BusyLive == Spec => []BusyIsLive
  BY IInvInit, IInvStep, IInvImplies, PTL DEF Spec

(* What the Inspect page offers was read by an inspection that no cancel   *)
(* cut short, in whatever order the answers are seen.                      *)
THEOREM OfferWhole == Spec => []OfferIsWhole
  BY IInvInit, IInvStep, IInvImplies, PTL DEF Spec

(* "Cancelling" does not stay once every operation has been seen, unless   *)
(* the user cancelled a row that was out of date.                          *)
THEOREM NoteGoesAway == Spec => []NoteGoes
  BY IInvInit, IInvStep, IInvImplies, PTL DEF Spec

=============================================================================
