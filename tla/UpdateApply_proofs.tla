-------------------------- MODULE UpdateApply_proofs --------------------------
(* Proofs about UpdateApply, for every value of its constants.             *)
EXTENDS UpdateApply, TLAPS

(***************************************************************************)
(* The inductive invariant.  Its parts say what the caller may rely on at  *)
(* each point of `apply_with_progress`, whatever the helper threads, the   *)
(* user, the faults and the crashes do meanwhile.                          *)
(***************************************************************************)

(* An apply that is under way has a number, and applies to come have       *)
(* neither a helper nor a rollback copy.                                   *)
Numbered ==
  /\ pc # "idle" => attempt \in Attempt
  /\ \A a \in Attempt : a > attempt => helper[a] = "none" /\ backup[a] = Nothing

(* The caller's copy of the row is current until it writes the row.        *)
RowIsCurrent == pc \notin {"idle", "dropBackup"} => row = app

(* The staging file is whole once its helper is done, and passed every     *)
(* check once the caller went on to the rollback copy.                     *)
StagedIsWhole ==
  /\ pc \in {"download", "verify", "backup", "lastcheck", "swap"} /\ helper[attempt] = "ok" =>
       staging[attempt] \in Content
  /\ pc \in {"verify", "backup", "lastcheck", "swap"} => helper[attempt] = "ok"
  /\ pc \in {"backup", "lastcheck", "swap"} =>
       /\ stagedHash = staging[attempt]
       /\ Acceptable(stagedHash)
       /\ DigestAccepts(stagedHash, checked.digest)

(* The managed path holds what it held until the swap, then the verified   *)
(* file; the rollback copy is made in between and is complete.             *)
SwapIsOrdered ==
  /\ pc \in BeforeSwap \cup {"swap"} => live = replaced
  /\ pc \in BeforeSwap \ {"lastcheck"} => backup[attempt] = Nothing
  /\ pc \in {"lastcheck", "swap", "desktop", "upsert", "rollbackFile"} => backup[attempt] = replaced
  /\ pc \in {"desktop", "upsert", "dropBackup"} => live = stagedHash /\ live \in Content
  /\ pc = "dropBackup" => row.sha = live

(* A registered file that was not lost is on disk; between the swap and    *)
(* the end of the rollback it is there as a rollback copy.                 *)
RowIsHeld ==
  intact =>
    /\ row.sha \in Held
    /\ pc \in {"desktop", "upsert", "rollbackFile"} => \E a \in Attempt : backup[a] = row.sha

IInv == TypeOK /\ Numbered /\ RowIsCurrent /\ StagedIsWhole /\ SwapIsOrdered /\ RowIsHeld

-----------------------------------------------------------------------------
(* The initial states satisfy the invariant.                               *)
LEMMA IInvInit == Init => IInv
<1> SUFFICES ASSUME Init PROVE IInv
  OBVIOUS
<1> USE ContentAssumption, BoundAssumption DEF Init
<1>1. TypeOK
  <2>1. VersionOf[Installed] \in Version
    OBVIOUS
  <2>2. row \in Row /\ app \in Row /\ checked \in Checked /\ desktop \in Version \cup {Nothing}
    BY <2>1 DEF Row, Checked
  <2>3. outcome \in [Attempt -> Over \cup {"none", "running"}] /\ helper \in [Attempt -> Helper]
    BY DEF Over, Helper
  <2>4. staging \in [Attempt -> File] /\ backup \in [Attempt -> File]
    BY DEF File
  <2>5. helperStop \in [Attempt -> BOOLEAN]
    OBVIOUS
  <2> QED
    BY <2>2, <2>3, <2>4, <2>5 DEF TypeOK, PC
<1>2. Numbered /\ RowIsCurrent /\ StagedIsWhole /\ SwapIsOrdered
  BY DEF Numbered, RowIsCurrent, StagedIsWhole, SwapIsOrdered, BeforeSwap
<1>3. RowIsHeld
  BY DEF RowIsHeld, Held
<1> QED
  BY <1>1, <1>2, <1>3 DEF IInv

(* Every step keeps the types.  The managed path takes the content of a    *)
(* whole staging file or of a whole rollback copy only.                    *)
LEMMA TypeStep == IInv /\ [Next]_vars => TypeOK'
<1> SUFFICES ASSUME IInv, [Next]_vars PROVE TypeOK'
  OBVIOUS
<1> USE BoundAssumption
    DEF IInv, TypeOK, Numbered, Goto, Finish, Fault, NoFault, RemoveStaging, RemoveBackup,
        PC, BeforeSwap, AfterSwap, Over, Helper, File, disk, threads, request, world
<1>1. CASE Start
  <2>1. attempt' \in Attempt /\ app' \in Row /\ force' \in BOOLEAN
    BY <1>1 DEF Start
  <2>2. outcome' \in [Attempt -> Over \cup {"none", "running"}]
    BY <1>1 DEF Start
  <2> QED
    BY <1>1, <2>1, <2>2 DEF Start
<1>2. CASE CheckCancelled
  BY <1>2 DEF CheckCancelled
<1>3. CASE CheckFails
  BY <1>3 DEF CheckFails
<1>4. CASE CheckAnswers
  <2>1. checked' \in Checked
    BY <1>4, ContentAssumption DEF CheckAnswers, Checked
  <2> QED
    BY <1>4, <2>1 DEF CheckAnswers
<1>5. CASE Probe
  BY <1>5 DEF Probe
<1>6. CASE SpawnHelper
  BY <1>6 DEF SpawnHelper
<1>7. CASE DownloadReturns
  BY <1>7 DEF DownloadReturns
<1>8. CASE AbandonHelper
  BY <1>8 DEF AbandonHelper
<1>9. CASE Discard
  BY <1>9 DEF Discard
<1>10. CASE VerifyAccepts
  <2>1. stagedHash' \in Content
    BY <1>10 DEF VerifyAccepts, StagedIsWhole
  <2> QED
    BY <1>10, <2>1 DEF VerifyAccepts
<1>11. CASE VerifyRefuses
  BY <1>11 DEF VerifyRefuses
<1>12. CASE MakeBackup
  BY <1>12 DEF MakeBackup
<1>13. CASE LastCheck
  BY <1>13 DEF LastCheck
<1>14. CASE Swap
  <2>1. live' \in Content /\ staging' \in [Attempt -> File]
    BY <1>14 DEF Swap, StagedIsWhole
  <2>2. pc' \in PC /\ linked' \in BOOLEAN /\ UNCHANGED <<outcome, backup>>
    BY <1>14 DEF Swap
  <2>3. UNCHANGED <<attempt, request, cancelAt, desktop, row, intact, threads, world, faults>>
    BY <1>14 DEF Swap
  <2> QED
    BY <2>1, <2>2, <2>3
<1>15. CASE SwapFails
  <2>1. live' \in Content \cup {Nothing} /\ backup' \in [Attempt -> File]
    BY <1>15 DEF SwapFails, RenameBackupOverLive, SwapIsOrdered
  <2>2. /\ staging' \in [Attempt -> File]
        /\ outcome' \in [Attempt -> Over \cup {"none", "running"}]
    BY <1>15 DEF SwapFails
  <2> QED
    BY <1>15, <2>1, <2>2 DEF SwapFails
<1>16. CASE WriteDesktop
  <2>1. desktop' \in Version \cup {Nothing}
    BY <1>16 DEF WriteDesktop, Checked
  <2> QED
    BY <1>16, <2>1 DEF WriteDesktop
<1>17. CASE Upsert
  <2>1. [ver |-> checked.ver, sha |-> stagedHash] \in Row
    BY DEF Checked, Row
  <2>2. row' \in Row /\ intact' \in BOOLEAN
    BY <1>17, <2>1 DEF Upsert
  <2> QED
    BY <1>17, <2>2 DEF Upsert
<1>18. CASE RollbackFile
  <2>1. live' \in Content \cup {Nothing} /\ backup' \in [Attempt -> File]
    BY <1>18 DEF RollbackFile, RenameBackupOverLive, SwapIsOrdered
  <2> QED
    BY <1>18, <2>1 DEF RollbackFile, RenameBackupOverLive
<1>19. CASE RollbackRow
  BY <1>19 DEF RollbackRow
<1>20. CASE DropBackup
  BY <1>20 DEF DropBackup
<1>21. CASE RequestCancel
  BY <1>21 DEF RequestCancel
<1>22. CASE ToggleApp
  BY <1>22 DEF ToggleApp
<1>23. CASE Crash
  BY <1>23 DEF Crash
<1>24. ASSUME NEW a \in Attempt, HelperRequests(a) PROVE TypeOK'
  BY <1>24 DEF HelperRequests
<1>25. ASSUME NEW a \in Attempt, HelperOpens(a) PROVE TypeOK'
  BY <1>25 DEF HelperOpens
<1>26. ASSUME NEW a \in Attempt, HelperLoops(a) PROVE TypeOK'
  BY <1>26 DEF HelperLoops
<1>27. ASSUME NEW a \in Attempt, HelperReads(a) PROVE TypeOK'
  BY <1>27 DEF HelperReads
<1>28. CASE UNCHANGED vars
  BY <1>28 DEF vars
<1> QED
  BY <1>1, <1>2, <1>3, <1>4, <1>5, <1>6, <1>7, <1>8, <1>9, <1>10, <1>11,
     <1>12, <1>13, <1>14, <1>15, <1>16, <1>17, <1>18, <1>19, <1>20,
     <1>21, <1>22, <1>23, <1>24, <1>25, <1>26, <1>27, <1>28
  DEF Next, CallerStep, HelperStep

(* Every step of the caller, of a helper thread and of the surroundings    *)
(* keeps the rest of the invariant.  A case without parts is a step that   *)
(* changes neither the row, nor the managed path, nor a rollback copy.     *)
LEMMA IInvStep == IInv /\ [Next]_vars => IInv'
<1> DEFINE Rest == Numbered /\ RowIsCurrent /\ StagedIsWhole /\ SwapIsOrdered
<1> SUFFICES ASSUME IInv, [Next]_vars PROVE (Rest /\ RowIsHeld)'
  BY TypeStep DEF IInv
<1> USE ContentAssumption, BoundAssumption
    DEF IInv, TypeOK, Numbered, RowIsCurrent, StagedIsWhole, SwapIsOrdered, RowIsHeld,
        Held, Goto, Finish, Fault, NoFault, RemoveStaging, RemoveBackup,
        RenameBackupOverLive, PC, BeforeSwap, AfterSwap, Helper, File,
        Cancelled, disk, threads, request, world
<1>1. CASE Start
  <2>1. attempt' = attempt + 1 /\ attempt' \in Attempt /\ attempt' > attempt
    BY <1>1 DEF Start
  <2>2. backup'[attempt'] = Nothing /\ helper'[attempt'] = "none"
    BY <1>1, <2>1 DEF Start
  <2>3. Numbered'
    BY <1>1, <2>1 DEF Start
  <2>4. RowIsCurrent' /\ StagedIsWhole' /\ SwapIsOrdered'
    BY <1>1, <2>2 DEF Start
  <2>5. RowIsHeld'
    BY <1>1 DEF Start
  <2> QED
    BY <2>3, <2>4, <2>5
<1>2. CASE CheckCancelled
  BY <1>2 DEF CheckCancelled
<1>3. CASE CheckFails
  BY <1>3 DEF CheckFails
<1>4. CASE CheckAnswers
  BY <1>4 DEF CheckAnswers
<1>5. CASE Probe
  BY <1>5 DEF Probe
<1>6. CASE SpawnHelper
  BY <1>6 DEF SpawnHelper
<1>7. CASE DownloadReturns
  BY <1>7 DEF DownloadReturns
<1>8. CASE AbandonHelper
  BY <1>8 DEF AbandonHelper
<1>9. CASE Discard
  BY <1>9 DEF Discard
<1>10. CASE VerifyAccepts
  BY <1>10 DEF VerifyAccepts
<1>11. CASE VerifyRefuses
  BY <1>11 DEF VerifyRefuses
<1>12. CASE MakeBackup
  <2>1. Rest'
    BY <1>12 DEF MakeBackup
  <2>2. Held \subseteq Held'
    (* The copy goes to a name that held nothing. *)
    <3>1. backup[attempt] = Nothing /\ attempt \in Attempt /\ UNCHANGED live
      BY <1>12 DEF MakeBackup
    <3>2. \A a \in Attempt : a # attempt => backup'[a] = backup[a]
      BY <1>12 DEF MakeBackup
    <3> QED
      BY <3>1, <3>2
  <2>3. RowIsHeld'
    BY <1>12, <2>2 DEF MakeBackup
  <2> QED
    BY <2>1, <2>3
<1>13. CASE LastCheck
  BY <1>13 DEF LastCheck
<1>14. CASE Swap
  <2>1. /\ attempt \in Attempt
        /\ staging[attempt] \in Content /\ stagedHash = staging[attempt]
        /\ backup[attempt] = live /\ live = replaced
    BY <1>14 DEF Swap
  <2>2. Rest'
    BY <1>14, <2>1 DEF Swap
  <2>3. RowIsHeld'
    (* What the managed path held is in the rollback copy. *)
    <3> SUFFICES ASSUME intact
                 PROVE  row.sha \in Content /\ \E a \in Attempt : backup[a] = row.sha
      BY <1>14 DEF Swap
    <3> QED
      BY <2>1
  <2> QED
    BY <2>2, <2>3
<1>15. CASE SwapFails
  BY <1>15 DEF SwapFails
<1>16. CASE WriteDesktop
  BY <1>16 DEF WriteDesktop
<1>17. CASE Upsert
  <2>1. CASE /\ row' = [ver |-> checked.ver, sha |-> stagedHash]
             /\ pc' = "dropBackup"
    <3>1. row'.sha = live /\ live \in Content /\ UNCHANGED <<live, backup>>
      BY <1>17, <2>1 DEF Upsert
    <3>2. Numbered' /\ RowIsCurrent' /\ StagedIsWhole'
      BY <1>17, <2>1 DEF Upsert
    <3>4. SwapIsOrdered'
      BY <1>17, <2>1, <3>1 DEF Upsert
    <3>3. RowIsHeld'
      BY <2>1, <3>1
    <3> QED
      BY <3>2, <3>3, <3>4
  <2>2. CASE pc' = "rollbackFile" /\ UNCHANGED <<row, intact>>
    BY <1>17, <2>2 DEF Upsert
  <2> QED
    BY <1>17, <2>1, <2>2 DEF Upsert
<1>18. CASE RollbackFile
  <2>1. Rest'
    BY <1>18 DEF RollbackFile
  <2>2. RowIsHeld'
    (* A rollback copy is at most renamed to the managed path. *)
    BY <1>18 DEF RollbackFile
  <2> QED
    BY <2>1, <2>2
<1>19. CASE RollbackRow
  BY <1>19 DEF RollbackRow
<1>20. CASE DropBackup
  BY <1>20 DEF DropBackup
<1>21. CASE RequestCancel
  BY <1>21 DEF RequestCancel
<1>22. CASE ToggleApp
  BY <1>22 DEF ToggleApp
<1>23. CASE Crash
  BY <1>23 DEF Crash
<1>24. ASSUME NEW a \in Attempt, HelperRequests(a) PROVE (Rest /\ RowIsHeld)'
  BY <1>24 DEF HelperRequests
<1>25. ASSUME NEW a \in Attempt, HelperOpens(a) PROVE (Rest /\ RowIsHeld)'
  BY <1>25 DEF HelperOpens
<1>26. ASSUME NEW a \in Attempt, HelperLoops(a) PROVE (Rest /\ RowIsHeld)'
  BY <1>26 DEF HelperLoops
<1>27. ASSUME NEW a \in Attempt, HelperReads(a) PROVE (Rest /\ RowIsHeld)'
  BY <1>27 DEF HelperReads
<1>28. CASE UNCHANGED vars
  BY <1>28 DEF vars
<1> QED
  BY <1>1, <1>2, <1>3, <1>4, <1>5, <1>6, <1>7, <1>8, <1>9, <1>10, <1>11,
     <1>12, <1>13, <1>14, <1>15, <1>16, <1>17, <1>18, <1>19, <1>20,
     <1>21, <1>22, <1>23, <1>24, <1>25, <1>26, <1>27, <1>28
  DEF Next, CallerStep, HelperStep

-----------------------------------------------------------------------------
(* Every reachable state satisfies the inductive invariant.                *)
THEOREM Invariance == Spec => []IInv
  BY IInvInit, IInvStep, PTL DEF Spec

(* Files, threads and the row keep their types; no partial write is ever   *)
(* at the managed path, however many applies, faults and crashes there are *)
(* (`apply_with_progress`, `stream_to_file_reporting`).                    *)
THEOREM TypeCorrect == Spec => []TypeOK
<1>1. IInv => TypeOK
  BY DEF IInv
<1> QED
  BY <1>1, Invariance, PTL

(* The pipeline implements RecoverableStore: the file the registry names   *)
(* is on disk, in place or as rollback material, until the registry names  *)
(* another one (`apply_with_progress`; the rollback copy goes last).       *)
THEOREM Recoverable == Spec => RollbackMaterialIsKept
<1>1. Init => Store!Init
  <2> SUFFICES ASSUME Init PROVE Store!Init
    OBVIOUS
  <2> QED
    BY ContentAssumption DEF Init, Store!Init, Held
<1>2. IInv /\ IInv' /\ [Next]_vars => [Store!Next]_<<row.sha, Held, intact>>
  <2> SUFFICES ASSUME IInv, IInv', [Next]_vars
               PROVE  Store!Next \/ UNCHANGED <<row.sha, Held, intact>>
    OBVIOUS
  <2>1. Held' \subseteq Content /\ (intact => row.sha \in Held) /\ (intact' => row'.sha \in Held')
    BY DEF Held, IInv, RowIsHeld
  <2>2. CASE UNCHANGED <<row, intact>>
    BY <2>1, <2>2 DEF Store!Next, Store!Store
  <2>3. CASE Upsert /\ ~UNCHANGED <<row, intact>>
    <3>1. UNCHANGED <<live, backup>> /\ intact' = TRUE /\ row'.sha = stagedHash
      BY <2>3 DEF Upsert
    <3>2. live = stagedHash /\ live \in Content
      BY <2>3 DEF Upsert, IInv, SwapIsOrdered
    <3>3. row'.sha \in Held /\ Held' = Held
      BY <3>1, <3>2 DEF Held
    <3> QED
      BY <3>1, <3>3 DEF Store!Next, Store!Commit
  <2>4. CASE RollbackRow
    <3>1. row' = row /\ intact' = intact
      BY <2>4 DEF RollbackRow, IInv, RowIsCurrent
    <3> QED
      BY <2>2, <3>1
  <2>5. CASE [Next]_vars /\ ~Upsert /\ ~RollbackRow
    <3>1. UNCHANGED <<row, intact>>
      BY <2>5 DEF Next, CallerStep, HelperStep, vars, disk, threads, request, world,
         Start, CheckCancelled, CheckFails, CheckAnswers, Probe, SpawnHelper,
         DownloadReturns, AbandonHelper, Discard, VerifyAccepts, VerifyRefuses,
         MakeBackup, LastCheck, Swap, SwapFails, WriteDesktop, RollbackFile, DropBackup,
         RequestCancel, ToggleApp, Crash, HelperRequests, HelperOpens, HelperLoops, HelperReads
    <3> QED
      BY <2>2, <3>1
  <2> QED
    BY <2>2, <2>3, <2>4, <2>5
<1> QED
  BY <1>1, <1>2, Invariance, PTL DEF Spec, RollbackMaterialIsKept, Store!Spec

(* Only a file that passed every check of its own apply, or this apply's   *)
(* rollback copy, is ever moved to the managed path (`apply_with_progress`,*)
(* from the ELF checks to the swap).                                       *)
THEOREM VerifiedOnly == Spec => OnlyVerifiedOrRestored
<1> DEFINE Allowed ==
      \/ /\ pc = "swap"
         /\ Acceptable(live')
         /\ DigestAccepts(live', checked.digest)
      \/ pc = "rollbackFile" /\ live' = replaced
<1>1. IInv /\ [Next]_vars => [live' # live => Allowed]_vars
  <2> SUFFICES ASSUME IInv, [Next]_vars, live' # live PROVE Allowed
    OBVIOUS
  <2>1. CASE Swap
    <3>1. live' = stagedHash /\ pc = "swap"
      BY <2>1 DEF Swap, IInv, StagedIsWhole
    <3> QED
      BY <3>1 DEF IInv, StagedIsWhole
  <2>2. CASE SwapFails
    (* The rollback copy has what the managed path still holds. *)
    BY <2>2 DEF SwapFails, RenameBackupOverLive, IInv, SwapIsOrdered
  <2>3. CASE RollbackFile
    BY <2>3 DEF RollbackFile, RenameBackupOverLive, IInv, SwapIsOrdered
  <2>4. CASE [Next]_vars /\ ~Swap /\ ~SwapFails /\ ~RollbackFile
    BY <2>4 DEF Next, CallerStep, HelperStep, vars, disk, threads, request, world,
       Start, CheckCancelled, CheckFails, CheckAnswers, Probe, SpawnHelper,
       DownloadReturns, AbandonHelper, Discard, VerifyAccepts, VerifyRefuses,
       MakeBackup, LastCheck, WriteDesktop, Upsert, RollbackRow, DropBackup,
       RequestCancel, ToggleApp, Crash, HelperRequests, HelperOpens, HelperLoops, HelperReads
  <2> QED
    BY <2>1, <2>2, <2>3, <2>4
<1> QED
  BY <1>1, Invariance, PTL DEF Spec, OnlyVerifiedOrRestored

-----------------------------------------------------------------------------
(***************************************************************************)
(* How an apply may end.  These parts need IInv, and say what is known of  *)
(* the check's answer, the desktop entry and the faults on the way.        *)
(***************************************************************************)

(* Past the check, the answer offers an update over the row that was read, *)
(* and a readable digest is that of a file of the answer's version.        *)
AnswerIsOffer ==
  /\ pc \notin {"idle", "check"} => OffersUpdate(app, checked)
  /\ checked.digest \in Content => checked.ver = VersionOf[checked.digest]

SuccessAligned ==
  /\ live = row.sha
  /\ desktop \in {Nothing, row.ver}
  /\ ExpectedHash(checked.digest) # Nothing => row.ver = VersionOf[live]

(* Once written, the desktop entry and the row name the answer's version.  *)
VersionsFollow ==
  /\ pc = "upsert" => desktop \in {Nothing, checked.ver}
  /\ pc \in {"desktop", "upsert"} => DigestAccepts(live, checked.digest)
  /\ pc = "dropBackup" => SuccessAligned
  /\ Ended({"ok"}) => SuccessAligned

(* With one fault at most, a rollback has its fault behind it.             *)
RollbackRestores ==
  /\ pc \in {"rollbackFile", "rollbackRow"} => faults >= 1
  /\ (pc = "rollbackRow" /\ faults <= 1 /\ replaced # Nothing) => live = replaced

Outcomes ==
  /\ AnswerIsOffer /\ VersionsFollow /\ RollbackRestores
  /\ EarlyCancelInstallsNothing /\ FailedApplyRestores

(* Before the first apply there is nothing to promise.                     *)
LEMMA OutcomesInit == Init => Outcomes
<1> SUFFICES ASSUME Init PROVE Outcomes
  OBVIOUS
<1>1. pc = "idle" /\ attempt = 0 /\ 0 \notin Attempt /\ cancelAt = "never"
  BY BoundAssumption DEF Init
<1>2. checked.digest = Nothing /\ Nothing \notin Content
  BY ContentAssumption DEF Init
<1> QED
  BY <1>1, <1>2 DEF Outcomes, AnswerIsOffer, VersionsFollow, RollbackRestores,
     EarlyCancelInstallsNothing, FailedApplyRestores, Ended, BeforeSwap

(* Every step keeps the outcomes as they should be.                        *)
LEMMA OutcomesStep == IInv /\ IInv' /\ Outcomes /\ [Next]_vars => Outcomes'
<1> SUFFICES ASSUME IInv, IInv', Outcomes, [Next]_vars PROVE Outcomes'
  OBVIOUS
<1> USE ContentAssumption, BoundAssumption
    DEF IInv, TypeOK, Numbered, RowIsCurrent, StagedIsWhole, SwapIsOrdered,
        Outcomes, AnswerIsOffer, VersionsFollow, SuccessAligned, RollbackRestores,
        EarlyCancelInstallsNothing, FailedApplyRestores, Ended,
        Goto, Finish, Fault, NoFault, RemoveStaging, RemoveBackup, RenameBackupOverLive,
        BeforeSwap, AfterSwap, Cancelled, disk, threads, request, world
<1>1. CASE Start
  BY <1>1 DEF Start
<1>2. CASE CheckCancelled
  BY <1>2 DEF CheckCancelled
<1>3. CASE CheckFails
  BY <1>3 DEF CheckFails
<1>4. CASE CheckAnswers
  BY <1>4 DEF CheckAnswers
<1>5. CASE Probe
  BY <1>5 DEF Probe
<1>6. CASE SpawnHelper
  BY <1>6 DEF SpawnHelper
<1>7. CASE DownloadReturns
  BY <1>7 DEF DownloadReturns
<1>8. CASE AbandonHelper
  BY <1>8 DEF AbandonHelper
<1>9. CASE Discard
  BY <1>9 DEF Discard
<1>10. CASE VerifyAccepts
  BY <1>10 DEF VerifyAccepts
<1>11. CASE VerifyRefuses
  BY <1>11 DEF VerifyRefuses
<1>12. CASE MakeBackup
  BY <1>12 DEF MakeBackup
<1>13. CASE LastCheck
  BY <1>13 DEF LastCheck
<1>14. CASE Swap
  BY <1>14 DEF Swap
<1>15. CASE SwapFails
  BY <1>15 DEF SwapFails
<1>16. CASE WriteDesktop
  BY <1>16 DEF WriteDesktop
<1>17. CASE Upsert
  <2>1. CASE /\ row' = [ver |-> checked.ver, sha |-> stagedHash]
             /\ pc' = "dropBackup"
    <3>1. /\ row'.sha = live' /\ row'.ver = checked.ver /\ live' = live
          /\ UNCHANGED <<checked, desktop, cancelAt, outcome>>
      BY <1>17, <2>1 DEF Upsert
    <3>2. ExpectedHash(checked.digest) # Nothing => checked.ver = VersionOf[live]
      BY <1>17 DEF Upsert, DigestAccepts, ExpectedHash
    <3>3. SuccessAligned'
      BY <1>17, <3>1, <3>2 DEF Upsert
    <3> QED
      BY <1>17, <2>1, <3>3 DEF Upsert
  <2>2. CASE pc' = "rollbackFile" /\ UNCHANGED <<row, intact>> /\ faults' = faults + 1
    BY <1>17, <2>2 DEF Upsert
  <2> QED
    BY <1>17, <2>1, <2>2 DEF Upsert
<1>18. CASE RollbackFile
  BY <1>18 DEF RollbackFile
<1>19. CASE RollbackRow
  BY <1>19 DEF RollbackRow
<1>20. CASE DropBackup
  BY <1>20 DEF DropBackup
<1>21. CASE RequestCancel
  BY <1>21 DEF RequestCancel
<1>22. CASE ToggleApp
  BY <1>22 DEF ToggleApp
<1>23. CASE Crash
  BY <1>23 DEF Crash
<1>24. ASSUME NEW a \in Attempt, HelperRequests(a) PROVE Outcomes'
  BY <1>24 DEF HelperRequests
<1>25. ASSUME NEW a \in Attempt, HelperOpens(a) PROVE Outcomes'
  BY <1>25 DEF HelperOpens
<1>26. ASSUME NEW a \in Attempt, HelperLoops(a) PROVE Outcomes'
  BY <1>26 DEF HelperLoops
<1>27. ASSUME NEW a \in Attempt, HelperReads(a) PROVE Outcomes'
  BY <1>27 DEF HelperReads
<1>28. CASE UNCHANGED vars
  BY <1>28 DEF vars
<1> QED
  BY <1>1, <1>2, <1>3, <1>4, <1>5, <1>6, <1>7, <1>8, <1>9, <1>10, <1>11,
     <1>12, <1>13, <1>14, <1>15, <1>16, <1>17, <1>18, <1>19, <1>20,
     <1>21, <1>22, <1>23, <1>24, <1>25, <1>26, <1>27, <1>28
  DEF Next, CallerStep, HelperStep

(* Every reachable state keeps what ended applies promise.                 *)
THEOREM OutcomesInvariance == Spec => []Outcomes
  BY OutcomesInit, OutcomesStep, Invariance, PTL DEF Spec

(* A cancel seen at any point before the last check installs nothing and   *)
(* does not end as a success, for any number of applies, faults and        *)
(* crashes (`apply_with_progress`, `CancellableNetwork`).                  *)
THEOREM EarlyCancel == Spec => []EarlyCancelInstallsNothing
<1>1. Outcomes => EarlyCancelInstallsNothing
  BY DEF Outcomes
<1> QED
  BY <1>1, OutcomesInvariance, PTL

(* An apply that failed with one fault at most has put the managed file    *)
(* and the row back (`apply_with_progress`, its rollbacks).                *)
THEOREM FailureRestores == Spec => []FailedApplyRestores
<1>1. Outcomes => FailedApplyRestores
  BY DEF Outcomes
<1> QED
  BY <1>1, OutcomesInvariance, PTL

(* After a success the file, the row and the desktop entry are in line     *)
(* (`apply_with_progress`, from the swap to its end).                      *)
THEOREM SuccessIsAligned == Spec => []SuccessAligns
<1>1. Outcomes => SuccessAligns
  BY DEF Outcomes, VersionsFollow, SuccessAligned, SuccessAligns
<1> QED
  BY <1>1, OutcomesInvariance, PTL

(* The registry only moves to a version that supersedes the one it has     *)
(* (`offers_update`, and the order of the check and the upsert).           *)
THEOREM NoDowngrade == Spec => NeverDowngrades
<1>1. IInv /\ Outcomes /\ [Next]_vars =>
        [row'.ver # row.ver => <<row'.ver, row.ver>> \in Supersedes]_vars
  <2> SUFFICES ASSUME IInv, Outcomes, [Next]_vars, row'.ver # row.ver
               PROVE  <<row'.ver, row.ver>> \in Supersedes
    OBVIOUS
  <2>1. CASE Upsert
    <3>1. row = app /\ OffersUpdate(app, checked) /\ row'.ver = checked.ver
      BY <2>1 DEF Upsert, IInv, RowIsCurrent, Outcomes, AnswerIsOffer
    <3> QED
      BY <3>1 DEF OffersUpdate
  <2>2. CASE RollbackRow
    BY <2>2 DEF RollbackRow, IInv, RowIsCurrent
  <2>3. CASE [Next]_vars /\ ~Upsert /\ ~RollbackRow
    BY <2>3 DEF Next, CallerStep, HelperStep, vars, disk, threads, request, world,
       Start, CheckCancelled, CheckFails, CheckAnswers, Probe, SpawnHelper,
       DownloadReturns, AbandonHelper, Discard, VerifyAccepts, VerifyRefuses,
       MakeBackup, LastCheck, Swap, SwapFails, WriteDesktop, RollbackFile, DropBackup,
       RequestCancel, ToggleApp, Crash, HelperRequests, HelperOpens, HelperLoops, HelperReads
  <2> QED
    BY <2>1, <2>2, <2>3
<1> QED
  BY <1>1, Invariance, OutcomesInvariance, PTL DEF Spec, NeverDowngrades

-----------------------------------------------------------------------------
(***************************************************************************)
(* Who removes the staging file: the caller while it waits or has the      *)
(* result, the abandoned helper, which then has been told to stop, or      *)
(* nobody, because it was never made or has been moved into place.         *)
(***************************************************************************)
Busy == {"starting", "opening", "looping", "reading"}

StagingIsOwned ==
  /\ pc # "idle" => outcome[attempt] = "running"
  /\ pc \in {"check", "probe", "spawn"} => helper[attempt] = "none"
  /\ pc \in AfterSwap => staging[attempt] = Nothing /\ helper[attempt] = "ok"
  /\ (pc = "discard" /\ helper[attempt] \in Busy) => helperStop[attempt]
  /\ crashes = 0 => \A a \in Attempt :
       /\ helper[a] \in {"none", "starting", "opening"} => staging[a] = Nothing
       /\ (outcome[a] \in Over /\ helper[a] \in Busy) => helperStop[a]
       /\ (outcome[a] \in Over /\ helper[a] \notin Busy) => staging[a] = Nothing

(* At first there is no staging file.                                      *)
LEMMA StagingInit == Init => StagingIsOwned
  BY DEF Init, StagingIsOwned, Busy, Over, AfterSwap

(* Each step hands the staging file on or removes it.                      *)
LEMMA StagingStep == IInv /\ IInv' /\ StagingIsOwned /\ [Next]_vars => StagingIsOwned'
<1> SUFFICES ASSUME IInv, IInv', StagingIsOwned, [Next]_vars PROVE StagingIsOwned'
  OBVIOUS
<1> USE BoundAssumption
    DEF IInv, TypeOK, Numbered, StagedIsWhole, StagingIsOwned, Busy,
        Goto, Finish, Fault, NoFault, RemoveStaging, RemoveBackup,
        PC, BeforeSwap, AfterSwap, Over, Helper, Cancelled, disk, threads, request, world
<1>1. CASE Start
  BY <1>1 DEF Start
<1>2. CASE CheckCancelled
  BY <1>2 DEF CheckCancelled
<1>3. CASE CheckFails
  BY <1>3 DEF CheckFails
<1>4. CASE CheckAnswers
  BY <1>4 DEF CheckAnswers
<1>5. CASE Probe
  BY <1>5 DEF Probe
<1>6. CASE SpawnHelper
  BY <1>6 DEF SpawnHelper
<1>7. CASE DownloadReturns
  BY <1>7 DEF DownloadReturns
<1>8. CASE AbandonHelper
  BY <1>8 DEF AbandonHelper
<1>9. CASE Discard
  BY <1>9 DEF Discard
<1>10. CASE VerifyAccepts
  BY <1>10 DEF VerifyAccepts
<1>11. CASE VerifyRefuses
  BY <1>11 DEF VerifyRefuses
<1>12. CASE MakeBackup
  BY <1>12 DEF MakeBackup
<1>13. CASE LastCheck
  BY <1>13 DEF LastCheck
<1>14. CASE Swap
  BY <1>14 DEF Swap
<1>15. CASE SwapFails
  BY <1>15 DEF SwapFails
<1>16. CASE WriteDesktop
  BY <1>16 DEF WriteDesktop
<1>17. CASE Upsert
  BY <1>17 DEF Upsert
<1>18. CASE RollbackFile
  BY <1>18 DEF RollbackFile
<1>19. CASE RollbackRow
  BY <1>19 DEF RollbackRow
<1>20. CASE DropBackup
  BY <1>20 DEF DropBackup
<1>21. CASE RequestCancel
  BY <1>21 DEF RequestCancel
<1>22. CASE ToggleApp
  BY <1>22 DEF ToggleApp
<1>23. CASE Crash
  BY <1>23 DEF Crash
<1>24. ASSUME NEW a \in Attempt, HelperRequests(a) PROVE StagingIsOwned'
  BY <1>24 DEF HelperRequests
<1>25. ASSUME NEW a \in Attempt, HelperOpens(a) PROVE StagingIsOwned'
  BY <1>25 DEF HelperOpens
<1>26. ASSUME NEW a \in Attempt, HelperLoops(a) PROVE StagingIsOwned'
  BY <1>26 DEF HelperLoops
<1>27. ASSUME NEW a \in Attempt, HelperReads(a) PROVE StagingIsOwned'
  BY <1>27 DEF HelperReads
<1>28. CASE UNCHANGED vars
  BY <1>28 DEF vars
<1> QED
  BY <1>1, <1>2, <1>3, <1>4, <1>5, <1>6, <1>7, <1>8, <1>9, <1>10, <1>11,
     <1>12, <1>13, <1>14, <1>15, <1>16, <1>17, <1>18, <1>19, <1>20,
     <1>21, <1>22, <1>23, <1>24, <1>25, <1>26, <1>27, <1>28
  DEF Next, CallerStep, HelperStep

(* Once an apply and its helper are over, and whichever of them saw the    *)
(* cancel first, its staging file is gone (`stream_to_file_reporting`,     *)
(* `CancellableNetwork::download_to_file`).                                *)
THEOREM NothingStaysStaged == Spec => []NoStagingLeft
<1>1. StagingIsOwned => NoStagingLeft
  BY DEF StagingIsOwned, NoStagingLeft, Busy
<1> QED
  BY <1>1, StagingInit, StagingStep, Invariance, PTL DEF Spec
=============================================================================
