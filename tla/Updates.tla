------------------------------- MODULE Updates -------------------------------
(***************************************************************************)
(* Checking and updating all apps (bridge/src/api/updates.rs, scan and     *)
(* check of src/src/updates_service.rs, --update --all, --list-updates and *)
(* --fetch-updates of src/src/cli.rs).  A run scans every app, and an      *)
(* update run then applies the offers in turn; meanwhile releases appear,  *)
(* apps start and stop, the user sets sources and cancels.  The steps      *)
(* inside one apply are those of UpdateApply; here it checks again, looks  *)
(* whether the app runs, and replaces the file or fails.                   *)
(***************************************************************************)
EXTENDS Sources, FiniteSets, SequencesExt

CONSTANTS
  App,         \* apps, in the order the registry lists them
  Files,       \* for each app, the update information its file may carry
  Built,       \* for each app, the architectures its row may have
  Typed,       \* configurations the user may type
  Releases,    \* for each app, the releases its source may publish
  Noisy,       \* apps with the word "running" in a name that errors quote
  MaxRuns,     \* bound: runs
  MaxWorld     \* bound: releases, starts and stops, set sources, refreshes

ASSUME UpdatesAssumption ==
  /\ App \in Seq(Range(App)) \ {<<>>} /\ Noisy \subseteq Range(App)
  /\ Files \in [Range(App) -> SUBSET (Config \cup {NoConfig})] /\ Typed \subseteq Config
  /\ Releases \in [Range(App) -> SUBSET Release]
  /\ Built \in [Range(App) -> SUBSET Word]
  /\ {"old", "unpublished"} \subseteq Word
  /\ MaxRuns \in Nat /\ MaxWorld \in Nat

VARIABLES
  row,         \* the registry's rows
  release,     \* what each app's source publishes now
  running,     \* the apps that run
  run,         \* the run under way
  cancel,      \* its cancel flag
  moved,       \* history: the apps whose row or release changed since the run began
  early,       \* history: the cancel came while an offer had not been begun
  runs, world  \* counters of the bounds

vars == <<row, release, running, run, cancel, moved, early, runs, world>>

AppSet == Range(App)

Idle == [at |-> "idle", front |-> "window", all |-> FALSE, force |-> FALSE, todo |-> <<>>,
         offers |-> <<>>, applied |-> {}, failed |-> {}, skipped |-> {}, unchecked |-> {},
         cancelled |-> FALSE, checked |-> Failed]

(* A row taken over from the older registry may say no architecture.       *)
Init ==
  /\ \E fields \in [AppSet -> UNION Range(Files)], owned \in [AppSet -> BOOLEAN],
        built \in [AppSet -> UNION Range(Built)] :
       /\ \A a \in AppSet : fields[a] \in Files[a] /\ built[a] \in Built[a]
       /\ row = [a \in AppSet |-> [version |-> Number(<<1>>, 0), sha |-> "old", arch |-> built[a],
                                  config |-> NoConfig, fields |-> fields[a],
                                  owned |-> owned[a]]]
  /\ release \in [AppSet -> UNION Range(Releases)]
  /\ \A a \in AppSet : release[a] \in Releases[a]
  /\ running = {} /\ run = Idle /\ cancel = FALSE
  /\ moved = {} /\ early = FALSE
  /\ runs = 0 /\ world = 0

At(place) == run.at = place
Now == Head(run.todo)
Rest == Tail(run.todo)
HasSource(a) == row[a].config # NoConfig \/ row[a].fields # NoConfig
World == UNCHANGED <<row, release, running, moved, world>>
Left == UNCHANGED <<early, runs>>

-----------------------------------------------------------------------------
(* The scan, `list_updates_detailed`. *)

(* A window's run, `apply_all_updates` or `check_updates`, or a command's. *)
Begin ==
  /\ At("idle") /\ runs < MaxRuns /\ runs' = runs + 1
  /\ \E front \in {"window", "cli"}, all, force \in BOOLEAN :
       /\ force => all
       /\ run' = [Idle EXCEPT !.at = "scan", !.front = front, !.all = all, !.force = force,
                              !.todo = App]
  /\ cancel' = FALSE /\ early' = FALSE /\ moved' = {}
  /\ UNCHANGED <<row, release, running, world>>

(* The flag is looked at before a check and after it: a check that a       *)
(* cancel cut short is no failed check.                                    *)
ScanCancelled ==
  /\ At("scan") /\ run.todo # <<>> /\ cancel
  /\ run' = [run EXCEPT !.cancelled = TRUE, !.at = "ended"]
  /\ UNCHANGED cancel /\ World /\ Left

(* An app without a source is not checked.                                 *)
ScanPasses ==
  /\ At("scan") /\ run.todo # <<>> /\ ~cancel /\ ~HasSource(Now)
  /\ run' = [run EXCEPT !.todo = Rest]
  /\ UNCHANGED cancel /\ World /\ Left

(* The answer of a source, or none.                                        *)
ScanOne ==
  /\ At("scan") /\ run.todo # <<>> /\ ~cancel /\ HasSource(Now)
  /\ \E checked \in {Check(row[Now], release[Now]), Failed} :
       run' = [run EXCEPT !.todo = Rest,
                 !.unchecked = IF checked.ok THEN @ ELSE @ \cup {Now},
                 !.offers = IF OffersUpdate(row[Now], checked) THEN Append(@, Now) ELSE @]
  /\ UNCHANGED cancel /\ World /\ Left

Scanned ==
  /\ At("scan") /\ run.todo = <<>>
  /\ run' = [run EXCEPT !.at = IF run.all THEN "apply" ELSE "ended", !.todo = run.offers]
  /\ UNCHANGED cancel /\ World /\ Left

-----------------------------------------------------------------------------
(* Applying the offers. *)

(* Mutant: the loop stops without noting the cancel.                       *)
ApplyStops ==
  /\ At("apply") /\ run.todo # <<>> /\ cancel
  /\ run' = [run EXCEPT !.at = "ended"]
  /\ UNCHANGED cancel /\ World /\ Left

ApplyCancelled ==
  /\ At("apply") /\ run.todo # <<>> /\ cancel
  /\ run' = [run EXCEPT !.cancelled = TRUE, !.at = "ended"]
  /\ UNCHANGED cancel /\ World /\ Left

(* Only an app this program owns is updated.                               *)
PassOver ==
  /\ At("apply") /\ run.todo # <<>> /\ ~cancel /\ ~row[Now].owned
  /\ run' = [run EXCEPT !.todo = Rest]
  /\ UNCHANGED cancel /\ World /\ Left

(* A failed update counts as skipped when its error has the word "running" *)
(* in it.  The text of an error may quote the app's names.                 *)
Sorted(a, text) ==
  IF text = "is running" \/ (text = "quotes names" /\ a \in Noisy)
  THEN [run EXCEPT !.at = "apply", !.todo = Rest, !.skipped = @ \cup {a}]
  ELSE [run EXCEPT !.at = "apply", !.todo = Rest, !.failed = @ \cup {a}]

Text == {"plain", "quotes names"}

(* The apply checks the source again.                                      *)
ApplyCheck ==
  /\ At("apply") /\ run.todo # <<>> /\ ~cancel /\ row[Now].owned
  /\ \E checked \in {Check(row[Now], release[Now]), Failed} :
       IF OffersUpdate(row[Now], checked)
       THEN run' = [run EXCEPT !.at = "probe", !.checked = checked]
       ELSE \E text \in Text : run' = Sorted(Now, text)
  /\ UNCHANGED cancel /\ World /\ Left

(* A cancel seen inside an apply ends that apply as failed.                *)
CutShort ==
  /\ cancel /\ (At("probe") \/ At("replace"))
  /\ run' = Sorted(Now, "plain")
  /\ UNCHANGED cancel /\ World /\ Left

Probe ==
  /\ At("probe") /\ ~cancel
  /\ IF Now \in running /\ ~run.force
     THEN run' = Sorted(Now, "is running")
     ELSE run' = [run EXCEPT !.at = "replace"]
  /\ UNCHANGED <<cancel, early, runs>> /\ World

(* Mutant: the digest is recorded, the version stays.                      *)
RecordedDigest(app, checked) == [app EXCEPT !.sha = checked.asset.digest]

(* Download, verification, swap and registration.  The version recorded is *)
(* the tag's, without its decoration, and the digest is of the file that   *)
(* was verified.                                                           *)
Recorded(app, checked) ==
  [app EXCEPT !.version = Normalize(checked.version),
              !.sha = IF checked.asset.digest = "none" THEN "unpublished" ELSE checked.asset.digest]

(* The file is for an architecture the program installs, and for the one   *)
(* of the installed file unless that is unknown.                           *)
Suits(app, asset) ==
  \/ asset.arch = "unsaid"
  \/ asset.arch \in {"x86", "arm"} /\ app.arch \in {asset.arch, "unknown"}

Replace ==
  /\ At("replace") /\ Suits(row[Now], run.checked.asset)
  /\ row' = [row EXCEPT ![Now] = Recorded(@, run.checked)]
  /\ run' = [run EXCEPT !.at = "apply", !.todo = Rest, !.applied = @ \cup {Now}]
  /\ UNCHANGED <<cancel, release, running, moved, world>> /\ Left

ReplaceFails ==
  /\ At("replace") /\ ~cancel
  /\ \E text \in Text : run' = Sorted(Now, text)
  /\ UNCHANGED cancel /\ World /\ Left

Applied ==
  /\ At("apply") /\ run.todo = <<>>
  /\ run' = [run EXCEPT !.at = "ended"]
  /\ UNCHANGED cancel /\ World /\ Left

-----------------------------------------------------------------------------
(* The answer. *)

(* `apply_all_updates` and `check_updates_on`.                             *)
WindowOutcome ==
  IF run.cancelled THEN "cancelled"
  ELSE IF run.all /\ (run.failed # {} \/ run.unchecked # {}) THEN "failed" ELSE "ok"

(* The exit code of --update --all, which does not count checks that       *)
(* failed, and of the commands that only check.                            *)
BatchExit ==
  IF run.failed # {} THEN "failed"
  ELSE IF run.applied = {} /\ run.skipped # {} THEN "running" ELSE "ok"

CheckExit == IF run.unchecked # {} THEN "network" ELSE "ok"

Outcome ==
  IF run.front = "window" THEN WindowOutcome ELSE IF run.all THEN BatchExit ELSE CheckExit

Answer ==
  /\ At("ended")
  /\ run' = Idle /\ cancel' = FALSE
  /\ UNCHANGED early /\ World /\ UNCHANGED runs

(* Only a window's run can be cancelled.                                   *)
Cancel ==
  /\ ~At("idle") /\ ~At("ended") /\ run.front = "window" /\ ~cancel
  /\ cancel' = TRUE
  /\ early' = \/ ~At("scan") /\ ~At("apply") /\ Len(run.todo) > 1
              \/ (At("scan") \/ At("apply")) /\ run.todo # <<>>
  /\ UNCHANGED <<run, runs>> /\ World

-----------------------------------------------------------------------------
(* What happens meanwhile. *)

Publish(a) ==
  /\ \E r \in Releases[a] : release' = [release EXCEPT ![a] = r]
  /\ moved' = moved \cup {a} /\ UNCHANGED <<row, running>>

StartOrStop(a) ==
  /\ running' = IF a \in running THEN running \ {a} ELSE running \cup {a}
  /\ UNCHANGED <<row, release, moved>>

(* `set_source`, with what the file adds to what was typed.                *)
SetSource(a) ==
  /\ \E typed \in Typed :
       LET config == NormalizeConfig(FillConfig(typed, row[a].fields), row[a].fields)
       IN  ValidConfig(config) /\ row' = [row EXCEPT ![a].config = config]
  /\ moved' = moved \cup {a} /\ UNCHANGED <<release, running>>

(* `unset_source`: the app goes back to what its file carries.             *)
UnsetSource(a) ==
  /\ row[a].config # NoConfig /\ row' = [row EXCEPT ![a].config = NoConfig]
  /\ moved' = moved \cup {a} /\ UNCHANGED <<release, running>>

Meanwhile(a) ==
  /\ world < MaxWorld /\ world' = world + 1
  /\ Publish(a) \/ StartOrStop(a) \/ SetSource(a) \/ UnsetSource(a)
  /\ UNCHANGED <<run, cancel, early, runs>>

RunStep ==
  \/ ScanCancelled \/ ScanPasses \/ ScanOne \/ Scanned
  \/ ApplyCancelled \/ PassOver \/ ApplyCheck \/ CutShort \/ Probe \/ Replace \/ ReplaceFails \/ Applied \/ Answer

Next == Begin \/ RunStep \/ Cancel \/ \E a \in AppSet : Meanwhile(a)

Spec == Init /\ [][Next]_vars

-----------------------------------------------------------------------------
(* Properties. *)

Row == [version : Version, sha : Word, arch : Word, config : Config \cup {NoConfig},
        fields : Config \cup {NoConfig}, owned : BOOLEAN]
Checked == {Failed, NoOffer} \cup [ok : BOOLEAN, available : BOOLEAN, version : Version, asset : Asset]
Run == [at : {"idle", "scan", "apply", "probe", "replace", "ended"}, front : {"window", "cli"},
        all : BOOLEAN, force : BOOLEAN, todo : Seq(AppSet), offers : Seq(AppSet),
        applied : SUBSET AppSet, failed : SUBSET AppSet, skipped : SUBSET AppSet,
        unchecked : SUBSET AppSet, cancelled : BOOLEAN, checked : Checked]

TypeOK ==
  /\ row \in [AppSet -> Row] /\ release \in [AppSet -> Release]
  /\ running \subseteq AppSet /\ moved \subseteq AppSet
  /\ run \in Run /\ cancel \in BOOLEAN /\ early \in BOOLEAN
  /\ {runs, world} \subseteq Nat

\* A window's batch that ends well and skips nothing leaves every owned app
\* at what its source publishes, unless that moved meanwhile.
OkMeansUpToDate ==
  run.at = "ended" /\ run.front = "window" /\ run.all /\ Outcome = "ok" /\ run.skipped = {} =>
    \A a \in AppSet \ moved :
      row[a].owned => ~OffersUpdate(row[a], Check(row[a], release[a]))

\* A cancel that came while an app was still to be checked or an offer to be
\* begun is reported as one.
CancelledIsReported == early /\ run.at = "ended" => run.cancelled

\* A check of a GitHub source picks a file that the pattern means, one built
\* for the app's architecture if there is one, none that names another unless
\* the app's is unknown, and fails only when no file of the release is fit; if
\* names and pattern are such as the matcher is meant for, as long as its
\* limits allow and without a star in a name: a star of the pattern that meets
\* one of the name is taken for a letter (updates_sources.rs:575-600, 640).
CheckPicksTheFile ==
  \A a \in AppSet :
    LET config == EffectiveSource(row[a])
        answer == Check(row[a], release[a])
        fit == {asset \in Range(release[a].assets) :
                  /\ MeansMatch(config.pattern, asset.name) /\ HostAllowed(config, asset.host)
                  /\ row[a].arch = "unknown" \/ asset.arch \in {"unsaid", row[a].arch}}
        own == {asset \in fit : asset.arch = row[a].arch}
    IN  /\ config # NoConfig /\ config.manager = "github" /\ ValidConfig(config)
        /\ Matchable(config, release[a])
        => /\ answer.ok <=> fit # {}
           /\ answer.ok /\ answer.available =>
                answer.asset \in (IF own # {} THEN own ELSE fit)

\* The order of versions, from its meaning: the first unequal part decides.
Newer(a, b) ==
  LET places == DOMAIN a.nums \cup DOMAIN b.nums
  IN  \/ \E i \in places : /\ Part(a, i) < Part(b, i)
                            /\ \A j \in 1..(i - 1) : Part(a, j) = Part(b, j)
      \/ /\ \A i \in places : Part(a, i) = Part(b, i)
         /\ a.tail # 0 /\ (b.tail = 0 \/ a.tail < b.tail)

\* An update never goes back: between versions that are numbers it goes to a
\* newer one, or to another file of the same.
UpdatesGoForward ==
  [][\A a \in AppSet :
       LET from == row[a].version
           to == row'[a].version
       IN  row'[a].sha # row[a].sha /\ SplitNumeric(from) /\ SplitNumeric(to) =>
             Same(from, to) \/ Newer(from, to)]_vars

=============================================================================
