------------------------------ MODULE Launching ------------------------------
(***************************************************************************)
(* What the manager starts programs for: extraction tools, the probe of the *)
(* process table, the probe of the NixOS shim and the applications          *)
(* themselves (src/src/launch.rs, src/src/proctable.rs over ProcessRun).    *)
(* One application is followed; its processes are known by the command      *)
(* line they were started with.                                             *)
(***************************************************************************)
EXTENDS ProcessRun

CONSTANT MaxRequests        \* bound: requests to the runner

ASSUME LaunchingAssumption == MaxRequests \in Nat

VARIABLES
    use,        \* what the runner's request is for
    sandboxed,  \* in_flatpak()
    nix,        \* nix_needs_appimage_run()
    arguments,  \* the row of the application has launch arguments
    app,        \* command lines of the application's processes on the host
    seen,       \* app when pgrep read the process table
    path,       \* how the row spells the file, fixed from the start
    answer,     \* what pgrep printed and exited with
    verdict,    \* the last answer to "is it running?", with what it read
    requests

callVars == <<use, sandboxed, nix, path, arguments, app, seen, answer, verdict, requests>>

launchVars == <<procVars, callVars>>

(* "bare": the path alone; "args": the path and arguments; "shim": the     *)
(* NixOS helper with the path as its argument.                             *)
Lines == {"bare", "args", "shim"}

Probes == {"pids", "among"}

(* tagged: the batch's fixed pattern, upper and lower case told apart, is   *)
(* in the path; literal: read as a pattern, the path means itself; real: it *)
(* is the canonical path, which the queries ask for, while the application  *)
(* is started by the path of its row.                                       *)
Paths == [tagged : BOOLEAN, literal : BOOLEAN, real : BOOLEAN]

(* "mute": pgrep ended without an answer, by a signal or because the host   *)
(* could not be asked, which reads as exit code 1, or as another code:      *)
(* "error".                                                                 *)
PgrepAnswers == {"match", "nomatch", "mute", "error"}

(* host: the code takes the verdict for the host's; saw: what ran when the  *)
(* table was read; broken: the host's answer was none, or was cut.          *)
Verdicts == [by : {"none"} \cup Probes, host : BOOLEAN, running : BOOLEAN,
             saw : SUBSET Lines, broken : BOOLEAN]

LaunchTypeOK ==
    /\ ProcessTypeOK
    /\ use \in {"none", "tool", "nixprobe", "launch"} \cup Probes
    /\ sandboxed \in BOOLEAN /\ nix \in BOOLEAN /\ arguments \in BOOLEAN
    /\ path \in Paths
    /\ app \subseteq Lines /\ seen \subseteq Lines
    /\ answer \in {"none"} \cup PgrepAnswers
    /\ verdict \in Verdicts
    /\ requests \in 0..MaxRequests

LaunchInit ==
    /\ ProcessInit
    /\ use = "none"
    /\ sandboxed \in BOOLEAN /\ nix \in BOOLEAN /\ path \in Paths
    /\ arguments = FALSE
    /\ app = {} /\ seen = {} /\ answer = "none"
    /\ verdict = [by |-> "none", host |-> FALSE, running |-> FALSE, saw |-> {},
                  broken |-> FALSE]
    /\ requests = 0

Idle == pc \in {"idle", "done"} /\ use = "none"

Ask(u, d) ==
    /\ Request(d)
    /\ use' = u /\ requests' = requests + 1
    /\ answer' = "none"
    /\ UNCHANGED <<sandboxed, nix, path, arguments, app, seen, verdict>>

EditArguments ==
    /\ Idle
    /\ arguments' = ~arguments
    /\ UNCHANGED <<procVars, use, sandboxed, nix, path, app, seen, answer, verdict, requests>>

RunTool == Idle /\ requests < MaxRequests /\ Ask("tool", FALSE)

(* On NixOS the shim is probed first. *)
Launch ==
    /\ Idle /\ requests < MaxRequests
    /\ IF nix THEN Ask("nixprobe", FALSE) ELSE Ask("launch", TRUE)

(* The shim's exit code is not looked at. *)
NixProbed ==
    /\ use = "nixprobe" /\ pc = "done"
    /\ IF result.refused \/ result.timedOut
       THEN /\ use' = "none"
            /\ UNCHANGED <<procVars, sandboxed, nix, path, arguments, app, seen, answer, verdict, requests>>
       ELSE /\ Request(TRUE)
            /\ use' = "launch"
            /\ UNCHANGED <<sandboxed, nix, path, arguments, app, seen, answer, verdict, requests>>

Line == IF nix THEN "shim" ELSE IF arguments THEN "args" ELSE "bare"

(* Mutant: the batch matches the path alone. *)
FoundExact(probe) ==
    IF path.real /\ (IF probe = "pids" THEN path.literal ELSE path.tagged) THEN {"bare"} ELSE {}

(* The command lines a probe finds. pgrep -x -f reads the path it is given  *)
(* as a pattern for a whole line; the batch takes the lines that hold        *)
(* ".AppImage" and looks for the path, or the path and a space, in front.   *)
Found(probe) ==
    IF probe = "pids"
    THEN IF path.real /\ path.literal THEN {"bare"} ELSE {}
    ELSE IF path.real /\ path.tagged THEN {"bare", "args"} ELSE {}

(* The local table compares the executable of each process. *)
FoundLocally == {"bare", "args"}

(* What pgrep may say. A pattern may match other programs too, so the batch *)
(* succeeds without this one, and the single query for another one.         *)
Says(probe, code) ==
    {a \in PgrepAnswers :
        /\ a = "match" => code = "ok" /\ (probe = "among" => app \cap Found(probe) # {})
        /\ a = "nomatch" => /\ app \cap Found(probe) = {}
                            /\ probe = "pids" => code = "failed"
        /\ a \in {"mute", "error"} => code = "failed"}

(* The runner moves, and the reaper of a program launched earlier. The      *)
(* application starts with its child and may outlive it; pgrep answers when *)
(* it exits.                                                               *)
Runs ==
    /\ use # "none" \/ detached
    /\ ProcessStep
    /\ (use # "tool") => (helper' = helper)
    /\ app' = IF use = "launch" /\ child = "none" /\ child' = "running"
              THEN app \cup {Line} ELSE app
    /\ IF use \in Probes /\ child = "running" /\ child' = "exited"
       THEN /\ seen' = app
            /\ answer' \in Says(use, status')
       ELSE UNCHANGED <<seen, answer>>
    /\ UNCHANGED <<use, sandboxed, nix, path, arguments, verdict, requests>>

(* The program of a tool or a launch is done with. *)
Returned ==
    /\ use \in {"tool", "launch"} /\ pc = "done"
    /\ use' = "none"
    /\ UNCHANGED <<procVars, sandboxed, nix, path, arguments, app, seen, answer, verdict, requests>>

(* The application is gone, whatever started it. *)
AppEnds ==
    /\ \E line \in app : app' = app \ {line}
    /\ UNCHANGED <<procVars, use, sandboxed, nix, path, arguments, seen, answer, verdict, requests>>

(* Outside a sandbox the local table answers; inside it the host is asked. *)
Query(probe) ==
    /\ Idle /\ requests < MaxRequests
    /\ IF sandboxed
       THEN Ask(probe, FALSE)
       ELSE /\ verdict' = [by |-> probe, host |-> FALSE, running |-> app \cap FoundLocally # {},
                            saw |-> app, broken |-> FALSE]
            /\ requests' = requests + 1
            /\ UNCHANGED <<procVars, use, sandboxed, nix, path, arguments, app, seen, answer>>

(* Output past the bound ends a run with code 1; what was kept is parsed.   *)
(* The bound stands for that of 4096 lines too.                             *)
Cut == result.out > MaxOutput

(* A probe that was refused, timed out or failed with another code is no   *)
(* answer: the local table is read instead, and in a sandbox it is empty.  *)
HostAnswered == ~result.refused /\ ~result.timedOut /\ (answer # "error" \/ Cut)

(* The line of the application may be in the part of the list that was cut. *)
Answered ==
    /\ use \in Probes /\ pc = "done"
    /\ use' = "none"
    /\ \E kept \in BOOLEAN :
          /\ ~kept => Cut /\ use = "among"
          /\ verdict' = [by |-> use, host |-> HostAnswered,
                         running |-> HostAnswered /\ answer = "match" /\ kept, saw |-> seen,
                         broken |-> answer \in {"none", "mute"} \/ Cut]
    /\ UNCHANGED <<procVars, sandboxed, nix, path, arguments, app, seen, answer, requests>>

LaunchNext ==
    \/ EditArguments \/ RunTool \/ Launch \/ NixProbed \/ Runs \/ Returned
    \/ AppEnds \/ Answered
    \/ \E probe \in Probes : Query(probe)

(* The runner's threads run, time passes, and finished requests return.    *)
LaunchFairness ==
    /\ WF_launchVars(Runs /\ RunnerStep)
    /\ WF_launchVars(Runs /\ ReaderTakes)
    /\ WF_launchVars(Runs /\ ReaderEnds)
    /\ WF_launchVars(Runs /\ DetachedReaps)

LaunchSpec == LaunchInit /\ [][LaunchNext]_launchVars /\ LaunchFairness

-----------------------------------------------------------------------------
(* "Not running" is true of the moment the table was read. Outside a        *)
(* sandbox, of an application started by itself or with arguments. From the *)
(* host, if pgrep answered in full and the row holds the canonical path: of *)
(* both for a batch over a path with ".AppImage" in it (proctable.rs:102,   *)
(* 118), of one without arguments for the single query and a path that is a *)
(* pattern for itself (proctable.rs:169). It does not say that a query that *)
(* failed is no "not running": in a sandbox the code makes it one.          *)
NotRunningIsTrue ==
    (verdict.by # "none" /\ ~verdict.running) =>
        /\ ~sandboxed => {"bare", "args"} \cap verdict.saw = {}
        /\ (sandboxed /\ verdict.host /\ ~verdict.broken /\ path.real) =>
              /\ verdict.by = "among" /\ path.tagged => {"bare", "args"} \cap verdict.saw = {}
              /\ verdict.by = "pids" /\ path.literal => "bare" \notin verdict.saw
=============================================================================
