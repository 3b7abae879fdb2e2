----------------------------- MODULE Preferences -----------------------------
(***************************************************************************)
(* The settings file and the login entry (src/src/settings.rs,             *)
(* bridge/src/api/settings.rs, sync_autostart and reconcile_autostart of   *)
(* src/src/controller.rs), worked on by calls of several processes: every  *)
(* call loads the file into a copy of its own, and every changed           *)
(* preference writes the whole copy back.                                  *)
(***************************************************************************)
EXTENDS Naturals, Sequences

CONSTANTS
  Caller,      \* calls that may be under way at once: windows and commands
  MaxNames,    \* backup names that are tried; 1000 in the code
  MaxCalls,    \* bound: calls
  MaxFaults,   \* bound: file operations that fail and processes that die, together
  MaxUser      \* bound: changes from outside the program

ASSUME PreferencesAssumption == {MaxNames, MaxCalls, MaxFaults, MaxUser} \subseteq Nat

VARIABLES
  config,      \* what is under the settings file's name
  readable,    \* whether its permissions let it be read
  aside,       \* what is under each backup name
  links,       \* whether the file system has hard links
  login,       \* the login entry
  call,        \* the calls
  taken,       \* history: files a call could not use and took from the name all the same
  suspect,     \* history: something happened that only the next start repairs
  calls, faults, user   \* counters of the bounds

files == <<config, readable, aside, links, login>>
vars == <<files, call, taken, suspect, calls, faults, user>>

\* Two keys stand for the file: the background checks and any other preference.
Good(bg, other) == [kind |-> "ok", id |-> 0, bg |-> bg, other |-> other]
Corrupt(i) == [kind |-> "corrupt", id |-> i, bg |-> FALSE, other |-> FALSE]
NoFile == [kind |-> "none", id |-> 0, bg |-> FALSE, other |-> FALSE]
File == {Good(b, o) : b, o \in BOOLEAN} \cup {Corrupt(i) : i \in 0..MaxUser} \cup {NoFile}

BackupName == 1..MaxNames
Login == {"none", "foreign", "old", "new"}   \* "old": ours, of a build without --background
Ours == {"old", "new"}
Key == {"bg", "other"}
Patch == {<<[key |-> "bg", to |-> v]>> : v \in BOOLEAN}
         \cup {<<[key |-> "bg", to |-> v], [key |-> "other", to |-> TRUE]>> : v \in BOOLEAN}

\* `SettingsStore::load`: an absent file means the defaults, and so do an
\* unreadable and a corrupt one, which are also remembered as such.
Loaded ==
  LET known == readable /\ config.kind = "ok"
  IN  [bg |-> known /\ config.bg, other |-> known /\ config.other,
       unreadable |-> config.kind # "none" /\ ~readable,
       corrupt |-> readable /\ config.kind = "corrupt"]

LoadError(store) == store.unreadable \/ store.corrupt

Resting == [at |-> "idle", store |-> [bg |-> FALSE, other |-> FALSE, unreadable |-> FALSE, corrupt |-> FALSE],
            seen |-> NoFile, todo |-> <<>>, name |-> 0, saw |-> "none",
            flag |-> FALSE, alone |-> FALSE]

Init ==
  /\ config \in {Good(TRUE, FALSE), Good(FALSE, FALSE), Corrupt(0), NoFile}
  /\ readable \in {r \in BOOLEAN : config.kind = "none" => r}
  /\ aside = [n \in BackupName |-> NoFile]
  /\ links \in BOOLEAN
  /\ login \in {"foreign", "old", "new"}
  /\ call = [c \in Caller |-> Resting]
  /\ taken = {} /\ suspect = TRUE
  /\ calls = 0 /\ faults = 0 /\ user = 0

At(c, place) == call[c].at = place
Go(c, place) == call' = [call EXCEPT ![c].at = place]
End(c) == call' = [call EXCEPT ![c] = Resting]
Spoil == faults < MaxFaults /\ faults' = faults + 1
Calls == UNCHANGED <<calls, user>>

\* The user's changes and the calls beside which another one runs.
Disturbed == [c \in Caller |-> [call[c] EXCEPT !.alone = FALSE]]
Overlapped == \E c \in Caller : ~At(c, "idle")

-----------------------------------------------------------------------------
(* Calls. *)

Open(c, place, todo, flag) ==
  /\ At(c, "idle") /\ calls < MaxCalls /\ calls' = calls + 1
  /\ LET mine == [Resting EXCEPT !.at = place, !.store = Loaded, !.seen = config, !.todo = todo,
                    !.flag = flag, !.alone = ~Overlapped]
     IN  call' = [d \in Caller |-> IF d = c THEN mine ELSE [call[d] EXCEPT !.alone = FALSE]]
  /\ suspect' = (suspect \/ Overlapped)
  /\ UNCHANGED <<files, taken, faults, user>>

(* `load_settings`, at every start of a window.                            *)
LoadSettings(c) == Open(c, "reconcile", <<>>, FALSE)

(* Mutant: the login entry is left for the caller to remove.               *)
SaveOnly(c) == \E patch \in Patch : Open(c, "set", patch, FALSE)

(* `save_settings`: turning the checks off removes the login entry first.  *)
SaveSettings(c) ==
  \E patch \in Patch :
    Open(c, IF patch[1] = [key |-> "bg", to |-> FALSE] THEN "unlogin" ELSE "set", patch, FALSE)

(* `set_autostart`.                                                        *)
SetAutostart(c) ==
  \E enabled \in BOOLEAN : Open(c, IF enabled THEN "addLogin" ELSE "unlogin", <<>>, FALSE)

(* The desktop starts the login entry: `--fetch-updates`, in an entry of   *)
(* this version with `--background`.                                       *)
LoginCheck(c) == login \in Ours /\ Open(c, "gate", <<>>, login = "new")

-----------------------------------------------------------------------------
(* Saving: one whole write per changed preference. *)

NextSetter(c) == IF call[c].todo = <<>> THEN "answer" ELSE "set"

(* Mutant: only an unreadable file is remembered.                          *)
MovesNothing(c) == FALSE

MovesAside(c) == call[c].store.corrupt /\ config.kind # "none"

\* What a call takes from the name although it could not use it, unless
\* another call works beside it where there are no hard links.
Taken(c) ==
  IF config = call[c].seen /\ (call[c].store.corrupt \/ call[c].store.unreadable)
     /\ config.kind # "none" /\ (links \/ call[c].alone)
  THEN {config} ELSE {}

(* A setter changes the copy, and `save` refuses when the file could not   *)
(* be read; a corrupt file that is still there is moved aside first.       *)
Set(c) ==
  /\ At(c, "set") /\ call[c].todo # <<>>
  /\ IF call[c].store.unreadable
     THEN End(c)
     ELSE call' = [call EXCEPT
            ![c].store = IF Head(call[c].todo).key = "bg"
                         THEN [@ EXCEPT !.bg = Head(call[c].todo).to]
                         ELSE [@ EXCEPT !.other = Head(call[c].todo).to],
            ![c].todo = Tail(@),
            ![c].at = IF MovesAside(c) THEN "aside" ELSE "write"]
  /\ UNCHANGED <<files, taken, suspect, faults>> /\ Calls

Free == {n \in BackupName : aside[n] = NoFile}
FirstFree == CHOOSE n \in Free : \A k \in Free : n <= k

(* `move_aside`, the hard link: it never takes a name that is there.       *)
LinkAside(c) ==
  /\ At(c, "aside") /\ links /\ config.kind # "none" /\ Free # {}
  /\ aside' = [aside EXCEPT ![FirstFree] = config]
  /\ call' = [call EXCEPT ![c].name = FirstFree, ![c].at = "unlink"]
  /\ UNCHANGED <<config, readable, links, login, taken, suspect, faults>> /\ Calls

(* Then the original name goes; when it does not, the backup name does.    *)
UnlinkOriginal(c) ==
  /\ At(c, "unlink") /\ config.kind # "none"
  /\ config' = NoFile /\ readable' = TRUE
  /\ Go(c, "write")
  /\ taken' = taken \cup Taken(c)
  /\ UNCHANGED <<aside, links, login, suspect, faults>> /\ Calls

UnlinkFails(c) ==
  /\ At(c, "unlink")
  /\ IF config.kind = "none" THEN UNCHANGED faults ELSE Spoil
  /\ aside' = [aside EXCEPT ![call[c].name] = NoFile]
  /\ End(c)
  /\ UNCHANGED <<config, readable, links, login, taken, suspect>> /\ Calls

(* Without hard links the name is looked at and then renamed over.         *)
LookForName(c) ==
  /\ At(c, "aside") /\ ~links /\ Free # {}
  /\ call' = [call EXCEPT ![c].name = FirstFree, ![c].at = "rename"]
  /\ UNCHANGED <<files, taken, suspect, faults>> /\ Calls

RenameAside(c) ==
  /\ At(c, "rename") /\ config.kind # "none"
  /\ aside' = [aside EXCEPT ![call[c].name] = config]
  /\ config' = NoFile /\ readable' = TRUE
  /\ Go(c, "write")
  /\ taken' = taken \cup Taken(c)
  /\ UNCHANGED <<links, login, suspect, faults>> /\ Calls

(* Nothing there to move, no name that is free, or the move is refused:    *)
(* the save fails.                                                         *)
MoveFails(c) ==
  /\ At(c, "aside") \/ At(c, "rename")
  /\ IF config.kind = "none" \/ (At(c, "aside") /\ Free = {}) THEN UNCHANGED faults ELSE Spoil
  /\ End(c)
  /\ UNCHANGED <<files, taken, suspect>> /\ Calls

(* `atomic_write` renames a file of the whole copy over the name.          *)
Body(store) == Good(store.bg, store.other)
Write(c) ==
  /\ At(c, "write")
  /\ config' = Body(call[c].store) /\ readable' = TRUE
  /\ call' = [call EXCEPT ![c].store.corrupt = FALSE, ![c].at = NextSetter(c)]
  /\ taken' = taken \cup Taken(c)
  /\ UNCHANGED <<aside, links, login, suspect, faults>> /\ Calls

WriteFails(c) ==
  /\ At(c, "write") /\ Spoil
  /\ End(c)
  /\ UNCHANGED <<files, taken, suspect>> /\ Calls

-----------------------------------------------------------------------------
(* The login entry. *)

(* `sync_autostart(false)` removes whatever is under the name.             *)
RemoveLogin(c) ==
  /\ At(c, "unlogin")
  /\ login' = "none"
  /\ Go(c, NextSetter(c))
  /\ UNCHANGED <<config, readable, aside, links, taken, suspect, faults>> /\ Calls

RemoveLoginFails(c) ==
  /\ At(c, "unlogin") /\ login # "none" /\ Spoil
  /\ End(c)
  /\ UNCHANGED <<files, taken, suspect>> /\ Calls

(* `sync_autostart(true)`: refused unless the call's own copy has the      *)
(* checks on.                                                              *)
AddLogin(c) ==
  /\ At(c, "addLogin")
  /\ IF call[c].store.bg THEN login' = "new" ELSE UNCHANGED login
  /\ End(c)
  /\ UNCHANGED <<config, readable, aside, links, taken, suspect, faults>> /\ Calls

(* `reconcile_autostart` reads the entry,                                  *)
ReadLogin(c) ==
  /\ At(c, "reconcile")
  /\ call' = [call EXCEPT ![c].saw = login, ![c].at = "reconciled"]
  /\ UNCHANGED <<files, taken, suspect, faults>> /\ Calls

(* and acts on what it read: a foreign entry and none are left alone.      *)
Reconcile(c) ==
  /\ At(c, "reconciled")
  /\ login' = IF call[c].saw \notin Ours THEN login
              ELSE IF ~call[c].store.bg THEN "none"
              ELSE IF call[c].saw = "new" THEN login ELSE "new"
  /\ suspect' = (suspect /\ ~call[c].alone)
  /\ End(c)
  /\ UNCHANGED <<config, readable, aside, links, taken, faults>> /\ Calls

\* A failure is logged and the window opens all the same.
FileStepFails(c) ==
  /\ At(c, "addLogin") \/ At(c, "reconciled")
  /\ Spoil
  /\ End(c)
  /\ UNCHANGED <<files, taken, suspect>> /\ Calls

-----------------------------------------------------------------------------
(* The check at login. *)

(* `--fetch-updates --background` stops when its copy has the checks off.  *)
Gate(c) ==
  /\ At(c, "gate")
  /\ IF call[c].flag /\ ~call[c].store.bg THEN End(c) ELSE Go(c, "contact")
  /\ UNCHANGED <<files, taken, suspect, faults>> /\ Calls

Leave(c) ==
  /\ At(c, "contact") \/ At(c, "answer")
  /\ End(c)
  /\ UNCHANGED <<files, taken, suspect, faults>> /\ Calls

-----------------------------------------------------------------------------
(* What happens from outside. *)

Die(c) ==
  /\ ~At(c, "idle") /\ Spoil
  /\ End(c)
  /\ UNCHANGED <<files, taken, suspect>> /\ Calls

UserActs ==
  /\ user < MaxUser /\ user' = user + 1
  /\ \/ config' \in {Corrupt(user + 1), Good(FALSE, TRUE), NoFile}
        /\ readable' = TRUE /\ UNCHANGED login
     \/ config.kind # "none" /\ readable' = ~readable /\ UNCHANGED <<config, login>>
     \/ login' \in {"none", "old"} /\ UNCHANGED <<config, readable>>
  /\ call' = Disturbed /\ suspect' = TRUE
  /\ UNCHANGED <<aside, links, taken, calls, faults>>

Step(c) ==
  \/ LoadSettings(c) \/ SaveSettings(c) \/ SetAutostart(c) \/ LoginCheck(c)
  \/ Set(c) \/ LinkAside(c) \/ UnlinkOriginal(c) \/ UnlinkFails(c) \/ LookForName(c)
  \/ RenameAside(c) \/ MoveFails(c) \/ Write(c) \/ WriteFails(c)
  \/ RemoveLogin(c) \/ RemoveLoginFails(c) \/ AddLogin(c) \/ ReadLogin(c) \/ Reconcile(c)
  \/ FileStepFails(c) \/ Gate(c) \/ Leave(c) \/ Die(c)

Next == UserActs \/ \E c \in Caller : Step(c)

Spec == Init /\ [][Next]_vars

-----------------------------------------------------------------------------
(* Properties. *)

TypeOK ==
  /\ config \in File /\ readable \in BOOLEAN /\ links \in BOOLEAN
  /\ aside \in [BackupName -> File] /\ login \in Login
  /\ call \in [Caller ->
       [at : {"idle", "reconcile", "reconciled", "set", "aside", "unlink", "rename", "write",
              "unlogin", "addLogin", "gate", "contact", "answer"},
        store : [bg : BOOLEAN, other : BOOLEAN, unreadable : BOOLEAN, corrupt : BOOLEAN],
        seen : File, todo : Seq([key : Key, to : BOOLEAN]), name : 0..MaxNames, saw : Login,
        flag : BOOLEAN, alone : BOOLEAN]]
  /\ taken \subseteq File /\ suspect \in BOOLEAN
  /\ calls \in 0..MaxCalls /\ faults \in 0..MaxFaults /\ user \in 0..MaxUser

\* Whatever a save found under the name and could not use is still there
\* afterwards, under the name or a backup name: also when the process dies or
\* a step fails in between, and when two windows save at once; but for a file
\* that two of them move at once where no hard link can be made, since a rename
\* there may go over a backup made meanwhile, which `Taken` leaves out.
UnusableFilesAreKept ==
  \A f \in taken : config = f \/ \E n \in BackupName : aside[n] = f

\* After a start that ran alone, and as long as calls do not overlap and
\* nobody else edits the files, there is a login entry of this program only
\* while the checks are on, and it passes --background; at every step of every
\* call, through failures and crashes.
LoginEntryIsWanted ==
  (~suspect /\ login \in Ours) => login = "new" /\ readable /\ config.bg
=============================================================================
