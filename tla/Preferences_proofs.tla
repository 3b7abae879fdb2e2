-------------------------- MODULE Preferences_proofs --------------------------
(* Proofs about Preferences, for every set of calls, number of backup      *)
(* names and bound.                                                        *)
EXTENDS Preferences, FiniteSetTheorems, TLAPS

(***************************************************************************)
(* The inductive invariant.                                                *)
(***************************************************************************)

Moving == {"aside", "unlink", "rename"}
Saving == Moving \cup {"set", "write"}

(* Files that could not be parsed carry numbers that have been given out:  *)
(* one that has left the name does not come back to it.                    *)
Numbered ==
  /\ config.kind = "corrupt" => config.id <= user
  /\ config.kind \in {"corrupt", "none"} => ~config.bg
  /\ \A c \in Caller : call[c].store.corrupt => /\ call[c].seen.kind = "corrupt"
                                                /\ call[c].seen.id <= user

(* A call that saves could read the file.  It moves one that it found      *)
(* corrupt; what it found is under its backup name before it drops the     *)
(* original, and gone from the original name before it writes.             *)
MovesSafely ==
  \A c \in Caller :
    /\ call[c].at \in Moving => call[c].store.corrupt
    /\ call[c].at \in Moving \cup {"write"} => ~call[c].store.unreadable
    /\ At(c, "unlink") => /\ links /\ call[c].name \in BackupName
                          /\ aside[call[c].name] # NoFile
                          /\ config = call[c].seen => aside[call[c].name] = config
    /\ At(c, "rename") => ~links /\ call[c].name \in BackupName
    /\ At(c, "write") /\ call[c].store.corrupt => config # call[c].seen

(* With hard links no two calls hold the same backup name.                 *)
NamesDiffer ==
  \A c, d \in Caller :
    At(c, "unlink") /\ At(d, "unlink") /\ call[c].name = call[d].name => c = d

(* What was taken is under a backup name that no call is about to drop or  *)
(* to rename over.                                                         *)
TakenIsSafe ==
  \A f \in taken :
    /\ f.kind = "corrupt" /\ f.id <= user /\ config # f
    /\ \E n \in BackupName :
         /\ aside[n] = f
         /\ \A c \in Caller : call[c].at \in {"unlink", "rename"} => call[c].name # n

(* A call that has been alone knows the files, until it changes them.      *)
LonelyKnows ==
  \A c \in Caller : call[c].alone =>
    /\ \A d \in Caller \ {c} : At(d, "idle")
    /\ call[c].store.corrupt => ~config.bg
    /\ call[c].at \in {"reconcile", "reconciled", "addLogin"} /\ call[c].store.bg
         => readable /\ config.bg
    /\ At(c, "reconciled") => call[c].saw = login

(* What it is about to write keeps the checks on, if the entry stays.      *)
KeepsChecks(c) ==
  /\ \A i \in DOMAIN call[c].todo : call[c].todo[i].key = "bg" => call[c].todo[i].to
  /\ call[c].store.bg \/ (At(c, "set") /\ call[c].todo # <<>> /\ Head(call[c].todo).key = "bg")

LonelyKeepsChecks ==
  \A c \in Caller :
    ~suspect /\ call[c].alone /\ call[c].at \in Saving /\ login \in Ours => KeepsChecks(c)

(* Calls overlap only where the next start has to repair.                  *)
AloneUnlessSuspect == suspect \/ \A c \in Caller : At(c, "idle") \/ call[c].alone

IInv ==
  /\ TypeOK /\ Numbered /\ MovesSafely /\ NamesDiffer /\ TakenIsSafe
  /\ LonelyKnows /\ LonelyKeepsChecks /\ AloneUnlessSuspect /\ LoginEntryIsWanted

-----------------------------------------------------------------------------
(* Records and their types. *)

Place == {"idle", "reconcile", "reconciled", "set", "aside", "unlink", "rename", "write",
          "unlogin", "addLogin", "gate", "contact", "answer"}
Store == [bg : BOOLEAN, other : BOOLEAN, unreadable : BOOLEAN, corrupt : BOOLEAN]
Change == [key : Key, to : BOOLEAN]
Call ==
  [at : Place, store : Store, seen : File, todo : Seq(Change), name : 0..MaxNames, saw : Login,
   flag : BOOLEAN, alone : BOOLEAN]

(* Only the record of `c` changes.                                         *)
Frame(c) == call' \in [Caller -> Call] /\ \A d \in Caller \ {c} : call'[d] = call[d]

LEMMA CallType == TypeOK => call \in [Caller -> Call]
  BY DEF TypeOK, Call, Place, Store, Change

LEMMA TypeFrame ==
  ASSUME call' \in [Caller -> Call], config' \in File, readable' \in BOOLEAN, links' \in BOOLEAN,
         aside' \in [BackupName -> File], login' \in Login, taken' \subseteq File,
         suspect' \in BOOLEAN,
         calls' \in 0..MaxCalls, faults' \in 0..MaxFaults, user' \in 0..MaxUser
  PROVE  TypeOK'
  BY DEF TypeOK, Call, Place, Store, Change

LEMMA FileFields ==
  /\ NoFile \in File /\ NoFile.kind = "none" /\ ~NoFile.bg
  /\ \A b, o \in BOOLEAN : Good(b, o) \in File /\ Good(b, o).kind = "ok" /\ Good(b, o).bg = b
  /\ \A i \in 0..MaxUser : /\ Corrupt(i) \in File /\ Corrupt(i).kind = "corrupt"
                           /\ Corrupt(i).id = i /\ ~Corrupt(i).bg
<1>1. NoFile \in File /\ NoFile.kind = "none" /\ ~NoFile.bg
  BY DEF File, NoFile
<1>2. ASSUME NEW b \in BOOLEAN, NEW o \in BOOLEAN
      PROVE  Good(b, o) \in File /\ Good(b, o).kind = "ok" /\ Good(b, o).bg = b
  BY DEF File, Good
<1>3. ASSUME NEW i \in 0..MaxUser
      PROVE  /\ Corrupt(i) \in File /\ Corrupt(i).kind = "corrupt"
             /\ Corrupt(i).id = i /\ ~Corrupt(i).bg
  <2>1. Corrupt(i) \in File
    BY DEF File
  <2> QED
    BY <2>1 DEF Corrupt
<1> QED
  BY <1>1, <1>2, <1>3

LEMMA FileKinds ==
  ASSUME NEW f \in File
  PROVE  /\ f.kind \in {"ok", "corrupt", "none"} /\ f.bg \in BOOLEAN /\ f.other \in BOOLEAN
         /\ f.kind # "ok" => ~f.bg
         /\ f.kind = "none" <=> f = NoFile
         /\ f.id \in Nat
<1>1. CASE \E b, o \in BOOLEAN : f = Good(b, o)
  BY <1>1 DEF Good, NoFile
<1>2. CASE \E i \in 0..MaxUser : f = Corrupt(i)
  <2>1. PICK i \in 0..MaxUser : f = Corrupt(i)
    BY <1>2
  <2>2. i \in Nat
    BY PreferencesAssumption
  <2> QED
    BY <2>1, <2>2 DEF Corrupt, NoFile
<1>3. CASE f = NoFile
  BY <1>3 DEF NoFile
<1> QED
  BY <1>1, <1>2, <1>3 DEF File

LEMMA LoadedFields ==
  ASSUME config \in File, readable \in BOOLEAN
  PROVE  /\ Loaded \in Store
         /\ Loaded.bg => readable /\ config.bg
         /\ Loaded.corrupt => config.kind = "corrupt"
<1> DEFINE known == readable /\ config.kind = "ok"
<1>1. (known /\ config.bg) \in BOOLEAN /\ (known /\ config.other) \in BOOLEAN
      /\ (config.kind # "none" /\ ~readable) \in BOOLEAN
      /\ (readable /\ config.kind = "corrupt") \in BOOLEAN
  BY Zenon
<1>2. Loaded = [bg |-> known /\ config.bg, other |-> known /\ config.other,
                unreadable |-> config.kind # "none" /\ ~readable,
                corrupt |-> readable /\ config.kind = "corrupt"]
  BY DEF Loaded
<1>3. ASSUME NEW a \in BOOLEAN, NEW b \in BOOLEAN, NEW u \in BOOLEAN, NEW x \in BOOLEAN
      PROVE  /\ [bg |-> a, other |-> b, unreadable |-> u, corrupt |-> x] \in Store
             /\ [bg |-> a, other |-> b, unreadable |-> u, corrupt |-> x].bg = a
             /\ [bg |-> a, other |-> b, unreadable |-> u, corrupt |-> x].corrupt = x
  BY DEF Store
<1>4. /\ Loaded \in Store /\ Loaded.bg = (known /\ config.bg)
      /\ Loaded.corrupt = (readable /\ config.kind = "corrupt")
  BY <1>1, <1>2, <1>3
<1> QED
  BY <1>4

LEMMA RestingFields ==
  /\ Resting \in Call /\ Resting.at = "idle" /\ ~Resting.alone
  /\ ~Resting.store.corrupt /\ ~Resting.store.unreadable
<1>1. <<>> \in Seq(Change)
  OBVIOUS
<1>2. 0 \in 0..MaxNames
  BY PreferencesAssumption
<1> QED
  BY <1>1, <1>2, FileFields DEF Resting, Call, Place, Store, Login

LEMMA EndFrame ==
  ASSUME TypeOK, NEW c \in Caller, End(c)
  PROVE  Frame(c) /\ call'[c] = Resting
  BY CallType, RestingFields DEF End, Frame

LEMMA GoFrame ==
  ASSUME TypeOK, NEW c \in Caller, NEW place \in Place, Go(c, place)
  PROVE  /\ Frame(c)
         /\ call'[c].at = place /\ call'[c].store = call[c].store /\ call'[c].seen = call[c].seen
         /\ call'[c].todo = call[c].todo /\ call'[c].name = call[c].name
         /\ call'[c].saw = call[c].saw /\ call'[c].alone = call[c].alone
<1> DEFINE m == [call[c] EXCEPT !.at = place]
<1>1. call \in [Caller -> Call] /\ call[c] \in Call
  BY CallType
<1>2. /\ m \in Call /\ m.at = place /\ m.store = call[c].store /\ m.seen = call[c].seen
      /\ m.todo = call[c].todo /\ m.name = call[c].name /\ m.saw = call[c].saw
      /\ m.alone = call[c].alone
  BY <1>1 DEF Call
<1>3. call' = [call EXCEPT ![c] = m]
  BY DEF Go
<1> HIDE DEF m
<1> QED
  BY <1>1, <1>2, <1>3 DEF Frame

-----------------------------------------------------------------------------
(* A call at work is the only one that can be alone.                       *)
LEMMA OthersAreNotAlone ==
  ASSUME IInv, NEW c \in Caller, ~At(c, "idle") PROVE \A d \in Caller \ {c} : ~call[d].alone
  BY DEF IInv, LonelyKnows

(* The end of a call, whatever it has done to the login entry.             *)
LEMMA EndKeeps ==
  ASSUME IInv, NEW c \in Caller, ~At(c, "idle"), End(c),
         UNCHANGED <<config, readable, aside, links, taken, user>>,
         suspect' = suspect \/ call[c].alone
  PROVE  /\ Numbered' /\ MovesSafely' /\ NamesDiffer' /\ TakenIsSafe'
         /\ LonelyKnows' /\ LonelyKeepsChecks' /\ AloneUnlessSuspect'
<1>0. TypeOK /\ Frame(c) /\ call'[c] = Resting
  BY EndFrame DEF IInv
<1>1. \A d \in Caller \ {c} : call'[d] = call[d] /\ ~call[d].alone
  BY <1>0, OthersAreNotAlone DEF Frame
<1>2. /\ call'[c].at = "idle" /\ ~call'[c].alone /\ ~call'[c].store.corrupt
      /\ ~call'[c].store.unreadable
  BY <1>0, RestingFields
<1>3. Numbered'
  BY <1>1, <1>2 DEF IInv, Numbered
<1>4. MovesSafely' /\ NamesDiffer'
  BY <1>1, <1>2 DEF IInv, MovesSafely, NamesDiffer, At, Moving
<1>5. TakenIsSafe'
  <2>1. \A d \in Caller : call'[d].at \in {"unlink", "rename"}
          => call[d].at \in {"unlink", "rename"} /\ call'[d].name = call[d].name
    BY <1>1, <1>2
  <2> QED
    BY <2>1 DEF IInv, TakenIsSafe
<1>6. LonelyKnows' /\ LonelyKeepsChecks'
  BY <1>1, <1>2 DEF LonelyKnows, LonelyKeepsChecks
<1>7. AloneUnlessSuspect'
  <2>1. suspect' \/ call[c].alone
    BY DEF IInv, AloneUnlessSuspect
  <2>2. call[c].alone => \A d \in Caller \ {c} : At(d, "idle")
    BY DEF IInv, LonelyKnows
  <2> QED
    BY <1>1, <1>2, <2>1, <2>2 DEF AloneUnlessSuspect, At
<1> QED
  BY <1>3, <1>4, <1>5, <1>6, <1>7

(* A call that ends and leaves the files as they are.                      *)
LEMMA PlainEndKeeps ==
  ASSUME IInv, NEW c \in Caller, ~At(c, "idle"), End(c), UNCHANGED <<files, taken, suspect>>, Calls,
         Spoil \/ UNCHANGED faults
  PROVE  IInv'
<1>0. TypeOK
  BY DEF IInv
<1>1. /\ Numbered' /\ MovesSafely' /\ NamesDiffer' /\ TakenIsSafe'
      /\ LonelyKnows' /\ LonelyKeepsChecks' /\ AloneUnlessSuspect'
  BY EndKeeps DEF files, Calls
<1>2. LoginEntryIsWanted'
  BY DEF IInv, LoginEntryIsWanted, files
<1>3. faults' \in 0..MaxFaults
  BY <1>0, PreferencesAssumption DEF Spoil, TypeOK
<1>4. TypeOK'
  BY <1>0, <1>3, EndFrame, TypeFrame DEF TypeOK, files, Calls, Frame
<1> QED
  BY <1>1, <1>2, <1>4 DEF IInv

-----------------------------------------------------------------------------
(* Moving a file aside. *)

(* A set of naturals has a least element: the intervals up to them are     *)
(* finite sets, and strict inclusion is well-founded on those.             *)
LEMMA LeastNatural ==
  ASSUME NEW T, T \subseteq Nat, T # {} PROVE \E n \in T : \A k \in T : n <= k
<1> DEFINE upTo == {1..n : n \in T}
<1>1. upTo \subseteq FiniteSubsetsOf(Nat) /\ upTo # {}
  <2>1. ASSUME NEW n \in T PROVE IsFiniteSet(1..n)
    <3>1. n \in Int /\ 1 \in Int
      OBVIOUS
    <3> QED
      BY <3>1, FS_Interval
  <2>2. ASSUME NEW n \in T PROVE 1..n \in SUBSET Nat
    OBVIOUS
  <2>3. ASSUME NEW n \in T PROVE 1..n \in FiniteSubsetsOf(Nat)
    BY <2>1, <2>2 DEF FiniteSubsetsOf
  <2>4. PICK n \in T : TRUE
    OBVIOUS
  <2> QED
    BY <2>3, <2>4
<1>2. PICK X \in upTo : \A Y \in upTo : ~(<<Y, X>> \in StrictSubsetOrdering(Nat))
  <2> HIDE DEF upTo
  <2> QED
    BY <1>1, FS_StrictSubsetOrderingWellFounded, WFMin
<1>3. PICK n \in T : X = 1..n
  OBVIOUS
<1>4. ASSUME NEW k \in T, ~(n <= k) PROVE FALSE
  <2>1. 1..k \in SUBSET Nat /\ 1..n \in SUBSET Nat /\ 1..k \subseteq 1..n
    BY <1>4
  <2>2. 1..k # 1..n
    <3>1. n \in 1..n /\ n \notin 1..k
      BY <1>4
    <3> QED
      BY <3>1
  <2>3. <<1..k, 1..n>> \in StrictSubsetOrdering(Nat)
    BY <2>1, <2>2 DEF StrictSubsetOrdering
  <2> QED
    BY <1>2, <1>3, <2>3
<1> QED
  BY <1>4

(* The name that is tried first of those that are free.                    *)
LEMMA FirstFreeIsFree == Free # {} => FirstFree \in Free
<1> SUFFICES ASSUME Free # {} PROVE FirstFree \in Free
  OBVIOUS
<1>1. Free \subseteq Nat
  BY PreferencesAssumption DEF Free, BackupName
<1>2. \E n \in Free : \A k \in Free : n <= k
  BY <1>1, LeastNatural
<1> QED
  BY <1>2 DEF FirstFree

(* How a call goes on when it had been alone, or not.                      *)
LEMMA LonelyStep ==
  ASSUME IInv, NEW c \in Caller, ~At(c, "idle"), Frame(c), call'[c].alone = call[c].alone,
         ~At(c, "idle")', UNCHANGED suspect,
         call[c].alone =>
           /\ call'[c].store.corrupt => ~config'.bg
           /\ call'[c].at \in {"reconcile", "reconciled", "addLogin"} /\ call'[c].store.bg
                => readable' /\ config'.bg
           /\ At(c, "reconciled")' => call'[c].saw = login'
           /\ ~suspect /\ call'[c].at \in Saving /\ login' \in Ours => KeepsChecks(c)'
  PROVE  LonelyKnows' /\ LonelyKeepsChecks' /\ AloneUnlessSuspect'
<1>1. \A d \in Caller \ {c} : call'[d] = call[d] /\ ~call[d].alone
  BY OthersAreNotAlone DEF Frame
<1>2. call[c].alone => \A d \in Caller \ {c} : At(d, "idle")
  BY DEF IInv, LonelyKnows
<1>3. LonelyKnows'
  BY <1>1, <1>2 DEF LonelyKnows, At
<1>4. LonelyKeepsChecks'
  BY <1>1 DEF LonelyKeepsChecks
<1>5. AloneUnlessSuspect'
  BY <1>1, <1>2 DEF IInv, AloneUnlessSuspect, At
<1> QED
  BY <1>3, <1>4, <1>5

(* A call goes on without changing what it holds of the file.              *)
LEMMA GoKeeps ==
  ASSUME IInv, NEW c \in Caller, NEW place \in Place \ (Moving \cup {"write", "idle", "reconciled"}),
         ~At(c, "idle"), Go(c, place),
         UNCHANGED <<config, readable, aside, links, taken, user, suspect>>,
         place \in {"reconcile", "addLogin"} => call[c].at = place /\ UNCHANGED login,
         place = "set" => login' \notin Ours
  PROVE  /\ Frame(c) /\ Numbered' /\ MovesSafely' /\ NamesDiffer' /\ TakenIsSafe'
         /\ LonelyKnows' /\ LonelyKeepsChecks' /\ AloneUnlessSuspect'
<1>0. TypeOK /\ place \in Place
  BY DEF IInv
<1>1. /\ Frame(c) /\ call'[c].at = place /\ call'[c].store = call[c].store
      /\ call'[c].seen = call[c].seen /\ call'[c].alone = call[c].alone
  BY <1>0, GoFrame
<1>2. Numbered'
  BY <1>1 DEF IInv, Numbered, Frame
<1>3. MovesSafely' /\ NamesDiffer'
  BY <1>1 DEF IInv, MovesSafely, NamesDiffer, At, Moving, Frame
<1>4. TakenIsSafe'
  <2>1. \A d \in Caller : call'[d].at \in {"unlink", "rename"} => call'[d] = call[d]
    BY <1>1 DEF Frame, Moving
  <2> QED
    BY <2>1 DEF IInv, TakenIsSafe
<1>5. call[c].alone =>
        /\ call'[c].store.corrupt => ~config'.bg
        /\ call'[c].at \in {"reconcile", "reconciled", "addLogin"} /\ call'[c].store.bg
             => readable' /\ config'.bg
  BY <1>1 DEF IInv, LonelyKnows
<1>6. LonelyKnows' /\ LonelyKeepsChecks' /\ AloneUnlessSuspect'
  BY <1>1, <1>5, LonelyStep DEF At, Saving, Moving
<1> QED
  BY <1>1, <1>2, <1>3, <1>4, <1>6

(* The hard link: the name was free, so no other call holds it, and what   *)
(* was under the settings file's name is under it now.                     *)
LEMMA LinkAsideKeeps ==
  ASSUME IInv, NEW c \in Caller, LinkAside(c) PROVE IInv'
<1> DEFINE n == FirstFree
           m == [call[c] EXCEPT !.name = n, !.at = "unlink"]
<1>0. TypeOK /\ call \in [Caller -> Call] /\ call[c] \in Call
  BY CallType DEF IInv
<1>1. /\ n \in BackupName /\ aside[n] = NoFile
      /\ n \in 0..MaxNames
  <2>1. n \in Free
    BY FirstFreeIsFree DEF LinkAside
  <2> QED
    BY <2>1, PreferencesAssumption DEF Free, BackupName
<1> HIDE DEF n
<1>2. /\ m \in Call /\ m.at = "unlink" /\ m.name = n /\ m.store = call[c].store
      /\ m.seen = call[c].seen /\ m.todo = call[c].todo /\ m.alone = call[c].alone
  BY <1>0, <1>1 DEF Call, Place
<1>3. /\ At(c, "aside") /\ links /\ config # NoFile
      /\ aside' = [aside EXCEPT ![n] = config] /\ call' = [call EXCEPT ![c] = m]
      /\ UNCHANGED <<config, readable, links, login, taken, suspect, faults>> /\ Calls
  BY FileFields DEF LinkAside, n
<1> HIDE DEF m
<1>4. Frame(c) /\ call'[c] = m
  BY <1>0, <1>2, <1>3 DEF Frame
<1>5. aside'[n] = config /\ \A k \in BackupName \ {n} : aside'[k] = aside[k]
  BY <1>0, <1>1, <1>3 DEF TypeOK
<1>6. TypeOK'
  BY <1>0, <1>3, <1>4, TypeFrame DEF TypeOK, Calls, Frame
<1>7. Numbered'
  BY <1>2, <1>3, <1>4 DEF IInv, Numbered, Frame, Calls
<1>8. \A d \in Caller \ {c} : At(d, "unlink") => call[d].name # n
  BY <1>1 DEF IInv, MovesSafely
<1>9. MovesSafely'
  <2>1. ASSUME NEW d \in Caller \ {c}
        PROVE  At(d, "unlink") => aside'[call[d].name] = aside[call[d].name]
    BY <1>5, <1>8 DEF IInv, MovesSafely
  <2>2. call[c].store.corrupt /\ ~call[c].store.unreadable
    BY <1>3 DEF IInv, MovesSafely, Moving, At
  <2>3. ASSUME NEW d \in Caller \ {c}
        PROVE  /\ call'[d] = call[d]
               /\ At(d, "unlink") => /\ links /\ call[d].name \in BackupName
                                     /\ aside[call[d].name] # NoFile
                                     /\ config = call[d].seen => aside[call[d].name] = config
    BY <1>4 DEF Frame, IInv, MovesSafely
  <2> QED
    BY <1>1, <1>2, <1>3, <1>4, <1>5, <2>1, <2>2, <2>3 DEF IInv, MovesSafely, At, Moving
<1>10. NamesDiffer'
  BY <1>2, <1>4, <1>8 DEF IInv, NamesDiffer, Frame, At
<1>11. TakenIsSafe'
  <2> SUFFICES ASSUME NEW f \in taken'
               PROVE  /\ f.kind = "corrupt" /\ f.id <= user' /\ config' # f
                      /\ \E k \in BackupName :
                           /\ aside'[k] = f
                           /\ \A d \in Caller :
                                call'[d].at \in {"unlink", "rename"} => call'[d].name # k
    BY DEF TakenIsSafe
  <2>1. f \in taken /\ f.kind = "corrupt" /\ f.id <= user' /\ config' # f
    BY <1>3 DEF IInv, TakenIsSafe, Calls
  <2>2. PICK k \in BackupName :
          aside[k] = f /\ \A d \in Caller : call[d].at \in {"unlink", "rename"} => call[d].name # k
    BY <2>1 DEF IInv, TakenIsSafe
  <2>3. k # n
    BY <1>1, <2>1, <2>2, FileFields
  <2> QED
    BY <1>2, <1>4, <1>5, <2>1, <2>2, <2>3 DEF Frame
<1>12. LonelyKnows' /\ LonelyKeepsChecks' /\ AloneUnlessSuspect'
  <2>1. call[c].alone /\ call[c].store.corrupt => ~config.bg
    BY DEF IInv, LonelyKnows
  <2>2. call[c].alone /\ ~suspect /\ login \in Ours => KeepsChecks(c)'
    BY <1>2, <1>3, <1>4 DEF IInv, LonelyKeepsChecks, KeepsChecks, At, Saving, Moving
  <2> QED
    BY <1>2, <1>3, <1>4, <2>1, <2>2, LonelyStep DEF At
<1>13. LoginEntryIsWanted'
  BY <1>3 DEF IInv, LoginEntryIsWanted
<1> QED
  BY <1>6, <1>7, <1>9, <1>10, <1>11, <1>12, <1>13 DEF IInv

(* What a call takes is the file that it found corrupt, and it takes it    *)
(* when it moves it, never when it writes.                                 *)
LEMMA TakenIsMoved ==
  ASSUME IInv, NEW c \in Caller, call[c].at \in Moving \cup {"write"}, NEW f \in Taken(c)
  PROVE  /\ f = config /\ f = call[c].seen /\ f.kind = "corrupt" /\ f.id <= user
         /\ call[c].at \in Moving /\ (links \/ call[c].alone)
<1>1. f = config /\ f = call[c].seen /\ (links \/ call[c].alone)
      /\ (call[c].store.corrupt \/ call[c].store.unreadable)
  BY DEF Taken
<1>2. call[c].store.corrupt
  BY <1>1 DEF IInv, MovesSafely
<1> QED
  BY <1>1, <1>2 DEF IInv, Numbered, MovesSafely, At

(* The original name is dropped: everything else stays as the link left it. *)
LEMMA UnlinkOriginalKeeps ==
  ASSUME IInv, NEW c \in Caller, UnlinkOriginal(c) PROVE IInv'
<1>0. TypeOK
  BY DEF IInv
<1>1. /\ At(c, "unlink") /\ config' = NoFile /\ readable' = TRUE /\ Go(c, "write")
      /\ taken' = taken \cup Taken(c)
      /\ UNCHANGED <<aside, links, login, suspect, faults>> /\ Calls
  BY DEF UnlinkOriginal
<1>2. /\ Frame(c) /\ call'[c].at = "write" /\ call'[c].store = call[c].store
      /\ call'[c].seen = call[c].seen /\ call'[c].name = call[c].name
      /\ call'[c].todo = call[c].todo /\ call'[c].alone = call[c].alone
  BY <1>0, <1>1, GoFrame DEF Place
<1>3. config'.kind = "none" /\ ~config'.bg /\ config' \in File
  BY <1>1, FileFields
<1>4. TypeOK'
  <2>1. Taken(c) \subseteq File
    BY <1>0 DEF Taken, TypeOK
  <2> QED
    BY <1>0, <1>1, <1>2, <1>3, <2>1, TypeFrame DEF TypeOK, Calls, Frame
<1>5. Numbered'
  BY <1>1, <1>2, <1>3 DEF IInv, Numbered, Frame, Calls
<1>6. MovesSafely'
  <2>1. call[c].store.corrupt => config' # call[c].seen
    BY <1>3 DEF IInv, Numbered
  <2>2. ~call[c].store.unreadable
    BY <1>1 DEF IInv, MovesSafely, At, Moving
  <2>3. \A d \in Caller : call[d].store.corrupt => config' # call[d].seen
    BY <1>3 DEF IInv, Numbered
  <2>4. \A d \in Caller : At(d, "unlink") => config' # call[d].seen
    BY <2>3 DEF IInv, MovesSafely, Moving, At
  <2> QED
    BY <1>1, <1>2, <2>1, <2>2, <2>3, <2>4 DEF IInv, MovesSafely, Moving, At, Frame
<1>7. NamesDiffer'
  BY <1>2 DEF IInv, NamesDiffer, At, Frame
<1>8. TakenIsSafe'
  <2> SUFFICES ASSUME NEW f \in taken'
               PROVE  /\ f.kind = "corrupt" /\ f.id <= user' /\ config' # f
                      /\ \E k \in BackupName :
                           /\ aside'[k] = f
                           /\ \A d \in Caller :
                                call'[d].at \in {"unlink", "rename"} => call'[d].name # k
    BY DEF TakenIsSafe
  <2>1. CASE f \in taken
    <3>1. f.kind = "corrupt" /\ f.id <= user' /\ config' # f
      BY <1>1, <1>3, <2>1 DEF IInv, TakenIsSafe, Calls
    <3>2. PICK k \in BackupName :
            aside[k] = f /\ \A d \in Caller : call[d].at \in {"unlink", "rename"} => call[d].name # k
      BY <2>1 DEF IInv, TakenIsSafe
    <3> QED
      BY <1>1, <1>2, <3>1, <3>2 DEF Frame
  <2>2. CASE f \in Taken(c)
    <3>1. f = config /\ f = call[c].seen /\ f.kind = "corrupt" /\ f.id <= user
      BY <1>1, <2>2, TakenIsMoved DEF At, Moving
    <3>2. links /\ call[c].name \in BackupName /\ aside[call[c].name] = f
      BY <1>1, <3>1 DEF IInv, MovesSafely
    <3>3. ASSUME NEW d \in Caller, call'[d].at \in {"unlink", "rename"}
          PROVE  call'[d].name # call[c].name
      <4>1. d # c /\ call'[d] = call[d]
        BY <1>2, <3>3 DEF Frame
      <4>2. At(d, "unlink")
        BY <3>2, <3>3, <4>1 DEF IInv, MovesSafely, At
      <4> QED
        BY <1>1, <4>1, <4>2 DEF IInv, NamesDiffer
    <3> QED
      BY <1>1, <1>3, <3>1, <3>2, <3>3 DEF Calls
  <2> QED
    BY <1>1, <2>1, <2>2
<1>9. LonelyKnows' /\ LonelyKeepsChecks' /\ AloneUnlessSuspect'
  <2>1. call[c].alone /\ ~suspect /\ login \in Ours => KeepsChecks(c)'
    BY <1>1, <1>2 DEF IInv, LonelyKeepsChecks, KeepsChecks, At, Saving, Moving
  <2> QED
    BY <1>1, <1>2, <1>3, <2>1, LonelyStep DEF At
<1>10. LoginEntryIsWanted'
  <2>1. ~suspect /\ login \in Ours => ~config.bg
    <3>1. call[c].store.corrupt
      BY <1>1 DEF IInv, MovesSafely, Moving, At
    <3> QED
      BY <1>1, <3>1 DEF IInv, AloneUnlessSuspect, LonelyKnows, At
  <2> QED
    BY <1>1, <2>1 DEF IInv, LoginEntryIsWanted
<1> QED
  BY <1>4, <1>5, <1>6, <1>7, <1>8, <1>9, <1>10 DEF IInv

(* The original does not go: the backup name goes, which no other call     *)
(* holds and under which nothing is that was taken.                        *)
LEMMA UnlinkFailsKeeps ==
  ASSUME IInv, NEW c \in Caller, UnlinkFails(c) PROVE IInv'
<1>0. TypeOK
  BY DEF IInv
<1> DEFINE n == call[c].name
<1>1. /\ At(c, "unlink") /\ End(c) /\ aside' = [aside EXCEPT ![n] = NoFile]
      /\ UNCHANGED <<config, readable, links, login, taken, suspect>> /\ Calls
      /\ (Spoil \/ UNCHANGED faults)
  BY DEF UnlinkFails
<1> HIDE DEF n
<1>2. Frame(c) /\ call'[c] = Resting
  BY <1>0, <1>1, EndFrame
<1>3. /\ call'[c].at = "idle" /\ ~call'[c].alone /\ ~call'[c].store.corrupt
      /\ ~call'[c].store.unreadable
  BY <1>2, RestingFields
<1>4. n \in BackupName /\ aside'[n] = NoFile /\ \A k \in BackupName \ {n} : aside'[k] = aside[k]
  BY <1>0, <1>1 DEF IInv, MovesSafely, TypeOK, n
<1>5. TypeOK'
  <2>1. faults' \in 0..MaxFaults
    BY <1>0, <1>1, PreferencesAssumption DEF Spoil, TypeOK
  <2>2. aside' \in [BackupName -> File]
    BY <1>0, <1>1, FileFields DEF TypeOK
  <2> QED
    BY <1>0, <1>1, <1>2, <2>1, <2>2, TypeFrame DEF TypeOK, Calls, Frame
<1>6. Numbered'
  BY <1>1, <1>2, <1>3 DEF IInv, Numbered, Frame, Calls
<1>7. \A d \in Caller \ {c} : At(d, "unlink") => call[d].name # n
  BY <1>1 DEF IInv, NamesDiffer, n
<1>8. MovesSafely'
  <2>1. ASSUME NEW d \in Caller \ {c}
        PROVE  At(d, "unlink") => aside'[call[d].name] = aside[call[d].name]
    BY <1>4, <1>7 DEF IInv, MovesSafely
  <2> QED
    BY <1>1, <1>2, <1>3, <2>1 DEF IInv, MovesSafely, At, Moving, Frame
<1>9. NamesDiffer'
  BY <1>2, <1>3 DEF IInv, NamesDiffer, At, Frame
<1>10. TakenIsSafe'
  <2> SUFFICES ASSUME NEW f \in taken
               PROVE  /\ f.kind = "corrupt" /\ f.id <= user' /\ config' # f
                      /\ \E k \in BackupName :
                           /\ aside'[k] = f
                           /\ \A d \in Caller :
                                call'[d].at \in {"unlink", "rename"} => call'[d].name # k
    BY <1>1 DEF TakenIsSafe
  <2>1. f.kind = "corrupt" /\ f.id <= user' /\ config' # f
    BY <1>1 DEF IInv, TakenIsSafe, Calls
  <2>2. PICK k \in BackupName :
          aside[k] = f /\ \A d \in Caller : call[d].at \in {"unlink", "rename"} => call[d].name # k
    BY DEF IInv, TakenIsSafe
  <2>3. k # n
    BY <1>1, <2>2 DEF At, n
  <2> QED
    BY <1>2, <1>3, <1>4, <2>1, <2>2, <2>3 DEF Frame
<1>11. \A d \in Caller \ {c} : call'[d] = call[d] /\ ~call[d].alone
  BY <1>1, <1>2, OthersAreNotAlone DEF Frame, At
<1>12. LonelyKnows' /\ LonelyKeepsChecks'
  BY <1>3, <1>11 DEF LonelyKnows, LonelyKeepsChecks
<1>13. AloneUnlessSuspect' /\ LoginEntryIsWanted'
  BY <1>1, <1>3, <1>11 DEF IInv, AloneUnlessSuspect, LoginEntryIsWanted, At
<1> QED
  BY <1>5, <1>6, <1>8, <1>9, <1>10, <1>12, <1>13 DEF IInv

(* Without hard links: the name that was looked at is free.                *)
LEMMA LookForNameKeeps ==
  ASSUME IInv, NEW c \in Caller, LookForName(c) PROVE IInv'
<1> DEFINE n == FirstFree
           m == [call[c] EXCEPT !.name = n, !.at = "rename"]
<1>0. TypeOK /\ call \in [Caller -> Call] /\ call[c] \in Call
  BY CallType DEF IInv
<1>1. n \in BackupName /\ aside[n] = NoFile /\ n \in 0..MaxNames
  <2>1. n \in Free
    BY FirstFreeIsFree DEF LookForName
  <2> QED
    BY <2>1, PreferencesAssumption DEF Free, BackupName
<1> HIDE DEF n
<1>2. /\ m \in Call /\ m.at = "rename" /\ m.name = n /\ m.store = call[c].store
      /\ m.seen = call[c].seen /\ m.todo = call[c].todo /\ m.alone = call[c].alone
  BY <1>0, <1>1 DEF Call, Place
<1>3. /\ At(c, "aside") /\ ~links /\ call' = [call EXCEPT ![c] = m]
      /\ UNCHANGED <<files, taken, suspect, faults>> /\ Calls
  BY DEF LookForName, n
<1> HIDE DEF m
<1>4. Frame(c) /\ call'[c] = m
  BY <1>0, <1>2, <1>3 DEF Frame
<1>5. TypeOK'
  BY <1>0, <1>3, <1>4, TypeFrame DEF TypeOK, Calls, Frame, files
<1>6. Numbered'
  BY <1>2, <1>3, <1>4 DEF IInv, Numbered, Frame, Calls, files
<1>7. MovesSafely' /\ NamesDiffer'
  <2>1. call[c].store.corrupt /\ ~call[c].store.unreadable
    BY <1>3 DEF IInv, MovesSafely, Moving, At
  <2> QED
    BY <1>1, <1>2, <1>3, <1>4, <2>1
    DEF IInv, MovesSafely, NamesDiffer, At, Moving, Frame, files
<1>8. TakenIsSafe'
  <2> SUFFICES ASSUME NEW f \in taken
               PROVE  /\ f.kind = "corrupt" /\ f.id <= user' /\ config' # f
                      /\ \E k \in BackupName :
                           /\ aside'[k] = f
                           /\ \A d \in Caller :
                                call'[d].at \in {"unlink", "rename"} => call'[d].name # k
    BY <1>3 DEF TakenIsSafe
  <2>1. f.kind = "corrupt" /\ f.id <= user' /\ config' # f
    BY <1>3 DEF IInv, TakenIsSafe, Calls, files
  <2>2. PICK k \in BackupName :
          aside[k] = f /\ \A d \in Caller : call[d].at \in {"unlink", "rename"} => call[d].name # k
    BY DEF IInv, TakenIsSafe
  <2>3. k # n
    BY <1>1, <2>1, <2>2, FileFields
  <2> QED
    BY <1>2, <1>3, <1>4, <2>1, <2>2, <2>3 DEF Frame, files
<1>9. LonelyKnows' /\ LonelyKeepsChecks' /\ AloneUnlessSuspect'
  <2>1. call[c].alone /\ call[c].store.corrupt => ~config.bg
    BY DEF IInv, LonelyKnows
  <2>2. call[c].alone /\ ~suspect /\ login \in Ours => KeepsChecks(c)'
    BY <1>2, <1>3, <1>4 DEF IInv, LonelyKeepsChecks, KeepsChecks, At, Saving, Moving
  <2> QED
    BY <1>2, <1>3, <1>4, <2>1, <2>2, LonelyStep DEF At, files
<1>10. LoginEntryIsWanted'
  BY <1>3 DEF IInv, LoginEntryIsWanted, files
<1> QED
  BY <1>5, <1>6, <1>7, <1>8, <1>9, <1>10 DEF IInv

(* The rename takes the name it looked at.  What is counted as taken is    *)
(* moved by a call that is alone: no other renames over the same name.     *)
LEMMA RenameAsideKeeps ==
  ASSUME IInv, NEW c \in Caller, RenameAside(c) PROVE IInv'
<1>0. TypeOK
  BY DEF IInv
<1> DEFINE n == call[c].name
<1>1. /\ At(c, "rename") /\ config' = NoFile /\ readable' = TRUE /\ Go(c, "write")
      /\ aside' = [aside EXCEPT ![n] = config]
      /\ taken' = taken \cup Taken(c)
      /\ UNCHANGED <<links, login, suspect, faults>> /\ Calls
  BY DEF RenameAside
<1>2. /\ Frame(c) /\ call'[c].at = "write" /\ call'[c].store = call[c].store
      /\ call'[c].seen = call[c].seen /\ call'[c].name = call[c].name
      /\ call'[c].todo = call[c].todo /\ call'[c].alone = call[c].alone
  BY <1>0, <1>1, GoFrame DEF Place
<1>3. config'.kind = "none" /\ ~config'.bg /\ config' \in File
  BY <1>1, FileFields
<1>4. TypeOK'
  <2>1. Taken(c) \subseteq File
    BY <1>0 DEF Taken, TypeOK
  <2>2. aside' \in [BackupName -> File]
    BY <1>0, <1>1 DEF TypeOK
  <2> QED
    BY <1>0, <1>1, <1>2, <1>3, <2>1, <2>2, TypeFrame DEF TypeOK, Calls, Frame
<1>5. Numbered'
  BY <1>1, <1>2, <1>3 DEF IInv, Numbered, Frame, Calls
<1>6. ~links /\ \A d \in Caller : ~At(d, "unlink")
  BY <1>1 DEF IInv, MovesSafely
<1>7. MovesSafely' /\ NamesDiffer'
  <2>1. \A d \in Caller : call[d].store.corrupt => config' # call[d].seen
    BY <1>3 DEF IInv, Numbered
  <2>2. ~call[c].store.unreadable
    BY <1>1 DEF IInv, MovesSafely, At, Moving
  <2> QED
    BY <1>1, <1>2, <1>6, <2>1, <2>2 DEF IInv, MovesSafely, NamesDiffer, Moving, At, Frame
<1>8. \A k \in BackupName \ {n} : aside'[k] = aside[k]
  BY <1>0, <1>1 DEF TypeOK
<1>9. TakenIsSafe'
  <2> SUFFICES ASSUME NEW f \in taken'
               PROVE  /\ f.kind = "corrupt" /\ f.id <= user' /\ config' # f
                      /\ \E k \in BackupName :
                           /\ aside'[k] = f
                           /\ \A d \in Caller :
                                call'[d].at \in {"unlink", "rename"} => call'[d].name # k
    BY DEF TakenIsSafe
  <2>1. CASE f \in taken
    <3>1. f.kind = "corrupt" /\ f.id <= user' /\ config' # f
      BY <1>1, <1>3, <2>1 DEF IInv, TakenIsSafe, Calls
    <3>2. PICK k \in BackupName :
            aside[k] = f /\ \A d \in Caller : call[d].at \in {"unlink", "rename"} => call[d].name # k
      BY <2>1 DEF IInv, TakenIsSafe
    <3>3. k # n
      BY <1>1, <3>2 DEF At
    <3> QED
      BY <1>2, <1>8, <3>1, <3>2, <3>3 DEF Frame
  <2>2. CASE f \in Taken(c)
    <3>1. f = config /\ f.kind = "corrupt" /\ f.id <= user /\ call[c].alone
      BY <1>1, <1>6, <2>2, TakenIsMoved DEF At, Moving
    <3>2. n \in BackupName /\ aside'[n] = f
      BY <1>0, <1>1, <3>1 DEF IInv, MovesSafely, TypeOK
    <3>3. \A d \in Caller : call'[d].at \notin {"unlink", "rename"}
      BY <1>2, <3>1 DEF IInv, LonelyKnows, At, Frame
    <3> QED
      BY <1>1, <1>3, <3>1, <3>2, <3>3 DEF Calls
  <2> QED
    BY <1>1, <2>1, <2>2
<1>10. LonelyKnows' /\ LonelyKeepsChecks' /\ AloneUnlessSuspect'
  <2>1. call[c].alone /\ ~suspect /\ login \in Ours => KeepsChecks(c)'
    BY <1>1, <1>2 DEF IInv, LonelyKeepsChecks, KeepsChecks, At, Saving, Moving
  <2> QED
    BY <1>1, <1>2, <1>3, <2>1, LonelyStep DEF At
<1>11. LoginEntryIsWanted'
  <2>1. ~suspect /\ login \in Ours => ~config.bg
    <3>1. call[c].store.corrupt
      BY <1>1 DEF IInv, MovesSafely, Moving, At
    <3> QED
      BY <1>1, <3>1 DEF IInv, AloneUnlessSuspect, LonelyKnows, At
  <2> QED
    BY <1>1, <2>1 DEF IInv, LoginEntryIsWanted
<1> QED
  BY <1>4, <1>5, <1>7, <1>9, <1>10, <1>11 DEF IInv

-----------------------------------------------------------------------------
(* Saving. *)

(* One changed preference: the copy changes, and a corrupt file that is    *)
(* still there is moved first.                                             *)
LEMMA SetKeeps ==
  ASSUME IInv, NEW c \in Caller, Set(c) PROVE IInv'
<1>0. TypeOK /\ call \in [Caller -> Call] /\ call[c] \in Call
  BY CallType DEF IInv
<1>1. /\ At(c, "set") /\ call[c].todo # <<>>
      /\ UNCHANGED <<files, taken, suspect, faults>> /\ Calls
  BY DEF Set
<1>2. CASE call[c].store.unreadable
  <2>1. End(c)
    BY <1>2 DEF Set
  <2> QED
    BY <1>1, <2>1, PlainEndKeeps DEF At
<1>3. CASE ~call[c].store.unreadable
  <2> DEFINE change == Head(call[c].todo)
             store == IF change.key = "bg" THEN [call[c].store EXCEPT !.bg = change.to]
                      ELSE [call[c].store EXCEPT !.other = change.to]
             place == IF MovesAside(c) THEN "aside" ELSE "write"
             m == [call[c] EXCEPT !.store = store, !.todo = Tail(call[c].todo), !.at = place]
  <2>1. call' = [call EXCEPT ![c] = m]
    BY <1>3 DEF Set
  <2>2. change \in Change /\ Tail(call[c].todo) \in Seq(Change)
    <3>1. call[c].todo \in Seq(Change)
      BY <1>0 DEF Call
    <3> QED
      BY <1>1, <3>1
  <2>3. /\ store \in Store
        /\ store.corrupt = call[c].store.corrupt /\ store.unreadable = call[c].store.unreadable
        /\ store.bg = IF change.key = "bg" THEN change.to ELSE call[c].store.bg
    <3>1. call[c].store \in Store /\ change.to \in BOOLEAN
      BY <1>0, <2>2 DEF Call, Change
    <3> HIDE DEF change
    <3> QED
      BY <3>1 DEF Store
  <2> HIDE DEF change, store
  <2>4. place \in {"aside", "write"} /\ (place = "aside" <=> MovesAside(c))
    OBVIOUS
  <2> HIDE DEF place
  <2>5. /\ m \in Call /\ m.at = place /\ m.store = store /\ m.seen = call[c].seen
        /\ m.todo = Tail(call[c].todo) /\ m.name = call[c].name /\ m.alone = call[c].alone
    BY <1>0, <2>2, <2>3, <2>4 DEF Call, Place
  <2> HIDE DEF m
  <2>6. Frame(c) /\ call'[c] = m
    BY <1>0, <2>1, <2>5 DEF Frame
  <2>7. TypeOK'
    BY <1>0, <1>1, <2>6, TypeFrame DEF TypeOK, Calls, Frame, files
  <2>8. Numbered'
    BY <1>1, <2>3, <2>5, <2>6 DEF IInv, Numbered, Frame, Calls, files
  <2>9. MovesSafely' /\ NamesDiffer'
    <3>1. MovesAside(c) => call[c].store.corrupt
      BY DEF MovesAside
    <3>2. ~MovesAside(c) /\ call[c].store.corrupt => config # call[c].seen
      BY DEF IInv, Numbered, MovesAside
    <3> QED
      BY <1>1, <1>3, <2>3, <2>4, <2>5, <2>6, <3>1, <3>2
      DEF IInv, MovesSafely, NamesDiffer, At, Moving, Frame, files
  <2>10. TakenIsSafe'
    <3>1. \A d \in Caller : call'[d].at \in {"unlink", "rename"} => call'[d] = call[d]
      BY <2>4, <2>5, <2>6 DEF Frame
    <3> QED
      BY <1>1, <3>1 DEF IInv, TakenIsSafe, Calls, files
  <2>11. LonelyKnows' /\ LonelyKeepsChecks' /\ AloneUnlessSuspect'
    <3>1. call[c].alone /\ call[c].store.corrupt => ~config.bg
      BY DEF IInv, LonelyKnows
    <3>2. ASSUME call[c].alone, ~suspect, login \in Ours PROVE KeepsChecks(c)'
      <4>1. KeepsChecks(c)
        BY <1>1, <3>2 DEF IInv, LonelyKeepsChecks, At, Saving
      <4>2. call[c].todo \in Seq(Change) /\ change = call[c].todo[1]
            /\ 1 \in DOMAIN call[c].todo
        BY <1>0, <1>1 DEF Call, change
      <4>3. store.bg
        BY <2>3, <4>1, <4>2 DEF KeepsChecks, change
      <4>4. \A i \in DOMAIN Tail(call[c].todo) :
              i + 1 \in DOMAIN call[c].todo /\ Tail(call[c].todo)[i] = call[c].todo[i + 1]
        BY <1>1, <4>2
      <4>5. m.todo = Tail(call[c].todo)
        BY <2>5
      <4> QED
        BY <2>5, <2>6, <4>1, <4>3, <4>4, <4>5 DEF KeepsChecks
    <3> QED
      BY <1>1, <2>3, <2>4, <2>5, <2>6, <3>1, <3>2, LonelyStep DEF At, files
  <2>12. LoginEntryIsWanted'
    BY <1>1 DEF IInv, LoginEntryIsWanted, files
  <2> QED
    BY <2>7, <2>8, <2>9, <2>10, <2>11, <2>12 DEF IInv
<1> QED
  BY <1>2, <1>3

(* The whole copy is written: no file that was found corrupt is under the  *)
(* name any more, and the checks stay on where the login entry relies on   *)
(* them.                                                                   *)
LEMMA WriteKeeps ==
  ASSUME IInv, NEW c \in Caller, Write(c) PROVE IInv'
<1>0. TypeOK /\ call \in [Caller -> Call] /\ call[c] \in Call
  BY CallType DEF IInv
<1> DEFINE store == [call[c].store EXCEPT !.corrupt = FALSE]
           m == [call[c] EXCEPT !.store = store, !.at = NextSetter(c)]
<1>1. /\ At(c, "write") /\ config' = Body(call[c].store) /\ readable' = TRUE
      /\ taken' = taken \cup Taken(c)
      /\ UNCHANGED <<aside, links, login, suspect, faults>> /\ Calls
      /\ call' = [call EXCEPT ![c] = m]
  BY DEF Write
<1>2. store \in Store /\ ~store.corrupt /\ store.bg = call[c].store.bg
      /\ store.unreadable = call[c].store.unreadable
  <2>1. call[c].store \in Store
    BY <1>0 DEF Call
  <2> QED
    BY <2>1 DEF Store
<1> HIDE DEF store
<1>3. NextSetter(c) \in {"answer", "set"}
  BY DEF NextSetter
<1>4. /\ m \in Call /\ m.at = NextSetter(c) /\ m.store = store /\ m.seen = call[c].seen
      /\ m.todo = call[c].todo /\ m.name = call[c].name /\ m.alone = call[c].alone
  BY <1>0, <1>2, <1>3 DEF Call, Place
<1> HIDE DEF m
<1>5. Frame(c) /\ call'[c] = m
  BY <1>0, <1>1, <1>4 DEF Frame
<1>6. config' \in File /\ config'.kind = "ok" /\ config'.bg = call[c].store.bg
  <2>1. call[c].store.bg \in BOOLEAN /\ call[c].store.other \in BOOLEAN
    BY <1>0 DEF Call, Store
  <2> QED
    BY <1>1, <2>1, FileFields DEF Body
<1>7. Taken(c) = {}
  BY <1>1, TakenIsMoved DEF Moving, At
<1>8. TypeOK'
  BY <1>0, <1>1, <1>5, <1>6, <1>7, TypeFrame DEF TypeOK, Calls, Frame
<1>9. Numbered'
  BY <1>1, <1>2, <1>4, <1>5, <1>6 DEF IInv, Numbered, Frame, Calls
<1>10. MovesSafely' /\ NamesDiffer'
  <2>1. \A d \in Caller : call[d].store.corrupt => config' # call[d].seen
    BY <1>6 DEF IInv, Numbered
  <2>2. \A d \in Caller : At(d, "unlink") => config' # call[d].seen
    BY <2>1 DEF IInv, MovesSafely, Moving, At
  <2> QED
    BY <1>1, <1>2, <1>3, <1>4, <1>5, <2>1, <2>2 DEF IInv, MovesSafely, NamesDiffer, Moving, At, Frame
<1>11. TakenIsSafe'
  <2>1. \A d \in Caller : call'[d].at \in {"unlink", "rename"} => call'[d] = call[d]
    BY <1>3, <1>4, <1>5 DEF Frame
  <2> QED
    BY <1>1, <1>6, <1>7, <2>1 DEF IInv, TakenIsSafe, Calls
<1>12. ASSUME call[c].alone, ~suspect, login \in Ours PROVE KeepsChecks(c)
  BY <1>1, <1>12 DEF IInv, LonelyKeepsChecks, At, Saving
<1>13. ASSUME call[c].alone, ~suspect, login \in Ours PROVE call[c].store.bg /\ KeepsChecks(c)'
  BY <1>1, <1>2, <1>4, <1>5, <1>12, <1>13 DEF KeepsChecks, At
<1>14. LonelyKnows' /\ LonelyKeepsChecks' /\ AloneUnlessSuspect'
  BY <1>1, <1>2, <1>3, <1>4, <1>5, <1>13, LonelyStep DEF At
<1>15. LoginEntryIsWanted'
  <2>1. ~suspect => call[c].alone
    BY <1>1 DEF IInv, AloneUnlessSuspect, At
  <2> QED
    BY <1>1, <1>6, <1>13, <2>1 DEF IInv, LoginEntryIsWanted
<1> QED
  BY <1>8, <1>9, <1>10, <1>11, <1>14, <1>15 DEF IInv

-----------------------------------------------------------------------------
(* The login entry. *)

LEMMA RemoveLoginKeeps ==
  ASSUME IInv, NEW c \in Caller, RemoveLogin(c) PROVE IInv'
<1>0. TypeOK
  BY DEF IInv
<1>1. /\ At(c, "unlogin") /\ login' = "none" /\ Go(c, NextSetter(c))
      /\ UNCHANGED <<config, readable, aside, links, taken, suspect, faults>> /\ Calls
  BY DEF RemoveLogin
<1>2. NextSetter(c) \in {"answer", "set"}
  BY DEF NextSetter
<1>3. /\ Frame(c) /\ Numbered' /\ MovesSafely' /\ NamesDiffer' /\ TakenIsSafe'
      /\ LonelyKnows' /\ LonelyKeepsChecks' /\ AloneUnlessSuspect'
  BY <1>1, <1>2, GoKeeps DEF At, Place, Moving, Ours, Calls
<1>4. LoginEntryIsWanted'
  BY <1>1 DEF LoginEntryIsWanted, Ours
<1>5. TypeOK'
  BY <1>0, <1>1, <1>3, TypeFrame DEF TypeOK, Login, Calls, Frame
<1> QED
  BY <1>3, <1>4, <1>5 DEF IInv

(* Only a call whose copy has the checks on adds the entry: when it runs   *)
(* alone the file says the same.                                           *)
LEMMA AddLoginKeeps ==
  ASSUME IInv, NEW c \in Caller, AddLogin(c) PROVE IInv'
<1>0. TypeOK
  BY DEF IInv
<1>1. /\ At(c, "addLogin") /\ End(c)
      /\ login' = (IF call[c].store.bg THEN "new" ELSE login)
      /\ UNCHANGED <<config, readable, aside, links, taken, suspect, faults>> /\ Calls
  BY DEF AddLogin
<1>2. /\ Numbered' /\ MovesSafely' /\ NamesDiffer' /\ TakenIsSafe'
      /\ LonelyKnows' /\ LonelyKeepsChecks' /\ AloneUnlessSuspect'
  BY <1>1, EndKeeps DEF At, Calls
<1>3. LoginEntryIsWanted'
  <2>1. ~suspect /\ call[c].store.bg => readable /\ config.bg
    BY <1>1 DEF IInv, AloneUnlessSuspect, LonelyKnows, At
  <2> QED
    BY <1>1, <2>1 DEF IInv, LoginEntryIsWanted
<1>4. TypeOK'
  <2>1. login' \in Login
    BY <1>0, <1>1 DEF TypeOK, Login
  <2> QED
    BY <1>0, <1>1, <2>1, EndFrame, TypeFrame DEF TypeOK, Calls, Frame
<1> QED
  BY <1>2, <1>3, <1>4 DEF IInv

LEMMA ReadLoginKeeps ==
  ASSUME IInv, NEW c \in Caller, ReadLogin(c) PROVE IInv'
<1>0. TypeOK /\ call \in [Caller -> Call] /\ call[c] \in Call
  BY CallType DEF IInv
<1> DEFINE m == [call[c] EXCEPT !.saw = login, !.at = "reconciled"]
<1>1. /\ At(c, "reconcile") /\ call' = [call EXCEPT ![c] = m]
      /\ UNCHANGED <<files, taken, suspect, faults>> /\ Calls
  BY DEF ReadLogin
<1>2. /\ m \in Call /\ m.at = "reconciled" /\ m.saw = login /\ m.store = call[c].store
      /\ m.seen = call[c].seen /\ m.alone = call[c].alone
  BY <1>0 DEF Call, Place, TypeOK
<1> HIDE DEF m
<1>3. Frame(c) /\ call'[c] = m
  BY <1>0, <1>1, <1>2 DEF Frame
<1>4. TypeOK'
  BY <1>0, <1>1, <1>3, TypeFrame DEF TypeOK, Calls, Frame, files
<1>5. Numbered'
  BY <1>1, <1>2, <1>3 DEF IInv, Numbered, Frame, Calls, files
<1>6. MovesSafely' /\ NamesDiffer'
  BY <1>1, <1>2, <1>3 DEF IInv, MovesSafely, NamesDiffer, At, Moving, Frame, files
<1>7. TakenIsSafe'
  <2>1. \A d \in Caller : call'[d].at \in {"unlink", "rename"} => call'[d] = call[d]
    BY <1>2, <1>3 DEF Frame
  <2> QED
    BY <1>1, <2>1 DEF IInv, TakenIsSafe, Calls, files
<1>8. LonelyKnows' /\ LonelyKeepsChecks' /\ AloneUnlessSuspect'
  <2>1. call[c].alone =>
          /\ call[c].store.corrupt => ~config.bg
          /\ call[c].store.bg => readable /\ config.bg
    BY <1>1 DEF IInv, LonelyKnows, At
  <2>2. "reconciled" \notin Saving
    BY DEF Saving, Moving
  <2> QED
    BY <1>1, <1>2, <1>3, <2>1, <2>2, LonelyStep DEF At, files
<1>9. LoginEntryIsWanted'
  BY <1>1 DEF IInv, LoginEntryIsWanted, files
<1> QED
  BY <1>4, <1>5, <1>6, <1>7, <1>8, <1>9 DEF IInv

(* What a call that is alone reconciles is the entry of now with the       *)
(* settings of now.                                                        *)
LEMMA ReconcileKeeps ==
  ASSUME IInv, NEW c \in Caller, Reconcile(c) PROVE IInv'
<1>0. TypeOK
  BY DEF IInv
<1>1. /\ At(c, "reconciled") /\ End(c)
      /\ login' = (IF call[c].saw \notin Ours THEN login
                   ELSE IF ~call[c].store.bg THEN "none"
                   ELSE IF call[c].saw = "new" THEN login ELSE "new")
      /\ suspect' = (suspect /\ ~call[c].alone)
      /\ UNCHANGED <<config, readable, aside, links, taken, faults>> /\ Calls
  BY DEF Reconcile
<1>2. suspect' = suspect \/ call[c].alone
  BY <1>0, <1>1 DEF TypeOK
<1>3. /\ Numbered' /\ MovesSafely' /\ NamesDiffer' /\ TakenIsSafe'
      /\ LonelyKnows' /\ LonelyKeepsChecks' /\ AloneUnlessSuspect'
  BY <1>1, <1>2, EndKeeps DEF At, Calls
<1>4. LoginEntryIsWanted'
  <2>1. ~suspect' => call[c].alone
    BY <1>1 DEF IInv, AloneUnlessSuspect, At
  <2>2. call[c].alone => call[c].saw = login /\ (call[c].store.bg => readable /\ config.bg)
    BY <1>1 DEF IInv, LonelyKnows, At
  <2> QED
    BY <1>1, <2>1, <2>2 DEF LoginEntryIsWanted, Ours
<1>5. TypeOK'
  <2>1. login' \in Login
    BY <1>0, <1>1 DEF TypeOK, Login
  <2>2. suspect' \in BOOLEAN
    BY <1>1, Zenon
  <2> QED
    BY <1>0, <1>1, <2>1, <2>2, EndFrame, TypeFrame DEF TypeOK, Calls, Frame
<1> QED
  BY <1>3, <1>4, <1>5 DEF IInv

(* The check at login stops or goes on.                                    *)
LEMMA GateKeeps ==
  ASSUME IInv, NEW c \in Caller, Gate(c) PROVE IInv'
<1>0. TypeOK
  BY DEF IInv
<1>1. At(c, "gate") /\ UNCHANGED <<files, taken, suspect, faults>> /\ Calls
  BY DEF Gate
<1>2. CASE End(c)
  BY <1>1, <1>2, PlainEndKeeps DEF At
<1>3. CASE Go(c, "contact")
  <2>1. /\ Frame(c) /\ Numbered' /\ MovesSafely' /\ NamesDiffer' /\ TakenIsSafe'
        /\ LonelyKnows' /\ LonelyKeepsChecks' /\ AloneUnlessSuspect'
    BY <1>1, <1>3, GoKeeps DEF At, Place, Moving, Calls, files
  <2>2. LoginEntryIsWanted'
    BY <1>1 DEF IInv, LoginEntryIsWanted, files
  <2>3. TypeOK'
    BY <1>0, <1>1, <2>1, TypeFrame DEF TypeOK, Calls, Frame, files
  <2> QED
    BY <2>1, <2>2, <2>3 DEF IInv
<1> QED
  BY <1>2, <1>3 DEF Gate

-----------------------------------------------------------------------------
(* A call begins, or somebody else works on the files. *)

(* The others are not alone any more, and go on as they were.              *)
LEMMA DisturbedFields ==
  ASSUME TypeOK, NEW d \in Caller
  PROVE  /\ Disturbed[d] \in Call /\ ~Disturbed[d].alone
         /\ Disturbed[d].at = call[d].at /\ Disturbed[d].store = call[d].store
         /\ Disturbed[d].seen = call[d].seen /\ Disturbed[d].name = call[d].name
<1>1. call[d] \in Call
  BY CallType
<1>2. Disturbed[d] = [call[d] EXCEPT !.alone = FALSE]
  BY DEF Disturbed
<1> QED
  BY <1>1, <1>2 DEF Call

(* A call that begins has loaded the files, and knows them when nothing    *)
(* else is under way.                                                      *)
LEMMA OpenKeeps ==
  ASSUME IInv, NEW c \in Caller, NEW todo \in Seq(Change), NEW flag \in BOOLEAN,
         NEW place \in {"reconcile", "set", "unlogin", "addLogin", "gate"},
         Open(c, place, todo, flag),
         place = "set" => /\ todo # <<>> /\ Head(todo).key = "bg"
                          /\ \A i \in DOMAIN todo : todo[i].key = "bg" => todo[i].to
  PROVE  IInv'
<1>0. TypeOK /\ config \in File /\ readable \in BOOLEAN
  BY DEF IInv, TypeOK
<1> DEFINE alone == ~Overlapped
           mine == [Resting EXCEPT !.at = place, !.store = Loaded, !.seen = config, !.todo = todo,
                      !.flag = flag, !.alone = alone]
<1>1. /\ At(c, "idle") /\ calls < MaxCalls /\ calls' = calls + 1
      /\ call' = [d \in Caller |-> IF d = c THEN mine ELSE [call[d] EXCEPT !.alone = FALSE]]
      /\ suspect' = (suspect \/ Overlapped)
      /\ UNCHANGED <<files, taken, faults, user>>
  BY DEF Open
<1>2. Overlapped \in BOOLEAN /\ alone \in BOOLEAN
  BY Zenon DEF Overlapped
<1>3. alone => \A d \in Caller : At(d, "idle")
  BY DEF Overlapped
<1>16. ~alone => suspect'
  BY <1>1
<1> HIDE DEF alone
<1>4. Loaded \in Store /\ (Loaded.bg => readable /\ config.bg)
      /\ (Loaded.corrupt => config.kind = "corrupt")
  BY <1>0, LoadedFields
<1>5. /\ mine \in Call /\ mine.at = place /\ mine.store = Loaded /\ mine.seen = config
      /\ mine.todo = todo /\ mine.alone = alone
  <2>1. Resting \in Call
    BY RestingFields
  <2> QED
    BY <1>0, <1>2, <1>4, <2>1 DEF Call, Place
<1> HIDE DEF mine
<1>6. /\ call' \in [Caller -> Call] /\ call'[c] = mine
      /\ \A d \in Caller \ {c} : call'[d] = Disturbed[d]
  <2>1. \A d \in Caller \ {c} : call'[d] = Disturbed[d]
    BY <1>1 DEF Disturbed
  <2>2. \A d \in Caller \ {c} : Disturbed[d] \in Call
    BY <1>0, DisturbedFields
  <2> QED
    BY <1>1, <1>5, <2>1, <2>2
<1>7. \A d \in Caller \ {c} :
        /\ ~call'[d].alone /\ call'[d].at = call[d].at /\ call'[d].store = call[d].store
        /\ call'[d].seen = call[d].seen /\ call'[d].name = call[d].name
  BY <1>0, <1>6, DisturbedFields
<1>8. TypeOK'
  <2>1. calls' \in 0..MaxCalls
    BY <1>0, <1>1, PreferencesAssumption DEF TypeOK
  <2>2. suspect' \in BOOLEAN
    BY <1>1, Zenon
  <2> QED
    BY <1>0, <1>1, <1>6, <2>1, <2>2, TypeFrame DEF TypeOK, files
<1>9. Numbered'
  BY <1>1, <1>4, <1>5, <1>6, <1>7 DEF IInv, Numbered, files
<1>10. MovesSafely' /\ NamesDiffer'
  BY <1>1, <1>5, <1>6, <1>7 DEF IInv, MovesSafely, NamesDiffer, At, Moving, files
<1>11. TakenIsSafe'
  <2>1. \A d \in Caller : call'[d].at \in {"unlink", "rename"}
          => call[d].at \in {"unlink", "rename"} /\ call'[d].name = call[d].name
    BY <1>5, <1>6, <1>7
  <2> QED
    BY <1>1, <2>1 DEF IInv, TakenIsSafe, files
<1>12. LonelyKnows'
  <2>1. alone => \A d \in Caller \ {c} : At(d, "idle")'
    BY <1>3, <1>7 DEF At
  <2>2. Loaded.corrupt => ~config.bg
    BY <1>4 DEF IInv, Numbered
  <2> QED
    BY <1>1, <1>4, <1>5, <1>6, <1>7, <2>1, <2>2 DEF LonelyKnows, At, files
<1>13. LonelyKeepsChecks'
  <2>1. place \in Saving => KeepsChecks(c)'
    BY <1>5, <1>6 DEF Saving, Moving, KeepsChecks, At
  <2> QED
    BY <1>5, <1>6, <1>7, <2>1 DEF LonelyKeepsChecks
<1>14. AloneUnlessSuspect'
  <2> SUFFICES ASSUME ~suspect', NEW d \in Caller PROVE At(d, "idle")' \/ call'[d].alone
    BY DEF AloneUnlessSuspect
  <2>1. alone
    BY <1>16
  <2> QED
    BY <1>3, <1>5, <1>6, <1>7, <2>1 DEF At
<1>15. LoginEntryIsWanted'
  BY <1>1 DEF IInv, LoginEntryIsWanted, files
<1> QED
  BY <1>8, <1>9, <1>10, <1>11, <1>12, <1>13, <1>14, <1>15 DEF IInv

LEMMA Patches ==
  ASSUME NEW patch \in Patch
  PROVE  /\ patch \in Seq(Change) /\ patch # <<>> /\ Head(patch) = patch[1]
         /\ patch[1].key = "bg"
         /\ patch[1] # [key |-> "bg", to |-> FALSE] =>
              \A i \in DOMAIN patch : patch[i].key = "bg" => patch[i].to
<1>1. ASSUME NEW k \in Key, NEW v \in BOOLEAN
      PROVE  /\ [key |-> k, to |-> v] \in Change
             /\ [key |-> k, to |-> v].key = k /\ [key |-> k, to |-> v].to = v
  BY DEF Change
<1>2. PICK v \in BOOLEAN : \/ patch = <<[key |-> "bg", to |-> v]>>
                           \/ patch = <<[key |-> "bg", to |-> v], [key |-> "other", to |-> TRUE]>>
  BY DEF Patch
<1> DEFINE first == [key |-> "bg", to |-> v]
           second == [key |-> "other", to |-> TRUE]
<1>3. /\ first \in Change /\ first.key = "bg" /\ first.to = v
      /\ second \in Change /\ second.key = "other"
  BY <1>1 DEF Key
<1>4. first # [key |-> "bg", to |-> FALSE] => v
  OBVIOUS
<1>5. patch = <<first>> \/ patch = <<first, second>>
  BY <1>2
<1> HIDE DEF first, second
<1>6. CASE patch = <<first>>
  <2>1. patch \in Seq(Change) /\ DOMAIN patch = {1} /\ patch[1] = first
    BY <1>3, <1>6
  <2> QED
    BY <1>3, <1>4, <1>6, <2>1
<1>7. CASE patch = <<first, second>>
  <2>1. patch \in Seq(Change) /\ DOMAIN patch = {1, 2} /\ patch[1] = first /\ patch[2] = second
    BY <1>3, <1>7
  <2> QED
    BY <1>3, <1>4, <1>7, <2>1
<1> QED
  BY <1>5, <1>6, <1>7

(* The calls that there are.                                               *)
LEMMA CallsKeep ==
  ASSUME IInv, NEW c \in Caller,
         LoadSettings(c) \/ SaveSettings(c) \/ SetAutostart(c) \/ LoginCheck(c)
  PROVE  IInv'
<1>0. <<>> \in Seq(Change)
  OBVIOUS
<1>1. CASE LoadSettings(c)
  <2>1. Open(c, "reconcile", <<>>, FALSE)
    BY <1>1 DEF LoadSettings
  <2> QED
    BY <1>0, <2>1, OpenKeeps
<1>2. CASE SaveSettings(c)
  <2>1. PICK patch \in Patch :
          Open(c, IF patch[1] = [key |-> "bg", to |-> FALSE] THEN "unlogin" ELSE "set",
               patch, FALSE)
    BY <1>2 DEF SaveSettings
  <2>2. CASE patch[1] = [key |-> "bg", to |-> FALSE]
    <3>1. Open(c, "unlogin", patch, FALSE)
      BY <2>1, <2>2
    <3> QED
      BY <3>1, Patches, OpenKeeps
  <2>3. CASE patch[1] # [key |-> "bg", to |-> FALSE]
    <3>1. Open(c, "set", patch, FALSE)
      BY <2>1, <2>3
    <3>2. /\ patch \in Seq(Change) /\ patch # <<>> /\ Head(patch).key = "bg"
          /\ \A i \in DOMAIN patch : patch[i].key = "bg" => patch[i].to
      BY <2>3, Patches
    <3> QED
      BY <3>1, <3>2, OpenKeeps
  <2> QED
    BY <2>2, <2>3
<1>3. CASE SetAutostart(c)
  <2>1. PICK place \in {"addLogin", "unlogin"} : Open(c, place, <<>>, FALSE)
    BY <1>3 DEF SetAutostart
  <2> QED
    BY <1>0, <2>1, OpenKeeps
<1>4. CASE LoginCheck(c)
  <2>1. PICK flag \in BOOLEAN : Open(c, "gate", <<>>, flag)
    <3>1. (login = "new") \in BOOLEAN
      OBVIOUS
    <3>2. Open(c, "gate", <<>>, login = "new")
      BY <1>4 DEF LoginCheck
    <3> QED
      BY <3>1, <3>2
  <2> QED
    BY <1>0, <2>1, OpenKeeps
<1> QED
  BY <1>1, <1>2, <1>3, <1>4

(* The user: a new file that does not parse has a number of its own.       *)
LEMMA UserKeeps == IInv /\ UserActs => IInv'
<1> SUFFICES ASSUME IInv, UserActs PROVE IInv'
  OBVIOUS
<1>0. TypeOK /\ user \in Nat /\ user \in 0..MaxUser /\ MaxUser \in Nat
  <2>1. TypeOK /\ user \in 0..MaxUser
    BY DEF IInv, TypeOK
  <2>2. MaxUser \in Nat
    BY PreferencesAssumption
  <2> QED
    BY <2>1, <2>2
<1>1. /\ user < MaxUser /\ user' = user + 1 /\ call' = Disturbed /\ suspect' = TRUE
      /\ UNCHANGED <<aside, links, taken, calls, faults>>
  BY DEF UserActs
<1>2. user + 1 \in 0..MaxUser
  BY <1>0, <1>1
<1>3. \/ config' = Corrupt(user + 1) \/ config' = Good(FALSE, TRUE) \/ config' = NoFile
      \/ config' = config
  BY DEF UserActs
<1>4. /\ config' \in File
      /\ config' = config \/ config'.kind \in {"ok", "none"}
           \/ (config'.kind = "corrupt" /\ config'.id = user + 1)
      /\ config'.kind \in {"corrupt", "none"} => ~config'.bg
  <2>1. CASE config' = config
    BY <1>0, <2>1 DEF TypeOK, IInv, Numbered
  <2>2. CASE config' = Corrupt(user + 1)
    BY <1>2, <2>2, FileFields
  <2>3. CASE config' = Good(FALSE, TRUE) \/ config' = NoFile
    BY <2>3, FileFields
  <2> QED
    BY <1>3, <2>1, <2>2, <2>3
<1>5. /\ call' \in [Caller -> Call]
      /\ \A d \in Caller :
           /\ ~call'[d].alone /\ call'[d].at = call[d].at /\ call'[d].store = call[d].store
           /\ call'[d].seen = call[d].seen /\ call'[d].name = call[d].name
  <2>1. call' = [d \in Caller |-> Disturbed[d]]
    BY <1>1 DEF Disturbed
  <2> QED
    BY <1>0, <1>1, <2>1, DisturbedFields
<1>6. TypeOK'
  <2>1. login' \in Login
    BY <1>0 DEF UserActs, TypeOK, Login
  <2>2. readable' \in BOOLEAN
    <3>1. readable' = TRUE \/ readable' = readable \/ readable' = ~readable
      BY DEF UserActs
    <3> QED
      BY <1>0, <3>1 DEF TypeOK
  <2> QED
    BY <1>0, <1>1, <1>2, <1>4, <1>5, <2>1, <2>2, TypeFrame DEF TypeOK
<1>7. config \in File /\ (config.kind = "corrupt" => config.id <= user) /\ config.id \in Nat
  <2>1. config \in File
    BY <1>0 DEF TypeOK
  <2>2. config.id \in Nat
    BY <2>1, FileKinds
  <2> QED
    BY <2>1, <2>2 DEF IInv, Numbered
<1>8. \A d \in Caller : call[d].seen \in File /\ call[d].seen.id \in Nat
  <2>1. \A d \in Caller : call[d] \in Call
    BY <1>0, CallType
  <2>2. \A d \in Caller : call[d].seen \in File
    BY <2>1 DEF Call
  <2> QED
    BY <2>2, FileKinds
<1>9. Numbered'
  BY <1>0, <1>1, <1>4, <1>5, <1>7, <1>8 DEF IInv, Numbered
<1>10. \A d \in Caller : call[d].store.corrupt /\ config # call[d].seen => config' # call[d].seen
  BY <1>0, <1>4, <1>8 DEF IInv, Numbered
<1>11. MovesSafely' /\ NamesDiffer'
  <2>1. \A d \in Caller : At(d, "unlink") /\ config' = call[d].seen => config = config'
    BY <1>10 DEF IInv, MovesSafely, Moving, At
  <2> QED
    BY <1>1, <1>5, <1>10, <2>1 DEF IInv, MovesSafely, NamesDiffer, At, Moving
<1>12. TakenIsSafe'
  <2> SUFFICES ASSUME NEW f \in taken
               PROVE  /\ f.kind = "corrupt" /\ f.id <= user' /\ config' # f
                      /\ \E k \in BackupName :
                           /\ aside'[k] = f
                           /\ \A d \in Caller :
                                call'[d].at \in {"unlink", "rename"} => call'[d].name # k
    BY <1>1 DEF TakenIsSafe
  <2>1. f.kind = "corrupt" /\ f.id <= user /\ config # f
    BY DEF IInv, TakenIsSafe
  <2>2. f.id \in Nat
    <3>1. f \in File
      BY <1>0 DEF TypeOK
    <3> QED
      BY <3>1, FileKinds
  <2>3. PICK k \in BackupName :
          aside[k] = f /\ \A d \in Caller : call[d].at \in {"unlink", "rename"} => call[d].name # k
    BY DEF IInv, TakenIsSafe
  <2> QED
    BY <1>0, <1>1, <1>4, <1>5, <2>1, <2>2, <2>3
<1>13. LonelyKnows' /\ LonelyKeepsChecks' /\ AloneUnlessSuspect' /\ LoginEntryIsWanted'
  BY <1>1, <1>5 DEF LonelyKnows, LonelyKeepsChecks, AloneUnlessSuspect, LoginEntryIsWanted
<1> QED
  BY <1>6, <1>9, <1>11, <1>12, <1>13 DEF IInv

-----------------------------------------------------------------------------
LEMMA IInvInit == Init => IInv
<1> SUFFICES ASSUME Init PROVE IInv
  OBVIOUS
<1>1. /\ call = [c \in Caller |-> Resting] /\ taken = {} /\ suspect = TRUE
      /\ calls = 0 /\ faults = 0 /\ user = 0 /\ links \in BOOLEAN
      /\ aside = [n \in BackupName |-> NoFile]
  BY DEF Init
<1>2. \A c \in Caller : /\ call[c] \in Call /\ call[c].at = "idle" /\ ~call[c].alone
                        /\ ~call[c].store.corrupt
  BY <1>1, RestingFields
<1>3. /\ config \in File /\ (config.kind = "corrupt" => config.id = 0)
      /\ (config.kind \in {"corrupt", "none"} => ~config.bg)
  <2>1. config = Good(TRUE, FALSE) \/ config = Good(FALSE, FALSE) \/ config = Corrupt(0)
        \/ config = NoFile
    BY DEF Init
  <2>2. 0 \in 0..MaxUser
    BY PreferencesAssumption
  <2> QED
    BY <2>1, <2>2, FileFields
<1>4. TypeOK
  <2>1. call \in [Caller -> Call]
    BY <1>1, <1>2
  <2>2. aside \in [BackupName -> File]
    BY <1>1, FileFields
  <2>3. readable \in BOOLEAN /\ login \in Login
    BY DEF Init, Login
  <2>4. calls \in 0..MaxCalls /\ faults \in 0..MaxFaults /\ user \in 0..MaxUser
    BY <1>1, PreferencesAssumption
  <2> QED
    BY <1>1, <1>3, <2>1, <2>2, <2>3, <2>4 DEF TypeOK, Call, Place, Store, Change
<1>5. Numbered /\ MovesSafely /\ NamesDiffer /\ TakenIsSafe
  BY <1>1, <1>2, <1>3 DEF Numbered, MovesSafely, NamesDiffer, TakenIsSafe, At, Moving
<1>6. LonelyKnows /\ LonelyKeepsChecks /\ AloneUnlessSuspect /\ LoginEntryIsWanted
  BY <1>1, <1>2 DEF LonelyKnows, LonelyKeepsChecks, AloneUnlessSuspect, LoginEntryIsWanted
<1> QED
  BY <1>4, <1>5, <1>6 DEF IInv

(* Every step keeps the invariant.                                         *)
LEMMA IInvStep == IInv /\ [Next]_vars => IInv'
<1> SUFFICES ASSUME IInv, [Next]_vars PROVE IInv'
  OBVIOUS
<1>1. CASE UserActs
  BY <1>1, UserKeeps
<1>2. ASSUME NEW c \in Caller, Step(c) PROVE IInv'
  <2>1. CASE LoadSettings(c) \/ SaveSettings(c) \/ SetAutostart(c) \/ LoginCheck(c)
    BY <2>1, CallsKeep
  <2>2. CASE Set(c)
    BY <2>2, SetKeeps
  <2>3. CASE LinkAside(c)
    BY <2>3, LinkAsideKeeps
  <2>4. CASE UnlinkOriginal(c)
    BY <2>4, UnlinkOriginalKeeps
  <2>5. CASE UnlinkFails(c)
    BY <2>5, UnlinkFailsKeeps
  <2>6. CASE LookForName(c)
    BY <2>6, LookForNameKeeps
  <2>7. CASE RenameAside(c)
    BY <2>7, RenameAsideKeeps
  <2>8. CASE Write(c)
    BY <2>8, WriteKeeps
  <2>9. CASE RemoveLogin(c)
    BY <2>9, RemoveLoginKeeps
  <2>10. CASE AddLogin(c)
    BY <2>10, AddLoginKeeps
  <2>11. CASE ReadLogin(c)
    BY <2>11, ReadLoginKeeps
  <2>12. CASE Reconcile(c)
    BY <2>12, ReconcileKeeps
  <2>13. CASE Gate(c)
    BY <2>13, GateKeeps
  <2>14. CASE MoveFails(c) \/ WriteFails(c) \/ RemoveLoginFails(c) \/ FileStepFails(c)
              \/ Leave(c) \/ Die(c)
    <3>1. /\ ~At(c, "idle") /\ End(c) /\ UNCHANGED <<files, taken, suspect>> /\ Calls
          /\ (Spoil \/ UNCHANGED faults)
      BY <2>14 DEF MoveFails, WriteFails, RemoveLoginFails, FileStepFails, Leave, Die, At
    <3> QED
      BY <3>1, PlainEndKeeps
  <2> QED
    BY <1>2, <2>1, <2>2, <2>3, <2>4, <2>5, <2>6, <2>7, <2>8, <2>9, <2>10, <2>11, <2>12, <2>13,
       <2>14 DEF Step
<1>3. CASE UNCHANGED vars
  <2>1. UNCHANGED <<config, readable, aside, links, login, call, taken, suspect, user>>
    BY <1>3 DEF vars, files
  <2>2. TypeOK'
    BY <1>3 DEF vars, files, IInv, TypeOK
  <2>3. Numbered' /\ MovesSafely' /\ NamesDiffer' /\ TakenIsSafe'
    BY <2>1 DEF IInv, Numbered, MovesSafely, NamesDiffer, TakenIsSafe, At
  <2>4. LonelyKnows' /\ AloneUnlessSuspect' /\ LoginEntryIsWanted'
    BY <2>1 DEF IInv, LonelyKnows, AloneUnlessSuspect, LoginEntryIsWanted, At
  <2>5. \A c \in Caller : KeepsChecks(c) => KeepsChecks(c)'
    BY <2>1 DEF KeepsChecks, At
  <2>6. LonelyKeepsChecks'
    BY <2>1, <2>5 DEF IInv, LonelyKeepsChecks
  <2> QED
    BY <2>2, <2>3, <2>4, <2>6 DEF IInv
<1> QED
  BY <1>1, <1>2, <1>3 DEF Next

(* The invariant says what the properties say.                             *)
LEMMA IInvImplies == IInv => TypeOK /\ UnusableFilesAreKept /\ LoginEntryIsWanted
  BY DEF IInv, TakenIsSafe, UnusableFilesAreKept

(* Every state has the types of the model.                                 *)
THEOREM TypeCorrect == Spec => []TypeOK
  BY IInvInit, IInvStep, IInvImplies, PTL DEF Spec

(* A settings file that a save could not use is never lost, whatever the   *)
(* number of calls at once, of failures and of deaths.                     *)
THEOREM UnusableFilesKept == Spec => []UnusableFilesAreKept
  BY IInvInit, IInvStep, IInvImplies, PTL DEF Spec

(* The login entry is there only while the checks are on, whenever calls   *)
(* do not overlap and nobody else edits the files.                         *)
THEOREM LoginEntryWanted == Spec => []LoginEntryIsWanted
  BY IInvInit, IInvStep, IInvImplies, PTL DEF Spec

=============================================================================
