------------------------------- MODULE Sessions -------------------------------
(***************************************************************************)
(* Calls of the window and of the command line on one registry             *)
(* (src/src/controller.rs, registry.rs, library.rs, bridge library.rs).    *)
(* Every call opens a session: it loads the table into a copy of its own,  *)
(* works on that copy, and writes one row back.  The first session ever    *)
(* imports the registry of version 2.                                      *)
(***************************************************************************)
EXTENDS Naturals, FiniteSets

CONSTANTS
  Session,     \* the processes and bridge calls that may be under way at once
  Uuid, Legacy,\* app ids, and the one in the registry of version 2
  Path,        \* names of AppImage files
  Canon,       \* the file behind a name, symbolic links followed
  Outside,     \* names that are not in the managed folder
  LegacyPath,  \* the name in the legacy row
  MaxCalls,    \* bound: calls
  MaxFaults,   \* bound: writes that fail and processes that die, together
  MaxUser      \* bound: files and entries replaced from outside

ASSUME SessionsAssumption ==
  /\ Legacy \in Uuid /\ LegacyPath \in Path /\ Outside \subseteq Path
  /\ Canon \in [Path -> Path] /\ \A p \in Path : Canon[Canon[p]] = Canon[p]
  /\ {MaxCalls, MaxFaults, MaxUser} \subseteq Nat

VARIABLES
  dbFile,      \* the database file exists
  db,          \* its table
  file,        \* what is behind a canonical name
  entry,       \* the menu entry an app's row names
  icons,       \* icon files that carry an app's id, by format
  outside,     \* the setting "manage outside folder"
  sess,        \* the sessions
  wanted,      \* history: the rows that successful calls asked for
  excused,     \* history: apps a call wrote although their row had changed since it was loaded
  broken,      \* history: apps that a failing or dying call left half written
  writes,      \* history: how often each app's row was written
  calls, faults, user   \* counters of the bounds

disk == <<dbFile, db, file, entry, icons>>
history == <<wanted, excused, broken, writes>>
vars == <<disk, outside, sess, history, calls, faults, user>>

Nothing == [none |-> "nothing"]
Foreign == [none |-> "foreign"]      \* an entry someone else wrote
Format == {"png", "svg"}
Kind == {"edit", "source", "refresh", "heal", "adopt", "remove"}

Row == [path : Path, arguments : 0..1, source : 0..1, read : BOOLEAN,
        icon : Format \cup {"none"}, entry : BOOLEAN]

\* What a menu entry takes from the row.  (Categories, MIME types and window
\* class come from the file and are not in the table: they are left out.)
Body(row) == [arguments |-> row.arguments, icon |-> row.icon]

LegacyRow == [path |-> LegacyPath, arguments |-> 0, source |-> 0, read |-> FALSE,
              icon |-> "png", entry |-> TRUE]

Empty == [u \in Uuid |-> Nothing]
Imported == [Empty EXCEPT ![Legacy] = LegacyRow]

Resting == [at |-> "idle", kind |-> "edit", uuid |-> Legacy, mine |-> Empty, base |-> [u \in Uuid |-> 0],
            row |-> LegacyRow, found |-> "none", todo |-> {},
            never |-> FALSE, saw |-> {}]

Init ==
  /\ dbFile \in BOOLEAN
  /\ db = IF dbFile THEN Imported ELSE Empty
  /\ file = [p \in {Canon[q] : q \in Path} |-> "png"]
  /\ entry = [Empty EXCEPT ![Legacy] = Body(LegacyRow)]
  /\ icons \in {{}, {<<Legacy, "png">>}}
  /\ outside \in BOOLEAN
  /\ sess = [s \in Session |-> Resting]
  /\ wanted = Imported /\ excused = {}
  /\ broken = IF icons = {} THEN {Legacy} ELSE {}
  /\ writes = [u \in Uuid |-> 0]
  /\ calls = 0 /\ faults = 0 /\ user = 0

At(s, place) == sess[s].at = place
Is(s, kind) == sess[s].kind = kind
Of(s) == sess[s].uuid
Rows(table) == {u \in Uuid : table[u] # Nothing}
Go(s, place) == sess' = [sess EXCEPT ![s].at = place]
End(s) == sess' = [sess EXCEPT ![s] = Resting]
Spoil == faults < MaxFaults /\ faults' = faults + 1

\* The call leaves its app half written; it is for a later call to repair it.
Breaks(s, after) ==
  /\ broken' = broken \cup {Of(s)}
  /\ sess' = [t \in Session |-> IF t = s THEN after ELSE [sess[t] EXCEPT !.saw = @ \ {Of(s)}]]

-----------------------------------------------------------------------------
(* Opening a session. *)

(* `open`: a database file that is not there yet makes this a first start. *)
Begin(s) ==
  /\ At(s, "idle") /\ calls < MaxCalls /\ calls' = calls + 1
  /\ \E kind \in Kind :
       sess' = [sess EXCEPT ![s].kind = kind, ![s].at = IF dbFile THEN "load" ELSE "connect"]
  /\ UNCHANGED <<disk, outside, history, faults, user>>

(* The import reads the legacy file and connects, which makes the file.    *)
Connect(s) ==
  /\ At(s, "connect")
  /\ dbFile' = TRUE
  /\ Go(s, "import")
  /\ UNCHANGED <<db, file, entry, icons, outside, history, calls, faults, user>>

(* `save` replaces the whole table by the rows in memory, in one           *)
(* transaction: the legacy rows only.                                      *)
Saved(table) == table

(* A failed import never blocks the start.                                 *)
ImportSave(s) ==
  /\ At(s, "import")
  /\ \/ /\ db' = Saved(Imported)
        /\ excused' = excused \cup {u \in Uuid : db[u] \notin {Nothing, LegacyRow}}
                              \cup {u \in Uuid : wanted[u] # Imported[u]}
        /\ writes' = [u \in Uuid |-> writes[u] + 1]
        /\ UNCHANGED faults
     \/ /\ Spoil
        /\ excused' = excused \cup {Legacy} /\ UNCHANGED <<db, writes>>
  /\ Go(s, "load")
  /\ UNCHANGED <<dbFile, file, entry, icons, outside, wanted, broken, calls, user>>

Load(s) ==
  /\ At(s, "load")
  /\ sess' = [sess EXCEPT ![s].mine = db, ![s].base = writes, ![s].at = "ready", ![s].saw = broken,
                ![s].todo = {u \in Rows(db) :
                               /\ <<u, db[u].icon>> \notin icons
                               /\ file[Canon[db[u].path]] # "absent"}]
  /\ UNCHANGED <<disk, outside, history, calls, faults, user>>

-----------------------------------------------------------------------------
(* What a call does first with its copy. *)

Work(s, u, place, row) ==
  sess' = [sess EXCEPT ![s].uuid = u, ![s].row = row, ![s].at = place]

(* Arguments and environment: refused input changes nothing; otherwise the *)
(* entry, when there is one, is rewritten before the row.                  *)
PickEdit(s) ==
  /\ At(s, "ready") /\ Is(s, "edit")
  /\ \E u \in Rows(sess[s].mine) :
       LET row == [sess[s].mine[u] EXCEPT !.arguments = 1 - @]
       IN  Work(s, u, IF row.entry THEN "entry" ELSE "upsert", row)
  /\ UNCHANGED <<disk, outside, history, calls, faults, user>>

(* `set_source`, `unset_source`: the row only.                             *)
PickSource(s) ==
  /\ At(s, "ready") /\ Is(s, "source")
  /\ \E u \in Rows(sess[s].mine) :
       Work(s, u, "upsert", [sess[s].mine[u] EXCEPT !.source = 1 - @])
  /\ UNCHANGED <<disk, outside, history, calls, faults, user>>

PickRefresh(s) ==
  /\ At(s, "ready") /\ Is(s, "refresh")
  /\ \E u \in Rows(sess[s].mine) : Work(s, u, "inspect", sess[s].mine[u])
  /\ UNCHANGED <<disk, outside, history, calls, faults, user>>

(* The window heals one app after the other, each once.                    *)
PickHeal(s) ==
  /\ At(s, "ready") /\ Is(s, "heal")
  /\ \E u \in sess[s].todo :
       /\ sess' = [sess EXCEPT
            ![s].todo = @ \ {u}, ![s].uuid = u, ![s].found = "none",
            ![s].row = IF u \in Rows(sess[s].mine) THEN sess[s].mine[u] ELSE @,
            ![s].never = u \in Rows(sess[s].mine) /\ ~sess[s].mine[u].read,
            ![s].at = IF u \in Rows(sess[s].mine) THEN "inspect" ELSE "ready"]
  /\ UNCHANGED <<disk, outside, history, calls, faults, user>>

PickRemove(s) ==
  /\ At(s, "ready") /\ Is(s, "remove")
  /\ \E u \in Rows(sess[s].mine) : Work(s, u, "unlink", sess[s].mine[u])
  /\ UNCHANGED <<disk, outside, history, calls, faults, user>>

(* Mutant: a name is looked up as it is spelled.                           *)
KnownAsSpelled(table, p) == \E u \in Rows(table) : table[u].path = p

(* `by_path`: a row names the same file, symbolic links followed.          *)
Known(table, p) == \E u \in Rows(table) : Canon[table[u].path] = Canon[p]

(* What the scan finds: files in the managed folder and, when the setting  *)
(* is on, files that an entry of someone else names.                       *)
Discovered == {p \in Path : file[Canon[p]] # "absent" /\ (p \in Outside => outside)}

(* A file that is not managed gets a row of its own, made from its name.   *)
PickAdopt(s) ==
  /\ At(s, "ready") /\ Is(s, "adopt")
  /\ \E p \in Discovered, u \in Uuid :
       /\ ~Known(sess[s].mine, p) /\ ~Known(sess[s].mine, Canon[p])
       /\ u # Legacy /\ wanted[u] = Nothing /\ db[u] = Nothing /\ u \notin excused
       /\ \A t \in Session \ {s} : sess[t].uuid # u
       /\ Work(s, u, "register",
               [path |-> Canon[p], arguments |-> 0, source |-> 0, read |-> FALSE,
                icon |-> "none", entry |-> FALSE])
  /\ UNCHANGED <<disk, outside, history, calls, faults, user>>

(* There is nothing to do, or the call is refused.                         *)
Refuse(s) ==
  /\ At(s, "ready")
  /\ End(s)
  /\ UNCHANGED <<disk, outside, history, calls, faults, user>>

-----------------------------------------------------------------------------
(* Reading the file again. *)

(* The whole call ends; a heal goes on with the next app.                  *)
Settled(s) ==
  IF Is(s, "heal") THEN [sess[s] EXCEPT !.at = "ready"] ELSE Resting

(* The file is gone, no AppImage, or the call is cancelled.                *)
InspectFails(s) ==
  /\ At(s, "inspect")
  /\ sess' = [sess EXCEPT ![s] = Settled(s)]
  /\ UNCHANGED <<disk, outside, history, calls, faults, user>>

(* The icon that an inspection stages.                                     *)
IconOf(content) == IF content \in Format THEN content ELSE "none"

Inspect(s) ==
  /\ At(s, "inspect")
  /\ file[Canon[sess[s].row.path]] \in Format \cup {"plain"}
  /\ sess' = [sess EXCEPT
       ![s].found = IconOf(file[Canon[sess[s].row.path]]),
       ![s].at = IF Is(s, "heal") THEN "reopen" ELSE "icon"]
  /\ UNCHANGED <<disk, outside, history, calls, faults, user>>

(* Mutant: the copy from before the file was read is used.                 *)
ReopenedStale(s) == sess[s].mine

(* The table a heal works on once the file is read.                        *)
Reopened(s) == db

Reopen(s) ==
  /\ At(s, "reopen")
  /\ LET table == Reopened(s)
     IN  sess' = [sess EXCEPT
           ![s].mine = table, ![s].base = writes,
           ![s].row = IF table[Of(s)] = Nothing THEN @ ELSE table[Of(s)],
           ![s].at = IF table[Of(s)] = Nothing THEN "ready" ELSE "icon"]
  /\ UNCHANGED <<disk, outside, history, calls, faults, user>>

(* A refresh takes all the file says, a heal does so for a row never read. *)
Filled(s) == ~Is(s, "heal") \/ ~sess[s].row.read

(* Where a call goes once the icon is in place.                            *)
AfterIcon(s, changed) ==
  CASE Is(s, "heal") /\ ~changed -> "ready"
    [] Is(s, "heal") /\ changed /\ sess[s].row.entry /\ entry[Of(s)] # Nothing -> "verify"
    [] ~Is(s, "heal") /\ sess[s].row.entry -> "entry"
    [] OTHER -> "upsert"

(* Mutant: the old file goes even when it is the one just installed.       *)
IconsTaken(s) ==
  (icons \cup {<<Of(s), sess[s].found>>}) \ {<<Of(s), sess[s].row.icon>>}

(* `sync_icon`: the new icon is renamed in, then one of another format     *)
(* that carries the app's id is removed.                                   *)
IconsSynced(s) ==
  (icons \cup {<<Of(s), sess[s].found>>})
    \ (IF sess[s].row.icon = sess[s].found THEN {} ELSE {<<Of(s), sess[s].row.icon>>})

SyncIcon(s) ==
  /\ At(s, "icon")
  /\ LET row == sess[s].row
         named == IF sess[s].found = "none" THEN row.icon ELSE sess[s].found
         changed == sess[s].never \/ named # row.icon
                      \/ (sess[s].found # "none" /\ <<Of(s), row.icon>> \notin icons)
     IN  /\ icons' = IF sess[s].found = "none" THEN icons ELSE IconsSynced(s)
         /\ sess' = [sess EXCEPT
              ![s].row = [row EXCEPT !.icon = named, !.read = row.read \/ Filled(s)],
              ![s].at = AfterIcon(s, changed)]
  /\ UNCHANGED <<dbFile, db, file, entry, outside, history, calls, faults, user>>

(* A refresh goes on without the icon, a heal does not.                    *)
SyncIconFails(s) ==
  /\ At(s, "icon") /\ sess[s].found # "none" /\ Spoil
  /\ IF Is(s, "heal")
     THEN Go(s, "ready")
     ELSE sess' = [sess EXCEPT
            ![s].found = "none", ![s].row.read = TRUE,
            ![s].at = AfterIcon(s, TRUE)]
  /\ UNCHANGED <<disk, outside, history, calls, user>>

(* `verify_ownership`: the markers are there and carry the app's id.       *)
Ours(u) == entry[u] \notin {Nothing, Foreign}

VerifyEntry(s) ==
  /\ At(s, "verify")
  /\ Go(s, IF Ours(Of(s)) THEN "entry" ELSE "upsert")
  /\ UNCHANGED <<disk, outside, history, calls, faults, user>>

-----------------------------------------------------------------------------
(* Writing back. *)

(* Mutant: the entry is made from the row as it was.                       *)
WriteOldEntry(s) ==
  /\ At(s, "entry")
  /\ entry' = [entry EXCEPT ![Of(s)] = Body(sess[s].mine[Of(s)])]
  /\ Go(s, "upsert")
  /\ UNCHANGED <<dbFile, db, file, icons, outside, history, calls, faults, user>>

WriteEntry(s) ==
  /\ At(s, "entry")
  /\ entry' = [entry EXCEPT ![Of(s)] = Body(sess[s].row)]
  /\ Go(s, "upsert")
  /\ UNCHANGED <<dbFile, db, file, icons, outside, history, calls, faults, user>>

WriteEntryFails(s) ==
  /\ At(s, "entry") /\ Spoil
  /\ Breaks(s, Settled(s))
  /\ UNCHANGED <<disk, outside, wanted, excused, writes, calls, user>>

(* The row in the table is not the one this session loaded.                *)
Stale(s) ==
  \/ writes[Of(s)] # sess[s].base[Of(s)]
  \/ At(s, "register") /\ \E u \in Rows(db) :
        Canon[db[u].path] = Canon[sess[s].row.path] /\ sess[s].base[u] # writes[u]

Wrote(s) ==
  /\ writes' = [writes EXCEPT ![Of(s)] = @ + 1]
  /\ excused' = IF Stale(s) THEN excused \cup {Of(s)} ELSE excused

(* What the call asked for: a heal and a refresh ask for no change of the  *)
(* user's own fields.                                                      *)
Asked(s) ==
  LET u == Of(s)
      sets(kind) == ~At(s, "register") /\ wanted[u] # Nothing /\ Is(s, kind)
  IN  wanted' = CASE At(s, "register") -> [wanted EXCEPT ![u] = sess[s].row]
                  [] sets("edit") -> [wanted EXCEPT ![u].arguments = sess[s].row.arguments]
                  [] sets("source") -> [wanted EXCEPT ![u].source = sess[s].row.source]
                  [] OTHER -> wanted

(* `upsert`: the whole row, whatever the table has by now.  A call that     *)
(* read the icon and comes this far leaves the app in order.               *)
Upsert(s) ==
  /\ At(s, "upsert")
  /\ db' = [db EXCEPT ![Of(s)] = sess[s].row]
  /\ Wrote(s) /\ Asked(s)
  /\ broken' = IF sess[s].found # "none" /\ Of(s) \in sess[s].saw THEN broken \ {Of(s)} ELSE broken
  /\ IF Is(s, "heal")
     THEN sess' = [sess EXCEPT ![s].at = "ready", ![s].mine[Of(s)] = sess[s].row,
                               ![s].base[Of(s)] = writes[Of(s)] + 1]
     ELSE End(s)
  /\ UNCHANGED <<dbFile, file, entry, icons, outside, calls, faults, user>>

(* The row of an adoption comes before anything is read; a failure to read *)
(* the file keeps it.                                                      *)
Register(s) ==
  /\ At(s, "register")
  /\ db' = [db EXCEPT ![Of(s)] = sess[s].row]
  /\ Wrote(s) /\ Asked(s)
  /\ sess' = [sess EXCEPT ![s].kind = "refresh", ![s].at = "inspect",
                ![s].mine[Of(s)] = sess[s].row, ![s].base[Of(s)] = writes[Of(s)] + 1]
  /\ UNCHANGED <<dbFile, file, entry, icons, outside, broken, calls, faults, user>>

(* A failed write ends the call; a change of the source first puts the     *)
(* whole table back as this session loaded it.                             *)
WriteFails(s) ==
  /\ At(s, "upsert") \/ At(s, "register")
  /\ Spoil
  /\ Breaks(s, IF Is(s, "source") THEN [sess[s] EXCEPT !.at = "restore"] ELSE Settled(s))
  /\ UNCHANGED <<disk, outside, wanted, excused, writes, calls, user>>

Restore(s) ==
  /\ At(s, "restore")
  /\ \/ /\ db' = Saved(sess[s].mine)
        /\ excused' = excused \cup {u \in Uuid : writes[u] # sess[s].base[u]}
        /\ writes' = [u \in Uuid |-> writes[u] + 1]
     \/ UNCHANGED <<db, excused, writes>>
  /\ End(s)
  /\ UNCHANGED <<dbFile, file, entry, icons, outside, wanted, broken, calls, faults, user>>

(* A removal: the file, then what carries the app's markers, then the row  *)
(* (in detail: Removal).                                                   *)
Unlink(s) ==
  /\ At(s, "unlink")
  /\ file' = [file EXCEPT ![Canon[sess[s].row.path]] = "absent"]
  /\ entry' = [entry EXCEPT ![Of(s)] = IF Ours(Of(s)) THEN Nothing ELSE @]
  /\ icons' = icons \ {<<Of(s), sess[s].row.icon>>}
  /\ Go(s, "unregister")
  /\ UNCHANGED <<dbFile, db, outside, history, calls, faults, user>>

Unregister(s) ==
  /\ At(s, "unregister")
  /\ db' = [db EXCEPT ![Of(s)] = Nothing]
  /\ wanted' = [wanted EXCEPT ![Of(s)] = Nothing]
  /\ Wrote(s)
  /\ End(s)
  /\ UNCHANGED <<dbFile, file, entry, icons, outside, broken, calls, faults, user>>

UnregisterFails(s) ==
  /\ At(s, "unregister") /\ Spoil
  /\ Breaks(s, Resting)
  /\ UNCHANGED <<disk, outside, wanted, excused, writes, calls, user>>

-----------------------------------------------------------------------------
(* The process dies.                                                       *)
Crash(s) ==
  /\ ~At(s, "idle") /\ Spoil
  /\ excused' = IF At(s, "import") THEN excused \cup {Legacy} ELSE excused
  /\ Breaks(s, Resting)
  /\ UNCHANGED <<disk, outside, wanted, writes, calls, user>>

(* Someone replaces an AppImage, or the menu entry of an app.              *)
UserActs ==
  /\ user < MaxUser /\ user' = user + 1
  /\ \/ /\ \E p \in DOMAIN file, c \in {"svg", "plain", "bad"} :
             file[p] \notin {"absent", c} /\ file' = [file EXCEPT ![p] = c]
        /\ UNCHANGED entry
     \/ /\ \E u \in Uuid : Ours(u) /\ entry' = [entry EXCEPT ![u] = Foreign]
        /\ UNCHANGED file
  /\ UNCHANGED <<dbFile, db, icons, outside, sess, history, calls, faults>>

SessionStep(s) ==
  \/ Begin(s) \/ Connect(s) \/ ImportSave(s) \/ Load(s)
  \/ PickEdit(s) \/ PickSource(s) \/ PickRefresh(s) \/ PickHeal(s) \/ PickRemove(s)
  \/ PickAdopt(s) \/ Refuse(s)
  \/ InspectFails(s) \/ Inspect(s) \/ Reopen(s) \/ SyncIcon(s) \/ SyncIconFails(s)
  \/ VerifyEntry(s) \/ WriteEntry(s) \/ WriteEntryFails(s)
  \/ Upsert(s) \/ Register(s) \/ WriteFails(s) \/ Restore(s)
  \/ Unlink(s) \/ Unregister(s) \/ UnregisterFails(s)
  \/ Crash(s)

Next == UserActs \/ \E s \in Session : SessionStep(s)

Spec == Init /\ [][Next]_vars

-----------------------------------------------------------------------------
Table == [Uuid -> Row \cup {Nothing}]
Entry == [arguments : 0..1, icon : Format \cup {"none"}] \cup {Nothing, Foreign}
Place == {"idle", "connect", "import", "load", "ready", "register", "inspect", "reopen", "icon",
          "verify", "entry", "upsert", "restore", "unlink", "unregister"}
State == [at : Place, kind : Kind, uuid : Uuid, mine : Table, base : [Uuid -> Nat], row : Row,
          found : Format \cup {"none"}, todo : SUBSET Uuid, never : BOOLEAN, saw : SUBSET Uuid]

(* Every variable has its type.                                            *)
TypeOK ==
  /\ dbFile \in BOOLEAN /\ outside \in BOOLEAN
  /\ db \in Table /\ wanted \in Table /\ writes \in [Uuid -> Nat]
  /\ file \in [{Canon[p] : p \in Path} -> {"absent", "png", "svg", "plain", "bad"}]
  /\ entry \in [Uuid -> Entry] /\ icons \subseteq Uuid \X Format
  /\ sess \in [Session -> State]
  /\ excused \subseteq Uuid /\ broken \subseteq Uuid
  /\ {calls, faults, user} \subseteq Nat

Quiet == \A s \in Session : At(s, "idle")

(* Outside the first import, the table holds the rows that successful      *)
(* calls asked for, with the arguments and the source they set, whatever   *)
(* was read, healed or refreshed meanwhile: an app is excused only when a  *)
(* call wrote its row while the table no longer had the row that call had  *)
(* loaded.  A heal loads it after the slow read, so an edit made during    *)
(* that read stays (`heal_icon`).                                          *)
TableIsWhatWasAsked ==
  (dbFile /\ \A s \in Session : ~At(s, "import")) =>
    \A u \in Uuid \ excused :
      /\ (db[u] = Nothing) <=> (wanted[u] = Nothing)
      /\ db[u] # Nothing => /\ db[u].arguments = wanted[u].arguments
                            /\ db[u].source = wanted[u].source

(* Between calls the menu entry of an app starts it with the arguments of  *)
(* its row, unless its writes overlapped or a call died or failed between  *)
(* the entry and the row; a later read that completes repairs that.        *)
EntryFollowsRow ==
  Quiet => \A u \in Rows(db) \ (excused \cup broken) :
    (db[u].entry /\ Ours(u)) => entry[u].arguments = db[u].arguments

(* However its name is spelled, a file has one row (`adopt`, `by_path`),    *)
(* unless two adoptions of it overlapped.                                  *)
OneRowPerFile ==
  \A u, v \in Rows(db) \ excused : Canon[db[u].path] = Canon[db[v].path] => u = v

(* Between calls the icon file that a row names is there, unless a call on *)
(* the app failed, died or overlapped since it was last read with an icon  *)
(* (`sync_icon`).  A file of another format can be left over.              *)
NamedIconIsThere ==
  (Quiet /\ dbFile) => \A u \in Rows(db) \ (excused \cup broken) :
    db[u].icon # "none" => <<u, db[u].icon>> \in icons

=============================================================================
