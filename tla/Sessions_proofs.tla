---------------------------- MODULE Sessions_proofs ----------------------------
(***************************************************************************)
(* Proofs about overlapping calls on one registry, for any number of       *)
(* sessions, apps, files, calls, failures and changes from outside.        *)
(*                                                                         *)
(* A session that works on a copy of the table relies on the row it        *)
(* loaded: when no write to that row came between, the copy still is what  *)
(* the table has (Loaded).  The entry and the icon that go with a row are  *)
(* written before it, so between the two some session is still to write    *)
(* the row (EntryFits, IconFits), and what it will write fits what it has  *)
(* put there (EntryAwaitsRow, IconAwaitsRow), unless yet another session   *)
(* is at the same point: one of the two then finds its row changed.        *)
(***************************************************************************)
EXTENDS Sessions, TLAPS

Reading == {"idle", "connect", "import", "load"}
Working == {"inspect", "reopen", "icon", "verify", "entry", "upsert", "unlink", "unregister"}

(* A copy is what the table has, row by row, until the row is written.     *)
Loaded(s) ==
  sess[s].at \notin Reading =>
    \A u \in Uuid : /\ sess[s].base[u] <= writes[u]
                    /\ sess[s].base[u] = writes[u] => sess[s].mine[u] = db[u]

(* The row a call works on is that of its copy, but for what it sets.      *)
RowIsOfMine(s) ==
  LET mine == sess[s].mine[Of(s)]
      row  == sess[s].row
  IN  sess[s].at \in Working =>
        /\ mine # Nothing /\ row.path = mine.path /\ row.entry = mine.entry
        /\ ~Is(s, "edit") => row.arguments = mine.arguments
        /\ ~Is(s, "source") => row.source = mine.source
        /\ (sess[s].at \in {"inspect", "reopen", "icon"} \/ sess[s].found = "none") =>
             row.icon = mine.icon

(* Only a refresh and a heal read an icon.                                 *)
OnlyReadersFind(s) ==
  /\ sess[s].at = "idle" \/ sess[s].kind \in {"edit", "source", "adopt", "remove"} =>
       sess[s].found = "none"
  /\ sess[s].at \in {"inspect", "reopen", "icon"} => sess[s].kind \in {"refresh", "heal"}

(* The row of an adoption is of a file that the copy does not know.        *)
RegisterIsNew(s) ==
  LET row == sess[s].row
  IN  At(s, "register") =>
        /\ \A u \in Uuid : sess[s].mine[u] # Nothing =>
             Canon[sess[s].mine[u].path] # Canon[row.path]
        /\ ~row.entry /\ row.icon = "none"

-----------------------------------------------------------------------------
AsAsked(u) ==
  /\ (db[u] = Nothing) <=> (wanted[u] = Nothing)
  /\ db[u] # Nothing => /\ db[u].arguments = wanted[u].arguments
                        /\ db[u].source = wanted[u].source

(* The row of version 2 is not imported yet, but it is going to be.        *)
Importing == ~dbFile \/ \E s \in Session : At(s, "import")
NotYet(u) == u = Legacy /\ db[u] = Nothing /\ wanted[u] # Nothing

Agreed == \A u \in Uuid \ excused : AsAsked(u) \/ (NotYet(u) /\ Importing)

Due(u) == IF NotYet(u) THEN LegacyRow ELSE db[u]

-----------------------------------------------------------------------------
(* What a session writes is going to count: its row has not changed since  *)
(* it was loaded, and the app is whole or will be by what was read.        *)
Counts(s) ==
  /\ Of(s) \notin excused /\ sess[s].base[Of(s)] = writes[Of(s)]
  /\ Of(s) \in broken => sess[s].found # "none" /\ Of(s) \in sess[s].saw

Writes(t, u) == At(t, "upsert") /\ Of(t) = u
Works(t, u)  == sess[t].at \in {"verify", "entry", "upsert", "unregister"} /\ Of(t) = u

EntryFits(u) ==
  (/\ u \notin excused \cup broken
   /\ Due(u) # Nothing /\ Due(u).entry /\ Ours(u)) =>
    \/ entry[u].arguments = Due(u).arguments
    \/ \E t \in Session : Writes(t, u)

EntryAwaitsRow(s) ==
  (At(s, "upsert") /\ Counts(s) /\ sess[s].row.entry /\ Ours(Of(s))) =>
    \/ entry[Of(s)].arguments = sess[s].row.arguments
    \/ \E t \in Session \ {s} : Writes(t, Of(s))

IconFits(u) ==
  (u \notin excused \cup broken /\ Due(u) # Nothing /\ Due(u).icon # "none") =>
    \/ <<u, Due(u).icon>> \in icons
    \/ \E t \in Session : Works(t, u)

IconAwaitsRow(s) ==
  (/\ sess[s].at \in {"verify", "entry", "upsert"} /\ Counts(s)
   /\ sess[s].row.icon # "none") =>
    \/ <<Of(s), sess[s].row.icon>> \in icons
    \/ \E t \in Session \ {s} : Works(t, Of(s))

Own(s) == Loaded(s) /\ RowIsOfMine(s) /\ OnlyReadersFind(s) /\ RegisterIsNew(s)

IInv ==
  /\ TypeOK /\ Agreed /\ OneRowPerFile
  /\ \A s \in Session : Own(s) /\ EntryAwaitsRow(s) /\ IconAwaitsRow(s)
  /\ \A u \in Uuid : EntryFits(u) /\ IconFits(u)

-----------------------------------------------------------------------------
(* What a step of one session does to the others, and to what they share.  *)
Kept(t) ==
  /\ sess'[t].at = sess[t].at /\ sess'[t].kind = sess[t].kind
  /\ sess'[t].uuid = sess[t].uuid /\ sess'[t].mine = sess[t].mine
  /\ sess'[t].base = sess[t].base /\ sess'[t].row = sess[t].row
  /\ sess'[t].found = sess[t].found /\ sess'[t].saw \subseteq sess[t].saw

(* A session that is done with an app wrote its row, or broke the app.     *)
LeavesWell(s) ==
  \A u \in Uuid :
    (Works(s, u) /\ ~Works(s, u)') \/ (Writes(s, u) /\ ~Writes(s, u)') =>
      \/ writes'[u] # writes[u]
      \/ u \in broken' /\ \A t \in Session \ {s} : u \notin sess'[t].saw

Steady(s) ==
  /\ \A t \in Session \ {s} : Kept(t)
  /\ excused \subseteq excused'
  /\ \A u \in Uuid : writes[u] <= writes'[u]
  /\ \A u \in Uuid : writes'[u] = writes[u] =>
       db'[u] = db[u] /\ wanted'[u] = wanted[u] /\ (u \in broken => u \in broken')
  /\ \A u \in Uuid : entry'[u] = entry[u] \/ ~Ours(u)' \/ Writes(s, u)'
  /\ \A u \in Uuid, f \in Format : <<u, f>> \in icons => <<u, f>> \in icons' \/ Works(s, u)'
  /\ LeavesWell(s)
  /\ Importing => Importing' \/ Legacy \in excused' \/ writes'[Legacy] # writes[Legacy]

LEMMA NothingIsNoRow == Nothing \notin Row /\ LegacyRow \in Row
<1>1. \A r \in Row : "path" \in DOMAIN r
  BY DEF Row
<1>2. "path" \notin DOMAIN Nothing
  BY DEF Nothing
<1>3. LegacyRow \in Row
  BY SessionsAssumption DEF LegacyRow, Row, Format
<1> QED
  BY <1>1, <1>2, <1>3

LEMMA StateFields ==
  ASSUME NEW r \in State
  PROVE  /\ r.at \in Place /\ r.kind \in Kind /\ r.uuid \in Uuid /\ r.mine \in Table
         /\ r.base \in [Uuid -> Nat] /\ r.row \in Row /\ r.found \in Format \cup {"none"}
         /\ r.todo \subseteq Uuid /\ r.never \in BOOLEAN /\ r.saw \subseteq Uuid
  BY DEF State

LEMMA RowFields ==
  ASSUME NEW r \in Row
  PROVE  /\ r.path \in Path /\ r.arguments \in 0..1 /\ r.source \in 0..1 /\ r.read \in BOOLEAN
         /\ r.icon \in Format \cup {"none"} /\ r.entry \in BOOLEAN
  BY DEF Row

LEMMA Facts ==
  ASSUME IInv, NEW s \in Session
  PROVE  /\ TypeOK /\ Agreed /\ OneRowPerFile
         /\ Loaded(s) /\ RowIsOfMine(s) /\ OnlyReadersFind(s) /\ RegisterIsNew(s)
         /\ EntryAwaitsRow(s) /\ IconAwaitsRow(s)
         /\ sess \in [Session -> State] /\ sess[s] \in State
         /\ Of(s) \in Uuid /\ sess[s].row \in Row /\ sess[s].mine \in Table
<1>1. TypeOK /\ Agreed /\ OneRowPerFile /\ Own(s) /\ EntryAwaitsRow(s) /\ IconAwaitsRow(s)
  BY DEF IInv
<1>2. sess \in [Session -> State] /\ sess[s] \in State
  BY <1>1 DEF TypeOK
<1> QED
  BY <1>1, <1>2, StateFields DEF Own, Of

LEMMA OwnFrame ==
  ASSUME IInv, NEW s \in Session, Steady(s), TypeOK', NEW t \in Session \ {s}
  PROVE  Own(t)'
<1>1. Kept(t) /\ Own(t)
  BY DEF Steady, IInv
<1>2. sess[t] \in State /\ writes \in [Uuid -> Nat] /\ writes' \in [Uuid -> Nat]
  BY DEF IInv, TypeOK
<1>3. sess[t].base \in [Uuid -> Nat]
  BY <1>2, StateFields
<1>4. Loaded(t)'
  <2> SUFFICES ASSUME sess[t].at \notin Reading, NEW u \in Uuid
               PROVE  /\ sess[t].base[u] <= writes'[u]
                      /\ sess[t].base[u] = writes'[u] => sess[t].mine[u] = db'[u]
    BY <1>1 DEF Loaded, Kept
  <2>1. /\ sess[t].base[u] <= writes[u]
        /\ sess[t].base[u] = writes[u] => sess[t].mine[u] = db[u]
    BY <1>1 DEF Own, Loaded
  <2>2. /\ writes[u] <= writes'[u]
        /\ writes'[u] = writes[u] => db'[u] = db[u]
    BY DEF Steady
  <2>3. sess[t].base[u] \in Nat /\ writes[u] \in Nat /\ writes'[u] \in Nat
    BY <1>2, <1>3
  <2> QED
    BY <2>1, <2>2, <2>3
<1>5. RowIsOfMine(t)'
  BY <1>1 DEF Own, RowIsOfMine, Kept, Of, Is
<1>6. OnlyReadersFind(t)'
  BY <1>1 DEF Own, OnlyReadersFind, Kept
<1>7. RegisterIsNew(t)'
  BY <1>1 DEF Own, RegisterIsNew, Kept, At
<1> QED
  BY <1>4, <1>5, <1>6, <1>7 DEF Own

(* What another session writes counts after the step only if it did before. *)
LEMMA CountsFrame ==
  ASSUME IInv, NEW s \in Session, Steady(s), TypeOK', NEW t \in Session \ {s},
         sess[t].at \notin Reading, Counts(t)'
  PROVE  /\ Counts(t) /\ Of(t)' = Of(t) /\ Of(t) \in Uuid
         /\ writes'[Of(t)] = writes[Of(t)]
         /\ ~(Of(t) \in broken' /\ Of(t) \notin sess'[t].saw)
<1>1. Kept(t) /\ Loaded(t)
  BY DEF Steady, IInv, Own
<1>2. sess[t] \in State /\ writes \in [Uuid -> Nat] /\ writes' \in [Uuid -> Nat]
  BY DEF IInv, TypeOK
<1>3. sess[t].base \in [Uuid -> Nat] /\ Of(t) \in Uuid /\ Of(t)' = Of(t)
  BY <1>1, <1>2, StateFields DEF Of, Kept
<1>4. sess[t].base[Of(t)] = writes'[Of(t)]
  BY <1>1, <1>3 DEF Counts, Kept
<1>5. writes'[Of(t)] = writes[Of(t)] /\ sess[t].base[Of(t)] = writes[Of(t)]
  <2>1. sess[t].base[Of(t)] <= writes[Of(t)] /\ writes[Of(t)] <= writes'[Of(t)]
    BY <1>1, <1>3 DEF Loaded, Steady
  <2>2. sess[t].base[Of(t)] \in Nat /\ writes[Of(t)] \in Nat /\ writes'[Of(t)] \in Nat
    BY <1>2, <1>3
  <2> QED
    BY <1>4, <2>1, <2>2
<1>6. Of(t) \notin excused
  BY <1>3 DEF Counts, Steady
<1>7. Of(t) \in broken' => sess[t].found # "none" /\ Of(t) \in sess'[t].saw
  BY <1>1, <1>3 DEF Counts, Kept
<1>8. Of(t) \in broken => Of(t) \in broken'
  BY <1>3, <1>5 DEF Steady
<1>9. Of(t) \in broken => sess[t].found # "none" /\ Of(t) \in sess[t].saw
  BY <1>1, <1>7, <1>8 DEF Kept
<1> QED
  BY <1>3, <1>5, <1>6, <1>7, <1>9 DEF Counts

LEMMA AwaitFrame ==
  ASSUME IInv, NEW s \in Session, Steady(s), TypeOK', NEW t \in Session \ {s}
  PROVE  EntryAwaitsRow(t)' /\ IconAwaitsRow(t)'
<1>1. Kept(t) /\ EntryAwaitsRow(t) /\ IconAwaitsRow(t)
  BY DEF Steady, IInv
<1>2. \A r \in Session \ {s}, u \in Uuid : /\ Writes(r, u) => Writes(r, u)'
                                           /\ Works(r, u) => Works(r, u)'
  BY DEF Steady, Kept, Writes, Works, At, Of
<1>3. EntryAwaitsRow(t)'
  <2> SUFFICES ASSUME At(t, "upsert"), Counts(t)', sess[t].row.entry, Ours(Of(t))'
               PROVE  \/ entry'[Of(t)] = entry[Of(t)] /\ entry[Of(t)].arguments = sess[t].row.arguments
                      \/ \E r \in Session \ {t} : Writes(r, Of(t))'
    BY <1>1 DEF EntryAwaitsRow, Kept, At, Of
  <2>1. /\ Counts(t) /\ Of(t)' = Of(t) /\ Of(t) \in Uuid /\ writes'[Of(t)] = writes[Of(t)]
        /\ ~(Of(t) \in broken' /\ Of(t) \notin sess'[t].saw)
    BY CountsFrame DEF At, Reading
  <2>2. CASE Writes(s, Of(t))'
    BY <2>2
  <2>3. CASE ~Writes(s, Of(t))'
    <3>1. ~Writes(s, Of(t))
      BY <2>1, <2>3 DEF Steady, LeavesWell
    <3>2. entry'[Of(t)] = entry[Of(t)]
      BY <2>1, <2>3 DEF Steady, Ours
    <3>3. Ours(Of(t))
      BY <2>1, <3>2 DEF Ours
    <3>4. \/ entry[Of(t)].arguments = sess[t].row.arguments
          \/ \E r \in Session \ {t} : Writes(r, Of(t))
      BY <1>1, <2>1, <3>3 DEF EntryAwaitsRow
    <3> QED
      BY <1>2, <2>1, <3>1, <3>2, <3>4
  <2> QED
    BY <2>2, <2>3
<1>4. IconAwaitsRow(t)'
  <2> SUFFICES ASSUME sess[t].at \in {"verify", "entry", "upsert"}, Counts(t)',
                      sess[t].row.icon # "none"
               PROVE  \/ <<Of(t), sess[t].row.icon>> \in icons'
                      \/ \E r \in Session \ {t} : Works(r, Of(t))'
    BY <1>1 DEF IconAwaitsRow, Kept, Of
  <2>1. /\ Counts(t) /\ Of(t)' = Of(t) /\ Of(t) \in Uuid /\ writes'[Of(t)] = writes[Of(t)]
        /\ ~(Of(t) \in broken' /\ Of(t) \notin sess'[t].saw)
    BY CountsFrame DEF Reading
  <2>2. CASE Works(s, Of(t))'
    BY <2>2
  <2>3. CASE ~Works(s, Of(t))'
    <3>1. ~Works(s, Of(t))
      BY <2>1, <2>3 DEF Steady, LeavesWell
    <3>2. sess[t].row.icon \in Format
      <4>1. sess[t] \in State
        BY DEF IInv, TypeOK
      <4>2. sess[t].row \in Row
        BY <4>1, StateFields
      <4> QED
        BY <4>2, RowFields
    <3>3. <<Of(t), sess[t].row.icon>> \in icons => <<Of(t), sess[t].row.icon>> \in icons'
      BY <2>1, <2>3, <3>2 DEF Steady
    <3>4. \/ <<Of(t), sess[t].row.icon>> \in icons
          \/ \E r \in Session \ {t} : Works(r, Of(t))
      BY <1>1, <2>1 DEF IconAwaitsRow
    <3> QED
      BY <1>2, <2>1, <3>1, <3>3, <3>4
  <2> QED
    BY <2>2, <2>3
<1> QED
  BY <1>3, <1>4

LEMMA FitsFrame ==
  ASSUME IInv, NEW s \in Session, Steady(s), TypeOK', NEW u \in Uuid, writes'[u] = writes[u]
  PROVE  EntryFits(u)' /\ IconFits(u)'
<1>1. EntryFits(u) /\ IconFits(u)
  BY DEF IInv
<1>2. \A r \in Session \ {s} : /\ Writes(r, u) => Writes(r, u)'
                               /\ Works(r, u) => Works(r, u)'
  BY DEF Steady, Kept, Writes, Works, At, Of
<1>3. Due(u)' = Due(u) /\ excused \subseteq excused' /\ (u \in broken => u \in broken')
  BY DEF Steady, Due, NotYet
<1>4. ASSUME u \notin excused' \cup broken' PROVE EntryFits(u)'
  <2>1. u \notin excused \cup broken
    BY <1>3, <1>4
  <2>2. /\ Writes(s, u) => Writes(s, u)'
        /\ entry'[u] = entry[u] \/ ~Ours(u)' \/ Writes(s, u)'
    BY <1>4 DEF Steady, LeavesWell
  <2>3. entry'[u] = entry[u] => (Ours(u)' <=> Ours(u))
    BY DEF Ours
  <2> QED
    BY <1>1, <1>2, <1>3, <2>1, <2>2, <2>3 DEF EntryFits
<1>5. ASSUME u \notin excused' \cup broken' PROVE IconFits(u)'
  <2>1. u \notin excused \cup broken
    BY <1>3, <1>5
  <2>2. Works(s, u) => Works(s, u)'
    BY <1>5 DEF Steady, LeavesWell
  <2>3. ASSUME Due(u) # Nothing, Due(u).icon # "none" PROVE Due(u).icon \in Format
    <3>1. Due(u) \in Row
      BY <2>3, NothingIsNoRow DEF Due, IInv, TypeOK, Table
    <3> QED
      BY <2>3, <3>1, RowFields
  <2>4. ASSUME Due(u) # Nothing, Due(u).icon # "none", <<u, Due(u).icon>> \in icons
        PROVE  <<u, Due(u).icon>> \in icons' \/ Works(s, u)'
    BY <2>3, <2>4 DEF Steady
  <2> QED
    BY <1>1, <1>2, <1>3, <2>1, <2>2, <2>4 DEF IconFits
<1> QED
  BY <1>4, <1>5 DEF EntryFits, IconFits

LEMMA AgreedFrame ==
  ASSUME IInv, NEW s \in Session, Steady(s),
         \A u \in Uuid : writes'[u] # writes[u] /\ u \notin excused' =>
           AsAsked(u)' \/ (NotYet(u) /\ Importing)'
  PROVE  Agreed'
<1> SUFFICES ASSUME NEW u \in Uuid, u \notin excused', writes'[u] = writes[u]
             PROVE  AsAsked(u)' \/ (NotYet(u) /\ Importing)'
  BY DEF Agreed
<1>1. AsAsked(u) \/ (NotYet(u) /\ Importing)
  BY DEF IInv, Agreed, Steady
<1>2. db'[u] = db[u] /\ wanted'[u] = wanted[u]
  BY DEF Steady
<1>3. AsAsked(u) => AsAsked(u)'
  BY <1>2 DEF AsAsked
<1>4. NotYet(u) /\ Importing => (NotYet(u) /\ Importing)'
  BY <1>2 DEF NotYet, Steady
<1> QED
  BY <1>1, <1>3, <1>4

(* A step of one session keeps everything that is about the others; what   *)
(* is left to show is about this session and the rows it wrote.            *)
LEMMA StepFrame ==
  ASSUME IInv, NEW s \in Session, Steady(s), TypeOK',
         Own(s)', EntryAwaitsRow(s)', IconAwaitsRow(s)', OneRowPerFile',
         \A u \in Uuid : writes'[u] # writes[u] /\ u \notin excused' =>
           /\ AsAsked(u)' \/ (NotYet(u) /\ Importing)'
           /\ EntryFits(u)' /\ IconFits(u)'
  PROVE  IInv'
<1>1. \A t \in Session : Own(t)' /\ EntryAwaitsRow(t)' /\ IconAwaitsRow(t)'
  BY OwnFrame, AwaitFrame
<1>2. ASSUME NEW u \in Uuid PROVE EntryFits(u)' /\ IconFits(u)'
  <2>1. CASE writes'[u] = writes[u]
    BY <2>1, FitsFrame
  <2>2. CASE writes'[u] # writes[u] /\ u \notin excused'
    BY <2>2
  <2>3. CASE u \in excused'
    BY <2>3 DEF EntryFits, IconFits
  <2> QED
    BY <2>1, <2>2, <2>3
<1>3. Agreed'
  BY AgreedFrame
<1> QED
  BY <1>1, <1>2, <1>3 DEF IInv

-----------------------------------------------------------------------------
(* Steps that change nothing but the session that takes them.              *)

LEMMA SessFrame ==
  ASSUME IInv, NEW s \in Session, NEW m \in State, sess' = [sess EXCEPT ![s] = m]
  PROVE  /\ sess' \in [Session -> State] /\ sess'[s] = m
         /\ \A t \in Session \ {s} : sess'[t] = sess[t] /\ Kept(t)
<1>1. sess \in [Session -> State]
  BY DEF IInv, TypeOK
<1>2. sess' \in [Session -> State] /\ sess'[s] = m
  BY <1>1
<1>3. \A t \in Session \ {s} : sess'[t] = sess[t]
  BY <1>1
<1> QED
  BY <1>2, <1>3 DEF Kept

(* Rows keep their file each as long as the table does.                    *)
LEMMA SameTable ==
  ASSUME IInv, db' = db, excused \subseteq excused'
  PROVE  OneRowPerFile'
  BY DEF IInv, OneRowPerFile, Rows

LEMMA InnerFrame ==
  ASSUME IInv, NEW s \in Session, NEW m \in State, sess' = [sess EXCEPT ![s] = m],
         UNCHANGED <<disk, outside, history>>, {calls', faults', user'} \subseteq Nat,
         sess[s].at \notin {"import", "entry", "upsert", "unregister"},
         sess[s].at = "verify" => m.at \in {"entry", "upsert"} /\ m.uuid = sess[s].uuid,
         Own(s)', EntryAwaitsRow(s)', IconAwaitsRow(s)'
  PROVE  IInv'
<1>1. /\ sess' \in [Session -> State] /\ sess'[s] = m
      /\ \A t \in Session \ {s} : sess'[t] = sess[t] /\ Kept(t)
  BY SessFrame
<1>2. UNCHANGED <<dbFile, db, file, entry, icons, outside, wanted, excused, broken, writes>>
  BY DEF disk, history
<1>3. TypeOK'
  BY <1>1, <1>2 DEF IInv, TypeOK
<1>4. LeavesWell(s)
  BY <1>1 DEF LeavesWell, Works, Writes, At, Of
<1>5. Importing => Importing'
  BY <1>1, <1>2 DEF Importing, At
<1>6. Steady(s)
  BY <1>1, <1>2, <1>4, <1>5 DEF Steady, IInv, TypeOK
<1>7. OneRowPerFile'
  BY <1>2, SameTable
<1> QED
  BY <1>2, <1>3, <1>6, <1>7, StepFrame

(* Where the row is not being written, nothing waits for it.               *)
LEMMA NothingAwaits ==
  ASSUME NEW s \in Session, sess'[s].at \notin {"verify", "entry", "upsert"}
  PROVE  EntryAwaitsRow(s)' /\ IconAwaitsRow(s)'
  BY DEF EntryAwaitsRow, IconAwaitsRow, At

(* A session that took the row as it was loaded, and read no icon, has the *)
(* entry and the icon of the table.                                        *)
LEMMA TakenRowFits ==
  ASSUME IInv, NEW s \in Session,
         sess[s].at \notin Reading \cup {"verify", "entry", "upsert", "unregister"},
         UNCHANGED <<db, entry, icons, wanted, excused, broken, writes>>,
         \A t \in Session \ {s} : sess'[t] = sess[t],
         sess'[s].mine = sess[s].mine, sess'[s].base = sess[s].base,
         sess'[s].found = "none", sess'[s].uuid \in Uuid,
         sess'[s].mine[sess'[s].uuid] # Nothing,
         sess'[s].row.icon = sess'[s].mine[sess'[s].uuid].icon,
         sess'[s].row.entry = sess'[s].mine[sess'[s].uuid].entry,
         sess'[s].at = "upsert" =>
           \/ sess'[s].row.arguments = sess'[s].mine[sess'[s].uuid].arguments
           \/ ~sess'[s].row.entry
  PROVE  EntryAwaitsRow(s)' /\ IconAwaitsRow(s)'
<1>0. PICK u \in Uuid : u = sess'[s].uuid
  OBVIOUS
<1>1. \A t \in Session \ {s} : /\ Writes(t, u) => Writes(t, u)'
                               /\ Works(t, u) => Works(t, u)'
  BY DEF Writes, Works, At, Of
<1>2. ~Writes(s, u) /\ ~Works(s, u)
  BY DEF Writes, Works, At
<1>3. ASSUME Counts(s)'
      PROVE  /\ u \notin excused \cup broken /\ Due(u) = sess'[s].mine[u]
             /\ Due(u) # Nothing
  <2>1. u \notin excused \cup broken /\ sess'[s].base[u] = writes[u]
    BY <1>0, <1>3 DEF Counts, Of
  <2>2. Loaded(s)
    BY Facts
  <2>3. sess[s].mine[u] = db[u]
    BY <2>1, <2>2 DEF Loaded
  <2> QED
    BY <1>0, <2>1, <2>3 DEF Due, NotYet
<1>4. EntryFits(u) /\ IconFits(u)
  BY DEF IInv
<1>5. EntryAwaitsRow(s)'
  <2> SUFFICES ASSUME At(s, "upsert")', Counts(s)', sess'[s].row.entry, Ours(u)'
               PROVE  \/ entry[u].arguments = sess'[s].row.arguments
                      \/ \E t \in Session \ {s} : Writes(t, u)'
    BY <1>0 DEF EntryAwaitsRow, Of
  <2>1. Ours(u) /\ Due(u).entry /\ Due(u).arguments = sess'[s].row.arguments
    BY <1>0, <1>3 DEF Ours, At
  <2> QED
    BY <1>1, <1>2, <1>3, <1>4, <2>1 DEF EntryFits
<1>6. IconAwaitsRow(s)'
  <2> SUFFICES ASSUME Counts(s)', sess'[s].row.icon # "none"
               PROVE  \/ <<u, sess'[s].row.icon>> \in icons
                      \/ \E t \in Session \ {s} : Works(t, u)'
    BY <1>0 DEF IconAwaitsRow, Of
  <2> QED
    BY <1>0, <1>1, <1>2, <1>3, <1>4 DEF IconFits
<1> QED
  BY <1>5, <1>6

LEMMA RestingIsState == Resting \in State /\ Resting.at = "idle" /\ Resting.found = "none"
<1>1. LegacyRow \in Row /\ Legacy \in Uuid
  BY NothingIsNoRow, SessionsAssumption
<1>2. Empty \in Table
  BY DEF Empty, Table
<1> QED
  BY <1>1, <1>2 DEF Resting, State, Place, Kind, Format

(* A session at rest, or back in its window, has nothing of its own left   *)
(* to keep but the copy it has.                                            *)
LEMMA OwnOfResting ==
  ASSUME NEW s \in Session, sess'[s].at \in Reading,
         sess'[s].at = "idle" \/ sess'[s].kind \in {"edit", "source", "adopt", "remove"} =>
           sess'[s].found = "none"
  PROVE  Own(s)'
  BY DEF Own, Loaded, RowIsOfMine, OnlyReadersFind, RegisterIsNew, At, Reading, Working

LEMMA OwnOfReady ==
  ASSUME NEW s \in Session, Loaded(s)', OnlyReadersFind(s)', sess'[s].at \in {"ready", "restore"}
  PROVE  Own(s)'
  BY DEF Own, RowIsOfMine, RegisterIsNew, At, Working

(* The copy stays the table as it was loaded.                              *)
LEMMA CopyStays ==
  ASSUME IInv, NEW s \in Session, sess[s].at \notin Reading,
         sess'[s].mine = sess[s].mine, sess'[s].base = sess[s].base,
         UNCHANGED <<db, writes>>
  PROVE  Loaded(s)'
  BY DEF IInv, Own, Loaded

LEMMA BeginKeeps == ASSUME IInv, NEW s \in Session, Begin(s) PROVE IInv'
<1>1. PICK kind \in Kind :
        sess' = [sess EXCEPT ![s].kind = kind, ![s].at = IF dbFile THEN "load" ELSE "connect"]
  BY DEF Begin
<1>2. /\ sess[s].at = "idle" /\ UNCHANGED <<disk, outside, history, faults, user>>
      /\ calls' = calls + 1
  BY DEF Begin, At
<1> DEFINE place == IF dbFile THEN "load" ELSE "connect"
           m == [sess[s] EXCEPT !.kind = kind, !.at = place]
<1>10. place \in Place /\ place \in {"load", "connect"} /\ sess[s] \in State
  BY Facts DEF Place
<1> HIDE DEF place
<1>3. m \in State /\ m.at \in {"load", "connect"} /\ m.found = sess[s].found
  BY <1>10 DEF State
<1>4. sess' = [sess EXCEPT ![s] = m]
  BY <1>1, Facts DEF place
<1>5. {calls', faults', user'} \subseteq Nat
  BY <1>2 DEF IInv, TypeOK
<1> HIDE DEF m
<1>6. sess'[s] = m
  BY <1>3, <1>4, SessFrame
<1>7. m.found = "none"
  BY <1>2, <1>3, Facts DEF OnlyReadersFind
<1>8. Own(s)'
  BY <1>3, <1>6, <1>7, OwnOfResting DEF Reading
<1>9. EntryAwaitsRow(s)' /\ IconAwaitsRow(s)'
  BY <1>3, <1>6, NothingAwaits
<1> QED
  BY <1>2, <1>3, <1>4, <1>5, <1>8, <1>9, InnerFrame

LEMMA LoadKeeps == ASSUME IInv, NEW s \in Session, Load(s) PROVE IInv'
<1>1. sess[s].at = "load" /\ UNCHANGED <<disk, outside, history, calls, faults, user>>
  BY DEF Load, At
<1> DEFINE todo == {u \in Rows(db) : /\ <<u, db[u].icon>> \notin icons
                                     /\ file[Canon[db[u].path]] # "absent"}
           m == [sess[s] EXCEPT !.mine = db, !.base = writes, !.at = "ready", !.saw = broken,
                                !.todo = todo]
<1>2. todo \subseteq Uuid
  BY DEF Rows
<1> HIDE DEF todo
<1>11. /\ db \in Table /\ writes \in [Uuid -> Nat] /\ broken \subseteq Uuid
      /\ "ready" \in Place /\ sess[s] \in State
  BY Facts DEF TypeOK, Place
<1>3. /\ m \in State /\ m.at = "ready" /\ m.found = sess[s].found /\ m.kind = sess[s].kind
      /\ m.mine = db /\ m.base = writes
  BY <1>2, <1>11 DEF State
<1>4. sess' = [sess EXCEPT ![s] = m]
  BY Facts DEF Load, todo
<1>5. {calls', faults', user'} \subseteq Nat
  BY <1>1 DEF IInv, TypeOK
<1> HIDE DEF m
<1>6. sess'[s] = m
  BY <1>3, <1>4, SessFrame
<1>7. Loaded(s)'
  <2>1. db' = db /\ writes' = writes /\ writes \in [Uuid -> Nat]
    BY <1>1 DEF disk, history, IInv, TypeOK
  <2> QED
    BY <1>3, <1>6, <2>1 DEF Loaded
<1>8. OnlyReadersFind(s)'
  BY <1>1, <1>3, <1>6, Facts DEF OnlyReadersFind
<1>9. Own(s)'
  BY <1>3, <1>6, <1>7, <1>8, OwnOfReady
<1>10. EntryAwaitsRow(s)' /\ IconAwaitsRow(s)'
  BY <1>3, <1>6, NothingAwaits
<1> QED
  BY <1>1, <1>3, <1>4, <1>5, <1>9, <1>10, InnerFrame

(* What a call picks from its copy goes on with the row of that copy.      *)
LEMMA PickFrame ==
  ASSUME IInv, NEW s \in Session, sess[s].at = "ready", NEW u \in Uuid, NEW row \in Row,
         NEW place \in Working, sess[s].mine[u] # Nothing,
         Work(s, u, place, row), UNCHANGED <<disk, outside, history, calls, faults, user>>,
         row.path = sess[s].mine[u].path, row.entry = sess[s].mine[u].entry,
         row.icon = sess[s].mine[u].icon,
         ~Is(s, "edit") => row.arguments = sess[s].mine[u].arguments,
         ~Is(s, "source") => row.source = sess[s].mine[u].source,
         place \in {"verify", "entry", "upsert"} => sess[s].found = "none",
         place = "inspect" => sess[s].kind = "refresh",
         place \notin {"reopen", "icon"},
         place = "upsert" => row.arguments = sess[s].mine[u].arguments \/ ~row.entry
  PROVE  IInv'
<1> DEFINE m == [sess[s] EXCEPT !.uuid = u, !.row = row, !.at = place]
<1>1. /\ m \in State /\ m.at = place /\ m.uuid = u /\ m.row = row /\ m.found = sess[s].found
      /\ m.kind = sess[s].kind /\ m.mine = sess[s].mine /\ m.base = sess[s].base
  <2>1. place \in Place /\ sess[s] \in State
    BY Facts DEF Place, Working
  <2> QED
    BY <2>1 DEF State
<1>2. sess' = [sess EXCEPT ![s] = m]
  BY Facts DEF Work
<1>3. {calls', faults', user'} \subseteq Nat
  BY DEF IInv, TypeOK
<1> HIDE DEF m
<1>4. sess'[s] = m /\ \A t \in Session \ {s} : sess'[t] = sess[t]
  BY <1>1, <1>2, SessFrame
<1>5. UNCHANGED <<db, entry, icons, wanted, excused, broken, writes>>
  BY DEF disk, history
<1>6. Own(s)'
  <2>1. Loaded(s)'
    BY <1>1, <1>4, <1>5, CopyStays DEF Reading
  <2>2. OnlyReadersFind(s)'
    BY <1>1, <1>4, Facts DEF OnlyReadersFind, Working
  <2>3. RowIsOfMine(s)'
    BY <1>1, <1>4 DEF RowIsOfMine, Of, Is
  <2>4. RegisterIsNew(s)'
    BY <1>1, <1>4 DEF RegisterIsNew, At, Working
  <2> QED
    BY <2>1, <2>2, <2>3, <2>4 DEF Own
<1>7. EntryAwaitsRow(s)' /\ IconAwaitsRow(s)'
  <2>1. CASE place \notin {"verify", "entry", "upsert"}
    BY <1>1, <1>4, <2>1, NothingAwaits
  <2>2. CASE place \in {"verify", "entry", "upsert"}
    BY <1>1, <1>4, <1>5, <2>2, TakenRowFits DEF Reading
  <2> QED
    BY <2>1, <2>2
<1> QED
  BY <1>1, <1>2, <1>3, <1>6, <1>7, InnerFrame

LEMMA RowOfMine ==
  ASSUME IInv, NEW s \in Session, NEW u \in Rows(sess[s].mine)
  PROVE  u \in Uuid /\ sess[s].mine[u] \in Row /\ sess[s].mine[u] # Nothing
  BY Facts DEF Rows, Table

LEMMA PickEditKeeps == ASSUME IInv, NEW s \in Session, PickEdit(s) PROVE IInv'
<1> DEFINE changed(u) == [sess[s].mine[u] EXCEPT !.arguments = 1 - @]
<1>1. PICK u \in Rows(sess[s].mine) :
        Work(s, u, IF changed(u).entry THEN "entry" ELSE "upsert", changed(u))
  BY DEF PickEdit
<1>2. /\ sess[s].at = "ready" /\ Is(s, "edit")
      /\ UNCHANGED <<disk, outside, history, calls, faults, user>>
  BY DEF PickEdit, At
<1>3. u \in Uuid /\ sess[s].mine[u] \in Row /\ sess[s].mine[u] # Nothing
  BY RowOfMine
<1>4. PICK row \in Row : row = changed(u)
  <2>1. 1 - sess[s].mine[u].arguments \in 0..1
    BY <1>3, RowFields
  <2> QED
    BY <1>3, <2>1 DEF Row
<1>5. /\ row.path = sess[s].mine[u].path /\ row.entry = sess[s].mine[u].entry
      /\ row.icon = sess[s].mine[u].icon /\ row.source = sess[s].mine[u].source
  BY <1>3, <1>4 DEF Row
<1> HIDE DEF changed
<1>6. PICK place \in {"entry", "upsert"} : place = IF row.entry THEN "entry" ELSE "upsert"
  OBVIOUS
<1>7. Work(s, u, place, row)
  BY <1>1, <1>4, <1>6
<1>8. sess[s].found = "none"
  BY <1>2, Facts DEF OnlyReadersFind, Is
<1>9. place = "upsert" => ~row.entry
  BY <1>4, <1>6, RowFields
<1>10. place \in Working
  BY DEF Working
<1>11. ~Is(s, "source")
  BY <1>2 DEF Is
<1> QED
  BY <1>2, <1>3, <1>5, <1>6, <1>7, <1>8, <1>9, <1>10, <1>11, PickFrame

LEMMA PickSourceKeeps == ASSUME IInv, NEW s \in Session, PickSource(s) PROVE IInv'
<1> DEFINE changed(u) == [sess[s].mine[u] EXCEPT !.source = 1 - @]
<1>1. PICK u \in Rows(sess[s].mine) : Work(s, u, "upsert", changed(u))
  BY DEF PickSource
<1>2. /\ sess[s].at = "ready" /\ Is(s, "source")
      /\ UNCHANGED <<disk, outside, history, calls, faults, user>>
  BY DEF PickSource, At
<1>3. u \in Uuid /\ sess[s].mine[u] \in Row /\ sess[s].mine[u] # Nothing
  BY RowOfMine
<1>4. PICK row \in Row : row = changed(u)
  <2>1. 1 - sess[s].mine[u].source \in 0..1
    BY <1>3, RowFields
  <2> QED
    BY <1>3, <2>1 DEF Row
<1>5. /\ row.path = sess[s].mine[u].path /\ row.entry = sess[s].mine[u].entry
      /\ row.icon = sess[s].mine[u].icon /\ row.arguments = sess[s].mine[u].arguments
  BY <1>3, <1>4 DEF Row
<1> HIDE DEF changed
<1>6. Work(s, u, "upsert", row)
  BY <1>1, <1>4
<1>7. sess[s].found = "none" /\ "upsert" \in Working
  BY <1>2, Facts DEF OnlyReadersFind, Is, Working
<1> QED
  BY <1>2, <1>3, <1>5, <1>6, <1>7, PickFrame

LEMMA PickRefreshKeeps == ASSUME IInv, NEW s \in Session, PickRefresh(s) PROVE IInv'
<1>1. PICK u \in Rows(sess[s].mine) : Work(s, u, "inspect", sess[s].mine[u])
  BY DEF PickRefresh
<1>2. /\ sess[s].at = "ready" /\ sess[s].kind = "refresh"
      /\ UNCHANGED <<disk, outside, history, calls, faults, user>>
  BY DEF PickRefresh, At, Is
<1>3. u \in Uuid /\ sess[s].mine[u] \in Row /\ sess[s].mine[u] # Nothing
  BY RowOfMine
<1>4. "inspect" \in Working
  BY DEF Working
<1> QED
  BY <1>1, <1>2, <1>3, <1>4, PickFrame

LEMMA PickRemoveKeeps == ASSUME IInv, NEW s \in Session, PickRemove(s) PROVE IInv'
<1>1. PICK u \in Rows(sess[s].mine) : Work(s, u, "unlink", sess[s].mine[u])
  BY DEF PickRemove
<1>2. sess[s].at = "ready" /\ UNCHANGED <<disk, outside, history, calls, faults, user>>
  BY DEF PickRemove, At
<1>3. u \in Uuid /\ sess[s].mine[u] \in Row /\ sess[s].mine[u] # Nothing
  BY RowOfMine
<1>4. "unlink" \in Working
  BY DEF Working
<1> QED
  BY <1>1, <1>2, <1>3, <1>4, PickFrame

LEMMA PickHealKeeps == ASSUME IInv, NEW s \in Session, PickHeal(s) PROVE IInv'
<1>1. /\ sess[s].at = "ready" /\ Is(s, "heal")
      /\ UNCHANGED <<disk, outside, history, calls, faults, user>>
  BY DEF PickHeal, At
<1>2. PICK u \in sess[s].todo :
        sess' = [sess EXCEPT
          ![s].todo = @ \ {u}, ![s].uuid = u, ![s].found = "none",
          ![s].row = IF u \in Rows(sess[s].mine) THEN sess[s].mine[u] ELSE @,
          ![s].never = u \in Rows(sess[s].mine) /\ ~sess[s].mine[u].read,
          ![s].at = IF u \in Rows(sess[s].mine) THEN "inspect" ELSE "ready"]
  BY DEF PickHeal
<1>3. u \in Uuid /\ sess[s].todo \subseteq Uuid
  BY Facts, StateFields
<1> DEFINE row == IF u \in Rows(sess[s].mine) THEN sess[s].mine[u] ELSE sess[s].row
           never == u \in Rows(sess[s].mine) /\ ~sess[s].mine[u].read
           place == IF u \in Rows(sess[s].mine) THEN "inspect" ELSE "ready"
           m == [sess[s] EXCEPT !.todo = @ \ {u}, !.uuid = u, !.found = "none",
                                !.row = row, !.never = never, !.at = place]
<1>4. /\ row \in Row /\ place \in {"inspect", "ready"}
      /\ place = "inspect" => sess[s].mine[u] # Nothing /\ row = sess[s].mine[u]
  BY RowOfMine, Facts
<1>5. never \in BOOLEAN
  BY Zenon
<1>6. sess' = [sess EXCEPT ![s] = m]
  BY <1>2, Facts
<1> HIDE DEF row, never, place
<1>7. /\ m \in State /\ m.at = place /\ m.uuid = u /\ m.row = row /\ m.found = "none"
      /\ m.kind = sess[s].kind /\ m.mine = sess[s].mine /\ m.base = sess[s].base
  <2>1. place \in Place /\ sess[s] \in State /\ sess[s].todo \ {u} \in SUBSET Uuid
        /\ "none" \in Format \cup {"none"}
    BY <1>3, <1>4, Facts DEF Place
  <2> QED
    BY <1>3, <1>4, <1>5, <2>1 DEF State
<1>8. {calls', faults', user'} \subseteq Nat
  BY <1>1 DEF IInv, TypeOK
<1> HIDE DEF m
<1>9. sess'[s] = m
  BY <1>6, <1>7, SessFrame
<1>10. Own(s)'
  <2>1. Loaded(s)'
    BY <1>1, <1>7, <1>9, CopyStays DEF Reading, disk, history
  <2>2. OnlyReadersFind(s)' /\ RowIsOfMine(s)' /\ RegisterIsNew(s)'
    BY <1>1, <1>4, <1>7, <1>9 DEF OnlyReadersFind, RowIsOfMine, RegisterIsNew, Of, Is, At, Working
  <2> QED
    BY <2>1, <2>2 DEF Own
<1>11. EntryAwaitsRow(s)' /\ IconAwaitsRow(s)'
  BY <1>4, <1>7, <1>9, NothingAwaits
<1> QED
  BY <1>1, <1>6, <1>7, <1>8, <1>10, <1>11, InnerFrame

LEMMA PickAdoptKeeps == ASSUME IInv, NEW s \in Session, PickAdopt(s) PROVE IInv'
<1>1. /\ sess[s].at = "ready" /\ Is(s, "adopt")
      /\ UNCHANGED <<disk, outside, history, calls, faults, user>>
  BY DEF PickAdopt, At
<1> DEFINE new(p) == [path |-> Canon[p], arguments |-> 0, source |-> 0, read |-> FALSE,
                      icon |-> "none", entry |-> FALSE]
<1>2. PICK p \in Path, u \in Uuid : /\ ~Known(sess[s].mine, p)
                                    /\ Work(s, u, "register", new(p))
  BY DEF PickAdopt, Discovered
<1>3. Canon[p] \in Path /\ Canon[Canon[p]] = Canon[p]
  BY SessionsAssumption
<1>4. PICK row \in Row : row = new(p)
  <2>1. new(p) \in Row
    BY <1>3 DEF Row, Format
  <2> QED
    BY <2>1
<1>5. row.path = Canon[p] /\ row.icon = "none" /\ row.entry = FALSE
  BY <1>4
<1> HIDE DEF new
<1> DEFINE m == [sess[s] EXCEPT !.uuid = u, !.row = row, !.at = "register"]
<1>6. /\ m \in State /\ m.at = "register" /\ m.uuid = u /\ m.row = row /\ m.found = sess[s].found
      /\ m.kind = sess[s].kind /\ m.mine = sess[s].mine /\ m.base = sess[s].base
  <2>1. "register" \in Place /\ sess[s] \in State
    BY Facts DEF Place
  <2> QED
    BY <2>1 DEF State
<1>7. sess' = [sess EXCEPT ![s] = m]
  BY <1>2, <1>4, Facts DEF Work
<1>8. {calls', faults', user'} \subseteq Nat
  BY <1>1 DEF IInv, TypeOK
<1> HIDE DEF m
<1>9. sess'[s] = m
  BY <1>6, <1>7, SessFrame
<1>10. Own(s)'
  <2>1. Loaded(s)'
    BY <1>1, <1>6, <1>9, CopyStays DEF Reading, disk, history
  <2>2. OnlyReadersFind(s)'
    BY <1>1, <1>6, <1>9, Facts DEF OnlyReadersFind
  <2>3. RowIsOfMine(s)'
    BY <1>6, <1>9 DEF RowIsOfMine, Working
  <2>4. RegisterIsNew(s)'
    BY <1>2, <1>3, <1>5, <1>6, <1>9 DEF RegisterIsNew, Known, Rows
  <2> QED
    BY <2>1, <2>2, <2>3, <2>4 DEF Own
<1>11. EntryAwaitsRow(s)' /\ IconAwaitsRow(s)'
  BY <1>6, <1>9, NothingAwaits
<1> QED
  BY <1>1, <1>6, <1>7, <1>8, <1>10, <1>11, InnerFrame

LEMMA RefuseKeeps == ASSUME IInv, NEW s \in Session, Refuse(s) PROVE IInv'
<1>1. /\ sess[s].at = "ready" /\ sess' = [sess EXCEPT ![s] = Resting]
      /\ UNCHANGED <<disk, outside, history, calls, faults, user>>
  BY DEF Refuse, At, End
<1>2. {calls', faults', user'} \subseteq Nat
  BY <1>1 DEF IInv, TypeOK
<1>3. sess'[s] = Resting
  BY <1>1, RestingIsState, SessFrame
<1>4. Own(s)'
  BY <1>3, RestingIsState, OwnOfResting DEF Reading
<1>5. EntryAwaitsRow(s)' /\ IconAwaitsRow(s)'
  BY <1>3, RestingIsState, NothingAwaits
<1> QED
  BY <1>1, <1>2, <1>4, <1>5, RestingIsState, InnerFrame

(* Where a call ends: its session rests, or goes on with the next app.     *)
LEMMA SettledFields ==
  ASSUME IInv, NEW s \in Session
  PROVE  /\ Settled(s) \in State
         /\ \/ Settled(s).at = "idle" /\ Settled(s).found = "none"
            \/ /\ Settled(s).at = "ready" /\ Settled(s).kind = "heal"
               /\ Settled(s).mine = sess[s].mine /\ Settled(s).base = sess[s].base
<1>1. CASE Is(s, "heal")
  BY <1>1, Facts DEF Settled, State, Place, Is
<1>2. CASE ~Is(s, "heal")
  BY <1>2, RestingIsState DEF Settled
<1> QED
  BY <1>1, <1>2

LEMMA OwnOfSettled ==
  ASSUME IInv, NEW s \in Session, sess[s].at \notin Reading, sess'[s] = Settled(s),
         UNCHANGED <<db, writes>>
  PROVE  Own(s)' /\ EntryAwaitsRow(s)' /\ IconAwaitsRow(s)'
<1>1. CASE sess'[s].at = "idle" /\ sess'[s].found = "none"
  <2>1. Own(s)'
    BY <1>1, OwnOfResting DEF Reading
  <2> QED
    BY <1>1, <2>1, NothingAwaits
<1>2. CASE /\ sess'[s].at = "ready" /\ sess'[s].kind = "heal"
           /\ sess'[s].mine = sess[s].mine /\ sess'[s].base = sess[s].base
  <2>1. Loaded(s)'
    BY <1>2, CopyStays
  <2>2. OnlyReadersFind(s)'
    BY <1>2 DEF OnlyReadersFind
  <2>3. Own(s)'
    BY <1>2, <2>1, <2>2, OwnOfReady
  <2> QED
    BY <1>2, <2>3, NothingAwaits
<1> QED
  BY <1>1, <1>2, SettledFields

LEMMA InspectFailsKeeps == ASSUME IInv, NEW s \in Session, InspectFails(s) PROVE IInv'
<1>1. /\ sess[s].at = "inspect" /\ sess' = [sess EXCEPT ![s] = Settled(s)]
      /\ UNCHANGED <<disk, outside, history, calls, faults, user>>
  BY DEF InspectFails, At
<1>2. {calls', faults', user'} \subseteq Nat
  BY <1>1 DEF IInv, TypeOK
<1>3. sess'[s] = Settled(s)
  BY <1>1, SettledFields, SessFrame
<1>4. Own(s)' /\ EntryAwaitsRow(s)' /\ IconAwaitsRow(s)'
  BY <1>1, <1>3, OwnOfSettled DEF Reading, disk, history
<1> QED
  BY <1>1, <1>2, <1>4, SettledFields, InnerFrame

LEMMA InspectKeeps == ASSUME IInv, NEW s \in Session, Inspect(s) PROVE IInv'
<1>1. sess[s].at = "inspect" /\ UNCHANGED <<disk, outside, history, calls, faults, user>>
  BY DEF Inspect, At
<1>2. PICK found \in Format \cup {"none"} : found = IconOf(file[Canon[sess[s].row.path]])
  BY DEF IconOf
<1>3. PICK place \in {"reopen", "icon"} : place = IF Is(s, "heal") THEN "reopen" ELSE "icon"
  OBVIOUS
<1> DEFINE m == [sess[s] EXCEPT !.found = found, !.at = place]
<1>4. /\ m \in State /\ m.at = place /\ m.uuid = sess[s].uuid /\ m.row = sess[s].row
      /\ m.kind = sess[s].kind /\ m.mine = sess[s].mine /\ m.base = sess[s].base
  <2>1. place \in Place /\ sess[s] \in State
    BY Facts DEF Place
  <2> QED
    BY <2>1 DEF State
<1>5. sess' = [sess EXCEPT ![s] = m]
  BY <1>2, <1>3, Facts DEF Inspect
<1>6. {calls', faults', user'} \subseteq Nat
  BY <1>1 DEF IInv, TypeOK
<1> HIDE DEF m
<1>7. sess'[s] = m
  BY <1>4, <1>5, SessFrame
<1>8. Own(s)'
  <2>1. Loaded(s)'
    BY <1>1, <1>4, <1>7, CopyStays DEF Reading, disk, history
  <2>2. OnlyReadersFind(s)'
    BY <1>1, <1>4, <1>7, Facts DEF OnlyReadersFind
  <2>3. RowIsOfMine(s)' /\ RegisterIsNew(s)'
    BY <1>1, <1>4, <1>7, Facts DEF RowIsOfMine, RegisterIsNew, Of, Is, At, Working
  <2> QED
    BY <2>1, <2>2, <2>3 DEF Own
<1>9. EntryAwaitsRow(s)' /\ IconAwaitsRow(s)'
  BY <1>4, <1>7, NothingAwaits
<1> QED
  BY <1>1, <1>4, <1>5, <1>6, <1>8, <1>9, InnerFrame

LEMMA ReopenKeeps == ASSUME IInv, NEW s \in Session, Reopen(s) PROVE IInv'
<1>1. /\ sess[s].at = "reopen" /\ db \in Table /\ writes \in [Uuid -> Nat]
      /\ UNCHANGED <<disk, outside, history, calls, faults, user>>
  BY DEF Reopen, At, IInv, TypeOK
<1>2. PICK row \in Row : row = IF db[Of(s)] = Nothing THEN sess[s].row ELSE db[Of(s)]
  BY <1>1, Facts DEF Table
<1>3. PICK place \in {"ready", "icon"} : place = IF db[Of(s)] = Nothing THEN "ready" ELSE "icon"
  OBVIOUS
<1> DEFINE m == [sess[s] EXCEPT !.mine = db, !.base = writes, !.row = row, !.at = place]
<1>4. /\ m \in State /\ m.at = place /\ m.uuid = sess[s].uuid /\ m.row = row /\ m.mine = db
      /\ m.base = writes /\ m.kind = sess[s].kind /\ m.found = sess[s].found
  <2>1. place \in Place /\ sess[s] \in State
    BY Facts DEF Place
  <2> QED
    BY <1>1, <2>1 DEF State
<1>5. sess' = [sess EXCEPT ![s] = m]
  BY <1>2, <1>3, Facts DEF Reopen, Reopened
<1>6. {calls', faults', user'} \subseteq Nat
  BY <1>1 DEF IInv, TypeOK
<1> HIDE DEF m
<1>7. sess'[s] = m
  BY <1>4, <1>5, SessFrame
<1>8. db' = db /\ writes' = writes
  BY <1>1 DEF disk, history
<1>9. Own(s)'
  <2>1. Loaded(s)'
    BY <1>1, <1>4, <1>7, <1>8 DEF Loaded
  <2>2. OnlyReadersFind(s)'
    BY <1>1, <1>4, <1>7, Facts DEF OnlyReadersFind
  <2>3. RowIsOfMine(s)'
    BY <1>2, <1>3, <1>4, <1>7 DEF RowIsOfMine, Of, Is, Working
  <2>4. RegisterIsNew(s)'
    BY <1>4, <1>7 DEF RegisterIsNew, At
  <2> QED
    BY <2>1, <2>2, <2>3, <2>4 DEF Own
<1>10. EntryAwaitsRow(s)' /\ IconAwaitsRow(s)'
  BY <1>4, <1>7, NothingAwaits
<1> QED
  BY <1>1, <1>4, <1>5, <1>6, <1>9, <1>10, InnerFrame

LEMMA SyncIconFailsKeeps == ASSUME IInv, NEW s \in Session, SyncIconFails(s) PROVE IInv'
<1>1. /\ sess[s].at = "icon" /\ UNCHANGED <<disk, outside, history, calls, user>>
      /\ faults' = faults + 1
  BY DEF SyncIconFails, At, Spoil
<1>2. {calls', faults', user'} \subseteq Nat
  BY <1>1 DEF IInv, TypeOK
<1>3. UNCHANGED <<db, entry, icons, wanted, excused, broken, writes>>
  BY <1>1 DEF disk, history
<1>4. CASE Is(s, "heal")
  <2> DEFINE m == [sess[s] EXCEPT !.at = "ready"]
  <2>1. /\ m \in State /\ m.at = "ready" /\ m.kind = sess[s].kind /\ m.found = sess[s].found
        /\ m.mine = sess[s].mine /\ m.base = sess[s].base
    BY Facts DEF State, Place
  <2>2. sess' = [sess EXCEPT ![s] = m]
    BY <1>4, Facts DEF SyncIconFails, Go
  <2> HIDE DEF m
  <2>3. sess'[s] = m
    BY <2>1, <2>2, SessFrame
  <2>4. Loaded(s)'
    BY <1>1, <1>3, <2>1, <2>3, CopyStays DEF Reading
  <2>5. OnlyReadersFind(s)'
    BY <1>1, <2>1, <2>3, Facts DEF OnlyReadersFind
  <2>6. Own(s)' /\ EntryAwaitsRow(s)' /\ IconAwaitsRow(s)'
    BY <2>1, <2>3, <2>4, <2>5, OwnOfReady, NothingAwaits
  <2> QED
    BY <1>1, <1>2, <2>1, <2>2, <2>6, InnerFrame
<1>5. CASE ~Is(s, "heal")
  <2>1. PICK row \in Row : row = [sess[s].row EXCEPT !.read = TRUE]
    BY Facts DEF Row
  <2>2. /\ row.path = sess[s].row.path /\ row.arguments = sess[s].row.arguments
        /\ row.source = sess[s].row.source /\ row.icon = sess[s].row.icon
        /\ row.entry = sess[s].row.entry
    BY <2>1, Facts DEF Row
  <2>3. PICK place \in {"entry", "upsert"} : place = IF row.entry THEN "entry" ELSE "upsert"
    OBVIOUS
  <2>4. AfterIcon(s, TRUE) = place
    BY <1>5, <2>2, <2>3 DEF AfterIcon
  <2> DEFINE m == [sess[s] EXCEPT !.found = "none", !.row = row, !.at = place]
  <2>5. /\ m \in State /\ m.at = place /\ m.uuid = sess[s].uuid /\ m.row = row
        /\ m.found = "none" /\ m.kind = sess[s].kind /\ m.mine = sess[s].mine
        /\ m.base = sess[s].base
    <3>1. place \in Place /\ sess[s] \in State /\ "none" \in Format \cup {"none"}
      BY Facts DEF Place
    <3> QED
      BY <3>1 DEF State
  <2>6. sess' = [sess EXCEPT ![s] = m]
    <3>1. sess' = [sess EXCEPT ![s].found = "none", ![s].row.read = TRUE, ![s].at = place]
      BY <1>5, <2>4, Zenon DEF SyncIconFails
    <3>2. sess[s].row = [sess[s] EXCEPT !.found = "none"].row
      BY Facts DEF State
    <3> QED
      BY <2>1, <3>1, <3>2, Facts DEF State
  <2> HIDE DEF m
  <2>7. sess'[s] = m /\ \A t \in Session \ {s} : sess'[t] = sess[t]
    BY <2>5, <2>6, SessFrame
  <2>8. /\ sess[s].mine[sess[s].uuid] # Nothing
        /\ row.icon = sess[s].mine[sess[s].uuid].icon
        /\ row.entry = sess[s].mine[sess[s].uuid].entry
    BY <1>1, <2>2, Facts DEF RowIsOfMine, Working, Of
  <2>9. place = "upsert" => ~row.entry
    BY <2>3, RowFields
  <2>10. Own(s)'
    <3>1. Loaded(s)'
      BY <1>1, <1>3, <2>5, <2>7, CopyStays DEF Reading
    <3>2. OnlyReadersFind(s)'
      BY <2>5, <2>7 DEF OnlyReadersFind
    <3>3. RowIsOfMine(s)'
      BY <1>1, <2>2, <2>5, <2>7, Facts DEF RowIsOfMine, Of, Is, Working
    <3>4. RegisterIsNew(s)'
      BY <2>5, <2>7 DEF RegisterIsNew, At
    <3> QED
      BY <3>1, <3>2, <3>3, <3>4 DEF Own
  <2>11. sess[s].uuid \in Uuid
    BY Facts DEF Of
  <2>12. EntryAwaitsRow(s)' /\ IconAwaitsRow(s)'
    BY <1>1, <1>3, <2>5, <2>7, <2>8, <2>9, <2>11, TakenRowFits DEF Reading
  <2> QED
    BY <1>1, <1>2, <2>5, <2>6, <2>10, <2>12, InnerFrame
<1> QED
  BY <1>4, <1>5

LEMMA VerifyEntryKeeps == ASSUME IInv, NEW s \in Session, VerifyEntry(s) PROVE IInv'
<1>1. sess[s].at = "verify" /\ UNCHANGED <<disk, outside, history, calls, faults, user>>
  BY DEF VerifyEntry, At
<1>2. PICK place \in {"entry", "upsert"} : place = IF Ours(Of(s)) THEN "entry" ELSE "upsert"
  OBVIOUS
<1> DEFINE m == [sess[s] EXCEPT !.at = place]
<1>3. /\ m \in State /\ m.at = place /\ m.uuid = sess[s].uuid /\ m.row = sess[s].row
      /\ m.kind = sess[s].kind /\ m.mine = sess[s].mine /\ m.base = sess[s].base
      /\ m.found = sess[s].found /\ m.saw = sess[s].saw
  BY Facts DEF State, Place
<1>4. sess' = [sess EXCEPT ![s] = m]
  BY <1>2, Facts DEF VerifyEntry, Go
<1>5. {calls', faults', user'} \subseteq Nat
  BY <1>1 DEF IInv, TypeOK
<1> HIDE DEF m
<1>6. sess'[s] = m /\ \A t \in Session \ {s} : sess'[t] = sess[t]
  BY <1>3, <1>4, SessFrame
<1>7. UNCHANGED <<db, entry, icons, wanted, excused, broken, writes>>
  BY <1>1 DEF disk, history
<1>8. Own(s)'
  <2>1. Loaded(s)'
    BY <1>1, <1>3, <1>6, <1>7, CopyStays DEF Reading
  <2>2. OnlyReadersFind(s)' /\ RowIsOfMine(s)' /\ RegisterIsNew(s)'
    BY <1>1, <1>3, <1>6, Facts DEF OnlyReadersFind, RowIsOfMine, RegisterIsNew, Of, Is, At, Working
  <2> QED
    BY <2>1, <2>2 DEF Own
<1>9. EntryAwaitsRow(s)'
  BY <1>2, <1>3, <1>6, <1>7 DEF EntryAwaitsRow, At, Ours, Of
<1>10. IconAwaitsRow(s)'
  <2>1. IconAwaitsRow(s)
    BY Facts
  <2>2. Counts(s)' => Counts(s)
    BY <1>3, <1>6, <1>7 DEF Counts, Of
  <2>3. \A t \in Session \ {s} : Works(t, Of(s)) => Works(t, Of(s))'
    BY <1>3, <1>6 DEF Works, Of
  <2> QED
    BY <1>1, <1>3, <1>6, <1>7, <2>1, <2>2, <2>3 DEF IconAwaitsRow, Of
<1> QED
  BY <1>1, <1>3, <1>4, <1>5, <1>8, <1>9, <1>10, InnerFrame

-----------------------------------------------------------------------------
(* Steps that change the disk.                                             *)

LEMMA ConnectKeeps == ASSUME IInv, NEW s \in Session, Connect(s) PROVE IInv'
<1>1. /\ sess[s].at = "connect" /\ dbFile' = TRUE
      /\ UNCHANGED <<db, file, entry, icons, outside, history, calls, faults, user>>
  BY DEF Connect, At
<1>2. UNCHANGED <<db, file, entry, icons, outside, wanted, excused, broken, writes, calls, faults, user>>
  BY <1>1 DEF history
<1> DEFINE m == [sess[s] EXCEPT !.at = "import"]
<1>3. m \in State /\ m.at = "import" /\ m.kind = sess[s].kind /\ m.found = sess[s].found
  BY Facts DEF State, Place
<1>4. sess' = [sess EXCEPT ![s] = m]
  BY Facts DEF Connect, Go
<1> HIDE DEF m
<1>5. sess' \in [Session -> State] /\ sess'[s] = m
  BY <1>3, <1>4, SessFrame
<1>6. \A t \in Session \ {s} : Kept(t)
  BY <1>3, <1>4, SessFrame
<1>7. TypeOK'
  BY <1>1, <1>2, <1>5 DEF IInv, TypeOK
<1>8. LeavesWell(s)
  BY <1>1 DEF LeavesWell, Works, Writes, At
<1>9. Importing'
  BY <1>3, <1>5 DEF Importing, At
<1>10. Steady(s)
  BY <1>2, <1>6, <1>8, <1>9 DEF Steady, IInv, TypeOK
<1>11. Own(s)'
  BY <1>1, <1>3, <1>5, OwnOfResting, Facts DEF Reading, OnlyReadersFind
<1>12. EntryAwaitsRow(s)' /\ IconAwaitsRow(s)'
  BY <1>3, <1>5, NothingAwaits
<1>13. OneRowPerFile'
  BY <1>2, SameTable
<1> QED
  BY <1>2, <1>7, <1>10, <1>11, <1>12, <1>13, StepFrame

(* Both versions of the import agree on a row that nobody changed since.   *)
LEMMA ImportedIsDue ==
  ASSUME IInv, NEW s \in Session, At(s, "import"), db' = Imported, wanted' = wanted,
         NEW u \in Uuid, u \notin excused, db[u] \in {Nothing, LegacyRow}, wanted[u] = Imported[u],
         UNCHANGED <<entry, icons, broken>>, excused \subseteq excused',
         \A t \in Session : Kept(t) \/ t = s, sess[s].at = "import"
  PROVE  AsAsked(u)' /\ EntryFits(u)' /\ IconFits(u)'
<1>1. db'[u] = wanted[u]
  OBVIOUS
<1>2. AsAsked(u)'
  BY <1>1 DEF AsAsked
<1>3. Due(u)' = Imported[u]
  BY <1>1 DEF Due, NotYet
<1>4. Imported[u] = IF u = Legacy THEN LegacyRow ELSE Nothing
  BY SessionsAssumption DEF Imported, Empty
<1>5. ASSUME Imported[u] # Nothing PROVE Due(u) = Imported[u]
  BY <1>4, <1>5, NothingIsNoRow DEF Due, NotYet
<1>6. \A t \in Session : /\ Writes(t, u) => Writes(t, u)'
                         /\ Works(t, u) => Works(t, u)'
  BY DEF Kept, Writes, Works, At, Of
<1>7. EntryFits(u) /\ IconFits(u)
  BY DEF IInv
<1>8. EntryFits(u)'
  BY <1>3, <1>5, <1>6, <1>7 DEF EntryFits, Ours
<1>9. IconFits(u)'
  BY <1>3, <1>5, <1>6, <1>7 DEF IconFits
<1> QED
  BY <1>2, <1>8, <1>9

LEMMA ImportSaveKeeps == ASSUME IInv, NEW s \in Session, ImportSave(s) PROVE IInv'
<1>1. /\ sess[s].at = "import" /\ At(s, "import")
      /\ UNCHANGED <<dbFile, file, entry, icons, outside, wanted, broken, calls, user>>
  BY DEF ImportSave, At
<1> DEFINE m == [sess[s] EXCEPT !.at = "load"]
<1>2. m \in State /\ m.at = "load" /\ m.kind = sess[s].kind /\ m.found = sess[s].found
  BY Facts DEF State, Place
<1>3. sess' = [sess EXCEPT ![s] = m]
  BY Facts DEF ImportSave, Go
<1> HIDE DEF m
<1>4. sess' \in [Session -> State] /\ sess'[s] = m
  BY <1>2, <1>3, SessFrame
<1>5. \A t \in Session \ {s} : Kept(t)
  BY <1>2, <1>3, SessFrame
<1>6. LeavesWell(s)
  BY <1>1 DEF LeavesWell, Works, Writes, At
<1>7. Own(s)'
  BY <1>1, <1>2, <1>4, OwnOfResting, Facts DEF Reading, OnlyReadersFind
<1>8. EntryAwaitsRow(s)' /\ IconAwaitsRow(s)'
  BY <1>2, <1>4, NothingAwaits
<1>9. TypeOK /\ writes \in [Uuid -> Nat] /\ faults \in Nat /\ Legacy \in Uuid
  BY SessionsAssumption DEF IInv, TypeOK
<1>10. CASE /\ db' = Saved(Imported)
            /\ excused' = excused \cup {u \in Uuid : db[u] \notin {Nothing, LegacyRow}}
                                  \cup {u \in Uuid : wanted[u] # Imported[u]}
            /\ writes' = [u \in Uuid |-> writes[u] + 1]
            /\ UNCHANGED faults
  <2>1. db' = Imported /\ db' \in Table
    BY <1>9, <1>10, NothingIsNoRow DEF Saved, Imported, Empty, Table
  <2>2. writes' \in [Uuid -> Nat] /\ \A u \in Uuid : writes'[u] = writes[u] + 1
    BY <1>9, <1>10
  <2>3. excused' \subseteq Uuid /\ excused \subseteq excused'
    BY <1>9, <1>10 DEF TypeOK
  <2>4. TypeOK'
    BY <1>1, <1>4, <1>9, <1>10, <2>1, <2>2, <2>3 DEF TypeOK
  <2>5. \A u \in Uuid : writes'[u] # writes[u] /\ writes[u] <= writes'[u]
    BY <1>9, <2>2
  <2>6. Steady(s)
    BY <1>1, <1>5, <1>6, <1>9, <2>3, <2>5 DEF Steady
  <2>7. OneRowPerFile'
    <3>1. \A u \in Rows(db)' : u = Legacy
      BY <2>1 DEF Rows, Imported, Empty
    <3> QED
      BY <3>1 DEF OneRowPerFile
  <2>8. ASSUME NEW u \in Uuid, u \notin excused' PROVE AsAsked(u)' /\ EntryFits(u)' /\ IconFits(u)'
    <3>1. u \notin excused /\ db[u] \in {Nothing, LegacyRow} /\ wanted[u] = Imported[u]
      BY <1>10, <2>8
    <3> QED
      BY <1>1, <1>5, <2>1, <2>3, <3>1, ImportedIsDue
  <2> QED
    BY <1>7, <1>8, <2>4, <2>6, <2>7, <2>8, StepFrame
<1>11. CASE Spoil /\ excused' = excused \cup {Legacy} /\ UNCHANGED <<db, writes>>
  <2>1. faults' \in Nat /\ excused \subseteq excused' /\ Legacy \in excused'
    BY <1>9, <1>11 DEF Spoil
  <2>2. TypeOK'
    BY <1>1, <1>4, <1>9, <1>11, <2>1 DEF TypeOK
  <2>3. Steady(s)
    BY <1>1, <1>5, <1>6, <1>9, <1>11, <2>1 DEF Steady
  <2>4. OneRowPerFile'
    BY <1>11, <2>1, SameTable
  <2> QED
    BY <1>7, <1>8, <1>11, <2>2, <2>3, <2>4, StepFrame
<1> QED
  BY <1>10, <1>11 DEF ImportSave

LEMMA AfterIconFits ==
  ASSUME IInv, NEW s \in Session, NEW changed \in BOOLEAN, NEW place, place = AfterIcon(s, changed)
  PROVE  /\ place \in {"ready", "verify", "entry", "upsert"}
         /\ place = "ready" => ~changed /\ sess[s].kind = "heal"
         /\ place = "upsert" /\ sess[s].row.entry => entry[Of(s)] = Nothing
<1>1. sess[s].row.entry \in BOOLEAN
  BY Facts, RowFields
<1> QED
  BY <1>1 DEF AfterIcon, Is

LEMMA SyncIconKeeps == ASSUME IInv, NEW s \in Session, SyncIcon(s) PROVE IInv'
<1> DEFINE row == sess[s].row
           found == sess[s].found
           u == sess[s].uuid
           newname == IF found = "none" THEN row.icon ELSE found
           newread == row.read \/ Filled(s)
           moved == \/ sess[s].never \/ newname # row.icon
                    \/ (found # "none" /\ <<u, row.icon>> \notin icons)
<1>1. /\ sess[s].at = "icon"
      /\ UNCHANGED <<dbFile, db, file, entry, outside, history, calls, faults, user>>
      /\ icons' = IF found = "none" THEN icons ELSE IconsSynced(s)
      /\ sess' = [sess EXCEPT ![s].row = [row EXCEPT !.icon = newname, !.read = newread],
                              ![s].at = AfterIcon(s, moved)]
  BY Zenon DEF SyncIcon, At, Of
<1>2. /\ u = Of(s) /\ u \in Uuid /\ row \in Row /\ found \in Format \cup {"none"}
      /\ row.icon \in Format \cup {"none"}
  BY Facts, RowFields, StateFields DEF Of
<1>3. newname \in Format \cup {"none"}
  BY <1>2
<1>4. newread \in BOOLEAN /\ moved \in BOOLEAN
  BY Zenon
<1>5. /\ icons' \subseteq Uuid \X Format
      /\ \A v \in Uuid, f \in Format : <<v, f>> \in icons => <<v, f>> \in icons' \/ v = u
      /\ ~moved => icons \subseteq icons'
      /\ found # "none" => <<u, found>> \in icons'
      /\ found = "none" => icons' = icons
  <2>1. icons \subseteq Uuid \X Format
    BY DEF IInv, TypeOK
  <2> QED
    BY <1>1, <1>2, <2>1 DEF IconsSynced
<1>6. found = "none" => newname = row.icon
  OBVIOUS
<1>7. found # "none" => newname = found
  OBVIOUS
<1> HIDE DEF newname, newread, moved
<1>8. PICK new \in Row : new = [row EXCEPT !.icon = newname, !.read = newread]
  BY <1>2, <1>3, <1>4 DEF Row
<1>9. /\ new.path = row.path /\ new.arguments = row.arguments /\ new.source = row.source
      /\ new.entry = row.entry /\ new.icon = newname
  BY <1>2, <1>8 DEF Row
<1>10. PICK place \in {"ready", "verify", "entry", "upsert"} : place = AfterIcon(s, moved)
  BY <1>4, AfterIconFits
<1>11. /\ place = "ready" => ~moved /\ sess[s].kind = "heal"
       /\ place = "upsert" /\ new.entry => entry[u] = Nothing
  BY <1>2, <1>4, <1>9, <1>10, AfterIconFits
<1> DEFINE m == [sess[s] EXCEPT !.row = new, !.at = place]
<1>12. /\ m \in State /\ m.at = place /\ m.uuid = u /\ m.row = new /\ m.found = found
       /\ m.kind = sess[s].kind /\ m.mine = sess[s].mine /\ m.base = sess[s].base
  <2>1. place \in Place /\ sess[s] \in State
    BY Facts DEF Place
  <2>2. sess[s].uuid = u /\ sess[s].found = found
    BY <1>2
  <2> QED
    BY <2>1, <2>2 DEF State
<1>13. sess' = [sess EXCEPT ![s] = m]
  <2>1. sess' = [sess EXCEPT ![s].row = new, ![s].at = place]
    BY <1>1, <1>8, <1>10
  <2> QED
    BY <2>1, Facts
<1> HIDE DEF m
<1>14. /\ sess' \in [Session -> State] /\ sess'[s] = m
       /\ \A t \in Session \ {s} : Kept(t) /\ sess'[t] = sess[t]
  BY <1>12, <1>13, SessFrame
<1>15. UNCHANGED <<dbFile, db, file, entry, outside, wanted, excused, broken, writes, calls, faults, user>>
  BY <1>1 DEF history
<1>16. TypeOK'
  BY <1>5, <1>14, <1>15 DEF IInv, TypeOK
<1>17. Steady(s)
  <2>1. LeavesWell(s)
    BY <1>1 DEF LeavesWell, Works, Writes, At
  <2>2. Importing => Importing'
    BY <1>1, <1>14, <1>15 DEF Importing, At, Kept
  <2>3. ASSUME NEW v \in Uuid, NEW f \in Format, <<v, f>> \in icons
        PROVE  <<v, f>> \in icons' \/ Works(s, v)'
    BY <1>5, <1>11, <1>12, <1>14, <2>3 DEF Works, Of
  <2> QED
    BY <1>14, <1>15, <2>1, <2>2, <2>3 DEF Steady, IInv, TypeOK
<1>18. /\ sess[s].mine[u] # Nothing /\ row.path = sess[s].mine[u].path
       /\ row.entry = sess[s].mine[u].entry /\ row.icon = sess[s].mine[u].icon
       /\ ~Is(s, "edit") => row.arguments = sess[s].mine[u].arguments
       /\ ~Is(s, "source") => row.source = sess[s].mine[u].source
  BY <1>1, <1>2, Facts DEF RowIsOfMine, Working
<1>19. Own(s)'
  <2>1. Loaded(s)'
    BY <1>1, <1>12, <1>14, <1>15, CopyStays DEF Reading
  <2>2. OnlyReadersFind(s)'
    BY <1>1, <1>12, <1>14, Facts DEF OnlyReadersFind
  <2>3. RowIsOfMine(s)'
    <3>1. place # "ready" =>
            /\ new.path = sess[s].mine[u].path /\ new.entry = sess[s].mine[u].entry
            /\ found = "none" => new.icon = sess[s].mine[u].icon
      BY <1>6, <1>9, <1>18
    <3> QED
      BY <1>9, <1>12, <1>14, <1>18, <3>1 DEF RowIsOfMine, Of, Is, Working
  <2>4. RegisterIsNew(s)'
    BY <1>12, <1>14 DEF RegisterIsNew, At
  <2> QED
    BY <2>1, <2>2, <2>3, <2>4 DEF Own
<1>20. EntryAwaitsRow(s)'
  BY <1>11, <1>12, <1>14, <1>15 DEF EntryAwaitsRow, At, Ours, Of
<1>21. IconAwaitsRow(s)'
  <2> SUFFICES ASSUME Counts(s)', newname # "none"
               PROVE  \/ <<u, newname>> \in icons'
                      \/ \E t \in Session \ {s} : Works(t, u)'
    BY <1>9, <1>12, <1>14 DEF IconAwaitsRow, Of
  <2>1. CASE found # "none"
    BY <1>5, <1>7, <2>1
  <2>2. CASE found = "none"
    <3>1. u \notin excused \cup broken /\ sess[s].base[u] = writes[u]
      BY <1>12, <1>14, <1>15, <2>2 DEF Counts, Of
    <3>2. sess[s].mine[u] = db[u]
      BY <1>1, <1>2, <3>1, Facts DEF Loaded, Reading
    <3>3. Due(u) = db[u] /\ Due(u) # Nothing /\ Due(u).icon = newname
      BY <1>6, <1>18, <2>2, <3>2 DEF Due, NotYet
    <3>4. IconFits(u)
      BY <1>2 DEF IInv
    <3>5. \/ <<u, newname>> \in icons
          \/ \E t \in Session : Works(t, u)
      BY <3>1, <3>3, <3>4 DEF IconFits
    <3>6. ~Works(s, u)
      BY <1>1 DEF Works
    <3>7. \A t \in Session \ {s} : Works(t, u) => Works(t, u)'
      BY <1>12, <1>14 DEF Works, Of
    <3> QED
      BY <1>5, <2>2, <3>5, <3>6, <3>7
  <2> QED
    BY <2>1, <2>2
<1>22. OneRowPerFile'
  BY <1>15, SameTable
<1> QED
  BY <1>15, <1>16, <1>17, <1>19, <1>20, <1>21, <1>22, StepFrame

LEMMA WriteEntryKeeps == ASSUME IInv, NEW s \in Session, WriteEntry(s) PROVE IInv'
<1> DEFINE u == sess[s].uuid
           body == Body(sess[s].row)
           m == [sess[s] EXCEPT !.at = "upsert"]
<1>1. /\ sess[s].at = "entry" /\ entry' = [entry EXCEPT ![u] = body]
      /\ UNCHANGED <<dbFile, db, file, icons, outside, history, calls, faults, user>>
  BY DEF WriteEntry, At, Of
<1>2. u = Of(s) /\ u \in Uuid /\ sess[s].row \in Row
  BY Facts DEF Of
<1>3. /\ m \in State /\ m.at = "upsert" /\ m.uuid = u /\ m.row = sess[s].row
      /\ m.kind = sess[s].kind /\ m.mine = sess[s].mine /\ m.base = sess[s].base
      /\ m.found = sess[s].found /\ m.saw = sess[s].saw
  BY Facts DEF State, Place
<1>4. sess' = [sess EXCEPT ![s] = m]
  BY Facts DEF WriteEntry, Go
<1>5. body \in Entry /\ body.arguments = sess[s].row.arguments
  BY <1>2, RowFields DEF Body, Entry
<1> HIDE DEF m, body
<1>6. /\ sess' \in [Session -> State] /\ sess'[s] = m
      /\ \A t \in Session \ {s} : Kept(t) /\ sess'[t] = sess[t]
  BY <1>3, <1>4, SessFrame
<1>7. UNCHANGED <<dbFile, db, file, icons, outside, wanted, excused, broken, writes, calls, faults, user>>
  BY <1>1 DEF history
<1>8. /\ entry' \in [Uuid -> Entry] /\ entry'[u] = body
      /\ \A v \in Uuid \ {u} : entry'[v] = entry[v]
  BY <1>1, <1>2, <1>5 DEF IInv, TypeOK
<1>9. TypeOK'
  BY <1>6, <1>7, <1>8 DEF IInv, TypeOK
<1>10. Steady(s)
  <2>1. LeavesWell(s)
    BY <1>1, <1>3, <1>6 DEF LeavesWell, Works, Writes, At, Of
  <2>2. Importing => Importing'
    BY <1>1, <1>6, <1>7 DEF Importing, At, Kept
  <2>3. \A v \in Uuid : v = u => Writes(s, v)'
    BY <1>3, <1>6 DEF Writes, At, Of
  <2>4. \A v \in Uuid : entry'[v] = entry[v] \/ ~Ours(v)' \/ Writes(s, v)'
    BY <1>8, <2>3
  <2> QED
    BY <1>6, <1>7, <2>1, <2>2, <2>4 DEF Steady, IInv, TypeOK
<1>11. Own(s)'
  <2>1. Loaded(s)'
    BY <1>1, <1>3, <1>6, <1>7, CopyStays DEF Reading
  <2>2. OnlyReadersFind(s)'
    BY <1>1, <1>3, <1>6, Facts DEF OnlyReadersFind
  <2>3. RowIsOfMine(s)' /\ RegisterIsNew(s)'
    BY <1>1, <1>3, <1>6, Facts DEF RowIsOfMine, RegisterIsNew, Of, Is, At, Working
  <2> QED
    BY <2>1, <2>2, <2>3 DEF Own
<1>12. EntryAwaitsRow(s)'
  BY <1>3, <1>5, <1>6, <1>8 DEF EntryAwaitsRow, Of
<1>13. IconAwaitsRow(s)'
  <2>1. IconAwaitsRow(s)
    BY Facts
  <2>2. Counts(s)' => Counts(s)
    BY <1>3, <1>6, <1>7 DEF Counts, Of
  <2>3. \A t \in Session \ {s} : Works(t, Of(s)) => Works(t, Of(s))'
    BY <1>3, <1>6 DEF Works, Of
  <2> QED
    BY <1>1, <1>3, <1>6, <1>7, <2>1, <2>2, <2>3 DEF IconAwaitsRow, Of
<1>14. OneRowPerFile'
  BY <1>7, SameTable
<1> QED
  BY <1>7, <1>9, <1>10, <1>11, <1>12, <1>13, <1>14, StepFrame

-----------------------------------------------------------------------------
(* Steps that write a row.                                                 *)

(* What such a write does to the counts and to who is excused.             *)
LEMMA WroteFrame ==
  ASSUME IInv, NEW s \in Session, Wrote(s)
  PROVE  /\ writes' \in [Uuid -> Nat] /\ writes'[Of(s)] = writes[Of(s)] + 1
         /\ \A v \in Uuid \ {Of(s)} : writes'[v] = writes[v]
         /\ \A v \in Uuid : writes[v] <= writes'[v] /\ (writes'[v] # writes[v] => v = Of(s))
         /\ excused \subseteq excused' /\ excused' \subseteq Uuid
         /\ Of(s) \notin excused' => ~Stale(s) /\ sess[s].base[Of(s)] = writes[Of(s)]
<1>1. writes \in [Uuid -> Nat] /\ excused \subseteq Uuid /\ Of(s) \in Uuid
  BY Facts DEF TypeOK
<1>2. writes' = [writes EXCEPT ![Of(s)] = @ + 1]
  BY DEF Wrote
<1>3. excused' = IF Stale(s) THEN excused \cup {Of(s)} ELSE excused
  BY DEF Wrote
<1>4. sess[s].base[Of(s)] # writes[Of(s)] => Stale(s)
  BY DEF Stale
<1>5. /\ writes' \in [Uuid -> Nat] /\ writes'[Of(s)] = writes[Of(s)] + 1
      /\ \A v \in Uuid \ {Of(s)} : writes'[v] = writes[v]
  BY <1>1, <1>2
<1>6. \A v \in Uuid : writes[v] \in Nat
  BY <1>1
<1> QED
  BY <1>1, <1>3, <1>4, <1>5, <1>6

LEMMA UpsertKeeps == ASSUME IInv, NEW s \in Session, Upsert(s) PROVE IInv'
<1>1. PICK u \in Uuid : u = Of(s)
  BY Facts
<1>2. PICK row \in Row : row = sess[s].row
  BY Facts
<1>3. /\ sess[s].at = "upsert" /\ At(s, "upsert") /\ db' = [db EXCEPT ![u] = row]
      /\ Wrote(s) /\ Asked(s)
      /\ UNCHANGED <<dbFile, file, entry, icons, outside, calls, faults, user>>
      /\ broken' = IF sess[s].found # "none" /\ u \in sess[s].saw THEN broken \ {u} ELSE broken
  BY <1>1, <1>2 DEF Upsert, At
<1>4. db \in Table /\ wanted \in Table /\ broken \subseteq Uuid /\ row # Nothing
  BY NothingIsNoRow DEF IInv, TypeOK
<1>5. /\ writes' \in [Uuid -> Nat] /\ writes'[u] = writes[u] + 1
      /\ \A v \in Uuid : writes[v] <= writes'[v] /\ (writes'[v] # writes[v] => v = u)
      /\ excused \subseteq excused' /\ excused' \subseteq Uuid
      /\ u \notin excused' => sess[s].base[u] = writes[u]
  BY <1>1, <1>3, WroteFrame
<1>6. db' \in Table /\ db'[u] = row /\ \A v \in Uuid \ {u} : db'[v] = db[v]
  BY <1>3, <1>4 DEF Table
<1>7. /\ wanted' \in Table /\ \A v \in Uuid \ {u} : wanted'[v] = wanted[v]
      /\ (wanted'[u] = Nothing) <=> (wanted[u] = Nothing)
      /\ wanted[u] # Nothing =>
           /\ wanted'[u].arguments = IF Is(s, "edit") THEN row.arguments ELSE wanted[u].arguments
           /\ wanted'[u].source = IF Is(s, "source") THEN row.source ELSE wanted[u].source
  <2> DEFINE edited == [wanted EXCEPT ![u].arguments = row.arguments]
             sourced == [wanted EXCEPT ![u].source = row.source]
             sets(kind) == ~At(s, "register") /\ wanted[u] # Nothing /\ Is(s, kind)
  <2>0. wanted' = CASE At(s, "register") -> [wanted EXCEPT ![u] = row]
                    [] sets("edit") -> edited
                    [] sets("source") -> sourced
                    [] OTHER -> wanted
    BY <1>1, <1>2, <1>3 DEF Asked
  <2> HIDE DEF edited, sourced
  <2>1. /\ wanted[u] = Nothing => wanted' = wanted
        /\ wanted[u] # Nothing /\ Is(s, "edit") => wanted' = edited
        /\ wanted[u] # Nothing /\ Is(s, "source") => wanted' = sourced
        /\ wanted[u] # Nothing /\ ~Is(s, "edit") /\ ~Is(s, "source") => wanted' = wanted
    BY <1>3, <2>0 DEF At, Is
  <2>2. CASE wanted[u] = Nothing
    BY <1>4, <2>1, <2>2
  <2>3. CASE wanted[u] # Nothing /\ Is(s, "edit")
    <3>1. wanted' = [wanted EXCEPT ![u].arguments = row.arguments] /\ ~Is(s, "source")
      BY <2>1, <2>3 DEF Is, edited
    <3>2. wanted[u] \in Row
      BY <1>4, <2>3 DEF Table
    <3>3. PICK new \in Row : new = [wanted[u] EXCEPT !.arguments = row.arguments]
      BY <3>2, RowFields DEF Row
    <3>4. new.arguments = row.arguments /\ new.source = wanted[u].source /\ new # Nothing
      BY <3>2, <3>3, NothingIsNoRow DEF Row
    <3>5. wanted' = [wanted EXCEPT ![u] = new]
      BY <3>1, <3>3, <1>4 DEF Table
    <3> QED
      BY <1>4, <2>3, <3>1, <3>4, <3>5 DEF Table
  <2>4. CASE wanted[u] # Nothing /\ Is(s, "source")
    <3>1. wanted' = [wanted EXCEPT ![u].source = row.source] /\ ~Is(s, "edit")
      BY <2>1, <2>4 DEF Is, sourced
    <3>2. wanted[u] \in Row
      BY <1>4, <2>4 DEF Table
    <3>3. PICK new \in Row : new = [wanted[u] EXCEPT !.source = row.source]
      BY <3>2, RowFields DEF Row
    <3>4. new.source = row.source /\ new.arguments = wanted[u].arguments /\ new # Nothing
      BY <3>2, <3>3, NothingIsNoRow DEF Row
    <3>5. wanted' = [wanted EXCEPT ![u] = new]
      BY <3>1, <3>3, <1>4 DEF Table
    <3> QED
      BY <1>4, <2>4, <3>1, <3>4, <3>5 DEF Table
  <2>5. CASE wanted[u] # Nothing /\ ~Is(s, "edit") /\ ~Is(s, "source")
    BY <1>4, <2>1, <2>5
  <2> QED
    BY <2>2, <2>3, <2>4, <2>5
<1> DEFINE m == IF Is(s, "heal")
                THEN [sess[s] EXCEPT !.at = "ready", !.mine = [@ EXCEPT ![u] = row],
                                     !.base = [@ EXCEPT ![u] = writes[u] + 1]]
                ELSE Resting
<1>8. sess[s].mine \in Table /\ sess[s].base \in [Uuid -> Nat] /\ writes[u] + 1 \in Nat
  BY <1>5, Facts, StateFields
<1>9. [sess[s].mine EXCEPT ![u] = row] \in Table /\ [sess[s].base EXCEPT ![u] = writes[u] + 1] \in [Uuid -> Nat]
  BY <1>8 DEF Table
<1>10. /\ m \in State
       /\ \/ m.at = "idle" /\ m.found = "none"
          \/ /\ m.at = "ready" /\ m.kind = "heal"
             /\ m.mine = [sess[s].mine EXCEPT ![u] = row]
             /\ m.base = [sess[s].base EXCEPT ![u] = writes[u] + 1]
  <2>1. CASE Is(s, "heal")
    <3> DEFINE mine == [sess[s].mine EXCEPT ![u] = row]
               base == [sess[s].base EXCEPT ![u] = writes[u] + 1]
               healed == [sess[s] EXCEPT !.at = "ready", !.mine = mine, !.base = base]
    <3>1. /\ mine \in Table /\ base \in [Uuid -> Nat] /\ "ready" \in Place
          /\ sess[s] \in State /\ sess[s].kind = "heal"
      BY <1>9, <2>1, Facts DEF Place, Is
    <3>2. m = healed
      BY <2>1
    <3> HIDE DEF m, mine, base
    <3>3. /\ healed \in State /\ healed.at = "ready" /\ healed.kind = "heal"
          /\ healed.mine = mine /\ healed.base = base
      BY <3>1 DEF State
    <3> QED
      BY <3>2, <3>3 DEF mine, base
  <2>2. CASE ~Is(s, "heal")
    BY <2>2, RestingIsState
  <2> QED
    BY <2>1, <2>2
<1>11. sess' = [sess EXCEPT ![s] = m]
  <2>1. CASE Is(s, "heal")
    <3>1. sess' = [sess EXCEPT ![s].at = "ready", ![s].mine[u] = row, ![s].base[u] = writes[u] + 1]
      BY <1>1, <1>2, <2>1, Zenon DEF Upsert
    <3>2. sess \in [Session -> State] /\ sess[s] \in State
      BY Facts
    <3>3. m = [sess[s] EXCEPT !.at = "ready", !.mine = [sess[s].mine EXCEPT ![u] = row],
                              !.base = [sess[s].base EXCEPT ![u] = writes[u] + 1]]
      BY <2>1
    <3> HIDE DEF m
    <3> QED
      BY <3>1, <3>2, <3>3 DEF State
  <2>2. CASE ~Is(s, "heal")
    BY <2>2 DEF Upsert, End
  <2> QED
    BY <2>1, <2>2
<1> HIDE DEF m
<1>12. /\ sess' \in [Session -> State] /\ sess'[s] = m
       /\ \A t \in Session \ {s} : Kept(t) /\ sess'[t] = sess[t]
  BY <1>10, <1>11, SessFrame
<1>13. TypeOK'
  BY <1>3, <1>4, <1>5, <1>6, <1>7, <1>12 DEF IInv, TypeOK
<1>14. Steady(s)
  <2>1. LeavesWell(s)
    BY <1>1, <1>3, <1>5 DEF LeavesWell, Works, Writes
  <2>2. Importing => Importing'
    BY <1>3, <1>12 DEF Importing, At, Kept
  <2>3. \A v \in Uuid : writes'[v] = writes[v] =>
           db'[v] = db[v] /\ wanted'[v] = wanted[v] /\ (v \in broken => v \in broken')
    <3>1. \A v \in Uuid : writes'[v] = writes[v] => v # u
      BY <1>5, <1>8
    <3> QED
      BY <1>3, <1>6, <1>7, <3>1
  <2> QED
    BY <1>3, <1>5, <1>12, <2>1, <2>2, <2>3 DEF Steady
<1>15. Own(s)'
  <2>1. CASE m.at = "idle" /\ m.found = "none"
    BY <1>12, <2>1, OwnOfResting DEF Reading
  <2>2. CASE /\ m.at = "ready" /\ m.kind = "heal"
             /\ m.mine = [sess[s].mine EXCEPT ![u] = row]
             /\ m.base = [sess[s].base EXCEPT ![u] = writes[u] + 1]
    <3>1. ASSUME NEW v \in Uuid
          PROVE  m.base[v] <= writes'[v] /\ (m.base[v] = writes'[v] => m.mine[v] = db'[v])
      <4>1. CASE v = u
        <5>1. m.base[v] = writes'[v] /\ m.mine[v] = db'[v]
          BY <1>5, <1>6, <1>8, <2>2, <4>1 DEF Table
        <5> QED
          BY <1>5, <5>1
      <4>2. CASE v # u
        <5>1. m.base[v] = sess[s].base[v] /\ m.mine[v] = sess[s].mine[v]
          BY <1>8, <2>2, <4>2 DEF Table
        <5>2. writes'[v] = writes[v] /\ db'[v] = db[v]
          BY <1>5, <1>6, <4>2
        <5> QED
          BY <1>3, <5>1, <5>2, Facts DEF Loaded, Reading
      <4> QED
        BY <4>1, <4>2
    <3>2. Loaded(s)'
      BY <1>12, <3>1 DEF Loaded
    <3>3. OnlyReadersFind(s)'
      BY <1>12, <2>2 DEF OnlyReadersFind
    <3> QED
      BY <1>12, <2>2, <3>2, <3>3, OwnOfReady
  <2> QED
    BY <1>10, <2>1, <2>2
<1>16. EntryAwaitsRow(s)' /\ IconAwaitsRow(s)'
  BY <1>10, <1>12, NothingAwaits
<1>17. /\ sess[s].mine[u] # Nothing /\ row.path = sess[s].mine[u].path
       /\ row.entry = sess[s].mine[u].entry
       /\ ~Is(s, "edit") => row.arguments = sess[s].mine[u].arguments
       /\ ~Is(s, "source") => row.source = sess[s].mine[u].source
  BY <1>1, <1>2, <1>3, Facts DEF RowIsOfMine, Working
<1>18. ASSUME u \notin excused'
       PROVE  u \notin excused /\ sess[s].base[u] = writes[u] /\ sess[s].mine[u] = db[u]
  BY <1>3, <1>5, <1>18, Facts DEF Loaded, Reading
<1>19. OneRowPerFile'
  <2>1. \A v \in Rows(db)' \ excused' : v \in Rows(db) \ excused /\ db'[v].path = db[v].path
    BY <1>5, <1>6, <1>17, <1>18 DEF Rows
  <2> QED
    BY <2>1 DEF IInv, OneRowPerFile
<1>20. ASSUME u \notin excused' PROVE AsAsked(u)' /\ EntryFits(u)' /\ IconFits(u)'
  <2>1. u \notin excused /\ sess[s].base[u] = writes[u] /\ sess[s].mine[u] = db[u]
    BY <1>18, <1>20
  <2>2. AsAsked(u)
    BY <1>17, <2>1 DEF IInv, Agreed, NotYet
  <2>3. AsAsked(u)'
    <3>1. /\ wanted[u] # Nothing /\ db[u].arguments = wanted[u].arguments
          /\ db[u].source = wanted[u].source
      BY <1>17, <2>1, <2>2 DEF AsAsked
    <3>2. wanted'[u].arguments = row.arguments
      BY <1>7, <1>17, <2>1, <3>1
    <3>3. wanted'[u].source = row.source
      BY <1>7, <1>17, <2>1, <3>1
    <3> QED
      BY <1>4, <1>6, <1>7, <3>1, <3>2, <3>3 DEF AsAsked
  <2>4. Due(u)' = row
    BY <1>4, <1>6 DEF Due, NotYet
  <2>5. ASSUME u \notin broken' PROVE Counts(s)
    BY <1>1, <1>3, <1>4, <2>1, <2>5 DEF Counts
  <2>6. \A t \in Session \ {s} : /\ Writes(t, u) => Writes(t, u)'
                                 /\ Works(t, u) => Works(t, u)'
    BY <1>12 DEF Writes, Works, At, Of
  <2>7. EntryAwaitsRow(s) /\ IconAwaitsRow(s)
    BY Facts
  <2>8. EntryFits(u)'
    <3> SUFFICES ASSUME u \notin broken', row.entry, Ours(u)
                 PROVE  \/ entry[u].arguments = row.arguments
                        \/ \E t \in Session \ {s} : Writes(t, u)
      BY <1>3, <2>4, <2>6 DEF EntryFits, Ours
    <3> QED
      BY <1>1, <1>2, <1>3, <2>5, <2>7 DEF EntryAwaitsRow
  <2>9. IconFits(u)'
    <3> SUFFICES ASSUME u \notin broken', row.icon # "none"
                 PROVE  \/ <<u, row.icon>> \in icons
                        \/ \E t \in Session \ {s} : Works(t, u)
      BY <1>3, <2>4, <2>6 DEF IconFits
    <3> QED
      BY <1>1, <1>2, <1>3, <2>5, <2>7 DEF IconAwaitsRow
  <2> QED
    BY <2>3, <2>8, <2>9
<1>21. \A v \in Uuid : writes'[v] # writes[v] /\ v \notin excused' =>
         AsAsked(v)' /\ EntryFits(v)' /\ IconFits(v)'
  BY <1>5, <1>20
<1> QED
  BY <1>13, <1>14, <1>15, <1>16, <1>19, <1>21, StepFrame

(* The row of an adoption is of a file that no row had when it was looked  *)
(* up: a row written since is what excuses it.                             *)
LEMMA RegisterKeeps == ASSUME IInv, NEW s \in Session, Register(s) PROVE IInv'
<1>1. PICK u \in Uuid : u = Of(s)
  BY Facts
<1>2. PICK row \in Row : row = sess[s].row
  BY Facts
<1>3. /\ sess[s].at = "register" /\ At(s, "register") /\ db' = [db EXCEPT ![u] = row]
      /\ Wrote(s) /\ wanted' = [wanted EXCEPT ![u] = row]
      /\ UNCHANGED <<dbFile, file, entry, icons, outside, broken, calls, faults, user>>
  BY <1>1, <1>2 DEF Register, Asked, At
<1>4. db \in Table /\ wanted \in Table /\ row # Nothing
  BY NothingIsNoRow DEF IInv, TypeOK
<1>5. /\ writes' \in [Uuid -> Nat] /\ writes'[u] = writes[u] + 1
      /\ \A v \in Uuid : writes[v] <= writes'[v] /\ (writes'[v] # writes[v] => v = u)
      /\ excused \subseteq excused' /\ excused' \subseteq Uuid
      /\ u \notin excused' => ~Stale(s)
  BY <1>1, <1>3, WroteFrame
<1>6. /\ db' \in Table /\ db'[u] = row /\ \A v \in Uuid \ {u} : db'[v] = db[v]
      /\ wanted' \in Table /\ wanted'[u] = row /\ \A v \in Uuid \ {u} : wanted'[v] = wanted[v]
  BY <1>3, <1>4 DEF Table
<1> DEFINE mine == [sess[s].mine EXCEPT ![u] = row]
           base == [sess[s].base EXCEPT ![u] = writes[u] + 1]
           m == [sess[s] EXCEPT !.kind = "refresh", !.at = "inspect", !.mine = mine, !.base = base]
<1>7. sess[s].mine \in Table /\ sess[s].base \in [Uuid -> Nat] /\ writes[u] + 1 \in Nat
  BY <1>5, Facts, StateFields
<1>8. /\ mine \in Table /\ base \in [Uuid -> Nat] /\ mine[u] = row /\ base[u] = writes[u] + 1
      /\ \A v \in Uuid \ {u} : mine[v] = sess[s].mine[v] /\ base[v] = sess[s].base[v]
  BY <1>7 DEF Table
<1>9. sess' = [sess EXCEPT ![s] = m]
  <2>1. sess' = [sess EXCEPT ![s].kind = "refresh", ![s].at = "inspect",
                             ![s].mine[u] = row, ![s].base[u] = writes[u] + 1]
    BY <1>1, <1>2, Zenon DEF Register
  <2>2. sess \in [Session -> State] /\ sess[s] \in State
    BY Facts
  <2> QED
    BY <2>1, <2>2 DEF State
<1> HIDE DEF mine, base
<1>10. /\ m \in State /\ m.at = "inspect" /\ m.kind = "refresh" /\ m.mine = mine /\ m.base = base
       /\ m.uuid = u /\ m.row = row
  <2>1. /\ "inspect" \in Place /\ "refresh" \in Kind /\ sess[s] \in State
        /\ sess[s].uuid = u /\ sess[s].row = row
    BY <1>1, <1>2, Facts DEF Place, Kind, Of
  <2> QED
    BY <1>8, <2>1 DEF State
<1> HIDE DEF m
<1>11. /\ sess' \in [Session -> State] /\ sess'[s] = m
       /\ \A t \in Session \ {s} : Kept(t) /\ sess'[t] = sess[t]
  BY <1>9, <1>10, SessFrame
<1>12. TypeOK'
  BY <1>3, <1>5, <1>6, <1>11 DEF IInv, TypeOK
<1>13. \A v \in Uuid : writes'[v] = writes[v] => v # u
  BY <1>5, <1>7
<1>14. Steady(s)
  <2>1. LeavesWell(s)
    BY <1>3 DEF LeavesWell, Works, Writes, At
  <2>2. Importing => Importing'
    BY <1>3, <1>11 DEF Importing, At, Kept
  <2> QED
    BY <1>3, <1>5, <1>6, <1>11, <1>13, <2>1, <2>2 DEF Steady
<1>15. Own(s)'
  <2>1. ASSUME NEW v \in Uuid
        PROVE  base[v] <= writes'[v] /\ (base[v] = writes'[v] => mine[v] = db'[v])
    <3>1. CASE v = u
      BY <1>5, <1>6, <1>7, <1>8, <3>1
    <3>2. CASE v # u
      <4>1. writes'[v] = writes[v] /\ db'[v] = db[v]
        BY <1>5, <1>6, <3>2
      <4> QED
        BY <1>3, <1>8, <3>2, <4>1, Facts DEF Loaded, Reading
    <3> QED
      BY <3>1, <3>2
  <2>2. Loaded(s)'
    BY <1>10, <1>11, <2>1 DEF Loaded
  <2>3. OnlyReadersFind(s)' /\ RegisterIsNew(s)'
    BY <1>10, <1>11 DEF OnlyReadersFind, RegisterIsNew, At
  <2>4. RowIsOfMine(s)'
    BY <1>4, <1>8, <1>10, <1>11 DEF RowIsOfMine, Of
  <2> QED
    BY <2>2, <2>3, <2>4 DEF Own
<1>16. EntryAwaitsRow(s)' /\ IconAwaitsRow(s)'
  BY <1>10, <1>11, NothingAwaits
<1>17. /\ \A v \in Uuid : sess[s].mine[v] # Nothing => Canon[sess[s].mine[v].path] # Canon[row.path]
       /\ ~row.entry /\ row.icon = "none"
  BY <1>2, <1>3, Facts DEF RegisterIsNew
<1>18. ASSUME u \notin excused', NEW v \in Rows(db), v # u
       PROVE  Canon[db[v].path] # Canon[row.path]
  <2>1. v \in Uuid /\ db[v] # Nothing
    BY DEF Rows
  <2>2. Canon[db[v].path] = Canon[row.path] => sess[s].base[v] = writes[v]
    BY <1>2, <1>3, <1>5, <1>18 DEF Stale
  <2>3. sess[s].base[v] = writes[v] => sess[s].mine[v] = db[v]
    BY <1>3, <2>1, Facts DEF Loaded, Reading
  <2> QED
    BY <1>17, <2>1, <2>2, <2>3
<1>19. OneRowPerFile'
  <2>1. \A v \in Rows(db)' \ excused' :
          v = u \/ (v \in Rows(db) \ excused /\ v # u /\ db'[v] = db[v])
    BY <1>5, <1>6 DEF Rows
  <2> SUFFICES ASSUME NEW v \in Rows(db)' \ excused', NEW w \in Rows(db)' \ excused',
                      Canon[db'[v].path] = Canon[db'[w].path]
               PROVE  v = w
    BY DEF OneRowPerFile
  <2>2. CASE v # u /\ w # u
    BY <2>1, <2>2 DEF IInv, OneRowPerFile
  <2>3. CASE v = u /\ w # u
    BY <1>6, <1>18, <2>1, <2>3
  <2>4. CASE v # u /\ w = u
    BY <1>6, <1>18, <2>1, <2>4
  <2> QED
    BY <2>2, <2>3, <2>4
<1>20. AsAsked(u)' /\ EntryFits(u)' /\ IconFits(u)'
  BY <1>4, <1>6, <1>17 DEF AsAsked, EntryFits, IconFits, Due, NotYet
<1>21. \A v \in Uuid : writes'[v] # writes[v] => v = u
  BY <1>5
<1> QED
  BY <1>12, <1>14, <1>15, <1>16, <1>19, <1>20, <1>21, StepFrame

LEMMA UnregisterKeeps == ASSUME IInv, NEW s \in Session, Unregister(s) PROVE IInv'
<1>1. PICK u \in Uuid : u = Of(s)
  BY Facts
<1>2. /\ sess[s].at = "unregister" /\ db' = [db EXCEPT ![u] = Nothing]
      /\ Wrote(s) /\ wanted' = [wanted EXCEPT ![u] = Nothing]
      /\ sess' = [sess EXCEPT ![s] = Resting]
      /\ UNCHANGED <<dbFile, file, entry, icons, outside, broken, calls, faults, user>>
  BY <1>1 DEF Unregister, At, End
<1>3. db \in Table /\ wanted \in Table
  BY DEF IInv, TypeOK
<1>4. /\ writes' \in [Uuid -> Nat] /\ writes'[u] = writes[u] + 1
      /\ \A v \in Uuid : writes[v] <= writes'[v] /\ (writes'[v] # writes[v] => v = u)
      /\ excused \subseteq excused' /\ excused' \subseteq Uuid
  BY <1>1, <1>2, WroteFrame
<1>5. /\ db' \in Table /\ db'[u] = Nothing /\ \A v \in Uuid \ {u} : db'[v] = db[v]
      /\ wanted' \in Table /\ wanted'[u] = Nothing
      /\ \A v \in Uuid \ {u} : wanted'[v] = wanted[v]
  BY <1>2, <1>3 DEF Table
<1>6. /\ sess' \in [Session -> State] /\ sess'[s] = Resting
      /\ \A t \in Session \ {s} : Kept(t) /\ sess'[t] = sess[t]
  BY <1>2, RestingIsState, SessFrame
<1>7. TypeOK'
  BY <1>2, <1>4, <1>5, <1>6 DEF IInv, TypeOK
<1>8. writes[u] \in Nat
  BY DEF IInv, TypeOK
<1>9. \A v \in Uuid : writes'[v] = writes[v] => v # u
  BY <1>4, <1>8
<1>10. Steady(s)
  <2>1. LeavesWell(s)
    <3>1. writes'[u] # writes[u]
      BY <1>4, <1>8
    <3>2. \A v \in Uuid : Works(s, v) \/ Writes(s, v) => v = u
      BY <1>1 DEF Works, Writes
    <3> QED
      BY <3>1, <3>2 DEF LeavesWell
  <2>2. Importing => Importing'
    BY <1>2, <1>6 DEF Importing, At, Kept
  <2> QED
    BY <1>2, <1>4, <1>5, <1>6, <1>9, <2>1, <2>2 DEF Steady
<1>11. Own(s)'
  BY <1>6, RestingIsState, OwnOfResting DEF Reading
<1>12. EntryAwaitsRow(s)' /\ IconAwaitsRow(s)'
  BY <1>6, RestingIsState, NothingAwaits
<1>13. OneRowPerFile'
  <2>1. \A v \in Rows(db)' \ excused' : v \in Rows(db) \ excused /\ db'[v] = db[v]
    BY <1>4, <1>5 DEF Rows
  <2> QED
    BY <2>1 DEF IInv, OneRowPerFile
<1>14. AsAsked(u)' /\ EntryFits(u)' /\ IconFits(u)'
  BY <1>5 DEF AsAsked, EntryFits, IconFits, Due, NotYet
<1>15. \A v \in Uuid : writes'[v] # writes[v] => v = u
  BY <1>4
<1> QED
  BY <1>7, <1>10, <1>11, <1>12, <1>13, <1>14, <1>15, StepFrame

(* Putting back the table that was loaded writes every row: those that     *)
(* changed meanwhile are excused, the others stay what they are.           *)
LEMMA RestoreKeeps == ASSUME IInv, NEW s \in Session, Restore(s) PROVE IInv'
<1>1. /\ sess[s].at = "restore" /\ sess' = [sess EXCEPT ![s] = Resting]
      /\ UNCHANGED <<dbFile, file, entry, icons, outside, wanted, broken, calls, faults, user>>
  BY DEF Restore, At, End
<1>2. /\ sess' \in [Session -> State] /\ sess'[s] = Resting
      /\ \A t \in Session \ {s} : Kept(t) /\ sess'[t] = sess[t]
  BY <1>1, RestingIsState, SessFrame
<1>3. LeavesWell(s)
  BY <1>1 DEF LeavesWell, Works, Writes, At
<1>4. Importing => Importing'
  BY <1>1, <1>2 DEF Importing, At, Kept
<1>5. Own(s)' /\ EntryAwaitsRow(s)' /\ IconAwaitsRow(s)'
  BY <1>2, RestingIsState, OwnOfResting, NothingAwaits DEF Reading
<1>6. TypeOK /\ writes \in [Uuid -> Nat] /\ sess[s].mine \in Table
  BY Facts DEF TypeOK
<1>7. CASE /\ db' = Saved(sess[s].mine)
           /\ excused' = excused \cup {u \in Uuid : writes[u] # sess[s].base[u]}
           /\ writes' = [u \in Uuid |-> writes[u] + 1]
  <2>1. db' = sess[s].mine /\ db' \in Table
    BY <1>6, <1>7 DEF Saved
  <2>2. writes' \in [Uuid -> Nat] /\ \A u \in Uuid : writes'[u] = writes[u] + 1
    BY <1>6, <1>7
  <2>3. excused' \subseteq Uuid /\ excused \subseteq excused'
    BY <1>6, <1>7 DEF TypeOK
  <2>4. TypeOK'
    BY <1>1, <1>2, <1>6, <2>1, <2>2, <2>3 DEF TypeOK
  <2>5. \A u \in Uuid : writes'[u] # writes[u] /\ writes[u] <= writes'[u]
    BY <1>6, <2>2
  <2>6. Steady(s)
    BY <1>1, <1>2, <1>3, <1>4, <2>3, <2>5 DEF Steady
  <2>7. \A u \in Uuid : u \notin excused' => u \notin excused /\ db'[u] = db[u]
    BY <1>1, <1>7, <2>1, Facts DEF Loaded, Reading
  <2>8. OneRowPerFile'
    <3>1. \A v \in Rows(db)' \ excused' : v \in Rows(db) \ excused /\ db'[v] = db[v]
      BY <2>7 DEF Rows
    <3> QED
      BY <3>1 DEF IInv, OneRowPerFile
  <2>9. ASSUME NEW u \in Uuid, u \notin excused'
        PROVE  /\ AsAsked(u)' \/ (NotYet(u) /\ Importing)'
               /\ EntryFits(u)' /\ IconFits(u)'
    <3>1. u \notin excused /\ db'[u] = db[u] /\ wanted'[u] = wanted[u]
      BY <1>1, <2>7, <2>9
    <3>2. AsAsked(u)' \/ (NotYet(u) /\ Importing)'
      BY <1>4, <3>1 DEF IInv, Agreed, AsAsked, NotYet
    <3>3. Due(u)' = Due(u)
      BY <3>1 DEF Due, NotYet
    <3>4. \A t \in Session : /\ Writes(t, u) => Writes(t, u)'
                             /\ Works(t, u) => Works(t, u)'
      BY <1>1, <1>2 DEF Writes, Works, At, Of
    <3>5. EntryFits(u) /\ IconFits(u)
      BY DEF IInv
    <3>6. EntryFits(u)'
      BY <1>1, <3>1, <3>3, <3>4, <3>5 DEF EntryFits, Ours
    <3>7. IconFits(u)'
      BY <1>1, <3>1, <3>3, <3>4, <3>5 DEF IconFits
    <3> QED
      BY <3>2, <3>6, <3>7
  <2> QED
    BY <1>5, <2>4, <2>6, <2>8, <2>9, StepFrame
<1>8. CASE UNCHANGED <<db, excused, writes>>
  <2>1. TypeOK'
    BY <1>1, <1>2, <1>6, <1>8 DEF TypeOK
  <2>2. Steady(s)
    BY <1>1, <1>2, <1>3, <1>4, <1>6, <1>8 DEF Steady
  <2>3. OneRowPerFile'
    BY <1>8, SameTable
  <2> QED
    BY <1>5, <1>8, <2>1, <2>2, <2>3, StepFrame
<1> QED
  BY <1>7, <1>8 DEF Restore

LEMMA UnlinkKeeps == ASSUME IInv, NEW s \in Session, Unlink(s) PROVE IInv'
<1>1. PICK u \in Uuid : u = Of(s)
  BY Facts
<1>2. /\ sess[s].at = "unlink"
      /\ file' = [file EXCEPT ![Canon[sess[s].row.path]] = "absent"]
      /\ entry' = [entry EXCEPT ![u] = IF Ours(u) THEN Nothing ELSE @]
      /\ icons' = icons \ {<<u, sess[s].row.icon>>}
      /\ UNCHANGED <<dbFile, db, outside, history, calls, faults, user>>
  BY <1>1 DEF Unlink, At
<1> DEFINE m == [sess[s] EXCEPT !.at = "unregister"]
<1>3. /\ m \in State /\ m.at = "unregister" /\ m.uuid = u /\ m.row = sess[s].row
      /\ m.kind = sess[s].kind /\ m.mine = sess[s].mine /\ m.base = sess[s].base
      /\ m.found = sess[s].found
  BY <1>1, Facts DEF State, Place, Of
<1>4. sess' = [sess EXCEPT ![s] = m]
  BY Facts DEF Unlink, Go
<1> HIDE DEF m
<1>5. /\ sess' \in [Session -> State] /\ sess'[s] = m
      /\ \A t \in Session \ {s} : Kept(t) /\ sess'[t] = sess[t]
  BY <1>3, <1>4, SessFrame
<1>6. UNCHANGED <<dbFile, db, outside, wanted, excused, broken, writes, calls, faults, user>>
  BY <1>2 DEF history
<1>7. /\ entry' \in [Uuid -> Entry]
      /\ \A v \in Uuid : entry'[v] = entry[v] \/ entry'[v] = Nothing
  BY <1>2 DEF IInv, TypeOK, Entry
<1>8. file' \in [{Canon[p] : p \in Path} -> {"absent", "png", "svg", "plain", "bad"}]
  BY <1>2 DEF IInv, TypeOK
<1>9. TypeOK'
  BY <1>2, <1>5, <1>6, <1>7, <1>8 DEF IInv, TypeOK
<1>10. Steady(s)
  <2>1. LeavesWell(s)
    BY <1>2 DEF LeavesWell, Works, Writes, At
  <2>2. Importing => Importing'
    BY <1>2, <1>5, <1>6 DEF Importing, At, Kept
  <2>3. \A v \in Uuid : entry'[v] = entry[v] \/ ~Ours(v)'
    BY <1>7 DEF Ours
  <2>4. \A v \in Uuid, f \in Format : <<v, f>> \in icons => <<v, f>> \in icons' \/ Works(s, v)'
    BY <1>2, <1>3, <1>5 DEF Works, Of
  <2> QED
    BY <1>5, <1>6, <2>1, <2>2, <2>3, <2>4 DEF Steady, IInv, TypeOK
<1>11. Own(s)'
  <2>1. Loaded(s)'
    BY <1>2, <1>3, <1>5, <1>6, CopyStays DEF Reading
  <2>2. OnlyReadersFind(s)'
    BY <1>2, <1>3, <1>5, Facts DEF OnlyReadersFind
  <2>3. RowIsOfMine(s)' /\ RegisterIsNew(s)'
    BY <1>1, <1>2, <1>3, <1>5, Facts DEF RowIsOfMine, RegisterIsNew, Of, Is, At, Working
  <2> QED
    BY <2>1, <2>2, <2>3 DEF Own
<1>12. EntryAwaitsRow(s)' /\ IconAwaitsRow(s)'
  BY <1>3, <1>5, NothingAwaits
<1>13. OneRowPerFile'
  BY <1>6, SameTable
<1> QED
  BY <1>6, <1>9, <1>10, <1>11, <1>12, <1>13, StepFrame

-----------------------------------------------------------------------------
(* Steps that leave an app half written.                                   *)

LEMMA BreaksFrame ==
  ASSUME IInv, NEW s \in Session, NEW after \in State, Breaks(s, after), Spoil,
         UNCHANGED <<disk, outside, wanted, writes, calls, user>>,
         excused \subseteq excused', excused' \subseteq Uuid,
         sess[s].at = "import" => Legacy \in excused',
         after.at \notin {"verify", "entry", "upsert"}, sess'[s] = after => Own(s)'
  PROVE  IInv'
<1>1. UNCHANGED <<dbFile, db, file, entry, icons, outside, wanted, writes, calls, user>>
  BY DEF disk
<1>2. PICK u \in Uuid : u = Of(s)
  BY Facts
<1>3. broken' = broken \cup {u}
  BY <1>2 DEF Breaks
<1>4. sess' = [t \in Session |-> IF t = s THEN after ELSE [sess[t] EXCEPT !.saw = @ \ {u}]]
  BY <1>2 DEF Breaks
<1>5. sess'[s] = after
  BY <1>4
<1>6. ASSUME NEW t \in Session \ {s}
      PROVE  Kept(t) /\ u \notin sess'[t].saw /\ sess'[t] \in State
  <2>1. sess'[t] = [sess[t] EXCEPT !.saw = @ \ {u}] /\ sess[t] \in State
    BY <1>4, Facts
  <2>2. /\ sess'[t].at = sess[t].at /\ sess'[t].kind = sess[t].kind
        /\ sess'[t].uuid = sess[t].uuid /\ sess'[t].mine = sess[t].mine
        /\ sess'[t].base = sess[t].base /\ sess'[t].row = sess[t].row
        /\ sess'[t].found = sess[t].found /\ sess'[t].saw = sess[t].saw \ {u}
        /\ sess'[t] \in State
    BY <2>1 DEF State
  <2> QED
    BY <2>2 DEF Kept
<1>7. sess' \in [Session -> State]
  BY <1>4, <1>5, <1>6
<1>8. faults' \in Nat
  BY DEF Spoil, IInv, TypeOK
<1>9. TypeOK'
  BY <1>1, <1>3, <1>7, <1>8 DEF IInv, TypeOK
<1>10. LeavesWell(s)
  <2>1. \A v \in Uuid : Works(s, v) \/ Writes(s, v) => v = u
    BY <1>2 DEF Works, Writes
  <2> QED
    BY <1>3, <1>6, <2>1 DEF LeavesWell
<1>11. Importing => Importing' \/ Legacy \in excused'
  BY <1>1, <1>5, <1>6 DEF Importing, At, Kept
<1>12. Steady(s)
  BY <1>1, <1>3, <1>6, <1>10, <1>11 DEF Steady, IInv, TypeOK
<1>13. EntryAwaitsRow(s)' /\ IconAwaitsRow(s)'
  BY <1>5, NothingAwaits
<1>14. OneRowPerFile'
  BY <1>1, SameTable
<1> QED
  BY <1>1, <1>5, <1>9, <1>12, <1>13, <1>14, StepFrame

LEMMA WriteEntryFailsKeeps == ASSUME IInv, NEW s \in Session, WriteEntryFails(s) PROVE IInv'
<1>1. /\ sess[s].at = "entry" /\ Spoil /\ Breaks(s, Settled(s))
      /\ UNCHANGED <<disk, outside, wanted, excused, writes, calls, user>>
  BY DEF WriteEntryFails, At
<1>2. sess'[s] = Settled(s) => Own(s)'
  BY <1>1, OwnOfSettled DEF Reading, disk
<1>3. Settled(s) \in State /\ Settled(s).at \notin {"verify", "entry", "upsert"}
  BY SettledFields
<1>4. excused \subseteq excused' /\ excused' \subseteq Uuid
  BY <1>1 DEF IInv, TypeOK
<1> QED
  BY <1>1, <1>2, <1>3, <1>4, BreaksFrame

LEMMA WriteFailsKeeps == ASSUME IInv, NEW s \in Session, WriteFails(s) PROVE IInv'
<1>1. /\ sess[s].at \in {"upsert", "register"} /\ Spoil
      /\ UNCHANGED <<disk, outside, wanted, excused, writes, calls, user>>
  BY DEF WriteFails, At
<1>2. excused \subseteq excused' /\ excused' \subseteq Uuid
  BY <1>1 DEF IInv, TypeOK
<1>3. CASE ~Is(s, "source")
  <2>1. Breaks(s, Settled(s))
    BY <1>3 DEF WriteFails
  <2>2. sess'[s] = Settled(s) => Own(s)'
    BY <1>1, OwnOfSettled DEF Reading, disk
  <2>3. Settled(s) \in State /\ Settled(s).at \notin {"verify", "entry", "upsert"}
    BY SettledFields
  <2> QED
    BY <1>1, <1>2, <2>1, <2>2, <2>3, BreaksFrame
<1>4. CASE Is(s, "source")
  <2> DEFINE m == [sess[s] EXCEPT !.at = "restore"]
  <2>1. Breaks(s, m)
    BY <1>4 DEF WriteFails
  <2>2. /\ m \in State /\ m.at = "restore" /\ m.kind = sess[s].kind /\ m.found = sess[s].found
        /\ m.mine = sess[s].mine /\ m.base = sess[s].base
    BY Facts DEF State, Place
  <2> HIDE DEF m
  <2>3. ASSUME sess'[s] = m PROVE Own(s)'
    <3>1. Loaded(s)'
      BY <1>1, <2>2, <2>3, CopyStays DEF Reading, disk
    <3>2. OnlyReadersFind(s)'
      BY <1>1, <2>2, <2>3, Facts DEF OnlyReadersFind
    <3> QED
      BY <2>2, <2>3, <3>1, <3>2, OwnOfReady
  <2> QED
    BY <1>1, <1>2, <2>1, <2>2, <2>3, BreaksFrame
<1> QED
  BY <1>3, <1>4

LEMMA OwnOfRest == ASSUME NEW s \in Session, sess'[s] = Resting PROVE Own(s)'
  BY RestingIsState, OwnOfResting DEF Reading

LEMMA UnregisterFailsKeeps == ASSUME IInv, NEW s \in Session, UnregisterFails(s) PROVE IInv'
<1>1. /\ sess[s].at = "unregister" /\ Spoil /\ Breaks(s, Resting)
      /\ UNCHANGED <<disk, outside, wanted, excused, writes, calls, user>>
  BY DEF UnregisterFails, At
<1>2. excused \subseteq excused' /\ excused' \subseteq Uuid
  BY <1>1 DEF IInv, TypeOK
<1>3. sess'[s] = Resting => Own(s)'
  BY OwnOfRest
<1> QED
  BY <1>1, <1>2, <1>3, RestingIsState, BreaksFrame

LEMMA CrashKeeps == ASSUME IInv, NEW s \in Session, Crash(s) PROVE IInv'
<1>1. /\ Spoil /\ Breaks(s, Resting)
      /\ excused' = IF At(s, "import") THEN excused \cup {Legacy} ELSE excused
      /\ UNCHANGED <<disk, outside, wanted, writes, calls, user>>
  BY DEF Crash
<1>2. excused \subseteq excused' /\ excused' \subseteq Uuid
  BY <1>1, SessionsAssumption DEF IInv, TypeOK
<1>3. sess[s].at = "import" => Legacy \in excused'
  BY <1>1 DEF At
<1>4. sess'[s] = Resting => Own(s)'
  BY OwnOfRest
<1> QED
  BY <1>1, <1>2, <1>3, <1>4, RestingIsState, BreaksFrame

-----------------------------------------------------------------------------
(* What comes from outside spoils entries, and leaves the rest alone.      *)
LEMMA OutsideFrame ==
  ASSUME IInv, TypeOK', UNCHANGED <<dbFile, db, icons, sess, wanted, excused, broken, writes>>,
         \A u \in Uuid : entry'[u] = entry[u] \/ ~Ours(u)'
  PROVE  IInv'
<1>1. Agreed' /\ OneRowPerFile'
  BY DEF IInv, Agreed, AsAsked, NotYet, Importing, At, OneRowPerFile, Rows
<1>2. ASSUME NEW s \in Session PROVE Own(s)' /\ EntryAwaitsRow(s)' /\ IconAwaitsRow(s)'
  <2>1. Own(s) /\ EntryAwaitsRow(s) /\ IconAwaitsRow(s)
    BY DEF IInv
  <2>2. Own(s)'
    BY <2>1 DEF Own, Loaded, RowIsOfMine, OnlyReadersFind, RegisterIsNew, Of, Is, At
  <2>3. (Counts(s)' <=> Counts(s)) /\ Of(s)' = Of(s) /\ Of(s) \in Uuid
    BY Facts DEF Counts, Of
  <2>4. \A t \in Session, u \in Uuid : /\ Writes(t, u) => Writes(t, u)'
                                       /\ Works(t, u) => Works(t, u)'
    BY DEF Writes, Works, At, Of
  <2>5. EntryAwaitsRow(s)'
    <3> SUFFICES ASSUME At(s, "upsert"), Counts(s), sess[s].row.entry, Ours(Of(s))'
                 PROVE  \/ entry'[Of(s)].arguments = sess[s].row.arguments
                        \/ \E t \in Session \ {s} : Writes(t, Of(s))'
      BY <2>3 DEF EntryAwaitsRow, At
    <3>1. entry'[Of(s)] = entry[Of(s)] /\ Ours(Of(s))
      BY <2>3 DEF Ours
    <3> QED
      BY <2>1, <2>3, <2>4, <3>1 DEF EntryAwaitsRow
  <2>6. IconAwaitsRow(s)'
    <3> SUFFICES ASSUME sess[s].at \in {"verify", "entry", "upsert"}, Counts(s),
                        sess[s].row.icon # "none"
                 PROVE  \/ <<Of(s), sess[s].row.icon>> \in icons
                        \/ \E t \in Session \ {s} : Works(t, Of(s))'
      BY <2>3 DEF IconAwaitsRow
    <3> QED
      BY <2>1, <2>3, <2>4 DEF IconAwaitsRow
  <2> QED
    BY <2>2, <2>5, <2>6
<1>3. ASSUME NEW u \in Uuid PROVE EntryFits(u)' /\ IconFits(u)'
  <2>1. EntryFits(u) /\ IconFits(u)
    BY DEF IInv
  <2>2. Due(u)' = Due(u)
    BY DEF Due, NotYet
  <2>3. \A t \in Session : /\ Writes(t, u) => Writes(t, u)'
                           /\ Works(t, u) => Works(t, u)'
    BY DEF Writes, Works, At, Of
  <2>4. entry'[u] = entry[u] => (Ours(u)' <=> Ours(u))
    BY DEF Ours
  <2> QED
    BY <2>1, <2>2, <2>3, <2>4 DEF EntryFits, IconFits
<1> QED
  BY <1>1, <1>2, <1>3 DEF IInv

LEMMA UserActsKeeps == ASSUME IInv, UserActs PROVE IInv'
<1>1. /\ user' = user + 1
      /\ UNCHANGED <<dbFile, db, icons, outside, sess, wanted, excused, broken, writes, calls, faults>>
  BY DEF UserActs, history
<1>2. TypeOK /\ user' \in Nat
  BY <1>1 DEF IInv, TypeOK
<1>3. CASE /\ \E p \in DOMAIN file, c \in {"svg", "plain", "bad"} : file' = [file EXCEPT ![p] = c]
           /\ UNCHANGED entry
  <2>1. file' \in [{Canon[p] : p \in Path} -> {"absent", "png", "svg", "plain", "bad"}]
    BY <1>2, <1>3 DEF TypeOK
  <2>2. TypeOK'
    BY <1>1, <1>2, <1>3, <2>1 DEF TypeOK
  <2> QED
    BY <1>1, <1>3, <2>2, OutsideFrame
<1>4. CASE /\ \E u \in Uuid : entry' = [entry EXCEPT ![u] = Foreign]
           /\ UNCHANGED file
  <2>1. /\ entry' \in [Uuid -> Entry]
        /\ \A u \in Uuid : entry'[u] = entry[u] \/ entry'[u] = Foreign
    BY <1>2, <1>4 DEF TypeOK, Entry
  <2>2. TypeOK'
    BY <1>1, <1>2, <1>4, <2>1 DEF TypeOK
  <2>3. \A u \in Uuid : entry'[u] = entry[u] \/ ~Ours(u)'
    BY <2>1 DEF Ours
  <2> QED
    BY <1>1, <2>2, <2>3, OutsideFrame
<1> QED
  BY <1>3, <1>4 DEF UserActs

-----------------------------------------------------------------------------
LEMMA IInvInit == Init => IInv
<1> SUFFICES ASSUME Init PROVE IInv
  OBVIOUS
<1>1. /\ LegacyRow \in Row /\ LegacyRow # Nothing /\ Legacy \in Uuid
      /\ LegacyRow.arguments = 0 /\ LegacyRow.icon = "png" /\ LegacyRow.entry = TRUE
  BY NothingIsNoRow, SessionsAssumption DEF LegacyRow
<1>2. Empty \in Table /\ Imported \in Table
  BY <1>1 DEF Empty, Imported, Table
<1>3. /\ Imported[Legacy] = LegacyRow
      /\ \A u \in Uuid : Empty[u] = Nothing /\ (u # Legacy => Imported[u] = Nothing)
  BY <1>1 DEF Imported, Empty
<1>4. db \in Table /\ (dbFile => db = Imported) /\ (~dbFile => db = Empty) /\ wanted = Imported
  BY <1>2 DEF Init
<1>5. sess = [s \in Session |-> Resting] /\ \A s \in Session : sess[s] = Resting
  BY DEF Init
<1>6. /\ Body(LegacyRow) \in Entry /\ Body(LegacyRow).arguments = 0
  BY <1>1, RowFields DEF Body, Entry
<1>7. /\ entry \in [Uuid -> Entry] /\ entry[Legacy] = Body(LegacyRow)
  BY <1>1, <1>6 DEF Init, Empty, Entry
<1>8. TypeOK
  <2>1. file \in [{Canon[p] : p \in Path} -> {"absent", "png", "svg", "plain", "bad"}]
    BY DEF Init
  <2>2. sess \in [Session -> State]
    BY <1>5, RestingIsState
  <2>3. icons \subseteq Uuid \X Format /\ broken \subseteq Uuid
    BY <1>1 DEF Init, Format
  <2>4. writes \in [Uuid -> Nat] /\ calls = 0 /\ faults = 0 /\ user = 0 /\ excused = {}
    BY DEF Init
  <2>5. dbFile \in BOOLEAN /\ outside \in BOOLEAN
    BY DEF Init
  <2> QED
    BY <1>2, <1>4, <1>7, <2>1, <2>2, <2>3, <2>4, <2>5 DEF TypeOK
<1>9. Agreed
  BY <1>1, <1>3, <1>4 DEF Agreed, AsAsked, NotYet, Importing
<1>10. OneRowPerFile
  BY <1>3, <1>4 DEF OneRowPerFile, Rows
<1>11. ASSUME NEW s \in Session PROVE Own(s) /\ EntryAwaitsRow(s) /\ IconAwaitsRow(s)
  <2>1. sess[s].at = "idle" /\ sess[s].found = "none"
    BY <1>5, RestingIsState
  <2> QED
    BY <2>1 DEF Own, Loaded, RowIsOfMine, OnlyReadersFind, RegisterIsNew, EntryAwaitsRow,
                IconAwaitsRow, At, Reading, Working
<1>12. ASSUME NEW u \in Uuid PROVE EntryFits(u) /\ IconFits(u)
  <2>1. Due(u) = Imported[u]
    BY <1>1, <1>3, <1>4 DEF Due, NotYet
  <2>2. CASE u = Legacy
    <3>1. EntryFits(u)
      BY <1>1, <1>3, <1>6, <1>7, <2>1, <2>2 DEF EntryFits
    <3>2. Legacy \notin broken => <<Legacy, "png">> \in icons
      BY DEF Init
    <3> QED
      BY <1>1, <1>3, <2>1, <2>2, <3>1, <3>2 DEF IconFits
  <2>3. CASE u # Legacy
    BY <1>3, <2>1, <2>3 DEF EntryFits, IconFits
  <2> QED
    BY <2>2, <2>3
<1> QED
  BY <1>8, <1>9, <1>10, <1>11, <1>12 DEF IInv

LEMMA IInvStep == IInv /\ [Next]_vars => IInv'
<1> SUFFICES ASSUME IInv, [Next]_vars PROVE IInv'
  OBVIOUS
<1>1. CASE UNCHANGED vars
  <2>1. UNCHANGED <<dbFile, db, file, entry, icons, outside, sess, wanted, excused, broken, writes,
                    calls, faults, user>>
    BY <1>1 DEF vars, disk, history
  <2>2. TypeOK'
    BY <2>1 DEF IInv, TypeOK
  <2> QED
    BY <2>1, <2>2, OutsideFrame
<1>2. CASE UserActs
  BY <1>2, UserActsKeeps
<1>3. ASSUME NEW s \in Session, SessionStep(s) PROVE IInv'
  <2>1. CASE Begin(s) \/ Connect(s) \/ ImportSave(s) \/ Load(s)
    BY <2>1, BeginKeeps, ConnectKeeps, ImportSaveKeeps, LoadKeeps
  <2>2. CASE PickEdit(s) \/ PickSource(s) \/ PickRefresh(s) \/ PickHeal(s)
    BY <2>2, PickEditKeeps, PickSourceKeeps, PickRefreshKeeps, PickHealKeeps
  <2>3. CASE PickRemove(s) \/ PickAdopt(s) \/ Refuse(s)
    BY <2>3, PickRemoveKeeps, PickAdoptKeeps, RefuseKeeps
  <2>4. CASE InspectFails(s) \/ Inspect(s) \/ Reopen(s) \/ SyncIcon(s) \/ SyncIconFails(s)
    BY <2>4, InspectFailsKeeps, InspectKeeps, ReopenKeeps, SyncIconKeeps, SyncIconFailsKeeps
  <2>5. CASE VerifyEntry(s) \/ WriteEntry(s) \/ WriteEntryFails(s)
    BY <2>5, VerifyEntryKeeps, WriteEntryKeeps, WriteEntryFailsKeeps
  <2>6. CASE Upsert(s) \/ Register(s) \/ WriteFails(s) \/ Restore(s)
    BY <2>6, UpsertKeeps, RegisterKeeps, WriteFailsKeeps, RestoreKeeps
  <2>7. CASE Unlink(s) \/ Unregister(s) \/ UnregisterFails(s) \/ Crash(s)
    BY <2>7, UnlinkKeeps, UnregisterKeeps, UnregisterFailsKeeps, CrashKeeps
  <2> QED
    BY <1>3, <2>1, <2>2, <2>3, <2>4, <2>5, <2>6, <2>7 DEF SessionStep
<1> QED
  BY <1>1, <1>2, <1>3 DEF Next

LEMMA Invariance == Spec => []IInv
<1> QED
  BY IInvInit, IInvStep, PTL DEF Spec

(* Every variable has its type.                                            *)
THEOREM TypeCorrect == Spec => []TypeOK
<1>1. IInv => TypeOK
  BY DEF IInv
<1> QED
  BY <1>1, Invariance, PTL

(* Outside the first import, the table holds what successful calls asked   *)
(* for, unless a call wrote a row that had changed since it was loaded.    *)
THEOREM TableAsAsked == Spec => []TableIsWhatWasAsked
<1>1. IInv => TableIsWhatWasAsked
  BY DEF IInv, Agreed, AsAsked, Importing, TableIsWhatWasAsked
<1> QED
  BY <1>1, Invariance, PTL

(* However many adoptions there are, a file has one row, unless two        *)
(* adoptions of it overlapped.                                             *)
THEOREM OneRow == Spec => []OneRowPerFile
<1>1. IInv => OneRowPerFile
  BY DEF IInv
<1> QED
  BY <1>1, Invariance, PTL

LEMMA DueIsRow == ASSUME NEW u \in Uuid, db[u] # Nothing PROVE Due(u) = db[u]
  BY DEF Due, NotYet

(* Between calls the menu entry of an app has the arguments of its row.    *)
THEOREM EntryFollows == Spec => []EntryFollowsRow
<1>1. IInv => EntryFollowsRow
  <2> SUFFICES ASSUME IInv, Quiet, NEW u \in Rows(db) \ (excused \cup broken), db[u].entry, Ours(u)
               PROVE  entry[u].arguments = db[u].arguments
    BY DEF EntryFollowsRow
  <2>1. u \in Uuid /\ db[u] # Nothing
    BY DEF Rows
  <2>2. \A t \in Session : ~Writes(t, u)
    BY DEF Quiet, Writes, At
  <2>3. EntryFits(u)
    BY <2>1 DEF IInv
  <2> QED
    BY <2>1, <2>2, <2>3, DueIsRow DEF EntryFits
<1> QED
  BY <1>1, Invariance, PTL

(* Between calls the icon file that a row names is there.                  *)
THEOREM IconThere == Spec => []NamedIconIsThere
<1>1. IInv => NamedIconIsThere
  <2> SUFFICES ASSUME IInv, Quiet, NEW u \in Rows(db) \ (excused \cup broken), db[u].icon # "none"
               PROVE  <<u, db[u].icon>> \in icons
    BY DEF NamedIconIsThere
  <2>1. u \in Uuid /\ db[u] # Nothing
    BY DEF Rows
  <2>2. \A t \in Session : ~Works(t, u)
    BY DEF Quiet, Works, At
  <2>3. IconFits(u)
    BY <2>1 DEF IInv
  <2> QED
    BY <2>1, <2>2, <2>3, DueIsRow DEF IconFits
<1> QED
  BY <1>1, Invariance, PTL
===============================================================================
