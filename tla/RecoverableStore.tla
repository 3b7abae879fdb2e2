-------------------------- MODULE RecoverableStore --------------------------
(***************************************************************************)
(* What the update pipeline promises about files, without its steps: the   *)
(* registry names one file by its hash, the disk holds some files, and a   *)
(* file that was on disk when the registry came to name it is not given up *)
(* before the registry names another one that is on disk.                  *)
(***************************************************************************)
CONSTANT Content

VARIABLES
  committed,  \* the content the registry names (any value when it names none)
  held,       \* contents that are on disk in full
  intact      \* the named content has been on disk since it was named

Init ==
  /\ held \subseteq Content
  /\ intact => committed \in held

(* Files come and go, except the one the registry names.                   *)
Store ==
  /\ held' \subseteq Content
  /\ intact => committed \in held'
  /\ UNCHANGED <<committed, intact>>

(* The registry is brought to a file that is on disk.                      *)
Commit ==
  /\ committed' \in held
  /\ intact' = TRUE
  /\ UNCHANGED held

Next == Store \/ Commit

Spec == Init /\ [][Next]_<<committed, held, intact>>

(* The registry never names a file that the program has given up.          *)
NothingLost == intact => committed \in held
=============================================================================
