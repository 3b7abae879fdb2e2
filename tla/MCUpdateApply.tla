---------------------------- MODULE MCUpdateApply ----------------------------
(* A small instance of UpdateApply for TLC: a 1.0 that is installed, a 2.0 *)
(* and a rebuild of 2.0, and a 2.0 for another architecture.               *)
EXTENDS UpdateApply

CONSTANTS v1, v2, v2rebuilt, v2foreign

MCContent    == {v1, v2, v2rebuilt, v2foreign}
MCVersion    == {10, 20}
MCVersionOf  == [c \in MCContent |-> IF c = v1 THEN 10 ELSE 20]
MCArchOf     == [c \in MCContent |-> IF c = v2foreign THEN "i686" ELSE "x86_64"]
MCSupported  == {"x86_64", "i686"}
MCSupersedes == {p \in MCVersion \X MCVersion : p[1] > p[2]}
MCAttempt2   == 1..2
=============================================================================
