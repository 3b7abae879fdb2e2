----------------------------- MODULE MCSessions -----------------------------
(* One app of version 2, registered under a symbolic link in the managed   *)
(* folder, a second file outside it, and room for one adoption.            *)
EXTENDS Sessions, TLC

CONSTANTS old, new, real, link, other, s1, s2

MCUuid    == {old, new}
MCPath    == {real, link, other}
MCCanon   == [p \in MCPath |-> IF p = link THEN real ELSE p]
MCOutside == {other}
MCSession == {s1, s2}
MCSymmetry == Permutations(MCSession)
=============================================================================
