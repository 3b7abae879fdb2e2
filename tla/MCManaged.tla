------------------------------ MODULE MCManaged ------------------------------
(* One app installed under the wanted name, an AppImage with an icon and   *)
(* one without that have the same file name, and room for two siblings.    *)
EXTENDS ManagedSystem

CONSTANTS a, b, old, new1, new2, p1, p2

MCPath     == 0..2
MCContent  == {a, b}
MCHasIcon  == {a}
MCUuid     == {old, new1, new2}
MCProc1    == {p1}
MCProc2    == {p1, p2}
=============================================================================
