---------------------------- MODULE MCPreferences ----------------------------
(* Two calls of any processes under way at once. *)
EXTENDS Preferences, TLC

CONSTANTS c1, c2

MCCaller == {c1, c2}
MCSymmetry == Permutations(MCCaller)
=============================================================================
