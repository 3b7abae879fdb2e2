----------------------------- MODULE MCLaunching -----------------------------
(* Small instance of Launching for TLC. *)
EXTENDS Launching
=============================================================================
