------------------------------ MODULE MCFrontEnd ------------------------------
(* Two files, three operations and two clicks on Cancel.                   *)
EXTENDS FrontEnd

MCFile == {"f", "g"}
=============================================================================
