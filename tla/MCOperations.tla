---------------------------- MODULE MCOperations ----------------------------
(* Three operations, two at a time, over a history of one task: the limit  *)
(* is reached by running, cancelled and finished tasks alike.              *)
EXTENDS Operations

CONSTANTS o1, o2, o3

MCOp3 == {o1, o2, o3}
=============================================================================
