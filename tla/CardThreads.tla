---------------------------- MODULE CardThreads ----------------------------
(* The threads that use the attributes and debug files of a card. *)
CONSTANT Thread
=============================================================================
