---------------------------- MODULE MCLocalQueue ----------------------------
(***************************************************************************)
(* Instance of LocalQueue for TLC; the bounds are given by the .cfg files. *)
(***************************************************************************)
EXTENDS LocalQueue
=============================================================================
