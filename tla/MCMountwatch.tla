---------------------------- MODULE MCMountwatch ----------------------------
(* The home directory and two cards. *)
EXTENDS MountwatchSystem

MCBlocks == {1}
=============================================================================
