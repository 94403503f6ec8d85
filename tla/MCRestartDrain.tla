--------------------------- MODULE MCRestartDrain ---------------------------
(***************************************************************************)
(* Instances of RestartDrain for TLC.                                      *)
(***************************************************************************)
EXTENDS RestartDrain
=============================================================================
