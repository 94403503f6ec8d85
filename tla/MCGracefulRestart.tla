------------------------ MODULE MCGracefulRestart ------------------------
(***************************************************************************)
(* Instances of GracefulRestart for TLC.                                   *)
(***************************************************************************)
EXTENDS GracefulRestart, TLC

\* Tasks are interchangeable.
TaskSymmetry == Permutations(Tasks)
=============================================================================
