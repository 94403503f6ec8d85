------------------------------ MODULE MCWorld ------------------------------
(***************************************************************************)
(* Instances of World for TLC: one object, two tasks that watch it.    *)
(***************************************************************************)
EXTENDS World

CONSTANTS other

MCKeys == (Objects \X {"updated", "closed", "merged", "succeeded", "failed"}) \cup {<<other, "fact">>}
MCCallers == Loops \cup {Feed, Http}
=============================================================================
