------------------------------ MODULE MCInbox ------------------------------
(***************************************************************************)
(* Instances of Inbox for TLC: a planner that receives instructions and    *)
(* the worker its runs delegate to.                                        *)
(***************************************************************************)
EXTENDS InboxRefinement, TLC

\* Goroutines are interchangeable.
ProcSymmetry == Permutations(Procs)
=============================================================================
