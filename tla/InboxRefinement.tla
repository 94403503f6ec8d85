-------------------------- MODULE InboxRefinement --------------------------
(***************************************************************************)
(* The inbox implements AgentQueue: the rows are the queue, and goroutines,*)
(* flags, generations, holds and crashes are how it is kept.               *)
(***************************************************************************)
EXTENDS Inbox

Queue == INSTANCE AgentQueue

\* Whatever goroutines, holds, stops and process deaths do, the rows behave as the
\* queue docs/inbox.md promises (with every store statement succeeding).
ImplementsQueue == Queue!Spec
=============================================================================
