------------------------------ MODULE MCStore ------------------------------
(***************************************************************************)
(* A small instance of the store. A process is started on one engine       *)
(* (store_engine.go), so the behaviours of the two are alternatives: the   *)
(* ports on sqlite, or the ports on postgres with the trace of a run and   *)
(* a follower. Each has its own bounds.                                    *)
(***************************************************************************)
EXTENDS LLMTrace

CONSTANTS c1, c2, LiteTurns, LiteStream, LiteHarnesses

VARIABLE engine

Sqlite == INSTANCE SqliteStore WITH
  MaxTurns <- LiteTurns, MaxStream <- LiteStream, Harnesses <- LiteHarnesses

MCClients == {c1, c2}
MCSym == Permutations(MCClients)
MCEvents == {[ch |-> "thought", text |-> "x"], [ch |-> "tool", call |-> "k", result |-> <<"y">>]}
MCPorts == {"task", "agent", "inbox", "conversation", "execution", "verification", "account"}

MCVars == <<traceVars, engine>>

MCInit == /\ TraceInit /\ engine \in {"sqlite", "postgres"}
          /\ engine = "sqlite" => ~reader

MCNext == \/ engine = "sqlite" /\ Sqlite!Next /\ UNCHANGED <<engine, reader, replica, trace, lost>>
          \/ engine = "postgres" /\ TraceNext /\ UNCHANGED engine

MCSpec == MCInit /\ [][MCNext]_MCVars

\* Two reads of one thing agree, whichever rows they take it from and whatever
\* was written since the last page: the pages of a list tile it, counts and
\* facets match the walk, one account is the default; and a follower's answers
\* agree with each other.
EveryReadAgrees ==
  /\ engine = "sqlite" => Sqlite!PagesTile /\ Sqlite!ReadsAgree /\ OneDefault
  /\ engine = "postgres" => FollowerAgrees
=============================================================================
