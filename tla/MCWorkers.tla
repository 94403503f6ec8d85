----------------------------- MODULE MCWorkers -----------------------------
(***************************************************************************)
(* Small instances of Workers, the agents and their loans on a harness     *)
(* that keeps the conversation, and of DeepseekTurn, one agent on the      *)
(* harness that keeps its own. An agent is on one of them, so their        *)
(* behaviours are alternatives.                                            *)
(***************************************************************************)
EXTENDS Workers, DeepseekTurn

CONSTANTS q1, q2, l1, l2

VARIABLE native

MCDirs == {"default", "r1", "r2"}
MCAccounts == 1 .. 2
MCRequests == {q1, q2}
MCLoans == {l1, l2}
MCSym == Permutations(MCRequests) \union Permutations(MCLoans)
MCCalls == {<<>>, <<[tool |-> "write_file", limit |-> 0], [tool |-> "run_shell", limit |-> 2]>>}

MCVars == <<native, vars, deepseekVars>>

\* The side that is not looked at has one initial state.
MCInit == /\ native \in BOOLEAN /\ Init /\ DeepseekInit
          /\ native => harness = CHOOSE h \in Deployed : TRUE
          /\ ~native => ephemeral /\ place = CHOOSE w \in Workspaces : TRUE

MCNext == \/ ~native /\ Next /\ UNCHANGED <<native, deepseekVars>>
          \/ native /\ DeepseekNext /\ UNCHANGED <<native, vars>>

MCSpec == MCInit /\ [][MCNext]_MCVars
============================================================================
