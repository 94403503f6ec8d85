------------------------------- MODULE Store -------------------------------
(***************************************************************************)
(* What the store's ports promise their callers, whichever engine serves   *)
(* them: one atomic change per operation, and no trace of an engine's      *)
(* statements, sequences, processes or crashes.                            *)
(***************************************************************************)
EXTENDS Naturals, FiniteSets, FiniteSetsExt

VARIABLES
  task,       \* the task's row: [agent, goal], or Unwritten
  agents,     \* [id -> is it soft-deleted]
  inbox,      \* [id -> status]
  said,       \* [turn -> the seqs of its messages]
  reply,      \* [turn -> the seq of its reply, 0 before it]
  plans,      \* [plan -> [planned, ran]]
  contract    \* [idx -> criterion]

storeVars == <<task, agents, inbox, said, reply, plans, contract>>

Unwritten == [agent |-> 0, goal |-> ""]
NoKeys == [i \in {} |-> 0]

Init ==
  /\ task = Unwritten /\ agents = NoKeys /\ inbox = NoKeys /\ said = NoKeys
  /\ reply = NoKeys /\ plans = NoKeys /\ contract = NoKeys

Grown(f, k, v) == [i \in DOMAIN f \cup {k} |-> IF i = k THEN v ELSE f[i]]

\* UpsertTask: what the task is and whose it is may change, never be lost.
UpsertTask ==
  /\ task'.agent # 0 \/ task.agent = 0
  /\ task'.goal # "" \/ task.goal = ""
  /\ UNCHANGED <<agents, inbox, said, reply, plans, contract>>

\* UpsertAgent of a new agent hands out an id nobody was given.
NewAgent ==
  /\ \E id \in DOMAIN agents' : id \notin DOMAIN agents /\ agents' = Grown(agents, id, FALSE)
  /\ UNCHANGED <<task, inbox, said, reply, plans, contract>>

\* UpsertAgent and SoftDeleteAgent of a known agent.
SetDeleted ==
  /\ \E id \in DOMAIN agents : agents' = [agents EXCEPT ![id] = ~@]
  /\ UNCHANGED <<task, inbox, said, reply, plans, contract>>

\* EnqueueMessage: the id, which is the place in the queue, is nobody else's.
EnqueueMessage ==
  /\ \E id \in DOMAIN inbox' : id \notin DOMAIN inbox /\ inbox' = Grown(inbox, id, "queued")
  /\ UNCHANGED <<task, agents, said, reply, plans, contract>>

\* ClaimNextMessage, FinishAgentMessage
Moves(from, to) ==
  /\ \E i \in DOMAIN inbox : inbox[i] = from /\ inbox' = [inbox EXCEPT ![i] = to]
  /\ UNCHANGED <<task, agents, said, reply, plans, contract>>

\* RequeueMessage, RequeueRunningMessages
Requeue ==
  /\ \E is \in SUBSET {i \in DOMAIN inbox : inbox[i] = "running"} :
       inbox' = [i \in DOMAIN inbox |-> IF i \in is THEN "queued" ELSE inbox[i]]
  /\ UNCHANGED <<task, agents, said, reply, plans, contract>>

\* BeginReasonTurn and InsertReasonTurn: a run is never without its input.
BeginTurn ==
  /\ \E t \in DOMAIN said' \ DOMAIN said, whole \in BOOLEAN :
       /\ said' = Grown(said, t, IF whole THEN {0, 1} ELSE {0})
       /\ reply' = Grown(reply, t, IF whole THEN 1 ELSE 0)
  /\ UNCHANGED <<task, agents, inbox, plans, contract>>

\* AppendLLMMessages, and FinishReasonTurn before its reply: more is said.
Say ==
  /\ \E t \in DOMAIN said : /\ reply[t] = 0 /\ said[t] \subseteq said'[t]
                            /\ said' = [said EXCEPT ![t] = said'[t]]
  /\ UNCHANGED <<task, agents, inbox, reply, plans, contract>>

\* FinishReasonTurn: the reply is given once, and is the last word.
Reply ==
  /\ \E t \in DOMAIN said :
       LET s == Max(said[t]) + 1
       IN reply[t] = 0 /\ reply' = [reply EXCEPT ![t] = s] /\ said' = [said EXCEPT ![t] = @ \cup {s}]
  /\ UNCHANGED <<task, agents, inbox, plans, contract>>

\* CreateExecutionPlan
Plan ==
  /\ \E p \in DOMAIN plans' \ DOMAIN plans : plans' = Grown(plans, p, [planned |-> 0, ran |-> 0])
  /\ UNCHANGED <<task, agents, inbox, said, reply, contract>>

\* AppendExecutionStepPlans: in full, before any of them ran, once.
PlanSteps ==
  /\ \E p \in DOMAIN plans : /\ plans[p].planned = 0 /\ plans[p].ran = 0
                             /\ plans' = [plans EXCEPT ![p].planned = plans'[p].planned]
  /\ UNCHANGED <<task, agents, inbox, said, reply, contract>>

\* AppendExecutionStep
RanStep ==
  /\ \E p \in DOMAIN plans : plans[p].ran < plans[p].planned /\ plans' = [plans EXCEPT ![p].ran = @ + 1]
  /\ UNCHANGED <<task, agents, inbox, said, reply, contract>>

\* AppendCompletionContract: the first row of an idx is the one kept.
PinCriterion ==
  /\ \E i \in DOMAIN contract' \ DOMAIN contract : contract' = Grown(contract, i, contract'[i])
  /\ UNCHANGED <<task, agents, inbox, said, reply, plans>>

Next ==
  \/ UpsertTask \/ NewAgent \/ SetDeleted \/ EnqueueMessage \/ Moves("queued", "running")
  \/ \E s \in {"done", "failed", "stopped"} : Moves("running", s)
  \/ Requeue \/ BeginTurn \/ Say \/ Reply \/ Plan \/ PlanSteps \/ RanStep \/ PinCriterion

Spec == Init /\ [][Next]_storeVars
=============================================================================
