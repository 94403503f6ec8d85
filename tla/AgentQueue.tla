----------------------------- MODULE AgentQueue -----------------------------
(***************************************************************************)
(* What the inbox promises its callers (docs/inbox.md): an agent works on  *)
(* one message at a time, in the order they arrived; a message that was    *)
(* begun and not ended (its process died, a restart held it back) is begun *)
(* again before anything behind it; and what has ended stays as it ended.  *)
(***************************************************************************)
EXTENDS Naturals

CONSTANTS Agents, NoAgent, MaxMsg

VARIABLES
  status,      \* [Ids -> ...]: how far each message is
  to           \* [Ids -> Agents]: whose it is

vars == <<status, to>>
Ids == 1..MaxMsg
Ends == {"done", "failed", "stopped"}

Init ==
  /\ status = [i \in Ids |-> "absent"]
  /\ to = [i \in Ids |-> NoAgent]

\* A message arrives, behind every other.
Arrive(i, a) ==
  /\ status[i] = "absent"
  /\ \A j \in Ids : j < i => status[j] # "absent"
  /\ status' = [status EXCEPT ![i] = "queued"]
  /\ to' = [to EXCEPT ![i] = a]

\* Its agent begins it: everything of that agent in front of it has ended.
Begin(i) ==
  /\ status[i] = "queued"
  /\ \A j \in Ids : j < i /\ to[j] = to[i] => status[j] \in Ends
  /\ \A j \in Ids : to[j] = to[i] => status[j] # "running"
  /\ status' = [status EXCEPT ![i] = "running"]
  /\ UNCHANGED to

End(i, e) ==
  /\ status[i] = "running"
  /\ status' = [status EXCEPT ![i] = e]
  /\ UNCHANGED to

\* It was begun for nothing, and is the agent's next message again.
Return(i) ==
  /\ status[i] = "running"
  /\ status' = [status EXCEPT ![i] = "queued"]
  /\ UNCHANGED to

Next == \E i \in Ids :
  \/ \E a \in Agents : Arrive(i, a)
  \/ Begin(i)
  \/ \E e \in Ends : End(i, e)
  \/ Return(i)

Spec == Init /\ [][Next]_vars
=============================================================================
