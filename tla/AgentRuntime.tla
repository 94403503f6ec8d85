---------------------------- MODULE AgentRuntime ----------------------------
(***************************************************************************)
(* Which account of the pool an agent bills (agent_runtime.go,             *)
(* agent_account.go, worker_account.go).  The pool is a function from      *)
(* account to [enabled, default, root]; every account is of the harness    *)
(* under test, and the model and the credentials are labels that no        *)
(* property tells apart.                                                   *)
(***************************************************************************)
EXTENDS FiniteSets, FiniteSetsExt, Naturals

CONSTANTS Accounts,     \* the pool's entries, in the order the store lists them
          NoAccount

\* The accounts of a harness that may be billed at all.
Enabled(pool) == {a \in Accounts : pool[a].enabled}

\* The pool's own order: the default account, else the first enabled one.
DefaultAccount(pool) ==
  LET marked == {a \in Enabled(pool) : pool[a].default}
  IN IF Enabled(pool) = {} THEN NoAccount
     ELSE Min(IF marked = {} THEN Enabled(pool) ELSE marked)

\* mutant: an account that was recorded is passed over when it is disabled
RunsElsewhere(acct, inherited, pool) ==
  IF acct \in Enabled(pool) THEN acct
  ELSE IF inherited # NoAccount THEN inherited ELSE DefaultAccount(pool)

\* The account an agent bills: the one it recorded or a refusal, the one of the
\* agent that delegated, the pool's.  NoAccount is the refusal.
accountForAgent(acct, inherited, pool) ==
  IF acct # NoAccount
    THEN IF acct \in Enabled(pool) THEN acct ELSE NoAccount
    ELSE IF inherited # NoAccount THEN inherited ELSE DefaultAccount(pool)

\* applyAgentRuntime and adoptAccount: the agent bills that account and works
\* in its own directory under the account's root.
AdoptAccount(agent, acct, pool) ==
  [agent EXCEPT !.acct = acct, !.dir = pool[acct].root]
=============================================================================
