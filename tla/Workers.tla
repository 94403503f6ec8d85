------------------------------ MODULE Workers ------------------------------
(***************************************************************************)
(* The agents of a process: the planner a task is paired with              *)
(* (agent.go, agent_resume.go, api_service.go), the workers its steps       *)
(* borrow (runtime.go), and the session each of them speaks on             *)
(* (LLMSession), billed as AgentRuntime decides.  A request is one          *)
(* POST /api/tasks; a loan is one LLMSession wrapper a capability acquired  *)
(* through the broker, on a goroutine of its own.                          *)
(***************************************************************************)
EXTENDS AgentRuntime, LLMSession, TLC

CONSTANTS
  Requests, Loans,      \* accepted requests and acquisitions, one use each
  MaxAgents,            \* agent rows the store may hand out
  Nameable, Editable,   \* the accounts a request may name and a person may edit
  Deployed,             \* the harnesses a deployment may be on
  OneShot,              \* whether a capability may ask for a throwaway worker
  MaxFaults,            \* edits of the pool and restarts, together
  MaxInit               \* agents initialised before any task

ASSUME WorkersAssumption ==
  /\ MaxAgents \in Nat /\ MaxConvs \in Nat
  /\ Accounts \subseteq Nat /\ NoAccount \notin Accounts /\ Editable \subseteq Accounts
  /\ IsFiniteSet(Dirs) /\ {"default", "r1", "r2"} \subseteq Dirs /\ NoDir \notin Dirs
  /\ Deployed \subseteq Harnesses /\ OneShot \subseteq BOOLEAN
  /\ Requests \intersect Loans = {} /\ {"none", "own"} \intersect (Requests \union Loans) = {}

VARIABLES
  harness,    \* the harness every account of this deployment is of
  agents,     \* agent handles by id; "on" says the factory holds it
  rows,       \* the agents table
  pairing,    \* tasks.agent_id of the one task
  pool,       \* the accounts table
  reqs,       \* request -> [pc, acct, agent]
  loans,      \* loan -> [pc, agent, round]; agent is 0 once it was released
  work,       \* agent -> what its inbox consumer is at
  drain,      \* agents whose consumer ended and has yet to say so
  told, used, convs,    \* the provider's conversations
  faults,
  named, hist \* what the properties remember

vars == <<harness, agents, rows, pairing, pool, reqs, loans, work, drain, told, used, convs, faults, named, hist>>
provider == <<told, used, convs>>
bounds == <<harness, faults>>

Ids == 1 .. MaxAgents
Nobody == [for |-> "none", sess |-> "none", step |-> "none"]
NoHist == [rounds |-> [i \in Ids |-> {}], twice |-> {}, shared |-> {}, untold |-> {}, stray |-> {}, had |-> {},
           old |-> 0]   \* the conversations an earlier process opened are 1 .. old

NoAgent == [on |-> FALSE, role |-> "none", eph |-> FALSE, running |-> FALSE, bound |-> FALSE,
            acct |-> NoAccount, dir |-> "default", sid |-> 0, round |-> 0, session |-> "none",
            at |-> NewSession.at, cur |-> NewSession.cur, frame |-> NewSession.frame, words |-> NewSession.words]
NewAgent(role, eph, bound) ==
  [NoAgent EXCEPT !.on = TRUE, !.role = role, !.eph = eph, !.bound = bound]

\* restoredAgent: what a row gives back.  The account it recorded is not part of it.
RestoredAgent(row) == [NewAgent("planner", FALSE, TRUE) EXCEPT !.sid = row.sid]

Init ==
  /\ harness \in Deployed
  /\ agents = [i \in Ids |-> NoAgent]
  /\ rows = [i \in Ids |-> [kept |-> "none", acct |-> NoAccount, sid |-> 0]]
  /\ pairing = 0
  /\ pool = [a \in Accounts |-> [enabled |-> TRUE, default |-> a = Max(Accounts), root |-> "r1"]]
  /\ reqs = [q \in Requests |-> [pc |-> "new", acct |-> NoAccount, agent |-> 0]]
  /\ loans = [l \in Loans |-> [pc |-> "new", agent |-> 0, round |-> 0]]
  /\ work = [i \in Ids |-> Nobody]
  /\ drain = {} /\ told = {} /\ used = {} /\ convs = 0
  /\ faults = 0 /\ named = NoAccount /\ hist = NoHist

Planners == {i \in Ids : agents[i].on /\ agents[i].role = "planner"}
ForTask == {i \in Planners : agents[i].bound}
ForInitialization == {i \in Planners : ~agents[i].bound}
\* delegatingAgent: a planner whose cycle has spoken to its session.
Delegating == {i \in ForTask : agents[i].cur # NoDir}
Unused == {i \in Ids : rows[i].kept = "none"}
OnLoan(i) == {l \in Loans : loans[l].agent = i}

\* UpsertAgent: the row is what the handle holds, and a deleted row lives again.
Row(ag) == [kept |-> "live", acct |-> ag.acct, sid |-> ag.sid]
Deleted(ag) == [Row(ag) EXCEPT !.kept = "deleted"]
Write(i, ag) == agents' = [agents EXCEPT ![i] = ag] /\ rows' = [rows EXCEPT ![i] = Row(ag)]

-----------------------------------------------------------------------------
(* The planner: accept, resume, run *)

\* An agent initialised before its task: bound to nothing, told nothing yet. (The
\* first prompt InitializeAgent may give it has no caller in the program, and is
\* given again by the turn that needs it when it fails.)
Initialize ==
  /\ Cardinality(ForInitialization) < MaxInit /\ Unused # {} /\ pairing = 0
  /\ Write(Min(Unused), NewAgent("planner", FALSE, FALSE))
  /\ UNCHANGED <<pairing, pool, reqs, loans, work, drain, provider, bounds, named, hist>>

\* mutant: a task whose agent was let go by a restart gets another one
MemoryOnly == IF ForTask # {} THEN ForTask ELSE IF ForInitialization # {} THEN ForInitialization ELSE {0}

\* The agents a request may resolve to, 0 for one still to be made: the one the
\* factory holds, the one the task's row names, one waiting for its task.
StoredOrHeld ==
  IF ForTask # {} THEN ForTask
  ELSE IF pairing # 0 /\ rows[pairing].kept = "live" THEN {pairing}
  ELSE IF ForInitialization # {} THEN ForInitialization
  ELSE {0}

\* resumeAgentForTask up to its answer. The account a request names is checked first.
Lookup(q, a) ==
  /\ reqs[q].pc = "new" /\ a \in Enabled(pool) \union {NoAccount}
  /\ \E i \in StoredOrHeld : reqs' = [reqs EXCEPT ![q] = [pc |-> "found", acct |-> a, agent |-> i]]
  /\ UNCHANGED <<agents, rows, pairing, pool, loans, work, drain, provider, bounds, named, hist>>

\* applyAccount
Named(ag, a) == IF a = NoAccount \/ ag.acct = a THEN ag ELSE AdoptAccount(ag, a, pool)

\* The rest of the accept: the agent is made, adopted or bound, the task's row
\* names it, the account is applied and the instruction is queued.
Pair(q) ==
  LET r == reqs[q]
      i == IF r.agent = 0 THEN Min(Unused) ELSE r.agent
      ag == IF r.agent = 0 THEN NewAgent("planner", FALSE, TRUE)
            ELSE IF agents[i].on THEN [agents[i] EXCEPT !.bound = TRUE]
            ELSE RestoredAgent(rows[i])
  IN /\ r.pc = "found" /\ (r.agent = 0 => Unused # {})
     /\ agents' = [agents EXCEPT ![i] = Named(ag, r.acct)]
     /\ rows' = [rows EXCEPT ![i] =
          IF r.agent = 0 \/ (agents[i].on /\ ~agents[i].bound) \/ Named(ag, r.acct) # ag
            THEN Row(Named(ag, r.acct)) ELSE @]
     /\ pairing' = IF r.agent = 0 \/ ~agents[i].on \/ ~agents[i].bound THEN i ELSE pairing
     /\ reqs' = [reqs EXCEPT ![q].pc = "queued", ![q].agent = i]
     /\ named' = IF r.acct = NoAccount THEN named ELSE r.acct
     /\ hist' = [hist EXCEPT !.had = @ \union ({r.acct} \ {NoAccount})]
     /\ UNCHANGED <<pool, loans, work, drain, provider, bounds>>

\* A consumer takes a message of agent i: Say first sees whether the frame is due.
Busy(i, for, sess) ==
  work' = [work EXCEPT ![i] = [for |-> for, sess |-> sess,
                               step |-> IF agents[i].frame THEN "turn" ELSE "frame"]]

\* processInstruction: the run belongs to this agent, whoever the row named.
Instruct(q) ==
  LET i == reqs[q].agent IN
  /\ reqs[q].pc = "queued" /\ work[i] = Nobody
  /\ Busy(i, q, "own")
  /\ Write(i, [agents[i] EXCEPT !.running = TRUE, !.session = "own"])
  /\ pairing' = i
  /\ reqs' = [reqs EXCEPT ![q].pc = "running"]
  /\ UNCHANGED <<pool, loans, drain, provider, bounds, named, hist>>

-----------------------------------------------------------------------------
(* Turns *)

\* A message was answered: its sender goes on, and the consumer of an agent
\* with nothing more to read ends.
Answered(i, for) ==
  /\ work' = [work EXCEPT ![i] = Nobody]
  /\ reqs' = [q \in Requests |-> IF q = for THEN [reqs[q] EXCEPT !.pc = "done"] ELSE reqs[q]]
  /\ drain' = IF \E q \in Requests : reqs[q].pc = "queued" /\ reqs[q].agent = i
                THEN drain ELSE drain \union {i}

WithRound(s, n, for) ==
  loans' = [l \in Loans |->
              LET ln == IF l = for THEN [loans[l] EXCEPT !.pc = "answered"] ELSE loans[l]
              IN IF l = s THEN [ln EXCEPT !.round = n] ELSE ln]

\* The wrapper a turn runs on has been handed back meanwhile.
Gone(w) == w.sess \in Loans /\ loans[w.sess].agent = 0

\* ensureLLMSession: the account of the turn, the agent under it.
BilledTo(i) == accountForAgent(agents[i].acct, NoAccount, pool)

\* A turn that cannot run at all: the wrapper is gone or nothing may be billed.
Refused(i) ==
  /\ work[i] # Nobody /\ (Gone(work[i]) \/ BilledTo(i) = NoAccount)
  /\ Answered(i, work[i].for) /\ WithRound("none", 0, work[i].for)
  /\ UNCHANGED <<agents, rows, pairing, pool, provider, bounds, named, hist>>

\* GiveFirstPrompt. A Cline session is told at its creation; one that was open
\* before the words existed gets them as a turn, like every other harness.
GiveFirstPrompt(i) ==
  LET w == work[i]
      a == BilledTo(i)
      ag == AdoptAccount([agents[i] EXCEPT !.words = TRUE], a, pool)
      prev == ProviderSession(agents[i])
  IN /\ w.step = "frame" /\ ~Gone(w) /\ a # NoAccount
     /\ \E att \in Attach(harness, ag, told, used, convs) :
          /\ convs' = att.n
          /\ \/ /\ harness = "cline" /\ att.conv # prev
                /\ told' = att.told /\ used' = used
                /\ Write(i, markLLMFrameSent(TRUE, att.ag))
                /\ work' = [work EXCEPT ![i].step = "turn"]
                /\ UNCHANGED <<reqs, drain, loans>>
             \/ /\ harness # "cline" \/ att.conv = prev
                /\ used' = used \union {att.conv}
                /\ \E ok \in BOOLEAN :
                     /\ told' = IF ok /\ Keeps(harness, ag) THEN att.told \union {att.conv} ELSE att.told
                     /\ Write(i, markLLMFrameSent(ok, Record(harness, att.ag, att.conv)))
                     /\ IF ok
                          THEN work' = [work EXCEPT ![i].step = "turn"] /\ UNCHANGED <<reqs, drain, loans>>
                          ELSE Answered(i, w.for) /\ WithRound("none", 0, w.for)
     /\ hist' = [hist EXCEPT !.had = IF ag.role = "planner" THEN @ \union {a} ELSE @]
     /\ UNCHANGED <<pairing, pool, bounds, named>>

\* turn: one prompt, tried again while it is cut off; well or badly, it is answered.
Turn(i) ==
  LET w == work[i]
      a == BilledTo(i)
      ag == AdoptAccount(agents[i], a, pool)
      own == w.sess \in Loans
      from == IF own THEN loans[w.sess].round ELSE 0
  IN /\ w.step = "turn" /\ ~Gone(w) /\ a # NoAccount
     /\ \E att \in Attach(harness, ag, told, used, convs), n \in Tries(harness) :
          LET to == beginTurn(from, FALSE, n)
              new == IF own THEN (from + 1) .. to ELSE {}
          IN /\ convs' = att.n /\ told' = att.told /\ used' = used \union {att.conv}
             /\ Write(i, Record(harness, att.ag, att.conv))
             /\ Answered(i, w.for) /\ WithRound(w.sess, to, w.for)
             /\ hist' = [hist EXCEPT
                  !.rounds[i] = @ \union new,
                  !.twice = IF new \intersect hist.rounds[i] # {} THEN @ \union {i} ELSE @,
                  !.untold = IF att.conv \in att.told THEN @ ELSE @ \union {i},
                  !.had = IF ag.role = "planner" THEN @ \union {a} ELSE @,
                  !.stray = IF ag.role = "planner" /\ named # NoAccount /\ a # named THEN @ \union {i} ELSE @]
     /\ UNCHANGED <<pairing, pool, bounds, named>>

\* drainedAgent: the consumer says that it ended, in its own time.
Drained(i) ==
  /\ i \in drain /\ drain' = drain \ {i}
  /\ Write(i, [agents[i] EXCEPT !.running = FALSE])
  /\ UNCHANGED <<pairing, pool, reqs, loans, work, provider, bounds, named, hist>>

-----------------------------------------------------------------------------
(* Loans *)

\* idleWorker: the kept workers of this task and purpose that are not running.
IdleWorker == {i \in Ids : agents[i].on /\ agents[i].role = "worker" /\ ~agents[i].eph /\ ~agents[i].running}

\* The first half of AcquireAgent: is there a worker to come back to?
Acquire(l, eph) ==
  /\ loans[l].pc = "new" /\ Delegating # {}
  /\ loans' = [loans EXCEPT ![l].pc = IF eph THEN "ephemeral"
                                      ELSE IF IdleWorker = {} THEN "register" ELSE "lend",
                            ![l].agent = IF eph \/ IdleWorker = {} THEN 0 ELSE Min(IdleWorker)]
  /\ UNCHANGED <<agents, rows, pairing, pool, reqs, work, drain, provider, bounds, named, hist>>

Fails(l) == loans' = [loans EXCEPT ![l] = [@ EXCEPT !.pc = "done", !.agent = 0]]

\* workerSession: the wrapper goes on with the worker's own round count.
Lent(l, ag) == [pc |-> "open", agent |-> loans[l].agent, round |-> ag.round]

\* mutant: the worker keeps speaking on the session of its first loan
StaysOn(l, i) == agents[i].session

\* The session a lent worker speaks on from now: the newest wrapper.
SpeaksOn(l, i) == l

\* lendWorker, workerSession
LendWorker(l) ==
  LET i == loans[l].agent
      a == BilledTo(i)
      ag == AdoptAccount(agents[i], a, pool)
  IN /\ loans[l].pc = "lend"
     /\ \/ a = NoAccount /\ Fails(l) /\ UNCHANGED <<agents, rows, hist>>
        \/ /\ a # NoAccount
           /\ Write(i, [ag EXCEPT !.running = TRUE, !.session = SpeaksOn(l, i)])
           /\ loans' = [loans EXCEPT ![l] = Lent(l, ag)]
           /\ hist' = [hist EXCEPT !.shared =
                IF \E k \in OnLoan(i) \ {l} : loans[k].pc # "lend" THEN @ \union {i} ELSE @]
     /\ UNCHANGED <<pairing, pool, reqs, work, drain, provider, bounds, named>>

\* A new worker bills what the agent that delegates to it bills.
Inherited(p) ==
  LET from == BilledTo(p)
  IN IF from = NoAccount THEN NoAccount ELSE accountForAgent(NoAccount, from, pool)

\* registerWorker: a worker that nothing may be billed for, or whose session
\* does not open, leaves a deleted row.
RegisterWorker(l) ==
  /\ loans[l].pc \in {"register", "ephemeral"} /\ Unused # {}
  /\ LET i == Min(Unused)
         new == NewAgent("worker", loans[l].pc = "ephemeral", TRUE)
         Never == /\ rows' = [rows EXCEPT ![i] = Deleted(new)] /\ Fails(l)
                  /\ UNCHANGED <<agents, provider, hist>>
     IN \E p \in Delegating :
          \/ Never
          \/ /\ Inherited(p) # NoAccount
             /\ \E att \in Attach(harness, AdoptAccount(new, Inherited(p), pool), told, used, convs) :
                  /\ Write(i, [att.ag EXCEPT !.running = TRUE, !.session = l])
                  /\ loans' = [loans EXCEPT ![l] = [pc |-> "open", agent |-> i, round |-> 0]]
                  /\ told' = att.told /\ convs' = att.n /\ UNCHANGED <<used, hist>>
  /\ UNCHANGED <<pairing, pool, reqs, work, drain, bounds, named>>

\* Prompt: the capability's words go through the worker's inbox, and are spoken
\* on whatever session the worker has when they are read.
Prompt(l) ==
  LET i == loans[l].agent IN
  /\ loans[l].pc = "open" /\ work[i] = Nobody
  /\ loans' = [loans EXCEPT ![l].pc = "asked"]
  /\ Busy(i, l, agents[i].session)
  /\ UNCHANGED <<agents, rows, pairing, pool, reqs, drain, provider, bounds, named, hist>>

\* mutant: a parked worker forgets how many turns it took
Forgets(ag, round) == [ag EXCEPT !.running = FALSE]

\* A kept worker is parked, idle, with its session.
Parked(ag, round) == [ag EXCEPT !.running = FALSE, !.round = round]

\* Release; a one-shot worker is closed with it.
Release(l) ==
  LET i == loans[l].agent
      ag == agents[i]
  IN /\ loans[l].pc = "answered"
     /\ IF ag.eph
          THEN /\ agents' = [agents EXCEPT ![i] = [ag EXCEPT !.on = FALSE, !.running = FALSE, !.at = NewSession.at, !.cur = NoDir]]
               /\ rows' = [rows EXCEPT ![i] = Deleted(ag)]
          ELSE Write(i, Parked(ag, loans[l].round))
     /\ loans' = [loans EXCEPT ![l] = [@ EXCEPT !.pc = "done", !.agent = 0]]
     /\ UNCHANGED <<pairing, pool, reqs, work, drain, provider, bounds, named, hist>>

-----------------------------------------------------------------------------
(* The accounts page, and the process *)

\* EditAccount: another workspace root, or the entry enabled or disabled.
EditAccount(a) ==
  /\ faults < MaxFaults /\ faults' = faults + 1
  /\ \/ pool' = [pool EXCEPT ![a].root = IF @ = "r1" THEN "r2" ELSE "r1"]
     \/ pool' = [pool EXCEPT ![a].enabled = ~@]
  /\ UNCHANGED <<harness, agents, rows, pairing, reqs, loans, work, drain, provider, named, hist>>

\* The process ends, well or badly: every handle, loan and consumer is gone.
Restart ==
  /\ faults < MaxFaults /\ faults' = faults + 1
  /\ agents' = [i \in Ids |-> NoAgent]
  /\ reqs' = [q \in Requests |-> IF reqs[q].pc = "new" THEN reqs[q] ELSE [reqs[q] EXCEPT !.pc = "done"]]
  /\ loans' = [l \in Loans |-> IF loans[l].pc = "new" THEN loans[l]
                               ELSE [pc |-> "done", agent |-> 0, round |-> 0]]
  /\ work' = [i \in Ids |-> Nobody] /\ drain' = {}
  /\ named' = NoAccount /\ hist' = [NoHist EXCEPT !.old = convs]
  /\ UNCHANGED <<harness, rows, pairing, pool, provider>>

Next ==
  \/ Initialize \/ Restart
  \/ \E q \in Requests, a \in Nameable \union {NoAccount} : Lookup(q, a)
  \/ \E q \in Requests : Pair(q) \/ Instruct(q)
  \/ \E i \in Ids : Refused(i) \/ GiveFirstPrompt(i) \/ Turn(i) \/ Drained(i)
  \/ \E l \in Loans, eph \in OneShot : Acquire(l, eph)
  \/ \E l \in Loans : LendWorker(l) \/ RegisterWorker(l) \/ Prompt(l) \/ Release(l)
  \/ \E a \in Editable : EditAccount(a)

Spec == Init /\ [][Next]_vars
-----------------------------------------------------------------------------
(* Properties *)

\* The types of the variables.
TypeOK ==
  /\ harness \in Harnesses /\ pairing \in 0 .. MaxAgents
  /\ \A i \in Ids :
       /\ agents[i].role \in {"none", "planner", "worker"}
       /\ agents[i].acct \in Accounts \union {NoAccount}
       /\ agents[i].dir \in Dirs /\ agents[i].cur \in Dirs \union {NoDir}
       /\ agents[i].session \in Loans \union {"none", "own"}
       /\ rows[i].kept \in {"none", "live", "deleted"} /\ rows[i].sid \in 0 .. MaxConvs
       /\ work[i].step \in {"none", "frame", "turn"}
  /\ \A q \in Requests : reqs[q].pc \in {"new", "found", "queued", "running", "done"}
  /\ \A l \in Loans : loans[l].agent \in 0 .. MaxAgents
  /\ told \subseteq 1 .. MaxConvs /\ used \subseteq 1 .. MaxConvs /\ drain \subseteq Ids

\* The directories an agent has sessions in.
Places(i) == {d \in Dirs : agents[i].at[d] # 0}

\* A conversation that was never told who the agent is gets a prompt only when
\* the agent's directory moved under a session that had been told
\* (llm_session.go: GiveFirstPrompt looks before the session is opened), when
\* the session is a one-shot Claude run, which keeps no conversation, or when it
\* is a Cursor session of a process before this one, which attach takes to have
\* been told (cursor.go: SetFrameSent(resumed)) although the process that opened
\* it may have died in its frame turn.
FrameBeforeWords ==
  \A i \in hist.untold :
     \/ Cardinality(Places(i)) > 1 \/ agents[i].eph
     \/ harness = "cursor" /\ \E d \in Dirs : agents[i].at[d] \in 1 .. hist.old

\* A worker never records two turns under one number, over all its loans, unless
\* it was lent to two steps at once (runtime.go: "continuing that worker's own
\* round count").
RoundsFresh == hist.twice \subseteq hist.shared

\* What a capability asks is spoken on the session it was lent, unless the
\* worker was lent to two steps at once (autonomy.go: processMessage speaks on
\* Agent.Session, the newest loan).
SpokenOnItsLoan ==
  \A i \in Ids : work[i].for \in Loans /\ work[i].for # work[i].sess => i \in hist.shared

\* While a process lives, the planner of a task bills the account the task's
\* last request to name one named, unless two first requests made two planners;
\* and a worker bills an account its task was on (agent_runtime.go: "a task that
\* named an account must not bill another").
TaskBillsNamed ==
  /\ hist.stray # {} => Cardinality(ForTask) > 1
  /\ \A i \in Ids : agents[i].on /\ agents[i].role = "worker" => agents[i].acct \in hist.had

\* The agent a task is paired with is replaced only when two first requests made
\* two planners: neither a restart nor a later request gives a task another one
\* (agent_resume.go).
PairingKept ==
  [][pairing # 0 /\ pairing' # pairing => Cardinality(ForTask) > 1 \/ Cardinality(ForTask') > 1]_vars

\* agent.go: "a worker still running is already on loan to another step", which
\* idleWorker reads as its converse.
LoanedIsRunning ==
  \A l \in Loans : loans[l].pc \in {"open", "asked", "answered"} => agents[loans[l].agent].running

\* api_service.go: the account a request named is "recorded on the agent row, so
\* the choice survives a restart".
AccountSurvivesRestart ==
  [][\A i \in Ids : rows[i].acct # NoAccount
       /\ (\A q \in Requests : reqs[q].acct \in {rows[i].acct, NoAccount})
       => rows'[i].acct = rows[i].acct]_vars

\* llm_session.go: "an agent is told who it is before it is told what to do".
FrameFirst == hist.untold = {}

\* cursor.go: "A resumed session already holds the reasoning frame from its
\* earlier turns".
ResumedWasTold ==
  \A i \in Ids : harness = "cursor" /\ agents[i].cur # NoDir /\ agents[i].frame
                 => Handle(harness, agents[i]) \in told

\* agent.go: "an ephemeral one is deleted (soft-deleted in the store, dropped
\* from the factory) because nothing is meant to come back to it".
DeletedStays ==
  [][\A i \in Ids : rows[i].kept = "deleted" => rows'[i].kept = "deleted"]_vars

\* agent_resume.go: a later instruction for the same task finds the same agent.
OnePlanner == Cardinality(ForTask) <= 1
=============================================================================
