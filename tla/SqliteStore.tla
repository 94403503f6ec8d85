---------------------------- MODULE SqliteStore ----------------------------
(***************************************************************************)
(* The sqlite engine. A statement or a transaction commits atomically and  *)
(* writers queue behind one another (busy_timeout); an operation of        *)
(* several statements is several steps, and other clients - goroutines, or *)
(* a second process on the same file - run between them. Reads are         *)
(* operators over the tables.                                              *)
(***************************************************************************)
EXTENDS StoreTables

\* AUTOINCREMENT: past the recorded sequence and past every stored id.
NextId(d, table) == 1 + Max({d.seq[table], Highest(d[table])})

Insert(d, table, row) ==
  LET id == NextId(d, table) IN [d EXCEPT ![table] = Put(@, id, row), !.seq[table] = id]

-----------------------------------------------------------------------------
(* Opening: ensureIDSequence reads the highest id, deletes the sequence's  *)
(* row and writes it again, while another process may be inserting.        *)

\* llm_messages' sequence is kept the same way.
Table == IF port = "agent" THEN "agents" ELSE "inbox"
Base == IF port = "agent" THEN AgentIDBase ELSE MessageIDBase

Floor(d, table) == Max({Base - 1, Highest(d[table])})

OpenRead(c) ==
  /\ port \in {"agent", "inbox"} /\ ~Busy(c) /\ faults > 0
  /\ call' = [call EXCEPT ![c] = [op |-> "open", seq |-> Floor(db, Table)]]
  /\ Same(db)

OpenDelete(c) ==
  /\ Inside(c, "open")
  /\ db' = [db EXCEPT !.seq[Table] = 0]
  /\ call' = [call EXCEPT ![c].op = "opened"] /\ Same(<<>>)

\* A row another process inserted meanwhile has recorded its own.
OpenInsert(c) ==
  /\ Inside(c, "opened")
  /\ db' = [db EXCEPT !.seq[Table] = IF @ = 0 THEN call[c].seq ELSE @]
  /\ call' = [call EXCEPT ![c] = Idle] /\ Same(<<>>)

Open(c) == OpenRead(c) \/ OpenDelete(c) \/ OpenInsert(c)

-----------------------------------------------------------------------------
(* TaskStore and AgentStore *)

\* mutant: a write that names no agent takes the pairing away
TakesAll(d, w) == [d EXCEPT !.tasks = Put(@, "t", w)]

\* goal_type and agent_id that say nothing leave what is stored.
UpsertTask(d, w) ==
  LET old == d.tasks["t"]
      kept == [w EXCEPT !.agent = IF @ = 0 THEN old.agent ELSE @,
                        !.goal = IF @ = "" THEN old.goal ELSE @]
  IN [d EXCEPT !.tasks = Put(@, "t", IF "t" \in DOMAIN @ THEN kept ELSE w)]

GetTask(d) == d.tasks["t"]
ListTasks(d) == {GetTask(d) : t \in DOMAIN d.tasks}

\* A new agent's row is inserted nameless; the second statement names it.
UpsertNewAgent(c) ==
  /\ Enter(c, "agent") /\ Cardinality(DOMAIN db.agents) < MaxRows
  /\ db' = Insert(db, "agents", [named |-> FALSE, deleted |-> FALSE])
  /\ call' = [call EXCEPT ![c] = [op |-> "name", id |-> NextId(db, "agents")]] /\ Same(<<>>)

NameAgent(c) ==
  /\ Inside(c, "name")
  /\ db' = [db EXCEPT !.agents[call[c].id].named = TRUE]
  /\ call' = [call EXCEPT ![c] = Idle] /\ Same(<<>>)

\* A known agent: every column is written, deleted_at cleared.
UpsertAgent(d, a) == [d EXCEPT !.agents[a].deleted = FALSE]

SoftDeleteAgent(d, a) == [d EXCEPT !.agents[a].deleted = TRUE]

\* The rows GetAgent and ListAgents read: soft-deleted ones included.
ListAgents(d) == DOMAIN d.agents

TaskStep(c) == \E w \in TaskRow : Does(c, "task", UpsertTask(db, w))

AgentStep(c) ==
  \/ UpsertNewAgent(c) \/ NameAgent(c)
  \/ \E a \in {b \in ListAgents(db) : db.agents[b].named} :
       Does(c, "agent", UpsertAgent(db, a)) \/ Does(c, "agent", SoftDeleteAgent(db, a))

-----------------------------------------------------------------------------
(* InboxStore *)

Queued(d) == {i \in DOMAIN d.inbox : d.inbox[i].status = "queued"}

EnqueueMessage(d) == Insert(d, "inbox", [status |-> "queued"])

\* The head is selected, then claimed only if it is still queued; the loser
\* of a race finds nothing.
ClaimSelect(c) ==
  /\ Enter(c, "inbox") /\ Queued(db) # {}
  /\ call' = [call EXCEPT ![c] = [op |-> "claim", id |-> Min(Queued(db))]] /\ Same(db)

\* mutant: the update does not ask whether the message is still queued
Anyhow(i) == TRUE

StillQueued(i) == db.inbox[i].status = "queued"

ClaimUpdate(c) ==
  /\ Inside(c, "claim")
  /\ LET i == call[c].id
     IN IF StillQueued(i)
        THEN /\ db' = [db EXCEPT !.inbox[i].status = "running"]
             /\ call' = [call EXCEPT ![c].op = "claimed"]
        ELSE call' = [call EXCEPT ![c] = Idle] /\ UNCHANGED db
  /\ Same(<<>>)

FinishAgentMessage(c) ==
  /\ Inside(c, "claimed")
  /\ \E s \in Statuses : db' = [db EXCEPT !.inbox[call[c].id].status = s]
  /\ call' = [call EXCEPT ![c] = Idle] /\ Same(<<>>)

\* Only a running message goes back.
RequeueMessage(c) ==
  /\ Inside(c, "claimed")
  /\ db' = [db EXCEPT !.inbox[call[c].id].status = IF @ = "running" THEN "queued" ELSE @]
  /\ call' = [call EXCEPT ![c] = Idle] /\ Same(<<>>)

\* Asked when no consumer of the agent is alive.
RequeueRunningMessages(c) ==
  /\ \A e \in Clients : ~Inside(e, "claimed") /\ ~Inside(e, "claim")
  /\ Does(c, "inbox", [db EXCEPT !.inbox =
        [i \in DOMAIN @ |-> IF @[i].status = "running" THEN [status |-> "queued"] ELSE @[i]]])

CountQueuedMessages(d) == Cardinality(Queued(d))

CountMessagesAhead(d, i) ==
  Cardinality({j \in DOMAIN d.inbox : j < i /\ d.inbox[j].status \in {"queued", "running"}})

ListAgentMessages(d) == SetToSortSeq(DOMAIN d.inbox, <)

InboxStep(c) ==
  \/ Cardinality(DOMAIN db.inbox) < MaxRows /\ Does(c, "inbox", EnqueueMessage(db))
  \/ ClaimSelect(c) \/ ClaimUpdate(c) \/ FinishAgentMessage(c) \/ RequeueMessage(c)
  \/ RequeueRunningMessages(c)

-----------------------------------------------------------------------------
(* ConversationStore: a client is an agent with a stream of its own *)

Message(turn, s, m) == [turn |-> turn, seq |-> s, role |-> m.role, text |-> m.text]
Says(role) == [role |-> role, text |-> <<>>]

\* created_at is coarser than the order of ids: two turns share an instant.
insertReasonTurnTx(d, c, status) ==
  LET id == Highest(d.turns) + 1
  IN [d EXCEPT !.turns = Put(@, id, [agent |-> c, status |-> status, run |-> FALSE, at |-> (id + 1) \div 2])]

\* A row that is there already keeps its id and its content.
insertMessageTx(d, turn, s, m) ==
  IF At(d, turn, s) # {} THEN d ELSE Insert(d, "msgs", Message(turn, s, m))

\* A derived row is written over the row with its seq.
insertDerivedMessage(d, turn, s, m) ==
  IF At(d, turn, s) = {} THEN Insert(d, "msgs", Message(turn, s, m))
  ELSE [d EXCEPT !.msgs = [i \in DOMAIN @ |-> IF i \in At(d, turn, s) THEN Message(turn, s, m) ELSE @[i]]]

InsertReasonTurn(d, c) ==
  LET one == insertReasonTurnTx(d, c, "finished")
      turn == Highest(one.turns)
  IN insertMessageTx(insertMessageTx(one, turn, 0, Says("user")), turn, 1, Says("assistant"))

BeginReasonTurn(c) ==
  /\ Enter(c, "conversation") /\ Cardinality(DOMAIN db.turns) < MaxTurns
  /\ LET one == insertReasonTurnTx(db, c, "running")
         turn == Highest(one.turns)
     IN /\ db' = insertMessageTx(one, turn, 0, Says("user"))
        /\ call' = [call EXCEPT ![c] = [op |-> "turn", turn |-> turn]]
  /\ Same(<<>>)

ListLLMEvents(d, turn) ==
  LET keys == {k[2] : k \in {j \in DOMAIN d.events : j[1] = turn}}
      nth(i) == CHOOSE s \in keys : Cardinality({r \in keys : r <= s}) = i
  IN [i \in 1..Cardinality(keys) |-> d.events[<<turn, nth(i)>>]]

\* A seq that is there already is not written again.
AppendLLMEvents(c) ==
  /\ Inside(c, "turn")
  /\ LET turn == call[c].turn IN
     \E e \in Events, s \in 0..Len(ListLLMEvents(db, turn)) :
       /\ s < MaxStream
       /\ db' = [db EXCEPT !.events = IF <<turn, s>> \in DOMAIN @ THEN @ ELSE Put(@, <<turn, s>>, e)]
  /\ Same(call)

AppendLLMMessages(c) ==
  /\ Inside(c, "turn")
  /\ \E s \in 1..MaxStream : db' = insertDerivedMessage(db, call[c].turn, s, Says("tool"))
  /\ Same(call)

\* FinishReasonTurn: the header, then the derived rows one by one, then the
\* reply at the next seq unless there is one, then the run id of the events.
FinishReasonTurn(c) ==
  /\ \/ Inside(c, "turn") /\ call' = [call EXCEPT ![c].op = "finish"]
     \/ /\ Enter(c, "conversation")
        /\ \E t \in DOMAIN db.turns : /\ db.turns[t].agent = c /\ db.turns[t].status = "finished"
                                      /\ call' = [call EXCEPT ![c] = [op |-> "finish", turn |-> t]]
  /\ db' = [db EXCEPT !.turns[call'[c].turn].status = "finished"]
  /\ Same(<<>>)

FinishDerive(c) ==
  /\ Inside(c, "finish")
  /\ call' = [call EXCEPT ![c] = [op |-> "derive", turn |-> @.turn,
                 todo |-> AggregateChatMessages(ListLLMEvents(db, @.turn))]]
  /\ Same(db)

recordAggregatedMessages(c) ==
  /\ Inside(c, "derive") /\ DOMAIN call[c].todo # {}
  /\ LET s == Min(DOMAIN call[c].todo) IN
     /\ db' = insertDerivedMessage(db, call[c].turn, s, call[c].todo[s])
     /\ call' = [call EXCEPT ![c].todo = [i \in DOMAIN @ \ {s} |-> @[i]]]
  /\ Same(<<>>)

\* mutant: a replayed finish does not look for the reply
NeverThere(d, turn) == FALSE

assistantMessageSeq(d, turn) == Replies(d, turn) # {}

nextMessageSeq(d, turn) == HighestSeq(d, turn) + 1

FinishSeq(c) ==
  /\ Inside(c, "derive") /\ DOMAIN call[c].todo = {}
  /\ call' = [call EXCEPT ![c] = [op |-> "reply", turn |-> @.turn,
                 seq |-> IF assistantMessageSeq(db, @.turn) THEN 0 ELSE nextMessageSeq(db, @.turn)]]
  /\ Same(db)

recordAssistantMessage(c) ==
  /\ Inside(c, "reply")
  /\ db' = IF call[c].seq = 0 THEN db ELSE insertMessageTx(db, call[c].turn, call[c].seq, Says("assistant"))
  /\ call' = [call EXCEPT ![c].op = "runid"] /\ Same(<<>>)

FinishRunId(c) ==
  /\ Inside(c, "runid")
  /\ db' = [db EXCEPT !.turns[call[c].turn].run = TRUE]
  /\ call' = [call EXCEPT ![c] = Idle] /\ Same(<<>>)

AssistantMessageID(d, turn) == IF Replies(d, turn) = {} THEN 0 ELSE Max(Replies(d, turn))

\* mutant: the agent's newest turn, whatever its status
NewestTurn(d, c) == Max({0} \cup {t \in DOMAIN d.turns : d.turns[t].agent = c})

ActiveReasonTurn(d, c) ==
  LET live == {t \in DOMAIN d.turns : d.turns[t].agent = c /\ d.turns[t].status = "running"}
  IN IF live = {} THEN 0 ELSE Max(live)

NewAfter(d, c, after) == {m \in DOMAIN d.msgs : m > after /\ d.turns[d.msgs[m].turn].agent = c}

\* mutant: a page is the newest rows after the cursor
NewestAfter(d, c, after) ==
  LET new == NewAfter(d, c, after)
  IN {m \in new : Cardinality({n \in new : n >= m}) <= DefaultTurnPageLimit}

\* The stream after a cursor, oldest first, a page of it.
ListLLMMessagesAfter(d, c, after) ==
  LET new == NewAfter(d, c, after)
  IN {m \in new : Cardinality({n \in new : n <= m}) <= DefaultTurnPageLimit}

\* The HTTP poll: the cursor is the last id it was given.
Poll(c) ==
  /\ port = "conversation" /\ seen.of \in {{}, {c}}
  /\ LET page == ListLLMMessagesAfter(db, c, Max({0} \cup seen.ids))
     IN page # {} /\ seen' = [of |-> {c}, ids |-> seen.ids \cup page]
  /\ UNCHANGED <<port, db, call, faults>>

ConversationStep(c) ==
  \/ Cardinality(DOMAIN db.turns) < MaxTurns /\ Does(c, "conversation", InsertReasonTurn(db, c))
  \/ BeginReasonTurn(c) \/ AppendLLMEvents(c) \/ AppendLLMMessages(c) \/ FinishReasonTurn(c)
  \/ FinishDerive(c) \/ recordAggregatedMessages(c) \/ FinishSeq(c) \/ recordAssistantMessage(c)
  \/ FinishRunId(c) \/ Poll(c)
-----------------------------------------------------------------------------
(* ExecutionStore and VerificationStore *)

CreateExecutionPlan(c) ==
  /\ Enter(c, "execution") /\ Cardinality(DOMAIN db.plans) < MaxRows
  /\ LET id == Highest(db.plans) + 1 IN
     /\ db' = [db EXCEPT !.plans = Put(@, id, [input |-> c])]
     /\ call' = [call EXCEPT ![c] = [op |-> "plan", id |-> id]]
  /\ Same(<<>>)

\* A plan's steps are one transaction.
AppendExecutionStepPlans(c) ==
  /\ Inside(c, "plan")
  /\ \E n \in 1..2 : db' = [db EXCEPT !.psteps = @ \cup ({call[c].id} \X (1..n))]
  /\ call' = [call EXCEPT ![c].op = "run"] /\ Same(<<>>)

ListExecutionStepPlan(d, plan) == SetToSortSeq({p[2] : p \in {q \in d.psteps : q[1] = plan}}, <)

ListExecutionSteps(d, plan) == SelectSeq(d.steps, LAMBDA r : r.plan = plan)

\* A step and the provider interactions of it, each a row of its own.
AppendExecutionStep(c) ==
  /\ Inside(c, "run")
  /\ LET plan == call[c].id
         next == Cardinality(Ran(db, plan)) + 1
     IN /\ next <= Cardinality(Planned(db, plan))
        /\ \E s \in {"ok", "failed"} :
             db' = [db EXCEPT !.steps = Append(@, [plan |-> plan, idx |-> next, status |-> s, interactions |-> 0])]
  /\ Same(call)

AppendExecutionStepInteraction(c) ==
  /\ Inside(c, "run")
  /\ \E i \in DOMAIN db.steps : /\ db.steps[i].plan = call[c].id /\ db.steps[i].interactions = 0
                                /\ db' = [db EXCEPT !.steps[i].interactions = @ + 1]
  /\ Same(call)

\* Derived, never stored: how much of the plan ran and how its last step ended.
ExecutionPlanOutcome(d, plan) ==
  LET ran == ListExecutionSteps(d, plan)
  IN [planned |-> Len(ListExecutionStepPlan(d, plan)), executed |-> Len(ran),
      status |-> IF ran = <<>> THEN "none" ELSE Last(ran).status]

TaskInputMessageID(d) == IF d.plans = None THEN 0 ELSE d.plans[Min(DOMAIN d.plans)].input

ListExecutionPlans(d) == SetToSortSeq(DOMAIN d.plans, <)

ExecutionStep(c) ==
  \/ CreateExecutionPlan(c) \/ AppendExecutionStepPlans(c) \/ AppendExecutionStep(c)
  \/ AppendExecutionStepInteraction(c)
  \/ Inside(c, "run") /\ call' = [call EXCEPT ![c] = Idle] /\ Same(db)

\* The first row of a (task, idx) is the one kept.
AppendCompletionContract(d, i, criterion) ==
  [d EXCEPT !.contract = IF i \in DOMAIN @ THEN @ ELSE Put(@, i, criterion)]

ListCompletionContract(d) == [i \in 1..Cardinality(DOMAIN d.contract) |->
                                d.contract[SetToSortSeq(DOMAIN d.contract, <)[i]]]

AppendVerification(d, i, held) == [d EXCEPT !.verdicts = Append(@, <<i, held>>)]

ListVerifications(d) == d.verdicts

VerificationStep(c) ==
  \/ \E i \in 0..1, t \in Criteria : Does(c, "verification", AppendCompletionContract(db, i, t))
  \/ /\ Len(ListVerifications(db)) < MaxRows
     /\ \E i \in DOMAIN db.contract, b \in BOOLEAN : Does(c, "verification", AppendVerification(db, i, b))

-----------------------------------------------------------------------------
(* AccountStore *)

\* Whether another account claims the root: asked before the transaction.
ensureWorkspaceRootFree(d, root, k) == \A j \in DOMAIN d.accounts : j # k => d.accounts[j].root # root

\* mutant: the check before the transaction is the only one
NeverRefused(d, k, a) == FALSE

\* The unique index refuses what the check let through.
Refused(d, k, a) == HasRootIndex /\ ~ensureWorkspaceRootFree(d, a.root, k)

Claim(d, k, a) ==
  [d EXCEPT !.accounts = Put([j \in DOMAIN @ |->
      IF a.isDefault /\ @[j].harness = a.harness THEN [@[j] EXCEPT !.isDefault = FALSE] ELSE @[j]], k, a)]

ListAccounts(d, harness) == {k \in DOMAIN d.accounts : d.accounts[k].harness = harness}
GetAccount(d, k) == d.accounts[k]

\* The transaction counts the harness's defaults, then writes: a commit that
\* came between fails it (the snapshot is stale).
CreateAccount(c) ==
  \/ /\ Enter(c, "account")
     /\ \E k \in Accounts \ DOMAIN db.accounts, a \in AccountInput(Harnesses) :
          /\ NormalizeAccount(a) /\ ensureWorkspaceRootFree(db, a.root, k)
          /\ call' = [call EXCEPT ![c] = [op |-> "create", id |-> k, row |-> a]]
     /\ Same(db)
  \/ /\ Inside(c, "create")
     /\ call' = [call EXCEPT ![c] = [op |-> "insert", id |-> @.id, read |-> db.accounts,
           row |-> [@.row EXCEPT !.isDefault =
                      @ \/ \A j \in ListAccounts(db, call[c].row.harness) : ~db.accounts[j].isDefault]]]
     /\ Same(db)
  \/ /\ Inside(c, "insert")
     /\ db' = IF \/ db.accounts # call[c].read \/ call[c].id \in DOMAIN db.accounts
                 \/ Refused(db, call[c].id, call[c].row)
              THEN db ELSE Claim(db, call[c].id, call[c].row)
     /\ call' = [call EXCEPT ![c] = Idle] /\ Same(<<>>)

\* mutant: the other accounts of the harness keep their flag
KeepsOthers(d, k, a) ==
  IF k \notin DOMAIN d.accounts \/ Refused(d, k, a) THEN d ELSE [d EXCEPT !.accounts[k] = a]

\* Clears the flag on the others, then writes the row: no row when it was
\* deleted meanwhile, and the others lose their flag all the same.
Rewrite(d, k, a) ==
  LET c == Claim(d, k, a)
  IN IF Refused(d, k, a) THEN d
     ELSE IF k \in DOMAIN d.accounts THEN c
     ELSE [c EXCEPT !.accounts = [j \in DOMAIN d.accounts |-> @[j]]]

\* The row is read, patched and written back whole.
UpdateAccount(c) ==
  \/ /\ Enter(c, "account")
     /\ \E k \in DOMAIN db.accounts, a \in AccountInput(Harnesses) :
          /\ NormalizeAccount(a) /\ ensureWorkspaceRootFree(db, a.root, k)
          /\ Cardinality({f \in DOMAIN a : a[f] # GetAccount(db, k)[f]}) = 1
          /\ call' = [call EXCEPT ![c] = [op |-> "update", id |-> k, row |-> a]]
     /\ Same(db)
  \/ /\ Inside(c, "update")
     /\ db' = Rewrite(db, call[c].id, call[c].row)
     /\ call' = [call EXCEPT ![c] = Idle] /\ Same(<<>>)

DeleteAccount(d, k) == [d EXCEPT !.accounts = [j \in DOMAIN @ \ {k} |-> @[j]]]

AccountStep(c) ==
  \/ CreateAccount(c) \/ UpdateAccount(c)
  \/ \E k \in DOMAIN db.accounts : Does(c, "account", DeleteAccount(db, k))

-----------------------------------------------------------------------------
(* TurnQueryStore: plain reads of the log *)

\* Newest first; equal keys by id descending.
turnBefore(d, order, i, j) ==
  IF turnOrderColumn(order) = "at" /\ d.turns[i].at # d.turns[j].at
  THEN d.turns[i].at > d.turns[j].at ELSE i > j

turnWhere(d, status) == {t \in DOMAIN d.turns : status = "" \/ d.turns[t].status = status}

QueryTurns(d, status, order, limit, offset) ==
  LET sorted == SetToSortSeq(turnWhere(d, status), LAMBDA i, j : turnBefore(d, order, i, j))
      from == turnPageOffset(offset)
  IN [rows |-> SubSeq(sorted, from + 1, Min({from + turnPageLimit(limit), Len(sorted)})),
      total |-> Len(sorted)]

TurnFacets(d) == [s \in {d.turns[t].status : t \in DOMAIN d.turns} |-> Cardinality(turnWhere(d, s))]

CountTurns(d) == Cardinality(DOMAIN d.turns)

ListTurnsByTask(d) ==
  SetToSortSeq(DOMAIN d.turns, LAMBDA i, j :
    IF d.turns[i].at = d.turns[j].at THEN i < j ELSE d.turns[i].at < d.turns[j].at)

\* Walking the pages of a list, whatever filter, order and page size, gives
\* every matching row once; the pager's total, the facets and the count
\* agree with the walk. A turn a filter no longer matches leaves the walk,
\* it is not skipped by it.
PagesTile ==
  \A q \in {<<"", "created_at", 0>>, <<"", "nonsense", 1>>,
           <<"finished", "created_at", 1>>, <<"finished", "nonsense", 4>>} :
    LET status == q[1]
        size == turnPageLimit(q[3])
        page(n) == QueryTurns(db, status, q[2], q[3], n * size)
        walk == FlattenSeq([n \in 1..(MaxTurns + 1) |-> page(n - 1).rows])
    IN /\ Len(walk) = page(0).total /\ ToSet(walk) = turnWhere(db, status)
       /\ status \in DOMAIN TurnFacets(db) => TurnFacets(db)[status] = page(0).total
       /\ status = "" => CountTurns(db) = page(0).total

\* The reads of one table state against one another.
Agree(d) ==
  /\ \A t \in ToSet(ListTurnsByTask(d)) :
       AssistantMessageID(d, t) # 0 => ActiveReasonTurn(d, d.turns[t].agent) # t
  /\ \A p \in ToSet(ListExecutionPlans(d)) :
       LET o == ExecutionPlanOutcome(d, p)
       IN o.executed <= o.planned /\ (o.status = "none" <=> o.executed = 0)
  /\ \A i \in ToSet(ListAgentMessages(d)) :
       CountMessagesAhead(d, i) = 0 /\ CountQueuedMessages(d) > 0 /\ i \in Queued(d) => i = Min(Queued(d))
  /\ \A v \in ToSet(ListVerifications(d)) : v[1] < 2 /\ Len(ListCompletionContract(d)) > 0
  /\ d.plans # None => TaskInputMessageID(d) \in Clients

\* What two reads of different rows say of one thing agree at every commit:
\* a run with a reply is not the agent's run in flight, no plan ran more
\* steps than were planned, a message with nothing ahead of it is the one
\* claimed or the next to be claimed, and a contract has no gap a later
\* criterion hides.
ReadsAgree == Agree(db)

-----------------------------------------------------------------------------
Next ==
  \/ Crash
  \/ \E c \in Clients :
       \/ Open(c) \/ TaskStep(c) \/ AgentStep(c) \/ InboxStep(c) \/ ConversationStep(c)
       \/ ExecutionStep(c) \/ VerificationStep(c) \/ AccountStep(c)

Spec == Init /\ [][Next]_vars
=============================================================================
