--------------------------- MODULE PostgresStore ---------------------------
(***************************************************************************)
(* The postgres engine. Most statements are the sqlite engine's and are    *)
(* taken from its module; what differs is modelled here: ids come from     *)
(* sequences that no transaction holds back, a transaction at READ         *)
(* COMMITTED sees what others commit between its statements and is kept    *)
(* out of the rows they hold, and reads may be served by a follower that   *)
(* is behind.                                                              *)
(***************************************************************************)
EXTENDS StoreTables

VARIABLES
  reader,     \* reads go to a follower
  replica     \* the rows the follower has replayed

Lite == INSTANCE SqliteStore

postgresVars == <<port, db, call, faults, seen, reader, replica>>

-----------------------------------------------------------------------------
(* Two servers *)

FollowerServer == [answers : BOOLEAN, inRecovery : BOOLEAN, cluster : {"ours", "another"}]

\* A server that does not answer, is writable or replicates another cluster
\* is not used; the reads stay on the writer.
openPostgresFollower(f) == f.answers /\ f.inRecovery /\ f.cluster = "ours"

OpenPostgresStoreWithFollower == \E f \in FollowerServer : reader = openPostgresFollower(f)

readPool == IF reader THEN replica ELSE db

\* mutant: the copy that reads its own writes keeps the follower
AlwaysPool(source) == readPool

Reading(source) == IF source = "writer" THEN db ELSE readPool

\* The follower replays commits in their order and is anywhere behind.
Replicate == reader /\ replica # db /\ replica' = db /\ UNCHANGED <<port, db, call, faults, seen, reader>>

\* setval to the highest stored id: an id that is handed out and not yet
\* committed is handed out again.
ensureIDSequences(c) ==
  /\ port \in {"agent", "inbox"} /\ ~Busy(c) /\ faults > 0
  /\ db' = [db EXCEPT !.seq[Lite!Table] = Lite!Floor(db, Lite!Table)]
  /\ Same(call)

\* nextval, then the commit: others commit in between, and an id that is
\* taken fails the insert.
Nextval(c, p, table, row) ==
  /\ Enter(c, p) /\ Cardinality(DOMAIN db[table]) < MaxRows
  /\ db' = [db EXCEPT !.seq[table] = @ + 1]
  /\ call' = [call EXCEPT ![c] = [op |-> "insert", id |-> db.seq[table] + 1, row |-> row]]
  /\ Same(<<>>)

\* mutant: an insert writes over the row that has its id
Overwrites(table, id) == FALSE

DuplicateKey(table, id) == id \in DOMAIN db[table]

Committed(c, table) ==
  LET id == call[c].id IN
  /\ Inside(c, "insert")
  /\ db' = IF DuplicateKey(table, id) THEN db ELSE [db EXCEPT ![table] = Put(@, id, call[c].row)]

-----------------------------------------------------------------------------
(* TaskStore, AgentStore, InboxStore *)

UpsertTask(d, w) == Lite!UpsertTask(d, w)

\* A new agent: the nameless row, then its name.
UpsertAgent(c) ==
  \/ Nextval(c, "agent", "agents", [named |-> FALSE, deleted |-> FALSE])
  \/ /\ port = "agent" /\ Committed(c, "agents")
     /\ call' = [call EXCEPT ![c] = IF db' = db THEN Idle ELSE [op |-> "name", id |-> @.id]]
     /\ Same(<<>>)
  \/ Lite!NameAgent(c)
  \/ \E a \in Lite!ListAgents(db) : db.agents[a].named /\ Does(c, "agent", Lite!UpsertAgent(db, a))

SoftDeleteAgent(d, a) == Lite!SoftDeleteAgent(d, a)

GetTask == Lite!GetTask(readPool)
ListTasks == Lite!ListTasks(readPool)
ListAgents == Lite!ListAgents(readPool)

EnqueueMessage(c) ==
  \/ Nextval(c, "inbox", "inbox", [status |-> "queued"])
  \/ port = "inbox" /\ Committed(c, "inbox") /\ call' = [call EXCEPT ![c] = Idle] /\ Same(<<>>)

\* One statement: its snapshot picks the head, the update finds the row
\* as the last committer left it and asks again whether it is queued.
ClaimNextMessage(c) == Lite!ClaimSelect(c) \/ Lite!ClaimUpdate(c)

FinishAgentMessage(c) == Lite!FinishAgentMessage(c)
RequeueMessage(c) == Lite!RequeueMessage(c)
RequeueRunningMessages(c) == Lite!RequeueRunningMessages(c)

\* Asked of the writer: the drain and the queue position decide on them.
CountQueuedMessages == Lite!CountQueuedMessages(db)
CountMessagesAhead(i) == Lite!CountMessagesAhead(db, i)
ListAgentMessages == Lite!ListAgentMessages(readPool)

-----------------------------------------------------------------------------
(* ConversationStore *)

insertReasonTurnTx(d, c, status) == Lite!insertReasonTurnTx(d, c, status)
insertMessageTx(d, turn, s, m) == Lite!insertMessageTx(d, turn, s, m)
insertDerivedMessage(d, turn, s, m) == Lite!insertDerivedMessage(d, turn, s, m)
InsertReasonTurn(d, c) == Lite!InsertReasonTurn(d, c)
BeginReasonTurn(c) == Lite!BeginReasonTurn(c)

\* A batch of events from a seq on, and a batch of derived rows.
AppendLLMEvents(d, turn, from, batch) ==
  LET keys == {<<turn, from + i - 1>> : i \in DOMAIN batch}
  IN [d EXCEPT !.events = [k \in DOMAIN @ \cup keys |->
                             IF k \in DOMAIN @ THEN @[k] ELSE batch[k[2] - from + 1]]]

\* The ids a batch hands out follow the order of its rows; a row that is there
\* keeps its id and takes the new content.
NewSeqs(d, turn, rows) == {s \in DOMAIN rows : At(d, turn, s) = {}}
NewMessageId(d, turn, rows, s) ==
  Lite!NextId(d, "msgs") + Cardinality({r \in NewSeqs(d, turn, rows) : r < s})

AppendLLMMessages(d, turn, rows) ==
  LET new == NewSeqs(d, turn, rows)
      id(s) == NewMessageId(d, turn, rows, s)
      row(s) == Lite!Message(turn, s, rows[s])
      inserted(m) == CHOOSE s \in new : id(s) = m
  IN [d EXCEPT !.msgs = [m \in DOMAIN @ \cup {id(s) : s \in new} |->
                            IF m \notin DOMAIN @ THEN row(inserted(m))
                            ELSE IF m \in Rows(d, turn) /\ @[m].seq \in DOMAIN rows THEN row(@[m].seq)
                            ELSE @[m]],
               !.seq.msgs = Lite!NextId(d, "msgs") + Cardinality(new) - 1]

ListLLMEvents(d, turn) == Lite!ListLLMEvents(d, turn)
assistantMessageSeq(d, turn) == Lite!assistantMessageSeq(d, turn)
nextMessageSeq(d, turn) == Lite!nextMessageSeq(d, turn)
AssistantMessageID(d, turn) == Lite!AssistantMessageID(d, turn)

\* The header; the caller has flushed what it streamed.
FinishReasonTurn(c) ==
  /\ Inside(c, "flushed")
  /\ db' = [db EXCEPT !.turns[call[c].turn].status = "finished"]
  /\ call' = [call EXCEPT ![c].op = "finish"] /\ Same(<<>>)

\* The events are read where every read goes; what is derived from them is
\* written to the writer.
FinishDerive(c) ==
  /\ Inside(c, "finish")
  /\ call' = [call EXCEPT ![c] = [op |-> "derive", turn |-> @.turn,
                 todo |-> AggregateChatMessages(ListLLMEvents(readPool, @.turn))]]
  /\ Same(db)

recordAggregatedMessages(c) == Lite!recordAggregatedMessages(c)

FinishSeq(c) ==
  /\ Inside(c, "derive") /\ DOMAIN call[c].todo = {}
  /\ call' = [call EXCEPT ![c] = [op |-> "reply", turn |-> @.turn,
                 seq |-> IF assistantMessageSeq(db, @.turn) THEN 0 ELSE nextMessageSeq(db, @.turn)]]
  /\ Same(db)

recordAssistantMessage(c) == Lite!recordAssistantMessage(c)
FinishRunId(c) == Lite!FinishRunId(c)

ActiveReasonTurn(d, c) == Lite!ActiveReasonTurn(d, c)

\* mutant: a page is the newest rows after the cursor
NewestAfter(c, after) == Lite!NewestAfter(readPool, c, after)

ListLLMMessagesAfter(c, after) == Lite!ListLLMMessagesAfter(readPool, c, after)

Poll(c) ==
  /\ port = "conversation" /\ seen.of \in {{}, {c}}
  /\ LET page == ListLLMMessagesAfter(c, Max({0} \cup seen.ids))
     IN page # {} /\ seen' = [of |-> {c}, ids |-> seen.ids \cup page]
  /\ UNCHANGED <<port, db, call, faults>>
-----------------------------------------------------------------------------
(* ExecutionStore, VerificationStore *)

CreateExecutionPlan(c) == Lite!CreateExecutionPlan(c)
AppendExecutionStepPlans(c) == Lite!AppendExecutionStepPlans(c)
AppendExecutionStep(c) == Lite!AppendExecutionStep(c)
AppendExecutionStepInteraction(c) == Lite!AppendExecutionStepInteraction(c)
ListExecutionPlans == Lite!ListExecutionPlans(readPool)
ListExecutionSteps(plan) == Lite!ListExecutionSteps(readPool, plan)
ListExecutionStepPlan(plan) == Lite!ListExecutionStepPlan(readPool, plan)
ExecutionPlanOutcome(plan) == Lite!ExecutionPlanOutcome(readPool, plan)
TaskInputMessageID == Lite!TaskInputMessageID(readPool)

AppendCompletionContract(d, i, criterion) == Lite!AppendCompletionContract(d, i, criterion)
AppendVerification(d, i, held) == Lite!AppendVerification(d, i, held)
ListCompletionContract == Lite!ListCompletionContract(readPool)
ListVerifications == Lite!ListVerifications(readPool)

-----------------------------------------------------------------------------
(* AccountStore: a transaction is the rows it has locked and the row it    *)
(* will write.                                                             *)

ensureWorkspaceRootFree(d, root, k) == Lite!ensureWorkspaceRootFree(d, root, k)

Locked(c) == UNION {call[e].locked : e \in {f \in Clients \ {c} : Inside(f, "tx")}}

\* Clearing the defaults of a harness locks its rows as this statement sees
\* them, once nobody else holds one of them.
ClearDefaults(c, ids) ==
  /\ ids \cap Locked(c) = {}
  /\ call' = [call EXCEPT ![c] = [op |-> "tx", id |-> @.id, row |-> @.row, new |-> @.op = "count", locked |-> ids]]

\* mutant: the row is written whoever has the root
Anyway(d, t) == [d EXCEPT !.accounts = Put(@, t.id, t.row)]

\* What the transaction leaves when its last statement is not refused.
WriteAccount(d, t) ==
  LET cleared == [j \in DOMAIN d.accounts |->
                    IF j \in t.locked THEN [d.accounts[j] EXCEPT !.isDefault = FALSE] ELSE d.accounts[j]]
      refused == HasRootIndex /\ ~ensureWorkspaceRootFree(d, t.row.root, t.id)
  IN CASE t.new /\ (refused \/ t.id \in DOMAIN d.accounts) -> d
       [] ~t.new /\ t.id \in DOMAIN d.accounts /\ refused -> d
       [] OTHER -> [d EXCEPT !.accounts = IF t.new \/ t.id \in DOMAIN @ THEN Put(cleared, t.id, t.row) ELSE cleared]

CommitAccount(c) ==
  /\ Inside(c, "tx") /\ call[c].id \notin Locked(c)
  /\ \/ db' = WriteAccount(db, call[c])
     \/ UNCHANGED db   \* a deadlock's victim, or a lost connection
  /\ call' = [call EXCEPT ![c] = Idle] /\ Same(<<>>)

CreateAccount(c) ==
  \/ /\ Enter(c, "account")
     /\ \E k \in Accounts \ DOMAIN db.accounts, a \in AccountInput(Harnesses) :
          /\ NormalizeAccount(a) /\ ensureWorkspaceRootFree(db, a.root, k)
          /\ call' = [call EXCEPT ![c] = [op |-> "create", id |-> k, row |-> a]]
     /\ Same(db)
  \/ /\ Inside(c, "create")
     /\ call' = [call EXCEPT ![c] = [op |-> "count", id |-> @.id, row |-> [@.row EXCEPT !.isDefault =
           @ \/ \A j \in Lite!ListAccounts(db, call[c].row.harness) : ~db.accounts[j].isDefault]]]
     /\ Same(db)
  \/ /\ Inside(c, "count") /\ Same(db)
     /\ ClearDefaults(c, IF call[c].row.isDefault THEN Lite!ListAccounts(db, call[c].row.harness) ELSE {})

\* Read outside the transaction, patched in one field and written whole.
UpdateAccount(c) ==
  \/ /\ Enter(c, "account")
     /\ \E k \in DOMAIN db.accounts, a \in AccountInput(Harnesses) :
          /\ NormalizeAccount(a) /\ ensureWorkspaceRootFree(db, a.root, k)
          /\ Cardinality({f \in DOMAIN a : a[f] # db.accounts[k][f]}) = 1
          /\ call' = [call EXCEPT ![c] = [op |-> "update", id |-> k, row |-> a]]
     /\ Same(db)
  \/ /\ Inside(c, "update") /\ Same(db)
     /\ ClearDefaults(c, IF call[c].row.isDefault
                         THEN Lite!ListAccounts(db, call[c].row.harness) \ {call[c].id} ELSE {})

DeleteAccount(c) ==
  \E k \in DOMAIN db.accounts \ Locked(c) : Does(c, "account", Lite!DeleteAccount(db, k))

-----------------------------------------------------------------------------
(* TurnQueryStore *)

turnWhere(status) == Lite!turnWhere(readPool, status)
QueryTurns(status, order, limit, offset) == Lite!QueryTurns(readPool, status, order, limit, offset)
TurnFacets == Lite!TurnFacets(readPool)

\* mutant: the count is the writer's
CountOnWriter == Lite!CountTurns(db)

CountTurns == Lite!CountTurns(readPool)
ListTurnsByTask == Lite!ListTurnsByTask(readPool)

\* A page the follower answers is a page of one table state, however far
\* behind: as many rows as the pager's total, the facets and the count say.
FollowerPages ==
  \A status \in {"", "finished"} :
    LET all == QueryTurns(status, "nonsense", MaxTurnPageLimit, -1)
    IN /\ all.total = Cardinality(turnWhere(status))
       /\ status \in DOMAIN TurnFacets => TurnFacets[status] = all.total
       /\ status = "" => CountTurns = Len(ListTurnsByTask)

-----------------------------------------------------------------------------
PostgresInit == Init /\ OpenPostgresStoreWithFollower /\ replica = EmptyDB

TableStep(c) ==
  \/ ensureIDSequences(c)
  \/ \E w \in TaskRow : Does(c, "task", UpsertTask(db, w))
  \/ UpsertAgent(c)
  \/ \E a \in {b \in DOMAIN db.agents : db.agents[b].named} : Does(c, "agent", SoftDeleteAgent(db, a))
  \/ EnqueueMessage(c) \/ ClaimNextMessage(c) \/ FinishAgentMessage(c) \/ RequeueMessage(c)
  \/ RequeueRunningMessages(c)
  \/ CreateExecutionPlan(c) \/ AppendExecutionStepPlans(c) \/ AppendExecutionStep(c)
  \/ AppendExecutionStepInteraction(c)
  \/ Inside(c, "run") /\ call' = [call EXCEPT ![c] = Idle] /\ Same(db)
  \/ \E i \in 0..1, t \in Criteria : Does(c, "verification", AppendCompletionContract(db, i, t))
  \/ /\ Len(db.verdicts) < MaxRows
     /\ \E i \in DOMAIN db.contract, b \in BOOLEAN : Does(c, "verification", AppendVerification(db, i, b))
  \/ CreateAccount(c) \/ UpdateAccount(c) \/ CommitAccount(c) \/ DeleteAccount(c)
=============================================================================
