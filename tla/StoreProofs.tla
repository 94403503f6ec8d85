---------------------------- MODULE StoreProofs ----------------------------
(***************************************************************************)
(* Proofs about the store engines, for any number of clients, rows, turns, *)
(* events, dying processes and lost writes: a claim has one owner, a       *)
(* poller's cursor passes over no message, and a run's one reply is its    *)
(* last message, on sqlite (Lite!Spec) and on postgres with a live trace   *)
(* and a lagging follower (TraceSpec). Both engines implement the contract *)
(* of the ports (ImplementsStore).                                         *)
(*   Shape, Calls, Frame   what a call may be at, on which port, and which *)
(*                         tables a step of a port writes                  *)
(*   InboxInv              ids are numbers; a claimed row is a running row *)
(*   Good, Grown           the messages are numbered and have a turn; what *)
(*                         is added later has a higher number              *)
(*   Held, Traced          a call, and its trace, are of a turn there is   *)
(*   Cursor                what the poller was given are rows of the table *)
(*   Following             the follower has an earlier state of the tables *)
(*   TurnOk, Stage         a turn's reply is last; what the call inside it *)
(*                         has yet to write leaves it so                   *)
(*   Heard, Spoken         the events are finite, every turn and call is   *)
(*                         in order (lite: on sqlite, which may finish a   *)
(*                         turn twice, and so keeps what that would write) *)
(*   TaskInv, AgentInv,    a row that is to be named is there; a plan that *)
(*   PlanInv               is to be filled is one client's and empty       *)
(*   Opened                every turn has its input                        *)
(***************************************************************************)
EXTENDS LLMTrace, FiniteSetTheorems, WellFoundedInduction, TLAPS

USE DEF Enter, Busy, Inside, Same, Does, Idle,
        Lite!Enter, Lite!Busy, Lite!Inside, Lite!Same, Lite!Does, Lite!Idle

\* Where a call may be, by port and engine.
Inboxes == {"agent", "inbox"}
AllOps == {"idle", "name", "claim", "claimed", "open", "opened", "insert", "turn", "flushed", "finish", "derive",
           "reply", "runid", "plan", "run", "create", "update", "count", "tx"}
SharedOp(p, o) ==
  \/ o = "idle"
  \/ p = "agent" /\ o = "name"
  \/ p = "inbox" /\ o \in {"claim", "claimed"}
  \/ p = "conversation" /\ o \in {"turn", "finish", "derive", "reply", "runid"}
  \/ p = "execution" /\ o \in {"plan", "run"}
  \/ p = "account" /\ o \in {"create", "update"}
SqliteOps(p) ==
  {o \in AllOps : \/ SharedOp(p, o)
                  \/ p \in Inboxes /\ o \in {"open", "opened"}
                  \/ p = "account" /\ o = "insert"}
PostgresOps(p) ==
  {o \in AllOps : \/ SharedOp(p, o)
                  \/ p \in Inboxes /\ o = "insert"
                  \/ p = "conversation" /\ o = "flushed"
                  \/ p = "account" /\ o \in {"count", "tx"}}

\* The tables a port writes.
Writes(p, t) ==
  \/ p = "task" /\ t = "tasks"
  \/ p = "agent" /\ t \in {"agents", "seq"}
  \/ p = "inbox" /\ t \in {"inbox", "seq"}
  \/ p = "conversation" /\ t \in {"turns", "msgs", "events", "seq"}
  \/ p = "execution" /\ t \in {"plans", "psteps", "steps"}
  \/ p = "verification" /\ t \in {"contract", "verdicts"}
  \/ p = "account" /\ t = "accounts"

DBFields == Tables \cup {"psteps", "steps", "verdicts", "seq"}

Shape ==
  /\ port \in Ports /\ DOMAIN db = DBFields /\ DOMAIN call = Clients
  /\ \A c \in Clients : "op" \in DOMAIN call[c]

Calls(ops) == \A c \in Clients : call[c].op \in ops
Frame == port' = port /\ \A t \in DBFields : Writes(port, t) \/ db'[t] = db[t]

\* A client whose call moves.
LEMMA CallMoves ==
  ASSUME Shape, NEW c \in Clients, NEW v, "op" \in DOMAIN v, NEW ops, v.op \in ops, Calls(ops),
         call' = [call EXCEPT ![c] = v], port' = port, DOMAIN db' = DBFields
  PROVE  Shape' /\ \A e \in Clients : call[e]'.op \in ops
BY DEF Shape, Calls

\* Nobody's call moves.
LEMMA CallStays ==
  ASSUME Shape, NEW ops, Calls(ops), call' = call, port' = port, DOMAIN db' = DBFields
  PROVE  Shape' /\ \A e \in Clients : call[e]'.op \in ops
BY DEF Shape, Calls

-----------------------------------------------------------------------------
(* The sqlite engine *)

Moves(ops) == Shape' /\ (\A e \in Clients : call[e]'.op \in ops) /\ Frame

\* The stages the steps of a port lead to are stages of that port.
LEMMA SqliteOpsAre ==
  /\ "idle" \in SqliteOps(port)
  /\ port \in Inboxes => "open" \in SqliteOps(port) /\ "opened" \in SqliteOps(port)
  /\ port = "agent" => "name" \in SqliteOps(port)
  /\ port = "inbox" => "claim" \in SqliteOps(port) /\ "claimed" \in SqliteOps(port)
  /\ port = "conversation" => {"turn", "finish", "derive", "reply", "runid"} \subseteq SqliteOps(port)
  /\ port = "execution" => "plan" \in SqliteOps(port) /\ "run" \in SqliteOps(port)
  /\ port = "account" => {"create", "insert", "update"} \subseteq SqliteOps(port)
BY DEF SqliteOps, SharedOp, AllOps

\* Where a call is says which port the behaviour is on.
LEMMA SqlitePortOf ==
  ASSUME Calls(SqliteOps(port)), NEW c \in Clients
  PROVE  /\ call[c].op = "name" => port = "agent"
         /\ call[c].op \in {"claim", "claimed"} => port = "inbox"
         /\ call[c].op \in {"turn", "finish", "derive", "reply", "runid"} => port = "conversation"
         /\ call[c].op \in {"plan", "run"} => port = "execution"
         /\ call[c].op \in {"create", "insert", "update"} => port = "account"
         /\ call[c].op \in {"open", "opened"} => port \in Inboxes
BY DEF Calls, SqliteOps, SharedOp, Inboxes

\* Opening a database, whose statements the agents' and the inbox's processes run.
LEMMA SqliteOpen ==
  ASSUME Shape, Calls(SqliteOps(port)), NEW c \in Clients, Lite!Open(c)
  PROVE  Moves(SqliteOps(port)) /\ port \in Inboxes /\ seen' = seen
<1>1. CASE Lite!OpenRead(c)
  <2>1. /\ call' = [call EXCEPT ![c] = [op |-> "open", seq |-> Lite!Floor(db, Lite!Table)]]
        /\ db' = db /\ port' = port
    BY <1>1 DEF Lite!OpenRead
  <2>2. port \in Inboxes /\ seen' = seen
    BY <1>1 DEF Lite!OpenRead, Inboxes
  <2>3. "open" \in SqliteOps(port) /\ DOMAIN db = DBFields
    BY <2>2, SqliteOpsAre DEF Shape
  <2> QED
    BY <2>1, <2>2, <2>3, CallMoves DEF Moves, Frame
<1>2. CASE Lite!OpenDelete(c)
  <2>1. /\ call' = [call EXCEPT ![c].op = "opened"] /\ db' = [db EXCEPT !.seq[Lite!Table] = 0]
        /\ port' = port /\ seen' = seen
    BY <1>2 DEF Lite!OpenDelete
  <2>2. port \in Inboxes
    BY <1>2, SqlitePortOf DEF Lite!OpenDelete
  <2>3. "opened" \in SqliteOps(port) /\ DOMAIN db' = DBFields
    BY <2>1, <2>2, SqliteOpsAre DEF Shape
  <2>4. Frame
    BY <2>1, <2>2 DEF Frame, Inboxes, Writes, Shape, Lite!Table, DBFields, Tables
  <2> QED
    BY <2>1, <2>2, <2>3, <2>4, CallMoves DEF Moves, Shape
<1>3. CASE Lite!OpenInsert(c)
  <2>1. /\ call' = [call EXCEPT ![c] = [op |-> "idle"]] /\ port' = port /\ seen' = seen
        /\ db' = [db EXCEPT !.seq[Lite!Table] = IF @ = 0 THEN call[c].seq ELSE @]
    BY <1>3 DEF Lite!OpenInsert
  <2>2. port \in Inboxes
    BY <1>3, SqlitePortOf DEF Lite!OpenInsert
  <2>3. "idle" \in SqliteOps(port) /\ DOMAIN db' = DBFields
    BY <2>1, <2>2, SqliteOpsAre DEF Shape
  <2>4. Frame
    BY <2>1, <2>2 DEF Frame, Inboxes, Writes, Shape, Lite!Table, DBFields, Tables
  <2> QED
    BY <2>1, <2>2, <2>3, <2>4, CallMoves DEF Moves, Shape
<1> QED
  BY <1>1, <1>2, <1>3 DEF Lite!Open

\* The task port moves no call and writes the task alone.
LEMMA SqliteTask ==
  ASSUME Shape, Calls(SqliteOps(port)), NEW c \in Clients, Lite!TaskStep(c)
  PROVE  Moves(SqliteOps(port)) /\ port = "task" /\ seen' = seen
<1>1. PICK w \in Lite!TaskRow : Lite!Does(c, "task", Lite!UpsertTask(db, w))
  BY DEF Lite!TaskStep
<1>2. port = "task" /\ port' = port /\ seen' = seen /\ call' = call /\ db' = Lite!UpsertTask(db, w)
  BY <1>1
<1>3. DOMAIN db' = DBFields /\ Frame
  BY <1>2 DEF Lite!UpsertTask, Frame, Writes, Shape, DBFields, Tables
<1> QED
  BY <1>2, <1>3, CallStays DEF Moves

\* The agent port writes agents and their sequence.
LEMMA SqliteAgent ==
  ASSUME Shape, Calls(SqliteOps(port)), NEW c \in Clients, Lite!AgentStep(c)
  PROVE  Moves(SqliteOps(port)) /\ port = "agent" /\ seen' = seen
<1>1. CASE Lite!UpsertNewAgent(c)
  <2>1. port = "agent" /\ port' = port /\ seen' = seen
    BY <1>1, SqlitePortOf DEF Lite!UpsertNewAgent
  <2>2. call' = [call EXCEPT ![c] = [op |-> "name", id |-> Lite!NextId(db, "agents")]]
    BY <1>1 DEF Lite!UpsertNewAgent
  <2>3. DOMAIN db' = DBFields /\ Frame
    BY <1>1, <2>1 DEF Lite!UpsertNewAgent, Lite!Insert, Frame, Writes, Shape, DBFields, Tables
  <2> QED
    BY <2>1, <2>2, <2>3, CallMoves, SqliteOpsAre DEF Moves
<1>2. CASE Lite!NameAgent(c)
  <2>1. port = "agent" /\ port' = port /\ seen' = seen
    BY <1>2, SqlitePortOf DEF Lite!NameAgent
  <2>2. call' = [call EXCEPT ![c] = [op |-> "idle"]]
    BY <1>2 DEF Lite!NameAgent
  <2>3. DOMAIN db' = DBFields /\ Frame
    BY <1>2, <2>1 DEF Lite!NameAgent, Frame, Writes, Shape, DBFields, Tables
  <2> QED
    BY <2>1, <2>2, <2>3, CallMoves, SqliteOpsAre DEF Moves
<1>3. ASSUME NEW a, Lite!Does(c, "agent", Lite!UpsertAgent(db, a)) \/ Lite!Does(c, "agent", Lite!SoftDeleteAgent(db, a))
      PROVE  Moves(SqliteOps(port)) /\ port = "agent" /\ seen' = seen
  <2>1. port = "agent" /\ port' = port /\ seen' = seen
    BY <1>3, SqlitePortOf DEF Lite!UpsertAgent
  <2>2. call' = call
    BY <1>3 DEF Lite!UpsertAgent
  <2>3. DOMAIN db' = DBFields /\ Frame
    BY <1>3, <2>1 DEF Lite!UpsertAgent, Lite!SoftDeleteAgent, Frame, Writes, Shape, DBFields, Tables
  <2> QED
    BY <2>1, <2>2, <2>3, CallStays DEF Moves
<1> QED
  BY <1>1, <1>2, <1>3 DEF Lite!AgentStep

\* The inbox port writes messages and their sequence.
LEMMA SqliteInbox ==
  ASSUME Shape, Calls(SqliteOps(port)), NEW c \in Clients, Lite!InboxStep(c)
  PROVE  Moves(SqliteOps(port)) /\ port = "inbox" /\ seen' = seen
<1>1. CASE Lite!Does(c, "inbox", Lite!EnqueueMessage(db))
  <2>1. port = "inbox" /\ port' = port /\ seen' = seen
    BY <1>1, SqlitePortOf DEF Lite!EnqueueMessage
  <2>2. call' = call
    BY <1>1 DEF Lite!EnqueueMessage
  <2>3. DOMAIN db' = DBFields /\ Frame
    BY <1>1, <2>1 DEF Lite!EnqueueMessage, Lite!Insert, Frame, Writes, Shape, DBFields, Tables
  <2> QED
    BY <2>1, <2>2, <2>3, CallStays DEF Moves
<1>2. CASE Lite!ClaimSelect(c)
  <2>1. port = "inbox" /\ port' = port /\ seen' = seen
    BY <1>2, SqlitePortOf DEF Lite!ClaimSelect
  <2>2. call' = [call EXCEPT ![c] = [op |-> "claim", id |-> Lite!Min(Lite!Queued(db))]]
    BY <1>2 DEF Lite!ClaimSelect
  <2>3. DOMAIN db' = DBFields /\ Frame
    BY <1>2, <2>1 DEF Lite!ClaimSelect, Frame, Writes, Shape, DBFields, Tables
  <2> QED
    BY <2>1, <2>2, <2>3, CallMoves, SqliteOpsAre DEF Moves
<1>3. ASSUME Lite!ClaimUpdate(c), Lite!StillQueued(call[c].id)
      PROVE  Moves(SqliteOps(port)) /\ port = "inbox" /\ seen' = seen
  <2>1. port = "inbox" /\ port' = port /\ seen' = seen
    BY <1>3, SqlitePortOf DEF Lite!ClaimUpdate
  <2>2. call' = [call EXCEPT ![c] = [call[c] EXCEPT !.op = "claimed"]]
    BY <1>3 DEF Lite!ClaimUpdate
  <2>3. DOMAIN db' = DBFields /\ Frame
    BY <1>3, <2>1 DEF Lite!ClaimUpdate, Frame, Writes, Shape, DBFields, Tables
  <2> QED
    BY <2>1, <2>2, <2>3, CallMoves, SqliteOpsAre DEF Moves, Shape
<1>4. ASSUME Lite!ClaimUpdate(c), ~Lite!StillQueued(call[c].id)
      PROVE  Moves(SqliteOps(port)) /\ port = "inbox" /\ seen' = seen
  <2>1. port = "inbox" /\ port' = port /\ seen' = seen
    BY <1>4, SqlitePortOf DEF Lite!ClaimUpdate
  <2>2. call' = [call EXCEPT ![c] = [op |-> "idle"]]
    BY <1>4 DEF Lite!ClaimUpdate
  <2>3. DOMAIN db' = DBFields /\ Frame
    BY <1>4, <2>1 DEF Lite!ClaimUpdate, Frame, Writes, Shape, DBFields, Tables
  <2> QED
    BY <2>1, <2>2, <2>3, CallMoves, SqliteOpsAre DEF Moves
<1>5. CASE Lite!FinishAgentMessage(c)
  <2>1. port = "inbox" /\ port' = port /\ seen' = seen
    BY <1>5, SqlitePortOf DEF Lite!FinishAgentMessage
  <2>2. call' = [call EXCEPT ![c] = [op |-> "idle"]]
    BY <1>5 DEF Lite!FinishAgentMessage
  <2>3. DOMAIN db' = DBFields /\ Frame
    BY <1>5, <2>1 DEF Lite!FinishAgentMessage, Frame, Writes, Shape, DBFields, Tables
  <2> QED
    BY <2>1, <2>2, <2>3, CallMoves, SqliteOpsAre DEF Moves
<1>6. CASE Lite!RequeueMessage(c)
  <2>1. port = "inbox" /\ port' = port /\ seen' = seen
    BY <1>6, SqlitePortOf DEF Lite!RequeueMessage
  <2>2. call' = [call EXCEPT ![c] = [op |-> "idle"]]
    BY <1>6 DEF Lite!RequeueMessage
  <2>3. DOMAIN db' = DBFields /\ Frame
    BY <1>6, <2>1 DEF Lite!RequeueMessage, Frame, Writes, Shape, DBFields, Tables
  <2> QED
    BY <2>1, <2>2, <2>3, CallMoves, SqliteOpsAre DEF Moves
<1>7. CASE Lite!RequeueRunningMessages(c)
  <2>1. port = "inbox" /\ port' = port /\ seen' = seen
    BY <1>7, SqlitePortOf DEF Lite!RequeueRunningMessages
  <2>2. call' = call
    BY <1>7 DEF Lite!RequeueRunningMessages
  <2>3. DOMAIN db' = DBFields /\ Frame
    BY <1>7, <2>1 DEF Lite!RequeueRunningMessages, Frame, Writes, Shape, DBFields, Tables
  <2> QED
    BY <2>1, <2>2, <2>3, CallStays DEF Moves
<1> QED
  BY <1>1, <1>2, <1>3, <1>4, <1>5, <1>6, <1>7 DEF Lite!InboxStep

\* The execution port writes plans, planned steps and steps.
LEMMA SqliteExecution ==
  ASSUME Shape, Calls(SqliteOps(port)), NEW c \in Clients, Lite!ExecutionStep(c)
  PROVE  Moves(SqliteOps(port)) /\ port = "execution" /\ seen' = seen
<1>1. CASE Lite!CreateExecutionPlan(c)
  <2>1. port = "execution" /\ port' = port /\ seen' = seen
    BY <1>1, SqlitePortOf DEF Lite!CreateExecutionPlan
  <2>2. call' = [call EXCEPT ![c] = [op |-> "plan", id |-> Lite!Highest(db.plans) + 1]]
    BY <1>1 DEF Lite!CreateExecutionPlan
  <2>3. DOMAIN db' = DBFields /\ Frame
    BY <1>1, <2>1 DEF Lite!CreateExecutionPlan, Frame, Writes, Shape, DBFields, Tables
  <2> QED
    BY <2>1, <2>2, <2>3, CallMoves, SqliteOpsAre DEF Moves
<1>2. CASE Lite!AppendExecutionStepPlans(c)
  <2>1. port = "execution" /\ port' = port /\ seen' = seen
    BY <1>2, SqlitePortOf DEF Lite!AppendExecutionStepPlans
  <2>2. call' = [call EXCEPT ![c] = [call[c] EXCEPT !.op = "run"]]
    BY <1>2 DEF Lite!AppendExecutionStepPlans
  <2>3. DOMAIN db' = DBFields /\ Frame
    BY <1>2, <2>1 DEF Lite!AppendExecutionStepPlans, Frame, Writes, Shape, DBFields, Tables
  <2> QED
    BY <2>1, <2>2, <2>3, CallMoves, SqliteOpsAre DEF Moves, Shape
<1>3. CASE Lite!AppendExecutionStep(c)
  <2>1. port = "execution" /\ port' = port /\ seen' = seen
    BY <1>3, SqlitePortOf DEF Lite!AppendExecutionStep
  <2>2. call' = call
    BY <1>3 DEF Lite!AppendExecutionStep
  <2>3. DOMAIN db' = DBFields /\ Frame
    BY <1>3, <2>1 DEF Lite!AppendExecutionStep, Frame, Writes, Shape, DBFields, Tables
  <2> QED
    BY <2>1, <2>2, <2>3, CallStays DEF Moves
<1>4. CASE Lite!AppendExecutionStepInteraction(c)
  <2>1. port = "execution" /\ port' = port /\ seen' = seen
    BY <1>4, SqlitePortOf DEF Lite!AppendExecutionStepInteraction
  <2>2. call' = call
    BY <1>4 DEF Lite!AppendExecutionStepInteraction
  <2>3. DOMAIN db' = DBFields /\ Frame
    BY <1>4, <2>1 DEF Lite!AppendExecutionStepInteraction, Frame, Writes, Shape, DBFields, Tables
  <2> QED
    BY <2>1, <2>2, <2>3, CallStays DEF Moves
<1>5. ASSUME Lite!Inside(c, "run"), call' = [call EXCEPT ![c] = Lite!Idle], Lite!Same(db)
      PROVE  Moves(SqliteOps(port)) /\ port = "execution" /\ seen' = seen
  <2>1. port = "execution" /\ port' = port /\ seen' = seen
    BY <1>5, SqlitePortOf DEF Inside
  <2>2. call' = [call EXCEPT ![c] = [op |-> "idle"]]
    BY <1>5 DEF Inside
  <2>3. DOMAIN db' = DBFields /\ Frame
    BY <1>5, <2>1 DEF Inside, Frame, Writes, Shape, DBFields, Tables
  <2> QED
    BY <2>1, <2>2, <2>3, CallMoves, SqliteOpsAre DEF Moves
<1> QED
  BY <1>1, <1>2, <1>3, <1>4, <1>5 DEF Lite!ExecutionStep

\* The verification port writes the contract and the verdicts.
LEMMA SqliteVerification ==
  ASSUME Shape, Calls(SqliteOps(port)), NEW c \in Clients, Lite!VerificationStep(c)
  PROVE  Moves(SqliteOps(port)) /\ port = "verification" /\ seen' = seen
<1>1. ASSUME NEW i, NEW t, Lite!Does(c, "verification", Lite!AppendCompletionContract(db, i, t))
      PROVE  Moves(SqliteOps(port)) /\ port = "verification" /\ seen' = seen
  <2>1. port = "verification" /\ port' = port /\ seen' = seen
    BY <1>1, SqlitePortOf DEF Lite!AppendCompletionContract
  <2>2. call' = call
    BY <1>1 DEF Lite!AppendCompletionContract
  <2>3. DOMAIN db' = DBFields /\ Frame
    BY <1>1, <2>1 DEF Lite!AppendCompletionContract, Frame, Writes, Shape, DBFields, Tables
  <2> QED
    BY <2>1, <2>2, <2>3, CallStays DEF Moves
<1>2. ASSUME NEW i, NEW b, Lite!Does(c, "verification", Lite!AppendVerification(db, i, b))
      PROVE  Moves(SqliteOps(port)) /\ port = "verification" /\ seen' = seen
  <2>1. port = "verification" /\ port' = port /\ seen' = seen
    BY <1>2, SqlitePortOf DEF Lite!AppendVerification
  <2>2. call' = call
    BY <1>2 DEF Lite!AppendVerification
  <2>3. DOMAIN db' = DBFields /\ Frame
    BY <1>2, <2>1 DEF Lite!AppendVerification, Frame, Writes, Shape, DBFields, Tables
  <2> QED
    BY <2>1, <2>2, <2>3, CallStays DEF Moves
<1> QED
  BY <1>1, <1>2 DEF Lite!VerificationStep

\* The account port writes accounts.
LEMMA SqliteAccount ==
  ASSUME Shape, Calls(SqliteOps(port)), NEW c \in Clients, Lite!AccountStep(c)
  PROVE  Moves(SqliteOps(port)) /\ port = "account" /\ seen' = seen
<1>1. ASSUME NEW k, NEW a, Lite!Enter(c, "account"), Lite!Same(db),
             call' = [call EXCEPT ![c] = [op |-> "create", id |-> k, row |-> a]]
      PROVE  Moves(SqliteOps(port)) /\ port = "account" /\ seen' = seen
  <2>1. port = "account" /\ port' = port /\ seen' = seen
    BY <1>1, SqlitePortOf DEF Inside
  <2>2. call' = [call EXCEPT ![c] = [op |-> "create", id |-> k, row |-> a]]
    BY <1>1 DEF Inside
  <2>3. DOMAIN db' = DBFields /\ Frame
    BY <1>1, <2>1 DEF Inside, Frame, Writes, Shape, DBFields, Tables
  <2> QED
    BY <2>1, <2>2, <2>3, CallMoves, SqliteOpsAre DEF Moves
<1>2. ASSUME NEW r, NEW ac, Lite!Inside(c, "create"), Lite!Same(db),
             call' = [call EXCEPT ![c] = [op |-> "insert", id |-> call[c].id, read |-> ac, row |-> r]]
      PROVE  Moves(SqliteOps(port)) /\ port = "account" /\ seen' = seen
  <2>1. port = "account" /\ port' = port /\ seen' = seen
    BY <1>2, SqlitePortOf DEF Inside
  <2>2. call' = [call EXCEPT ![c] = [op |-> "insert", id |-> call[c].id, read |-> ac, row |-> r]]
    BY <1>2 DEF Inside
  <2>3. DOMAIN db' = DBFields /\ Frame
    BY <1>2, <2>1 DEF Inside, Frame, Writes, Shape, DBFields, Tables
  <2> QED
    BY <2>1, <2>2, <2>3, CallMoves, SqliteOpsAre DEF Moves
<1>3. ASSUME NEW k, NEW a, Lite!Inside(c, "insert"), Lite!Same(<<>>), call' = [call EXCEPT ![c] = Lite!Idle],
             db' = db \/ db' = Lite!Claim(db, k, a)
      PROVE  Moves(SqliteOps(port)) /\ port = "account" /\ seen' = seen
  <2>1. port = "account" /\ port' = port /\ seen' = seen
    BY <1>3, SqlitePortOf DEF Lite!Claim
  <2>2. call' = [call EXCEPT ![c] = [op |-> "idle"]]
    BY <1>3 DEF Lite!Claim
  <2>3. DOMAIN db' = DBFields /\ Frame
    BY <1>3, <2>1 DEF Lite!Claim, Frame, Writes, Shape, DBFields, Tables
  <2> QED
    BY <2>1, <2>2, <2>3, CallMoves, SqliteOpsAre DEF Moves
<1>4. ASSUME NEW k, NEW a, Lite!Enter(c, "account"), Lite!Same(db),
             call' = [call EXCEPT ![c] = [op |-> "update", id |-> k, row |-> a]]
      PROVE  Moves(SqliteOps(port)) /\ port = "account" /\ seen' = seen
  <2>1. port = "account" /\ port' = port /\ seen' = seen
    BY <1>4, SqlitePortOf DEF Inside
  <2>2. call' = [call EXCEPT ![c] = [op |-> "update", id |-> k, row |-> a]]
    BY <1>4 DEF Inside
  <2>3. DOMAIN db' = DBFields /\ Frame
    BY <1>4, <2>1 DEF Inside, Frame, Writes, Shape, DBFields, Tables
  <2> QED
    BY <2>1, <2>2, <2>3, CallMoves, SqliteOpsAre DEF Moves
<1>5. ASSUME NEW k, NEW a, Lite!Inside(c, "update"), Lite!Same(<<>>), call' = [call EXCEPT ![c] = Lite!Idle],
             db' = Lite!Rewrite(db, k, a)
      PROVE  Moves(SqliteOps(port)) /\ port = "account" /\ seen' = seen
  <2>1. port = "account" /\ port' = port /\ seen' = seen
    BY <1>5, SqlitePortOf DEF Lite!Rewrite, Lite!Claim
  <2>2. call' = [call EXCEPT ![c] = [op |-> "idle"]]
    BY <1>5 DEF Lite!Rewrite, Lite!Claim
  <2>3. DOMAIN db' = DBFields /\ Frame
    BY <1>5, <2>1 DEF Lite!Rewrite, Lite!Claim, Frame, Writes, Shape, DBFields, Tables
  <2> QED
    BY <2>1, <2>2, <2>3, CallMoves, SqliteOpsAre DEF Moves
<1>6. ASSUME NEW k, Lite!Does(c, "account", Lite!DeleteAccount(db, k))
      PROVE  Moves(SqliteOps(port)) /\ port = "account" /\ seen' = seen
  <2>1. port = "account" /\ port' = port /\ seen' = seen
    BY <1>6, SqlitePortOf DEF Lite!DeleteAccount
  <2>2. call' = call
    BY <1>6 DEF Lite!DeleteAccount
  <2>3. DOMAIN db' = DBFields /\ Frame
    BY <1>6, <2>1 DEF Lite!DeleteAccount, Frame, Writes, Shape, DBFields, Tables
  <2> QED
    BY <2>1, <2>2, <2>3, CallStays DEF Moves
<1> QED
  BY <1>1, <1>2, <1>3, <1>4, <1>5, <1>6 DEF Lite!AccountStep, Lite!CreateAccount, Lite!UpdateAccount

\* The conversation port writes turns, messages, events and their sequence.
LEMMA SqliteConversation ==
  ASSUME Shape, Calls(SqliteOps(port)), NEW c \in Clients, Lite!ConversationStep(c)
  PROVE  Moves(SqliteOps(port)) /\ port = "conversation"
<1>1. CASE Lite!Does(c, "conversation", Lite!InsertReasonTurn(db, c))
  <2>1. port = "conversation" /\ port' = port
    BY <1>1, SqlitePortOf DEF Lite!InsertReasonTurn
  <2>2. call' = call
    BY <1>1 DEF Lite!InsertReasonTurn
  <2>3. DOMAIN db' = DBFields /\ Frame
    BY <1>1, <2>1 DEF Lite!InsertReasonTurn, Lite!insertMessageTx, Lite!insertReasonTurnTx, Lite!Insert, Frame, Writes, Shape, DBFields, Tables
  <2> QED
    BY <2>1, <2>2, <2>3, CallStays DEF Moves
<1>2. CASE Lite!BeginReasonTurn(c)
  <2>1. port = "conversation" /\ port' = port
    BY <1>2, SqlitePortOf DEF Lite!BeginReasonTurn
  <2>2. call' = [call EXCEPT ![c] = [op |-> "turn", turn |-> Lite!Highest(Lite!insertReasonTurnTx(db, c, "running").turns)]]
    BY <1>2 DEF Lite!BeginReasonTurn
  <2>3. DOMAIN db' = DBFields /\ Frame
    BY <1>2, <2>1 DEF Lite!BeginReasonTurn, Lite!insertMessageTx, Lite!insertReasonTurnTx, Lite!Insert, Frame, Writes, Shape, DBFields, Tables
  <2> QED
    BY <2>1, <2>2, <2>3, CallMoves, SqliteOpsAre DEF Moves
<1>3. CASE Lite!AppendLLMEvents(c)
  <2>1. port = "conversation" /\ port' = port
    BY <1>3, SqlitePortOf DEF Lite!AppendLLMEvents
  <2>2. call' = call
    BY <1>3 DEF Lite!AppendLLMEvents
  <2>3. DOMAIN db' = DBFields /\ Frame
    BY <1>3, <2>1 DEF Lite!AppendLLMEvents, Frame, Writes, Shape, DBFields, Tables
  <2> QED
    BY <2>1, <2>2, <2>3, CallStays DEF Moves
<1>4. CASE Lite!AppendLLMMessages(c)
  <2>1. port = "conversation" /\ port' = port
    BY <1>4, SqlitePortOf DEF Lite!AppendLLMMessages
  <2>2. call' = call
    BY <1>4 DEF Lite!AppendLLMMessages
  <2>3. DOMAIN db' = DBFields /\ Frame
    BY <1>4, <2>1 DEF Lite!AppendLLMMessages, Lite!insertDerivedMessage, Lite!Insert, Frame, Writes, Shape, DBFields, Tables
  <2> QED
    BY <2>1, <2>2, <2>3, CallStays DEF Moves
<1>5. ASSUME Lite!FinishReasonTurn(c), Lite!Inside(c, "turn")
      PROVE  Moves(SqliteOps(port)) /\ port = "conversation"
  <2>1. port = "conversation" /\ port' = port
    BY <1>5, SqlitePortOf DEF Lite!FinishReasonTurn
  <2>2. call' = [call EXCEPT ![c] = [call[c] EXCEPT !.op = "finish"]]
    BY <1>5 DEF Lite!FinishReasonTurn
  <2>3. DOMAIN db' = DBFields /\ Frame
    BY <1>5, <2>1 DEF Lite!FinishReasonTurn, Frame, Writes, Shape, DBFields, Tables
  <2> QED
    BY <2>1, <2>2, <2>3, CallMoves, SqliteOpsAre DEF Moves, Shape
<1>6. ASSUME NEW t, Lite!FinishReasonTurn(c), ~Lite!Inside(c, "turn"), call' = [call EXCEPT ![c] = [op |-> "finish", turn |-> t]]
      PROVE  Moves(SqliteOps(port)) /\ port = "conversation"
  <2>1. port = "conversation" /\ port' = port
    BY <1>6, SqlitePortOf DEF Lite!FinishReasonTurn
  <2>2. call' = [call EXCEPT ![c] = [op |-> "finish", turn |-> t]]
    BY <1>6 DEF Lite!FinishReasonTurn
  <2>3. DOMAIN db' = DBFields /\ Frame
    BY <1>6, <2>1 DEF Lite!FinishReasonTurn, Frame, Writes, Shape, DBFields, Tables
  <2> QED
    BY <2>1, <2>2, <2>3, CallMoves, SqliteOpsAre DEF Moves
<1>7. CASE Lite!FinishDerive(c)
  <2>1. port = "conversation" /\ port' = port
    BY <1>7, SqlitePortOf DEF Lite!FinishDerive
  <2>2. call' = [call EXCEPT ![c] = [op |-> "derive", turn |-> call[c].turn, todo |-> Lite!AggregateChatMessages(Lite!ListLLMEvents(db, call[c].turn))]]
    BY <1>7 DEF Lite!FinishDerive
  <2>3. DOMAIN db' = DBFields /\ Frame
    BY <1>7, <2>1 DEF Lite!FinishDerive, Frame, Writes, Shape, DBFields, Tables
  <2> QED
    BY <2>1, <2>2, <2>3, CallMoves, SqliteOpsAre DEF Moves
<1>8. CASE Lite!recordAggregatedMessages(c)
  <2>1. port = "conversation" /\ port' = port
    BY <1>8, SqlitePortOf DEF Lite!recordAggregatedMessages
  <2>2. call' = [call EXCEPT ![c] = [call[c] EXCEPT !.todo = [i \in DOMAIN @ \ {Lite!Min(DOMAIN call[c].todo)} |-> @[i]]]]
    BY <1>8 DEF Lite!recordAggregatedMessages
  <2>3. DOMAIN db' = DBFields /\ Frame
    BY <1>8, <2>1 DEF Lite!recordAggregatedMessages, Lite!insertDerivedMessage, Lite!Insert, Frame, Writes, Shape, DBFields, Tables
  <2>4. call[c].op = "derive" /\ "derive" \in SqliteOps(port)
    BY <1>8, <2>1, SqliteOpsAre DEF Lite!recordAggregatedMessages
  <2>5. PICK f : call' = [call EXCEPT ![c] = [call[c] EXCEPT !.todo = f]]
    BY <2>2
  <2> DEFINE v == [call[c] EXCEPT !.todo = f]
  <2>6. "op" \in DOMAIN v /\ v.op \in SqliteOps(port)
    BY <2>4 DEF Shape
  <2> HIDE DEF v
  <2>7. call' = [call EXCEPT ![c] = v]
    BY <2>5 DEF v
  <2> QED
    BY <2>1, <2>3, <2>6, <2>7, CallMoves DEF Moves
<1>9. ASSUME NEW n, Lite!FinishSeq(c), call' = [call EXCEPT ![c] = [op |-> "reply", turn |-> call[c].turn, seq |-> n]]
      PROVE  Moves(SqliteOps(port)) /\ port = "conversation"
  <2>1. port = "conversation" /\ port' = port
    BY <1>9, SqlitePortOf DEF Lite!FinishSeq
  <2>2. call' = [call EXCEPT ![c] = [op |-> "reply", turn |-> call[c].turn, seq |-> n]]
    BY <1>9 DEF Lite!FinishSeq
  <2>3. DOMAIN db' = DBFields /\ Frame
    BY <1>9, <2>1 DEF Lite!FinishSeq, Frame, Writes, Shape, DBFields, Tables
  <2> QED
    BY <2>1, <2>2, <2>3, CallMoves, SqliteOpsAre DEF Moves
<1>10. CASE Lite!recordAssistantMessage(c)
  <2>1. port = "conversation" /\ port' = port
    BY <1>10, SqlitePortOf DEF Lite!recordAssistantMessage
  <2>2. call' = [call EXCEPT ![c] = [call[c] EXCEPT !.op = "runid"]]
    BY <1>10 DEF Lite!recordAssistantMessage
  <2>3. DOMAIN db' = DBFields /\ Frame
    BY <1>10, <2>1 DEF Lite!recordAssistantMessage, Lite!insertMessageTx, Lite!insertReasonTurnTx, Lite!Insert, Frame, Writes, Shape, DBFields, Tables
  <2> QED
    BY <2>1, <2>2, <2>3, CallMoves, SqliteOpsAre DEF Moves, Shape
<1>11. CASE Lite!FinishRunId(c)
  <2>1. port = "conversation" /\ port' = port
    BY <1>11, SqlitePortOf DEF Lite!FinishRunId
  <2>2. call' = [call EXCEPT ![c] = [op |-> "idle"]]
    BY <1>11 DEF Lite!FinishRunId
  <2>3. DOMAIN db' = DBFields /\ Frame
    BY <1>11, <2>1 DEF Lite!FinishRunId, Frame, Writes, Shape, DBFields, Tables
  <2> QED
    BY <2>1, <2>2, <2>3, CallMoves, SqliteOpsAre DEF Moves
<1>12. CASE Lite!Poll(c)
  <2>1. port = "conversation" /\ port' = port
    BY <1>12, SqlitePortOf DEF Lite!Poll
  <2>2. call' = call
    BY <1>12 DEF Lite!Poll
  <2>3. DOMAIN db' = DBFields /\ Frame
    BY <1>12, <2>1 DEF Lite!Poll, Frame, Writes, Shape, DBFields, Tables
  <2> QED
    BY <2>1, <2>2, <2>3, CallStays DEF Moves
<1> QED
  BY <1>1, <1>2, <1>3, <1>4, <1>5, <1>6, <1>7, <1>8, <1>9, <1>10, <1>11, <1>12 DEF Lite!ConversationStep, Lite!FinishReasonTurn, Lite!FinishSeq

\* A step is a crash or a step of the port.
SqlitePortStep(c) ==
  \/ port \in Inboxes /\ Lite!Open(c)
  \/ port = "task" /\ Lite!TaskStep(c)
  \/ port = "agent" /\ Lite!AgentStep(c)
  \/ port = "inbox" /\ Lite!InboxStep(c)
  \/ port = "conversation" /\ Lite!ConversationStep(c)
  \/ port = "execution" /\ Lite!ExecutionStep(c)
  \/ port = "verification" /\ Lite!VerificationStep(c)
  \/ port = "account" /\ Lite!AccountStep(c)

\* A process that dies writes nothing.
LEMMA SqliteCrash ==
  ASSUME Shape, Calls(SqliteOps(port)), Lite!Crash
  PROVE  Moves(SqliteOps(port)) /\ seen' = seen /\ db' = db
<1>1. PICK c \in Clients : call' = [call EXCEPT ![c] = [op |-> "idle"]]
  BY DEF Lite!Crash
<1>2. port' = port /\ db' = db /\ seen' = seen /\ DOMAIN db' = DBFields
  BY DEF Lite!Crash, Shape
<1> QED
  BY <1>1, <1>2, CallMoves, SqliteOpsAre DEF Moves, Frame

\* Every step stays within its port.
LEMMA SqliteSteps ==
  ASSUME Shape, Calls(SqliteOps(port)), Lite!Next
  PROVE  /\ Moves(SqliteOps(port))
         /\ Lite!Crash \/ \E c \in Clients : SqlitePortStep(c)
<1>1. CASE Lite!Crash
  BY <1>1, SqliteCrash
<1>2. CASE ~Lite!Crash
  <2>1. PICK c \in Clients :
          \/ Lite!Open(c) \/ Lite!TaskStep(c) \/ Lite!AgentStep(c) \/ Lite!InboxStep(c) \/ Lite!ConversationStep(c)
          \/ Lite!ExecutionStep(c) \/ Lite!VerificationStep(c) \/ Lite!AccountStep(c)
    BY <1>2 DEF Lite!Next
  <2>2. Moves(SqliteOps(port)) /\ SqlitePortStep(c)
    BY <2>1, SqliteOpen, SqliteTask, SqliteAgent, SqliteInbox, SqliteConversation, SqliteExecution,
       SqliteVerification, SqliteAccount DEF SqlitePortStep
  <2> QED
    BY <2>2
<1> QED
  BY <1>1, <1>2

-----------------------------------------------------------------------------
(* Least and greatest members *)

\* A set of numbers has a least one, by the well-foundedness of <.
LEMMA Least ==
  ASSUME NEW S \in SUBSET Nat, NEW x \in S
  PROVE  \E m \in S : \A y \in S : m <= y
<1>1. PICK m \in S : \A y \in S : ~(<<y, m>> \in OpToRel(<, Nat))
  BY NatLessThanWellFounded, WFMin
<1>2. \A y \in S : ~(y < m)
  BY <1>1 DEF OpToRel
<1> QED
  BY <1>2

\* A bounded set of numbers has a greatest one.
LEMMA Greatest ==
  ASSUME NEW S \in SUBSET Nat, NEW x \in S, NEW n \in Nat, \A y \in S : y <= n
  PROVE  \E m \in S : \A y \in S : m >= y
<1> DEFINE T == {k \in Nat : \E y \in S : k = n - y}
<1>1. n - x \in T
  OBVIOUS
<1>2. T \in SUBSET Nat
  OBVIOUS
<1> HIDE DEF T
<1>3. PICK k \in T : \A j \in T : k <= j
  BY <1>1, <1>2, Least
<1>4. PICK m \in S : k = n - m
  BY <1>3 DEF T
<1>5. \A y \in S : n - y \in T
  BY DEF T
<1> QED
  BY <1>3, <1>4, <1>5

\* What Min chooses, in both copies of the operator.
LEMMA MinIs ==
  ASSUME NEW S \in SUBSET Nat, NEW x \in S
  PROVE  /\ Min(S) \in S /\ \A y \in S : Min(S) <= y
         /\ Lite!Min(S) = Min(S)
BY Least DEF Min, Lite!Min

\* What Max chooses, in both copies of the operator.
LEMMA MaxIs ==
  ASSUME NEW S \in SUBSET Nat, NEW x \in S, NEW n \in Nat, \A y \in S : y <= n
  PROVE  /\ Max(S) \in S /\ \A y \in S : Max(S) >= y
         /\ Lite!Max(S) = Max(S)
BY Greatest DEF Max, Lite!Max

\* Ids are numbers, and there is one nobody has reached.
Ids(d, t) ==
  /\ \A i \in DOMAIN d[t] : i \in Nat
  /\ \E n \in Nat : \A i \in DOMAIN d[t] : i <= n
  /\ t \in DOMAIN d.seq /\ d.seq[t] \in Nat

\* The highest id of a table is above every id.
LEMMA HighestIs ==
  ASSUME NEW f, \A i \in DOMAIN f : i \in Nat, NEW n \in Nat, \A i \in DOMAIN f : i <= n
  PROVE  /\ Highest(f) \in Nat /\ \A i \in DOMAIN f : i <= Highest(f)
         /\ Highest(f) = 0 \/ Highest(f) \in DOMAIN f
         /\ Lite!Highest(f) = Highest(f)
<1> DEFINE S == {0} \cup DOMAIN f
<1>1. S \in SUBSET Nat /\ 0 \in S /\ \A y \in S : y <= n
  OBVIOUS
<1> HIDE DEF S
<1>2. Max(S) \in S /\ (\A y \in S : Max(S) >= y) /\ Lite!Max(S) = Max(S)
  BY <1>1, MaxIs
<1>3. Highest(f) = Max(S) /\ Lite!Highest(f) = Lite!Max(S)
  BY DEF Highest, Lite!Highest, S
<1> QED
  BY <1>1, <1>2, <1>3 DEF S

\* The id AUTOINCREMENT hands out is above every id in the table and in the
\* sequence.
LEMMA NextIdIsNew ==
  ASSUME NEW d, NEW t, Ids(d, t)
  PROVE  /\ Lite!NextId(d, t) \in Nat \ {0} /\ d.seq[t] < Lite!NextId(d, t)
         /\ \A i \in DOMAIN d[t] : i < Lite!NextId(d, t)
<1> DEFINE f == d[t]
<1>1. PICK n \in Nat : \A i \in DOMAIN f : i <= n
  BY DEF Ids
<1>2. /\ Highest(f) \in Nat /\ \A i \in DOMAIN f : i <= Highest(f)
      /\ Lite!Highest(f) = Highest(f)
  BY <1>1, HighestIs DEF Ids
<1> DEFINE h == Highest(f)  s == d.seq[t]  S == {s, h}
<1>3. s \in Nat /\ h \in Nat
  BY <1>2 DEF Ids
<1>4. Lite!NextId(d, t) = 1 + Lite!Max(S)
  BY <1>2 DEF Lite!NextId
<1> HIDE DEF h, s
<1>5. \E m \in Nat : \A y \in S : y <= m
  <2>1. CASE s <= h
    BY <2>1, <1>3
  <2>2. CASE h <= s
    BY <2>2, <1>3
  <2> QED
    BY <2>1, <2>2, <1>3
<1>6. S \in SUBSET Nat /\ s \in S /\ h \in S
  BY <1>3
<1> HIDE DEF S
<1>7. Lite!Max(S) \in S /\ \A y \in S : Lite!Max(S) >= y
  BY <1>5, <1>6, MaxIs
<1>8. Lite!Max(S) \in Nat /\ Lite!Max(S) >= s /\ Lite!Max(S) >= h
  BY <1>6, <1>7
<1>9. \A i \in DOMAIN d[t] : i \in Nat /\ i <= h
  BY <1>2 DEF h, Ids
<1> QED
  BY <1>3, <1>4, <1>8, <1>9 DEF s

-----------------------------------------------------------------------------
(* Claims *)

Rows1 == \A i \in DOMAIN db.inbox : "status" \in DOMAIN db.inbox[i]
Claims ==
  \A c \in Clients :
    /\ call[c].op \in {"claim", "claimed"} => call[c].id \in DOMAIN db.inbox
    /\ call[c].op = "claimed" => db.inbox[call[c].id].status = "running"
Opening == \A c \in Clients : call[c].op \in {"open", "opened"} => call[c].seq \in Nat
InboxInv == port = "inbox" => Ids(db, "inbox") /\ Rows1 /\ Claims /\ Opening /\ OneOwner

SqliteBase == Shape /\ Calls(SqliteOps(port))

\* Ports without claims own nothing twice.
LEMMA NotClaimedElsewhere ==
  ASSUME NEW ops, Calls(ops), "claimed" \notin ops PROVE OneOwner
BY DEF Calls, OneOwner

\* The floor a process reads when it opens the inbox is a number.
LEMMA SqliteFloor ==
  ASSUME port = "inbox", Ids(db, "inbox") PROVE Lite!Floor(db, Lite!Table) \in Nat
<1>1. PICK n \in Nat : \A i \in DOMAIN db.inbox : i <= n
  BY DEF Ids
<1>2. Lite!Highest(db.inbox) \in Nat
  BY <1>1, HighestIs DEF Ids
<1> DEFINE h == Lite!Highest(db.inbox)  b == MessageIDBase - 1
<1>3. b \in Nat
  <2>1. {MessageIDBase} \subseteq Nat \ {0}
    BY StoreAssumption DEF StoreAssumption
  <2> QED
    BY <2>1
<1>4. Lite!Floor(db, Lite!Table) = Lite!Max({b, h})
  BY DEF Lite!Floor, Lite!Table, Lite!Base
<1> HIDE DEF h, b
<1>5. h \in Nat
  BY <1>2 DEF h
<1>6. \E m \in Nat : \A y \in {b, h} : y <= m
  <2>1. CASE b <= h
    BY <2>1, <1>3, <1>5
  <2>2. CASE h <= b
    BY <2>2, <1>3, <1>5
  <2> QED
    BY <2>1, <2>2, <1>3, <1>5
<1>7. {b, h} \in SUBSET Nat /\ b \in {b, h}
  BY <1>3, <1>5
<1>8. Lite!Max({b, h}) \in {b, h}
  BY <1>6, <1>7, MaxIs
<1> QED
  BY <1>4, <1>7, <1>8

\* A message is added at an id nobody has reached.
LEMMA EnqueueKeeps ==
  ASSUME Shape, port = "inbox", InboxInv, db' = Lite!Insert(db, "inbox", [status |-> "queued"]),
         call' = call, port' = port
  PROVE  InboxInv'
<1> DEFINE k == Lite!NextId(db, "inbox")
<1>1. k \in Nat /\ \A i \in DOMAIN db.inbox : i < k
  BY NextIdIsNew DEF InboxInv
<1>2. PICK n \in Nat : \A i \in DOMAIN db.inbox : i <= n
  BY DEF InboxInv, Ids
<1> DEFINE row == [status |-> "queued"]
<1>3. /\ db'.inbox = [x \in DOMAIN db.inbox \cup {k} |-> IF x = k THEN row ELSE db.inbox[x]]
      /\ db'.seq = [db.seq EXCEPT !["inbox"] = k]
  BY DEF Lite!Insert, Lite!Put, Shape, DBFields, Tables
<1> HIDE DEF k
<1>4. k \notin DOMAIN db.inbox
  BY <1>1
<1>5. Ids(db', "inbox")
  <2>1. \A i \in DOMAIN db'.inbox : i \in Nat /\ i <= k
    BY <1>1, <1>3 DEF InboxInv, Ids
  <2>2. "inbox" \in DOMAIN db'.seq /\ db'.seq["inbox"] \in Nat
    BY <1>1, <1>3 DEF InboxInv, Ids
  <2> QED
    BY <1>1, <2>1, <2>2 DEF Ids
<1>6. Rows1' /\ Claims'
  BY <1>3, <1>4 DEF InboxInv, Rows1, Claims
<1>7. Opening' /\ OneOwner'
  BY DEF InboxInv, Opening, OneOwner
<1> QED
  BY <1>5, <1>6, <1>7 DEF InboxInv, Ids

\* A message keeps its row, one client's call moves.
LEMMA StatusMoves ==
  ASSUME Shape, port = "inbox", InboxInv, port' = port, NEW c \in Clients, NEW i, NEW s, NEW v,
         db' = [db EXCEPT !.inbox[i].status = s], call' = [call EXCEPT ![c] = v],
         v.op \notin {"open", "opened"},
         \A e \in Clients \ {c} : call[e].op = "claimed" => call[e].id # i,
         \/ v.op = "idle"
         \/ v.op = "claimed" /\ v.id = i /\ i \in DOMAIN db.inbox /\ s = "running"
  PROVE  InboxInv'
<1>1. /\ DOMAIN db'.inbox = DOMAIN db.inbox /\ db'.seq = db.seq
      /\ \A j \in DOMAIN db.inbox : DOMAIN db'.inbox[j] = DOMAIN db.inbox[j]
      /\ \A j \in DOMAIN db.inbox : j # i => db'.inbox[j] = db.inbox[j]
      /\ i \in DOMAIN db.inbox => db'.inbox[i].status = s
  BY DEF Shape, DBFields, Tables, InboxInv, Rows1
<1>2. call'[c] = v /\ \A e \in Clients : e # c => call'[e] = call[e]
  BY DEF Shape
<1>3. Ids(db', "inbox") /\ Rows1'
  BY <1>1 DEF InboxInv, Ids, Rows1
<1>4. Claims'
  BY <1>1, <1>2 DEF InboxInv, Claims
<1>5. Opening'
  BY <1>2 DEF InboxInv, Opening
<1>6. OneOwner'
  BY <1>2 DEF InboxInv, OneOwner
<1> QED
  BY <1>3, <1>4, <1>5, <1>6 DEF InboxInv, Ids

\* The owner of a message writes its status and leaves.
LEMMA OwnerLeaves ==
  ASSUME Shape, port = "inbox", InboxInv, port' = port, NEW c \in Clients, call[c].op = "claimed",
         call' = [call EXCEPT ![c] = [op |-> "idle"]],
         \E s : db' = [db EXCEPT !.inbox[call[c].id].status = s]
  PROVE  InboxInv'
<1>1. PICK s : db' = [db EXCEPT !.inbox[call[c].id].status = s]
  OBVIOUS
<1> DEFINE i == call[c].id
<1>2. /\ DOMAIN db'.inbox = DOMAIN db.inbox /\ db'.seq = db.seq
      /\ \A j \in DOMAIN db.inbox : DOMAIN db'.inbox[j] = DOMAIN db.inbox[j]
      /\ \A j \in DOMAIN db.inbox : j # i => db'.inbox[j] = db.inbox[j]
  BY <1>1 DEF Shape, DBFields, Tables, InboxInv, Rows1
<1>3. call'[c].op = "idle" /\ \A e \in Clients : e # c => call'[e] = call[e]
  BY DEF Shape
<1>4. \A e \in Clients : e # c /\ call[e].op = "claimed" => call[e].id # i
  BY DEF InboxInv, OneOwner
<1> HIDE DEF i
<1>5. Ids(db', "inbox") /\ Rows1'
  BY <1>2 DEF InboxInv, Ids, Rows1
<1>6. Claims'
  <2> SUFFICES ASSUME NEW e \in Clients
               PROVE  /\ call'[e].op \in {"claim", "claimed"} => call'[e].id \in DOMAIN db'.inbox
                      /\ call'[e].op = "claimed" => db'.inbox[call'[e].id].status = "running"
    BY DEF Claims
  <2>1. CASE e = c
    BY <2>1, <1>3
  <2>2. CASE e # c
    <3>1. call'[e] = call[e]
      BY <2>2, <1>3
    <3>2. /\ call[e].op \in {"claim", "claimed"} => call[e].id \in DOMAIN db.inbox
          /\ call[e].op = "claimed" => db.inbox[call[e].id].status = "running"
      BY DEF InboxInv, Claims
    <3>3. call[e].op = "claimed" => call[e].id # i
      BY <2>2, <1>4
    <3>4. call[e].op = "claimed" => db'.inbox[call[e].id] = db.inbox[call[e].id]
      BY <1>2, <3>2, <3>3
    <3> QED
      BY <1>2, <3>1, <3>2, <3>4
  <2> QED
    BY <2>1, <2>2
<1>7. Opening'
  BY <1>3 DEF InboxInv, Opening
<1>8. OneOwner'
  BY <1>3 DEF InboxInv, OneOwner
<1> QED
  BY <1>5, <1>6, <1>7, <1>8 DEF InboxInv, Ids

\* The rows stay, one client's call moves.
LEMMA RowsStay ==
  ASSUME Shape, port = "inbox", InboxInv, port' = port, NEW c \in Clients, NEW v,
         db'.inbox = db.inbox, "inbox" \in DOMAIN db'.seq, db'.seq["inbox"] \in Nat,
         call' = [call EXCEPT ![c] = v],
         v.op = "claim" => v.id \in DOMAIN db.inbox,
         v.op \in {"open", "opened"} => v.seq \in Nat,
         v.op # "claimed"
  PROVE  InboxInv'
<1>2. call'[c] = v /\ \A e \in Clients : e # c => call'[e] = call[e]
  BY DEF Shape
<1>3. Ids(db', "inbox") /\ Rows1'
  BY DEF InboxInv, Ids, Rows1
<1>4. Claims'
  BY <1>2 DEF InboxInv, Claims
<1>5. Opening'
  BY <1>2 DEF InboxInv, Opening
<1>6. OneOwner'
  BY <1>2 DEF InboxInv, OneOwner
<1> QED
  BY <1>3, <1>4, <1>5, <1>6 DEF InboxInv, Ids

\* Requeueing the running rows, when nobody is inside a claim.
LEMMA ReclaimKeeps ==
  ASSUME Shape, port = "inbox", InboxInv, port' = port, call' = call,
         \A e \in Clients : call[e].op \notin {"claimed", "claim"},
         db' = [db EXCEPT !.inbox =
                  [i \in DOMAIN @ |-> IF @[i].status = "running" THEN [status |-> "queued"] ELSE @[i]]]
  PROVE  InboxInv'
<1>1. /\ DOMAIN db'.inbox = DOMAIN db.inbox /\ db'.seq = db.seq
      /\ \A j \in DOMAIN db.inbox : "status" \in DOMAIN db'.inbox[j]
  BY DEF Shape, DBFields, Tables, InboxInv, Rows1
<1> QED
  BY <1>1 DEF InboxInv, Ids, Rows1, Claims, Opening, OneOwner

\* A process dies inside its claim: the row stays running and is nobody's.
LEMMA CrashKeeps ==
  ASSUME Shape, port = "inbox", InboxInv, NEW c \in Clients, db' = db, port' = port,
         call' = [call EXCEPT ![c] = [op |-> "idle"]]
  PROVE  InboxInv'
<1> DEFINE v == [op |-> "idle"]
<1>1. v.op = "idle"
  OBVIOUS
<1> HIDE DEF v
<1>2. call' = [call EXCEPT ![c] = v]
  BY DEF v
<1>3. "inbox" \in DOMAIN db.seq /\ db.seq["inbox"] \in Nat
  BY DEF InboxInv, Ids
<1> QED
  BY <1>1, <1>2, <1>3, RowsStay

\* Every statement of the inbox port keeps a claimed row its owner's.
LEMMA SqliteInboxKeeps ==
  ASSUME SqliteBase, port = "inbox", InboxInv, NEW c \in Clients, SqlitePortStep(c), port' = port
  PROVE  InboxInv'
<1> USE DEF SqliteBase
<1>0. "inbox" \in DOMAIN db.seq /\ db.seq["inbox"] \in Nat
  BY DEF InboxInv, Ids
<1>1. CASE Lite!OpenRead(c)
  <2> DEFINE v == [op |-> "open", seq |-> Lite!Floor(db, Lite!Table)]
  <2>1. call' = [call EXCEPT ![c] = v] /\ db' = db
    BY <1>1 DEF Lite!OpenRead
  <2>2. v.op = "open" /\ v.seq \in Nat
    BY SqliteFloor DEF InboxInv
  <2> HIDE DEF v
  <2> QED
    BY <1>0, <2>1, <2>2, RowsStay
<1>2. CASE Lite!OpenDelete(c)
  <2> DEFINE v == [call[c] EXCEPT !.op = "opened"]
  <2>1. call' = [call EXCEPT ![c] = v] /\ db' = [db EXCEPT !.seq["inbox"] = 0]
    BY <1>2 DEF Lite!OpenDelete, Lite!Table
  <2>2. v.op = "opened" /\ v.seq \in Nat
    BY <1>2 DEF Lite!OpenDelete, InboxInv, Opening, Shape
  <2> HIDE DEF v
  <2>3. db'.inbox = db.inbox /\ "inbox" \in DOMAIN db'.seq /\ db'.seq["inbox"] \in Nat
    BY <1>0, <2>1 DEF Shape, DBFields, Tables
  <2> QED
    BY <2>1, <2>2, <2>3, RowsStay
<1>3. CASE Lite!OpenInsert(c)
  <2> DEFINE v == [op |-> "idle"]
  <2>1. /\ call' = [call EXCEPT ![c] = v]
        /\ db' = [db EXCEPT !.seq["inbox"] = IF @ = 0 THEN call[c].seq ELSE @]
    BY <1>3 DEF Lite!OpenInsert, Lite!Table
  <2>2. v.op = "idle" /\ call[c].seq \in Nat
    BY <1>3 DEF Lite!OpenInsert, InboxInv, Opening
  <2> HIDE DEF v
  <2>3. db'.inbox = db.inbox /\ "inbox" \in DOMAIN db'.seq /\ db'.seq["inbox"] \in Nat
    BY <1>0, <2>1, <2>2 DEF Shape, DBFields, Tables
  <2> QED
    BY <2>1, <2>2, <2>3, RowsStay
<1>4. CASE Lite!Does(c, "inbox", Lite!EnqueueMessage(db))
  BY <1>4, EnqueueKeeps DEF Lite!EnqueueMessage
<1>5. CASE Lite!ClaimSelect(c)
  <2> DEFINE v == [op |-> "claim", id |-> Lite!Min(Lite!Queued(db))]
  <2>1. call' = [call EXCEPT ![c] = v] /\ db' = db
    BY <1>5 DEF Lite!ClaimSelect
  <2>2. Lite!Queued(db) \in SUBSET Nat /\ Lite!Queued(db) # {}
    BY <1>5 DEF Lite!ClaimSelect, Lite!Queued, InboxInv, Ids
  <2>3. Lite!Min(Lite!Queued(db)) \in Lite!Queued(db)
    BY <2>2, MinIs
  <2>4. v.op = "claim" /\ v.id \in DOMAIN db.inbox
    BY <2>3 DEF Lite!Queued
  <2> HIDE DEF v
  <2> QED
    BY <1>0, <2>1, <2>4, RowsStay
<1>6. CASE Lite!ClaimUpdate(c) /\ Lite!StillQueued(call[c].id)
  <2> DEFINE v == [call[c] EXCEPT !.op = "claimed"]
  <2>1. /\ call' = [call EXCEPT ![c] = v]
        /\ db' = [db EXCEPT !.inbox[call[c].id].status = "running"]
    BY <1>6 DEF Lite!ClaimUpdate
  <2>2. v.op = "claimed" /\ v.id = call[c].id /\ call[c].id \in DOMAIN db.inbox
    BY <1>6 DEF Lite!ClaimUpdate, InboxInv, Claims, Shape
  <2>3. \A e \in Clients \ {c} : call[e].op = "claimed" => call[e].id # call[c].id
    BY <1>6 DEF Lite!StillQueued, InboxInv, Claims
  <2> HIDE DEF v
  <2> QED
    BY <2>1, <2>2, <2>3, StatusMoves
<1>7. CASE Lite!ClaimUpdate(c) /\ ~Lite!StillQueued(call[c].id)
  BY <1>7, CrashKeeps DEF Lite!ClaimUpdate
<1>8. CASE Lite!FinishAgentMessage(c)
  <2>1. PICK s : call' = [call EXCEPT ![c] = [op |-> "idle"]] /\ db' = [db EXCEPT !.inbox[call[c].id].status = s]
    BY <1>8 DEF Lite!FinishAgentMessage
  <2>2. call[c].op = "claimed"
    BY <1>8 DEF Lite!FinishAgentMessage
  <2> QED
    BY <2>1, <2>2, OwnerLeaves
<1>9. CASE Lite!RequeueMessage(c)
  <2>1. /\ call' = [call EXCEPT ![c] = [op |-> "idle"]] /\ call[c].op = "claimed"
        /\ \E s : db' = [db EXCEPT !.inbox[call[c].id].status = s]
    BY <1>9 DEF Lite!RequeueMessage
  <2> QED
    BY <2>1, OwnerLeaves
<1>10. CASE Lite!RequeueRunningMessages(c)
  BY <1>10, ReclaimKeeps DEF Lite!RequeueRunningMessages
<1> QED
  BY <1>1, <1>2, <1>3, <1>4, <1>5, <1>6, <1>7, <1>8, <1>9, <1>10 DEF SqlitePortStep, Lite!InboxStep, Lite!Open

SqliteOwnerInv == SqliteBase /\ InboxInv

\* The claims' invariant is inductive.
LEMMA SqliteOwnerStep ==
  ASSUME SqliteOwnerInv, [Lite!Next]_vars
  PROVE  SqliteOwnerInv'
<1>1. CASE vars' = vars
  <2>1. db' = db /\ call' = call /\ port' = port
    BY <1>1 DEF vars
  <2> QED
    BY <2>1 DEF SqliteOwnerInv, SqliteBase, InboxInv, Shape, Calls, Ids, Rows1, Claims, Opening, OneOwner
<1>2. CASE Lite!Next
  <2>1. Moves(SqliteOps(port)) /\ (Lite!Crash \/ \E c \in Clients : SqlitePortStep(c))
    BY <1>2, SqliteSteps DEF SqliteOwnerInv, SqliteBase
  <2>2. port' = port
    BY <2>1 DEF Moves, Frame
  <2>3. SqliteBase'
    BY <2>1, <2>2 DEF Moves, SqliteBase, Calls
  <2>4. ASSUME port = "inbox", Lite!Crash PROVE InboxInv'
    BY <2>2, <2>4, CrashKeeps DEF Lite!Crash, SqliteOwnerInv, SqliteBase
  <2>5. ASSUME port = "inbox", NEW c \in Clients, SqlitePortStep(c) PROVE InboxInv'
    BY <2>2, <2>5, SqliteInboxKeeps DEF SqliteOwnerInv
  <2>6. ASSUME port # "inbox" PROVE InboxInv'
    BY <2>2, <2>6 DEF InboxInv
  <2> QED
    BY <2>1, <2>3, <2>4, <2>5, <2>6 DEF SqliteOwnerInv
<1> QED
  BY <1>1, <1>2

\* An empty store with nobody inside a call.
LEMMA StoreStarts ==
  ASSUME Init
  PROVE  /\ Shape /\ \A c \in Clients : call[c].op = "idle"
         /\ \A t \in Tables : DOMAIN db[t] = {}
         /\ \A t \in {"agents", "inbox", "msgs"} : Ids(db, t)
         /\ db.seq["msgs"] \in Nat
<1>1. db = EmptyDB /\ call = [c \in Clients |-> [op |-> "idle"]] /\ port \in Ports
  BY DEF Init
<1>2. DOMAIN EmptyDB = DBFields /\ EmptyDB.seq = IDBases /\ \A t \in Tables : EmptyDB[t] = None
  BY DEF EmptyDB, DBFields, Tables
<1>3. DOMAIN None = {}
  BY DEF None
<1>4. \A t \in {"agents", "inbox", "msgs"} : t \in DOMAIN IDBases /\ IDBases[t] \in Nat
  <2>1. {AgentIDBase, MessageIDBase} \subseteq Nat \ {0}
    BY StoreAssumption DEF StoreAssumption
  <2> QED
    BY <2>1 DEF IDBases
<1>5. {"agents", "inbox", "msgs"} \subseteq Tables
  BY DEF Tables
<1>6. \A t \in {"agents", "inbox", "msgs"} : Ids(db, t)
  BY <1>1, <1>2, <1>3, <1>4, <1>5 DEF Ids
<1> QED
  BY <1>1, <1>2, <1>3, <1>4, <1>6 DEF Shape

\* The claims' invariant holds of an empty store.
LEMMA SqliteOwnerStart ==
  ASSUME Init PROVE SqliteOwnerInv
BY StoreStarts, SqliteOpsAre DEF SqliteOwnerInv, SqliteBase, Calls, InboxInv, Rows1, Claims, Opening, OneOwner, Tables

\* A claimed row has one owner on every port.
LEMMA SqliteOwns == SqliteOwnerInv => OneOwner
BY NotClaimedElsewhere DEF SqliteOwnerInv, SqliteBase, InboxInv, SqliteOps, SharedOp

\* A claimed message is one client's, on the sqlite engine (sqlite_inbox.go: the
\* UPDATE asks again whether the message is queued).
THEOREM OneOwnerOnSqlite == Lite!Spec => []OneOwner
<1>1. Lite!Init => SqliteOwnerInv
  BY SqliteOwnerStart DEF Lite!Init, Init, Lite!EmptyDB, EmptyDB, Lite!IDBases, IDBases, Lite!None, None, Lite!Tables, Tables
<1>2. SqliteOwnerInv /\ [Lite!Next]_(Lite!vars) => SqliteOwnerInv'
  BY SqliteOwnerStep DEF vars, Lite!vars
<1> QED
  BY <1>1, <1>2, SqliteOwns, PTL DEF Lite!Spec

-----------------------------------------------------------------------------
(* The postgres engine *)

\* The stages the steps of a port lead to are stages of that port.
LEMMA PostgresOpsAre ==
  /\ "idle" \in PostgresOps(port)
  /\ port \in Inboxes => "insert" \in PostgresOps(port)
  /\ port = "agent" => "name" \in PostgresOps(port) /\ "insert" \in PostgresOps(port)
  /\ port = "inbox" => {"claim", "claimed", "insert"} \subseteq PostgresOps(port)
  /\ port = "conversation" => {"turn", "flushed", "finish", "derive", "reply", "runid"} \subseteq PostgresOps(port)
  /\ port = "execution" => "plan" \in PostgresOps(port) /\ "run" \in PostgresOps(port)
  /\ port = "account" => {"create", "update", "count", "tx"} \subseteq PostgresOps(port)
BY DEF PostgresOps, SharedOp, AllOps, Inboxes

\* Where a call is says which port the behaviour is on.
LEMMA PostgresPortOf ==
  ASSUME Calls(PostgresOps(port)), NEW c \in Clients
  PROVE  /\ call[c].op = "name" => port = "agent"
         /\ call[c].op \in {"claim", "claimed"} => port = "inbox"
         /\ call[c].op \in {"turn", "flushed", "finish", "derive", "reply", "runid"} => port = "conversation"
         /\ call[c].op \in {"plan", "run"} => port = "execution"
         /\ call[c].op \in {"create", "update", "count", "tx"} => port = "account"
         /\ call[c].op = "insert" => port \in Inboxes
BY DEF Calls, PostgresOps, SharedOp, Inboxes

\* A step of one port's tables.
PostgresAgentStep(c) ==
  \/ UpsertAgent(c)
  \/ \E a \in {b \in DOMAIN db.agents : db.agents[b].named} : Does(c, "agent", SoftDeleteAgent(db, a))
PostgresInboxStep(c) ==
  EnqueueMessage(c) \/ ClaimNextMessage(c) \/ FinishAgentMessage(c) \/ RequeueMessage(c) \/ RequeueRunningMessages(c)
PostgresExecutionStep(c) ==
  \/ CreateExecutionPlan(c) \/ AppendExecutionStepPlans(c) \/ AppendExecutionStep(c)
  \/ AppendExecutionStepInteraction(c)
  \/ Inside(c, "run") /\ call' = [call EXCEPT ![c] = Idle] /\ Same(db)
PostgresVerificationStep(c) ==
  \/ \E i, t : Does(c, "verification", AppendCompletionContract(db, i, t))
  \/ \E i, b : Does(c, "verification", AppendVerification(db, i, b))
PostgresAccountStep(c) == CreateAccount(c) \/ UpdateAccount(c) \/ CommitAccount(c) \/ DeleteAccount(c)

\* Creating the sequences moves them alone.
LEMMA PostgresSequences ==
  ASSUME Shape, Calls(PostgresOps(port)), NEW c \in Clients, ensureIDSequences(c)
  PROVE  Moves(PostgresOps(port)) /\ port \in Inboxes /\ seen' = seen
<1>1. port \in Inboxes /\ port' = port /\ call' = call /\ seen' = seen
  BY DEF ensureIDSequences, Inboxes
<1>2. db' = [db EXCEPT !.seq[Lite!Table] = Lite!Floor(db, Lite!Table)]
  BY DEF ensureIDSequences
<1>3. DOMAIN db' = DBFields /\ Frame
  BY <1>1, <1>2 DEF Frame, Inboxes, Writes, Shape, Lite!Table, DBFields, Tables
<1> QED
  BY <1>1, <1>3, CallStays DEF Moves

\* The task port moves no call and writes the task alone.
LEMMA PostgresTask ==
  ASSUME Shape, Calls(PostgresOps(port)), NEW c \in Clients, NEW w, Does(c, "task", UpsertTask(db, w))
  PROVE  Moves(PostgresOps(port)) /\ port = "task" /\ seen' = seen
<1>1. port = "task" /\ port' = port /\ seen' = seen /\ call' = call /\ db' = Lite!UpsertTask(db, w)
  BY DEF UpsertTask
<1>2. DOMAIN db' = DBFields /\ Frame
  BY <1>1 DEF Lite!UpsertTask, Frame, Writes, Shape, DBFields, Tables
<1> QED
  BY <1>1, <1>2, CallStays DEF Moves

\* The agent port writes agents and their sequence.
LEMMA PostgresAgent ==
  ASSUME Shape, Calls(PostgresOps(port)), NEW c \in Clients, PostgresAgentStep(c)
  PROVE  Moves(PostgresOps(port)) /\ port = "agent" /\ seen' = seen
<1>1. CASE Nextval(c, "agent", "agents", [named |-> FALSE, deleted |-> FALSE])
  <2>1. port = "agent" /\ port' = port /\ seen' = seen
    BY <1>1, PostgresPortOf DEF Nextval
  <2>2. call' = [call EXCEPT ![c] = [op |-> "insert", id |-> db.seq["agents"] + 1, row |-> [named |-> FALSE, deleted |-> FALSE]]]
    BY <1>1 DEF Nextval
  <2>3. DOMAIN db' = DBFields /\ Frame
    BY <1>1, <2>1 DEF Nextval, Frame, Writes, Shape, DBFields, Tables
  <2> QED
    BY <2>1, <2>2, <2>3, CallMoves, PostgresOpsAre DEF Moves
<1>2. ASSUME NEW v, port = "agent", Committed(c, "agents"), call' = [call EXCEPT ![c] = v], "op" \in DOMAIN v, v.op \in {"idle", "name"}, Same(<<>>)
      PROVE  Moves(PostgresOps(port)) /\ port = "agent" /\ seen' = seen
  <2>1. port = "agent" /\ port' = port /\ seen' = seen
    BY <1>2, PostgresPortOf DEF Committed
  <2>2. call' = [call EXCEPT ![c] = v]
    BY <1>2 DEF Committed
  <2>3. DOMAIN db' = DBFields /\ Frame
    BY <1>2, <2>1 DEF Committed, Frame, Writes, Shape, DBFields, Tables
  <2>4. "op" \in DOMAIN v /\ v.op \in PostgresOps(port)
    BY <1>2, PostgresOpsAre
  <2> QED
    BY <2>1, <2>2, <2>3, <2>4, CallMoves DEF Moves
<1>3. CASE Lite!NameAgent(c)
  <2>1. port = "agent" /\ port' = port /\ seen' = seen
    BY <1>3, PostgresPortOf DEF Lite!NameAgent
  <2>2. call' = [call EXCEPT ![c] = [op |-> "idle"]]
    BY <1>3 DEF Lite!NameAgent
  <2>3. DOMAIN db' = DBFields /\ Frame
    BY <1>3, <2>1 DEF Lite!NameAgent, Frame, Writes, Shape, DBFields, Tables
  <2> QED
    BY <2>1, <2>2, <2>3, CallMoves, PostgresOpsAre DEF Moves
<1>4. ASSUME NEW a, Does(c, "agent", Lite!UpsertAgent(db, a)) \/ Does(c, "agent", Lite!SoftDeleteAgent(db, a))
      PROVE  Moves(PostgresOps(port)) /\ port = "agent" /\ seen' = seen
  <2>1. port = "agent" /\ port' = port /\ seen' = seen
    BY <1>4, PostgresPortOf DEF Lite!UpsertAgent
  <2>2. call' = call
    BY <1>4 DEF Lite!UpsertAgent
  <2>3. DOMAIN db' = DBFields /\ Frame
    BY <1>4, <2>1 DEF Lite!UpsertAgent, Lite!SoftDeleteAgent, Frame, Writes, Shape, DBFields, Tables
  <2> QED
    BY <2>1, <2>2, <2>3, CallStays DEF Moves
<1>5. ASSUME port = "agent", Committed(c, "agents"), Same(<<>>),
             call' = [call EXCEPT ![c] = IF db' = db THEN Idle ELSE [op |-> "name", id |-> @.id]]
      PROVE  Moves(PostgresOps(port)) /\ port = "agent" /\ seen' = seen
  <2>1. CASE db' = db
    <3>1. call' = [call EXCEPT ![c] = [op |-> "idle"]]
      BY <1>5, <2>1
    <3> DEFINE v == [op |-> "idle"]
    <3>2. "op" \in DOMAIN v /\ v.op \in {"idle", "name"} /\ call' = [call EXCEPT ![c] = v]
      BY <3>1
    <3> HIDE DEF v
    <3> QED
      BY <1>2, <1>5, <3>2
  <2>2. CASE db' # db
    <3>1. call' = [call EXCEPT ![c] = [op |-> "name", id |-> call[c].id]]
      BY <1>5, <2>2
    <3> DEFINE v == [op |-> "name", id |-> call[c].id]
    <3>2. "op" \in DOMAIN v /\ v.op \in {"idle", "name"} /\ call' = [call EXCEPT ![c] = v]
      BY <3>1
    <3> HIDE DEF v
    <3> QED
      BY <1>2, <1>5, <3>2
  <2> QED
    BY <2>1, <2>2
<1> QED
  BY <1>1, <1>3, <1>4, <1>5 DEF PostgresAgentStep, UpsertAgent, SoftDeleteAgent

\* The inbox port writes messages and their sequence.
LEMMA PostgresInbox ==
  ASSUME Shape, Calls(PostgresOps(port)), NEW c \in Clients, PostgresInboxStep(c)
  PROVE  Moves(PostgresOps(port)) /\ port = "inbox" /\ seen' = seen
<1>1. CASE Nextval(c, "inbox", "inbox", [status |-> "queued"])
  <2>1. port = "inbox" /\ port' = port /\ seen' = seen
    BY <1>1, PostgresPortOf DEF Nextval
  <2>2. call' = [call EXCEPT ![c] = [op |-> "insert", id |-> db.seq["inbox"] + 1, row |-> [status |-> "queued"]]]
    BY <1>1 DEF Nextval
  <2>3. DOMAIN db' = DBFields /\ Frame
    BY <1>1, <2>1 DEF Nextval, Frame, Writes, Shape, DBFields, Tables
  <2> QED
    BY <2>1, <2>2, <2>3, CallMoves, PostgresOpsAre DEF Moves
<1>2. ASSUME port = "inbox", Committed(c, "inbox"), call' = [call EXCEPT ![c] = Idle], Same(<<>>)
      PROVE  Moves(PostgresOps(port)) /\ port = "inbox" /\ seen' = seen
  <2>1. port = "inbox" /\ port' = port /\ seen' = seen
    BY <1>2, PostgresPortOf DEF Committed
  <2>2. call' = [call EXCEPT ![c] = [op |-> "idle"]]
    BY <1>2 DEF Committed
  <2>3. DOMAIN db' = DBFields /\ Frame
    BY <1>2, <2>1 DEF Committed, Frame, Writes, Shape, DBFields, Tables
  <2> QED
    BY <2>1, <2>2, <2>3, CallMoves, PostgresOpsAre DEF Moves
<1>3. CASE Lite!ClaimSelect(c)
  <2>1. port = "inbox" /\ port' = port /\ seen' = seen
    BY <1>3, PostgresPortOf DEF Lite!ClaimSelect
  <2>2. call' = [call EXCEPT ![c] = [op |-> "claim", id |-> Lite!Min(Lite!Queued(db))]]
    BY <1>3 DEF Lite!ClaimSelect
  <2>3. DOMAIN db' = DBFields /\ Frame
    BY <1>3, <2>1 DEF Lite!ClaimSelect, Frame, Writes, Shape, DBFields, Tables
  <2> QED
    BY <2>1, <2>2, <2>3, CallMoves, PostgresOpsAre DEF Moves
<1>4. ASSUME Lite!ClaimUpdate(c), Lite!StillQueued(call[c].id)
      PROVE  Moves(PostgresOps(port)) /\ port = "inbox" /\ seen' = seen
  <2>1. port = "inbox" /\ port' = port /\ seen' = seen
    BY <1>4, PostgresPortOf DEF Lite!ClaimUpdate
  <2>2. call' = [call EXCEPT ![c] = [call[c] EXCEPT !.op = "claimed"]]
    BY <1>4 DEF Lite!ClaimUpdate
  <2>3. DOMAIN db' = DBFields /\ Frame
    BY <1>4, <2>1 DEF Lite!ClaimUpdate, Frame, Writes, Shape, DBFields, Tables
  <2> QED
    BY <2>1, <2>2, <2>3, CallMoves, PostgresOpsAre DEF Moves, Shape
<1>5. ASSUME Lite!ClaimUpdate(c), ~Lite!StillQueued(call[c].id)
      PROVE  Moves(PostgresOps(port)) /\ port = "inbox" /\ seen' = seen
  <2>1. port = "inbox" /\ port' = port /\ seen' = seen
    BY <1>5, PostgresPortOf DEF Lite!ClaimUpdate
  <2>2. call' = [call EXCEPT ![c] = [op |-> "idle"]]
    BY <1>5 DEF Lite!ClaimUpdate
  <2>3. DOMAIN db' = DBFields /\ Frame
    BY <1>5, <2>1 DEF Lite!ClaimUpdate, Frame, Writes, Shape, DBFields, Tables
  <2> QED
    BY <2>1, <2>2, <2>3, CallMoves, PostgresOpsAre DEF Moves
<1>6. CASE Lite!FinishAgentMessage(c)
  <2>1. port = "inbox" /\ port' = port /\ seen' = seen
    BY <1>6, PostgresPortOf DEF Lite!FinishAgentMessage
  <2>2. call' = [call EXCEPT ![c] = [op |-> "idle"]]
    BY <1>6 DEF Lite!FinishAgentMessage
  <2>3. DOMAIN db' = DBFields /\ Frame
    BY <1>6, <2>1 DEF Lite!FinishAgentMessage, Frame, Writes, Shape, DBFields, Tables
  <2> QED
    BY <2>1, <2>2, <2>3, CallMoves, PostgresOpsAre DEF Moves
<1>7. CASE Lite!RequeueMessage(c)
  <2>1. port = "inbox" /\ port' = port /\ seen' = seen
    BY <1>7, PostgresPortOf DEF Lite!RequeueMessage
  <2>2. call' = [call EXCEPT ![c] = [op |-> "idle"]]
    BY <1>7 DEF Lite!RequeueMessage
  <2>3. DOMAIN db' = DBFields /\ Frame
    BY <1>7, <2>1 DEF Lite!RequeueMessage, Frame, Writes, Shape, DBFields, Tables
  <2> QED
    BY <2>1, <2>2, <2>3, CallMoves, PostgresOpsAre DEF Moves
<1>8. CASE Lite!RequeueRunningMessages(c)
  <2>1. port = "inbox" /\ port' = port /\ seen' = seen
    BY <1>8, PostgresPortOf DEF Lite!RequeueRunningMessages
  <2>2. call' = call
    BY <1>8 DEF Lite!RequeueRunningMessages
  <2>3. DOMAIN db' = DBFields /\ Frame
    BY <1>8, <2>1 DEF Lite!RequeueRunningMessages, Frame, Writes, Shape, DBFields, Tables
  <2> QED
    BY <2>1, <2>2, <2>3, CallStays DEF Moves
<1> QED
  BY <1>1, <1>2, <1>3, <1>4, <1>5, <1>6, <1>7, <1>8 DEF PostgresInboxStep, EnqueueMessage, ClaimNextMessage, FinishAgentMessage, RequeueMessage, RequeueRunningMessages

\* The execution port writes plans, planned steps and steps.
LEMMA PostgresExecution ==
  ASSUME Shape, Calls(PostgresOps(port)), NEW c \in Clients, PostgresExecutionStep(c)
  PROVE  Moves(PostgresOps(port)) /\ port = "execution" /\ seen' = seen
<1>1. CASE Lite!CreateExecutionPlan(c)
  <2>1. port = "execution" /\ port' = port /\ seen' = seen
    BY <1>1, PostgresPortOf DEF Lite!CreateExecutionPlan
  <2>2. call' = [call EXCEPT ![c] = [op |-> "plan", id |-> Lite!Highest(db.plans) + 1]]
    BY <1>1 DEF Lite!CreateExecutionPlan
  <2>3. DOMAIN db' = DBFields /\ Frame
    BY <1>1, <2>1 DEF Lite!CreateExecutionPlan, Frame, Writes, Shape, DBFields, Tables
  <2> QED
    BY <2>1, <2>2, <2>3, CallMoves, PostgresOpsAre DEF Moves
<1>2. CASE Lite!AppendExecutionStepPlans(c)
  <2>1. port = "execution" /\ port' = port /\ seen' = seen
    BY <1>2, PostgresPortOf DEF Lite!AppendExecutionStepPlans
  <2>2. call' = [call EXCEPT ![c] = [call[c] EXCEPT !.op = "run"]]
    BY <1>2 DEF Lite!AppendExecutionStepPlans
  <2>3. DOMAIN db' = DBFields /\ Frame
    BY <1>2, <2>1 DEF Lite!AppendExecutionStepPlans, Frame, Writes, Shape, DBFields, Tables
  <2> QED
    BY <2>1, <2>2, <2>3, CallMoves, PostgresOpsAre DEF Moves, Shape
<1>3. CASE Lite!AppendExecutionStep(c)
  <2>1. port = "execution" /\ port' = port /\ seen' = seen
    BY <1>3, PostgresPortOf DEF Lite!AppendExecutionStep
  <2>2. call' = call
    BY <1>3 DEF Lite!AppendExecutionStep
  <2>3. DOMAIN db' = DBFields /\ Frame
    BY <1>3, <2>1 DEF Lite!AppendExecutionStep, Frame, Writes, Shape, DBFields, Tables
  <2> QED
    BY <2>1, <2>2, <2>3, CallStays DEF Moves
<1>4. CASE Lite!AppendExecutionStepInteraction(c)
  <2>1. port = "execution" /\ port' = port /\ seen' = seen
    BY <1>4, PostgresPortOf DEF Lite!AppendExecutionStepInteraction
  <2>2. call' = call
    BY <1>4 DEF Lite!AppendExecutionStepInteraction
  <2>3. DOMAIN db' = DBFields /\ Frame
    BY <1>4, <2>1 DEF Lite!AppendExecutionStepInteraction, Frame, Writes, Shape, DBFields, Tables
  <2> QED
    BY <2>1, <2>2, <2>3, CallStays DEF Moves
<1>5. ASSUME Inside(c, "run"), call' = [call EXCEPT ![c] = Idle], Same(db)
      PROVE  Moves(PostgresOps(port)) /\ port = "execution" /\ seen' = seen
  <2>1. port = "execution" /\ port' = port /\ seen' = seen
    BY <1>5, PostgresPortOf DEF Inside
  <2>2. call' = [call EXCEPT ![c] = [op |-> "idle"]]
    BY <1>5 DEF Inside
  <2>3. DOMAIN db' = DBFields /\ Frame
    BY <1>5, <2>1 DEF Inside, Frame, Writes, Shape, DBFields, Tables
  <2> QED
    BY <2>1, <2>2, <2>3, CallMoves, PostgresOpsAre DEF Moves
<1> QED
  BY <1>1, <1>2, <1>3, <1>4, <1>5 DEF PostgresExecutionStep, CreateExecutionPlan, AppendExecutionStepPlans, AppendExecutionStep, AppendExecutionStepInteraction

\* The verification port writes the contract and the verdicts.
LEMMA PostgresVerification ==
  ASSUME Shape, Calls(PostgresOps(port)), NEW c \in Clients, PostgresVerificationStep(c)
  PROVE  Moves(PostgresOps(port)) /\ port = "verification" /\ seen' = seen
<1>1. ASSUME NEW i, NEW t, Lite!Does(c, "verification", Lite!AppendCompletionContract(db, i, t))
      PROVE  Moves(PostgresOps(port)) /\ port = "verification" /\ seen' = seen
  <2>1. port = "verification" /\ port' = port /\ seen' = seen
    BY <1>1, PostgresPortOf DEF Lite!AppendCompletionContract
  <2>2. call' = call
    BY <1>1 DEF Lite!AppendCompletionContract
  <2>3. DOMAIN db' = DBFields /\ Frame
    BY <1>1, <2>1 DEF Lite!AppendCompletionContract, Frame, Writes, Shape, DBFields, Tables
  <2> QED
    BY <2>1, <2>2, <2>3, CallStays DEF Moves
<1>2. ASSUME NEW i, NEW b, Lite!Does(c, "verification", Lite!AppendVerification(db, i, b))
      PROVE  Moves(PostgresOps(port)) /\ port = "verification" /\ seen' = seen
  <2>1. port = "verification" /\ port' = port /\ seen' = seen
    BY <1>2, PostgresPortOf DEF Lite!AppendVerification
  <2>2. call' = call
    BY <1>2 DEF Lite!AppendVerification
  <2>3. DOMAIN db' = DBFields /\ Frame
    BY <1>2, <2>1 DEF Lite!AppendVerification, Frame, Writes, Shape, DBFields, Tables
  <2> QED
    BY <2>1, <2>2, <2>3, CallStays DEF Moves
<1> QED
  BY <1>1, <1>2 DEF PostgresVerificationStep, AppendCompletionContract, AppendVerification

\* The account port writes accounts, in a transaction.
LEMMA PostgresAccount ==
  ASSUME Shape, Calls(PostgresOps(port)), NEW c \in Clients, PostgresAccountStep(c)
  PROVE  Moves(PostgresOps(port)) /\ port = "account" /\ seen' = seen
<1>1. ASSUME NEW k, NEW a, Enter(c, "account"), Same(db),
             call' = [call EXCEPT ![c] = [op |-> "create", id |-> k, row |-> a]]
      PROVE  Moves(PostgresOps(port)) /\ port = "account" /\ seen' = seen
  <2>1. port = "account" /\ port' = port /\ seen' = seen
    BY <1>1, PostgresPortOf DEF Inside
  <2>2. call' = [call EXCEPT ![c] = [op |-> "create", id |-> k, row |-> a]]
    BY <1>1 DEF Inside
  <2>3. DOMAIN db' = DBFields /\ Frame
    BY <1>1, <2>1 DEF Inside, Frame, Writes, Shape, DBFields, Tables
  <2> QED
    BY <2>1, <2>2, <2>3, CallMoves, PostgresOpsAre DEF Moves
<1>2. ASSUME NEW r, Inside(c, "create"), Same(db),
             call' = [call EXCEPT ![c] = [op |-> "count", id |-> call[c].id, row |-> r]]
      PROVE  Moves(PostgresOps(port)) /\ port = "account" /\ seen' = seen
  <2>1. port = "account" /\ port' = port /\ seen' = seen
    BY <1>2, PostgresPortOf DEF Inside
  <2>2. call' = [call EXCEPT ![c] = [op |-> "count", id |-> call[c].id, row |-> r]]
    BY <1>2 DEF Inside
  <2>3. DOMAIN db' = DBFields /\ Frame
    BY <1>2, <2>1 DEF Inside, Frame, Writes, Shape, DBFields, Tables
  <2> QED
    BY <2>1, <2>2, <2>3, CallMoves, PostgresOpsAre DEF Moves
<1>3. ASSUME NEW ids, NEW b, call[c].op \in {"count", "update"}, Same(db),
             call' = [call EXCEPT ![c] = [op |-> "tx", id |-> call[c].id, row |-> call[c].row, new |-> b, locked |-> ids]]
      PROVE  Moves(PostgresOps(port)) /\ port = "account" /\ seen' = seen
  <2>1. port = "account" /\ port' = port /\ seen' = seen
    BY <1>3, PostgresPortOf DEF Inside
  <2>2. call' = [call EXCEPT ![c] = [op |-> "tx", id |-> call[c].id, row |-> call[c].row, new |-> b, locked |-> ids]]
    BY <1>3 DEF Inside
  <2>3. DOMAIN db' = DBFields /\ Frame
    BY <1>3, <2>1 DEF Inside, Frame, Writes, Shape, DBFields, Tables
  <2> QED
    BY <2>1, <2>2, <2>3, CallMoves, PostgresOpsAre DEF Moves
<1>4. ASSUME NEW k, NEW a, Enter(c, "account"), Same(db),
             call' = [call EXCEPT ![c] = [op |-> "update", id |-> k, row |-> a]]
      PROVE  Moves(PostgresOps(port)) /\ port = "account" /\ seen' = seen
  <2>1. port = "account" /\ port' = port /\ seen' = seen
    BY <1>4, PostgresPortOf DEF Inside
  <2>2. call' = [call EXCEPT ![c] = [op |-> "update", id |-> k, row |-> a]]
    BY <1>4 DEF Inside
  <2>3. DOMAIN db' = DBFields /\ Frame
    BY <1>4, <2>1 DEF Inside, Frame, Writes, Shape, DBFields, Tables
  <2> QED
    BY <2>1, <2>2, <2>3, CallMoves, PostgresOpsAre DEF Moves
<1>5. CASE CommitAccount(c)
  <2>1. port = "account" /\ port' = port /\ seen' = seen
    BY <1>5, PostgresPortOf DEF CommitAccount
  <2>2. call' = [call EXCEPT ![c] = [op |-> "idle"]]
    BY <1>5 DEF CommitAccount
  <2>3. DOMAIN db' = DBFields /\ Frame
    BY <1>5, <2>1 DEF CommitAccount, WriteAccount, Frame, Writes, Shape, DBFields, Tables
  <2> QED
    BY <2>1, <2>2, <2>3, CallMoves, PostgresOpsAre DEF Moves
<1>6. ASSUME NEW k, Does(c, "account", Lite!DeleteAccount(db, k))
      PROVE  Moves(PostgresOps(port)) /\ port = "account" /\ seen' = seen
  <2>1. port = "account" /\ port' = port /\ seen' = seen
    BY <1>6, PostgresPortOf DEF Lite!DeleteAccount
  <2>2. call' = call
    BY <1>6 DEF Lite!DeleteAccount
  <2>3. DOMAIN db' = DBFields /\ Frame
    BY <1>6, <2>1 DEF Lite!DeleteAccount, Frame, Writes, Shape, DBFields, Tables
  <2> QED
    BY <2>1, <2>2, <2>3, CallStays DEF Moves
<1>7. CASE CreateAccount(c)
  BY <1>1, <1>2, <1>3, <1>7 DEF CreateAccount, ClearDefaults
<1>8. CASE UpdateAccount(c)
  <2>1. CASE Enter(c, "account")
    BY <1>4, <1>8, <2>1 DEF UpdateAccount
  <2>2. CASE call[c].op = "update"
    BY <1>3, <1>8, <2>2 DEF UpdateAccount, ClearDefaults
  <2> QED
    BY <1>8, <2>1, <2>2 DEF UpdateAccount
<1> QED
  BY <1>5, <1>6, <1>7, <1>8 DEF PostgresAccountStep, DeleteAccount

\* What an event writes.
LEMMA FlushWrites ==
  ASSUME NEW d, DOMAIN d = DBFields, NEW t, NEW kept
  PROVE  /\ DOMAIN flush(d, t, kept) = DBFields
         /\ \A x \in DBFields : x = "events" \/ flush(d, t, kept)[x] = d[x]
BY DEF flush, AppendLLMEvents, DBFields, Tables

\* A live trace writes messages and their sequence.
LEMMA EmitWrites ==
  ASSUME NEW d, DOMAIN d = DBFields, NEW t, NEW out, NEW told
  PROVE  /\ DOMAIN emitMessages(d, t, out, told) = DBFields
         /\ \A x \in DBFields : x \in {"msgs", "seq"} \/ emitMessages(d, t, out, told)[x] = d[x]
BY DEF emitMessages, AppendLLMMessages, DBFields, Tables

\* A streamed event writes tables of the conversation, whatever is lost.
LEMMA StreamStep ==
  ASSUME Shape, port = "conversation", NEW c, NEW t, NEW agg, NEW full, Step(c, t, agg, full), port' = port
  PROVE  DOMAIN db' = DBFields /\ Frame
<1>1. PICK kept, told \in BOOLEAN : db' = emitMessages(IF full THEN flush(db, t, kept) ELSE db, t, agg.out, told)
  BY DEF Step
<1> DEFINE d == IF full THEN flush(db, t, kept) ELSE db
           out == agg.out
<1>2. DOMAIN d = DBFields /\ \A x \in DBFields : x = "events" \/ d[x] = db[x]
  <2>1. CASE full
    <3>1. d = flush(db, t, kept) /\ DOMAIN db = DBFields
      BY <2>1 DEF Shape
    <3> HIDE DEF d
    <3> QED
      BY <3>1, FlushWrites
  <2>2. CASE ~full
    BY <2>2 DEF Shape
  <2> QED
    BY <2>1, <2>2
<1>3. db' = emitMessages(d, t, out, told)
  BY <1>1
<1> HIDE DEF d, out
<1>4. DOMAIN db' = DBFields /\ \A x \in DBFields : x \in {"msgs", "seq"} \/ db'[x] = d[x]
  BY <1>2, <1>3, EmitWrites
<1>5. \A x \in DBFields : Writes(port, x) \/ (x \notin {"msgs", "seq", "events"})
  BY DEF Writes
<1> QED
  BY <1>2, <1>4, <1>5 DEF Frame

\* The conversation port writes turns, messages, events and their sequence.
LEMMA PostgresConversation ==
  ASSUME Shape, Calls(PostgresOps(port)), NEW c \in Clients, ConversationStep(c)
  PROVE  Moves(PostgresOps(port)) /\ port = "conversation"
<1>1. CASE Lite!BeginReasonTurn(c)
  <2>1. port = "conversation" /\ port' = port
    BY <1>1, PostgresPortOf DEF Lite!BeginReasonTurn
  <2>2. call' = [call EXCEPT ![c] = [op |-> "turn", turn |-> Lite!Highest(Lite!insertReasonTurnTx(db, c, "running").turns)]]
    BY <1>1 DEF Lite!BeginReasonTurn
  <2>3. DOMAIN db' = DBFields /\ Frame
    BY <1>1, <2>1 DEF Lite!BeginReasonTurn, Lite!insertMessageTx, Lite!insertReasonTurnTx, Lite!Insert, Frame, Writes, Shape, DBFields, Tables
  <2> QED
    BY <2>1, <2>2, <2>3, CallMoves, PostgresOpsAre DEF Moves
<1>2. ASSUME NEW e, EmitEvent(c, e)
      PROVE  Moves(PostgresOps(port)) /\ port = "conversation"
  <2>1. port = "conversation" /\ port' = port
    BY <1>2, PostgresPortOf DEF EmitEvent
  <2>2. call' = call
    BY <1>2 DEF EmitEvent
  <2>3. DOMAIN db' = DBFields /\ Frame
    BY <1>2, <2>1, StreamStep DEF EmitEvent
  <2> QED
    BY <2>1, <2>2, <2>3, CallStays DEF Moves
<1>3. CASE Finish(c)
  <2>1. port = "conversation" /\ port' = port
    BY <1>3, PostgresPortOf DEF Finish
  <2>2. call' = [call EXCEPT ![c] = [call[c] EXCEPT !.op = "flushed"]]
    BY <1>3 DEF Finish
  <2>3. DOMAIN db' = DBFields /\ Frame
    BY <1>3, <2>1, StreamStep DEF Finish
  <2> QED
    BY <2>1, <2>2, <2>3, CallMoves, PostgresOpsAre DEF Moves, Shape
<1>4. CASE FinishDerive(c)
  <2>1. port = "conversation" /\ port' = port
    BY <1>4, PostgresPortOf DEF FinishDerive
  <2>2. call' = [call EXCEPT ![c] = [op |-> "derive", turn |-> call[c].turn, todo |-> AggregateChatMessages(ListLLMEvents(readPool, call[c].turn))]]
    BY <1>4 DEF FinishDerive
  <2>3. DOMAIN db' = DBFields /\ Frame
    BY <1>4, <2>1 DEF FinishDerive, Frame, Writes, Shape, DBFields, Tables
  <2> QED
    BY <2>1, <2>2, <2>3, CallMoves, PostgresOpsAre DEF Moves
<1>5. CASE FinishFails(c)
  <2>1. port = "conversation" /\ port' = port
    BY <1>5, PostgresPortOf DEF FinishFails
  <2>2. call' = [call EXCEPT ![c] = [call[c] EXCEPT !.op = "runid"]]
    BY <1>5 DEF FinishFails
  <2>3. DOMAIN db' = DBFields /\ Frame
    BY <1>5, <2>1 DEF FinishFails, Frame, Writes, Shape, DBFields, Tables
  <2> QED
    BY <2>1, <2>2, <2>3, CallMoves, PostgresOpsAre DEF Moves, Shape
<1>6. CASE Lite!FinishRunId(c)
  <2>1. port = "conversation" /\ port' = port
    BY <1>6, PostgresPortOf DEF Lite!FinishRunId
  <2>2. call' = [call EXCEPT ![c] = [op |-> "idle"]]
    BY <1>6 DEF Lite!FinishRunId
  <2>3. DOMAIN db' = DBFields /\ Frame
    BY <1>6, <2>1 DEF Lite!FinishRunId, Frame, Writes, Shape, DBFields, Tables
  <2> QED
    BY <2>1, <2>2, <2>3, CallMoves, PostgresOpsAre DEF Moves
<1>7. CASE FinishReasonTurn(c)
  <2>1. port = "conversation" /\ port' = port
    BY <1>7, PostgresPortOf DEF FinishReasonTurn
  <2>2. call' = [call EXCEPT ![c] = [call[c] EXCEPT !.op = "finish"]]
    BY <1>7 DEF FinishReasonTurn
  <2>3. DOMAIN db' = DBFields /\ Frame
    BY <1>7, <2>1 DEF FinishReasonTurn, Frame, Writes, Shape, DBFields, Tables
  <2> QED
    BY <2>1, <2>2, <2>3, CallMoves, PostgresOpsAre DEF Moves, Shape
<1>8. CASE Lite!recordAggregatedMessages(c)
  <2>1. port = "conversation" /\ port' = port
    BY <1>8, PostgresPortOf DEF Lite!recordAggregatedMessages
  <2>2. call' = [call EXCEPT ![c] = [call[c] EXCEPT !.todo = [i \in DOMAIN @ \ {Lite!Min(DOMAIN call[c].todo)} |-> @[i]]]]
    BY <1>8 DEF Lite!recordAggregatedMessages
  <2>3. DOMAIN db' = DBFields /\ Frame
    BY <1>8, <2>1 DEF Lite!recordAggregatedMessages, Lite!insertDerivedMessage, Lite!Insert, Frame, Writes, Shape, DBFields, Tables
  <2>4. call[c].op = "derive" /\ "derive" \in PostgresOps(port)
    BY <1>8, <2>1, PostgresOpsAre DEF Lite!recordAggregatedMessages
  <2>5. PICK f : call' = [call EXCEPT ![c] = [call[c] EXCEPT !.todo = f]]
    BY <2>2
  <2> DEFINE v == [call[c] EXCEPT !.todo = f]
  <2>6. "op" \in DOMAIN v /\ v.op \in PostgresOps(port)
    BY <2>4 DEF Shape
  <2> HIDE DEF v
  <2>7. call' = [call EXCEPT ![c] = v]
    BY <2>5 DEF v
  <2> QED
    BY <2>1, <2>3, <2>6, <2>7, CallMoves DEF Moves
<1>9. ASSUME NEW n, FinishSeq(c), call' = [call EXCEPT ![c] = [op |-> "reply", turn |-> call[c].turn, seq |-> n]]
      PROVE  Moves(PostgresOps(port)) /\ port = "conversation"
  <2>1. port = "conversation" /\ port' = port
    BY <1>9, PostgresPortOf DEF FinishSeq
  <2>2. call' = [call EXCEPT ![c] = [op |-> "reply", turn |-> call[c].turn, seq |-> n]]
    BY <1>9 DEF FinishSeq
  <2>3. DOMAIN db' = DBFields /\ Frame
    BY <1>9, <2>1 DEF FinishSeq, Frame, Writes, Shape, DBFields, Tables
  <2> QED
    BY <2>1, <2>2, <2>3, CallMoves, PostgresOpsAre DEF Moves
<1>10. CASE Lite!recordAssistantMessage(c)
  <2>1. port = "conversation" /\ port' = port
    BY <1>10, PostgresPortOf DEF Lite!recordAssistantMessage
  <2>2. call' = [call EXCEPT ![c] = [call[c] EXCEPT !.op = "runid"]]
    BY <1>10 DEF Lite!recordAssistantMessage
  <2>3. DOMAIN db' = DBFields /\ Frame
    BY <1>10, <2>1 DEF Lite!recordAssistantMessage, Lite!insertMessageTx, Lite!insertReasonTurnTx, Lite!Insert, Frame, Writes, Shape, DBFields, Tables
  <2> QED
    BY <2>1, <2>2, <2>3, CallMoves, PostgresOpsAre DEF Moves, Shape
<1>11. CASE Does(c, "conversation", Lite!InsertReasonTurn(db, c))
  <2>1. port = "conversation" /\ port' = port
    BY <1>11, PostgresPortOf DEF Lite!InsertReasonTurn
  <2>2. call' = call
    BY <1>11 DEF Lite!InsertReasonTurn
  <2>3. DOMAIN db' = DBFields /\ Frame
    BY <1>11, <2>1 DEF Lite!InsertReasonTurn, Lite!insertMessageTx, Lite!insertReasonTurnTx, Lite!Insert, Frame, Writes, Shape, DBFields, Tables
  <2> QED
    BY <2>1, <2>2, <2>3, CallStays DEF Moves
<1> QED
  BY <1>1, <1>2, <1>3, <1>4, <1>5, <1>6, <1>7, <1>8, <1>9, <1>10, <1>11 DEF ConversationStep, BeginLLMTraceFrom, FinishStored, Origin, FinishSeq, BeginReasonTurn, FinishRunId, recordAggregatedMessages, recordAssistantMessage, InsertReasonTurn

\* A poll writes nothing.
LEMMA PostgresPoll ==
  ASSUME Shape, Calls(PostgresOps(port)), NEW c \in Clients, Poll(c)
  PROVE  Moves(PostgresOps(port)) /\ port = "conversation" /\ db' = db
<1>1. port = "conversation" /\ port' = port /\ call' = call /\ db' = db
  BY DEF Poll
<1> QED
  BY <1>1, CallStays DEF Moves, Frame, Shape

\* A process that dies writes nothing.
LEMMA PostgresCrash ==
  ASSUME Shape, Calls(PostgresOps(port)), Crash
  PROVE  Moves(PostgresOps(port)) /\ seen' = seen /\ db' = db
<1>1. PICK c \in Clients : call' = [call EXCEPT ![c] = [op |-> "idle"]]
  BY DEF Crash
<1>2. port' = port /\ db' = db /\ seen' = seen /\ DOMAIN db' = DBFields
  BY DEF Crash, Shape
<1> QED
  BY <1>1, <1>2, CallMoves, PostgresOpsAre DEF Moves, Frame

\* A step is the follower's, a crash, or a step of the port.
PostgresPortStep(c) ==
  \/ port \in Inboxes /\ ensureIDSequences(c)
  \/ port = "task" /\ \E w \in TaskRow : Does(c, "task", UpsertTask(db, w))
  \/ port = "agent" /\ PostgresAgentStep(c)
  \/ port = "inbox" /\ PostgresInboxStep(c)
  \/ port = "conversation" /\ (ConversationStep(c) \/ Poll(c))
  \/ port = "execution" /\ PostgresExecutionStep(c)
  \/ port = "verification" /\ PostgresVerificationStep(c)
  \/ port = "account"

\* Every step stays within its port, and only replication moves the follower.
LEMMA PostgresSteps ==
  ASSUME Shape, Calls(PostgresOps(port)), TraceNext
  PROVE  /\ Moves(PostgresOps(port))
         /\ Replicate \/ Crash \/ \E c \in Clients : PostgresPortStep(c)
         /\ Replicate \/ (reader' = reader /\ replica' = replica)
<1>1. CASE Replicate
  <2>1. call' = call /\ db' = db /\ port' = port
    BY <1>1 DEF Replicate
  <2> QED
    BY <1>1, <2>1, CallStays DEF Moves, Frame, Shape
<1>2. CASE ~Replicate /\ Crash
  BY <1>2, PostgresCrash DEF TraceNext
<1>3. CASE ~Replicate /\ ~Crash
  <2>1. reader' = reader /\ replica' = replica
    BY <1>3 DEF TraceNext
  <2>2. PICK c \in Clients : TableStep(c) \/ Poll(c) \/ ConversationStep(c)
    BY <1>3 DEF TraceNext
  <2>3. CASE Poll(c)
    BY <2>1, <2>3, PostgresPoll DEF PostgresPortStep
  <2>4. CASE ConversationStep(c)
    BY <2>1, <2>4, PostgresConversation DEF PostgresPortStep
  <2>5. CASE TableStep(c)
    <3>1. \/ ensureIDSequences(c)
          \/ \E w \in TaskRow : Does(c, "task", UpsertTask(db, w))
          \/ PostgresAgentStep(c) \/ PostgresInboxStep(c) \/ PostgresExecutionStep(c)
          \/ PostgresVerificationStep(c) \/ PostgresAccountStep(c)
      BY <2>5 DEF TableStep, PostgresAgentStep, PostgresInboxStep, PostgresExecutionStep, PostgresVerificationStep,
                  PostgresAccountStep
    <3> QED
      BY <2>1, <3>1, PostgresSequences, PostgresTask, PostgresAgent, PostgresInbox, PostgresExecution,
         PostgresVerification, PostgresAccount DEF PostgresPortStep
  <2> QED
    BY <2>2, <2>3, <2>4, <2>5
<1> QED
  BY <1>1, <1>2, <1>3

\* The row an insert holds an id for.
Inserting ==
  port = "inbox" =>
    \A c \in Clients : call[c].op = "insert" => call[c].row = [status |-> "queued"] /\ call[c].id \in Nat

\* A call that holds no id for a message yet, or one for a queued row.
LEMMA InsertingMoves ==
  ASSUME Shape, Inserting, port' = port, NEW c \in Clients, NEW v, call' = [call EXCEPT ![c] = v],
         port = "inbox" => (v.op = "insert" => v.row = [status |-> "queued"] /\ v.id \in Nat)
  PROVE  Inserting'
<1>1. call'[c] = v /\ \A e \in Clients : e # c => call'[e] = call[e]
  BY DEF Shape
<1> QED
  BY <1>1 DEF Inserting

\* A call that is over holds no id.
LEMMA IdleInserts ==
  ASSUME Shape, Inserting, port' = port, NEW c \in Clients, call' = [call EXCEPT ![c] = [op |-> "idle"]]
  PROVE  Inserting'
<1>1. call'[c].op = "idle" /\ \A e \in Clients : e # c => call'[e] = call[e]
  BY DEF Shape
<1> QED
  BY <1>1 DEF Inserting

\* The insert commits at the id it holds, or finds it taken.
LEMMA InsertKeeps ==
  ASSUME Shape, port = "inbox", InboxInv, Inserting, NEW c \in Clients, Committed(c, "inbox"),
         call' = [call EXCEPT ![c] = [op |-> "idle"]], port' = port
  PROVE  InboxInv'
<1> DEFINE k == call[c].id
           row == [status |-> "queued"]
<1>1. k \in Nat /\ call[c].row = row /\ call[c].op = "insert"
  BY DEF Committed, Inserting
<1>2. CASE k \in DOMAIN db.inbox
  <2>1. db' = db
    BY <1>2 DEF Committed, DuplicateKey
  <2> QED
    BY <2>1, CrashKeeps
<1>3. CASE k \notin DOMAIN db.inbox
  <2>1. /\ db'.inbox = [x \in DOMAIN db.inbox \cup {k} |-> IF x = k THEN row ELSE db.inbox[x]]
        /\ db'.seq = db.seq
    BY <1>1, <1>3 DEF Committed, DuplicateKey, Put, Shape, DBFields, Tables
  <2>2. call'[c] = [op |-> "idle"] /\ \A e \in Clients : e # c => call'[e] = call[e]
    BY DEF Shape
  <2> HIDE DEF k
  <2>3. Ids(db', "inbox")
    <3>1. PICK n \in Nat : \A i \in DOMAIN db.inbox : i <= n
      BY DEF InboxInv, Ids
    <3>2. \A i \in DOMAIN db'.inbox : i \in Nat /\ i <= n + k
      BY <1>1, <2>1, <3>1 DEF InboxInv, Ids
    <3>3. n + k \in Nat /\ "inbox" \in DOMAIN db'.seq /\ db'.seq["inbox"] \in Nat
      BY <1>1, <2>1 DEF InboxInv, Ids
    <3> QED
      BY <3>2, <3>3 DEF Ids
  <2>4. Rows1'
    BY <2>1 DEF InboxInv, Rows1
  <2>5. Claims'
    <3> SUFFICES ASSUME NEW e \in Clients
                 PROVE  /\ call'[e].op \in {"claim", "claimed"} => call'[e].id \in DOMAIN db'.inbox
                        /\ call'[e].op = "claimed" => db'.inbox[call'[e].id].status = "running"
      BY DEF Claims
    <3>1. CASE e = c
      BY <2>2, <3>1
    <3>2. CASE e # c
      <4>1. call'[e] = call[e]
        BY <2>2, <3>2
      <4>2. /\ call[e].op \in {"claim", "claimed"} => call[e].id \in DOMAIN db.inbox
            /\ call[e].op = "claimed" => db.inbox[call[e].id].status = "running"
        BY DEF InboxInv, Claims
      <4> QED
        BY <1>3, <2>1, <4>1, <4>2
    <3> QED
      BY <3>1, <3>2
  <2>6. Opening' /\ OneOwner'
    BY <2>2 DEF InboxInv, Opening, OneOwner
  <2> QED
    BY <2>3, <2>4, <2>5, <2>6 DEF InboxInv, Ids
<1> QED
  BY <1>2, <1>3

PostgresBase == Shape /\ Calls(PostgresOps(port))

\* Every statement of the inbox port keeps a claimed row its owner's, inserts
\* under an id taken earlier included.
LEMMA PostgresInboxKeeps ==
  ASSUME PostgresBase, port = "inbox", InboxInv, Inserting, NEW c \in Clients, PostgresPortStep(c), port' = port
  PROVE  InboxInv' /\ Inserting'
<1> USE DEF PostgresBase
<1>0. "inbox" \in DOMAIN db.seq /\ db.seq["inbox"] \in Nat
  BY DEF InboxInv, Ids
<1>1. CASE ensureIDSequences(c)
  <2>1. call' = call /\ db' = [db EXCEPT !.seq["inbox"] = Lite!Floor(db, Lite!Table)]
    BY <1>1 DEF ensureIDSequences, Lite!Table
  <2>2. Lite!Floor(db, Lite!Table) \in Nat
    BY SqliteFloor DEF InboxInv
  <2>3. db'.inbox = db.inbox /\ "inbox" \in DOMAIN db'.seq /\ db'.seq["inbox"] \in Nat
    BY <1>0, <2>1, <2>2 DEF Shape, DBFields, Tables
  <2> QED
    BY <2>1, <2>3 DEF InboxInv, Ids, Rows1, Claims, Opening, OneOwner, Inserting
<1>2. CASE Nextval(c, "inbox", "inbox", [status |-> "queued"])
  <2> DEFINE v == [op |-> "insert", id |-> db.seq["inbox"] + 1, row |-> [status |-> "queued"]]
  <2>1. call' = [call EXCEPT ![c] = v] /\ db' = [db EXCEPT !.seq["inbox"] = @ + 1]
    BY <1>2 DEF Nextval
  <2>2. v.op = "insert" /\ v.row = [status |-> "queued"] /\ v.id \in Nat
    BY <1>0
  <2> HIDE DEF v
  <2>3. db'.inbox = db.inbox /\ "inbox" \in DOMAIN db'.seq /\ db'.seq["inbox"] \in Nat
    BY <1>0, <2>1 DEF Shape, DBFields, Tables
  <2>4. InboxInv'
    BY <2>1, <2>2, <2>3, RowsStay
  <2> QED
    BY <2>1, <2>2, <2>4, InsertingMoves
<1>3. CASE Committed(c, "inbox") /\ call' = [call EXCEPT ![c] = Idle]
  BY <1>3, InsertKeeps, IdleInserts
<1>4. CASE Lite!ClaimSelect(c)
  <2> DEFINE v == [op |-> "claim", id |-> Lite!Min(Lite!Queued(db))]
  <2>1. call' = [call EXCEPT ![c] = v] /\ db' = db
    BY <1>4 DEF Lite!ClaimSelect
  <2>2. Lite!Queued(db) \in SUBSET Nat /\ Lite!Queued(db) # {}
    BY <1>4 DEF Lite!ClaimSelect, Lite!Queued, InboxInv, Ids
  <2>3. Lite!Min(Lite!Queued(db)) \in Lite!Queued(db)
    BY <2>2, MinIs
  <2>4. v.op = "claim" /\ v.id \in DOMAIN db.inbox
    BY <2>3 DEF Lite!Queued
  <2> HIDE DEF v
  <2> QED
    BY <1>0, <2>1, <2>4, RowsStay, InsertingMoves
<1>5. CASE Lite!ClaimUpdate(c) /\ Lite!StillQueued(call[c].id)
  <2> DEFINE v == [call[c] EXCEPT !.op = "claimed"]
  <2>1. /\ call' = [call EXCEPT ![c] = v]
        /\ db' = [db EXCEPT !.inbox[call[c].id].status = "running"]
    BY <1>5 DEF Lite!ClaimUpdate
  <2>2. v.op = "claimed" /\ v.id = call[c].id /\ call[c].id \in DOMAIN db.inbox
    BY <1>5 DEF Lite!ClaimUpdate, InboxInv, Claims, Shape
  <2>3. \A e \in Clients \ {c} : call[e].op = "claimed" => call[e].id # call[c].id
    BY <1>5 DEF Lite!StillQueued, InboxInv, Claims
  <2> HIDE DEF v
  <2> QED
    BY <2>1, <2>2, <2>3, StatusMoves, InsertingMoves
<1>6. CASE Lite!ClaimUpdate(c) /\ ~Lite!StillQueued(call[c].id)
  BY <1>6, CrashKeeps, IdleInserts DEF Lite!ClaimUpdate
<1>7. CASE Lite!FinishAgentMessage(c)
  <2>1. /\ call' = [call EXCEPT ![c] = [op |-> "idle"]] /\ call[c].op = "claimed"
        /\ \E s : db' = [db EXCEPT !.inbox[call[c].id].status = s]
    BY <1>7 DEF Lite!FinishAgentMessage
  <2> QED
    BY <2>1, OwnerLeaves, IdleInserts
<1>8. CASE Lite!RequeueMessage(c)
  <2>1. /\ call' = [call EXCEPT ![c] = [op |-> "idle"]] /\ call[c].op = "claimed"
        /\ \E s : db' = [db EXCEPT !.inbox[call[c].id].status = s]
    BY <1>8 DEF Lite!RequeueMessage
  <2> QED
    BY <2>1, OwnerLeaves, IdleInserts
<1>9. CASE Lite!RequeueRunningMessages(c)
  <2>1. InboxInv'
    BY <1>9, ReclaimKeeps DEF Lite!RequeueRunningMessages
  <2>2. Inserting'
    BY <1>9 DEF Lite!RequeueRunningMessages, Inserting
  <2> QED
    BY <2>1, <2>2
<1> QED
  BY <1>1, <1>2, <1>3, <1>4, <1>5, <1>6, <1>7, <1>8, <1>9
  DEF PostgresPortStep, PostgresInboxStep, EnqueueMessage, ClaimNextMessage, FinishAgentMessage, RequeueMessage,
      RequeueRunningMessages

PostgresOwnerInv == PostgresBase /\ InboxInv /\ Inserting

\* The claims' invariant is inductive.
LEMMA PostgresOwnerStep ==
  ASSUME PostgresOwnerInv, [TraceNext]_traceVars
  PROVE  PostgresOwnerInv'
<1>1. CASE traceVars' = traceVars
  <2>1. db' = db /\ call' = call /\ port' = port
    BY <1>1 DEF traceVars
  <2> QED
    BY <2>1 DEF PostgresOwnerInv, PostgresBase, InboxInv, Shape, Calls, Ids, Rows1, Claims, Opening, OneOwner, Inserting
<1>2. CASE TraceNext
  <2>1. /\ Moves(PostgresOps(port))
        /\ Replicate \/ Crash \/ \E c \in Clients : PostgresPortStep(c)
    BY <1>2, PostgresSteps DEF PostgresOwnerInv, PostgresBase
  <2>2. port' = port
    BY <2>1 DEF Moves, Frame
  <2>3. PostgresBase'
    BY <2>1, <2>2 DEF Moves, PostgresBase, Calls
  <2>4. ASSUME port = "inbox", Crash PROVE InboxInv' /\ Inserting'
    <3>1. PICK c \in Clients : call' = [call EXCEPT ![c] = [op |-> "idle"]] /\ db' = db
      BY <2>4 DEF Crash
    <3> QED
      BY <2>2, <2>4, <3>1, CrashKeeps, IdleInserts DEF PostgresOwnerInv, PostgresBase
  <2>5. ASSUME port = "inbox", Replicate PROVE InboxInv' /\ Inserting'
    <3>1. db' = db /\ call' = call
      BY <2>5 DEF Replicate
    <3> QED
      BY <2>2, <3>1 DEF PostgresOwnerInv, InboxInv, Ids, Rows1, Claims, Opening, OneOwner, Inserting
  <2>6. ASSUME port = "inbox", NEW c \in Clients, PostgresPortStep(c) PROVE InboxInv' /\ Inserting'
    BY <2>2, <2>6, PostgresInboxKeeps DEF PostgresOwnerInv
  <2>7. ASSUME port # "inbox" PROVE InboxInv' /\ Inserting'
    BY <2>2, <2>7 DEF InboxInv, Inserting
  <2> QED
    BY <2>1, <2>3, <2>4, <2>5, <2>6, <2>7 DEF PostgresOwnerInv
<1> QED
  BY <1>1, <1>2

\* A claimed row has one owner on every port.
LEMMA PostgresOwns == PostgresOwnerInv => OneOwner
BY NotClaimedElsewhere DEF PostgresOwnerInv, PostgresBase, InboxInv, PostgresOps, SharedOp

\* The claims' invariant holds of an empty store.
LEMMA PostgresOwnerStart ==
  ASSUME TraceInit PROVE PostgresOwnerInv
BY StoreStarts, PostgresOpsAre
DEF TraceInit, PostgresInit, PostgresOwnerInv, PostgresBase, Calls, InboxInv, Rows1, Claims, Opening, OneOwner, Tables,
    Inserting

\* A claimed message is one client's, on the postgres engine too, whose ids may
\* be handed out twice (postgres_inbox.go: the UPDATE asks again whether the
\* message is queued).
THEOREM OneOwnerOnPostgres == TraceSpec => []OneOwner
BY PostgresOwnerStart, PostgresOwnerStep, PostgresOwns, PTL DEF TraceSpec

-----------------------------------------------------------------------------
(* The conversation's tables *)

Numbered(f) == (\A i \in DOMAIN f : i \in Nat) /\ \E n \in Nat : \A i \in DOMAIN f : i <= n

\* The messages and the turns they belong to.
Good(d) ==
  /\ DOMAIN d = DBFields /\ Ids(d, "msgs") /\ IsFiniteSet(DOMAIN d.msgs) /\ 0 \notin DOMAIN d.msgs
  /\ Numbered(d.turns) /\ \A t \in DOMAIN d.turns : "agent" \in DOMAIN d.turns[t]
  /\ \A m \in DOMAIN d.msgs : d.msgs[m].turn \in DOMAIN d.turns

\* A later state of them: nothing left its stream, and what came is after it.
Grown(d, e) ==
  /\ \A m \in DOMAIN d.msgs : m \in DOMAIN e.msgs /\ e.msgs[m].turn = d.msgs[m].turn
  /\ \A m \in DOMAIN e.msgs \ DOMAIN d.msgs, n \in DOMAIN d.msgs : n < m
  /\ \A t \in DOMAIN d.turns : t \in DOMAIN e.turns /\ e.turns[t].agent = d.turns[t].agent

\* Later than later is later.
LEMMA GrownTrans ==
  ASSUME NEW d, NEW e, NEW f, Good(d), Good(e), Good(f), Grown(d, e), Grown(e, f)
  PROVE  Grown(d, f)
<1>1. \A m \in DOMAIN f.msgs \ DOMAIN d.msgs, n \in DOMAIN d.msgs : n < m
  <2> SUFFICES ASSUME NEW m \in DOMAIN f.msgs \ DOMAIN d.msgs, NEW n \in DOMAIN d.msgs PROVE n < m
    OBVIOUS
  <2>1. CASE m \in DOMAIN e.msgs
    BY <2>1 DEF Grown
  <2>2. CASE m \notin DOMAIN e.msgs
    BY <2>2 DEF Grown
  <2> QED
    BY <2>1, <2>2
<1> QED
  BY <1>1 DEF Grown

\* A write that leaves the messages and the agents of the turns alone.
LEMMA GrownSame ==
  ASSUME NEW d, NEW e, Good(d), DOMAIN e = DBFields, e.msgs = d.msgs, e.seq = d.seq,
         DOMAIN e.turns = DOMAIN d.turns,
         \A t \in DOMAIN d.turns : "agent" \in DOMAIN e.turns[t] /\ e.turns[t].agent = d.turns[t].agent
  PROVE  Good(e) /\ Grown(d, e)
BY DEF Good, Grown, Ids, Numbered

\* A turn is added under a new id.
LEMMA TurnAdded ==
  ASSUME NEW d, NEW c, NEW status, Good(d)
  PROVE  LET one == Lite!insertReasonTurnTx(d, c, status)
         IN Good(one) /\ Grown(d, one) /\ Lite!Highest(one.turns) \in DOMAIN one.turns
<1> DEFINE one == Lite!insertReasonTurnTx(d, c, status)
           id == Lite!Highest(d.turns) + 1
           row == [agent |-> c, status |-> status, run |-> FALSE, at |-> (id + 1) \div 2]
<1>1. PICK n \in Nat : \A i \in DOMAIN d.turns : i <= n
  BY DEF Good, Numbered
<1>2. Lite!Highest(d.turns) \in Nat /\ \A i \in DOMAIN d.turns : i <= Lite!Highest(d.turns)
  BY <1>1, HighestIs DEF Good, Numbered
<1>3. id \in Nat \ {0} /\ \A i \in DOMAIN d.turns : i \in Nat /\ i < id
  BY <1>2 DEF Good, Numbered
<1>4. one = [d EXCEPT !.turns = Lite!Put(@, id, row)]
  BY DEF Lite!insertReasonTurnTx
<1>5. "agent" \in DOMAIN row
  OBVIOUS
<1> HIDE DEF id, row, one
<1>6. /\ DOMAIN one = DBFields /\ one.msgs = d.msgs /\ one.seq = d.seq
      /\ one.turns = [x \in DOMAIN d.turns \cup {id} |-> IF x = id THEN row ELSE d.turns[x]]
  BY <1>4 DEF Lite!Put, Good, DBFields, Tables
<1>7. \A i \in DOMAIN one.turns : i \in Nat /\ i <= id
  BY <1>3, <1>6
<1>8. Numbered(one.turns) /\ \A t \in DOMAIN one.turns : "agent" \in DOMAIN one.turns[t]
  BY <1>3, <1>5, <1>6, <1>7 DEF Numbered, Good
<1>9. Good(one)
  BY <1>6, <1>8 DEF Good, Ids
<1>10. Grown(d, one)
  BY <1>3, <1>6 DEF Grown
<1>11. Lite!Highest(one.turns) \in DOMAIN one.turns
  <2>1. /\ Lite!Highest(one.turns) \in Nat /\ \A i \in DOMAIN one.turns : i <= Lite!Highest(one.turns)
        /\ Lite!Highest(one.turns) = 0 \/ Lite!Highest(one.turns) \in DOMAIN one.turns
    BY <1>3, <1>7, HighestIs
  <2>2. id \in DOMAIN one.turns
    BY <1>6
  <2> QED
    BY <1>3, <2>1, <2>2
<1> QED
  BY <1>9, <1>10, <1>11 DEF one

\* A row inserted at the next id.
LEMMA RowAdded ==
  ASSUME NEW d, Good(d), NEW row, row.turn \in DOMAIN d.turns
  PROVE  LET e == Lite!Insert(d, "msgs", row) IN Good(e) /\ Grown(d, e) /\ e.turns = d.turns
<1> DEFINE e == Lite!Insert(d, "msgs", row)
           k == Lite!NextId(d, "msgs")
<1>1. k \in Nat \ {0} /\ \A i \in DOMAIN d.msgs : i \in Nat /\ i < k
  BY NextIdIsNew DEF Good, Ids
<1>2. e = [d EXCEPT !["msgs"] = Lite!Put(@, k, row), !.seq["msgs"] = k]
  BY DEF Lite!Insert
<1> HIDE DEF k, e
<1>3. /\ DOMAIN e = DBFields /\ e.turns = d.turns /\ e.seq = [d.seq EXCEPT !["msgs"] = k]
      /\ e.msgs = [x \in DOMAIN d.msgs \cup {k} |-> IF x = k THEN row ELSE d.msgs[x]]
  BY <1>2 DEF Lite!Put, Good, DBFields, Tables
<1>4. \A i \in DOMAIN e.msgs : i \in Nat /\ i <= k
  BY <1>1, <1>3
<1>5. Ids(e, "msgs")
  BY <1>1, <1>3, <1>4 DEF Ids, Good
<1>6. IsFiniteSet(DOMAIN e.msgs)
  BY <1>3, FS_AddElement DEF Good
<1>7. Good(e)
  BY <1>1, <1>3, <1>5, <1>6 DEF Good
<1>8. Grown(d, e)
  BY <1>1, <1>3 DEF Grown
<1> QED
  BY <1>3, <1>7, <1>8 DEF e

\* A message is added under an id above all others.
LEMMA MessageAdded ==
  ASSUME NEW d, Good(d), NEW turn \in DOMAIN d.turns, NEW s, NEW m
  PROVE  LET e == Lite!insertMessageTx(d, turn, s, m) IN Good(e) /\ Grown(d, e) /\ e.turns = d.turns
<1>1. Good(d) /\ Grown(d, d) /\ d.turns = d.turns
  BY DEF Grown
<1> DEFINE row == Lite!Message(turn, s, m)
<1>2. row.turn \in DOMAIN d.turns
  BY DEF Lite!Message
<1>3. Lite!insertMessageTx(d, turn, s, m) \in {d, Lite!Insert(d, "msgs", row)}
  BY DEF Lite!insertMessageTx
<1> HIDE DEF row
<1> QED
  BY <1>1, <1>2, <1>3, RowAdded

\* A derived message is added, or its row is written again under its id.
LEMMA DerivedAdded ==
  ASSUME NEW d, Good(d), NEW turn \in DOMAIN d.turns, NEW s, NEW m
  PROVE  LET e == Lite!insertDerivedMessage(d, turn, s, m) IN Good(e) /\ Grown(d, e) /\ e.turns = d.turns
<1> DEFINE row == Lite!Message(turn, s, m)
           e == Lite!insertDerivedMessage(d, turn, s, m)
<1>1. row.turn = turn
  BY DEF Lite!Message
<1>2. CASE Lite!At(d, turn, s) = {}
  <2>1. e = Lite!Insert(d, "msgs", row)
    BY <1>2 DEF Lite!insertDerivedMessage
  <2> HIDE DEF row
  <2> QED
    BY <1>1, <2>1, RowAdded
<1>3. CASE Lite!At(d, turn, s) # {}
  <2>1. e = [d EXCEPT !.msgs = [i \in DOMAIN @ |-> IF i \in Lite!At(d, turn, s) THEN row ELSE @[i]]]
    BY <1>3 DEF Lite!insertDerivedMessage
  <2> HIDE DEF row, e
  <2>2. /\ DOMAIN e = DBFields /\ e.turns = d.turns /\ e.seq = d.seq
        /\ e.msgs = [i \in DOMAIN d.msgs |-> IF i \in Lite!At(d, turn, s) THEN row ELSE d.msgs[i]]
    BY <2>1 DEF Good, DBFields, Tables
  <2>3. \A i \in DOMAIN d.msgs : e.msgs[i].turn = d.msgs[i].turn
    BY <1>1, <2>2 DEF Lite!At, Lite!Rows
  <2>4. Good(e)
    BY <2>2, <2>3 DEF Good, Ids
  <2> QED
    BY <2>2, <2>3, <2>4 DEF Grown, e
<1> QED
  BY <1>2, <1>3

\* The rows of an event, all at once.
LEMMA BatchAdded ==
  ASSUME NEW d, Good(d), NEW turn \in DOMAIN d.turns, NEW rows, IsFiniteSet(DOMAIN rows)
  PROVE  LET e == AppendLLMMessages(d, turn, rows) IN Good(e) /\ Grown(d, e) /\ e.turns = d.turns
<1> DEFINE new == NewSeqs(d, turn, rows)
           K == Lite!NextId(d, "msgs")
           id(s) == NewMessageId(d, turn, rows, s)
           row(s) == Lite!Message(turn, s, rows[s])
           inserted(m) == CHOOSE s \in new : id(s) = m
           e == AppendLLMMessages(d, turn, rows)
           C == Cardinality(new)
<1>1. K \in Nat \ {0} /\ \A i \in DOMAIN d.msgs : i \in Nat /\ i < K
  BY NextIdIsNew DEF Good, Ids
<1>2. IsFiniteSet(new) /\ C \in Nat
  BY FS_Subset, FS_CardinalityType DEF NewSeqs
<1>3. \A s : id(s) \in Nat /\ K <= id(s) /\ id(s) <= K + C
  <2> TAKE s
  <2> DEFINE B == {r \in new : r < s}
  <2>1. IsFiniteSet(B) /\ Cardinality(B) <= C
    <3>1. B \in SUBSET new
      OBVIOUS
    <3> HIDE DEF B, new
    <3> QED
      BY <1>2, <3>1, FS_Subset
  <2>2. Cardinality(B) \in Nat
    BY <2>1, FS_CardinalityType
  <2>3. id(s) = K + Cardinality(B)
    BY DEF NewMessageId
  <2> HIDE DEF B, K, new, id
  <2> QED
    BY <1>1, <1>2, <2>1, <2>2, <2>3
<1>4. \A s : row(s).turn = turn
  BY DEF Lite!Message
<1>5. e = [d EXCEPT !.msgs = [m \in DOMAIN @ \cup {id(s) : s \in new} |->
                            IF m \notin DOMAIN @ THEN row(inserted(m))
                            ELSE IF m \in Rows(d, turn) /\ @[m].seq \in DOMAIN rows THEN row(@[m].seq)
                            ELSE @[m]],
               !.seq.msgs = K + C - 1]
  BY DEF AppendLLMMessages
<1> HIDE DEF new, K, id, row, inserted, e
<1>6. /\ DOMAIN e = DBFields /\ e.turns = d.turns /\ e.seq = [d.seq EXCEPT !["msgs"] = K + C - 1]
      /\ e.msgs = [m \in DOMAIN d.msgs \cup {id(s) : s \in new} |->
                            IF m \notin DOMAIN d.msgs THEN row(inserted(m))
                            ELSE IF m \in Rows(d, turn) /\ d.msgs[m].seq \in DOMAIN rows THEN row(d.msgs[m].seq)
                            ELSE d.msgs[m]]
  BY <1>5 DEF Good, DBFields, Tables
<1>7. \A i \in DOMAIN e.msgs : i \in Nat /\ i <= K + C
  BY <1>1, <1>2, <1>3, <1>6
<1>8. Ids(e, "msgs")
  <2>1. K + C \in Nat /\ K + C - 1 \in Nat
    BY <1>1, <1>2
  <2>2. "msgs" \in DOMAIN e.seq /\ e.seq["msgs"] \in Nat
    BY <2>1, <1>6 DEF Good, Ids
  <2> QED
    BY <1>7, <2>1, <2>2 DEF Ids
<1>9. IsFiniteSet(DOMAIN e.msgs)
  <2>1. DOMAIN e.msgs \in SUBSET Nat /\ \A i \in DOMAIN e.msgs : i <= K + C
    BY <1>7
  <2>2. K + C \in Nat
    BY <1>1, <1>2
  <2> QED
    BY <2>1, <2>2, FS_BoundedSetOfNaturals
<1>10. \A m \in DOMAIN d.msgs : m \in DOMAIN e.msgs /\ e.msgs[m].turn = d.msgs[m].turn
  <2> SUFFICES ASSUME NEW m \in DOMAIN d.msgs PROVE m \in DOMAIN e.msgs /\ e.msgs[m].turn = d.msgs[m].turn
    OBVIOUS
  <2>1. CASE m \in Rows(d, turn) /\ d.msgs[m].seq \in DOMAIN rows
    <3>1. e.msgs[m] = row(d.msgs[m].seq) /\ d.msgs[m].turn = turn
      BY <1>6, <2>1 DEF Rows
    <3> QED
      BY <1>4, <1>6, <3>1
  <2>2. CASE ~(m \in Rows(d, turn) /\ d.msgs[m].seq \in DOMAIN rows)
    BY <1>6, <2>2
  <2> QED
    BY <2>1, <2>2
<1>11. \A m \in DOMAIN e.msgs \ DOMAIN d.msgs : e.msgs[m].turn = turn /\ \A n \in DOMAIN d.msgs : n < m
  <2> SUFFICES ASSUME NEW m \in DOMAIN e.msgs \ DOMAIN d.msgs
               PROVE e.msgs[m].turn = turn /\ \A n \in DOMAIN d.msgs : n < m
    OBVIOUS
  <2>1. e.msgs[m] = row(inserted(m))
    BY <1>6
  <2>2. PICK s : m = id(s)
    BY <1>6
  <2>3. m \in Nat /\ K <= m
    BY <1>3, <2>2
  <2> QED
    BY <1>1, <1>4, <2>1, <2>3
<1>12. Grown(d, e)
  BY <1>6, <1>10, <1>11 DEF Grown
<1>13. \A m \in DOMAIN e.msgs : e.msgs[m].turn \in DOMAIN e.turns
  BY <1>6, <1>10, <1>11 DEF Good
<1>14. Good(e)
  <2>1. 0 \notin DOMAIN e.msgs
    <3>1. \A s : id(s) # 0
      BY <1>1, <1>3
    <3> QED
      BY <1>6, <3>1 DEF Good
  <2> QED
    BY <2>1, <1>6, <1>8, <1>9, <1>13 DEF Good
<1> QED
  BY <1>6, <1>12, <1>14 DEF e

\* A flush of events leaves messages and turns alone.
LEMMA EventsAdded ==
  ASSUME NEW d, Good(d), NEW t, NEW ok
  PROVE  LET e == flush(d, t, ok) IN Good(e) /\ Grown(d, e) /\ e.turns = d.turns
<1> DEFINE e == flush(d, t, ok)
<1>1. DOMAIN d = DBFields
  BY DEF Good
<1>2. DOMAIN e = DBFields /\ \A x \in DBFields : x = "events" \/ e[x] = d[x]
  BY <1>1, FlushWrites
<1>3. e.msgs = d.msgs /\ e.seq = d.seq /\ e.turns = d.turns
  BY <1>2 DEF DBFields, Tables
<1> HIDE DEF e
<1>4. \A t2 \in DOMAIN d.turns : "agent" \in DOMAIN e.turns[t2] /\ e.turns[t2].agent = d.turns[t2].agent
  BY <1>3 DEF Good
<1>5. Good(e) /\ Grown(d, e)
  BY <1>2, <1>3, <1>4, GrownSame
<1> QED
  BY <1>3, <1>5 DEF e

\* A turn recorded whole: the row and its two messages.
LEMMA TurnRecorded ==
  ASSUME NEW d, Good(d), NEW c
  PROVE  LET e == Lite!InsertReasonTurn(d, c) IN Good(e) /\ Grown(d, e)
<1> DEFINE one == Lite!insertReasonTurnTx(d, c, "finished")
           turn == Lite!Highest(one.turns)
           two == Lite!insertMessageTx(one, turn, 0, Lite!Says("user"))
           three == Lite!insertMessageTx(two, turn, 1, Lite!Says("assistant"))
<1>1. Good(one) /\ Grown(d, one) /\ turn \in DOMAIN one.turns
  BY TurnAdded
<1>2. Lite!InsertReasonTurn(d, c) = three
  BY DEF Lite!InsertReasonTurn
<1> HIDE DEF one, turn
<1>3. Good(two) /\ Grown(one, two) /\ two.turns = one.turns
  BY <1>1, MessageAdded
<1> HIDE DEF two
<1>4. Good(three) /\ Grown(two, three)
  BY <1>1, <1>3, MessageAdded
<1> HIDE DEF three
<1>5. Grown(d, two)
  BY <1>1, <1>3, GrownTrans
<1> QED
  BY <1>2, <1>3, <1>4, <1>5, GrownTrans

-----------------------------------------------------------------------------
(* The poller's cursor *)

Cursor ==
  /\ seen.ids \subseteq DOMAIN db.msgs
  /\ \/ seen.of = {} /\ seen.ids = {}
     \/ seen.of # {} /\ seen.ids # {}

\* Both copies of Cardinality are one.
LEMMA CardinalityIs == \A S : Lite!Cardinality(S) = Cardinality(S)
BY DEF Lite!Cardinality, Cardinality

\* The highest of some message ids is one of them.
LEMMA MaxOfIds ==
  ASSUME NEW d, Good(d), NEW S, S \subseteq DOMAIN d.msgs, NEW x \in S
  PROVE  Max(S) \in S /\ Max(S) \in Nat /\ \A y \in S : y \in Nat /\ y <= Max(S)
<1>1. PICK n \in Nat : \A i \in DOMAIN d.msgs : i <= n
  BY DEF Good, Ids
<1>2. S \in SUBSET Nat /\ \A y \in S : y <= n
  BY <1>1 DEF Good, Ids
<1>3. Max(S) \in S /\ \A y \in S : Max(S) >= y
  BY <1>1, <1>2, MaxIs
<1> QED
  BY <1>2, <1>3

\* The cursor of a poller, 0 before its first page.
LEMMA CursorIs ==
  ASSUME NEW d, Good(d), NEW S, S \subseteq DOMAIN d.msgs
  PROVE  /\ Max({0} \cup S) \in Nat /\ Max({0} \cup S) \in {0} \cup S
         /\ \A y \in S : y <= Max({0} \cup S)
         /\ Lite!Max({0} \cup S) = Max({0} \cup S)
<1> DEFINE T == {0} \cup S
<1>1. PICK n \in Nat : \A i \in DOMAIN d.msgs : i <= n
  BY DEF Good, Ids
<1>2. T \in SUBSET Nat /\ (\A y \in T : y <= n) /\ 0 \in T /\ S \subseteq T
  BY <1>1 DEF Good, Ids
<1> HIDE DEF T
<1>3. Max(T) \in T /\ (\A y \in T : Max(T) >= y) /\ Lite!Max(T) = Max(T)
  BY <1>1, <1>2, MaxIs
<1>4. Max(T) \in Nat /\ \A y \in S : y \in Nat /\ y <= Max(T)
  BY <1>2, <1>3
<1> QED
  BY <1>3, <1>4 DEF T

\* What is written after the cursor leaves what was given.
LEMMA GrownKeepsCursor ==
  ASSUME Good(db), Good(db'), Grown(db, db'), Cursor, PollMissesNothing, seen' = seen
  PROVE  Cursor' /\ PollMissesNothing'
<1>1. Cursor'
  BY DEF Cursor, Grown
<1>2. PollMissesNothing'
  <2> SUFFICES ASSUME NEW m \in DOMAIN db'.msgs, db'.turns[db'.msgs[m].turn].agent \in seen.of, m <= Max(seen.ids)
               PROVE  m \in seen.ids
    BY DEF PollMissesNothing
  <2>1. seen.ids # {} /\ seen.ids \subseteq DOMAIN db.msgs
    BY DEF Cursor
  <2>2. Max(seen.ids) \in DOMAIN db.msgs /\ Max(seen.ids) \in Nat
    BY <2>1, MaxOfIds
  <2>3. m \in Nat
    BY DEF Good, Ids
  <2>4. m \in DOMAIN db.msgs
    BY <2>2, <2>3 DEF Grown
  <2>5. db'.msgs[m].turn = db.msgs[m].turn /\ db.msgs[m].turn \in DOMAIN db.turns
    BY <2>4 DEF Grown, Good
  <2>6. db.turns[db.msgs[m].turn].agent \in seen.of
    BY <2>5 DEF Grown
  <2> QED
    BY <2>4, <2>6 DEF PollMissesNothing
<1> QED
  BY <1>1, <1>2

\* A page of an earlier state of the tables is what follows the cursor in this one.
LEMMA PageKeepsCursor ==
  ASSUME Good(db), NEW r, Good(r), Grown(r, db), Cursor, PollMissesNothing, NEW c, seen.of \in {{}, {c}}, db' = db,
         LET page == Lite!ListLLMMessagesAfter(r, c, Max({0} \cup seen.ids))
         IN page # {} /\ seen' = [of |-> {c}, ids |-> seen.ids \cup page]
  PROVE  Cursor' /\ PollMissesNothing'
<1> DEFINE after == Max({0} \cup seen.ids)
           page == Lite!ListLLMMessagesAfter(r, c, after)
           new == Lite!NewAfter(r, c, after)
           ids == seen.ids \cup page
           L == DefaultTurnPageLimit
           upto(m) == {n \in new : n <= m}
<1> HIDE DEF after, new
<1>1. page = {m \in new : Cardinality(upto(m)) <= L}
  BY CardinalityIs DEF Lite!ListLLMMessagesAfter, new
<1>2. new = {m \in DOMAIN r.msgs : m > after /\ r.turns[r.msgs[m].turn].agent = c}
  BY DEF Lite!NewAfter, new
<1>3. page # {} /\ seen'.of = {c} /\ seen'.ids = ids
  BY DEF after
<1>4. seen.ids \subseteq DOMAIN db.msgs
  BY DEF Cursor
<1>5. after \in Nat /\ after \in {0} \cup seen.ids /\ \A y \in seen.ids : y <= after
  BY <1>4, CursorIs DEF after
<1>6. L \in Nat
  <2>1. {DefaultTurnPageLimit} \subseteq Nat \ {0}
    BY StoreAssumption DEF StoreAssumption
  <2> QED
    BY <2>1
<1> HIDE DEF page
<1>7. page \subseteq DOMAIN r.msgs /\ DOMAIN r.msgs \subseteq DOMAIN db.msgs
  BY <1>1, <1>2 DEF Grown
<1>8. Cursor'
  BY <1>3, <1>4, <1>7 DEF Cursor
<1>9. PollMissesNothing'
  <2> SUFFICES ASSUME NEW m \in DOMAIN db.msgs, db.turns[db.msgs[m].turn].agent = c, m <= Max(ids)
               PROVE  m \in ids
    BY <1>3 DEF PollMissesNothing
  <2>1. m \in Nat /\ m # 0
    BY DEF Good, Ids
  <2>2. CASE m <= after
    <3>1. after \in seen.ids /\ seen.ids # {} /\ seen.of = {c}
      BY <1>5, <2>1, <2>2 DEF Cursor
    <3>2. Max(seen.ids) \in Nat /\ after <= Max(seen.ids)
      BY <1>4, <3>1, MaxOfIds
    <3>3. m <= Max(seen.ids)
      BY <1>5, <2>1, <2>2, <3>2
    <3> QED
      BY <3>1, <3>3 DEF PollMissesNothing
  <2>3. CASE ~(m <= after)
    <3> DEFINE x == Max(ids)
    <3>1. x \in ids /\ x \in Nat
      <4>1. ids \subseteq DOMAIN db.msgs /\ ids # {}
        BY <1>3, <1>4, <1>7
      <4> HIDE DEF ids
      <4> QED
        BY <4>1, MaxOfIds
    <3> HIDE DEF x
    <3>2. m <= x
      BY DEF x
    <3>3. x \in page
      BY <1>5, <2>1, <2>3, <3>1, <3>2
    <3>4. x \in DOMAIN r.msgs /\ Cardinality(upto(x)) <= L
      BY <1>1, <1>7, <3>3
    <3>5. m \in DOMAIN r.msgs
      BY <2>1, <3>1, <3>2, <3>4 DEF Grown
    <3>6. r.msgs[m].turn = db.msgs[m].turn /\ r.msgs[m].turn \in DOMAIN r.turns
      BY <3>5 DEF Grown, Good
    <3>7. r.turns[r.msgs[m].turn].agent = c
      BY <3>6 DEF Grown
    <3>8. m \in new
      BY <1>2, <1>5, <2>1, <2>3, <3>5, <3>7
    <3>9. upto(m) \in SUBSET upto(x)
      <4>1. \A n \in new : n \in Nat
        BY <1>2 DEF Good, Ids
      <4> QED
        BY <2>1, <3>1, <3>2, <4>1
    <3>10. IsFiniteSet(upto(x))
      <4>1. upto(x) \in SUBSET DOMAIN r.msgs
        BY <1>2
      <4> HIDE DEF upto
      <4> QED
        BY <4>1, FS_Subset DEF Good
    <3>11. /\ Cardinality(upto(m)) <= Cardinality(upto(x))
           /\ Cardinality(upto(m)) \in Nat /\ Cardinality(upto(x)) \in Nat
      <4> HIDE DEF upto
      <4> QED
        BY <3>9, <3>10, FS_Subset, FS_CardinalityType
    <3>12. Cardinality(upto(m)) <= L
      <4> HIDE DEF upto, L
      <4> QED
        BY <1>6, <3>4, <3>11
    <3> QED
      BY <1>1, <3>8, <3>12
  <2> QED
    BY <2>2, <2>3
<1> QED
  BY <1>8, <1>9

-----------------------------------------------------------------------------
(* What a stream says *)

Kinds == {"thinking", "tool"}
Group(x) == "role" \in DOMAIN x /\ x.role \in Kinds
Groups(gs) == (\E S : gs \in Seq(S)) /\ \A i \in DOMAIN gs : Group(gs[i])
Said(out) == IsFiniteSet(DOMAIN out) /\ \A s \in DOMAIN out : s \in Nat \ {0} /\ out[s].role \in Kinds

\* The groups of a stream by their places.
LEMMA GroupsAre ==
  ASSUME NEW gs, Groups(gs)
  PROVE  Len(gs) \in Nat /\ DOMAIN gs = 1..Len(gs) /\ \A i \in 1..Len(gs) : Group(gs[i])
BY DEF Groups

\* Emitting keeps groups groups, and says thinking or a tool's message under a
\* place from 1 on.
LEMMA EmitIs ==
  ASSUME NEW gs, NEW n \in Nat, DOMAIN gs = 1..n, \A i \in 1..n : Group(gs[i]), NEW done \in SUBSET (1..n)
  PROVE  Groups(Emit(gs, done).groups) /\ Said(Emit(gs, done).out)
<1> DEFINE g == [i \in 1..n |-> IF i \in done THEN [gs[i] EXCEPT !.emitted = TRUE] ELSE gs[i]]
           o == [i \in done |-> ChatMessage(gs[i])]
           S == {g[i] : i \in 1..n}
<1>1. Emit(gs, done).groups = g /\ Emit(gs, done).out = o
  BY DEF Emit
<1>2. \A i \in 1..n : Group(g[i])
  BY DEF Group
<1>3. g \in Seq(S)
  <2>1. g \in [1..n -> S]
    OBVIOUS
  <2> HIDE DEF g, S
  <2> QED
    BY <2>1
<1>4. \A i \in done : o[i].role \in Kinds /\ i \in Nat \ {0}
  BY DEF ChatMessage, Group
<1>5. IsFiniteSet(done)
  <2>1. IsFiniteSet(1..n)
    BY FS_Interval
  <2> QED
    BY <2>1, FS_Subset
<1>6. DOMAIN g = 1..n /\ DOMAIN o = done
  OBVIOUS
<1> HIDE DEF g, o, S
<1>7. Groups(g)
  BY <1>2, <1>3, <1>6 DEF Groups
<1>8. Said(o)
  BY <1>4, <1>5, <1>6 DEF Said
<1> QED
  BY <1>1, <1>7, <1>8

\* One group more.
LEMMA AppendIs ==
  ASSUME NEW gs, Groups(gs), NEW x, Group(x)
  PROVE  /\ DOMAIN Append(gs, x) = 1..(Len(gs) + 1) /\ Len(Append(gs, x)) = Len(gs) + 1
         /\ \A i \in 1..(Len(gs) + 1) : Group(Append(gs, x)[i])
<1>1. PICK S : gs \in Seq(S)
  BY DEF Groups
<1>2. gs \in Seq(S \cup {x}) /\ x \in S \cup {x}
  BY <1>1
<1>3. Len(gs) \in Nat /\ DOMAIN gs = 1..Len(gs) /\ \A i \in 1..Len(gs) : Group(gs[i])
  BY GroupsAre
<1>4. /\ Len(Append(gs, x)) = Len(gs) + 1 /\ DOMAIN Append(gs, x) = 1..(Len(gs) + 1)
      /\ \A i \in 1..Len(gs) : Append(gs, x)[i] = gs[i]
      /\ Append(gs, x)[Len(gs) + 1] = x
  BY <1>2, <1>3
<1> QED
  BY <1>3, <1>4

\* A tool call opens a group, and its result leaves it one.
LEMMA NewToolIs ==
  ASSUME NEW e PROVE Group(NewTool(e)) /\ \A g : Group(g) => Group(MergeTool(g, e))
BY DEF NewTool, MergeTool, Group, Kinds

\* An event leaves groups, and what it completes is theirs.
LEMMA AddIs ==
  ASSUME NEW a, Groups(a.groups), NEW e
  PROVE  Groups(Add(a, e).groups) /\ Said(Add(a, e).out)
<1> DEFINE gs == a.groups
           n == Len(gs)
           known == {i \in DOMAIN gs : e.ch = "tool" /\ e.call # "" /\ gs[i].call = e.call}
           merged == [i \in DOMAIN gs |-> IF i \in known THEN MergeTool(gs[i], e) ELSE gs[i]]
           tool == Append(gs, NewTool(e))
           done == {i \in known : Emits(merged[i])}
           more == [gs EXCEPT ![n].text = Append(@, e.text)]
<1>1. n \in Nat /\ DOMAIN gs = 1..n /\ \A i \in 1..n : Group(gs[i])
  BY GroupsAre
<1>2. Add(a, e) \in {Emit(more, {}), Emit(Append(gs, Thinking(e.text)), {}), Emit(merged, done),
                     Emit(tool, Completed(tool)), Emit(gs, {})}
  BY DEF Add
<1>3. DOMAIN more = 1..n /\ \A i \in 1..n : Group(more[i])
  BY <1>1 DEF Group
<1>4. DOMAIN merged = 1..n /\ (\A i \in 1..n : Group(merged[i])) /\ done \in SUBSET (1..n)
  BY <1>1, NewToolIs
<1>5. Group(Thinking(e.text))
  BY DEF Thinking, Group, Kinds
<1>6. /\ DOMAIN tool = 1..(n + 1) /\ \A i \in 1..(n + 1) : Group(tool[i])
      /\ Len(tool) = n + 1
  BY AppendIs, NewToolIs
<1>7. /\ DOMAIN Append(gs, Thinking(e.text)) = 1..(n + 1)
      /\ \A i \in 1..(n + 1) : Group(Append(gs, Thinking(e.text))[i])
  BY <1>5, AppendIs
<1>8. Completed(tool) \in SUBSET (1..(n + 1)) /\ n + 1 \in Nat
  BY <1>1, <1>6 DEF Completed
<1> HIDE DEF gs, n, known, merged, tool, done, more
<1>9. Groups(Emit(more, {}).groups) /\ Said(Emit(more, {}).out)
  BY <1>1, <1>3, EmitIs
<1>10. Groups(Emit(merged, done).groups) /\ Said(Emit(merged, done).out)
  BY <1>1, <1>4, EmitIs
<1>11. Groups(Emit(tool, Completed(tool)).groups) /\ Said(Emit(tool, Completed(tool)).out)
  BY <1>6, <1>8, EmitIs
<1>12. Groups(Emit(gs, {}).groups) /\ Said(Emit(gs, {}).out)
  BY <1>1, EmitIs
<1>13. /\ Groups(Emit(Append(gs, Thinking(e.text)), {}).groups)
       /\ Said(Emit(Append(gs, Thinking(e.text)), {}).out)
  <2> DEFINE thought == Append(gs, Thinking(e.text))
  <2> HIDE DEF thought
  <2>1. Groups(Emit(thought, {}).groups) /\ Said(Emit(thought, {}).out)
    BY <1>7, <1>8, EmitIs DEF thought
  <2> QED
    BY <2>1 DEF thought
<1> QED
  BY <1>2, <1>9, <1>10, <1>11, <1>12, <1>13

\* What is left open at the end is said like the rest.
LEMMA FlushIs ==
  ASSUME NEW a, Groups(a.groups)
  PROVE  Groups(Flush(a).groups) /\ Said(Flush(a).out)
<1> DEFINE gs == a.groups
           done == {i \in DOMAIN gs : ~gs[i].emitted}
           n == Len(gs)
<1>1. n \in Nat /\ DOMAIN gs = 1..n /\ \A i \in 1..n : Group(gs[i])
  BY GroupsAre
<1>2. Flush(a) = Emit(gs, done) /\ done \in SUBSET (1..n)
  BY <1>1 DEF Flush
<1> HIDE DEF gs, done, n
<1> QED
  BY <1>1, <1>2, EmitIs

\* A stream nobody has said anything on.
LEMMA EmptyIs == Groups(Empty.groups) /\ Said(Empty.out)
<1>1. Empty.groups = <<>> /\ DOMAIN Empty.groups = {} /\ DOMAIN Empty.out = {}
  BY DEF Empty
<1>2. <<>> \in Seq({})
  OBVIOUS
<1>3. IsFiniteSet({})
  BY FS_EmptySet
<1> QED
  BY <1>1, <1>2, <1>3 DEF Groups, Said

-----------------------------------------------------------------------------
(* The poller on the sqlite engine *)

Held == \A c \in Clients : call[c].op # "idle" => call[c].turn \in DOMAIN db.turns

\* A client whose call moves holds a turn there is.
LEMMA HeldMoves ==
  ASSUME Shape, Held, Grown(db, db'), NEW c \in Clients, NEW v, call' = [call EXCEPT ![c] = v],
         v.op # "idle" => v.turn \in DOMAIN db'.turns
  PROVE  Held'
<1>1. call'[c] = v /\ \A e \in Clients : e # c => call'[e] = call[e]
  BY DEF Shape
<1> QED
  BY <1>1 DEF Held, Grown

\* Turns are never deleted, so a call at rest keeps its own.
LEMMA HeldStays == ASSUME Held, Grown(db, db'), call' = call PROVE Held'
BY DEF Held, Grown

\* A turn gets its status or its run id.
LEMMA TurnMarked ==
  ASSUME Good(db), NEW t \in DOMAIN db.turns, NEW f, f \in {"status", "run"}, NEW x,
         db' = [db EXCEPT !.turns[t][f] = x]
  PROVE  Good(db') /\ Grown(db, db') /\ DOMAIN db'.turns = DOMAIN db.turns
<1>1. db'.turns = [db.turns EXCEPT ![t][f] = x]
  BY DEF Good, DBFields, Tables
<1>2. DOMAIN db' = DBFields /\ db'.msgs = db.msgs /\ db'.seq = db.seq
  BY DEF Good, DBFields, Tables
<1>3. \A u \in DOMAIN db.turns : "agent" \in DOMAIN db'.turns[u] /\ db'.turns[u].agent = db.turns[u].agent
  BY <1>1 DEF Good
<1>4. DOMAIN db'.turns = DOMAIN db.turns
  BY <1>1
<1>5. Good(db') /\ Grown(db, db')
  BY <1>2, <1>3, <1>4, GrownSame
<1> QED
  BY <1>4, <1>5

MsgStep == Good(db') /\ Grown(db, db') /\ Held'

\* Nothing is written.
LEMMA SameMsgs == ASSUME Good(db), db' = db PROVE Good(db') /\ Grown(db, db')
BY DEF Grown

\* The steps both engines share.
LEMMA InsertTurnKeeps ==
  ASSUME Shape, Good(db), Held, NEW c \in Clients, db' = Lite!InsertReasonTurn(db, c), call' = call PROVE MsgStep
BY TurnRecorded, HeldStays DEF MsgStep

\* A turn begins with its row and its input.
LEMMA BeginKeeps ==
  ASSUME Shape, Good(db), Held, NEW c \in Clients, Lite!BeginReasonTurn(c)
  PROVE  MsgStep /\ call'[c].op = "turn" /\ \A e \in Clients \ {c} : call'[e] = call[e]
<1> DEFINE one == Lite!insertReasonTurnTx(db, c, "running")
           turn == Lite!Highest(one.turns)
           v == [op |-> "turn", turn |-> turn]
<1>1. db' = Lite!insertMessageTx(one, turn, 0, Lite!Says("user")) /\ call' = [call EXCEPT ![c] = v]
  BY DEF Lite!BeginReasonTurn
<1>2. Good(one) /\ Grown(db, one) /\ turn \in DOMAIN one.turns
  BY TurnAdded
<1>3. v.turn = turn /\ v.op = "turn"
  OBVIOUS
<1> HIDE DEF one, turn, v
<1>4. Good(db') /\ Grown(one, db') /\ db'.turns = one.turns
  BY <1>1, <1>2, MessageAdded
<1>5. Grown(db, db')
  BY <1>2, <1>4, GrownTrans
<1>6. Held'
  BY <1>1, <1>2, <1>3, <1>4, <1>5, HeldMoves
<1> QED
  BY <1>1, <1>3, <1>4, <1>5, <1>6 DEF MsgStep, Shape

\* One message of the derivation is written.
LEMMA AggregatedKeeps ==
  ASSUME Shape, Good(db), Held, NEW c \in Clients, Lite!recordAggregatedMessages(c) PROVE MsgStep
<1> DEFINE s == Lite!Min(DOMAIN call[c].todo)
           m == call[c].todo[s]
           v == [call[c] EXCEPT !.todo = [i \in DOMAIN @ \ {s} |-> @[i]]]
<1>1. /\ db' = Lite!insertDerivedMessage(db, call[c].turn, s, m)
      /\ call' = [call EXCEPT ![c] = v] /\ call[c].op = "derive"
  BY DEF Lite!recordAggregatedMessages
<1>2. v.turn = call[c].turn /\ call[c].turn \in DOMAIN db.turns
  BY <1>1 DEF Held, Shape
<1> HIDE DEF s, m, v
<1>3. Good(db') /\ Grown(db, db') /\ db'.turns = db.turns
  BY <1>1, <1>2, DerivedAdded
<1>4. Held'
  BY <1>1, <1>2, <1>3, HeldMoves
<1> QED
  BY <1>3, <1>4 DEF MsgStep

\* The reply is written, unless there is one.
LEMMA ReplyKeeps ==
  ASSUME Shape, Good(db), Held, NEW c \in Clients, Lite!recordAssistantMessage(c) PROVE MsgStep
<1> DEFINE v == [call[c] EXCEPT !.op = "runid"]
           m == Lite!Says("assistant")
<1>1. /\ db' = db \/ db' = Lite!insertMessageTx(db, call[c].turn, call[c].seq, m)
      /\ call' = [call EXCEPT ![c] = v] /\ call[c].op = "reply"
  BY DEF Lite!recordAssistantMessage
<1>2. v.turn = call[c].turn /\ call[c].turn \in DOMAIN db.turns
  BY <1>1 DEF Held, Shape
<1> HIDE DEF m, v
<1>3. Good(db') /\ Grown(db, db') /\ db'.turns = db.turns
  BY <1>1, <1>2, MessageAdded, SameMsgs
<1>4. Held'
  BY <1>1, <1>2, <1>3, HeldMoves
<1> QED
  BY <1>3, <1>4 DEF MsgStep

\* The run id closes the turn.
LEMMA RunIdKeeps ==
  ASSUME Shape, Good(db), Held, NEW c \in Clients, Lite!FinishRunId(c) PROVE MsgStep
<1> DEFINE v == [op |-> "idle"]
           t == call[c].turn
<1>1. /\ db' = [db EXCEPT !.turns[t]["run"] = TRUE]
      /\ call' = [call EXCEPT ![c] = v] /\ call[c].op = "runid"
  BY DEF Lite!FinishRunId
<1>2. v.op = "idle" /\ t \in DOMAIN db.turns
  BY <1>1 DEF Held
<1> HIDE DEF v, t
<1>3. Good(db') /\ Grown(db, db') /\ DOMAIN db'.turns = DOMAIN db.turns
  BY <1>1, <1>2, TurnMarked
<1>4. Held'
  BY <1>1, <1>2, <1>3, HeldMoves
<1> QED
  BY <1>3, <1>4 DEF MsgStep

\* A step that only moves the call.
LEMMA CallKeeps ==
  ASSUME Shape, Good(db), Held, NEW c \in Clients, db' = db, call[c].op # "idle", NEW v,
         call' = [call EXCEPT ![c] = v], v.op = "idle" \/ v.turn = call[c].turn
  PROVE  MsgStep
<1>1. Good(db') /\ Grown(db, db')
  BY SameMsgs
<1>2. call[c].turn \in DOMAIN db.turns
  BY DEF Held
<1>3. Held'
  BY <1>1, <1>2, HeldMoves
<1> QED
  BY <1>1, <1>3 DEF MsgStep

\* Every statement of a turn adds at the end and takes nothing away.
LEMMA SqliteTalkKeeps ==
  ASSUME Shape, Good(db), Held, NEW c \in Clients, Lite!ConversationStep(c)
  PROVE  MsgStep /\ (Lite!Poll(c) \/ seen' = seen)
<1>1. CASE Lite!Does(c, "conversation", Lite!InsertReasonTurn(db, c))
  BY <1>1, InsertTurnKeeps
<1>2. CASE Lite!BeginReasonTurn(c)
  BY <1>2, BeginKeeps DEF Lite!BeginReasonTurn
<1>3. CASE Lite!AppendLLMEvents(c)
  <2>1. call' = call /\ seen' = seen
    BY <1>3 DEF Lite!AppendLLMEvents
  <2>2. DOMAIN db' = DBFields /\ db'.msgs = db.msgs /\ db'.seq = db.seq /\ db'.turns = db.turns
    BY <1>3 DEF Lite!AppendLLMEvents, Good, DBFields, Tables
  <2>3. Good(db') /\ Grown(db, db')
    <3>1. \A t \in DOMAIN db.turns : "agent" \in DOMAIN db'.turns[t] /\ db'.turns[t].agent = db.turns[t].agent
      BY <2>2 DEF Good
    <3> QED
      BY <2>2, <3>1, GrownSame
  <2> QED
    BY <2>1, <2>3, HeldStays DEF MsgStep
<1>4. CASE Lite!AppendLLMMessages(c)
  <2> DEFINE m == Lite!Says("tool")
  <2>1. PICK s : db' = Lite!insertDerivedMessage(db, call[c].turn, s, m)
    BY <1>4 DEF Lite!AppendLLMMessages
  <2>2. call' = call /\ seen' = seen /\ call[c].op = "turn"
    BY <1>4 DEF Lite!AppendLLMMessages
  <2>3. call[c].turn \in DOMAIN db.turns
    BY <2>2 DEF Held
  <2> HIDE DEF m
  <2>4. Good(db') /\ Grown(db, db')
    BY <2>1, <2>3, DerivedAdded
  <2> QED
    BY <2>2, <2>4, HeldStays DEF MsgStep
<1>5. CASE Lite!FinishReasonTurn(c)
  <2>1. PICK v : /\ call' = [call EXCEPT ![c] = v] /\ v.op = "finish" /\ v.turn \in DOMAIN db.turns
    <3>1. CASE call[c].op = "turn" /\ call' = [call EXCEPT ![c].op = "finish"]
      <4> DEFINE v == [call[c] EXCEPT !.op = "finish"]
      <4>1. call' = [call EXCEPT ![c] = v] /\ v.op = "finish" /\ v.turn = call[c].turn
        BY <3>1 DEF Shape
      <4>2. call[c].turn \in DOMAIN db.turns
        BY <3>1 DEF Held
      <4> HIDE DEF v
      <4> QED
        BY <4>1, <4>2
    <3>2. ASSUME NEW t \in DOMAIN db.turns, call' = [call EXCEPT ![c] = [op |-> "finish", turn |-> t]]
          PROVE  \E v : call' = [call EXCEPT ![c] = v] /\ v.op = "finish" /\ v.turn \in DOMAIN db.turns
      <4> DEFINE v == [op |-> "finish", turn |-> t]
      <4>1. call' = [call EXCEPT ![c] = v] /\ v.op = "finish" /\ v.turn = t
        BY <3>2
      <4> HIDE DEF v
      <4> QED
        BY <3>2, <4>1
    <3> QED
      BY <1>5, <3>1, <3>2 DEF Lite!FinishReasonTurn
  <2>2. call'[c] = v
    BY <2>1 DEF Shape
  <2>3. db' = [db EXCEPT !.turns[v.turn]["status"] = "finished"] /\ seen' = seen
    BY <1>5, <2>2 DEF Lite!FinishReasonTurn
  <2>4. Good(db') /\ Grown(db, db') /\ DOMAIN db'.turns = DOMAIN db.turns
    BY <2>1, <2>3, TurnMarked
  <2>5. Held'
    BY <2>1, <2>4, HeldMoves
  <2> QED
    BY <2>3, <2>4, <2>5 DEF MsgStep
<1>6. CASE Lite!FinishDerive(c)
  <2> DEFINE v == [op |-> "derive", turn |-> call[c].turn,
                   todo |-> Lite!AggregateChatMessages(Lite!ListLLMEvents(db, call[c].turn))]
  <2>1. call' = [call EXCEPT ![c] = v] /\ db' = db /\ seen' = seen /\ call[c].op = "finish"
    BY <1>6 DEF Lite!FinishDerive
  <2>2. v.turn = call[c].turn
    OBVIOUS
  <2> HIDE DEF v
  <2> QED
    BY <2>1, <2>2, CallKeeps
<1>7. CASE Lite!recordAggregatedMessages(c)
  BY <1>7, AggregatedKeeps DEF Lite!recordAggregatedMessages
<1>8. CASE Lite!FinishSeq(c)
  <2>1. PICK n : call' = [call EXCEPT ![c] = [op |-> "reply", turn |-> call[c].turn, seq |-> n]]
    BY <1>8 DEF Lite!FinishSeq
  <2> DEFINE v == [op |-> "reply", turn |-> call[c].turn, seq |-> n]
  <2>2. call' = [call EXCEPT ![c] = v] /\ db' = db /\ seen' = seen /\ call[c].op = "derive"
    BY <1>8, <2>1 DEF Lite!FinishSeq
  <2>3. v.turn = call[c].turn
    OBVIOUS
  <2> HIDE DEF v
  <2> QED
    BY <2>2, <2>3, CallKeeps
<1>9. CASE Lite!recordAssistantMessage(c)
  BY <1>9, ReplyKeeps DEF Lite!recordAssistantMessage
<1>10. CASE Lite!FinishRunId(c)
  BY <1>10, RunIdKeeps DEF Lite!FinishRunId
<1>11. CASE Lite!Poll(c)
  BY <1>11, SameMsgs, HeldStays DEF Lite!Poll, MsgStep
<1> QED
  BY <1>1, <1>2, <1>3, <1>4, <1>5, <1>6, <1>7, <1>8, <1>9, <1>10, <1>11 DEF Lite!ConversationStep

TalkInv == port = "conversation" => Good(db) /\ Held /\ Cursor /\ PollMissesNothing

Quiet == port # "conversation" => db.msgs = None
SqlitePollInv == SqliteBase /\ TalkInv /\ Quiet

\* Another port has no messages.
LEMMA QuietStays == ASSUME Quiet, Frame PROVE Quiet'
<1>1. "msgs" \in DBFields /\ (port # "conversation" => ~Writes(port, "msgs"))
  BY DEF DBFields, Tables, Writes
<1> QED
  BY <1>1 DEF Quiet, Frame

\* The poller's invariant is inductive.
LEMMA SqlitePollStep ==
  ASSUME SqlitePollInv, [Lite!Next]_vars
  PROVE  SqlitePollInv'
<1>1. CASE vars' = vars
  <2>1. db' = db /\ call' = call /\ port' = port /\ seen' = seen
    BY <1>1 DEF vars
  <2> QED
    BY <2>1 DEF SqlitePollInv, SqliteBase, TalkInv, Shape, Calls, Good, Ids, Numbered, Held, Cursor, PollMissesNothing, Quiet
<1>2. CASE Lite!Next
  <2>1. Moves(SqliteOps(port)) /\ (Lite!Crash \/ \E c \in Clients : SqlitePortStep(c))
    BY <1>2, SqliteSteps DEF SqlitePollInv, SqliteBase
  <2>2. port' = port /\ Frame
    BY <2>1 DEF Moves, Frame
  <2>3. SqliteBase' /\ Quiet'
    BY <2>1, <2>2, QuietStays DEF Moves, SqliteBase, Calls, SqlitePollInv
  <2>4. ASSUME port = "conversation" PROVE Good(db') /\ Held' /\ Cursor' /\ PollMissesNothing'
    <3>1. Good(db) /\ Held /\ Cursor /\ PollMissesNothing /\ Shape
      BY <2>4 DEF SqlitePollInv, SqliteBase, TalkInv
    <3>2. MsgStep /\ (seen' = seen \/ \E c \in Clients : Lite!Poll(c))
      <4>1. CASE Lite!Crash
        <5>1. PICK c \in Clients : call[c].op # "idle" /\ call' = [call EXCEPT ![c] = [op |-> "idle"]]
          BY <4>1 DEF Lite!Crash
        <5>2. db' = db /\ seen' = seen
          BY <4>1 DEF Lite!Crash
        <5> DEFINE v == [op |-> "idle"]
        <5>3. v.op = "idle" /\ call' = [call EXCEPT ![c] = v]
          BY <5>1
        <5> HIDE DEF v
        <5> QED
          BY <3>1, <5>1, <5>2, <5>3, CallKeeps
      <4>2. CASE ~Lite!Crash
        <5>1. PICK c \in Clients : Lite!ConversationStep(c)
          BY <2>1, <2>4, <4>2 DEF SqlitePortStep, Inboxes
        <5> QED
          BY <3>1, <5>1, SqliteTalkKeeps
      <4> QED
        BY <4>1, <4>2
    <3>3. CASE seen' = seen
      BY <3>1, <3>2, <3>3, GrownKeepsCursor DEF MsgStep
    <3>4. ASSUME NEW c \in Clients, Lite!Poll(c) PROVE Cursor' /\ PollMissesNothing'
      <4>1. Grown(db, db)
        BY DEF Grown
      <4>2. Lite!Max({0} \cup seen.ids) = Max({0} \cup seen.ids)
        BY <3>1, CursorIs DEF Cursor
      <4>3. /\ db' = db /\ seen.of \in {{}, {c}}
            /\ LET page == Lite!ListLLMMessagesAfter(db, c, Max({0} \cup seen.ids))
               IN page # {} /\ seen' = [of |-> {c}, ids |-> seen.ids \cup page]
        BY <3>4, <4>2 DEF Lite!Poll
      <4> QED
        BY <3>1, <4>1, <4>3, PageKeepsCursor
    <3> QED
      BY <3>2, <3>3, <3>4 DEF MsgStep
  <2> QED
    BY <2>2, <2>3, <2>4 DEF SqlitePollInv, TalkInv
<1> QED
  BY <1>1, <1>2

\* The poller's invariant holds of an empty store.
LEMMA StoreTalks ==
  ASSUME Init PROVE TalkInv /\ Quiet
<1>1. db = EmptyDB /\ seen = [of |-> {}, ids |-> {}]
  BY DEF Init
<1>2. /\ DOMAIN db = DBFields /\ DOMAIN db.msgs = {} /\ DOMAIN db.turns = {} /\ Ids(db, "msgs")
      /\ \A c \in Clients : call[c].op = "idle"
  BY StoreStarts DEF Shape, Tables
<1>3. db.msgs = None
  BY <1>1 DEF EmptyDB, Tables
<1>4. IsFiniteSet({})
  BY FS_EmptySet
<1>5. Numbered(db.turns)
  BY <1>2 DEF Numbered
<1>6. Good(db)
  BY <1>2, <1>4, <1>5 DEF Good
<1>7. Held /\ Cursor /\ PollMissesNothing
  BY <1>1, <1>2 DEF Held, Cursor, PollMissesNothing
<1> QED
  BY <1>3, <1>6, <1>7 DEF TalkInv, Quiet

\* A poller has missed nothing on any port.
LEMMA TalkIsComplete == ASSUME TalkInv, Quiet PROVE PollMissesNothing
<1>1. CASE port = "conversation"
  BY <1>1 DEF TalkInv
<1>2. CASE port # "conversation"
  <2>1. DOMAIN db.msgs = {}
    BY <1>2 DEF Quiet, None
  <2> QED
    BY <2>1 DEF PollMissesNothing
<1> QED
  BY <1>1, <1>2

\* A poller on the sqlite engine is given every message of the agent up to its
\* cursor (sqlite_store.go: ListLLMMessagesAfter pages by id).
THEOREM PollMissesNothingOnSqlite == Lite!Spec => []PollMissesNothing
<1>1. Lite!Init => SqlitePollInv
  <2> SUFFICES ASSUME Lite!Init PROVE SqlitePollInv
    OBVIOUS
  <2>1. Init
    BY DEF Lite!Init, Init, Lite!EmptyDB, EmptyDB, Lite!IDBases, IDBases, Lite!None, None, Lite!Tables, Tables
  <2>2. SqliteBase
    BY <2>1, StoreStarts, SqliteOpsAre DEF SqliteBase, Calls
  <2> QED
    BY <2>1, <2>2, StoreTalks DEF SqlitePollInv
<1>2. SqlitePollInv /\ [Lite!Next]_(Lite!vars) => SqlitePollInv'
  BY SqlitePollStep DEF vars, Lite!vars
<1>3. SqlitePollInv => PollMissesNothing
  BY TalkIsComplete DEF SqlitePollInv
<1> QED
  BY <1>1, <1>2, <1>3, PTL DEF Lite!Spec

-----------------------------------------------------------------------------
(* The poller on the postgres engine, which reads a follower that may lag *)

Kept(t) == {"turn", "aggregator"} \subseteq DOMAIN t /\ Groups(t.aggregator.groups)

\* A trace is of the turn its client is inside.
Traced ==
  /\ DOMAIN trace = Clients
  /\ \A c \in Clients : Kept(trace[c]) /\ (call[c].op = "turn" => trace[c].turn = call[c].turn)

\* The follower has an earlier state of the tables.
Following == Good(replica) /\ Grown(replica, db)

\* A call leaves the stage its trace is for.
LEMMA TracedMoves ==
  ASSUME Traced, NEW c \in Clients, \A e \in Clients \ {c} : call'[e] = call[e], trace' = trace, call'[c].op # "turn"
  PROVE  Traced'
BY DEF Traced

\* No call and no trace moves.
LEMMA TracedStays == ASSUME Traced, call' = call, trace' = trace PROVE Traced'
BY DEF Traced

\* A trace moves with its call.
LEMMA TraceKept ==
  ASSUME Traced, NEW c \in Clients, \A e \in Clients \ {c} : call'[e] = call[e], NEW w,
         trace' = [trace EXCEPT ![c] = w], Kept(w), call'[c].op = "turn" => w.turn = call'[c].turn
  PROVE  Traced'
<1>1. DOMAIN trace' = Clients /\ trace'[c] = w /\ \A e \in Clients \ {c} : trace'[e] = trace[e]
  BY DEF Traced
<1>2. SUFFICES ASSUME NEW e \in Clients
               PROVE  Kept(trace'[e]) /\ (call'[e].op = "turn" => trace'[e].turn = call'[e].turn)
  BY <1>1 DEF Traced, Kept
<1>3. CASE e = c
  BY <1>1, <1>3
<1>4. CASE e # c
  BY <1>1, <1>4 DEF Traced
<1> QED
  BY <1>3, <1>4

\* An event of a stream, and the end of it.
LEMMA StreamKeeps ==
  ASSUME Good(db), NEW c, NEW t, t.turn \in DOMAIN db.turns, {"turn", "aggregator"} \subseteq DOMAIN t,
         NEW agg, Said(agg.out), NEW full, Step(c, t, agg, full)
  PROVE  /\ Good(db') /\ Grown(db, db')
         /\ \E w : /\ trace' = [trace EXCEPT ![c] = w] /\ w.turn = t.turn /\ w.aggregator = agg
                   /\ {"turn", "aggregator"} \subseteq DOMAIN w
<1>1. PICK kept, told \in BOOLEAN :
        /\ db' = emitMessages(IF full THEN flush(db, t, kept) ELSE db, t, agg.out, told)
        /\ trace' = [trace EXCEPT ![c] = [t EXCEPT !.buf = IF full THEN <<>> ELSE @, !.aggregator = agg,
                       !.unkept = @ \/ ~kept, !.unsaid = @ \/ ~told]]
  BY DEF Step
<1> DEFINE d == IF full THEN flush(db, t, kept) ELSE db
           out == agg.out
           e == AppendLLMMessages(d, t.turn, out)
           w == [t EXCEPT !.buf = IF full THEN <<>> ELSE @, !.aggregator = agg,
                   !.unkept = @ \/ ~kept, !.unsaid = @ \/ ~told]
<1>2. Good(d) /\ Grown(db, d) /\ d.turns = db.turns
  <2>1. CASE full
    <3>1. d = flush(db, t, kept)
      BY <2>1
    <3> HIDE DEF d
    <3> QED
      BY <3>1, EventsAdded
  <2>2. CASE ~full
    BY <2>2 DEF Grown
  <2> QED
    BY <2>1, <2>2
<1>3. db' = d \/ db' = e
  BY <1>1 DEF emitMessages
<1>4. w.turn = t.turn /\ w.aggregator = agg /\ {"turn", "aggregator"} \subseteq DOMAIN w
  OBVIOUS
<1>5. trace' = [trace EXCEPT ![c] = w]
  BY <1>1
<1>6. IsFiniteSet(DOMAIN out)
  BY DEF Said
<1> HIDE DEF d, out, w
<1>7. Good(e) /\ Grown(d, e)
  BY <1>2, <1>6, BatchAdded
<1> HIDE DEF e
<1>8. Good(db') /\ Grown(db, db')
  <2> DEFINE b == db  f == db'
  <2>1. Good(b) /\ Good(d) /\ Grown(b, d) /\ Good(e) /\ Grown(d, e) /\ (f = d \/ f = e)
    BY <1>2, <1>3, <1>7
  <2> HIDE DEF b, f
  <2>2. Grown(b, e)
    BY <2>1, GrownTrans
  <2>3. CASE f = d
    BY <2>1, <2>3 DEF b, f
  <2>4. CASE f = e
    BY <2>1, <2>2, <2>4 DEF b, f
  <2> QED
    BY <2>1, <2>3, <2>4
<1> QED
  BY <1>4, <1>5, <1>8, Zenon

\* The conversation's writers leave the poller alone.
LEMMA ConversationSeen == ASSUME NEW c, ConversationStep(c) PROVE seen' = seen
BY Zenon DEF ConversationStep, BeginLLMTraceFrom, BeginReasonTurn, Lite!BeginReasonTurn, EmitEvent, Finish, FinishStored,
       FinishDerive, FinishFails, Origin, FinishRunId, Lite!FinishRunId, FinishReasonTurn, recordAggregatedMessages,
       Lite!recordAggregatedMessages, FinishSeq, recordAssistantMessage, Lite!recordAssistantMessage

PostgresTalks == MsgStep /\ Traced'

\* A turn begins and its trace with it.
LEMMA PostgresBegins ==
  ASSUME Shape, Good(db), Held, Traced, NEW c \in Clients, BeginLLMTraceFrom(c) PROVE PostgresTalks
<1>1. Lite!BeginReasonTurn(c)
  BY DEF BeginLLMTraceFrom, BeginReasonTurn
<1>2. MsgStep /\ call'[c].op = "turn" /\ \A e \in Clients \ {c} : call'[e] = call[e]
  BY <1>1, BeginKeeps
<1>3. PICK on \in BOOLEAN :
        trace' = [trace EXCEPT ![c] = [Inert EXCEPT !.active = TRUE, !.events = on, !.turn = call'[c].turn]]
  BY DEF BeginLLMTraceFrom
<1> DEFINE w == [Inert EXCEPT !.active = TRUE, !.events = on, !.turn = call'[c].turn]
<1>4. w.turn = call'[c].turn /\ w.aggregator = Empty /\ {"turn", "aggregator"} \subseteq DOMAIN w
  BY DEF Inert
<1>5. trace' = [trace EXCEPT ![c] = w]
  BY <1>3
<1> HIDE DEF w
<1>6. Kept(w)
  BY <1>4, EmptyIs DEF Kept
<1> QED
  BY <1>2, <1>4, <1>5, <1>6, TraceKept DEF PostgresTalks

\* An event is streamed, and what it completes is written.
LEMMA PostgresEmits ==
  ASSUME Shape, Good(db), Held, Traced, NEW c \in Clients, NEW e, EmitEvent(c, e) PROVE PostgresTalks
<1> DEFINE t == [trace[c] EXCEPT !.said = Append(@, e), !.buf = IF trace[c].events THEN Append(@, e) ELSE @]
           full == Len(t.buf) >= llmEventFlushSize
           agg == Add(trace[c].aggregator, e)
<1>1. Kept(trace[c])
  BY DEF Traced
<1>2. t.turn = trace[c].turn /\ t.aggregator = trace[c].aggregator /\ {"turn", "aggregator"} \subseteq DOMAIN t
  BY <1>1 DEF Kept
<1>3. call[c].op = "turn" /\ Step(c, t, agg, full) /\ call' = call
  BY <1>2 DEF EmitEvent
<1>4. Groups(agg.groups) /\ Said(agg.out)
  BY <1>1, AddIs DEF Kept
<1>5. t.turn = call[c].turn /\ t.turn \in DOMAIN db.turns
  BY <1>2, <1>3 DEF Traced, Held
<1> HIDE DEF t, full, agg
<1>6. /\ Good(db') /\ Grown(db, db')
      /\ \E w : /\ trace' = [trace EXCEPT ![c] = w] /\ w.turn = t.turn /\ w.aggregator = agg
                /\ {"turn", "aggregator"} \subseteq DOMAIN w
  BY <1>2, <1>3, <1>4, <1>5, StreamKeeps
<1>7. PICK w : /\ trace' = [trace EXCEPT ![c] = w] /\ w.turn = t.turn /\ w.aggregator = agg
               /\ {"turn", "aggregator"} \subseteq DOMAIN w
  BY <1>6
<1>8. Kept(w)
  BY <1>4, <1>7 DEF Kept
<1>9. Traced'
  BY <1>3, <1>5, <1>7, <1>8, TraceKept
<1> QED
  BY <1>3, <1>6, <1>9, HeldStays DEF PostgresTalks, MsgStep

\* The stream ends: the rest is flushed and written.
LEMMA PostgresFinishes ==
  ASSUME Shape, Good(db), Held, Traced, NEW c \in Clients, Finish(c) PROVE PostgresTalks
<1> DEFINE t == trace[c]
           agg == Flush(t.aggregator)
           v == [call[c] EXCEPT !.op = "flushed"]
<1>1. call[c].op = "turn" /\ Step(c, t, agg, TRUE) /\ call' = [call EXCEPT ![c] = v]
  BY DEF Finish
<1>2. Kept(t) /\ t.turn = call[c].turn /\ t.turn \in DOMAIN db.turns
  BY <1>1 DEF Traced, Held
<1>3. Groups(agg.groups) /\ Said(agg.out)
  BY <1>2, FlushIs DEF Kept
<1>4. v.op = "flushed" /\ v.turn = call[c].turn
  BY DEF Shape
<1> DEFINE full == TRUE
<1> HIDE DEF v, t, agg, full
<1>5. {"turn", "aggregator"} \subseteq DOMAIN t /\ Step(c, t, agg, full)
  BY <1>1, <1>2 DEF Kept, full
<1>6. /\ Good(db') /\ Grown(db, db')
      /\ \E w : /\ trace' = [trace EXCEPT ![c] = w] /\ w.turn = t.turn /\ w.aggregator = agg
                /\ {"turn", "aggregator"} \subseteq DOMAIN w
  BY <1>2, <1>3, <1>5, StreamKeeps
<1>7. PICK w : /\ trace' = [trace EXCEPT ![c] = w] /\ w.turn = t.turn /\ w.aggregator = agg
               /\ {"turn", "aggregator"} \subseteq DOMAIN w
  BY <1>6
<1>8. Kept(w)
  BY <1>3, <1>7 DEF Kept
<1>9. call'[c] = v /\ \A e \in Clients \ {c} : call'[e] = call[e]
  BY <1>1 DEF Shape
<1>10. Traced'
  BY <1>4, <1>7, <1>8, <1>9, TraceKept
<1>11. v.turn \in DOMAIN db'.turns
  BY <1>2, <1>4, <1>6 DEF Grown
<1>12. Held'
  BY <1>1, <1>6, <1>11, HeldMoves
<1> QED
  BY <1>6, <1>10, <1>12 DEF PostgresTalks, MsgStep

\* A step of the derivation that writes no trace but a note.
LEMMA NoteKeeps ==
  ASSUME Shape, Traced, NEW c \in Clients, NEW v, call' = [call EXCEPT ![c] = v], v.op # "turn",
         NEW w, trace' = [trace EXCEPT ![c] = w], Kept(w)
  PROVE  Traced'
<1>1. call'[c] = v /\ \A e \in Clients \ {c} : call'[e] = call[e]
  BY DEF Shape
<1> QED
  BY <1>1, TraceKept

\* A step of the derivation that writes no trace.
LEMMA MoveKeeps ==
  ASSUME Shape, Traced, NEW c \in Clients, NEW v, call' = [call EXCEPT ![c] = v], v.op # "turn", trace' = trace
  PROVE  Traced'
<1>1. call'[c] = v /\ \A e \in Clients \ {c} : call'[e] = call[e]
  BY DEF Shape
<1> QED
  BY <1>1, TracedMoves

\* Every statement of a turn adds at the end and takes nothing away, lost writes
\* included.
LEMMA PostgresTalkKeeps ==
  ASSUME Shape, Good(db), Held, Traced, NEW c \in Clients, ConversationStep(c)
  PROVE  PostgresTalks
<1>0. Kept(trace[c])
  BY DEF Traced
<1>1. CASE BeginLLMTraceFrom(c)
  BY <1>1, PostgresBegins
<1>2. ASSUME NEW e, EmitEvent(c, e) PROVE PostgresTalks
  BY <1>2, PostgresEmits
<1>3. CASE Finish(c)
  BY <1>3, PostgresFinishes
<1>4. CASE FinishStored(c)
  <2> DEFINE v == [op |-> "derive", turn |-> call[c].turn,
                   todo |-> AggregateChatMessages(ListLLMEvents(readPool, call[c].turn))]
             w == [trace[c] EXCEPT !.behind = ListLLMEvents(readPool, call[c].turn) # ListLLMEvents(db, call[c].turn)]
  <2>1. call' = [call EXCEPT ![c] = v] /\ db' = db /\ call[c].op = "finish"
    BY <1>4 DEF FinishStored, FinishDerive
  <2>2. trace' = [trace EXCEPT ![c] = w]
    BY <1>4 DEF FinishStored
  <2>3. v.op = "derive" /\ v.turn = call[c].turn
    OBVIOUS
  <2>4. Kept(w)
    BY <1>0 DEF Kept
  <2> HIDE DEF v, w
  <2> QED
    BY <2>1, <2>2, <2>3, <2>4, CallKeeps, NoteKeeps DEF PostgresTalks
<1>5. CASE FinishFails(c)
  <2> DEFINE v == [call[c] EXCEPT !.op = "runid"]
             w == [trace[c] EXCEPT !.failed = TRUE]
  <2>1. call' = [call EXCEPT ![c] = v] /\ db' = db /\ call[c].op # "idle"
    BY <1>5 DEF FinishFails
  <2>2. trace' = [trace EXCEPT ![c] = w]
    BY <1>5 DEF FinishFails
  <2>3. v.op = "runid" /\ v.turn = call[c].turn
    BY DEF Shape
  <2>4. Kept(w)
    BY <1>0 DEF Kept
  <2> HIDE DEF v, w
  <2> QED
    BY <2>1, <2>2, <2>3, <2>4, CallKeeps, NoteKeeps DEF PostgresTalks
<1>6. CASE Origin(c)
  <2> DEFINE v == [op |-> "idle"]
             w == [trace[c] EXCEPT !.active = FALSE, !.reply = AssistantMessageID(Reading("writer"), call[c].turn)]
  <2>1. Lite!FinishRunId(c)
    BY <1>6 DEF Origin, FinishRunId
  <2>2. call' = [call EXCEPT ![c] = v]
    BY <2>1 DEF Lite!FinishRunId
  <2>3. trace' = [trace EXCEPT ![c] = w]
    BY <1>6 DEF Origin
  <2>4. v.op = "idle" /\ Kept(w)
    BY <1>0 DEF Kept
  <2> HIDE DEF v, w
  <2> QED
    BY <2>1, <2>2, <2>3, <2>4, RunIdKeeps, NoteKeeps DEF PostgresTalks
<1>7. CASE FinishReasonTurn(c) /\ trace' = trace
  <2> DEFINE v == [call[c] EXCEPT !.op = "finish"]
             t == call[c].turn
  <2>1. call' = [call EXCEPT ![c] = v] /\ call[c].op = "flushed"
    BY <1>7 DEF FinishReasonTurn
  <2>2. db' = [db EXCEPT !.turns[t]["status"] = "finished"]
    BY <1>7 DEF FinishReasonTurn
  <2>3. v.op = "finish" /\ v.turn = t
    BY DEF Shape
  <2>4. t \in DOMAIN db.turns
    BY <2>1 DEF Held
  <2> HIDE DEF v, t
  <2>5. Good(db') /\ Grown(db, db') /\ DOMAIN db'.turns = DOMAIN db.turns
    BY <2>2, <2>4, TurnMarked
  <2>6. Held'
    BY <2>1, <2>3, <2>4, <2>5, HeldMoves
  <2> QED
    BY <1>7, <2>1, <2>3, <2>5, <2>6, MoveKeeps DEF PostgresTalks, MsgStep
<1>8. CASE recordAggregatedMessages(c) /\ trace' = trace
  <2>1. Lite!recordAggregatedMessages(c)
    BY <1>8 DEF recordAggregatedMessages
  <2>2. PICK f : call' = [call EXCEPT ![c] = [call[c] EXCEPT !.todo = f]]
    BY <2>1 DEF Lite!recordAggregatedMessages
  <2> DEFINE v == [call[c] EXCEPT !.todo = f]
  <2>3. v.op = "derive"
    BY <2>1 DEF Lite!recordAggregatedMessages, Shape
  <2> HIDE DEF v
  <2>4. call' = [call EXCEPT ![c] = v]
    BY <2>2 DEF v
  <2> QED
    BY <1>8, <2>1, <2>3, <2>4, AggregatedKeeps, MoveKeeps DEF PostgresTalks
<1>9. CASE FinishSeq(c) /\ trace' = trace
  <2>1. PICK n : call' = [call EXCEPT ![c] = [op |-> "reply", turn |-> call[c].turn, seq |-> n]]
    BY <1>9 DEF FinishSeq
  <2> DEFINE v == [op |-> "reply", turn |-> call[c].turn, seq |-> n]
  <2>2. call' = [call EXCEPT ![c] = v] /\ db' = db /\ call[c].op = "derive"
    BY <1>9, <2>1 DEF FinishSeq
  <2>3. v.turn = call[c].turn /\ v.op = "reply"
    OBVIOUS
  <2> HIDE DEF v
  <2> QED
    BY <1>9, <2>2, <2>3, CallKeeps, MoveKeeps DEF PostgresTalks
<1>10. CASE recordAssistantMessage(c) /\ trace' = trace
  <2> DEFINE v == [call[c] EXCEPT !.op = "runid"]
  <2>1. Lite!recordAssistantMessage(c)
    BY <1>10 DEF recordAssistantMessage
  <2>2. call' = [call EXCEPT ![c] = v]
    BY <2>1 DEF Lite!recordAssistantMessage
  <2>3. v.op = "runid"
    BY DEF Shape
  <2> HIDE DEF v
  <2> QED
    BY <1>10, <2>1, <2>2, <2>3, ReplyKeeps, MoveKeeps DEF PostgresTalks
<1>11. CASE Does(c, "conversation", InsertReasonTurn(db, c)) /\ trace' = trace
  <2>1. db' = Lite!InsertReasonTurn(db, c) /\ call' = call
    BY <1>11 DEF InsertReasonTurn
  <2> QED
    BY <1>11, <2>1, InsertTurnKeeps, TracedStays DEF PostgresTalks
<1> QED
  BY <1>1, <1>2, <1>3, <1>4, <1>5, <1>6, <1>7, <1>8, <1>9, <1>10, <1>11 DEF ConversationStep

\* The steps that can be taken while the conversation's port is exercised.
LEMMA TalkSteps ==
  ASSUME Shape, Calls(PostgresOps(port)), port = "conversation", TraceNext
  PROVE  \/ Replicate /\ trace' = trace
         \/ Crash /\ trace' = trace /\ reader' = reader /\ replica' = replica
         \/ \E c \in Clients : Poll(c) /\ trace' = trace /\ reader' = reader /\ replica' = replica
         \/ \E c \in Clients : ConversationStep(c) /\ reader' = reader /\ replica' = replica
<1>1. ASSUME NEW c \in Clients, TableStep(c) PROVE FALSE
  <2>1. \/ ensureIDSequences(c)
        \/ \E w : Does(c, "task", UpsertTask(db, w))
        \/ PostgresAgentStep(c) \/ PostgresInboxStep(c) \/ PostgresExecutionStep(c)
        \/ PostgresVerificationStep(c) \/ PostgresAccountStep(c)
    BY <1>1 DEF TableStep, PostgresAgentStep, PostgresInboxStep, PostgresExecutionStep, PostgresVerificationStep,
                PostgresAccountStep
  <2>2. port \notin Inboxes \cup {"task", "agent", "inbox", "execution", "verification", "account"}
    BY DEF Inboxes
  <2> QED
    BY <2>1, <2>2, PostgresSequences, PostgresTask, PostgresAgent, PostgresInbox, PostgresExecution,
       PostgresVerification, PostgresAccount
<1> QED
  BY <1>1 DEF TraceNext

PostgresTalkInv == port = "conversation" => Following /\ Traced
PostgresPollInv == PostgresBase /\ TalkInv /\ Quiet /\ PostgresTalkInv

\* A state is no earlier than itself.
LEMMA GrownSelf == ASSUME NEW d, Good(d) PROVE Grown(d, d)
BY DEF Grown

\* A follower that is not refreshed only falls further behind.
LEMMA FollowerLags ==
  ASSUME Good(db), Good(db'), Grown(db, db'), Following, replica' = replica
  PROVE  Following'
<1> DEFINE d == db  e == db'  r == replica
<1>1. Good(d) /\ Good(e) /\ Good(r) /\ Grown(r, d) /\ Grown(d, e)
  BY DEF Following
<1> HIDE DEF d, e, r
<1>2. Grown(r, e)
  BY <1>1, GrownTrans
<1>3. Good(replica') /\ Grown(replica', db')
  BY <1>1, <1>2 DEF e, r
<1> QED
  BY <1>3 DEF Following

\* Every step of the conversation port keeps the cursor complete, reads from the
\* follower included.
LEMMA PostgresPollKeeps ==
  ASSUME Shape, Calls(PostgresOps(port)), port = "conversation", TraceNext,
         Good(db), Held, Cursor, PollMissesNothing, Following, Traced
  PROVE  Good(db') /\ Held' /\ Cursor' /\ PollMissesNothing' /\ Following' /\ Traced'
<1>1. CASE Replicate /\ trace' = trace
  <2>1. db' = db /\ call' = call /\ seen' = seen /\ replica' = db
    BY <1>1 DEF Replicate
  <2>2. Good(db') /\ Grown(db, db')
    BY <2>1, SameMsgs
  <2>3. Good(replica') /\ Grown(replica', db')
    BY <2>1, <2>2
  <2>4. Following'
    BY <2>3 DEF Following
  <2> QED
    BY <1>1, <2>1, <2>2, <2>4, HeldStays, TracedStays, GrownKeepsCursor
<1>2. CASE Crash /\ trace' = trace /\ replica' = replica
  <2>1. PICK c \in Clients : call[c].op # "idle" /\ call' = [call EXCEPT ![c] = [op |-> "idle"]]
    BY <1>2 DEF Crash
  <2>2. db' = db /\ seen' = seen
    BY <1>2 DEF Crash
  <2> DEFINE v == [op |-> "idle"]
  <2>3. v.op = "idle" /\ call' = [call EXCEPT ![c] = v]
    BY <2>1
  <2> HIDE DEF v
  <2>4. MsgStep /\ Traced'
    BY <1>2, <2>1, <2>2, <2>3, CallKeeps, MoveKeeps
  <2> QED
    BY <1>2, <2>2, <2>4, GrownKeepsCursor, FollowerLags DEF MsgStep
<1>3. ASSUME NEW c \in Clients, Poll(c), trace' = trace, replica' = replica
      PROVE  Good(db') /\ Held' /\ Cursor' /\ PollMissesNothing' /\ Following' /\ Traced'
  <2> DEFINE r == readPool
             page == Lite!ListLLMMessagesAfter(r, c, Max({0} \cup seen.ids))
  <2>1. /\ db' = db /\ call' = call /\ seen.of \in {{}, {c}}
        /\ page # {} /\ seen' = [of |-> {c}, ids |-> seen.ids \cup page]
    BY <1>3 DEF Poll, ListLLMMessagesAfter
  <2>2. Good(r) /\ Grown(r, db)
    BY GrownSelf DEF readPool, Following
  <2>3. Good(db') /\ Grown(db, db')
    BY <2>1, SameMsgs
  <2> HIDE DEF r
  <2>4. Cursor' /\ PollMissesNothing'
    BY <2>1, <2>2, PageKeepsCursor
  <2> QED
    BY <1>3, <2>1, <2>3, <2>4, HeldStays, TracedStays, FollowerLags
<1>4. ASSUME NEW c \in Clients, ConversationStep(c), replica' = replica
      PROVE  Good(db') /\ Held' /\ Cursor' /\ PollMissesNothing' /\ Following' /\ Traced'
  <2>1. MsgStep /\ Traced'
    BY <1>4, PostgresTalkKeeps DEF PostgresTalks
  <2>2. seen' = seen
    BY <1>4, ConversationSeen
  <2> QED
    BY <1>4, <2>1, <2>2, GrownKeepsCursor, FollowerLags DEF MsgStep
<1> QED
  BY <1>1, <1>2, <1>3, <1>4, TalkSteps

\* The poller's invariant is inductive.
LEMMA PostgresPollStep ==
  ASSUME PostgresPollInv, [TraceNext]_traceVars
  PROVE  PostgresPollInv'
<1>1. CASE traceVars' = traceVars
  <2>1. db' = db /\ call' = call /\ port' = port /\ seen' = seen /\ trace' = trace /\ replica' = replica
    BY <1>1 DEF traceVars
  <2> QED
    BY <2>1 DEF PostgresPollInv, PostgresBase, TalkInv, PostgresTalkInv, Shape, Calls, Good, Ids, Numbered, Held, Cursor,
                PollMissesNothing, Quiet, Following, Traced
<1>2. CASE TraceNext
  <2>1. Moves(PostgresOps(port))
    BY <1>2, PostgresSteps DEF PostgresPollInv, PostgresBase
  <2>2. port' = port /\ Frame
    BY <2>1 DEF Moves, Frame
  <2>3. PostgresBase' /\ Quiet'
    BY <2>1, <2>2, QuietStays DEF Moves, PostgresBase, Calls, PostgresPollInv
  <2>4. ASSUME port = "conversation"
        PROVE  Good(db') /\ Held' /\ Cursor' /\ PollMissesNothing' /\ Following' /\ Traced'
    BY <1>2, <2>4, PostgresPollKeeps DEF PostgresPollInv, PostgresBase, TalkInv, PostgresTalkInv
  <2>5. TalkInv' /\ PostgresTalkInv'
    BY <2>2, <2>4 DEF TalkInv, PostgresTalkInv
  <2> QED
    BY <2>3, <2>5 DEF PostgresPollInv
<1> QED
  BY <1>1, <1>2

\* The poller's invariant holds of an empty store and its follower.
LEMMA PostgresPollStart ==
  ASSUME TraceInit PROVE PostgresPollInv
<1>1. Init /\ replica = EmptyDB /\ trace = [c \in Clients |-> Inert]
  BY DEF TraceInit, PostgresInit
<1>2. PostgresBase
  BY <1>1, StoreStarts, PostgresOpsAre DEF PostgresBase, Calls
<1>3. TalkInv /\ Quiet
  BY <1>1, StoreTalks
<1>4. port = "conversation" => Following
  <2>1. replica = db
    BY <1>1 DEF Init
  <2> QED
    BY <1>3, <2>1, GrownSelf DEF TalkInv, Following
<1>5. Traced
  <2>1. Kept(Inert)
    BY EmptyIs DEF Kept, Inert
  <2>2. \A c \in Clients : call[c].op = "idle"
    BY <1>1, StoreStarts
  <2> QED
    BY <1>1, <2>1, <2>2 DEF Traced
<1> QED
  BY <1>2, <1>3, <1>4, <1>5 DEF PostgresPollInv, PostgresTalkInv

\* A poller on the postgres engine is given every message of the agent up to
\* its cursor although it reads a follower that may lag behind the writer
\* (postgres_store.go: ListLLMMessagesAfter on the read pool).
THEOREM PollMissesNothingOnPostgres == TraceSpec => []PollMissesNothing
<1>1. TraceInit => PostgresPollInv
  BY PostgresPollStart
<1>2. PostgresPollInv => PollMissesNothing
  BY TalkIsComplete DEF PostgresPollInv
<1> QED
  BY <1>1, <1>2, PostgresPollStep, PTL DEF TraceSpec

-----------------------------------------------------------------------------
(* What a stream says *)

\* Rows written over rows.
LEMMA OverIs ==
  ASSUME NEW rows, NEW out, Said(rows), Said(out)
  PROVE  Said(Over(rows, out))
<1>1. DOMAIN Over(rows, out) = DOMAIN rows \cup DOMAIN out
  BY DEF Over
<1>2. IsFiniteSet(DOMAIN rows \cup DOMAIN out)
  BY FS_Union DEF Said
<1> QED
  BY <1>1, <1>2 DEF Over, Said

\* Where the fold of a stream is after some of its events.
Begun == [a |-> Empty, rows |-> Empty.out]
Next1(was, e) == LET a == Add(was.a, e) IN [a |-> a, rows |-> Over(was.rows, a.out)]
Folds(f, events, n) ==
  f = [i \in 0..n |-> IF i = 0 THEN Begun ELSE Next1(f[i - 1], events[i])]

\* There is such a fold, by the least number of events for which there were none.
LEMMA FoldExists == ASSUME NEW events, NEW L \in Nat PROVE \E f : Folds(f, events, L)
<1> DEFINE Bad == {n \in Nat : ~\E f : Folds(f, events, n)}
<1>1. SUFFICES ASSUME Bad # {} PROVE FALSE
  OBVIOUS
<1>2. PICK n \in Bad : \A k \in Bad : n <= k
  <2>1. PICK x : x \in Bad
    BY <1>1
  <2>2. Bad \in SUBSET Nat
    OBVIOUS
  <2> HIDE DEF Bad
  <2> QED
    BY <2>1, <2>2, Least
<1>3. n \in Nat /\ ~\E f : Folds(f, events, n)
  OBVIOUS
<1>4. CASE n = 0
  <2> DEFINE f == [i \in 0..0 |-> Begun]
  <2>1. f = [i \in 0..0 |-> IF i = 0 THEN Begun ELSE Next1(f[i - 1], events[i])]
    OBVIOUS
  <2> QED
    BY <1>3, <1>4, <2>1 DEF Folds
<1>5. CASE n # 0
  <2>1. n - 1 \in Nat /\ n - 1 \notin Bad
    BY <1>2, <1>3, <1>5
  <2>2. PICK g : Folds(g, events, n - 1)
    BY <2>1
  <2> DEFINE f == [i \in 0..n |-> IF i = n THEN Next1(g[n - 1], events[n]) ELSE g[i]]
  <2>3. \A i \in 0..(n - 1) : f[i] = g[i]
    BY <1>3
  <2>4. \A i \in 0..n : f[i] = IF i = 0 THEN Begun ELSE Next1(f[i - 1], events[i])
    <3> TAKE i \in 0..n
    <3>1. CASE i = n
      BY <1>3, <1>5, <2>3, <3>1
    <3>2. CASE i # n
      <4>1. i \in 0..(n - 1)
        BY <1>3, <3>2
      <4>2. g[i] = IF i = 0 THEN Begun ELSE Next1(g[i - 1], events[i])
        BY <2>2, <4>1 DEF Folds
      <4>3. i # 0 => i - 1 \in 0..(n - 1)
        BY <4>1
      <4> QED
        BY <2>3, <4>1, <4>2, <4>3
    <3> QED
      BY <3>1, <3>2
  <2>5. f = [i \in 0..n |-> IF i = 0 THEN Begun ELSE Next1(f[i - 1], events[i])]
    <3>1. f = [i \in 0..n |-> f[i]]
      OBVIOUS
    <3> HIDE DEF f
    <3> QED
      BY <2>4, <3>1
  <2> QED
    BY <1>3, <2>5 DEF Folds
<1> QED
  BY <1>4, <1>5

\* What a fold has said by its end; an empty one has said nothing.
LEMMA FoldSays ==
  ASSUME NEW events, NEW L \in Nat, NEW f, Folds(f, events, L)
  PROVE  /\ Said(Over(f[L].rows, Flush(f[L].a).out))
         /\ L = 0 => DOMAIN Over(f[L].rows, Flush(f[L].a).out) = {}
<1>1. \A i \in 0..L : f[i] = IF i = 0 THEN Begun ELSE Next1(f[i - 1], events[i])
  BY DEF Folds
<1> DEFINE Bad == {n \in 0..L : ~(Groups(f[n].a.groups) /\ Said(f[n].rows))}
<1>2. Bad = {}
  <2> SUFFICES ASSUME Bad # {} PROVE FALSE
    OBVIOUS
  <2>1. PICK n \in Bad : \A k \in Bad : n <= k
    <3>1. PICK x : x \in Bad
      OBVIOUS
    <3>2. Bad \in SUBSET Nat
      OBVIOUS
    <3> HIDE DEF Bad
    <3> QED
      BY <3>1, <3>2, Least
  <2>2. n \in 0..L /\ ~(Groups(f[n].a.groups) /\ Said(f[n].rows))
    OBVIOUS
  <2>3. n # 0
    BY <1>1, <2>2, EmptyIs DEF Begun
  <2>4. n - 1 \in 0..L /\ n - 1 \notin Bad
    BY <2>1, <2>2, <2>3
  <2>5. Groups(f[n - 1].a.groups) /\ Said(f[n - 1].rows)
    BY <2>4
  <2> DEFINE was == f[n - 1]
             a == Add(was.a, events[n])
  <2>6. f[n].a = a /\ f[n].rows = Over(was.rows, a.out)
    <3>1. f[n] = Next1(was, events[n])
      BY <1>1, <2>2, <2>3
    <3>2. Next1(was, events[n]) = [a |-> a, rows |-> Over(was.rows, a.out)]
      BY DEF Next1
    <3> HIDE DEF was, a
    <3> QED
      BY <3>1, <3>2
  <2>7. Groups(a.groups) /\ Said(a.out)
    BY <2>5, AddIs
  <2> HIDE DEF was, a
  <2>8. Said(was.rows)
    BY <2>5 DEF was
  <2> QED
    BY <2>2, <2>6, <2>7, <2>8, OverIs
<1>3. Groups(f[L].a.groups) /\ Said(f[L].rows)
  BY <1>2
<1> DEFINE rows == f[L].rows  out == Flush(f[L].a).out
<1>4. Said(rows) /\ Said(out)
  BY <1>3, FlushIs
<1>5. ASSUME L = 0 PROVE DOMAIN rows = {} /\ DOMAIN out = {}
  <2>1. f[L] = Begun
    BY <1>1, <1>5
  <2>2. f[L].rows = Empty.out /\ f[L].a = Empty
    BY <2>1 DEF Begun
  <2>3. DOMAIN Empty.out = {} /\ DOMAIN Empty.groups = {}
    BY DEF Empty
  <2> DEFINE gs == Empty.groups  done == {i \in DOMAIN gs : ~gs[i].emitted}
  <2>4. done = {} /\ Flush(Empty) = Emit(gs, done)
    BY <2>3 DEF Flush
  <2> HIDE DEF gs, done
  <2>5. DOMAIN Flush(Empty).out = {}
    BY <2>4 DEF Emit
  <2> QED
    BY <2>2, <2>3, <2>5
<1> HIDE DEF rows, out
<1>6. Said(Over(rows, out))
  BY <1>4, OverIs
<1>7. L = 0 => DOMAIN Over(rows, out) = {}
  BY <1>5 DEF Over
<1> QED
  BY <1>6, <1>7 DEF rows, out

\* What a whole stream says.
LEMMA AggregateIs ==
  ASSUME NEW events, Len(events) \in Nat
  PROVE  Said(AggregateChatMessages(events))
<1> DEFINE L == Len(events)
           f == CHOOSE g : Folds(g, events, L)
<1>1. AggregateChatMessages(events) = Over(f[L].rows, Flush(f[L].a).out)
  BY DEF AggregateChatMessages, Folds, Begun, Next1
<1>2. Folds(f, events, L)
  BY FoldExists
<1> HIDE DEF f
<1> QED
  BY <1>1, <1>2, FoldSays

\* The engines fold with one and the same accumulator.
LEMMA SameAccumulator ==
  /\ \A a, e : Lite!Add(a, e) = Add(a, e)
  /\ \A a : Lite!Flush(a) = Flush(a)
  /\ \A rows, out : Lite!Over(rows, out) = Over(rows, out)
  /\ Lite!Empty = Empty
<1>1. \A a, e : Lite!Add(a, e) = Add(a, e)
  BY DEF Lite!Add, Add, Lite!Emit, Emit, Lite!Completed, Completed, Lite!NewTool, NewTool, Lite!MergeTool, MergeTool,
         Lite!Thinking, Thinking, Lite!Emits, Emits, Lite!ChatMessage, ChatMessage
<1>2. \A a : Lite!Flush(a) = Flush(a)
  BY DEF Lite!Flush, Flush, Lite!Emit, Emit, Lite!ChatMessage, ChatMessage
<1>3. \A rows, out : Lite!Over(rows, out) = Over(rows, out)
  BY DEF Lite!Over, Over
<1>4. Lite!Empty = Empty
  BY DEF Lite!Empty, Empty
<1> QED
  BY <1>1, <1>2, <1>3, <1>4

LiteNext(was, e) == LET a == Lite!Add(was.a, e) IN [a |-> a, rows |-> Lite!Over(was.rows, a.out)]
LiteFolds(f, events, n) ==
  f = [i \in 0..n |-> IF i = 0 THEN [a |-> Lite!Empty, rows |-> Lite!Empty.out] ELSE LiteNext(f[i - 1], events[i])]

\* What a whole stream says on the sqlite engine; an empty one says nothing.
LEMMA LiteAggregateIs ==
  ASSUME NEW events, Len(events) \in Nat
  PROVE  /\ Said(Lite!AggregateChatMessages(events))
         /\ Len(events) = 0 => DOMAIN Lite!AggregateChatMessages(events) = {}
<1> DEFINE L == Len(events)
           f == CHOOSE g : LiteFolds(g, events, L)
<1>1. Lite!AggregateChatMessages(events) = Lite!Over(f[L].rows, Lite!Flush(f[L].a).out)
  BY DEF Lite!AggregateChatMessages, LiteFolds, LiteNext
<1>2. \A g : LiteFolds(g, events, L) <=> Folds(g, events, L)
  BY SameAccumulator DEF LiteFolds, LiteNext, Folds, Begun, Next1
<1>3. \E g : LiteFolds(g, events, L)
  BY <1>2, FoldExists
<1>4. LiteFolds(f, events, L)
  BY <1>3
<1> HIDE DEF f
<1>5. Folds(f, events, L)
  BY <1>2, <1>4
<1>6. Lite!AggregateChatMessages(events) = Over(f[L].rows, Flush(f[L].a).out)
  BY <1>1, SameAccumulator
<1> QED
  BY <1>5, <1>6, FoldSays

-----------------------------------------------------------------------------
(* Places of rows *)

\* Finitely many numbers have a bound, by the shortest enumeration without one.
LEMMA FiniteIsBounded ==
  ASSUME NEW S, IsFiniteSet(S), NEW f, \A x \in S : f[x] \in Nat
  PROVE  \E n \in Nat : \A x \in S : f[x] <= n
<1>1. PICK k \in Nat : ExistsSurjection(1..k, S)
  BY FS_NatSurjection
<1>2. PICK g : g \in [1..k -> S] /\ \A x \in S : \E i \in 1..k : g[i] = x
  BY <1>1 DEF ExistsSurjection, Surjection
<1> DEFINE Bad == {i \in 0..k : ~\E n \in Nat : \A j \in 1..i : f[g[j]] <= n}
<1>3. Bad = {}
  <2> SUFFICES ASSUME Bad # {} PROVE FALSE
    OBVIOUS
  <2>1. PICK i \in Bad : \A j \in Bad : i <= j
    <3>1. PICK x : x \in Bad
      OBVIOUS
    <3>2. Bad \in SUBSET Nat
      OBVIOUS
    <3> HIDE DEF Bad
    <3> QED
      BY <3>1, <3>2, Least
  <2>2. i \in 0..k /\ ~\E n \in Nat : \A j \in 1..i : f[g[j]] <= n
    OBVIOUS
  <2>3. i # 0
    <3>1. \A j \in 1..0 : f[g[j]] <= 0
      OBVIOUS
    <3> QED
      BY <2>2, <3>1
  <2>4. i - 1 \in 0..k /\ i - 1 \notin Bad
    <3> HIDE DEF Bad
    <3> QED
      BY <2>1, <2>2, <2>3
  <2>5. PICK n \in Nat : \A j \in 1..(i - 1) : f[g[j]] <= n
    BY <2>4
  <2>6. f[g[i]] \in Nat /\ \A j \in 1..i : f[g[j]] \in Nat
    <3>1. \A j \in 1..k : f[g[j]] \in Nat
      BY <1>2
    <3>2. i \in 1..k /\ \A j \in 1..i : j \in 1..k
      BY <2>2, <2>3
    <3> HIDE DEF Bad
    <3> QED
      BY <3>1, <3>2
  <2> DEFINE top == f[g[i]]
  <2>7. \A j \in 1..i : j = i \/ j \in 1..(i - 1)
    BY <2>2
  <2> HIDE DEF Bad
  <2>8. CASE top <= n
    <3>1. \A j \in 1..i : f[g[j]] <= n
      BY <2>5, <2>7, <2>8
    <3> QED
      BY <2>2, <3>1
  <2>9. CASE ~(top <= n)
    <3>1. \A j \in 1..i : f[g[j]] <= top
      BY <2>5, <2>6, <2>7, <2>9
    <3> QED
      BY <2>2, <2>6, <3>1
  <2> QED
    BY <2>8, <2>9
<1>4. PICK n \in Nat : \A j \in 1..k : f[g[j]] <= n
  <2>1. k \in 0..k /\ k \notin Bad
    BY <1>3
  <2> QED
    BY <2>1
<1> QED
  BY <1>2, <1>4

\* Both copies of what is said of a turn are one.
LEMMA SameRows ==
  ASSUME NEW d, NEW t, NEW s
  PROVE  /\ Lite!Rows(d, t) = Rows(d, t) /\ Lite!At(d, t, s) = At(d, t, s)
         /\ Lite!Replies(d, t) = Replies(d, t)
BY DEF Lite!Rows, Rows, Lite!At, At, Lite!Replies, Replies

\* The places of messages are numbers.
Placed(d) == \A m \in DOMAIN d.msgs : d.msgs[m].seq \in Nat

\* The highest place of a turn is above its rows' and is one of them.
LEMMA HighestSeqIs ==
  ASSUME NEW d, Good(d), Placed(d), NEW t
  PROVE  /\ HighestSeq(d, t) \in Nat /\ \A m \in Rows(d, t) : d.msgs[m].seq <= HighestSeq(d, t)
         /\ HighestSeq(d, t) = 0 \/ \E m \in Rows(d, t) : d.msgs[m].seq = HighestSeq(d, t)
         /\ Lite!HighestSeq(d, t) = HighestSeq(d, t)
<1> DEFINE R == Rows(d, t)
           S == {0} \cup {d.msgs[m].seq : m \in R}
           f == [m \in R |-> d.msgs[m].seq]
<1>1. IsFiniteSet(R)
  <2>1. R \in SUBSET DOMAIN d.msgs
    BY DEF Rows
  <2> HIDE DEF R
  <2> QED
    BY <2>1, FS_Subset DEF Good
<1>2. \A m \in R : f[m] = d.msgs[m].seq /\ f[m] \in Nat
  BY DEF Placed, Rows
<1>3. S \in SUBSET Nat /\ 0 \in S
  BY <1>2
<1> HIDE DEF f
<1>4. PICK n \in Nat : \A m \in R : f[m] <= n
  BY <1>1, <1>2, FiniteIsBounded
<1>5. \A y \in S : y <= n
  BY <1>2, <1>4
<1>6. HighestSeq(d, t) = Max(S) /\ Lite!HighestSeq(d, t) = Lite!Max(S)
  BY SameRows DEF HighestSeq, Lite!HighestSeq
<1>7. \A m \in R : d.msgs[m].seq \in S
  OBVIOUS
<1>8. \A y \in S : y = 0 \/ \E m \in R : d.msgs[m].seq = y
  OBVIOUS
<1> HIDE DEF S, R
<1>9. Max(S) \in S /\ (\A y \in S : Max(S) >= y) /\ Lite!Max(S) = Max(S)
  BY <1>3, <1>5, MaxIs
<1>10. Max(S) \in Nat /\ \A m \in R : d.msgs[m].seq <= Max(S)
  BY <1>2, <1>3, <1>7, <1>9
<1> QED
  BY <1>6, <1>8, <1>9, <1>10 DEF R

\* One turn: it has one reply at most, and nothing is placed after it.
LastOf(d, t) ==
  /\ \A m, n \in Replies(d, t) : m = n
  /\ \A m \in Replies(d, t), n \in Rows(d, t) : d.msgs[n].seq <= d.msgs[m].seq

\* Which is what ReplyIsLast counts and measures.
LEMMA LastIsLast ==
  ASSUME Good(db), Placed(db), \A t \in DOMAIN db.turns : LastOf(db, t)
  PROVE  ReplyIsLast
<1> SUFFICES ASSUME NEW t \in DOMAIN db.turns
             PROVE  /\ Cardinality(Replies(db, t)) <= 1
                    /\ \A m \in Replies(db, t) : db.msgs[m].seq = HighestSeq(db, t)
  BY DEF ReplyIsLast
<1>1. LastOf(db, t)
  OBVIOUS
<1>2. Cardinality(Replies(db, t)) <= 1
  <2>1. CASE Replies(db, t) = {}
    <3>1. Cardinality({}) = 0
      BY FS_EmptySet
    <3> QED
      BY <2>1, <3>1
  <2>2. CASE Replies(db, t) # {}
    <3>1. PICK m : m \in Replies(db, t)
      BY <2>2
    <3>2. Replies(db, t) = {m}
      BY <1>1, <3>1 DEF LastOf
    <3>3. Cardinality({m}) = 1
      BY FS_Singleton
    <3> QED
      BY <3>2, <3>3
  <2> QED
    BY <2>1, <2>2
<1>3. ASSUME NEW m \in Replies(db, t) PROVE db.msgs[m].seq = HighestSeq(db, t)
  <2>1. m \in Rows(db, t) /\ db.msgs[m].seq \in Nat
    BY <1>3 DEF Replies, Placed, Rows
  <2>2. /\ HighestSeq(db, t) \in Nat /\ \A n \in Rows(db, t) : db.msgs[n].seq <= HighestSeq(db, t)
        /\ HighestSeq(db, t) = 0 \/ \E n \in Rows(db, t) : db.msgs[n].seq = HighestSeq(db, t)
    BY HighestSeqIs
  <2>3. \A n \in Rows(db, t) : db.msgs[n].seq <= db.msgs[m].seq
    BY <1>1, <1>3 DEF LastOf
  <2> QED
    BY <2>1, <2>2, <2>3
<1> QED
  BY <1>2, <1>3

-----------------------------------------------------------------------------
(* What a statement says, and whose turn it leaves alone *)

\* What a statement that says `out' in a turn leaves of the rows: one it does not
\* write is as it was, one it writes over keeps its turn and its place.
SaysAt(d, e, t, out, i) ==
  \E s \in DOMAIN out :
    /\ e.msgs[i].turn = t /\ e.msgs[i].seq = s /\ e.msgs[i].role = out[s].role
    /\ IF i \in DOMAIN d.msgs THEN i \in At(d, t, s) ELSE At(d, t, s) = {}
Derives(d, e, t, out) ==
  /\ DOMAIN d.msgs \subseteq DOMAIN e.msgs
  /\ \A i \in DOMAIN e.msgs : (i \in DOMAIN d.msgs /\ e.msgs[i] = d.msgs[i]) \/ SaysAt(d, e, t, out, i)
One(s, m) == [x \in {s} |-> m]
Covers(e, t, out) == \A s \in DOMAIN out : At(e, t, s) # {}

\* A row inserted, by what it leaves.
LEMMA InsertIs ==
  ASSUME NEW d, Good(d), NEW row
  PROVE  LET e == Lite!Insert(d, "msgs", row)
         IN /\ e.turns = d.turns /\ e.events = d.events
            /\ \E k : /\ k \notin DOMAIN d.msgs
                      /\ e.msgs = Put(d.msgs, k, row)
<1> DEFINE e == Lite!Insert(d, "msgs", row)
           k == Lite!NextId(d, "msgs")
<1>1. k \notin DOMAIN d.msgs
  BY NextIdIsNew DEF Good, Ids
<1>2. e = [d EXCEPT !["msgs"] = Lite!Put(@, k, row), !.seq["msgs"] = k]
  BY DEF Lite!Insert
<1> HIDE DEF k, e
<1>3. /\ e.turns = d.turns /\ e.events = d.events
      /\ e.msgs = Put(d.msgs, k, row)
  BY <1>2 DEF Lite!Put, Put, Good, DBFields, Tables
<1> QED
  BY <1>1, <1>3 DEF e

\* One row inserted is one thing said.
LEMMA InsertDerives ==
  ASSUME NEW d, NEW e, NEW t, NEW s, NEW m, At(d, t, s) = {}, NEW k, k \notin DOMAIN d.msgs,
         e.msgs = Put(d.msgs, k, Lite!Message(t, s, m))
  PROVE  Derives(d, e, t, One(s, m)) /\ Covers(e, t, One(s, m))
<1> DEFINE out == One(s, m)  row == Lite!Message(t, s, m)
<1>1. DOMAIN out = {s} /\ out[s] = m /\ row.turn = t /\ row.seq = s /\ row.role = m.role
  BY DEF Lite!Message, One
<1> HIDE DEF out, row
<1>2. e.msgs = Put(d.msgs, k, row)
  BY DEF row
<1>3. k \in DOMAIN e.msgs /\ e.msgs[k] = row /\ \A i \in DOMAIN d.msgs : i \in DOMAIN e.msgs /\ e.msgs[i] = d.msgs[i]
  BY <1>2 DEF Put
<1>4. SaysAt(d, e, t, out, k)
  BY <1>1, <1>3 DEF SaysAt
<1>5. Derives(d, e, t, out)
  BY <1>2, <1>3, <1>4 DEF Derives, Put
<1>6. k \in At(e, t, s)
  BY <1>1, <1>3 DEF At, Rows
<1> QED
  BY <1>1, <1>5, <1>6 DEF Covers, out

\* A message said once, and a derived message written over.
LEMMA DerivedSays ==
  ASSUME NEW d, Good(d), NEW t, NEW s, NEW m, NEW e,
         e \in {Lite!insertMessageTx(d, t, s, m), Lite!insertDerivedMessage(d, t, s, m)}
  PROVE  /\ Derives(d, e, t, One(s, m)) /\ Covers(e, t, One(s, m))
         /\ e.turns = d.turns /\ e.events = d.events
<1> DEFINE out == One(s, m)  row == Lite!Message(t, s, m)
<1>0. DOMAIN out = {s} /\ out[s] = m /\ row.turn = t /\ row.seq = s /\ row.role = m.role
  BY DEF Lite!Message, One
<1>1. CASE At(d, t, s) = {}
  <2>1. e = Lite!Insert(d, "msgs", row)
    BY <1>1, SameRows DEF Lite!insertMessageTx, Lite!insertDerivedMessage
  <2> HIDE DEF row
  <2>2. /\ e.turns = d.turns /\ e.events = d.events
        /\ \E k : /\ k \notin DOMAIN d.msgs
                  /\ e.msgs = Put(d.msgs, k, row)
    <3> DEFINE f == Lite!Insert(d, "msgs", row)
    <3>1. /\ f.turns = d.turns /\ f.events = d.events
          /\ \E k : /\ k \notin DOMAIN d.msgs
                    /\ f.msgs = Put(d.msgs, k, row)
      BY InsertIs
    <3>2. e = f
      BY <2>1
    <3> HIDE DEF f
    <3> QED
      BY <3>1, <3>2
  <2>3. PICK k : /\ k \notin DOMAIN d.msgs
                 /\ e.msgs = Put(d.msgs, k, row)
    BY <2>2
  <2>4. e.msgs = Put(d.msgs, k, Lite!Message(t, s, m))
    BY <2>3 DEF row
  <2>5. Derives(d, e, t, One(s, m)) /\ Covers(e, t, One(s, m))
    BY <1>1, <2>3, <2>4, InsertDerives
  <2> QED
    BY <2>2, <2>5
<1>2. ASSUME At(d, t, s) # {}, e = d PROVE Derives(d, e, t, out) /\ Covers(e, t, out)
  BY <1>0, <1>2 DEF Derives, Covers
<1>3. ASSUME At(d, t, s) # {}, e = [d EXCEPT !.msgs = [i \in DOMAIN @ |-> IF i \in At(d, t, s) THEN row ELSE @[i]]]
      PROVE  Derives(d, e, t, out) /\ Covers(e, t, out) /\ e.turns = d.turns /\ e.events = d.events
  <2> HIDE DEF row, out
  <2>1. /\ e.turns = d.turns /\ e.events = d.events
        /\ e.msgs = [i \in DOMAIN d.msgs |-> IF i \in At(d, t, s) THEN row ELSE d.msgs[i]]
    BY <1>3 DEF Good, DBFields, Tables
  <2>2. \A i \in At(d, t, s) : i \in DOMAIN d.msgs /\ e.msgs[i] = row
    BY <2>1 DEF At, Rows
  <2>3. \A i \in At(d, t, s) : SaysAt(d, e, t, out, i)
    BY <1>0, <2>2 DEF SaysAt
  <2>4. \A i \in DOMAIN d.msgs : i \notin At(d, t, s) => e.msgs[i] = d.msgs[i]
    BY <2>1
  <2>5. Derives(d, e, t, out)
    BY <2>1, <2>3, <2>4 DEF Derives
  <2>6. \A i \in At(d, t, s) : i \in At(e, t, s)
    BY <1>0, <2>1, <2>2 DEF At, Rows
  <2> QED
    BY <1>0, <1>3, <2>1, <2>5, <2>6 DEF Covers
<1> QED
  BY <1>1, <1>2, <1>3, SameRows DEF Lite!insertMessageTx, Lite!insertDerivedMessage

\* A batch says each of its rows.
LEMMA BatchSays ==
  ASSUME NEW d, Good(d), NEW t, NEW out
  PROVE  LET e == AppendLLMMessages(d, t, out) IN Derives(d, e, t, out) /\ e.turns = d.turns /\ e.events = d.events
<1> DEFINE new == NewSeqs(d, t, out)
           id(s) == NewMessageId(d, t, out, s)
           row(s) == Lite!Message(t, s, out[s])
           inserted(m) == CHOOSE s \in new : id(s) = m
           n == Lite!NextId(d, "msgs") + Cardinality(new) - 1
           e == AppendLLMMessages(d, t, out)
<1>1. \A s : row(s).turn = t /\ row(s).seq = s /\ row(s).role = out[s].role
  BY DEF Lite!Message
<1>2. \A s \in new : s \in DOMAIN out /\ At(d, t, s) = {}
  BY DEF NewSeqs
<1>3. \A s \in new : inserted(id(s)) \in new
  OBVIOUS
<1>4. e = [d EXCEPT !.msgs = [m \in DOMAIN @ \cup {id(s) : s \in new} |->
                            IF m \notin DOMAIN @ THEN row(inserted(m))
                            ELSE IF m \in Rows(d, t) /\ @[m].seq \in DOMAIN out THEN row(@[m].seq)
                            ELSE @[m]],
               !.seq.msgs = n]
  BY DEF AppendLLMMessages
<1> HIDE DEF new, id, row, inserted, n, e
<1>5. /\ e.turns = d.turns /\ e.events = d.events
      /\ e.msgs = [m \in DOMAIN d.msgs \cup {id(s) : s \in new} |->
                            IF m \notin DOMAIN d.msgs THEN row(inserted(m))
                            ELSE IF m \in Rows(d, t) /\ d.msgs[m].seq \in DOMAIN out THEN row(d.msgs[m].seq)
                            ELSE d.msgs[m]]
  BY <1>4 DEF Good, DBFields, Tables
<1>6. ASSUME NEW i \in DOMAIN e.msgs
      PROVE  (i \in DOMAIN d.msgs /\ e.msgs[i] = d.msgs[i]) \/ SaysAt(d, e, t, out, i)
  <2>1. CASE i \notin DOMAIN d.msgs
    <3>1. e.msgs[i] = row(inserted(i)) /\ inserted(i) \in new
      BY <1>3, <1>5, <1>6, <2>1
    <3> QED
      BY <1>1, <1>2, <2>1, <3>1 DEF SaysAt
  <2>2. CASE i \in Rows(d, t) /\ d.msgs[i].seq \in DOMAIN out
    <3>1. i \in DOMAIN d.msgs /\ e.msgs[i] = row(d.msgs[i].seq) /\ i \in At(d, t, d.msgs[i].seq)
      BY <1>5, <2>2 DEF Rows, At
    <3> QED
      BY <1>1, <2>2, <3>1 DEF SaysAt
  <2>3. CASE i \in DOMAIN d.msgs /\ ~(i \in Rows(d, t) /\ d.msgs[i].seq \in DOMAIN out)
    BY <1>5, <2>3
  <2> QED
    BY <2>1, <2>2, <2>3
<1>7. Derives(d, e, t, out)
  BY <1>5, <1>6 DEF Derives
<1> QED
  BY <1>5, <1>7 DEF e

\* What the events of a run say.
Agg(d, t) == Lite!AggregateChatMessages(Lite!ListLLMEvents(d, t))

\* Nothing of a turn moved: its rows, and on sqlite its events, are as they were.
Apart(lite, d, e, u) ==
  /\ Rows(e, u) = Rows(d, u) /\ \A m \in Rows(d, u) : e.msgs[m] = d.msgs[m]
  /\ lite => Lite!ListLLMEvents(e, u) = Lite!ListLLMEvents(d, u)

\* Its reply is last, and what a second finish would write is there, elsewhere
\* than the reply (only the sqlite port finishes a turn twice).
Repeatable(d, t) ==
  \A s \in DOMAIN Agg(d, t) : At(d, t, s) # {} /\ \A m \in Replies(d, t) : d.msgs[m].seq # s
TurnOk(lite, d, t) == LastOf(d, t) /\ (lite /\ Replies(d, t) # {} => Repeatable(d, t))

\* The place right after every row of a turn that has no reply.
Free(d, t, n) ==
  n \in Nat /\ n = HighestSeq(d, t) + 1 /\ Replies(d, t) = {} /\ \A m \in Rows(d, t) : d.msgs[m].seq < n

\* How far a call has brought its turn: there is no reply before the derivation
\* on postgres, what is derived is written or still to be, and the reply's place
\* is free if it has been taken.
Stage(lite, v, d) ==
  /\ v.op = "turn" \/ (~lite /\ v.op \in {"flushed", "finish", "derive"}) => Replies(d, v.turn) = {}
  /\ v.op = "derive" =>
       /\ "todo" \in DOMAIN v /\ Said(v.todo)
       /\ lite => /\ DOMAIN v.todo \subseteq DOMAIN Agg(d, v.turn)
                  /\ \A s \in DOMAIN Agg(d, v.turn) \ DOMAIN v.todo : At(d, v.turn, s) # {}
  /\ v.op = "reply" =>
       /\ v.seq = 0 \/ Free(d, v.turn, v.seq)
       /\ lite => \A s \in DOMAIN Agg(d, v.turn) : At(d, v.turn, s) # {}

\* What is said in one turn leaves the others alone.
LEMMA DerivesApart ==
  ASSUME NEW d, NEW e, NEW t, NEW out, Derives(d, e, t, out), NEW u, u # t
  PROVE  Rows(e, u) = Rows(d, u) /\ \A m \in Rows(d, u) : e.msgs[m] = d.msgs[m]
<1>1. \A m \in Rows(d, u) : m \in DOMAIN d.msgs /\ d.msgs[m].turn = u /\ m \in DOMAIN e.msgs
  BY DEF Rows, Derives
<1>2. \A m \in Rows(d, u) : e.msgs[m] = d.msgs[m]
  BY <1>1 DEF Derives, SaysAt, At, Rows
<1>3. \A m \in Rows(e, u) : m \in DOMAIN d.msgs /\ e.msgs[m] = d.msgs[m]
  BY DEF Derives, SaysAt, Rows
<1> QED
  BY <1>1, <1>2, <1>3 DEF Rows

\* A turn's rows keep their places, and its reply stays what it was, if what is
\* said is not said over it, or there is none.
LEMMA DerivesKeeps ==
  ASSUME NEW d, NEW e, NEW t, NEW out, Derives(d, e, t, out), LastOf(d, t), Placed(d),
         \A s \in DOMAIN out : s \in Nat /\ out[s].role # "assistant",
         \/ Replies(d, t) = {}
         \/ \A s \in DOMAIN out : At(d, t, s) # {} /\ \A m \in Replies(d, t) : d.msgs[m].seq # s
  PROVE  /\ LastOf(e, t) /\ Placed(e) /\ Replies(e, t) = Replies(d, t)
         /\ \A m \in Replies(d, t) : e.msgs[m] = d.msgs[m]
         /\ \A s : At(d, t, s) # {} => At(e, t, s) # {}
<1>1. \A i \in DOMAIN d.msgs : i \in DOMAIN e.msgs /\ e.msgs[i].turn = d.msgs[i].turn /\ e.msgs[i].seq = d.msgs[i].seq
  BY DEF Derives, SaysAt, At, Rows
<1>2. Placed(e)
  BY DEF Placed, Derives, SaysAt
<1>3. \A m \in Replies(d, t) : e.msgs[m] = d.msgs[m]
  <2> SUFFICES ASSUME NEW m \in Replies(d, t) PROVE e.msgs[m] = d.msgs[m]
    OBVIOUS
  <2>1. m \in DOMAIN d.msgs /\ m \in DOMAIN e.msgs
    BY <1>1 DEF Replies, Rows
  <2>2. ~SaysAt(d, e, t, out, m)
    BY <2>1 DEF SaysAt, At
  <2> QED
    BY <2>1, <2>2 DEF Derives
<1>4. \A m \in Replies(e, t) : m \in Replies(d, t)
  <2> SUFFICES ASSUME NEW m \in Replies(e, t) PROVE m \in Replies(d, t)
    OBVIOUS
  <2>1. m \in DOMAIN e.msgs /\ e.msgs[m].turn = t /\ e.msgs[m].role = "assistant"
    BY DEF Replies, Rows
  <2>2. ~SaysAt(d, e, t, out, m)
    BY <2>1 DEF SaysAt
  <2> QED
    BY <2>1, <2>2 DEF Derives, Replies, Rows
<1>5. Replies(e, t) = Replies(d, t)
  BY <1>1, <1>3, <1>4 DEF Replies, Rows
<1>6. \A s : At(d, t, s) # {} => At(e, t, s) # {}
  BY <1>1 DEF At, Rows
<1>7. ASSUME NEW m \in Replies(e, t), NEW n \in Rows(e, t) PROVE e.msgs[n].seq <= e.msgs[m].seq
  <2>1. m \in Replies(d, t) /\ e.msgs[m] = d.msgs[m]
    BY <1>3, <1>5, <1>7
  <2>2. n \in DOMAIN d.msgs
    <3>1. n \in DOMAIN e.msgs
      BY <1>7 DEF Rows
    <3>2. n \in DOMAIN d.msgs \/ SaysAt(d, e, t, out, n)
      BY <3>1 DEF Derives
    <3> QED
      BY <2>1, <3>2 DEF SaysAt
  <2>3. n \in Rows(d, t) /\ e.msgs[n].seq = d.msgs[n].seq
    BY <1>1, <1>7, <2>2 DEF Rows
  <2> QED
    BY <2>1, <2>3 DEF LastOf
<1>8. LastOf(e, t)
  BY <1>5, <1>7 DEF LastOf
<1> QED
  BY <1>2, <1>3, <1>5, <1>6, <1>8

\* A turn nobody moved is as good as it was, and so is the call that holds it.
LEMMA ApartKeeps ==
  ASSUME NEW lite, NEW d, NEW e, NEW u, Apart(lite, d, e, u)
  PROVE  /\ Replies(e, u) = Replies(d, u) /\ \A s : At(e, u, s) = At(d, u, s)
         /\ lite => Agg(e, u) = Agg(d, u)
         /\ TurnOk(lite, d, u) => TurnOk(lite, e, u)
         /\ \A v : v.turn = u /\ Stage(lite, v, d) => Stage(lite, v, e)
<1>1. Replies(e, u) = Replies(d, u)
  BY DEF Apart, Replies, Rows
<1>2. \A s : At(e, u, s) = At(d, u, s)
  BY DEF Apart, At, Rows
<1>3. lite => Agg(e, u) = Agg(d, u)
  BY DEF Apart, Agg
<1>4. \A m \in Replies(d, u) : e.msgs[m] = d.msgs[m] /\ m \in Rows(d, u)
  BY DEF Apart, Replies, Rows
<1>5. LastOf(d, u) => LastOf(e, u)
  BY <1>1, <1>4 DEF Apart, LastOf
<1>6. lite /\ Repeatable(d, u) => Repeatable(e, u)
  BY <1>1, <1>2, <1>3, <1>4 DEF Repeatable
<1>7. \A n : Free(d, u, n) => Free(e, u, n)
  <2>1. {e.msgs[m].seq : m \in Rows(e, u)} = {d.msgs[m].seq : m \in Rows(d, u)}
    BY DEF Apart
  <2>2. HighestSeq(e, u) = HighestSeq(d, u)
    BY <2>1 DEF HighestSeq
  <2> QED
    BY <1>1, <2>2 DEF Apart, Free
<1>8. ASSUME NEW v, v.turn = u, Stage(lite, v, d) PROVE Stage(lite, v, e)
  BY <1>1, <1>2, <1>3, <1>7, <1>8 DEF Stage
<1> QED
  BY <1>1, <1>2, <1>3, <1>5, <1>6, <1>8 DEF TurnOk

\* A write to other tables leaves every turn where it was.
LEMMA SameApart ==
  ASSUME NEW lite, NEW d, NEW e, e.msgs = d.msgs, e.events = d.events
  PROVE  \A u : Apart(lite, d, e, u)
BY DEF Apart, Rows, Lite!ListLLMEvents

-----------------------------------------------------------------------------
(* The events of a run *)

\* The numbers of a run's events, and the one that is i-th.
Keys(d, u) == {k[2] : k \in {j \in DOMAIN d.events : j[1] = u}}
Nth(K, i) == CHOOSE s \in K : Lite!Cardinality({r \in K : r <= s}) = i

\* There are finitely many events; on sqlite they are numbered and of a turn there is.
Heard(lite, d) ==
  /\ IsFiniteSet(DOMAIN d.events)
  /\ lite => \A k \in DOMAIN d.events : \E t \in DOMAIN d.turns, s \in Nat : k = <<t, s>>

\* A finite set of numbers has a member of every rank, by the least rank without one.
LEMMA RankIs ==
  ASSUME NEW K \in SUBSET Nat, IsFiniteSet(K), NEW i \in 1..Cardinality(K)
  PROVE  \E s \in K : Cardinality({r \in K : r <= s}) = i
<1> DEFINE C == Cardinality(K)
           upto(s) == {r \in K : r <= s}
           Bad == {j \in 1..C : ~\E s \in K : Cardinality(upto(s)) = j}
<1>1. C \in Nat
  BY FS_CardinalityType
<1>2. \A s : IsFiniteSet(upto(s)) /\ Cardinality(upto(s)) \in Nat
  <2> TAKE s
  <2>1. upto(s) \in SUBSET K
    OBVIOUS
  <2> HIDE DEF upto
  <2> QED
    BY <2>1, FS_Subset, FS_CardinalityType
<1>3. SUFFICES ASSUME Bad # {} PROVE FALSE
  OBVIOUS
<1>4. PICK j \in Bad : \A x \in Bad : j <= x
  <2>1. PICK x : x \in Bad
    BY <1>3
  <2>2. Bad \in SUBSET Nat
    OBVIOUS
  <2> HIDE DEF Bad
  <2> QED
    BY <2>1, <2>2, Least
<1>5. j \in 1..C /\ ~\E s \in K : Cardinality(upto(s)) = j
  OBVIOUS
<1> HIDE DEF C
\* The members counted by the ranks below j, and what is left.
<1>6. PICK B : /\ B \in SUBSET K /\ IsFiniteSet(B) /\ Cardinality(B) = j - 1
               /\ \A x \in B, y \in K \ B : x < y
  <2>1. CASE j = 1
    <3>1. {} \in SUBSET K /\ IsFiniteSet({}) /\ Cardinality({}) = j - 1
      BY <2>1, FS_EmptySet
    <3> QED
      BY <3>1
  <2>2. CASE j # 1
    <3>1. j - 1 \in 1..C /\ j - 1 \notin Bad
      <4> HIDE DEF Bad
      <4>1. j - 1 \in 1..C /\ ~(j <= j - 1)
        BY <1>1, <1>5, <2>2
      <4> QED
        BY <1>4, <4>1
    <3>2. PICK s \in K : Cardinality(upto(s)) = j - 1
      BY <3>1
    <3>3. \A x \in upto(s), y \in K \ upto(s) : x < y
      OBVIOUS
    <3>4. upto(s) \in SUBSET K
      OBVIOUS
    <3> HIDE DEF upto, Bad
    <3> QED
      BY <1>2, <3>2, <3>3, <3>4
  <2> QED
    BY <2>1, <2>2
<1>7. K \ B # {}
  <2>1. Cardinality(B) < C
    BY <1>1, <1>5, <1>6
  <2>2. B # K
    BY <1>1, <2>1 DEF C
  <2> QED
    BY <1>6, <2>2
<1>8. PICK s \in K \ B : \A y \in K \ B : s <= y
  <2>1. PICK x : x \in K \ B
    BY <1>7
  <2>2. K \ B \in SUBSET Nat
    OBVIOUS
  <2> QED
    BY <2>1, <2>2, Least
<1>9. upto(s) = B \cup {s}
  <2> HIDE DEF Bad
  <2>1. \A r \in K : r \in Nat
    OBVIOUS
  <2>2. \A r \in K : r <= s <=> r \in B \cup {s}
    BY <1>6, <1>8, <2>1
  <2>3. B \cup {s} \in SUBSET K
    BY <1>6, <1>8
  <2> QED
    BY <2>2, <2>3
<1>10. Cardinality(B \cup {s}) = j
  <2>1. Cardinality(B \cup {s}) = Cardinality(B) + 1
    BY <1>6, <1>8, FS_AddElement
  <2> QED
    BY <1>5, <1>6, <2>1
<1> QED
  BY <1>5, <1>8, <1>9, <1>10

\* The stored events of a run, as a sequence.
LEMMA EventsAre ==
  ASSUME NEW d, IsFiniteSet(DOMAIN d.events), NEW u
  PROVE  /\ IsFiniteSet(Keys(d, u))
         /\ Lite!ListLLMEvents(d, u) = [i \in 1..Cardinality(Keys(d, u)) |-> d.events[<<u, Nth(Keys(d, u), i)>>]]
         /\ Len(Lite!ListLLMEvents(d, u)) = Cardinality(Keys(d, u)) /\ Cardinality(Keys(d, u)) \in Nat
<1> DEFINE J == {j \in DOMAIN d.events : j[1] = u}
           f == [j \in J |-> j[2]]
           K == Keys(d, u)
           n == Cardinality(K)
           ev == [i \in 1..n |-> d.events[<<u, Nth(K, i)>>]]
           S == {ev[i] : i \in 1..n}
<1>1. IsFiniteSet(K)
  <2>1. J \in SUBSET DOMAIN d.events
    OBVIOUS
  <2>2. f \in Surjection(J, K)
    BY DEF Surjection, Keys
  <2> HIDE DEF J, f, K
  <2>3. IsFiniteSet(J)
    BY <2>1, FS_Subset
  <2> QED
    BY <2>2, <2>3, FS_Surjection
<1>2. n \in Nat
  BY <1>1, FS_CardinalityType
<1>3. Lite!ListLLMEvents(d, u) = ev
  BY CardinalityIs DEF Lite!ListLLMEvents, Keys, Nth
<1>4. ev \in [1..n -> S] /\ DOMAIN ev = 1..n
  OBVIOUS
<1> HIDE DEF S, n, K, ev
<1>5. Len(ev) = n
  BY <1>2, <1>4
<1> QED
  BY <1>1, <1>2, <1>3, <1>5 DEF n, K, ev

\* The events of a run are as they were.
Untouched(d, e, u) ==
  \A k : k[1] = u => /\ k \in DOMAIN e.events <=> k \in DOMAIN d.events
                     /\ k \in DOMAIN d.events => e.events[k] = d.events[k]

\* An event of one run leaves the others' as they were.
LEMMA EventApart ==
  ASSUME NEW d, NEW e, Heard(TRUE, d), Heard(TRUE, e), NEW u, Untouched(d, e, u)
  PROVE  Lite!ListLLMEvents(e, u) = Lite!ListLLMEvents(d, u)
<1>1. {j \in DOMAIN e.events : j[1] = u} = {j \in DOMAIN d.events : j[1] = u}
  BY DEF Untouched
<1>2. Keys(e, u) = Keys(d, u)
  BY <1>1 DEF Keys
<1> DEFINE K == Keys(d, u)  n == Cardinality(K)
<1>3. \A k \in K : k \in Nat /\ <<u, k>> \in DOMAIN d.events
  <2> TAKE k \in K
  <2>1. PICK j \in DOMAIN d.events : j[1] = u /\ j[2] = k
    BY DEF Keys
  <2>2. PICK a \in DOMAIN d.turns, b \in Nat : j = <<a, b>>
    BY DEF Heard
  <2>3. j[1] = a /\ j[2] = b
    BY <2>2
  <2> QED
    BY <2>1, <2>2, <2>3
<1>4. /\ IsFiniteSet(K)
      /\ Lite!ListLLMEvents(d, u) = [i \in 1..n |-> d.events[<<u, Nth(K, i)>>]]
      /\ Lite!ListLLMEvents(e, u) = [i \in 1..n |-> e.events[<<u, Nth(K, i)>>]]
  BY <1>2, EventsAre DEF Heard
<1> HIDE DEF K
<1>5. \A i \in 1..n : e.events[<<u, Nth(K, i)>>] = d.events[<<u, Nth(K, i)>>]
  <2> TAKE i \in 1..n
  <2>1. K \in SUBSET Nat
    BY <1>3
  <2>2. \E r \in K : Cardinality({q \in K : q <= r}) = i
    BY <1>4, <2>1, RankIs
  <2>3. Nth(K, i) \in K
    BY <2>2, CardinalityIs DEF Nth
  <2>4. <<u, Nth(K, i)>> \in DOMAIN d.events /\ <<u, Nth(K, i)>>[1] = u
    BY <1>3, <2>3
  <2> QED
    BY <2>4 DEF Untouched
<1> QED
  BY <1>4, <1>5

\* A run without events says nothing.
LEMMA NothingHeard ==
  ASSUME NEW d, IsFiniteSet(DOMAIN d.events), NEW u, \A k \in DOMAIN d.events : k[1] # u
  PROVE  DOMAIN Agg(d, u) = {}
<1>1. Keys(d, u) = {}
  BY DEF Keys
<1>2. Len(Lite!ListLLMEvents(d, u)) = 0
  <2>1. Cardinality({}) = 0
    BY FS_EmptySet
  <2> QED
    BY <1>1, <2>1, EventsAre
<1> DEFINE events == Lite!ListLLMEvents(d, u)
<1> HIDE DEF events
<1>3. Len(events) = 0
  BY <1>2 DEF events
<1>4. DOMAIN Lite!AggregateChatMessages(events) = {}
  BY <1>3, LiteAggregateIs
<1> QED
  BY <1>4 DEF Agg, events

-----------------------------------------------------------------------------
(* Replies, whoever writes *)

\* The invariant behind ReplyIsLast: every turn and every call of it is in order,
\* and a call is of a turn of the client's own.
Spoken(lite) ==
  /\ Placed(db) /\ Heard(lite, db)
  /\ \A t \in DOMAIN db.turns : TurnOk(lite, db, t)
  /\ \A c \in Clients : call[c].op # "idle" => db.turns[call[c].turn].agent = c /\ Stage(lite, call[c], db)

\* A client's step in a turn of its own, which leaves the other turns alone.
LEMMA SpeakHolds ==
  ASSUME NEW lite, Shape, Held, Spoken(lite), Grown(db, db'), NEW c \in Clients, NEW v,
         call'[c] = v, \A e \in Clients : e # c => call'[e] = call[e],
         NEW t \in DOMAIN db'.turns, db'.turns[t].agent = c, v.op # "idle" => v.turn = t /\ Stage(lite, v, db'),
         Placed(db'), Heard(lite, db'), TurnOk(lite, db', t),
         \A u \in DOMAIN db'.turns \ {t} : u \in DOMAIN db.turns /\ Apart(lite, db, db', u)
  PROVE  Spoken(lite)'
<1>1. \A u \in DOMAIN db'.turns : TurnOk(lite, db', u)
  BY ApartKeeps DEF Spoken
<1>2. ASSUME NEW e \in Clients, e # c, call[e].op # "idle"
      PROVE  db'.turns[call[e].turn].agent = e /\ Stage(lite, call[e], db')
  <2> DEFINE u == call[e].turn
  <2>1. u \in DOMAIN db.turns /\ db.turns[u].agent = e /\ Stage(lite, call[e], db)
    BY <1>2 DEF Held, Spoken
  <2>2. u \in DOMAIN db'.turns /\ db'.turns[u].agent = e
    BY <2>1 DEF Grown
  <2>3. Apart(lite, db, db', u)
    BY <1>2, <2>2
  <2> QED
    BY <2>1, <2>2, <2>3, ApartKeeps
<1> QED
  BY <1>1, <1>2 DEF Spoken

\* The same, told by how the call moves.
LEMMA SpeakMoves ==
  ASSUME NEW lite, Shape, Held, Spoken(lite), Grown(db, db'), NEW c \in Clients, NEW v, call' = [call EXCEPT ![c] = v],
         NEW t \in DOMAIN db'.turns, db'.turns[t].agent = c, v.op # "idle" => v.turn = t /\ Stage(lite, v, db'),
         Placed(db'), Heard(lite, db'), TurnOk(lite, db', t),
         \A u \in DOMAIN db'.turns \ {t} : u \in DOMAIN db.turns /\ Apart(lite, db, db', u)
  PROVE  Spoken(lite)'
<1>1. call'[c] = v /\ \A e \in Clients : e # c => call'[e] = call[e]
  BY DEF Shape
<1> QED
  BY <1>1, SpeakHolds

\* A step that writes neither messages nor events.
LEMMA SpeakRests ==
  ASSUME NEW lite, Shape, Held, Spoken(lite), Good(db), Good(db'), Grown(db, db'), NEW c \in Clients, NEW v,
         call' = [call EXCEPT ![c] = v], db'.msgs = db.msgs, db'.events = db.events, DOMAIN db'.turns = DOMAIN db.turns,
         v.op # "idle" => /\ v.turn \in DOMAIN db.turns /\ db.turns[v.turn].agent = c
                          /\ Stage(lite, v, db)
  PROVE  Spoken(lite)'
<1>1. \A u : Apart(lite, db, db', u)
  BY SameApart
<1>2. Placed(db') /\ Heard(lite, db')
  BY DEF Spoken, Placed, Heard
<1>3. \A u \in DOMAIN db'.turns : TurnOk(lite, db', u)
  BY <1>1, ApartKeeps DEF Spoken
<1>4. call'[c] = v /\ \A e \in Clients : e # c => call'[e] = call[e]
  BY DEF Shape
<1>5. ASSUME NEW e \in Clients, e # c, call[e].op # "idle"
      PROVE  db'.turns[call[e].turn].agent = e /\ Stage(lite, call[e], db')
  <2>1. call[e].turn \in DOMAIN db.turns /\ db.turns[call[e].turn].agent = e /\ Stage(lite, call[e], db)
    BY <1>5 DEF Held, Spoken
  <2> QED
    BY <1>1, <2>1, ApartKeeps DEF Grown
<1>6. v.op # "idle" => db'.turns[v.turn].agent = c /\ Stage(lite, v, db')
  BY <1>1, ApartKeeps DEF Grown
<1> QED
  BY <1>2, <1>3, <1>4, <1>5, <1>6 DEF Spoken

\* Two writes to other turns.
LEMMA ApartTrans ==
  ASSUME NEW lite, NEW d, NEW e, NEW f, NEW u, Apart(lite, d, e, u), Apart(lite, e, f, u)
  PROVE  Apart(lite, d, f, u)
BY DEF Apart

\* What is said moves no event.
LEMMA SaysApart ==
  ASSUME NEW lite, NEW d, NEW e, NEW t, NEW out, Derives(d, e, t, out), e.events = d.events, NEW u, u # t
  PROVE  Apart(lite, d, e, u)
<1>1. Rows(e, u) = Rows(d, u) /\ \A m \in Rows(d, u) : e.msgs[m] = d.msgs[m]
  BY DerivesApart
<1>2. Lite!ListLLMEvents(e, u) = Lite!ListLLMEvents(d, u)
  BY DEF Lite!ListLLMEvents
<1> QED
  BY <1>1, <1>2 DEF Apart

\* The reply is written in a free place, which makes it the last row of its turn.
LEMMA ReplyAdded ==
  ASSUME NEW lite, NEW d, Good(d), Placed(d), NEW t, NEW s, Free(d, t, s),
         lite => \A x \in DOMAIN Agg(d, t) : At(d, t, x) # {}
  PROVE  LET e == Lite!insertMessageTx(d, t, s, Lite!Says("assistant"))
         IN /\ Placed(e) /\ TurnOk(lite, e, t) /\ e.turns = d.turns /\ e.events = d.events
            /\ \A u : u # t => Apart(lite, d, e, u)
<1> DEFINE m == Lite!Says("assistant")
           row == Lite!Message(t, s, m)
           e == Lite!insertMessageTx(d, t, s, m)
<1>1. s \in Nat /\ Replies(d, t) = {} /\ \A i \in Rows(d, t) : d.msgs[i].seq < s /\ d.msgs[i].seq \in Nat
  BY DEF Free, Placed, Rows
<1>2. At(d, t, s) = {}
  BY <1>1 DEF At
<1>3. row.turn = t /\ row.seq = s /\ row.role = "assistant"
  BY DEF Lite!Message, Lite!Says
<1>4. /\ Derives(d, e, t, One(s, m)) /\ e.turns = d.turns /\ e.events = d.events
  <2> HIDE DEF m
  <2> QED
    BY DerivedSays
<1>5. \A u : u # t => Apart(lite, d, e, u)
  BY <1>4, SaysApart
<1>6. e = Lite!Insert(d, "msgs", row)
  BY <1>2, SameRows DEF Lite!insertMessageTx
<1> HIDE DEF row, e, m
<1>7. PICK k : k \notin DOMAIN d.msgs /\ e.msgs = Put(d.msgs, k, row)
  BY <1>6, InsertIs
<1>8. /\ DOMAIN e.msgs = DOMAIN d.msgs \cup {k} /\ e.msgs[k] = row
      /\ \A i \in DOMAIN d.msgs : e.msgs[i] = d.msgs[i]
  BY <1>7 DEF Put
<1>9. Placed(e)
  BY <1>1, <1>3, <1>8 DEF Placed
<1>10. Rows(e, t) = Rows(d, t) \cup {k}
  BY <1>3, <1>8 DEF Rows
<1>11. Replies(e, t) = {k}
  BY <1>1, <1>3, <1>7, <1>8, <1>10 DEF Replies, Rows
<1>12. LastOf(e, t)
  <2>1. \A i \in Rows(e, t) : e.msgs[i].seq <= e.msgs[k].seq
    <3> TAKE i \in Rows(e, t)
    <3>1. CASE i = k
      BY <1>1, <1>3, <1>8, <3>1
    <3>2. CASE i \in Rows(d, t)
      <4>1. e.msgs[i].seq = d.msgs[i].seq /\ d.msgs[i].seq < s /\ d.msgs[i].seq \in Nat
        BY <1>1, <1>8, <3>2 DEF Rows
      <4> QED
        BY <1>1, <1>3, <1>8, <4>1
    <3> QED
      BY <1>10, <3>1, <3>2
  <2> QED
    BY <1>11, <2>1 DEF LastOf
<1>13. lite => Repeatable(e, t)
  <2> SUFFICES ASSUME lite, NEW x \in DOMAIN Agg(e, t)
               PROVE  At(e, t, x) # {} /\ \A i \in Replies(e, t) : e.msgs[i].seq # x
    BY DEF Repeatable
  <2>1. Agg(e, t) = Agg(d, t)
    BY <1>4 DEF Agg, Lite!ListLLMEvents
  <2>2. PICK i : i \in At(d, t, x)
    BY <2>1
  <2>3. i \in Rows(d, t) /\ d.msgs[i].seq = x /\ e.msgs[i] = d.msgs[i] /\ i \in DOMAIN d.msgs
    BY <1>8, <2>2 DEF At, Rows
  <2>4. i \in At(e, t, x)
    BY <1>10, <2>3 DEF At
  <2>5. x # s
    BY <1>1, <2>3
  <2> QED
    BY <1>3, <1>8, <1>11, <2>4, <2>5
<1> QED
  BY <1>4, <1>5, <1>9, <1>12, <1>13 DEF TurnOk, e, m

\* What is said in a turn that has no reply, or over its rows, keeps the turn in order.
LEMMA SaysKeeps ==
  ASSUME NEW lite, NEW d, NEW e, NEW t, NEW out, Derives(d, e, t, out), e.events = d.events, Placed(d),
         TurnOk(lite, d, t), \A s \in DOMAIN out : s \in Nat /\ out[s].role # "assistant",
         \/ Replies(d, t) = {}
         \/ lite /\ DOMAIN out \subseteq DOMAIN Agg(d, t)
  PROVE  /\ Placed(e) /\ TurnOk(lite, e, t) /\ Replies(e, t) = Replies(d, t) /\ Agg(e, t) = Agg(d, t)
         /\ \A s : At(d, t, s) # {} => At(e, t, s) # {}
<1>1. \/ Replies(d, t) = {}
      \/ \A s \in DOMAIN out : At(d, t, s) # {} /\ \A m \in Replies(d, t) : d.msgs[m].seq # s
  BY DEF TurnOk, Repeatable
<1>2. /\ LastOf(e, t) /\ Placed(e) /\ Replies(e, t) = Replies(d, t)
      /\ \A m \in Replies(d, t) : e.msgs[m] = d.msgs[m]
      /\ \A s : At(d, t, s) # {} => At(e, t, s) # {}
  BY <1>1, DerivesKeeps DEF TurnOk
<1>3. Agg(e, t) = Agg(d, t)
  BY DEF Agg, Lite!ListLLMEvents
<1>4. lite /\ Replies(e, t) # {} => Repeatable(e, t)
  BY <1>2, <1>3 DEF TurnOk, Repeatable
<1> QED
  BY <1>2, <1>3, <1>4 DEF TurnOk

\* One message of the derivation is written.
LEMMA AggregatedSpeaks ==
  ASSUME NEW lite, Shape, Good(db), Held, Spoken(lite), NEW c \in Clients, Lite!recordAggregatedMessages(c)
  PROVE  Spoken(lite)'
<1> DEFINE t == call[c].turn
           todo == call[c].todo
           s == Lite!Min(DOMAIN todo)
           m == todo[s]
           rest == [i \in DOMAIN todo \ {s} |-> todo[i]]
           v == [call[c] EXCEPT !.todo = rest]
           out == One(s, m)
<1>1. /\ db' = Lite!insertDerivedMessage(db, t, s, m)
      /\ call' = [call EXCEPT ![c] = v] /\ call[c].op = "derive" /\ DOMAIN todo # {}
  BY DEF Lite!recordAggregatedMessages
<1>2. t \in DOMAIN db.turns /\ db.turns[t].agent = c /\ TurnOk(lite, db, t)
  BY <1>1 DEF Held, Spoken
<1>3. /\ "todo" \in DOMAIN call[c] /\ Said(todo) /\ (~lite => Replies(db, t) = {})
      /\ lite => /\ DOMAIN todo \subseteq DOMAIN Agg(db, t)
                 /\ \A x \in DOMAIN Agg(db, t) \ DOMAIN todo : At(db, t, x) # {}
  BY <1>1 DEF Spoken, Stage
<1>4. s \in DOMAIN todo
  <2>1. PICK x : x \in DOMAIN todo
    BY <1>1
  <2>2. DOMAIN todo \in SUBSET Nat
    BY <1>3 DEF Said
  <2> HIDE DEF todo
  <2> QED
    BY <2>1, <2>2, MinIs
<1>5. s \in Nat /\ m.role # "assistant"
  BY <1>3, <1>4 DEF Said, Kinds
<1>6. v.op = "derive" /\ v.turn = t /\ v.todo = rest /\ "todo" \in DOMAIN v
  BY <1>1, <1>3 DEF Shape
<1>7. Said(rest) /\ DOMAIN rest = DOMAIN todo \ {s}
  <2>1. DOMAIN rest = DOMAIN todo \ {s} /\ \A i \in DOMAIN rest : rest[i] = todo[i]
    OBVIOUS
  <2>2. DOMAIN rest \in SUBSET DOMAIN todo
    BY <2>1
  <2> HIDE DEF rest, todo, s
  <2>3. IsFiniteSet(DOMAIN rest)
    BY <1>3, <2>2, FS_Subset DEF Said
  <2> QED
    BY <1>3, <2>1, <2>3 DEF Said
<1> HIDE DEF m
<1>8. Derives(db, db', t, out) /\ Covers(db', t, out) /\ db'.turns = db.turns /\ db'.events = db.events
  BY <1>1, DerivedSays
<1>9. DOMAIN out = {s} /\ out[s].role # "assistant"
  BY <1>5 DEF One
<1> HIDE DEF s, todo, rest, v, t
<1>10. \/ Replies(db, t) = {}
       \/ lite /\ DOMAIN out \subseteq DOMAIN Agg(db, t)
  BY <1>3, <1>4, <1>9
<1> HIDE DEF out
<1>11. /\ Placed(db') /\ TurnOk(lite, db', t) /\ Replies(db', t) = Replies(db, t) /\ Agg(db', t) = Agg(db, t)
       /\ \A x : At(db, t, x) # {} => At(db', t, x) # {}
  <2>1. \A x \in DOMAIN out : x \in Nat /\ out[x].role # "assistant"
    BY <1>5, <1>9
  <2>2. Placed(db)
    BY DEF Spoken
  <2> DEFINE d == db  e == db'
  <2> HIDE DEF d, e
  <2>3. /\ Derives(d, e, t, out) /\ e.events = d.events /\ Placed(d) /\ TurnOk(lite, d, t)
        /\ Replies(d, t) = {} \/ (lite /\ DOMAIN out \subseteq DOMAIN Agg(d, t))
    BY <1>2, <1>8, <1>10, <2>2 DEF d, e
  <2>4. /\ Placed(e) /\ TurnOk(lite, e, t) /\ Replies(e, t) = Replies(d, t) /\ Agg(e, t) = Agg(d, t)
        /\ \A x : At(d, t, x) # {} => At(e, t, x) # {}
    BY <2>1, <2>3, SaysKeeps
  <2> QED
    BY <2>4 DEF d, e
<1>12. Stage(lite, v, db')
  <2>1. ~lite => Replies(db', t) = {}
    BY <1>3, <1>11
  <2>2. ASSUME lite
        PROVE  /\ DOMAIN rest \subseteq DOMAIN Agg(db', t)
               /\ \A x \in DOMAIN Agg(db', t) \ DOMAIN rest : At(db', t, x) # {}
    <3>1. DOMAIN rest \subseteq DOMAIN Agg(db', t)
      BY <1>3, <1>7, <1>11, <2>2
    <3>2. ASSUME NEW x \in DOMAIN Agg(db', t) \ DOMAIN rest PROVE At(db', t, x) # {}
      <4>1. CASE x = s
        BY <1>8, <1>9, <4>1 DEF Covers
      <4>2. CASE x # s
        BY <1>3, <1>7, <1>11, <2>2, <3>2, <4>2
      <4> QED
        BY <4>1, <4>2
    <3> QED
      BY <3>1, <3>2
  <2> QED
    BY <1>6, <1>7, <2>1, <2>2 DEF Stage
<1>13. Heard(lite, db')
  BY <1>8 DEF Spoken, Heard
<1>14. Grown(db, db')
  BY AggregatedKeeps DEF MsgStep
<1>15. \A u \in DOMAIN db'.turns \ {t} : u \in DOMAIN db.turns /\ Apart(lite, db, db', u)
  BY <1>8, SaysApart
<1>16. t \in DOMAIN db'.turns /\ db'.turns[t].agent = c
  BY <1>2, <1>8
<1> QED
  BY <1>1, <1>6, <1>11, <1>12, <1>13, <1>14, <1>15, <1>16, SpeakMoves

\* A call that has written the reply, or is at rest, has nothing left to keep.
LEMMA StageDone == ASSUME NEW lite, NEW v, v.op \in {"runid", "idle"}, NEW d PROVE Stage(lite, v, d)
BY DEF Stage

\* The reply is written, unless there is one.
LEMMA ReplySpeaks ==
  ASSUME NEW lite, Shape, Good(db), Held, Spoken(lite), NEW c \in Clients, Lite!recordAssistantMessage(c)
  PROVE  Spoken(lite)'
<1> DEFINE t == call[c].turn
           s == call[c].seq
           v == [call[c] EXCEPT !.op = "runid"]
<1>1. /\ db' = IF s = 0 THEN db ELSE Lite!insertMessageTx(db, t, s, Lite!Says("assistant"))
      /\ call' = [call EXCEPT ![c] = v] /\ call[c].op = "reply"
  BY DEF Lite!recordAssistantMessage
<1>2. t \in DOMAIN db.turns /\ db.turns[t].agent = c
  BY <1>1 DEF Held, Spoken
<1>3. /\ s = 0 \/ Free(db, t, s)
      /\ lite => \A x \in DOMAIN Agg(db, t) : At(db, t, x) # {}
  BY <1>1 DEF Spoken, Stage
<1>4. v.op = "runid" /\ v.turn = t
  BY <1>1 DEF Shape
<1>5. Good(db') /\ Grown(db, db')
  BY ReplyKeeps DEF MsgStep
<1> HIDE DEF t, s, v
<1>6. Stage(lite, v, db) /\ Stage(lite, v, db')
  BY <1>4, StageDone
<1>7. CASE s = 0
  <2>1. db'.msgs = db.msgs /\ db'.events = db.events /\ DOMAIN db'.turns = DOMAIN db.turns
    BY <1>1, <1>7
  <2> QED
    BY <1>1, <1>2, <1>4, <1>5, <1>6, <2>1, SpeakRests
<1>8. CASE s # 0
  <2>1. Placed(db)
    BY DEF Spoken
  <2>2. /\ Placed(db') /\ TurnOk(lite, db', t) /\ db'.turns = db.turns /\ db'.events = db.events
        /\ \A u : u # t => Apart(lite, db, db', u)
    <3> DEFINE d == db  e == Lite!insertMessageTx(d, t, s, Lite!Says("assistant"))
    <3> HIDE DEF d
    <3>1. /\ Placed(e) /\ TurnOk(lite, e, t) /\ e.turns = d.turns /\ e.events = d.events
          /\ \A u : u # t => Apart(lite, d, e, u)
      BY <1>3, <1>8, <2>1, ReplyAdded DEF d
    <3>2. db' = e /\ d = db
      BY <1>1, <1>8 DEF d
    <3> HIDE DEF e
    <3> QED
      BY <3>1, <3>2
  <2>3. Heard(lite, db')
    BY <2>2 DEF Spoken, Heard
  <2> QED
    BY <1>1, <1>2, <1>4, <1>5, <1>6, <2>2, <2>3, SpeakMoves
<1> QED
  BY <1>7, <1>8

\* A turn that begins is a new one, without rows or events.
LEMMA NewTurnIs ==
  ASSUME NEW d, Good(d), NEW c, NEW status
  PROVE  LET one == Lite!insertReasonTurnTx(d, c, status)
             t == Lite!Highest(one.turns)
         IN /\ t \notin DOMAIN d.turns /\ t \in DOMAIN one.turns /\ DOMAIN one.turns \subseteq DOMAIN d.turns \cup {t}
            /\ DOMAIN d.turns \subseteq DOMAIN one.turns
            /\ one.turns[t].agent = c /\ one.msgs = d.msgs /\ one.events = d.events /\ Rows(one, t) = {}
<1> DEFINE one == Lite!insertReasonTurnTx(d, c, status)
           id == Lite!Highest(d.turns) + 1
           row == [agent |-> c, status |-> status, run |-> FALSE, at |-> (id + 1) \div 2]
<1>1. PICK n \in Nat : \A i \in DOMAIN d.turns : i <= n
  BY DEF Good, Numbered
<1>2. Lite!Highest(d.turns) \in Nat /\ \A i \in DOMAIN d.turns : i <= Lite!Highest(d.turns)
  BY <1>1, HighestIs DEF Good, Numbered
<1>3. id \in Nat \ {0} /\ \A i \in DOMAIN d.turns : i \in Nat /\ i < id
  BY <1>2 DEF Good, Numbered
<1>4. one = [d EXCEPT !.turns = Lite!Put(@, id, row)]
  BY DEF Lite!insertReasonTurnTx
<1>5. row.agent = c
  OBVIOUS
<1> HIDE DEF id, row, one
<1>6. /\ one.msgs = d.msgs /\ one.events = d.events
      /\ one.turns = [x \in DOMAIN d.turns \cup {id} |-> IF x = id THEN row ELSE d.turns[x]]
  BY <1>4 DEF Lite!Put, Good, DBFields, Tables
<1>7. \A i \in DOMAIN one.turns : i \in Nat /\ i <= id
  BY <1>3, <1>6
<1>8. Lite!Highest(one.turns) = id
  <2>1. /\ Lite!Highest(one.turns) \in Nat /\ \A i \in DOMAIN one.turns : i <= Lite!Highest(one.turns)
        /\ Lite!Highest(one.turns) = 0 \/ Lite!Highest(one.turns) \in DOMAIN one.turns
    BY <1>3, <1>7, HighestIs
  <2>2. id \in DOMAIN one.turns
    BY <1>6
  <2> QED
    BY <1>3, <1>7, <2>1, <2>2
<1>9. id \notin DOMAIN d.turns
  BY <1>3
<1>10. Rows(one, id) = {}
  BY <1>6, <1>9 DEF Rows, Good
<1> QED
  BY <1>5, <1>6, <1>8, <1>9, <1>10 DEF one

\* Its first row is its input, and there is room for a reply after it.
LEMMA TurnOpens ==
  ASSUME NEW lite, NEW d, Good(d), Placed(d), Heard(lite, d), NEW c, NEW status
  PROVE  LET one == Lite!insertReasonTurnTx(d, c, status)
             t == Lite!Highest(one.turns)
             two == Lite!insertMessageTx(one, t, 0, Lite!Says("user"))
         IN /\ t \notin DOMAIN d.turns /\ t \in DOMAIN two.turns /\ two.turns[t].agent = c
            /\ Good(one) /\ Grown(d, one) /\ Good(two) /\ Grown(d, two) /\ two.turns = one.turns
            /\ Placed(two) /\ Heard(lite, two) /\ Free(two, t, 1) /\ TurnOk(lite, two, t)
            /\ lite => DOMAIN Agg(two, t) = {}
            /\ \A u \in DOMAIN two.turns \ {t} : u \in DOMAIN d.turns /\ Apart(lite, d, two, u)
<1> DEFINE one == Lite!insertReasonTurnTx(d, c, status)
           t == Lite!Highest(one.turns)
           m == Lite!Says("user")
           two == Lite!insertMessageTx(one, t, 0, m)
           out == One(0, m)
<1>1. /\ t \notin DOMAIN d.turns /\ t \in DOMAIN one.turns /\ DOMAIN one.turns \subseteq DOMAIN d.turns \cup {t}
      /\ DOMAIN d.turns \subseteq DOMAIN one.turns
      /\ one.turns[t].agent = c /\ one.msgs = d.msgs /\ one.events = d.events /\ Rows(one, t) = {}
  BY NewTurnIs
<1>2. Good(one) /\ Grown(d, one)
  BY TurnAdded
<1>3. m.role = "user"
  BY DEF Lite!Says
<1> HIDE DEF one, t, m
<1>4. Good(two) /\ Grown(one, two) /\ two.turns = one.turns
  BY <1>1, <1>2, MessageAdded
<1>5. Derives(one, two, t, out) /\ two.events = one.events
  BY <1>2, DerivedSays
<1>6. DOMAIN out = {0} /\ out[0].role = "user"
  BY <1>3 DEF One
<1> HIDE DEF two, out
<1>7. Grown(d, two)
  BY <1>2, <1>4, GrownTrans
<1>8. Placed(two)
  BY <1>1, <1>5, <1>6 DEF Placed, Derives, SaysAt
<1>9. \A i \in Rows(two, t) : two.msgs[i].seq = 0 /\ two.msgs[i].role = "user"
  BY <1>1, <1>5, <1>6 DEF Derives, SaysAt, Rows
<1>10. Replies(two, t) = {} /\ Free(two, t, 1)
  <2>1. HighestSeq(two, t) = 0
    BY <1>4, <1>8, <1>9, HighestSeqIs
  <2> QED
    BY <1>9, <2>1 DEF Replies, Free
<1>11. TurnOk(lite, two, t)
  BY <1>10 DEF TurnOk, LastOf
<1>12. Heard(lite, two)
  BY <1>1, <1>4, <1>5 DEF Heard
<1>13. ASSUME lite PROVE DOMAIN Agg(two, t) = {}
  <2>1. \A k \in DOMAIN two.events : k[1] # t
    BY <1>1, <1>5, <1>13 DEF Heard
  <2> QED
    BY <1>12, <2>1, NothingHeard DEF Heard
<1>14. ASSUME NEW u \in DOMAIN two.turns, u # t PROVE u \in DOMAIN d.turns /\ Apart(lite, d, two, u)
  <2>1. u \in DOMAIN d.turns
    BY <1>1, <1>4, <1>14
  <2>2. Apart(lite, d, one, u)
    BY <1>1, SameApart
  <2>3. Apart(lite, one, two, u)
    BY <1>5, <1>14, SaysApart
  <2> QED
    BY <2>1, <2>2, <2>3, ApartTrans
<1> QED
  BY <1>1, <1>2, <1>4, <1>7, <1>8, <1>10, <1>11, <1>12, <1>13, <1>14 DEF one, t, m, two

\* A turn recorded whole has its reply after its input.
LEMMA InsertTurnSpeaks ==
  ASSUME NEW lite, Shape, Good(db), Held, Spoken(lite), NEW c \in Clients, call[c].op = "idle",
         db' = Lite!InsertReasonTurn(db, c), call' = call
  PROVE  Spoken(lite)'
<1> DEFINE d == db
           one == Lite!insertReasonTurnTx(d, c, "finished")
           t == Lite!Highest(one.turns)
           two == Lite!insertMessageTx(one, t, 0, Lite!Says("user"))
           three == Lite!insertMessageTx(two, t, 1, Lite!Says("assistant"))
           v == call[c]
<1>1. db' = three
  BY DEF Lite!InsertReasonTurn
<1>2. call'[c] = v /\ v.op = "idle" /\ \A e \in Clients : e # c => call'[e] = call[e]
  OBVIOUS
<1>3. Good(d) /\ Placed(d) /\ Heard(lite, d)
  BY DEF Spoken
<1> HIDE DEF d, v
<1>4. /\ t \notin DOMAIN d.turns /\ t \in DOMAIN two.turns /\ two.turns[t].agent = c
      /\ Good(one) /\ Grown(d, one) /\ Good(two) /\ Grown(d, two) /\ two.turns = one.turns
      /\ Placed(two) /\ Heard(lite, two) /\ Free(two, t, 1) /\ TurnOk(lite, two, t)
      /\ lite => DOMAIN Agg(two, t) = {}
      /\ \A u \in DOMAIN two.turns \ {t} : u \in DOMAIN d.turns /\ Apart(lite, d, two, u)
  BY <1>3, TurnOpens
<1> HIDE DEF two, t, one
<1>5. /\ Placed(three) /\ TurnOk(lite, three, t) /\ three.turns = two.turns /\ three.events = two.events
      /\ \A u : u # t => Apart(lite, two, three, u)
  BY <1>4, ReplyAdded
<1>6. Grown(db, db')
  BY InsertTurnKeeps DEF MsgStep
<1> HIDE DEF three
<1>7. Heard(lite, three)
  BY <1>4, <1>5 DEF Heard
<1>8. \A u \in DOMAIN three.turns \ {t} : u \in DOMAIN d.turns /\ Apart(lite, d, three, u)
  BY <1>4, <1>5, ApartTrans
<1>9. Placed(db') /\ Heard(lite, db') /\ TurnOk(lite, db', t) /\ t \in DOMAIN db'.turns /\ db'.turns[t].agent = c
  BY <1>1, <1>4, <1>5, <1>7
<1>10. \A u \in DOMAIN db'.turns \ {t} : u \in DOMAIN db.turns /\ Apart(lite, db, db', u)
  BY <1>1, <1>8 DEF d
<1> QED
  BY <1>2, <1>6, <1>9, <1>10, SpeakHolds

\* A turn that begins has its input and no reply.
LEMMA BeginSpeaks ==
  ASSUME NEW lite, Shape, Good(db), Held, Spoken(lite), NEW c \in Clients, Lite!BeginReasonTurn(c)
  PROVE  Spoken(lite)'
<1> DEFINE d == db
           one == Lite!insertReasonTurnTx(d, c, "running")
           t == Lite!Highest(one.turns)
           two == Lite!insertMessageTx(one, t, 0, Lite!Says("user"))
           v == [op |-> "turn", turn |-> t]
<1>1. db' = two /\ call' = [call EXCEPT ![c] = v]
  BY DEF Lite!BeginReasonTurn
<1>2. v.op = "turn" /\ v.turn = t
  OBVIOUS
<1>3. Good(d) /\ Placed(d) /\ Heard(lite, d)
  BY DEF Spoken
<1> HIDE DEF d, v
<1>4. /\ t \notin DOMAIN d.turns /\ t \in DOMAIN two.turns /\ two.turns[t].agent = c
      /\ Good(one) /\ Grown(d, one) /\ Good(two) /\ Grown(d, two) /\ two.turns = one.turns
      /\ Placed(two) /\ Heard(lite, two) /\ Free(two, t, 1) /\ TurnOk(lite, two, t)
      /\ lite => DOMAIN Agg(two, t) = {}
      /\ \A u \in DOMAIN two.turns \ {t} : u \in DOMAIN d.turns /\ Apart(lite, d, two, u)
  BY <1>3, TurnOpens
<1> HIDE DEF two, t, one
<1>5. Stage(lite, v, two)
  BY <1>2, <1>4 DEF Stage, Free
<1>6. Grown(db, db')
  BY BeginKeeps DEF MsgStep
<1>7. /\ Placed(db') /\ Heard(lite, db') /\ TurnOk(lite, db', t) /\ Stage(lite, v, db')
      /\ t \in DOMAIN db'.turns /\ db'.turns[t].agent = c
  BY <1>1, <1>4, <1>5
<1>8. \A u \in DOMAIN db'.turns \ {t} : u \in DOMAIN db.turns /\ Apart(lite, db, db', u)
  BY <1>1, <1>4 DEF d
<1> QED
  BY <1>1, <1>2, <1>6, <1>7, <1>8, SpeakMoves

\* A call that only moves to a later stage of its turn.
LEMMA CallSpeaks ==
  ASSUME NEW lite, Shape, Good(db), Held, Spoken(lite), NEW c \in Clients, db' = db, call[c].op # "idle", NEW v,
         call' = [call EXCEPT ![c] = v], v.op = "idle" \/ (v.turn = call[c].turn /\ Stage(lite, v, db))
  PROVE  Spoken(lite)'
<1>1. call[c].turn \in DOMAIN db.turns /\ db.turns[call[c].turn].agent = c
  BY DEF Held, Spoken
<1>2. Good(db') /\ Grown(db, db')
  BY SameMsgs
<1>3. db'.msgs = db.msgs /\ db'.events = db.events /\ DOMAIN db'.turns = DOMAIN db.turns
  OBVIOUS
<1> QED
  BY <1>1, <1>2, <1>3, SpeakRests

\* A call that gives its turn a status or a run id.
LEMMA MarkSpeaks ==
  ASSUME NEW lite, Shape, Good(db), Held, Spoken(lite), NEW c \in Clients, NEW v, call' = [call EXCEPT ![c] = v],
         NEW t \in DOMAIN db.turns, db.turns[t].agent = c, NEW f, f \in {"status", "run"}, NEW x,
         db' = [db EXCEPT !.turns[t][f] = x], v.op = "idle" \/ (v.turn = t /\ Stage(lite, v, db))
  PROVE  Spoken(lite)'
<1>1. Good(db') /\ Grown(db, db') /\ DOMAIN db'.turns = DOMAIN db.turns
  BY TurnMarked
<1>2. db'.msgs = db.msgs /\ db'.events = db.events
  BY DEF Good, DBFields, Tables
<1> QED
  BY <1>1, <1>2, SpeakRests

\* The run id closes the turn.
LEMMA RunIdSpeaks ==
  ASSUME NEW lite, Shape, Good(db), Held, Spoken(lite), NEW c \in Clients, Lite!FinishRunId(c)
  PROVE  Spoken(lite)'
<1> DEFINE v == [op |-> "idle"]
           t == call[c].turn
<1>1. /\ db' = [db EXCEPT !.turns[t]["run"] = TRUE]
      /\ call' = [call EXCEPT ![c] = v] /\ call[c].op = "runid"
  BY DEF Lite!FinishRunId
<1>2. v.op = "idle" /\ t \in DOMAIN db.turns /\ db.turns[t].agent = c
  BY <1>1 DEF Held, Spoken
<1> HIDE DEF v, t
<1> QED
  BY <1>1, <1>2, MarkSpeaks

\* The reply's place is taken after the rows there are, if there is no reply yet.
LEMMA SeqSpeaks ==
  ASSUME NEW lite, Shape, Good(db), Held, Spoken(lite), NEW c \in Clients,
         call[c].op = "derive", DOMAIN call[c].todo = {}, db' = db,
         call' = [call EXCEPT ![c] = [op |-> "reply", turn |-> call[c].turn,
                    seq |-> IF Lite!assistantMessageSeq(db, call[c].turn) THEN 0 ELSE Lite!nextMessageSeq(db, call[c].turn)]]
  PROVE  Spoken(lite)'
<1> DEFINE t == call[c].turn
           n == IF Lite!assistantMessageSeq(db, t) THEN 0 ELSE Lite!nextMessageSeq(db, t)
           v == [op |-> "reply", turn |-> t, seq |-> n]
<1>1. Placed(db) /\ Stage(lite, call[c], db)
  BY DEF Spoken
<1>2. n = 0 \/ Free(db, t, n)
  <2>1. CASE Replies(db, t) # {}
    BY <2>1, SameRows DEF Lite!assistantMessageSeq
  <2>2. CASE Replies(db, t) = {}
    <3>1. /\ HighestSeq(db, t) \in Nat /\ \A m \in Rows(db, t) : db.msgs[m].seq <= HighestSeq(db, t)
          /\ Lite!HighestSeq(db, t) = HighestSeq(db, t)
      BY <1>1, HighestSeqIs
    <3>2. n = HighestSeq(db, t) + 1
      BY <2>2, <3>1, SameRows DEF Lite!assistantMessageSeq, Lite!nextMessageSeq
    <3>3. \A m \in Rows(db, t) : db.msgs[m].seq \in Nat
      BY <1>1 DEF Placed, Rows
    <3> HIDE DEF n, t
    <3>4. \A m \in Rows(db, t) : db.msgs[m].seq < n
      BY <3>1, <3>2, <3>3
    <3> QED
      BY <2>2, <3>1, <3>2, <3>4 DEF Free
  <2> QED
    BY <2>1, <2>2
<1>3. lite => \A s \in DOMAIN Agg(db, t) : At(db, t, s) # {}
  BY <1>1 DEF Stage
<1>4. v.op = "reply" /\ v.turn = t /\ v.seq = n /\ call' = [call EXCEPT ![c] = v]
  OBVIOUS
<1> HIDE DEF v, n
<1>5. Stage(lite, v, db)
  BY <1>2, <1>3, <1>4 DEF Stage
<1> QED
  BY <1>4, <1>5, CallSpeaks

\* Nothing of the conversation moves.
LEMMA SpeakStays ==
  ASSUME NEW lite, Spoken(lite), db' = db, call' = call
  PROVE  Spoken(lite)'
BY DEF Spoken

-----------------------------------------------------------------------------
(* Replies on the sqlite engine *)

\* An event is written while its run has no reply, so no finished run's
\* derivation changes.
LEMMA EventsSpeak ==
  ASSUME NEW lite, lite, Shape, Good(db), Held, Spoken(lite), NEW c \in Clients, Lite!AppendLLMEvents(c)
  PROVE  Spoken(lite)'
<1> DEFINE t == call[c].turn
           v == call[c]
<1>1. v.op = "turn" /\ v.turn = t /\ call' = call /\ call'[c] = v
  BY DEF Lite!AppendLLMEvents
<1>2. t \in DOMAIN db.turns /\ db.turns[t].agent = c /\ Replies(db, t) = {}
  BY <1>1 DEF Held, Spoken, Stage
<1>3. PICK e \in Events, s \in 0..Len(Lite!ListLLMEvents(db, t)) :
        db' = [db EXCEPT !.events = IF <<t, s>> \in DOMAIN @ THEN @ ELSE Lite!Put(@, <<t, s>>, e)]
  BY DEF Lite!AppendLLMEvents
<1> HIDE DEF t, v
<1>4. s \in Nat
  BY EventsAre DEF Spoken, Heard
<1>5. /\ db'.msgs = db.msgs /\ db'.turns = db.turns
      /\ db'.events = db.events \/ db'.events = Put(db.events, <<t, s>>, e)
  BY <1>3 DEF Good, DBFields, Tables, Lite!Put, Put
<1>6. Heard(lite, db')
  <2>1. CASE db'.events = db.events
    BY <1>5, <2>1 DEF Spoken, Heard
  <2>2. CASE db'.events = Put(db.events, <<t, s>>, e)
    <3>1. DOMAIN db'.events = DOMAIN db.events \cup {<<t, s>>}
      BY <2>2 DEF Put
    <3>2. IsFiniteSet(DOMAIN db.events) /\ \A k \in DOMAIN db.events : \E u \in DOMAIN db.turns, r \in Nat : k = <<u, r>>
      BY DEF Spoken, Heard
    <3>3. IsFiniteSet(DOMAIN db'.events)
      <4> DEFINE k == <<t, s>>
      <4>1. DOMAIN db'.events = DOMAIN db.events \cup {k}
        BY <3>1
      <4> HIDE DEF k
      <4> QED
        BY <3>2, <4>1, FS_AddElement
    <3> QED
      BY <1>2, <1>4, <1>5, <3>1, <3>2, <3>3 DEF Heard
  <2> QED
    BY <1>5, <2>1, <2>2
<1>7. \A u : u # t => Apart(lite, db, db', u)
  <2> TAKE u
  <2> HAVE u # t
  <2>1. Lite!ListLLMEvents(db', u) = Lite!ListLLMEvents(db, u)
    <3> DEFINE d == db  f == db'
    <3>1. Heard(TRUE, d) /\ Heard(TRUE, f) /\ Untouched(d, f, u)
      <4>1. <<t, s>>[1] = t
        OBVIOUS
      <4> QED
        BY <1>5, <1>6, <4>1 DEF Spoken, Untouched, Put, Heard
    <3> HIDE DEF d, f
    <3>2. Lite!ListLLMEvents(f, u) = Lite!ListLLMEvents(d, u)
      BY <3>1, EventApart
    <3> QED
      BY <3>2 DEF d, f
  <2> QED
    BY <1>5, <2>1 DEF Apart, Rows
<1>8. Replies(db', t) = {}
  BY <1>2, <1>5 DEF Replies, Rows
<1>9. TurnOk(lite, db', t) /\ Stage(lite, v, db')
  BY <1>1, <1>8 DEF TurnOk, LastOf, Stage
<1>10. Placed(db') /\ Grown(db, db')
  BY <1>5 DEF Spoken, Placed, Grown
<1>11. /\ t \in DOMAIN db'.turns /\ db'.turns[t].agent = c
       /\ \A u \in DOMAIN db'.turns \ {t} : u \in DOMAIN db.turns /\ Apart(lite, db, db', u)
  BY <1>2, <1>5, <1>7
<1>12. \A b \in Clients : b # c => call'[b] = call[b]
  BY <1>1
<1> QED
  BY <1>1, <1>6, <1>9, <1>10, <1>11, <1>12, SpeakHolds

\* Messages derived while a run streams come before its reply.
LEMMA MessagesSpeak ==
  ASSUME NEW lite, Shape, Good(db), Held, Spoken(lite), NEW c \in Clients, Lite!AppendLLMMessages(c)
  PROVE  Spoken(lite)'
<1> DEFINE t == call[c].turn
           v == call[c]
           m == Lite!Says("tool")
<1>1. v.op = "turn" /\ v.turn = t /\ call' = call /\ call'[c] = v
  BY DEF Lite!AppendLLMMessages
<1>2. t \in DOMAIN db.turns /\ db.turns[t].agent = c /\ Replies(db, t) = {} /\ TurnOk(lite, db, t) /\ Placed(db)
  BY <1>1 DEF Held, Spoken, Stage
<1>3. PICK s \in 1..MaxStream : db' = Lite!insertDerivedMessage(db, t, s, m)
  BY DEF Lite!AppendLLMMessages
<1>4. s \in Nat
  OBVIOUS
<1> DEFINE out == One(s, m)
<1>5. DOMAIN out = {s} /\ out[s].role # "assistant"
  BY DEF One, Lite!Says
<1> HIDE DEF t, v, m
<1>6. Derives(db, db', t, out) /\ db'.turns = db.turns /\ db'.events = db.events
  BY <1>3, DerivedSays
<1>7. Grown(db, db')
  BY <1>2, <1>3, DerivedAdded
<1> HIDE DEF out
<1>8. Placed(db') /\ TurnOk(lite, db', t) /\ Replies(db', t) = {}
  <2> DEFINE d == db  e == db'
  <2> HIDE DEF d, e
  <2>1. \A x \in DOMAIN out : x \in Nat /\ out[x].role # "assistant"
    BY <1>4, <1>5
  <2>2. Derives(d, e, t, out) /\ e.events = d.events /\ Placed(d) /\ TurnOk(lite, d, t) /\ Replies(d, t) = {}
    BY <1>2, <1>6 DEF d, e
  <2>3. /\ Placed(e) /\ TurnOk(lite, e, t) /\ Replies(e, t) = Replies(d, t) /\ Agg(e, t) = Agg(d, t)
        /\ \A x : At(d, t, x) # {} => At(e, t, x) # {}
    BY <2>1, <2>2, SaysKeeps
  <2> QED
    BY <2>2, <2>3 DEF d, e
<1>9. Stage(lite, v, db')
  BY <1>1, <1>8 DEF Stage
<1>10. Heard(lite, db')
  BY <1>6 DEF Spoken, Heard
<1>11. /\ t \in DOMAIN db'.turns /\ db'.turns[t].agent = c
       /\ \A u \in DOMAIN db'.turns \ {t} : u \in DOMAIN db.turns /\ Apart(lite, db, db', u)
  BY <1>2, <1>6, SaysApart
<1>12. \A b \in Clients : b # c => call'[b] = call[b]
  BY <1>1
<1> QED
  BY <1>1, <1>7, <1>8, <1>9, <1>10, <1>11, <1>12, SpeakHolds

\* A run is finished, once by its caller or again by a later one.
LEMMA HeaderSpeaks ==
  ASSUME NEW lite, lite, Shape, Good(db), Held, Spoken(lite), NEW c \in Clients, Lite!FinishReasonTurn(c)
  PROVE  Spoken(lite)'
<1>1. PICK v : /\ call' = [call EXCEPT ![c] = v] /\ v.op = "finish" /\ v.turn \in DOMAIN db.turns
               /\ db.turns[v.turn].agent = c
  <2>1. CASE call[c].op = "turn" /\ call' = [call EXCEPT ![c].op = "finish"]
    <3> DEFINE v == [call[c] EXCEPT !.op = "finish"]
    <3>1. call' = [call EXCEPT ![c] = v] /\ v.op = "finish" /\ v.turn = call[c].turn
      BY <2>1 DEF Shape
    <3>2. call[c].turn \in DOMAIN db.turns /\ db.turns[call[c].turn].agent = c
      BY <2>1 DEF Held, Spoken
    <3> HIDE DEF v
    <3> QED
      BY <3>1, <3>2
  <2>2. ASSUME NEW t \in DOMAIN db.turns, db.turns[t].agent = c, call' = [call EXCEPT ![c] = [op |-> "finish", turn |-> t]]
        PROVE  \E v : /\ call' = [call EXCEPT ![c] = v] /\ v.op = "finish" /\ v.turn \in DOMAIN db.turns
                      /\ db.turns[v.turn].agent = c
    <3> DEFINE v == [op |-> "finish", turn |-> t]
    <3>1. call' = [call EXCEPT ![c] = v] /\ v.op = "finish" /\ v.turn = t
      BY <2>2
    <3> HIDE DEF v
    <3> QED
      BY <2>2, <3>1
  <2> QED
    BY <2>1, <2>2 DEF Lite!FinishReasonTurn
<1>2. call'[c] = v
  BY <1>1 DEF Shape
<1>3. db' = [db EXCEPT !.turns[v.turn]["status"] = "finished"]
  BY <1>2 DEF Lite!FinishReasonTurn
<1>4. Stage(lite, v, db)
  BY <1>1 DEF Stage
<1> QED
  BY <1>1, <1>3, <1>4, MarkSpeaks

\* What the derivation will write is what the run's events say.
LEMMA DeriveSpeaks ==
  ASSUME NEW lite, lite, Shape, Good(db), Held, Spoken(lite), NEW c \in Clients, Lite!FinishDerive(c)
  PROVE  Spoken(lite)'
<1> DEFINE t == call[c].turn
           events == Lite!ListLLMEvents(db, t)
           v == [op |-> "derive", turn |-> t, todo |-> Lite!AggregateChatMessages(events)]
<1>1. call' = [call EXCEPT ![c] = v] /\ db' = db /\ call[c].op = "finish"
  BY DEF Lite!FinishDerive
<1>2. v.op = "derive" /\ v.turn = t /\ v.todo = Agg(db, t) /\ "todo" \in DOMAIN v
  BY DEF Agg
<1>3. Said(Agg(db, t))
  <2>1. Len(events) \in Nat
    BY EventsAre DEF Spoken, Heard
  <2> HIDE DEF events
  <2>2. Said(Lite!AggregateChatMessages(events))
    BY <2>1, LiteAggregateIs
  <2> QED
    BY <2>2 DEF Agg, events
<1> HIDE DEF v, t
<1>4. Stage(lite, v, db)
  BY <1>2, <1>3 DEF Stage
<1>5. v.turn = call[c].turn
  BY <1>2 DEF t
<1> QED
  BY <1>1, <1>4, <1>5, CallSpeaks

\* Every statement of a turn keeps the reply last, a repeated finish included.
LEMMA SqliteSpeaks ==
  ASSUME NEW lite, lite, Shape, Good(db), Held, Spoken(lite), NEW c \in Clients, Lite!ConversationStep(c)
  PROVE  Spoken(lite)'
<1>1. CASE Lite!Does(c, "conversation", Lite!InsertReasonTurn(db, c))
  BY <1>1, InsertTurnSpeaks
<1>2. CASE Lite!FinishSeq(c)
  BY <1>2, SeqSpeaks DEF Lite!FinishSeq
<1>3. CASE Lite!Poll(c)
  BY <1>3, SpeakStays DEF Lite!Poll
<1> QED
  BY <1>1, <1>2, <1>3, BeginSpeaks, EventsSpeak, MessagesSpeak, HeaderSpeaks, DeriveSpeaks, AggregatedSpeaks,
     ReplySpeaks, RunIdSpeaks DEF Lite!ConversationStep

\* The store starts with nothing said.
LEMMA SpokenStarts == ASSUME NEW lite, Init PROVE Spoken(lite)
<1>1. /\ DOMAIN db.msgs = {} /\ DOMAIN db.turns = {} /\ DOMAIN db.events = {}
      /\ \A c \in Clients : call[c].op = "idle"
  BY StoreStarts DEF Tables
<1>2. IsFiniteSet({})
  BY FS_EmptySet
<1> QED
  BY <1>1, <1>2 DEF Spoken, Placed, Heard

\* The reply of every turn is last, on any port.
LEMMA SpokenIsLast ==
  ASSUME NEW lite, TalkInv, Quiet, port = "conversation" => Spoken(lite)
  PROVE  ReplyIsLast
<1>1. CASE port = "conversation"
  <2>1. Good(db) /\ Placed(db) /\ \A t \in DOMAIN db.turns : LastOf(db, t)
    BY <1>1 DEF TalkInv, Spoken, TurnOk
  <2> QED
    BY <2>1, LastIsLast
<1>2. CASE port # "conversation"
  <2>1. DOMAIN db.msgs = {}
    BY <1>2 DEF Quiet, None
  <2>2. \A t : Replies(db, t) = {}
    BY <2>1 DEF Replies, Rows
  <2>3. Cardinality({}) = 0
    BY FS_EmptySet
  <2> QED
    BY <2>2, <2>3 DEF ReplyIsLast
<1> QED
  BY <1>1, <1>2

\* A process that dies inside a call leaves its turn as it is.
LEMMA CrashSpeaks ==
  ASSUME NEW lite, Shape, Good(db), Held, Spoken(lite), NEW c \in Clients, db' = db, call[c].op # "idle",
         call' = [call EXCEPT ![c] = [op |-> "idle"]]
  PROVE  Spoken(lite)'
<1> DEFINE v == [op |-> "idle"]
<1>1. v.op = "idle" /\ call' = [call EXCEPT ![c] = v]
  OBVIOUS
<1> HIDE DEF v
<1> QED
  BY <1>1, CallSpeaks

Speech(lite) == port = "conversation" => Spoken(lite)

\* The replies' invariant is inductive.
LEMMA SqliteSpeechStep ==
  ASSUME NEW lite, lite, SqlitePollInv, Speech(lite), [Lite!Next]_vars
  PROVE  Speech(lite)'
<1>1. CASE vars' = vars
  <2>1. db' = db /\ call' = call /\ port' = port
    BY <1>1 DEF vars
  <2> QED
    BY <2>1, SpeakStays DEF Speech
<1>2. CASE Lite!Next
  <2>1. Moves(SqliteOps(port)) /\ (Lite!Crash \/ \E c \in Clients : SqlitePortStep(c))
    BY <1>2, SqliteSteps DEF SqlitePollInv, SqliteBase
  <2>2. port' = port
    BY <2>1 DEF Moves, Frame
  <2>3. ASSUME port = "conversation" PROVE Spoken(lite)'
    <3>1. Good(db) /\ Held /\ Shape /\ Spoken(lite)
      BY <2>3 DEF SqlitePollInv, SqliteBase, TalkInv, Speech
    <3>2. CASE Lite!Crash
      <4>1. PICK c \in Clients : call[c].op # "idle" /\ call' = [call EXCEPT ![c] = [op |-> "idle"]]
        BY <3>2 DEF Lite!Crash
      <4>2. db' = db
        BY <3>2 DEF Lite!Crash
      <4> QED
        BY <3>1, <4>1, <4>2, CrashSpeaks
    <3>3. CASE ~Lite!Crash
      <4>1. PICK c \in Clients : Lite!ConversationStep(c)
        BY <2>1, <2>3, <3>3 DEF SqlitePortStep, Inboxes
      <4> QED
        BY <3>1, <4>1, SqliteSpeaks
    <3> QED
      BY <3>2, <3>3
  <2> QED
    BY <2>2, <2>3 DEF Speech
<1> QED
  BY <1>1, <1>2

\* Whoever writes in between, and whoever dies, a run on the sqlite engine has
\* one reply at most and it is the run's last message (sqlite_store.go:
\* FinishReasonTurn's statements, repeated ones included).
THEOREM ReplyIsLastOnSqlite == Lite!Spec => []ReplyIsLast
<1> DEFINE lite == TRUE
<1>0. lite
  OBVIOUS
<1> HIDE DEF lite
<1> DEFINE Inv == SqlitePollInv /\ Speech(lite)
<1>1. Lite!Init => Inv
  <2> SUFFICES ASSUME Lite!Init PROVE Inv
    OBVIOUS
  <2>1. Init
    BY DEF Lite!Init, Init, Lite!EmptyDB, EmptyDB, Lite!IDBases, IDBases, Lite!None, None, Lite!Tables, Tables
  <2>2. SqliteBase
    BY <2>1, StoreStarts, SqliteOpsAre DEF SqliteBase, Calls
  <2>3. SqlitePollInv
    BY <2>1, <2>2, StoreTalks DEF SqlitePollInv
  <2> QED
    BY <2>1, <2>3, SpokenStarts DEF Speech
<1>2. Inv /\ [Lite!Next]_(Lite!vars) => Inv'
  <2> SUFFICES ASSUME SqlitePollInv, Speech(lite), [Lite!Next]_vars PROVE SqlitePollInv' /\ Speech(lite)'
    BY DEF vars, Lite!vars
  <2> QED
    BY <1>0, SqlitePollStep, SqliteSpeechStep
<1>3. Inv => ReplyIsLast
  BY SpokenIsLast DEF SqlitePollInv, Speech
<1> QED
  BY <1>1, <1>2, <1>3, PTL DEF Lite!Spec

-----------------------------------------------------------------------------
(* Replies on the postgres engine, whose runs are derived before they reply *)

\* What a trace has not flushed is a sequence.
Buffer(t) == "buf" \in DOMAIN t /\ \E S : t.buf \in Seq(S)
Buffered == \A c \in Clients : Buffer(trace[c])

\* A trace moves and keeps its buffer.
LEMMA BufferKept ==
  ASSUME Buffered, Traced, NEW c \in Clients, NEW w, Buffer(w), trace' = [trace EXCEPT ![c] = w]
  PROVE  Buffered'
<1>1. trace'[c] = w /\ \A e \in Clients \ {c} : trace'[e] = trace[e]
  BY DEF Traced
<1>2. SUFFICES ASSUME NEW e \in Clients PROVE Buffer(trace'[e])
  BY DEF Buffered, Buffer
<1> QED
  BY <1>1 DEF Buffered

\* A flush writes finitely many events and nothing else.
LEMMA FlushHeard ==
  ASSUME NEW d, DOMAIN d = DBFields, IsFiniteSet(DOMAIN d.events), NEW t, Buffer(t), NEW kept
  PROVE  LET e == flush(d, t, kept)
         IN e.msgs = d.msgs /\ e.turns = d.turns /\ IsFiniteSet(DOMAIN e.events)
<1> DEFINE batch == t.buf
           from == Len(t.said) - Len(t.buf)
           keys == {<<t.turn, from + i - 1>> : i \in DOMAIN batch}
           f == [i \in DOMAIN batch |-> <<t.turn, from + i - 1>>]
           e == AppendLLMEvents(d, t.turn, from, batch)
<1>1. CASE t.buf = <<>> \/ ~kept
  BY <1>1 DEF flush
<1>2. CASE ~(t.buf = <<>> \/ ~kept)
  <2>1. flush(d, t, kept) = e
    BY <1>2 DEF flush
  <2>2. e.msgs = d.msgs /\ e.turns = d.turns /\ DOMAIN e.events = DOMAIN d.events \cup keys
    BY DEF AppendLLMEvents, DBFields, Tables
  <2>3. IsFiniteSet(DOMAIN batch)
    <3>1. PICK S : batch \in Seq(S)
      BY DEF Buffer
    <3>2. DOMAIN batch = 1..Len(batch) /\ Len(batch) \in Nat
      BY <3>1
    <3> HIDE DEF batch
    <3> QED
      BY <3>2, FS_Interval
  <2>4. f \in Surjection(DOMAIN batch, keys)
    BY DEF Surjection
  <2> HIDE DEF batch, keys, f, e
  <2>5. IsFiniteSet(keys)
    BY <2>3, <2>4, FS_Surjection
  <2>6. IsFiniteSet(DOMAIN d.events \cup keys)
    BY <2>5, FS_Union
  <2> QED
    BY <2>1, <2>2, <2>6
<1> QED
  BY <1>1, <1>2

\* What an event of a stream writes comes before the reply.
LEMMA StreamSpeaks ==
  ASSUME NEW lite, lite = FALSE, Good(db), Placed(db), Heard(lite, db), NEW c \in Clients, NEW t, Buffer(t),
         Replies(db, t.turn) = {}, NEW agg, Said(agg.out), NEW full, Step(c, t, agg, full)
  PROVE  /\ Placed(db') /\ Heard(lite, db') /\ Replies(db', t.turn) = {} /\ db'.turns = db.turns
         /\ \A u : u # t.turn => Apart(lite, db, db', u)
         /\ \E w : trace' = [trace EXCEPT ![c] = w] /\ Buffer(w)
<1>1. PICK kept, told \in BOOLEAN :
        /\ db' = emitMessages(IF full THEN flush(db, t, kept) ELSE db, t, agg.out, told)
        /\ trace' = [trace EXCEPT ![c] = [t EXCEPT !.buf = IF full THEN <<>> ELSE @, !.aggregator = agg,
                       !.unkept = @ \/ ~kept, !.unsaid = @ \/ ~told]]
  BY DEF Step
<1> DEFINE turn == t.turn
           d == IF full THEN flush(db, t, kept) ELSE db
           out == agg.out
           e == AppendLLMMessages(d, turn, out)
           w == [t EXCEPT !.buf = IF full THEN <<>> ELSE @, !.aggregator = agg,
                   !.unkept = @ \/ ~kept, !.unsaid = @ \/ ~told]
<1>2. Buffer(w)
  <2>1. w.buf = (IF full THEN <<>> ELSE t.buf) /\ "buf" \in DOMAIN w
    BY DEF Buffer
  <2>2. \A S : <<>> \in Seq(S)
    OBVIOUS
  <2> HIDE DEF w
  <2> QED
    BY <2>1, <2>2 DEF Buffer
<1>3. trace' = [trace EXCEPT ![c] = w] /\ (db' = d \/ db' = e)
  BY <1>1 DEF emitMessages
<1> HIDE DEF w
<1>4. Good(d) /\ d.turns = db.turns /\ d.msgs = db.msgs /\ IsFiniteSet(DOMAIN d.events)
  <2>1. DOMAIN db = DBFields /\ IsFiniteSet(DOMAIN db.events)
    BY DEF Good, Heard
  <2>2. CASE full
    <3>1. d = flush(db, t, kept)
      BY <2>2
    <3> HIDE DEF d
    <3> QED
      BY <2>1, <3>1, FlushHeard, EventsAdded
  <2>3. CASE ~full
    BY <2>1, <2>3
  <2> QED
    BY <2>2, <2>3
<1>5. \A s \in DOMAIN out : s \in Nat /\ out[s].role # "assistant"
  BY DEF Said, Kinds
<1> HIDE DEF turn, d, out
<1>6. Placed(d) /\ Replies(d, turn) = {} /\ TurnOk(lite, d, turn) /\ \A u : Rows(d, u) = Rows(db, u)
  BY <1>4 DEF Placed, Replies, Rows, TurnOk, LastOf, turn
<1>7. Derives(d, e, turn, out) /\ e.turns = d.turns /\ e.events = d.events
  BY <1>4, BatchSays
<1> HIDE DEF e
<1>8. Placed(e) /\ Replies(e, turn) = {}
  <2>1. /\ Placed(e) /\ TurnOk(lite, e, turn) /\ Replies(e, turn) = Replies(d, turn) /\ Agg(e, turn) = Agg(d, turn)
        /\ \A x : At(d, turn, x) # {} => At(e, turn, x) # {}
    BY <1>5, <1>6, <1>7, SaysKeeps
  <2> QED
    BY <1>6, <2>1
<1>9. ASSUME NEW u, u # turn PROVE Apart(lite, db, d, u) /\ Apart(lite, db, e, u)
  <2>1. Apart(lite, db, d, u)
    BY <1>4, <1>6 DEF Apart
  <2>2. Apart(lite, d, e, u)
    BY <1>7, <1>9, SaysApart
  <2>3. Rows(e, u) = Rows(d, u) /\ \A m \in Rows(d, u) : e.msgs[m] = d.msgs[m]
    BY <2>2 DEF Apart
  <2> QED
    BY <1>4, <1>6, <2>1, <2>3 DEF Apart
<1>10. Placed(db') /\ Replies(db', turn) = {} /\ db'.turns = db.turns /\ IsFiniteSet(DOMAIN db'.events)
  BY <1>3, <1>4, <1>6, <1>7, <1>8
<1>11. Heard(lite, db')
  BY <1>10 DEF Heard
<1>12. \A u : u # turn => Apart(lite, db, db', u)
  BY <1>3, <1>9
<1> QED
  BY <1>2, <1>3, <1>10, <1>11, <1>12 DEF turn

\* An event is streamed in the turn of its client.
LEMMA EmitSpeaks ==
  ASSUME NEW lite, lite = FALSE, Shape, Good(db), Held, Traced, Buffered, Spoken(lite),
         NEW c \in Clients, NEW e, EmitEvent(c, e)
  PROVE  Spoken(lite)' /\ Buffered'
<1> DEFINE t == [trace[c] EXCEPT !.said = Append(@, e), !.buf = IF trace[c].events THEN Append(@, e) ELSE @]
           full == Len(t.buf) >= llmEventFlushSize
           agg == Add(trace[c].aggregator, e)
           u == call[c].turn
           v == call[c]
<1>1. Kept(trace[c]) /\ Buffer(trace[c])
  BY DEF Traced, Buffered
<1>2. t.turn = trace[c].turn /\ t.aggregator = trace[c].aggregator /\ "buf" \in DOMAIN t
      /\ t.buf = IF trace[c].events THEN Append(trace[c].buf, e) ELSE trace[c].buf
  BY <1>1 DEF Kept, Buffer
<1>3. v.op = "turn" /\ v.turn = u /\ Step(c, t, agg, full) /\ call' = call
  BY <1>2 DEF EmitEvent
<1>4. Said(agg.out)
  BY <1>1, AddIs DEF Kept
<1>5. t.turn = u /\ u \in DOMAIN db.turns /\ db.turns[u].agent = c /\ Replies(db, u) = {} /\ Placed(db) /\ Heard(lite, db)
  BY <1>2, <1>3 DEF Traced, Held, Spoken, Stage
<1>6. Buffer(t)
  <2>1. PICK S : trace[c].buf \in Seq(S)
    BY <1>1 DEF Buffer
  <2>2. Append(trace[c].buf, e) \in Seq(S \cup {e}) /\ trace[c].buf \in Seq(S \cup {e})
    BY <2>1
  <2> HIDE DEF t
  <2> QED
    BY <1>2, <2>2 DEF Buffer
<1>7. Grown(db, db') /\ call'[c] = v /\ \A b \in Clients : b # c => call'[b] = call[b]
  BY <1>3, PostgresEmits DEF PostgresTalks, MsgStep
<1> HIDE DEF t, full, agg, u, v
<1>8. /\ Placed(db') /\ Heard(lite, db') /\ Replies(db', t.turn) = {} /\ db'.turns = db.turns
      /\ \A x : x # t.turn => Apart(lite, db, db', x)
      /\ \E w : trace' = [trace EXCEPT ![c] = w] /\ Buffer(w)
  BY <1>3, <1>4, <1>5, <1>6, StreamSpeaks
<1>9. Buffered'
  BY <1>8, BufferKept
<1>10. TurnOk(lite, db', u) /\ Stage(lite, v, db') /\ u \in DOMAIN db'.turns /\ db'.turns[u].agent = c
  BY <1>3, <1>5, <1>8 DEF TurnOk, LastOf, Stage
<1>11. \A x \in DOMAIN db'.turns \ {u} : x \in DOMAIN db.turns /\ Apart(lite, db, db', x)
  BY <1>5, <1>8
<1>12. Spoken(lite)'
  BY <1>3, <1>7, <1>8, <1>10, <1>11, SpeakHolds
<1> QED
  BY <1>9, <1>12

\* The rest of a stream is flushed before its run is finished.
LEMMA FinishSpeaks ==
  ASSUME NEW lite, lite = FALSE, Shape, Good(db), Held, Traced, Buffered, Spoken(lite),
         NEW c \in Clients, Finish(c)
  PROVE  Spoken(lite)' /\ Buffered'
<1> DEFINE t == trace[c]
           full == TRUE
           agg == Flush(t.aggregator)
           u == call[c].turn
           v == [call[c] EXCEPT !.op = "flushed"]
<1>1. Kept(t) /\ Buffer(t)
  BY DEF Traced, Buffered
<1>2. call[c].op = "turn" /\ Step(c, t, agg, full) /\ call' = [call EXCEPT ![c] = v]
  BY DEF Finish
<1>3. v.op = "flushed" /\ v.turn = u
  BY DEF Shape
<1>4. Said(agg.out)
  BY <1>1, FlushIs DEF Kept
<1>5. t.turn = u /\ u \in DOMAIN db.turns /\ db.turns[u].agent = c /\ Replies(db, u) = {} /\ Placed(db) /\ Heard(lite, db)
  BY <1>2 DEF Traced, Held, Spoken, Stage
<1>6. Grown(db, db')
  BY PostgresFinishes DEF PostgresTalks, MsgStep
<1> HIDE DEF t, full, agg, u, v
<1>7. /\ Placed(db') /\ Heard(lite, db') /\ Replies(db', t.turn) = {} /\ db'.turns = db.turns
      /\ \A x : x # t.turn => Apart(lite, db, db', x)
      /\ \E w : trace' = [trace EXCEPT ![c] = w] /\ Buffer(w)
  BY <1>1, <1>2, <1>4, <1>5, StreamSpeaks
<1>8. Buffered'
  BY <1>7, BufferKept
<1>9. TurnOk(lite, db', u) /\ Stage(lite, v, db') /\ u \in DOMAIN db'.turns /\ db'.turns[u].agent = c
  BY <1>3, <1>5, <1>7 DEF TurnOk, LastOf, Stage
<1>10. \A x \in DOMAIN db'.turns \ {u} : x \in DOMAIN db.turns /\ Apart(lite, db, db', x)
  BY <1>5, <1>7
<1>11. Spoken(lite)'
  BY <1>2, <1>3, <1>6, <1>7, <1>9, <1>10, SpeakMoves
<1> QED
  BY <1>8, <1>11

\* What the derivation will write is what the events of the run say where it
\* reads them, and the run has no reply yet.
LEMMA StoredSpeaks ==
  ASSUME NEW lite, lite = FALSE, Shape, Good(db), Held, Spoken(lite), IsFiniteSet(DOMAIN replica.events),
         NEW c \in Clients, FinishDerive(c)
  PROVE  Spoken(lite)'
<1> DEFINE t == call[c].turn
           r == readPool
           events == Lite!ListLLMEvents(r, t)
           todo == AggregateChatMessages(events)
           v == [op |-> "derive", turn |-> t, todo |-> todo]
<1>1. call' = [call EXCEPT ![c] = v] /\ db' = db /\ call[c].op = "finish"
  BY DEF FinishDerive, ListLLMEvents
<1>2. Replies(db, t) = {}
  BY <1>1 DEF Spoken, Stage
<1>3. IsFiniteSet(DOMAIN r.events)
  BY DEF readPool, Spoken, Heard
<1> HIDE DEF r
<1>4. Len(events) \in Nat
  BY <1>3, EventsAre
<1> HIDE DEF events
<1>5. Said(todo)
  BY <1>4, AggregateIs
<1> HIDE DEF todo
<1>6. v.op = "derive" /\ v.turn = t /\ v.todo = todo /\ "todo" \in DOMAIN v
  OBVIOUS
<1> HIDE DEF v
<1>7. Stage(lite, v, db)
  BY <1>2, <1>5, <1>6 DEF Stage
<1> QED
  BY <1>1, <1>6, <1>7, CallSpeaks

\* Every statement of a turn keeps the reply last, lost writes included.
LEMMA PostgresSpeaks ==
  ASSUME NEW lite, lite = FALSE, Shape, Good(db), Held, Traced, Buffered, Spoken(lite),
         IsFiniteSet(DOMAIN replica.events), NEW c \in Clients, ConversationStep(c)
  PROVE  Spoken(lite)' /\ Buffered'
<1>0. Kept(trace[c]) /\ Buffer(trace[c])
  BY DEF Traced, Buffered
<1>1. CASE BeginLLMTraceFrom(c)
  <2>1. Lite!BeginReasonTurn(c)
    BY <1>1 DEF BeginLLMTraceFrom, BeginReasonTurn
  <2>2. PICK on \in BOOLEAN :
          trace' = [trace EXCEPT ![c] = [Inert EXCEPT !.active = TRUE, !.events = on, !.turn = call'[c].turn]]
    BY <1>1 DEF BeginLLMTraceFrom
  <2> DEFINE w == [Inert EXCEPT !.active = TRUE, !.events = on, !.turn = call'[c].turn]
  <2>3. w.buf = <<>> /\ "buf" \in DOMAIN w
    BY DEF Inert
  <2>4. trace' = [trace EXCEPT ![c] = w]
    BY <2>2
  <2> HIDE DEF w
  <2>5. Buffer(w)
    <3>1. \A S : <<>> \in Seq(S)
      OBVIOUS
    <3> QED
      BY <2>3, <3>1 DEF Buffer
  <2> QED
    BY <2>1, <2>4, <2>5, BeginSpeaks, BufferKept
<1>2. ASSUME NEW e, EmitEvent(c, e) PROVE Spoken(lite)' /\ Buffered'
  BY <1>2, EmitSpeaks
<1>3. CASE Finish(c)
  BY <1>3, FinishSpeaks
<1>4. CASE FinishStored(c)
  <2> DEFINE w == [trace[c] EXCEPT !.behind = ListLLMEvents(readPool, call[c].turn) # ListLLMEvents(db, call[c].turn)]
  <2>1. FinishDerive(c) /\ trace' = [trace EXCEPT ![c] = w]
    BY <1>4 DEF FinishStored
  <2>2. Buffer(w)
    BY <1>0 DEF Buffer
  <2> HIDE DEF w
  <2> QED
    BY <2>1, <2>2, StoredSpeaks, BufferKept
<1>5. CASE FinishFails(c)
  <2> DEFINE v == [call[c] EXCEPT !.op = "runid"]
             w == [trace[c] EXCEPT !.failed = TRUE]
  <2>1. call' = [call EXCEPT ![c] = v] /\ db' = db /\ call[c].op # "idle"
    BY <1>5 DEF FinishFails
  <2>2. trace' = [trace EXCEPT ![c] = w]
    BY <1>5 DEF FinishFails
  <2>3. v.op = "runid" /\ v.turn = call[c].turn
    BY DEF Shape
  <2>4. Buffer(w)
    BY <1>0 DEF Buffer
  <2> HIDE DEF v, w
  <2>5. Stage(lite, v, db)
    BY <2>3, StageDone
  <2> QED
    BY <2>1, <2>2, <2>3, <2>4, <2>5, CallSpeaks, BufferKept
<1>6. CASE Origin(c)
  <2> DEFINE w == [trace[c] EXCEPT !.active = FALSE, !.reply = AssistantMessageID(Reading("writer"), call[c].turn)]
  <2>1. Lite!FinishRunId(c)
    BY <1>6 DEF Origin, FinishRunId
  <2>2. trace' = [trace EXCEPT ![c] = w]
    BY <1>6 DEF Origin
  <2>3. Buffer(w)
    BY <1>0 DEF Buffer
  <2> HIDE DEF w
  <2> QED
    BY <2>1, <2>2, <2>3, RunIdSpeaks, BufferKept
<1>7. CASE trace' = trace /\ FinishReasonTurn(c)
  <2> DEFINE v == [call[c] EXCEPT !.op = "finish"]
             t == call[c].turn
             x == "finished"
             f == "status"
  <2>1. call' = [call EXCEPT ![c] = v] /\ call[c].op = "flushed" /\ db' = [db EXCEPT !.turns[t][f] = x]
    BY <1>7 DEF FinishReasonTurn
  <2>2. v.op = "finish" /\ v.turn = t /\ f \in {"status", "run"}
    BY DEF Shape
  <2>3. t \in DOMAIN db.turns /\ db.turns[t].agent = c /\ Replies(db, t) = {}
    BY <2>1 DEF Held, Spoken, Stage
  <2> HIDE DEF v, t, x, f
  <2>4. Stage(lite, v, db)
    BY <2>2, <2>3 DEF Stage
  <2>5. Spoken(lite)'
    BY <2>1, <2>2, <2>3, <2>4, MarkSpeaks
  <2> QED
    BY <1>7, <2>5 DEF Buffered
<1>8. CASE trace' = trace /\ recordAggregatedMessages(c)
  <2>1. Spoken(lite)'
    BY <1>8, AggregatedSpeaks DEF recordAggregatedMessages
  <2> QED
    BY <1>8, <2>1 DEF Buffered
<1>9. CASE trace' = trace /\ FinishSeq(c)
  <2>1. Spoken(lite)'
    <3>1. /\ call[c].op = "derive" /\ DOMAIN call[c].todo = {} /\ db' = db
          /\ call' = [call EXCEPT ![c] = [op |-> "reply", turn |-> call[c].turn,
                        seq |-> IF Lite!assistantMessageSeq(db, call[c].turn) THEN 0
                                ELSE Lite!nextMessageSeq(db, call[c].turn)]]
      BY <1>9 DEF FinishSeq, assistantMessageSeq, nextMessageSeq
    <3> QED
      BY <3>1, SeqSpeaks
  <2> QED
    BY <1>9, <2>1 DEF Buffered
<1>10. CASE trace' = trace /\ recordAssistantMessage(c)
  <2>1. Spoken(lite)'
    BY <1>10, ReplySpeaks DEF recordAssistantMessage
  <2> QED
    BY <1>10, <2>1 DEF Buffered
<1>11. CASE trace' = trace /\ Does(c, "conversation", InsertReasonTurn(db, c))
  <2>1. Spoken(lite)'
    BY <1>11, InsertTurnSpeaks DEF InsertReasonTurn
  <2> QED
    BY <1>11, <2>1 DEF Buffered
<1> QED
  BY <1>1, <1>2, <1>3, <1>4, <1>5, <1>6, <1>7, <1>8, <1>9, <1>10, <1>11 DEF ConversationStep

Echo == IsFiniteSet(DOMAIN replica.events)
PostgresSpeech(lite) == port = "conversation" => Spoken(lite) /\ Buffered /\ Echo

\* The replies' invariant is inductive, whatever the follower is behind.
LEMMA PostgresSpeechStep ==
  ASSUME NEW lite, lite = FALSE, PostgresPollInv, PostgresSpeech(lite), [TraceNext]_traceVars
  PROVE  PostgresSpeech(lite)'
<1>1. CASE traceVars' = traceVars
  <2>1. db' = db /\ call' = call /\ port' = port /\ trace' = trace /\ replica' = replica
    BY <1>1 DEF traceVars
  <2> QED
    BY <2>1, SpeakStays DEF PostgresSpeech, Buffered, Echo
<1>2. CASE TraceNext
  <2>1. Moves(PostgresOps(port))
    BY <1>2, PostgresSteps DEF PostgresPollInv, PostgresBase
  <2>2. port' = port
    BY <2>1 DEF Moves, Frame
  <2>3. ASSUME port = "conversation" PROVE Spoken(lite)' /\ Buffered' /\ Echo'
    <3>1. /\ Good(db) /\ Held /\ Shape /\ Spoken(lite) /\ Buffered /\ Echo /\ Traced /\ Calls(PostgresOps(port))
      BY <2>3 DEF PostgresPollInv, PostgresBase, TalkInv, PostgresTalkInv, PostgresSpeech
    <3>2. CASE Replicate /\ trace' = trace
      <4>1. db' = db /\ call' = call /\ replica' = db
        BY <3>2 DEF Replicate
      <4> QED
        BY <3>1, <3>2, <4>1, SpeakStays DEF Buffered, Echo, Spoken, Heard
    <3>3. CASE Crash /\ trace' = trace /\ replica' = replica
      <4>1. PICK c \in Clients : call[c].op # "idle" /\ call' = [call EXCEPT ![c] = [op |-> "idle"]]
        BY <3>3 DEF Crash
      <4>2. db' = db
        BY <3>3 DEF Crash
      <4>3. Spoken(lite)'
        BY <3>1, <4>1, <4>2, CrashSpeaks
      <4> QED
        BY <3>1, <3>3, <4>3 DEF Buffered, Echo
    <3>4. ASSUME NEW c \in Clients, Poll(c), trace' = trace, replica' = replica
          PROVE  Spoken(lite)' /\ Buffered' /\ Echo'
      <4>1. db' = db /\ call' = call
        BY <3>4 DEF Poll
      <4> QED
        BY <3>1, <3>4, <4>1, SpeakStays DEF Buffered, Echo
    <3>5. ASSUME NEW c \in Clients, ConversationStep(c), replica' = replica
          PROVE  Spoken(lite)' /\ Buffered' /\ Echo'
      BY <3>1, <3>5, PostgresSpeaks DEF Echo
    <3> QED
      BY <1>2, <2>3, <3>1, <3>2, <3>3, <3>4, <3>5, TalkSteps
  <2> QED
    BY <2>2, <2>3 DEF PostgresSpeech
<1> QED
  BY <1>1, <1>2

\* The replies' invariant holds of an empty store and its follower.
LEMMA PostgresSpeechStart ==
  ASSUME NEW lite, TraceInit PROVE PostgresSpeech(lite)
<1>1. Init /\ replica = EmptyDB /\ trace = [c \in Clients |-> Inert] /\ db = EmptyDB
  BY DEF TraceInit, PostgresInit, Init
<1>2. Spoken(lite)
  BY <1>1, SpokenStarts
<1>3. Echo
  BY <1>1, <1>2 DEF Spoken, Heard, Echo
<1>4. Buffered
  <2>1. Inert.buf = <<>> /\ "buf" \in DOMAIN Inert
    BY DEF Inert
  <2>2. \A S : <<>> \in Seq(S)
    OBVIOUS
  <2>3. Buffer(Inert)
    BY <2>1, <2>2 DEF Buffer
  <2> QED
    BY <1>1, <2>3 DEF Buffered
<1> QED
  BY <1>2, <1>3, <1>4 DEF PostgresSpeech

\* A run on the postgres engine has one reply at most and it is the run's last
\* message, whichever of its trace's writes are lost, whoever dies in it, and
\* however old the events are it is derived from (postgres_store.go:
\* FinishReasonTurn; llm_trace.go: flush and finish).
THEOREM ReplyIsLastOnPostgres == TraceSpec => []ReplyIsLast
<1> DEFINE lite == FALSE
<1>0. lite = FALSE
  OBVIOUS
<1> HIDE DEF lite
<1> DEFINE Inv == PostgresPollInv /\ PostgresSpeech(lite)
<1>1. TraceInit => Inv
  BY <1>0, PostgresPollStart, PostgresSpeechStart
<1>2. Inv /\ [TraceNext]_traceVars => Inv'
  <2> SUFFICES ASSUME PostgresPollInv, PostgresSpeech(lite), [TraceNext]_traceVars
               PROVE  PostgresPollInv' /\ PostgresSpeech(lite)'
    OBVIOUS
  <2> QED
    BY <1>0, PostgresPollStep, PostgresSpeechStep
<1>3. Inv => ReplyIsLast
  <2> SUFFICES ASSUME PostgresPollInv, PostgresSpeech(lite) PROVE ReplyIsLast
    OBVIOUS
  <2>1. TalkInv /\ Quiet /\ (port = "conversation" => Spoken(lite))
    BY DEF PostgresPollInv, PostgresSpeech
  <2> QED
    BY <2>1, SpokenIsLast
<1> QED
  BY <1>1, <1>2, <1>3, PTL DEF TraceSpec

-----------------------------------------------------------------------------
(* The contract of the ports: what a step of each port is to its callers *)

Implements == [Contract!Next]_(Contract!storeVars)

\* A port's callers see nothing of what another port writes.
LEMMA ViewsKept ==
  ASSUME Frame
  PROVE  /\ port # "task" => TaskOf(db') = TaskOf(db)
         /\ port # "agent" => AgentsOf(db') = AgentsOf(db)
         /\ port # "inbox" => InboxOf(db') = InboxOf(db)
         /\ port # "conversation" => SaidOf(db') = SaidOf(db) /\ ReplyOf(db') = ReplyOf(db)
         /\ port # "execution" => PlansOf(db') = PlansOf(db)
         /\ port # "verification" => db'.contract = db.contract
<1>1. /\ port # "task" => db'.tasks = db.tasks
      /\ port # "agent" => db'.agents = db.agents
      /\ port # "inbox" => db'.inbox = db.inbox
      /\ port # "conversation" => db'.turns = db.turns /\ db'.msgs = db.msgs
      /\ port # "execution" => db'.plans = db.plans /\ db'.psteps = db.psteps /\ db'.steps = db.steps
      /\ port # "verification" => db'.contract = db.contract
  BY DEF Frame, Writes, DBFields, Tables
<1>2. port # "conversation" => \A t : Seqs(db', t) = Seqs(db, t) /\ ReplyAt(db', t) = ReplyAt(db, t)
  BY <1>1 DEF Seqs, ReplyAt, Replies, Rows
<1>3. port # "conversation" => SaidOf(db') = SaidOf(db) /\ ReplyOf(db') = ReplyOf(db)
  BY <1>1, <1>2 DEF SaidOf, ReplyOf
<1>4. port # "execution" => \A p : Planned(db', p) = Planned(db, p) /\ Ran(db', p) = Ran(db, p)
  BY <1>1 DEF Planned, Ran
<1>5. port # "execution" => PlansOf(db') = PlansOf(db)
  BY <1>1, <1>4 DEF PlansOf
<1>6. port # "task" => TaskOf(db') = TaskOf(db)
  BY <1>1, Zenon DEF TaskOf
<1>7. port # "agent" => AgentsOf(db') = AgentsOf(db)
  BY <1>1 DEF AgentsOf
<1>8. port # "inbox" => InboxOf(db') = InboxOf(db)
  BY <1>1 DEF InboxOf
<1> QED
  BY <1>1, <1>3, <1>5, <1>6, <1>7, <1>8

\* A step that its port's callers do not see is no step to anybody.
LEMMA Unseen ==
  ASSUME Frame,
         port = "task" => TaskOf(db') = TaskOf(db),
         port = "agent" => AgentsOf(db') = AgentsOf(db),
         port = "inbox" => InboxOf(db') = InboxOf(db),
         port = "conversation" => SaidOf(db') = SaidOf(db) /\ ReplyOf(db') = ReplyOf(db),
         port = "execution" => PlansOf(db') = PlansOf(db),
         port = "verification" => db'.contract = db.contract
  PROVE  Implements
<1>1. UNCHANGED Contract!storeVars
  BY ViewsKept DEF Contract!storeVars
<1> QED
  BY <1>1 DEF Implements

\* Nothing is written.
LEMMA NothingWritten == ASSUME Frame, db' = db PROVE Implements
BY Unseen

-----------------------------------------------------------------------------
(* The task port *)

TaskInv == port = "task" => db.tasks = None \/ "t" \in DOMAIN db.tasks

\* One write of a row over another, whatever the empty value is.
LEMMA KeptRow ==
  ASSUME NEW nil, NEW G, NEW w \in [agent : 0..1, goal : G, status : {"pending", "running", "completed"}],
         NEW old, NEW row,
         row = [w EXCEPT !.agent = IF @ = 0 THEN old.agent ELSE @, !.goal = IF @ = nil THEN old.goal ELSE @]
  PROVE  /\ row.agent = (IF w.agent = 0 THEN old.agent ELSE w.agent)
         /\ row.goal = (IF w.goal = nil THEN old.goal ELSE w.goal)
<1>1. {"agent", "goal"} \subseteq DOMAIN w
  OBVIOUS
<1> QED
  BY <1>1

\* A write names the task's agent and goal or leaves them.
LEMMA TaskImplements ==
  ASSUME Shape, Frame, TaskInv, port = "task", NEW w \in TaskRow, db' = Lite!UpsertTask(db, w)
  PROVE  Implements /\ "t" \in DOMAIN db'.tasks
<1> DEFINE nil == ""
           old == db.tasks["t"]
           kept == [w EXCEPT !.agent = IF @ = 0 THEN old.agent ELSE @,
                             !.goal = IF @ = nil THEN old.goal ELSE @]
           row == IF "t" \in DOMAIN db.tasks THEN kept ELSE w
<1>1. db' = [db EXCEPT !.tasks = Lite!Put(@, "t", row)]
  BY Zenon DEF Lite!UpsertTask
<1>0. /\ w \in [agent : 0..1, goal : {nil, "g"}, status : {"pending", "running", "completed"}]
      /\ \A d : TaskOf(d) = IF d.tasks = None THEN [agent |-> 0, goal |-> nil]
                            ELSE [agent |-> d.tasks["t"].agent, goal |-> d.tasks["t"].goal]
  BY Zenon DEF TaskRow, TaskOf
<1>a. ASSUME TaskOf(db').agent # 0 \/ TaskOf(db).agent = 0, TaskOf(db').goal # nil \/ TaskOf(db).goal = nil
      PROVE  Implements
  <2>1. /\ AgentsOf(db') = AgentsOf(db) /\ InboxOf(db') = InboxOf(db) /\ SaidOf(db') = SaidOf(db)
        /\ ReplyOf(db') = ReplyOf(db) /\ PlansOf(db') = PlansOf(db) /\ db'.contract = db.contract
    BY ViewsKept
  <2>2. Contract!UpsertTask
    BY <1>a, <2>1, Zenon DEF Contract!UpsertTask
  <2> QED
    BY <2>2 DEF Implements, Contract!Next
<1> HIDE DEF nil
<1>2. db'.tasks = [x \in DOMAIN db.tasks \cup {"t"} |-> IF x = "t" THEN row ELSE db.tasks[x]]
  BY <1>1 DEF Lite!Put, Shape, DBFields, Tables
<1>3. "t" \in DOMAIN db'.tasks /\ db'.tasks["t"] = row
  BY <1>2
<1>4. DOMAIN None = {}
  BY DEF None
<1>5. TaskOf(db').agent = row.agent /\ TaskOf(db').goal = row.goal
  BY <1>0, <1>3, <1>4
<1>7. CASE db.tasks = None
  <2>1. TaskOf(db).agent = 0 /\ TaskOf(db).goal = nil
    BY <1>0, <1>7
  <2> QED
    BY <1>3, <2>1, <1>a
<1>8. CASE db.tasks # None
  <2>1. "t" \in DOMAIN db.tasks /\ row = kept
    BY <1>8 DEF TaskInv
  <2>2. TaskOf(db).agent = old.agent /\ TaskOf(db).goal = old.goal
    BY <1>0, <1>8
  <2>3. /\ row.agent = (IF w.agent = 0 THEN old.agent ELSE w.agent)
        /\ row.goal = (IF w.goal = nil THEN old.goal ELSE w.goal)
    <3> HIDE DEF old, row
    <3>1. row = [w EXCEPT !.agent = IF @ = 0 THEN old.agent ELSE @, !.goal = IF @ = nil THEN old.goal ELSE @]
      BY <2>1
    <3>2. w \in [agent : 0..1, goal : {nil, "g"}, status : {"pending", "running", "completed"}]
      BY <1>0
    <3> QED
      BY <3>1, <3>2, KeptRow, Zenon
  <2> HIDE DEF old, row
  <2>4. TaskOf(db').agent # 0 \/ TaskOf(db).agent = 0
    BY <1>5, <2>2, <2>3
  <2>5. TaskOf(db').goal # nil \/ TaskOf(db).goal = nil
    BY <1>5, <2>2, <2>3
  <2> QED
    BY <1>3, <2>4, <2>5, <1>a
<1> QED
  BY <1>7, <1>8

-----------------------------------------------------------------------------
(* The verification port *)

\* A criterion is pinned once; a verdict is nobody's business here.
LEMMA ContractImplements ==
  ASSUME Shape, Frame, port = "verification", NEW i, NEW t, db' = Lite!AppendCompletionContract(db, i, t)
  PROVE  Implements
<1>1. CASE i \in DOMAIN db.contract
  <2>1. db'.contract = db.contract
    BY <1>1 DEF Lite!AppendCompletionContract, Shape, DBFields, Tables
  <2> QED
    BY <2>1, Unseen
<1>2. CASE i \notin DOMAIN db.contract
  <2>1. db'.contract = [x \in DOMAIN db.contract \cup {i} |-> IF x = i THEN t ELSE db.contract[x]]
    BY <1>2 DEF Lite!AppendCompletionContract, Lite!Put, Shape, DBFields, Tables
  <2>2. i \in DOMAIN db'.contract \ DOMAIN db.contract /\ db'.contract[i] = t
    BY <1>2, <2>1
  <2>3. db'.contract = Contract!Grown(db.contract, i, db'.contract[i])
    BY <2>1, <2>2 DEF Contract!Grown
  <2>4. Contract!PinCriterion
    BY <2>2, <2>3, ViewsKept DEF Contract!PinCriterion
  <2> QED
    BY <2>4 DEF Implements, Contract!Next
<1> QED
  BY <1>1, <1>2

\* A verdict is appended.
LEMMA VerdictImplements ==
  ASSUME Shape, Frame, port = "verification", NEW i, NEW b, db' = Lite!AppendVerification(db, i, b)
  PROVE  Implements
<1>1. db'.contract = db.contract
  BY DEF Lite!AppendVerification, Shape, DBFields, Tables
<1> QED
  BY <1>1, Unseen

-----------------------------------------------------------------------------
(* The inbox port *)

\* A message is added at an id that is nobody's.
LEMMA EnqueueImplements ==
  ASSUME Shape, Frame, port = "inbox", NEW k, k \notin DOMAIN db.inbox,
         db'.inbox = Put(db.inbox, k, [status |-> "queued"])
  PROVE  Implements
<1>1. k \in DOMAIN InboxOf(db') /\ k \notin DOMAIN InboxOf(db)
  BY DEF InboxOf, Put
<1>2. InboxOf(db') = Contract!Grown(InboxOf(db), k, "queued")
  BY DEF InboxOf, Contract!Grown, Put
<1>3. Contract!EnqueueMessage
  BY <1>1, <1>2, ViewsKept DEF Contract!EnqueueMessage
<1> QED
  BY <1>3 DEF Implements, Contract!Next

\* The status of one message moves.
LEMMA StatusImplements ==
  ASSUME Shape, Frame, port = "inbox", Rows1, NEW i \in DOMAIN db.inbox, NEW s,
         db' = [db EXCEPT !.inbox[i].status = s],
         \/ db.inbox[i].status = "queued" /\ s = "running"
         \/ db.inbox[i].status = "running" /\ s \in {"queued", "done", "failed", "stopped"}
  PROVE  Implements
<1> DEFINE from == db.inbox[i].status  f == InboxOf(db)
<1>1. /\ DOMAIN db'.inbox = DOMAIN db.inbox /\ db'.inbox[i].status = s
      /\ \A j \in DOMAIN db.inbox : j # i => db'.inbox[j] = db.inbox[j]
  BY DEF Shape, DBFields, Tables, Rows1
<1>2. InboxOf(db') = [f EXCEPT ![i] = s] /\ i \in DOMAIN f /\ f[i] = from
  BY <1>1 DEF InboxOf
<1>a. DOMAIN f = DOMAIN db.inbox
  BY DEF InboxOf
<1> HIDE DEF f
<1>3. CASE from = "running" /\ s = "queued"
  <2>1. {i} \in SUBSET {j \in DOMAIN f : f[j] = "running"}
    BY <1>2, <1>3
  <2>2. InboxOf(db') = [j \in DOMAIN f |-> IF j \in {i} THEN "queued" ELSE f[j]]
    BY <1>2, <1>3
  <2>3. Contract!Requeue
    BY <2>1, <2>2, ViewsKept DEF Contract!Requeue, f
  <2> QED
    BY <2>3 DEF Implements, Contract!Next
<1>4. CASE ~(from = "running" /\ s = "queued")
  <2>1. Contract!Moves(from, s)
    BY <1>2, ViewsKept DEF Contract!Moves, f
  <2> QED
    BY <1>4, <2>1 DEF Implements, Contract!Next
<1> QED
  BY <1>3, <1>4

\* The running messages of a dead consumer go back.
LEMMA RequeueImplements ==
  ASSUME Shape, Frame, port = "inbox",
         db' = [db EXCEPT !.inbox =
                  [i \in DOMAIN @ |-> IF @[i].status = "running" THEN [status |-> "queued"] ELSE @[i]]]
  PROVE  Implements
<1> DEFINE f == InboxOf(db)  is == {i \in DOMAIN f : f[i] = "running"}
<1>1. db'.inbox = [i \in DOMAIN db.inbox |->
                     IF db.inbox[i].status = "running" THEN [status |-> "queued"] ELSE db.inbox[i]]
  BY DEF Shape, DBFields, Tables
<1>2. InboxOf(db') = [i \in DOMAIN f |-> IF i \in is THEN "queued" ELSE f[i]]
  BY <1>1 DEF InboxOf
<1>3. is \in SUBSET {i \in DOMAIN f : f[i] = "running"}
  OBVIOUS
<1>4. Contract!Requeue
  BY <1>2, <1>3, ViewsKept DEF Contract!Requeue
<1> QED
  BY <1>4 DEF Implements, Contract!Next

\* What the inbox's claims do, on both engines.
LEMMA ClaimsImplement ==
  ASSUME Shape, Frame, port = "inbox", InboxInv, NEW c \in Clients,
         \/ Lite!ClaimSelect(c) \/ Lite!ClaimUpdate(c) \/ Lite!FinishAgentMessage(c) \/ Lite!RequeueMessage(c)
         \/ Lite!RequeueRunningMessages(c)
  PROVE  Implements
<1> DEFINE i == call[c].id
<1>1. CASE Lite!ClaimSelect(c)
  BY <1>1, NothingWritten DEF Lite!ClaimSelect
<1>2. CASE Lite!ClaimUpdate(c) /\ ~Lite!StillQueued(i)
  BY <1>2, NothingWritten DEF Lite!ClaimUpdate
<1>3. CASE Lite!ClaimUpdate(c) /\ Lite!StillQueued(i)
  <2>1. db' = [db EXCEPT !.inbox[i].status = "running"] /\ call[c].op = "claim"
    BY <1>3 DEF Lite!ClaimUpdate
  <2>2. i \in DOMAIN db.inbox /\ db.inbox[i].status = "queued"
    BY <1>3, <2>1 DEF Lite!StillQueued, InboxInv, Claims
  <2> HIDE DEF i
  <2> QED
    BY <2>1, <2>2, StatusImplements DEF InboxInv
<1>4. CASE Lite!FinishAgentMessage(c)
  <2>1. PICK s \in {"done", "failed", "stopped"} : db' = [db EXCEPT !.inbox[i].status = s] /\ call[c].op = "claimed"
    BY <1>4 DEF Lite!FinishAgentMessage, Lite!Statuses
  <2>2. i \in DOMAIN db.inbox /\ db.inbox[i].status = "running"
    BY <2>1 DEF InboxInv, Claims
  <2> HIDE DEF i
  <2> QED
    BY <2>1, <2>2, StatusImplements DEF InboxInv
<1>5. CASE Lite!RequeueMessage(c)
  <2>1. call[c].op = "claimed"
    BY <1>5 DEF Lite!RequeueMessage
  <2>2. i \in DOMAIN db.inbox /\ db.inbox[i].status = "running"
    BY <2>1 DEF InboxInv, Claims
  <2>3. db' = [db EXCEPT !.inbox[i].status = "queued"]
    BY <1>5, <2>2 DEF Lite!RequeueMessage, Shape, DBFields, Tables
  <2> HIDE DEF i
  <2> QED
    BY <2>2, <2>3, StatusImplements DEF InboxInv
<1>6. CASE Lite!RequeueRunningMessages(c)
  BY <1>6, RequeueImplements DEF Lite!RequeueRunningMessages
<1> QED
  BY <1>1, <1>2, <1>3, <1>4, <1>5, <1>6

\* Opening writes no row a caller sees.
LEMMA OpenImplements ==
  ASSUME Shape, Frame, port \in Inboxes, NEW n, db' = db \/ db' = [db EXCEPT !.seq[Lite!Table] = n]
  PROVE  Implements
<1>1. \A t \in DBFields \ {"seq"} : db'[t] = db[t]
  BY DEF Shape, DBFields, Tables
<1>2. db'.agents = db.agents /\ db'.inbox = db.inbox
  BY <1>1 DEF DBFields, Tables
<1> QED
  BY <1>2, Unseen DEF AgentsOf, InboxOf, Inboxes

\* A row of the inbox is added at the next id.
LEMMA MessageInserted ==
  ASSUME NEW d, \A t \in DBFields : t \in DOMAIN d, NEW row
  PROVE  LET e == Lite!Insert(d, "inbox", row)
             k == Lite!NextId(d, "inbox")
         IN /\ e.inbox = Put(d.inbox, k, row)
            /\ e.seq = [d.seq EXCEPT !["inbox"] = k]
<1> DEFINE e == Lite!Insert(d, "inbox", row)
           k == Lite!NextId(d, "inbox")
           rows == Lite!Put(d["inbox"], k, row)
           one == [d EXCEPT !["inbox"] = rows]
           ids == [one.seq EXCEPT !["inbox"] = k]
<1>1. e = [one EXCEPT !["seq"] = ids]
  BY Zenon DEF Lite!Insert
<1>2. rows = Put(d.inbox, k, row)
  BY DEF Lite!Put, Put
<1> HIDE DEF k, e, rows
<1>3. one.seq = d.seq /\ one["inbox"] = rows /\ DOMAIN one = DOMAIN d
  BY DEF DBFields, Tables
<1>4. ids = [d.seq EXCEPT !["inbox"] = k]
  BY <1>3
<1> HIDE DEF one, ids
<1>5. e.inbox = rows /\ e.seq = ids
  BY <1>1, <1>3 DEF DBFields, Tables
<1> QED
  BY <1>2, <1>4, <1>5, Zenon DEF k, e

\* A row of the agents is added at the next id.
LEMMA AgentInserted ==
  ASSUME NEW d, \A t \in DBFields : t \in DOMAIN d, NEW row
  PROVE  LET e == Lite!Insert(d, "agents", row)
             k == Lite!NextId(d, "agents")
         IN /\ e.agents = Put(d.agents, k, row)
            /\ e.seq = [d.seq EXCEPT !["agents"] = k]
<1> DEFINE e == Lite!Insert(d, "agents", row)
           k == Lite!NextId(d, "agents")
           rows == Lite!Put(d["agents"], k, row)
           one == [d EXCEPT !["agents"] = rows]
           ids == [one.seq EXCEPT !["agents"] = k]
<1>1. e = [one EXCEPT !["seq"] = ids]
  BY Zenon DEF Lite!Insert
<1>2. rows = Put(d.agents, k, row)
  BY DEF Lite!Put, Put
<1> HIDE DEF k, e, rows
<1>3. one.seq = d.seq /\ one["agents"] = rows /\ DOMAIN one = DOMAIN d
  BY DEF DBFields, Tables
<1>4. ids = [d.seq EXCEPT !["agents"] = k]
  BY <1>3
<1> HIDE DEF one, ids
<1>5. e.agents = rows /\ e.seq = ids
  BY <1>1, <1>3 DEF DBFields, Tables
<1> QED
  BY <1>2, <1>4, <1>5, Zenon DEF k, e

\* The sqlite inbox.
LEMMA SqliteInboxImplements ==
  ASSUME SqliteBase, Frame, port = "inbox", InboxInv, NEW c \in Clients, Lite!InboxStep(c)
  PROVE  Implements
<1>1. CASE Lite!Does(c, "inbox", Lite!EnqueueMessage(db))
  <2> DEFINE k == Lite!NextId(db, "inbox")  row == [status |-> "queued"]
  <2>1. k \notin DOMAIN db.inbox
    BY NextIdIsNew DEF InboxInv
  <2>2. db' = Lite!Insert(db, "inbox", row) /\ \A t \in DBFields : t \in DOMAIN db
    BY <1>1 DEF Lite!EnqueueMessage, SqliteBase, Shape
  <2> HIDE DEF row
  <2>3. db'.inbox = Put(db.inbox, k, row)
    BY <2>2, MessageInserted
  <2> HIDE DEF k
  <2> QED
    BY <2>1, <2>3, EnqueueImplements DEF SqliteBase, row
<1> QED
  BY <1>1, ClaimsImplement DEF Lite!InboxStep, SqliteBase

\* The postgres inbox: the id is taken first, the row comes later.
LEMMA PostgresInboxImplements ==
  ASSUME PostgresBase, Frame, port = "inbox", InboxInv, Inserting, NEW c \in Clients, PostgresInboxStep(c)
  PROVE  Implements
<1>1. CASE Nextval(c, "inbox", "inbox", [status |-> "queued"])
  <2>1. db' = [db EXCEPT !.seq[Lite!Table] = db.seq["inbox"] + 1]
    BY <1>1 DEF Nextval, Lite!Table
  <2> QED
    BY <2>1, OpenImplements DEF PostgresBase, Inboxes
<1>2. CASE Committed(c, "inbox")
  <2> DEFINE k == call[c].id  row == [status |-> "queued"]
  <2>1. call[c].row = row
    BY <1>2 DEF Committed, Inserting
  <2>2. CASE k \in DOMAIN db.inbox
    BY <1>2, <2>2, NothingWritten DEF Committed, DuplicateKey
  <2>3. CASE k \notin DOMAIN db.inbox
    <3>1. db' = [db EXCEPT !["inbox"] = Put(@, k, call[c].row)]
      BY <1>2, <2>3 DEF Committed, DuplicateKey
    <3>2. db'.inbox = Put(db.inbox, k, row)
      BY <2>1, <3>1 DEF PostgresBase, Shape, DBFields, Tables
    <3> HIDE DEF k
    <3> QED
      BY <2>3, <3>2, EnqueueImplements DEF PostgresBase
  <2> QED
    BY <2>2, <2>3
<1> QED
  BY <1>1, <1>2, ClaimsImplement DEF PostgresInboxStep, PostgresBase, EnqueueMessage, ClaimNextMessage,
       FinishAgentMessage, RequeueMessage, RequeueRunningMessages

-----------------------------------------------------------------------------
(* The agent port *)

Nameless == [named |-> FALSE, deleted |-> FALSE]

\* A nameless row was never deleted.
AgentRows(d) ==
  \A a \in DOMAIN d.agents : /\ d.agents[a] \in [named : BOOLEAN, deleted : BOOLEAN]
                             /\ d.agents[a].named \/ ~d.agents[a].deleted

\* What a call of the port holds: the row it has yet to name, the id it has
\* yet to insert, the floor it has yet to write.
AgentCall(d, v) ==
  /\ v.op = "name" => v.id \in DOMAIN d.agents
  /\ v.op = "insert" => v.row = Nameless /\ v.id \in Nat
  /\ v.op \in {"open", "opened"} => v.seq \in Nat

AgentInv ==
  port = "agent" => Ids(db, "agents") /\ AgentRows(db) /\ \A c \in Clients : AgentCall(db, call[c])

\* One call moves, and no row goes.
LEMMA AgentMoves ==
  ASSUME AgentInv, port = "agent", port' = port, NEW c \in Clients, \A e \in Clients \ {c} : call'[e] = call[e],
         Ids(db', "agents"), AgentRows(db'), DOMAIN db.agents \subseteq DOMAIN db'.agents, AgentCall(db', call'[c])
  PROVE  AgentInv'
<1>1. \A e \in Clients : AgentCall(db', call'[e])
  <2> SUFFICES ASSUME NEW e \in Clients, e # c PROVE AgentCall(db', call'[e])
    OBVIOUS
  <2>1. call'[e] = call[e] /\ AgentCall(db, call[e])
    BY DEF AgentInv
  <2> QED
    BY <2>1 DEF AgentCall
<1> QED
  BY <1>1 DEF AgentInv

\* The rows stay as they are.
LEMMA AgentRests ==
  ASSUME Shape, Frame, AgentInv, port = "agent", port' = port, NEW c \in Clients,
         \A e \in Clients \ {c} : call'[e] = call[e], AgentCall(db, call'[c]),
         db'.agents = db.agents, "agents" \in DOMAIN db'.seq, db'.seq["agents"] \in Nat
  PROVE  Implements /\ AgentInv'
<1>1. Ids(db', "agents") /\ AgentRows(db') /\ AgentCall(db', call'[c])
  BY DEF AgentInv, Ids, AgentRows, AgentCall
<1>2. AgentInv'
  BY <1>1, AgentMoves
<1>3. AgentsOf(db') = AgentsOf(db)
  BY DEF AgentsOf
<1> QED
  BY <1>2, <1>3, Unseen

\* One row is named, deleted or undeleted.
LEMMA AgentWritten ==
  ASSUME Shape, Frame, AgentInv, port = "agent", port' = port, NEW c \in Clients,
         \A e \in Clients \ {c} : call'[e] = call[e], AgentCall(db, call'[c]),
         NEW a \in DOMAIN db.agents, NEW deleted \in BOOLEAN,
         db'.agents = [db.agents EXCEPT ![a] = [named |-> TRUE, deleted |-> deleted]], db'.seq = db.seq,
         db.agents[a].named = FALSE => deleted = FALSE
  PROVE  Implements /\ AgentInv'
<1> DEFINE old == db.agents[a]  f == AgentsOf(db)  g == AgentsOf(db')
           named(d) == {b \in DOMAIN d.agents : d.agents[b].named}
<1>1. /\ DOMAIN db'.agents = DOMAIN db.agents /\ db'.agents[a] = [named |-> TRUE, deleted |-> deleted]
      /\ \A b \in DOMAIN db.agents : b # a => db'.agents[b] = db.agents[b]
  OBVIOUS
<1>2. Ids(db', "agents") /\ AgentCall(db', call'[c])
  BY <1>1 DEF AgentInv, Ids, AgentCall
<1>3. AgentRows(db')
  BY <1>1 DEF AgentInv, AgentRows
<1>4. AgentInv'
  BY <1>1, <1>2, <1>3, AgentMoves
<1>5. old \in [named : BOOLEAN, deleted : BOOLEAN]
  BY DEF AgentInv, AgentRows
<1>6. CASE old.named = TRUE /\ old.deleted = deleted
  <2>1. named(db') = named(db) /\ \A b \in named(db) : db'.agents[b].deleted = db.agents[b].deleted
    BY <1>1, <1>6
  <2>2. g = f
    BY <2>1 DEF AgentsOf
  <2> QED
    BY <1>4, <2>2, Unseen
<1>7. CASE old.named = TRUE /\ old.deleted # deleted
  <2>1. a \in DOMAIN f /\ deleted = ~f[a]
    BY <1>5, <1>7 DEF AgentsOf
  <2>2. g = [f EXCEPT ![a] = deleted]
    <3>1. named(db') = named(db)
      BY <1>1, <1>7
    <3>2. \A b \in named(db) : b # a => db'.agents[b].deleted = db.agents[b].deleted
      BY <1>1
    <3>3. db'.agents[a].deleted = deleted
      BY <1>1
    <3> QED
      BY <3>1, <3>2, <3>3 DEF AgentsOf
  <2>3. Contract!SetDeleted
    BY <2>1, <2>2, ViewsKept DEF Contract!SetDeleted
  <2> QED
    BY <1>4, <2>3 DEF Implements, Contract!Next
<1>8. CASE old.named = FALSE
  <2>1. a \in DOMAIN g /\ a \notin DOMAIN f /\ deleted = FALSE
    BY <1>1, <1>8 DEF AgentsOf
  <2>2. g = Contract!Grown(f, a, FALSE)
    <3>1. named(db') = named(db) \cup {a} /\ a \notin named(db)
      BY <1>1, <1>8
    <3>2. \A b \in named(db) : db'.agents[b].deleted = db.agents[b].deleted
      BY <1>1, <1>8
    <3>3. db'.agents[a].deleted = FALSE
      BY <1>1, <2>1
    <3> HIDE DEF old
    <3> QED
      BY <3>1, <3>2, <3>3 DEF AgentsOf, Contract!Grown
  <2>3. Contract!NewAgent
    BY <2>1, <2>2, ViewsKept DEF Contract!NewAgent
  <2> QED
    BY <1>4, <2>3 DEF Implements, Contract!Next
<1> QED
  BY <1>5, <1>6, <1>7, <1>8

\* A nameless row is added: its port's callers do not see it.
LEMMA AgentAdded ==
  ASSUME Shape, Frame, AgentInv, port = "agent", port' = port, NEW c \in Clients,
         \A e \in Clients \ {c} : call'[e] = call[e],
         NEW k \in Nat, k \notin DOMAIN db.agents, db'.agents = Put(db.agents, k, Nameless), AgentCall(db', call'[c]),
         "agents" \in DOMAIN db'.seq, db'.seq["agents"] \in Nat
  PROVE  Implements /\ AgentInv'
<1>1. /\ DOMAIN db'.agents = DOMAIN db.agents \cup {k} /\ db'.agents[k] = Nameless
      /\ \A b \in DOMAIN db.agents : db'.agents[b] = db.agents[b]
  BY DEF Put
<1>2. Ids(db', "agents")
  <2>1. PICK n \in Nat : \A i \in DOMAIN db.agents : i \in Nat /\ i <= n
    BY DEF AgentInv, Ids
  <2>3. n + k \in Nat
    BY <2>1
  <2>2. \A i \in DOMAIN db'.agents : i \in Nat /\ i <= n + k
    BY <1>1, <2>1
  <2> QED
    BY <2>1, <2>2, <2>3 DEF Ids
<1>3. AgentRows(db')
  <2>1. Nameless \in [named : BOOLEAN, deleted : BOOLEAN] /\ Nameless.deleted = FALSE
    BY DEF Nameless
  <2> QED
    BY <1>1, <2>1 DEF AgentInv, AgentRows
<1>4. AgentInv'
  BY <1>1, <1>2, <1>3, AgentMoves
<1>5. {b \in DOMAIN db'.agents : db'.agents[b].named} = {b \in DOMAIN db.agents : db.agents[b].named}
  BY <1>1 DEF Nameless
<1>6. AgentsOf(db') = AgentsOf(db)
  <2>1. \A b \in {x \in DOMAIN db.agents : db.agents[x].named} : db'.agents[b].deleted = db.agents[b].deleted
    BY <1>1
  <2> QED
    BY <1>5, <2>1 DEF AgentsOf
<1> QED
  BY <1>4, <1>6, Unseen

\* A row with one of its columns written.
LEMMA ColumnWritten ==
  ASSUME NEW B, NEW old \in [named : B, deleted : B], NEW x
  PROVE  /\ [old EXCEPT !.named = x] = [named |-> x, deleted |-> old.deleted]
         /\ [old EXCEPT !.deleted = x] = [named |-> old.named, deleted |-> x]
OBVIOUS

\* A statement of one of the row's columns writes the row.
LEMMA AgentColumn ==
  ASSUME Shape, AgentInv, port = "agent", NEW a \in DOMAIN db.agents, NEW b \in BOOLEAN
  PROVE  LET old == db.agents[a]
         IN /\ db' = [db EXCEPT !.agents[a].named = TRUE] =>
                 /\ db'.agents = [db.agents EXCEPT ![a] = [named |-> TRUE, deleted |-> old.deleted]]
                 /\ db'.seq = db.seq
            /\ old.named /\ db' = [db EXCEPT !.agents[a].deleted = b] =>
                 /\ db'.agents = [db.agents EXCEPT ![a] = [named |-> TRUE, deleted |-> b]]
                 /\ db'.seq = db.seq
<1> DEFINE old == db.agents[a]
<1>1. old \in [named : BOOLEAN, deleted : BOOLEAN]
  BY DEF AgentInv, AgentRows
<1>2. [old EXCEPT !.named = TRUE] = [named |-> TRUE, deleted |-> old.deleted]
  BY <1>1, ColumnWritten, Zenon
<1>3. old.named => [old EXCEPT !.deleted = b] = [named |-> TRUE, deleted |-> b]
  <2>1. [old EXCEPT !.deleted = b] = [named |-> old.named, deleted |-> b]
    BY <1>1, ColumnWritten, Zenon
  <2>2. old.named => old.named = TRUE
    BY <1>1
  <2> QED
    BY <2>1, <2>2, Zenon
<1>4. ASSUME NEW r, db' = [db EXCEPT !.agents[a] = r]
      PROVE  db'.agents = [db.agents EXCEPT ![a] = r] /\ db'.seq = db.seq
  BY <1>4 DEF Shape, DBFields, Tables
<1> QED
  BY <1>2, <1>3, <1>4

\* The statements of known agents, on both engines.
LEMMA KnownAgentImplements ==
  ASSUME Shape, Frame, AgentInv, port = "agent", port' = port, NEW c \in Clients,
         \/ Lite!NameAgent(c)
         \/ \E a \in DOMAIN db.agents : /\ db.agents[a].named
                                        /\ call' = call
                                        /\ db' = Lite!UpsertAgent(db, a) \/ db' = Lite!SoftDeleteAgent(db, a)
  PROVE  Implements /\ AgentInv'
<1>1. CASE Lite!NameAgent(c)
  <2> DEFINE a == call[c].id
  <2>1. a \in DOMAIN db.agents
    BY <1>1 DEF Lite!NameAgent, AgentInv, AgentCall
  <2>2. db' = [db EXCEPT !.agents[a].named = TRUE]
    BY <1>1 DEF Lite!NameAgent
  <2>3. AgentCall(db, call'[c]) /\ \A e \in Clients \ {c} : call'[e] = call[e]
    BY <1>1 DEF Lite!NameAgent, Shape, AgentCall
  <2> HIDE DEF a
  <2>4. db.agents[a].deleted \in BOOLEAN /\ (db.agents[a].named = FALSE => db.agents[a].deleted = FALSE)
    BY <2>1 DEF AgentInv, AgentRows
  <2>5. db'.agents = [db.agents EXCEPT ![a] = [named |-> TRUE, deleted |-> db.agents[a].deleted]] /\ db'.seq = db.seq
    BY <2>1, <2>2, AgentColumn
  <2> QED
    BY <2>1, <2>3, <2>4, <2>5, AgentWritten
<1>2. ASSUME NEW a \in DOMAIN db.agents, db.agents[a].named, call' = call,
             NEW b \in BOOLEAN, db' = [db EXCEPT !.agents[a].deleted = b]
      PROVE  Implements /\ AgentInv'
  <2>1. AgentCall(db, call'[c]) /\ \A e \in Clients \ {c} : call'[e] = call[e]
    BY <1>2 DEF AgentInv
  <2>2. db'.agents = [db.agents EXCEPT ![a] = [named |-> TRUE, deleted |-> b]] /\ db'.seq = db.seq
    BY <1>2, AgentColumn
  <2>3. db.agents[a].named # FALSE
    BY <1>2
  <2> QED
    BY <2>1, <2>2, <2>3, AgentWritten
<1> QED
  BY <1>1, <1>2 DEF Lite!UpsertAgent, Lite!SoftDeleteAgent

\* The floor a process reads when it opens the agents is a number.
LEMMA AgentFloor ==
  ASSUME port = "agent", Ids(db, "agents") PROVE Lite!Floor(db, Lite!Table) \in Nat
<1>1. PICK n \in Nat : \A i \in DOMAIN db.agents : i \in Nat /\ i <= n
  BY DEF Ids
<1> DEFINE h == Lite!Highest(db.agents)  b == AgentIDBase - 1
<1>2. h \in Nat
  BY <1>1, HighestIs
<1>3. b \in Nat
  <2>1. {AgentIDBase} \subseteq Nat \ {0}
    BY StoreAssumption DEF StoreAssumption
  <2> QED
    BY <2>1
<1>4. Lite!Floor(db, Lite!Table) = Lite!Max({b, h})
  BY DEF Lite!Floor, Lite!Table, Lite!Base
<1> HIDE DEF h, b
<1>5. {b, h} \in SUBSET Nat /\ b \in {b, h} /\ \E m \in Nat : \A y \in {b, h} : y <= m
  <2>1. CASE b <= h
    BY <2>1, <1>2, <1>3
  <2>2. CASE h <= b
    BY <2>2, <1>2, <1>3
  <2> QED
    BY <2>1, <2>2, <1>2, <1>3
<1>6. Lite!Max({b, h}) \in {b, h}
  BY <1>5, MaxIs
<1> QED
  BY <1>4, <1>5, <1>6

\* The sqlite agents, with the process that opens the database.
LEMMA SqliteAgentImplements ==
  ASSUME SqliteBase, Frame, AgentInv, port = "agent", port' = port, NEW c \in Clients,
         Lite!Open(c) \/ Lite!AgentStep(c)
  PROVE  Implements /\ AgentInv'
<1> USE DEF SqliteBase
<1>0. "agents" \in DOMAIN db.seq /\ db.seq["agents"] \in Nat /\ Ids(db, "agents")
  BY DEF AgentInv, Ids
<1>1. ASSUME NEW v, call' = [call EXCEPT ![c] = v], AgentCall(db, v),
             \/ db' = db
             \/ \E n \in Nat : db' = [db EXCEPT !.seq["agents"] = n]
      PROVE  Implements /\ AgentInv'
  <2>1. AgentCall(db, call'[c]) /\ \A e \in Clients \ {c} : call'[e] = call[e]
    BY <1>1 DEF Shape
  <2>2. db'.agents = db.agents /\ "agents" \in DOMAIN db'.seq /\ db'.seq["agents"] \in Nat
    BY <1>0, <1>1 DEF Shape, DBFields, Tables
  <2> QED
    BY <2>1, <2>2, AgentRests
<1>2. CASE Lite!OpenRead(c)
  <2> DEFINE v == [op |-> "open", seq |-> Lite!Floor(db, Lite!Table)]
  <2>1. call' = [call EXCEPT ![c] = v] /\ db' = db
    BY <1>2 DEF Lite!OpenRead
  <2>2. AgentCall(db, v)
    BY <1>0, AgentFloor DEF AgentCall
  <2> HIDE DEF v
  <2> QED
    BY <2>1, <2>2, <1>1
<1>3. CASE Lite!OpenDelete(c)
  <2> DEFINE v == [call[c] EXCEPT !.op = "opened"]
  <2>1. call' = [call EXCEPT ![c] = v] /\ db' = [db EXCEPT !.seq["agents"] = 0]
    BY <1>3 DEF Lite!OpenDelete, Lite!Table
  <2>2. AgentCall(db, v)
    BY <1>3 DEF Lite!OpenDelete, AgentInv, AgentCall, Shape
  <2> HIDE DEF v
  <2> QED
    BY <2>1, <2>2, <1>1
<1>4. CASE Lite!OpenInsert(c)
  <2> DEFINE v == [op |-> "idle"]  n == IF db.seq["agents"] = 0 THEN call[c].seq ELSE db.seq["agents"]
  <2>1. call' = [call EXCEPT ![c] = v] /\ db' = [db EXCEPT !.seq["agents"] = n]
    BY <1>4 DEF Lite!OpenInsert, Lite!Table
  <2>2. AgentCall(db, v) /\ n \in Nat
    BY <1>0, <1>4 DEF Lite!OpenInsert, AgentInv, AgentCall
  <2> HIDE DEF v, n
  <2> QED
    BY <2>1, <2>2, <1>1
<1>5. CASE Lite!UpsertNewAgent(c)
  <2> DEFINE k == Lite!NextId(db, "agents")  v == [op |-> "name", id |-> k]
  <2>1. k \in Nat /\ k \notin DOMAIN db.agents
    BY <1>0, NextIdIsNew
  <2>2. db' = Lite!Insert(db, "agents", Nameless) /\ call' = [call EXCEPT ![c] = v]
    BY <1>5 DEF Lite!UpsertNewAgent, Nameless
  <2>3. \A t \in DBFields : t \in DOMAIN db
    BY DEF Shape
  <2>4. db'.agents = Put(db.agents, k, Nameless) /\ db'.seq = [db.seq EXCEPT !["agents"] = k]
    BY <2>2, <2>3, AgentInserted
  <2> HIDE DEF k
  <2>5. AgentCall(db', v)
    BY <2>4 DEF AgentCall, Put
  <2>6. "agents" \in DOMAIN db'.seq /\ db'.seq["agents"] \in Nat
    BY <1>0, <2>1, <2>4
  <2> HIDE DEF v
  <2>7. AgentCall(db', call'[c]) /\ \A e \in Clients \ {c} : call'[e] = call[e]
    BY <2>2, <2>5 DEF Shape
  <2> QED
    BY <2>1, <2>4, <2>6, <2>7, AgentAdded
<1>6. CASE \E a \in {b \in Lite!ListAgents(db) : db.agents[b].named} :
             Lite!Does(c, "agent", Lite!UpsertAgent(db, a)) \/ Lite!Does(c, "agent", Lite!SoftDeleteAgent(db, a))
  BY <1>6, KnownAgentImplements DEF Lite!ListAgents
<1> QED
  BY <1>2, <1>3, <1>4, <1>5, <1>6, KnownAgentImplements DEF Lite!Open, Lite!AgentStep

\* The postgres agents, with the sequences a process sets when it starts.
LEMMA PostgresAgentImplements ==
  ASSUME PostgresBase, Frame, AgentInv, port = "agent", port' = port, NEW c \in Clients,
         ensureIDSequences(c) \/ PostgresAgentStep(c)
  PROVE  Implements /\ AgentInv'
<1> USE DEF PostgresBase
<1>0. "agents" \in DOMAIN db.seq /\ db.seq["agents"] \in Nat /\ Ids(db, "agents")
  BY DEF AgentInv, Ids
<1>1. CASE ensureIDSequences(c)
  <2>1. call' = call /\ db' = [db EXCEPT !.seq["agents"] = Lite!Floor(db, Lite!Table)]
    BY <1>1 DEF ensureIDSequences, Lite!Table
  <2>2. Lite!Floor(db, Lite!Table) \in Nat
    BY <1>0, AgentFloor
  <2>3. db'.agents = db.agents /\ "agents" \in DOMAIN db'.seq /\ db'.seq["agents"] \in Nat
    BY <1>0, <2>1, <2>2 DEF Shape, DBFields, Tables
  <2>4. AgentCall(db, call'[c]) /\ \A e \in Clients \ {c} : call'[e] = call[e]
    BY <2>1 DEF AgentInv
  <2> QED
    BY <2>3, <2>4, AgentRests
<1>2. CASE Nextval(c, "agent", "agents", [named |-> FALSE, deleted |-> FALSE])
  <2> DEFINE v == [op |-> "insert", id |-> db.seq["agents"] + 1, row |-> Nameless]
  <2>1. call' = [call EXCEPT ![c] = v] /\ db' = [db EXCEPT !.seq["agents"] = @ + 1]
    BY <1>2 DEF Nextval, Nameless
  <2>2. AgentCall(db, v)
    BY <1>0 DEF AgentCall
  <2> HIDE DEF v
  <2>3. db'.agents = db.agents /\ "agents" \in DOMAIN db'.seq /\ db'.seq["agents"] \in Nat
    BY <1>0, <2>1 DEF Shape, DBFields, Tables
  <2>4. AgentCall(db, call'[c]) /\ \A e \in Clients \ {c} : call'[e] = call[e]
    BY <2>1, <2>2 DEF Shape
  <2> QED
    BY <2>3, <2>4, AgentRests
<1>3. ASSUME Committed(c, "agents"),
             call' = [call EXCEPT ![c] = IF db' = db THEN Idle ELSE [op |-> "name", id |-> @.id]]
      PROVE  Implements /\ AgentInv'
  <2> DEFINE k == call[c].id
  <2>1. call[c].row = Nameless /\ k \in Nat
    BY <1>3 DEF Committed, AgentInv, AgentCall
  <2>2. CASE k \in DOMAIN db.agents
    <3>1. db' = db
      BY <1>3, <2>2 DEF Committed, DuplicateKey
    <3>2. AgentCall(db, call'[c]) /\ \A e \in Clients \ {c} : call'[e] = call[e]
      BY <1>3, <3>1 DEF Shape, AgentCall
    <3> QED
      BY <1>0, <3>1, <3>2, AgentRests
  <2>3. CASE k \notin DOMAIN db.agents
    <3>1. db' = [db EXCEPT !["agents"] = Put(@, k, call[c].row)]
      BY <1>3, <2>3 DEF Committed, DuplicateKey
    <3>2. db'.agents = Put(db.agents, k, Nameless) /\ db'.seq = db.seq
      BY <2>1, <3>1 DEF Shape, DBFields, Tables
    <3>3. k \in DOMAIN db'.agents
      BY <3>2 DEF Put
    <3>4. db' # db
      BY <2>3, <3>3
    <3>5. AgentCall(db', call'[c]) /\ \A e \in Clients \ {c} : call'[e] = call[e]
      BY <1>3, <3>3, <3>4 DEF Shape, AgentCall
    <3> HIDE DEF k
    <3> QED
      BY <1>0, <2>1, <2>3, <3>2, <3>5, AgentAdded
  <2> QED
    BY <2>2, <2>3
<1>4. ASSUME NEW a \in DOMAIN db.agents, db.agents[a].named,
             Does(c, "agent", Lite!UpsertAgent(db, a)) \/ Does(c, "agent", Lite!SoftDeleteAgent(db, a))
      PROVE  Implements /\ AgentInv'
  BY <1>4, KnownAgentImplements
<1>5. CASE Lite!NameAgent(c)
  BY <1>5, KnownAgentImplements
<1>6. CASE UpsertAgent(c)
  <2>1. \/ Nextval(c, "agent", "agents", [named |-> FALSE, deleted |-> FALSE])
        \/ /\ Committed(c, "agents")
           /\ call' = [call EXCEPT ![c] = IF db' = db THEN Idle ELSE [op |-> "name", id |-> @.id]]
        \/ Lite!NameAgent(c)
        \/ \E a \in Lite!ListAgents(db) : db.agents[a].named /\ Does(c, "agent", Lite!UpsertAgent(db, a))
    BY <1>6 DEF UpsertAgent
  <2> QED
    BY <2>1, <1>2, <1>3, <1>4, <1>5 DEF Lite!ListAgents
<1>7. CASE \E a \in {b \in DOMAIN db.agents : db.agents[b].named} : Does(c, "agent", SoftDeleteAgent(db, a))
  BY <1>4, <1>7 DEF SoftDeleteAgent
<1> QED
  BY <1>1, <1>6, <1>7 DEF PostgresAgentStep

\* A process that dies holds nothing of the agents' any more.
LEMMA AgentCrash ==
  ASSUME Shape, Frame, AgentInv, port = "agent", port' = port, NEW c \in Clients, db' = db,
         call' = [call EXCEPT ![c] = Idle]
  PROVE  AgentInv'
<1>1. AgentCall(db, call'[c]) /\ \A e \in Clients \ {c} : call'[e] = call[e]
  BY DEF Shape, AgentCall
<1>2. "agents" \in DOMAIN db.seq /\ db.seq["agents"] \in Nat
  BY DEF AgentInv, Ids
<1> QED
  BY <1>1, <1>2, AgentRests

-----------------------------------------------------------------------------
(* The execution port: its statements are the same on both engines *)

StepRow == [plan : Nat, idx : Nat, status : {"ok", "failed"}, interactions : Nat]

\* What was planned and what ran are of plans there are.
PlanTables(d) ==
  /\ Numbered(d.plans) /\ IsFiniteSet(d.psteps) /\ \A q \in d.psteps : q[1] \in DOMAIN d.plans
  /\ d.steps \in Seq(StepRow) /\ \A i \in DOMAIN d.steps : d.steps[i].plan \in DOMAIN d.plans

\* A client has a plan, and before it has planned its steps there are none.
PlanCall(d, v) ==
  /\ v.op \in {"plan", "run"} => v.id \in DOMAIN d.plans
  /\ v.op = "plan" => Planned(d, v.id) = {} /\ Ran(d, v.id) = {}

\* Nobody else has the plan that a client has yet to fill.
PlansApart ==
  \A c, e \in Clients : c # e /\ call[c].op = "plan" /\ call[e].op \in {"plan", "run"} => call[c].id # call[e].id

PlanInv == port = "execution" => PlanTables(db) /\ PlansApart /\ \A c \in Clients : PlanCall(db, call[c])

\* One call moves: to a new plan, on with its own, or away.
LEMMA PlanMoves ==
  ASSUME PlanInv, port = "execution", port' = port, NEW c \in Clients, \A e \in Clients \ {c} : call'[e] = call[e],
         PlanTables(db'), DOMAIN db.plans \subseteq DOMAIN db'.plans, PlanCall(db', call'[c]),
         \A e \in Clients \ {c} : call[e].op = "plan" => /\ Planned(db', call[e].id) = Planned(db, call[e].id)
                                                         /\ Ran(db', call[e].id) = Ran(db, call[e].id),
         call'[c].op \in {"plan", "run"} =>
           \/ call'[c].id \notin DOMAIN db.plans
           \/ /\ call'[c].id = call[c].id /\ call[c].op \in {"plan", "run"}
              /\ call'[c].op = "plan" => call[c].op = "plan"
  PROVE  PlanInv'
<1>1. ASSUME NEW e \in Clients PROVE PlanCall(db', call'[e])
  <2>1. CASE e # c
    <3>1. call'[e] = call[e] /\ PlanCall(db, call[e])
      BY <2>1 DEF PlanInv
    <3>2. call[e].op = "plan" => Planned(db', call[e].id) = {} /\ Ran(db', call[e].id) = {}
      BY <2>1, <3>1 DEF PlanCall
    <3> QED
      BY <3>1, <3>2 DEF PlanCall
  <2> QED
    BY <2>1
<1>2. PlansApart'
  <2> SUFFICES ASSUME NEW a \in Clients, NEW b \in Clients, a # b, call'[a].op = "plan", call'[b].op \in {"plan", "run"}
               PROVE  call'[a].id # call'[b].id
    BY DEF PlansApart
  <2>1. CASE a # c /\ b # c
    BY <2>1 DEF PlanInv, PlansApart
  <2>2. CASE a = c
    <3>1. call'[b] = call[b] /\ PlanCall(db, call[b])
      BY <2>2 DEF PlanInv
    <3> QED
      BY <2>2, <3>1 DEF PlanInv, PlansApart, PlanCall
  <2>3. CASE b = c
    <3>1. call'[a] = call[a] /\ PlanCall(db, call[a])
      BY <2>3 DEF PlanInv
    <3> QED
      BY <2>3, <3>1 DEF PlanInv, PlansApart, PlanCall
  <2> QED
    BY <2>1, <2>2, <2>3
<1> QED
  BY <1>1, <1>2 DEF PlanInv

\* Counting what was planned and what ran.
LEMMA PlanCounts ==
  ASSUME NEW d, PlanTables(d), NEW p
  PROVE  /\ IsFiniteSet(Planned(d, p)) /\ Cardinality(Planned(d, p)) \in Nat
         /\ IsFiniteSet(Ran(d, p)) /\ Cardinality(Ran(d, p)) \in Nat
<1>1. IsFiniteSet(Planned(d, p))
  BY FS_Subset DEF Planned, PlanTables
<1>2. Ran(d, p) \subseteq 1..Len(d.steps) /\ Len(d.steps) \in Nat
  BY DEF Ran, PlanTables
<1>3. IsFiniteSet(Ran(d, p))
  <2>1. IsFiniteSet(1..Len(d.steps))
    BY <1>2, FS_Interval
  <2> QED
    BY <1>2, <2>1, FS_Subset
<1> QED
  BY <1>1, <1>3, FS_CardinalityType

\* The call moves and no row does.
LEMMA PlanRests ==
  ASSUME Shape, Frame, PlanInv, port = "execution", port' = port, NEW c \in Clients, db' = db,
         \A e \in Clients \ {c} : call'[e] = call[e], call'[c].op \notin {"plan", "run"}
  PROVE  Implements /\ PlanInv'
<1>1. PlanCall(db', call'[c])
  BY DEF PlanCall
<1>2. PlanTables(db') /\ \A p : Planned(db', p) = Planned(db, p) /\ Ran(db', p) = Ran(db, p)
  BY DEF PlanInv
<1>3. PlanInv'
  BY <1>1, <1>2, PlanMoves
<1> QED
  BY <1>3, NothingWritten

\* A plan is created.
LEMMA CreatePlanImplements ==
  ASSUME Shape, Frame, PlanInv, port = "execution", port' = port, NEW c \in Clients, Lite!CreateExecutionPlan(c)
  PROVE  Implements /\ PlanInv'
<1> DEFINE id == Lite!Highest(db.plans) + 1  row == [input |-> c]
<1>1. /\ call' = [call EXCEPT ![c] = [op |-> "plan", id |-> id]]
      /\ db' = [db EXCEPT !.plans = Lite!Put(@, id, row)]
  BY DEF Lite!CreateExecutionPlan
<1>2. id \in Nat /\ \A i \in DOMAIN db.plans : i < id
  <2>1. PICK n \in Nat : \A i \in DOMAIN db.plans : i \in Nat /\ i <= n
    BY DEF PlanInv, PlanTables, Numbered
  <2>2. /\ Highest(db.plans) \in Nat /\ \A i \in DOMAIN db.plans : i <= Highest(db.plans)
        /\ Lite!Highest(db.plans) = Highest(db.plans)
    BY <2>1, HighestIs
  <2> QED
    BY <2>1, <2>2
<1> HIDE DEF id, row
<1>3. /\ db'.plans = [x \in DOMAIN db.plans \cup {id} |-> IF x = id THEN row ELSE db.plans[x]]
      /\ db'.psteps = db.psteps /\ db'.steps = db.steps
  BY <1>1 DEF Lite!Put, Shape, DBFields, Tables
<1>4. id \notin DOMAIN db.plans /\ DOMAIN db'.plans = DOMAIN db.plans \cup {id}
  BY <1>2, <1>3
<1>5. \A p : Planned(db', p) = Planned(db, p) /\ Ran(db', p) = Ran(db, p)
  BY <1>3 DEF Planned, Ran
<1>6. Planned(db, id) = {} /\ Ran(db, id) = {}
  BY <1>4 DEF Planned, Ran, PlanInv, PlanTables
<1>7. PlanTables(db')
  <2>1. Numbered(db'.plans)
    BY <1>2, <1>4 DEF Numbered, PlanInv, PlanTables
  <2> QED
    BY <1>3, <1>4, <2>1 DEF PlanInv, PlanTables
<1>8. call'[c] = [op |-> "plan", id |-> id] /\ \A e \in Clients \ {c} : call'[e] = call[e]
  BY <1>1 DEF Shape
<1>9. PlanCall(db', call'[c])
  BY <1>4, <1>5, <1>6, <1>8 DEF PlanCall
<1>10. PlanInv'
  BY <1>4, <1>5, <1>7, <1>8, <1>9, PlanMoves
<1>11. Cardinality(Planned(db', id)) = 0 /\ Cardinality(Ran(db', id)) = 0
  BY <1>5, <1>6, FS_EmptySet
<1>12. PlansOf(db') = Contract!Grown(PlansOf(db), id, [planned |-> 0, ran |-> 0])
  BY <1>4, <1>5, <1>11 DEF PlansOf, Contract!Grown
<1>13. id \in DOMAIN PlansOf(db') \ DOMAIN PlansOf(db)
  BY <1>4 DEF PlansOf
<1>14. Contract!Plan
  BY <1>12, <1>13, ViewsKept DEF Contract!Plan
<1> QED
  BY <1>10, <1>14 DEF Implements, Contract!Next

\* The steps of a plan are planned, before any of them ran.
LEMMA PlanStepsImplements ==
  ASSUME Shape, Frame, PlanInv, port = "execution", port' = port, NEW c \in Clients, Lite!AppendExecutionStepPlans(c)
  PROVE  Implements /\ PlanInv'
<1> DEFINE id == call[c].id
<1>1. PICK n \in 1..2 : db' = [db EXCEPT !.psteps = @ \cup ({id} \X (1..n))]
  BY DEF Lite!AppendExecutionStepPlans
<1>2. call[c].op = "plan" /\ call' = [call EXCEPT ![c] = [call[c] EXCEPT !.op = "run"]]
  BY DEF Lite!AppendExecutionStepPlans
<1>3. /\ \A e \in Clients \ {c} : call'[e] = call[e]
      /\ call'[c].op = "run" /\ call'[c].id = id
  <2>1. "op" \in DOMAIN call[c]
    BY DEF Shape
  <2> QED
    BY <1>2, <2>1 DEF Shape
<1>4. id \in DOMAIN db.plans /\ Planned(db, id) = {} /\ Ran(db, id) = {}
  BY <1>2 DEF PlanInv, PlanCall
<1>5. \A e \in Clients \ {c} : call[e].op = "plan" => call[e].id # id
  BY <1>2 DEF PlanInv, PlansApart
<1> HIDE DEF id
<1>6. db'.plans = db.plans /\ db'.steps = db.steps /\ db'.psteps = db.psteps \cup ({id} \X (1..n))
  BY <1>1 DEF Shape, DBFields, Tables
<1>7. /\ \A p : Ran(db', p) = Ran(db, p)
      /\ \A p : p # id => Planned(db', p) = Planned(db, p)
  BY <1>6 DEF Ran, Planned
<1>8. PlanTables(db')
  <2>1. IsFiniteSet({id} \X (1..n))
    <3> DEFINE one == {id}  these == 1..n
    <3>1. IsFiniteSet(one)
      BY FS_Singleton
    <3>2. IsFiniteSet(these)
      BY FS_Interval
    <3> HIDE DEF one, these
    <3>3. IsFiniteSet(one \X these)
      BY <3>1, <3>2, FS_Product
    <3> QED
      BY <3>3 DEF one, these
  <2>2. IsFiniteSet(db'.psteps)
    <3> DEFINE old == db.psteps  new == {id} \X (1..n)
    <3>1. IsFiniteSet(old) /\ IsFiniteSet(new)
      BY <2>1 DEF PlanInv, PlanTables
    <3> HIDE DEF old, new
    <3>2. IsFiniteSet(old \cup new)
      BY <3>1, FS_Union
    <3> QED
      BY <1>6, <3>2 DEF old, new
  <2>3. \A q \in db'.psteps : q[1] \in DOMAIN db'.plans
    BY <1>4, <1>6 DEF PlanInv, PlanTables
  <2> QED
    BY <1>6, <2>2, <2>3 DEF PlanInv, PlanTables
<1>9. PlanCall(db', call'[c])
  BY <1>3, <1>4, <1>6 DEF PlanCall
<1>10. PlanInv'
  BY <1>2, <1>3, <1>5, <1>6, <1>7, <1>8, <1>9, PlanMoves DEF id
<1> DEFINE f == PlansOf(db)  k == Cardinality(Planned(db', id))
<1>11. Cardinality(Planned(db, id)) = 0 /\ Cardinality(Ran(db, id)) = 0
  BY <1>4, FS_EmptySet
<1>12. id \in DOMAIN f /\ f[id] = [planned |-> 0, ran |-> 0]
  BY <1>4, <1>11 DEF PlansOf
<1>13. /\ DOMAIN PlansOf(db') = DOMAIN f /\ PlansOf(db')[id] = [planned |-> k, ran |-> 0]
       /\ \A p \in DOMAIN f : p # id => PlansOf(db')[p] = f[p]
  BY <1>4, <1>6, <1>7, <1>11 DEF PlansOf
<1>a. PlansOf(db') = [p \in DOMAIN PlansOf(db') |-> PlansOf(db')[p]]
  BY DEF PlansOf
<1>b. f = [p \in DOMAIN f |-> f[p]]
  BY DEF PlansOf
<1> HIDE DEF f, k
<1>14. PlansOf(db') = [f EXCEPT ![id].planned = PlansOf(db')[id].planned]
  <2>1. [f[id] EXCEPT !.planned = k] = [planned |-> k, ran |-> 0]
    BY <1>12
  <2>2. PlansOf(db')[id].planned = k
    BY <1>13
  <2>3. PlansOf(db') = [f EXCEPT ![id] = [planned |-> k, ran |-> 0]]
    BY <1>12, <1>13, <1>a, <1>b
  <2> QED
    BY <2>1, <2>2, <2>3
<1>15. Contract!PlanSteps
  BY <1>12, <1>14, ViewsKept DEF Contract!PlanSteps, f
<1> QED
  BY <1>10, <1>15 DEF Implements, Contract!Next

\* A planned step ran.
LEMMA RanStepImplements ==
  ASSUME Shape, Frame, PlanInv, port = "execution", port' = port, NEW c \in Clients, Lite!AppendExecutionStep(c)
  PROVE  Implements /\ PlanInv'
<1> DEFINE id == call[c].id  next == Cardinality(Ran(db, id)) + 1
<1>0. \A p : Lite!Planned(db, p) = Planned(db, p) /\ Lite!Ran(db, p) = Ran(db, p)
  BY DEF Lite!Planned, Planned, Lite!Ran, Ran
<1>1. PICK s \in {"ok", "failed"} :
         db' = [db EXCEPT !.steps = Append(@, [plan |-> id, idx |-> next, status |-> s, interactions |-> 0])]
  BY <1>0, CardinalityIs DEF Lite!AppendExecutionStep
<1>2. call[c].op = "run" /\ call' = call /\ next <= Cardinality(Planned(db, id))
  BY <1>0, CardinalityIs DEF Lite!AppendExecutionStep
<1>3. id \in DOMAIN db.plans /\ id \in Nat
  BY <1>2 DEF PlanInv, PlanCall, PlanTables, Numbered
<1>4. \A e \in Clients \ {c} : call[e].op = "plan" => call[e].id # id
  BY <1>2 DEF PlanInv, PlansApart
<1>5. /\ IsFiniteSet(Planned(db, id)) /\ Cardinality(Planned(db, id)) \in Nat
      /\ IsFiniteSet(Ran(db, id)) /\ Cardinality(Ran(db, id)) \in Nat
  BY PlanCounts DEF PlanInv
<1> DEFINE row == [plan |-> id, idx |-> next, status |-> s, interactions |-> 0]
<1>6. row \in StepRow /\ row.plan = id
  BY <1>3, <1>5 DEF StepRow
<1>7. db' = [db EXCEPT !.steps = Append(@, row)]
  BY <1>1
<1> HIDE DEF id, row, next
<1>8. db'.plans = db.plans /\ db'.psteps = db.psteps /\ db'.steps = Append(db.steps, row)
  BY <1>7 DEF Shape, DBFields, Tables
<1>9. db.steps \in Seq(StepRow) /\ Len(db.steps) \in Nat
  BY DEF PlanInv, PlanTables
<1>10. /\ db'.steps \in Seq(StepRow) /\ Len(db'.steps) = Len(db.steps) + 1
       /\ DOMAIN db'.steps = DOMAIN db.steps \cup {Len(db.steps) + 1}
       /\ db'.steps[Len(db.steps) + 1] = row
       /\ \A i \in DOMAIN db.steps : db'.steps[i] = db.steps[i]
       /\ DOMAIN db.steps = 1..Len(db.steps)
  BY <1>6, <1>8, <1>9
<1>11. /\ \A p : Planned(db', p) = Planned(db, p)
       /\ \A p : p # id => Ran(db', p) = Ran(db, p)
       /\ Ran(db', id) = Ran(db, id) \cup {Len(db.steps) + 1} /\ Len(db.steps) + 1 \notin Ran(db, id)
  <2>1. \A p : Planned(db', p) = Planned(db, p)
    BY <1>8 DEF Planned
  <2>2. ASSUME NEW p, p # id PROVE Ran(db', p) = Ran(db, p)
    BY <1>6, <1>10, <2>2 DEF Ran
  <2>3. Ran(db', id) = Ran(db, id) \cup {Len(db.steps) + 1}
    BY <1>6, <1>10 DEF Ran
  <2>4. Len(db.steps) + 1 \notin Ran(db, id)
    BY <1>9, <1>10 DEF Ran
  <2> QED
    BY <2>1, <2>2, <2>3, <2>4
<1>12. Cardinality(Ran(db', id)) = next
  <2> DEFINE S == Ran(db, id)  x == Len(db.steps) + 1
  <2>1. IsFiniteSet(S) /\ x \notin S /\ Ran(db', id) = S \cup {x}
    BY <1>5, <1>11
  <2> HIDE DEF S, x
  <2>2. Cardinality(S \cup {x}) = Cardinality(S) + 1
    BY <2>1, FS_AddElement
  <2> QED
    BY <2>1, <2>2 DEF next, S
<1>13. PlanTables(db')
  <2>1. \A i \in DOMAIN db'.steps : db'.steps[i].plan \in DOMAIN db'.plans
    BY <1>3, <1>6, <1>8, <1>10 DEF PlanInv, PlanTables
  <2> QED
    BY <1>8, <1>10, <2>1 DEF PlanInv, PlanTables
<1>14. PlanCall(db', call'[c])
  BY <1>2, <1>3, <1>8 DEF PlanCall, id
<1>15. PlanInv'
  <2>1. call'[c].id = call[c].id /\ call'[c].op = "run" /\ call[c].op = "run"
    BY <1>2
  <2>2. DOMAIN db.plans \subseteq DOMAIN db'.plans
    BY <1>8
  <2> QED
    BY <1>2, <1>4, <1>11, <1>13, <1>14, <2>1, <2>2, PlanMoves
<1> DEFINE f == PlansOf(db)  P == Cardinality(Planned(db, id))  R == Cardinality(Ran(db, id))
<1>16. id \in DOMAIN f /\ f[id] = [planned |-> P, ran |-> R]
  BY <1>3 DEF PlansOf
<1>17. /\ DOMAIN PlansOf(db') = DOMAIN f /\ PlansOf(db')[id] = [planned |-> P, ran |-> R + 1]
       /\ \A p \in DOMAIN f : p # id => PlansOf(db')[p] = f[p]
  BY <1>3, <1>8, <1>11, <1>12 DEF PlansOf, next
<1>a. PlansOf(db') = [p \in DOMAIN PlansOf(db') |-> PlansOf(db')[p]]
  BY DEF PlansOf
<1>b. f = [p \in DOMAIN f |-> f[p]]
  BY DEF PlansOf
<1>c. R < P
  BY <1>2, <1>5 DEF next
<1> HIDE DEF f, P, R
<1>18. PlansOf(db') = [f EXCEPT ![id].ran = @ + 1]
  <2>1. [f[id] EXCEPT !.ran = @ + 1] = [planned |-> P, ran |-> R + 1]
    BY <1>16
  <2>2. PlansOf(db') = [f EXCEPT ![id] = [planned |-> P, ran |-> R + 1]]
    BY <1>16, <1>17, <1>a, <1>b
  <2> QED
    BY <2>1, <2>2
<1>19. f[id].ran < f[id].planned
  BY <1>16, <1>c
<1>20. Contract!RanStep
  BY <1>16, <1>18, <1>19, ViewsKept DEF Contract!RanStep, f
<1> QED
  BY <1>15, <1>20 DEF Implements, Contract!Next

\* A step's interactions are counted in its row.
LEMMA InteractionImplements ==
  ASSUME Shape, Frame, PlanInv, port = "execution", port' = port, NEW c \in Clients,
         Lite!AppendExecutionStepInteraction(c)
  PROVE  Implements /\ PlanInv'
<1>1. PICK i \in DOMAIN db.steps : db' = [db EXCEPT !.steps[i].interactions = @ + 1]
  BY Zenon DEF Lite!AppendExecutionStepInteraction
<1>2. call' = call
  BY DEF Lite!AppendExecutionStepInteraction
<1> DEFINE old == db.steps[i]  row == [old EXCEPT !.interactions = @ + 1]
<1>3. db.steps \in Seq(StepRow) /\ old \in StepRow
  BY DEF PlanInv, PlanTables
<1>4. row \in StepRow /\ row.plan = old.plan
  <2> HIDE DEF old
  <2>1. old.interactions \in Nat
    BY <1>3 DEF StepRow
  <2> DEFINE n == old.interactions + 1
  <2>2. n \in Nat
    BY <2>1
  <2>3. row = [old EXCEPT !.interactions = n]
    BY Zenon
  <2> HIDE DEF n, row
  <2>4. DOMAIN old = {"plan", "idx", "status", "interactions"} /\ old = [f \in DOMAIN old |-> old[f]]
    BY <1>3 DEF StepRow
  <2>5. row.plan = old.plan /\ row.idx = old.idx /\ row.status = old.status /\ row.interactions = n
    BY <2>3, <2>4
  <2>6. row = [plan |-> old.plan, idx |-> old.idx, status |-> old.status, interactions |-> n]
    BY <2>3, <2>4, <2>5
  <2>7. old.plan \in Nat /\ old.idx \in Nat /\ old.status \in {"ok", "failed"}
    BY <1>3 DEF StepRow
  <2> QED
    BY <2>2, <2>6, <2>7 DEF StepRow
<1>5. db' = [db EXCEPT !.steps[i] = row]
  BY <1>1, Zenon
<1> HIDE DEF old, row
<1>6. db'.plans = db.plans /\ db'.psteps = db.psteps /\ db'.steps = [db.steps EXCEPT ![i] = row]
  BY <1>5 DEF Shape, DBFields, Tables
<1>7. /\ db'.steps \in Seq(StepRow) /\ DOMAIN db'.steps = DOMAIN db.steps
      /\ \A j \in DOMAIN db.steps : db'.steps[j].plan = db.steps[j].plan
  BY <1>3, <1>4, <1>6 DEF old
<1>8. \A p : Planned(db', p) = Planned(db, p) /\ Ran(db', p) = Ran(db, p)
  BY <1>6, <1>7 DEF Planned, Ran
<1>9. PlanTables(db')
  BY <1>6, <1>7 DEF PlanInv, PlanTables
<1>10. PlanCall(db', call'[c]) /\ (call'[c].op = "plan" => call[c].op = "plan")
  BY <1>2, <1>6, <1>8 DEF PlanInv, PlanCall
<1>11. PlanInv'
  BY <1>2, <1>6, <1>8, <1>9, <1>10, PlanMoves
<1>12. PlansOf(db') = PlansOf(db)
  BY <1>6, <1>8 DEF PlansOf
<1> QED
  BY <1>11, <1>12, Unseen

\* The execution port.
LEMMA ExecutionImplements ==
  ASSUME Shape, Frame, PlanInv, port = "execution", port' = port, NEW c \in Clients,
         \/ Lite!CreateExecutionPlan(c) \/ Lite!AppendExecutionStepPlans(c) \/ Lite!AppendExecutionStep(c)
         \/ Lite!AppendExecutionStepInteraction(c)
         \/ call' = [call EXCEPT ![c] = Idle] /\ db' = db
  PROVE  Implements /\ PlanInv'
<1>1. CASE call' = [call EXCEPT ![c] = Idle] /\ db' = db
  <2>1. call'[c].op = "idle" /\ \A e \in Clients \ {c} : call'[e] = call[e]
    BY <1>1 DEF Shape
  <2> QED
    BY <1>1, <2>1, PlanRests
<1> QED
  BY <1>1, CreatePlanImplements, PlanStepsImplements, RanStepImplements, InteractionImplements

-----------------------------------------------------------------------------
(* The invariant of the ports but the conversation's, over both engines *)

TableInv == TaskInv /\ AgentInv /\ PlanInv

\* Nothing but a call moves that dies.
LEMMA TablesCrash ==
  ASSUME Shape, Frame, TableInv, NEW c \in Clients, db' = db, call' = [call EXCEPT ![c] = Idle]
  PROVE  TableInv'
<1>1. port' = port
  BY DEF Frame
<1>2. TaskInv'
  BY <1>1 DEF TableInv, TaskInv
<1>3. AgentInv'
  BY <1>1, AgentCrash DEF TableInv, AgentInv
<1>4. PlanInv'
  BY <1>1, ExecutionImplements DEF TableInv, PlanInv
<1> QED
  BY <1>2, <1>3, <1>4 DEF TableInv

\* Nothing moves.
LEMMA TablesStay ==
  ASSUME TableInv, db' = db, call' = call, port' = port
  PROVE  TableInv'
<1>1. TaskInv'
  BY DEF TableInv, TaskInv
<1>2. AgentInv'
  BY DEF TableInv, AgentInv
<1>3. PlanInv'
  BY DEF TableInv, PlanInv, PlansApart
<1> QED
  BY <1>1, <1>2, <1>3 DEF TableInv

\* A step of another port leaves what a port's rows are.
LEMMA TableInvIs ==
  ASSUME port' = port, port = "task" => TaskInv', port = "agent" => AgentInv', port = "execution" => PlanInv'
  PROVE  TableInv'
BY DEF TableInv, TaskInv, AgentInv, PlanInv

\* An empty store.
LEMMA TablesStart == ASSUME Init PROVE TableInv
<1>1. /\ DOMAIN db.agents = {} /\ DOMAIN db.plans = {} /\ Ids(db, "agents")
      /\ \A c \in Clients : call[c].op = "idle"
  BY StoreStarts DEF Tables
<1>2. db.tasks = None /\ db.psteps = {} /\ db.steps = <<>>
  BY DEF Init, EmptyDB, Tables
<1>3. TaskInv
  BY <1>2 DEF TaskInv
<1>4. AgentInv
  BY <1>1 DEF AgentInv, AgentRows, AgentCall
<1>5. Numbered(db.plans)
  BY <1>1 DEF Numbered
<1>6. PlanTables(db)
  BY <1>2, <1>5, FS_EmptySet DEF PlanTables
<1>7. PlanInv
  BY <1>1, <1>6 DEF PlanInv, PlansApart, PlanCall
<1> QED
  BY <1>3, <1>4, <1>7 DEF TableInv

-----------------------------------------------------------------------------
(* The conversation port *)

\* Its callers see a turn as they did.
SeenSame(d, e, u) == Seqs(e, u) = Seqs(d, u) /\ ReplyAt(e, u) = ReplyAt(d, u)

\* Every turn has its input.
Opened(d) == \A t \in DOMAIN d.turns : 0 \in Seqs(d, t)

\* What a step of the port keeps and is.
Talks == Implements /\ Opened(db')

\* The reply a caller sees is one there is.
LEMMA FirstReply ==
  ASSUME NEW d, Good(d), NEW u, Replies(d, u) # {}
  PROVE  Min(Replies(d, u)) \in Replies(d, u)
<1> DEFINE R == Replies(d, u)
<1>1. R \in SUBSET Nat
  BY DEF Good, Ids, Replies, Rows
<1>2. PICK x : x \in R
  OBVIOUS
<1> HIDE DEF R
<1>3. Min(R) \in R
  BY <1>1, <1>2, MinIs
<1> QED
  BY <1>3 DEF R

\* Nothing of the turn moved.
LEMMA RowsSeen ==
  ASSUME NEW d, Good(d), NEW e, NEW u, Rows(e, u) = Rows(d, u), \A m \in Rows(d, u) : e.msgs[m] = d.msgs[m]
  PROVE  SeenSame(d, e, u)
<1>1. Seqs(e, u) = Seqs(d, u)
  BY DEF Seqs
<1>2. Replies(e, u) = Replies(d, u)
  BY DEF Replies
<1>3. ASSUME Replies(d, u) # {} PROVE e.msgs[Min(Replies(d, u))].seq = d.msgs[Min(Replies(d, u))].seq
  <2>1. Min(Replies(d, u)) \in Rows(d, u)
    BY <1>3, FirstReply DEF Replies
  <2> QED
    BY <2>1
<1>4. ReplyAt(e, u) = ReplyAt(d, u)
  BY <1>2, <1>3 DEF ReplyAt
<1> QED
  BY <1>1, <1>4 DEF SeenSame

\* One turn moved.
LEMMA OneTurnSeen ==
  ASSUME NEW t \in DOMAIN db.turns, DOMAIN db'.turns = DOMAIN db.turns,
         \A u \in DOMAIN db.turns \ {t} : SeenSame(db, db', u)
  PROVE  /\ SaidOf(db') = [SaidOf(db) EXCEPT ![t] = Seqs(db', t)]
         /\ ReplyOf(db') = [ReplyOf(db) EXCEPT ![t] = ReplyAt(db', t)]
         /\ t \in DOMAIN SaidOf(db) /\ SaidOf(db)[t] = Seqs(db, t) /\ ReplyOf(db)[t] = ReplyAt(db, t)
         /\ SaidOf(db')[t] = Seqs(db', t)
<1>1. \A u \in DOMAIN db.turns : u # t => Seqs(db', u) = Seqs(db, u) /\ ReplyAt(db', u) = ReplyAt(db, u)
  BY DEF SeenSame
<1>2. SaidOf(db') = [SaidOf(db) EXCEPT ![t] = Seqs(db', t)]
  BY <1>1 DEF SaidOf
<1>3. ReplyOf(db') = [ReplyOf(db) EXCEPT ![t] = ReplyAt(db', t)]
  BY <1>1 DEF ReplyOf
<1> QED
  BY <1>2, <1>3 DEF SaidOf, ReplyOf

\* Nothing a caller of the conversation sees moved.
LEMMA TalkUnseen ==
  ASSUME Frame, port = "conversation", Opened(db), DOMAIN db'.turns = DOMAIN db.turns,
         \A u \in DOMAIN db.turns : SeenSame(db, db', u)
  PROVE  Talks
<1>1. SaidOf(db') = SaidOf(db) /\ ReplyOf(db') = ReplyOf(db)
  BY DEF SaidOf, ReplyOf, SeenSame
<1>2. Implements
  BY <1>1, Unseen
<1>3. Opened(db')
  BY DEF Opened, SeenSame
<1> QED
  BY <1>2, <1>3 DEF Talks

\* The messages are as they were, and so are the turns.
LEMMA TalkRests ==
  ASSUME Frame, port = "conversation", Good(db), Opened(db), DOMAIN db'.turns = DOMAIN db.turns, db'.msgs = db.msgs
  PROVE  Talks
<1>1. \A u : Rows(db', u) = Rows(db, u) /\ \A m \in Rows(db, u) : db'.msgs[m] = db.msgs[m]
  BY DEF Rows
<1>2. \A u : SeenSame(db, db', u)
  <2> DEFINE d == db  e == db'
  <2> HIDE DEF d, e
  <2>1. Good(d) /\ \A u : Rows(e, u) = Rows(d, u) /\ \A m \in Rows(d, u) : e.msgs[m] = d.msgs[m]
    BY <1>1 DEF d, e
  <2>2. \A u : SeenSame(d, e, u)
    BY <2>1, RowsSeen
  <2> QED
    BY <2>2 DEF d, e
<1> QED
  BY <1>2, TalkUnseen

\* What is said in a turn that has no reply is more; what is said over the rows
\* of one that has is nothing new.
LEMMA SaysSeen ==
  ASSUME NEW d, Good(d), NEW e, NEW t, NEW out, Derives(d, e, t, out), Placed(d), LastOf(d, t),
         \A s \in DOMAIN out : s \in Nat /\ out[s].role # "assistant",
         \/ Replies(d, t) = {}
         \/ \A s \in DOMAIN out : At(d, t, s) # {} /\ \A m \in Replies(d, t) : d.msgs[m].seq # s
  PROVE  /\ Seqs(d, t) \subseteq Seqs(e, t) /\ ReplyAt(e, t) = ReplyAt(d, t)
         /\ Replies(d, t) # {} => Seqs(e, t) = Seqs(d, t)
<1>2. /\ LastOf(e, t) /\ Placed(e) /\ Replies(e, t) = Replies(d, t)
      /\ \A m \in Replies(d, t) : e.msgs[m] = d.msgs[m]
      /\ \A s : At(d, t, s) # {} => At(e, t, s) # {}
  BY DerivesKeeps
<1>3. ReplyAt(e, t) = ReplyAt(d, t)
  <2>1. Replies(d, t) # {} => e.msgs[Min(Replies(d, t))].seq = d.msgs[Min(Replies(d, t))].seq
    BY <1>2, FirstReply
  <2> QED
    BY <1>2, <2>1 DEF ReplyAt
<1>4. \A s : s \in Seqs(d, t) <=> At(d, t, s) # {}
  BY DEF Seqs, At
<1>5. \A s : s \in Seqs(e, t) <=> At(e, t, s) # {}
  BY DEF Seqs, At
<1>6. Seqs(d, t) \subseteq Seqs(e, t)
  BY <1>2, <1>4, <1>5
<1>7. ASSUME Replies(d, t) # {}, NEW s \in Seqs(e, t) PROVE s \in Seqs(d, t)
  <2>1. PICK i \in DOMAIN e.msgs : e.msgs[i].turn = t /\ e.msgs[i].seq = s
    BY <1>7 DEF Seqs, Rows
  <2>2. CASE i \in DOMAIN d.msgs /\ e.msgs[i] = d.msgs[i]
    BY <2>1, <2>2 DEF Seqs, Rows
  <2>3. CASE SaysAt(d, e, t, out, i)
    <3>1. s \in DOMAIN out
      BY <2>1, <2>3 DEF SaysAt
    <3> QED
      BY <1>4, <1>7, <3>1
  <2> QED
    BY <2>1, <2>2, <2>3 DEF Derives
<1> QED
  BY <1>3, <1>6, <1>7

\* A statement says something in one turn.
LEMMA SayImplements ==
  ASSUME NEW lite, Frame, port = "conversation", Good(db), Placed(db), Opened(db), NEW t \in DOMAIN db.turns,
         NEW out, Derives(db, db', t, out), DOMAIN db'.turns = DOMAIN db.turns, TurnOk(lite, db, t),
         \A s \in DOMAIN out : s \in Nat /\ out[s].role # "assistant",
         Replies(db, t) = {} \/ (lite /\ DOMAIN out \subseteq DOMAIN Agg(db, t))
  PROVE  Talks
<1> DEFINE d == db  e == db'
<1>1. /\ Seqs(d, t) \subseteq Seqs(e, t) /\ ReplyAt(e, t) = ReplyAt(d, t)
      /\ Replies(d, t) # {} => Seqs(e, t) = Seqs(d, t)
  <2>1. /\ Good(d) /\ Derives(d, e, t, out) /\ Placed(d) /\ LastOf(d, t)
        /\ \/ Replies(d, t) = {}
           \/ \A s \in DOMAIN out : At(d, t, s) # {} /\ \A m \in Replies(d, t) : d.msgs[m].seq # s
    BY DEF TurnOk, Repeatable
  <2>2. \A s \in DOMAIN out : s \in Nat /\ out[s].role # "assistant"
    OBVIOUS
  <2> HIDE DEF d, e
  <2> QED
    BY <2>1, <2>2, SaysSeen
<1>2. \A u : u # t => SeenSame(d, e, u)
  <2>1. Good(d) /\ Derives(d, e, t, out)
    OBVIOUS
  <2> HIDE DEF d, e
  <2>2. \A u : u # t => Rows(e, u) = Rows(d, u) /\ \A m \in Rows(d, u) : e.msgs[m] = d.msgs[m]
    BY <2>1, DerivesApart
  <2> QED
    BY <2>1, <2>2, RowsSeen
<1>3. /\ SaidOf(e) = [SaidOf(d) EXCEPT ![t] = Seqs(e, t)]
      /\ ReplyOf(e) = [ReplyOf(d) EXCEPT ![t] = ReplyAt(e, t)]
      /\ t \in DOMAIN SaidOf(d) /\ SaidOf(d)[t] = Seqs(d, t) /\ ReplyOf(d)[t] = ReplyAt(d, t)
      /\ SaidOf(e)[t] = Seqs(e, t)
  BY <1>2, OneTurnSeen
<1>4. Opened(db')
  BY <1>1, <1>2 DEF Opened, SeenSame
<1>5. CASE Replies(db, t) # {}
  BY <1>1, <1>2, <1>5, TalkUnseen DEF SeenSame
<1>6. CASE Replies(db, t) = {}
  <2>1. ReplyAt(d, t) = 0
    BY <1>6 DEF ReplyAt
  <2>2. ReplyOf(e) = ReplyOf(d)
    <3>1. ReplyOf(d) = [u \in DOMAIN d.turns |-> ReplyOf(d)[u]]
      BY DEF ReplyOf
    <3> HIDE DEF d, e
    <3> QED
      BY <1>1, <1>3, <3>1
  <2>3. ReplyOf(d)[t] = 0 /\ SaidOf(d)[t] \subseteq SaidOf(e)[t] /\ SaidOf(e) = [SaidOf(d) EXCEPT ![t] = SaidOf(e)[t]]
    <3> HIDE DEF d, e
    <3> QED
      BY <1>1, <1>3, <2>1
  <2>4. Contract!Say
    BY <1>3, <2>2, <2>3, ViewsKept DEF Contract!Say
  <2> QED
    BY <1>4, <2>4 DEF Talks, Implements, Contract!Next
<1> QED
  BY <1>5, <1>6

\* A reply in the free place of its turn is what its callers now see.
LEMMA ReplySeen ==
  ASSUME NEW d, Good(d), Placed(d), NEW t \in DOMAIN d.turns, NEW s, Free(d, t, s)
  PROVE  LET e == Lite!insertMessageTx(d, t, s, Lite!Says("assistant"))
         IN /\ Seqs(e, t) = Seqs(d, t) \cup {s} /\ ReplyAt(e, t) = s /\ e.turns = d.turns
            /\ \A u : u # t => SeenSame(d, e, u)
<1> DEFINE m == Lite!Says("assistant")
           row == Lite!Message(t, s, m)
           e == Lite!insertMessageTx(d, t, s, m)
<1>1. s \in Nat /\ Replies(d, t) = {} /\ \A i \in Rows(d, t) : d.msgs[i].seq < s /\ d.msgs[i].seq \in Nat
  BY DEF Free, Placed, Rows
<1>2. At(d, t, s) = {}
  BY <1>1 DEF At
<1>3. row.turn = t /\ row.seq = s /\ row.role = "assistant"
  BY DEF Lite!Message, Lite!Says
<1>4. Derives(d, e, t, One(s, m)) /\ e.turns = d.turns
  <2> HIDE DEF m
  <2> QED
    BY DerivedSays
<1>5. e = Lite!Insert(d, "msgs", row)
  BY <1>2, SameRows DEF Lite!insertMessageTx
<1> HIDE DEF m
<1>6. Good(e)
  BY MessageAdded
<1> HIDE DEF row, e
<1>7. \A u : u # t => Rows(e, u) = Rows(d, u) /\ \A i \in Rows(d, u) : e.msgs[i] = d.msgs[i]
  BY <1>4, DerivesApart
<1>8. \A u : u # t => SeenSame(d, e, u)
  BY <1>7, RowsSeen
<1>9. PICK k : k \notin DOMAIN d.msgs /\ e.msgs = Put(d.msgs, k, row)
  BY <1>5, InsertIs
<1>10. /\ DOMAIN e.msgs = DOMAIN d.msgs \cup {k} /\ e.msgs[k] = row
       /\ \A i \in DOMAIN d.msgs : e.msgs[i] = d.msgs[i]
  BY <1>9 DEF Put
<1>11. Rows(e, t) = Rows(d, t) \cup {k}
  BY <1>3, <1>10 DEF Rows
<1>12. Replies(e, t) = {k}
  BY <1>1, <1>3, <1>9, <1>10, <1>11 DEF Replies, Rows
<1>13. Seqs(e, t) = Seqs(d, t) \cup {s}
  BY <1>3, <1>10, <1>11 DEF Seqs, Rows
<1>14. ReplyAt(e, t) = s
  <2>1. Replies(e, t) # {}
    BY <1>12
  <2>2. Min(Replies(e, t)) \in Replies(e, t)
    BY <1>6, <2>1, FirstReply
  <2>3. Min(Replies(e, t)) = k
    BY <1>12, <2>2
  <2> QED
    BY <1>3, <1>10, <2>1, <2>3 DEF ReplyAt
<1> QED
  BY <1>4, <1>8, <1>13, <1>14 DEF e, m

\* The free place of a turn comes right after what is said in it.
LEMMA FreeIsNext ==
  ASSUME NEW d, Good(d), Placed(d), NEW t, 0 \in Seqs(d, t), NEW s, Free(d, t, s)
  PROVE  s = Contract!Max(Seqs(d, t)) + 1
<1> DEFINE S == Seqs(d, t)
<1>1. {0} \cup {d.msgs[m].seq : m \in Rows(d, t)} = S
  BY DEF Seqs
<1>2. HighestSeq(d, t) = Max(S)
  BY <1>1 DEF HighestSeq
<1>3. Contract!Max(S) = Max(S)
  BY DEF Contract!Max, Max
<1> QED
  BY <1>2, <1>3 DEF Free

\* The reply is given.
LEMMA ReplyImplements ==
  ASSUME Frame, port = "conversation", Good(db), Placed(db), Opened(db), NEW t \in DOMAIN db.turns, NEW s,
         Free(db, t, s), db' = Lite!insertMessageTx(db, t, s, Lite!Says("assistant"))
  PROVE  Talks
<1>1. /\ Seqs(db', t) = Seqs(db, t) \cup {s} /\ ReplyAt(db', t) = s /\ db'.turns = db.turns
      /\ \A u : u # t => SeenSame(db, db', u)
  <2> DEFINE d == db  e == Lite!insertMessageTx(d, t, s, Lite!Says("assistant"))
  <2>1. db' = e /\ d = db
    OBVIOUS
  <2> HIDE DEF d
  <2>2. /\ Seqs(e, t) = Seqs(d, t) \cup {s} /\ ReplyAt(e, t) = s /\ e.turns = d.turns
        /\ \A u : u # t => SeenSame(d, e, u)
    BY <2>1, ReplySeen
  <2> HIDE DEF e
  <2> QED
    BY <2>1, <2>2
<1>2. /\ SaidOf(db') = [SaidOf(db) EXCEPT ![t] = Seqs(db', t)]
      /\ ReplyOf(db') = [ReplyOf(db) EXCEPT ![t] = ReplyAt(db', t)]
      /\ t \in DOMAIN SaidOf(db) /\ SaidOf(db)[t] = Seqs(db, t) /\ ReplyOf(db)[t] = ReplyAt(db, t)
  BY <1>1, OneTurnSeen
<1>3. ReplyAt(db, t) = 0
  BY DEF Free, ReplyAt
<1>4. s = Contract!Max(SaidOf(db)[t]) + 1
  BY <1>2, FreeIsNext DEF Opened
<1>5. Opened(db')
  BY <1>1 DEF Opened, SeenSame
<1> DEFINE f == SaidOf(db)
<1>6. SaidOf(db') = [f EXCEPT ![t] = @ \cup {s}]
  BY <1>1, <1>2
<1>7. Contract!Reply
  <2>1. LET n == Contract!Max(SaidOf(db)[t]) + 1
        IN /\ ReplyOf(db)[t] = 0 /\ ReplyOf(db') = [ReplyOf(db) EXCEPT ![t] = n]
           /\ SaidOf(db') = [SaidOf(db) EXCEPT ![t] = @ \cup {n}]
    BY <1>1, <1>2, <1>3, <1>4, <1>6
  <2> QED
    BY <1>2, <2>1, ViewsKept DEF Contract!Reply
<1> QED
  BY <1>5, <1>7 DEF Talks, Implements, Contract!Next

\* A turn is added.
LEMMA TurnImplements ==
  ASSUME Frame, port = "conversation", Opened(db), NEW t, t \notin DOMAIN db.turns, t \in DOMAIN db'.turns,
         DOMAIN db.turns \subseteq DOMAIN db'.turns,
         \A u \in DOMAIN db'.turns \ {t} : u \in DOMAIN db.turns /\ SeenSame(db, db', u),
         NEW whole \in BOOLEAN,
         Seqs(db', t) = IF whole THEN {0, 1} ELSE {0}, ReplyAt(db', t) = IF whole THEN 1 ELSE 0
  PROVE  Talks
<1>1. DOMAIN db'.turns = DOMAIN db.turns \cup {t}
  OBVIOUS
<1>2. SaidOf(db') = Contract!Grown(SaidOf(db), t, IF whole THEN {0, 1} ELSE {0})
  BY <1>1 DEF SaidOf, Contract!Grown, SeenSame
<1>3. ReplyOf(db') = Contract!Grown(ReplyOf(db), t, IF whole THEN 1 ELSE 0)
  BY <1>1 DEF ReplyOf, Contract!Grown, SeenSame
<1>4. t \in DOMAIN SaidOf(db') \ DOMAIN SaidOf(db)
  BY DEF SaidOf
<1>5. Contract!BeginTurn
  BY <1>2, <1>3, <1>4, ViewsKept DEF Contract!BeginTurn
<1>6. 0 \in Seqs(db', t)
  OBVIOUS
<1>7. Opened(db')
  BY <1>6 DEF Opened, SeenSame
<1> QED
  BY <1>5, <1>7 DEF Talks, Implements, Contract!Next

\* A turn that begins has its input and nothing else.
LEMMA TurnSeen ==
  ASSUME NEW lite, NEW d, Good(d), Placed(d), Heard(lite, d), NEW c, NEW status
  PROVE  LET one == Lite!insertReasonTurnTx(d, c, status)
             t == Lite!Highest(one.turns)
             two == Lite!insertMessageTx(one, t, 0, Lite!Says("user"))
         IN /\ t \notin DOMAIN d.turns /\ t \in DOMAIN two.turns /\ DOMAIN d.turns \subseteq DOMAIN two.turns
            /\ Good(two) /\ Placed(two) /\ Free(two, t, 1) /\ Seqs(two, t) = {0} /\ ReplyAt(two, t) = 0
            /\ \A u \in DOMAIN two.turns \ {t} : u \in DOMAIN d.turns /\ SeenSame(d, two, u)
<1> DEFINE one == Lite!insertReasonTurnTx(d, c, status)
           t == Lite!Highest(one.turns)
           m == Lite!Says("user")
           two == Lite!insertMessageTx(one, t, 0, m)
           out == One(0, m)
<1>1. /\ t \notin DOMAIN d.turns /\ t \in DOMAIN two.turns
      /\ Good(one) /\ Good(two) /\ Grown(d, two)
      /\ Placed(two) /\ Free(two, t, 1)
      /\ \A u \in DOMAIN two.turns \ {t} : u \in DOMAIN d.turns /\ Apart(lite, d, two, u)
  BY TurnOpens
<1>2. Rows(one, t) = {}
  BY NewTurnIs
<1> HIDE DEF one, t, m
<1>3. Derives(one, two, t, out) /\ Covers(two, t, out)
  BY <1>1, DerivedSays
<1>4. DOMAIN out = {0}
  BY DEF One
<1> HIDE DEF two, out
<1>5. \A i \in Rows(two, t) : two.msgs[i].seq = 0
  BY <1>2, <1>3, <1>4 DEF Derives, SaysAt, Rows
<1>6. At(two, t, 0) # {}
  BY <1>3, <1>4 DEF Covers
<1>7. Seqs(two, t) = {0}
  BY <1>5, <1>6 DEF Seqs, At
<1>8. ReplyAt(two, t) = 0
  BY <1>1 DEF Free, ReplyAt
<1>9. DOMAIN d.turns \subseteq DOMAIN two.turns
  BY <1>1 DEF Grown
<1>10. ASSUME NEW u \in DOMAIN two.turns \ {t} PROVE u \in DOMAIN d.turns /\ SeenSame(d, two, u)
  <2>1. Apart(lite, d, two, u)
    BY <1>1
  <2> QED
    BY <1>1, <2>1, RowsSeen DEF Apart
<1> QED
  BY <1>1, <1>7, <1>8, <1>9, <1>10 DEF one, t, m, two

\* A turn begins.
LEMMA BeginImplements ==
  ASSUME NEW lite, Frame, port = "conversation", Good(db), Placed(db), Heard(lite, db), Opened(db),
         NEW c, Lite!BeginReasonTurn(c)
  PROVE  Talks
<1> DEFINE d == db
           one == Lite!insertReasonTurnTx(d, c, "running")
           t == Lite!Highest(one.turns)
           two == Lite!insertMessageTx(one, t, 0, Lite!Says("user"))
<1>1. db' = two
  BY DEF Lite!BeginReasonTurn
<1>2. Good(d) /\ Placed(d) /\ Heard(lite, d)
  OBVIOUS
<1> HIDE DEF d
<1>3. /\ t \notin DOMAIN d.turns /\ t \in DOMAIN two.turns /\ DOMAIN d.turns \subseteq DOMAIN two.turns
      /\ Good(two) /\ Placed(two) /\ Free(two, t, 1) /\ Seqs(two, t) = {0} /\ ReplyAt(two, t) = 0
      /\ \A u \in DOMAIN two.turns \ {t} : u \in DOMAIN d.turns /\ SeenSame(d, two, u)
  BY <1>2, TurnSeen
<1> HIDE DEF two, t
<1> DEFINE whole == FALSE
<1>4. Seqs(db', t) = (IF whole THEN {0, 1} ELSE {0}) /\ ReplyAt(db', t) = (IF whole THEN 1 ELSE 0) /\ whole \in BOOLEAN
  BY <1>1, <1>3
<1> HIDE DEF whole
<1>5. /\ t \notin DOMAIN db.turns /\ t \in DOMAIN db'.turns /\ DOMAIN db.turns \subseteq DOMAIN db'.turns
      /\ \A u \in DOMAIN db'.turns \ {t} : u \in DOMAIN db.turns /\ SeenSame(db, db', u)
  BY <1>1, <1>3 DEF d
<1> QED
  BY <1>4, <1>5, TurnImplements

\* A turn is recorded whole.
LEMMA InsertImplements ==
  ASSUME NEW lite, Frame, port = "conversation", Good(db), Placed(db), Heard(lite, db), Opened(db),
         NEW c, db' = Lite!InsertReasonTurn(db, c)
  PROVE  Talks
<1> DEFINE d == db
           one == Lite!insertReasonTurnTx(d, c, "finished")
           t == Lite!Highest(one.turns)
           two == Lite!insertMessageTx(one, t, 0, Lite!Says("user"))
           three == Lite!insertMessageTx(two, t, 1, Lite!Says("assistant"))
<1>1. db' = three
  BY DEF Lite!InsertReasonTurn
<1>2. Good(d) /\ Placed(d) /\ Heard(lite, d)
  OBVIOUS
<1> HIDE DEF d
<1>3. /\ t \notin DOMAIN d.turns /\ t \in DOMAIN two.turns /\ DOMAIN d.turns \subseteq DOMAIN two.turns
      /\ Good(two) /\ Placed(two) /\ Free(two, t, 1) /\ Seqs(two, t) = {0} /\ ReplyAt(two, t) = 0
      /\ \A u \in DOMAIN two.turns \ {t} : u \in DOMAIN d.turns /\ SeenSame(d, two, u)
  BY <1>2, TurnSeen
<1> HIDE DEF two, t
<1>4. /\ Seqs(three, t) = Seqs(two, t) \cup {1} /\ ReplyAt(three, t) = 1 /\ three.turns = two.turns
      /\ \A u : u # t => SeenSame(two, three, u)
  BY <1>3, ReplySeen
<1> HIDE DEF three
<1> DEFINE whole == TRUE
<1>5. Seqs(db', t) = (IF whole THEN {0, 1} ELSE {0}) /\ ReplyAt(db', t) = (IF whole THEN 1 ELSE 0) /\ whole \in BOOLEAN
  BY <1>1, <1>3, <1>4
<1> HIDE DEF whole
<1>6. /\ t \notin DOMAIN db.turns /\ t \in DOMAIN db'.turns /\ DOMAIN db.turns \subseteq DOMAIN db'.turns
      /\ \A u \in DOMAIN db'.turns \ {t} : u \in DOMAIN db.turns /\ SeenSame(db, db', u)
  BY <1>1, <1>3, <1>4 DEF d, SeenSame
<1> QED
  BY <1>5, <1>6, TurnImplements

-----------------------------------------------------------------------------
(* The statements of a turn, on both engines *)

\* A turn gets its status or its run id.
LEMMA MarkImplements ==
  ASSUME Frame, port = "conversation", Good(db), Opened(db), NEW t \in DOMAIN db.turns, NEW f, f \in {"status", "run"},
         NEW x, db' = [db EXCEPT !.turns[t][f] = x]
  PROVE  Talks
<1>1. DOMAIN db'.turns = DOMAIN db.turns
  BY TurnMarked
<1>2. db'.msgs = db.msgs
  BY DEF Good, DBFields, Tables
<1> QED
  BY <1>1, <1>2, TalkRests

\* One message of the derivation is written.
LEMMA AggregatedImplements ==
  ASSUME NEW lite, Shape, Frame, port = "conversation", Good(db), Held, Spoken(lite), Opened(db),
         NEW c \in Clients, Lite!recordAggregatedMessages(c)
  PROVE  Talks
<1> DEFINE t == call[c].turn
           todo == call[c].todo
           s == Lite!Min(DOMAIN todo)
           m == todo[s]
           out == One(s, m)
<1>1. db' = Lite!insertDerivedMessage(db, t, s, m) /\ call[c].op = "derive" /\ DOMAIN todo # {}
  BY DEF Lite!recordAggregatedMessages
<1>2. t \in DOMAIN db.turns /\ TurnOk(lite, db, t) /\ Placed(db)
  BY <1>1 DEF Held, Spoken
<1>3. Said(todo) /\ (~lite => Replies(db, t) = {}) /\ (lite => DOMAIN todo \subseteq DOMAIN Agg(db, t))
  BY <1>1 DEF Spoken, Stage
<1>4. s \in DOMAIN todo
  <2>1. PICK x : x \in DOMAIN todo
    BY <1>1
  <2>2. DOMAIN todo \in SUBSET Nat
    BY <1>3 DEF Said
  <2> HIDE DEF todo
  <2> QED
    BY <2>1, <2>2, MinIs
<1>5. s \in Nat /\ m.role # "assistant"
  BY <1>3, <1>4 DEF Said, Kinds
<1> HIDE DEF m
<1>6. Derives(db, db', t, out) /\ db'.turns = db.turns
  BY <1>1, DerivedSays
<1>7. DOMAIN out = {s} /\ out[s] = m
  BY DEF One
<1>8. \A x \in DOMAIN out : x \in Nat /\ out[x].role # "assistant"
  BY <1>5, <1>7
<1> HIDE DEF s, todo, t, out
<1>9. Replies(db, t) = {} \/ (lite /\ DOMAIN out \subseteq DOMAIN Agg(db, t))
  BY <1>3, <1>4, <1>7
<1> QED
  BY <1>2, <1>6, <1>8, <1>9, SayImplements

\* The reply is written, unless there is one.
LEMMA RecordImplements ==
  ASSUME NEW lite, Shape, Frame, port = "conversation", Good(db), Held, Spoken(lite), Opened(db),
         NEW c \in Clients, Lite!recordAssistantMessage(c)
  PROVE  Talks
<1> DEFINE t == call[c].turn
           s == call[c].seq
<1>1. /\ db' = IF s = 0 THEN db ELSE Lite!insertMessageTx(db, t, s, Lite!Says("assistant"))
      /\ call[c].op = "reply"
  BY DEF Lite!recordAssistantMessage
<1>2. t \in DOMAIN db.turns /\ Placed(db)
  BY <1>1 DEF Held, Spoken
<1>3. s = 0 \/ Free(db, t, s)
  BY <1>1 DEF Spoken, Stage
<1> HIDE DEF t, s
<1>4. CASE s = 0
  BY <1>1, <1>4, TalkRests
<1>5. CASE s # 0
  BY <1>1, <1>2, <1>3, <1>5, ReplyImplements
<1> QED
  BY <1>4, <1>5

\* The run id closes the turn.
LEMMA RunIdImplements ==
  ASSUME Shape, Frame, port = "conversation", Good(db), Held, Opened(db), NEW c \in Clients, Lite!FinishRunId(c)
  PROVE  Talks
<1> DEFINE t == call[c].turn  f == "run"  x == TRUE
<1>1. db' = [db EXCEPT !.turns[t][f] = x] /\ t \in DOMAIN db.turns /\ f \in {"status", "run"}
  BY DEF Lite!FinishRunId, Held
<1> HIDE DEF t, f, x
<1> QED
  BY <1>1, MarkImplements

\* Nothing is written to the conversation.
LEMMA TalkIdle ==
  ASSUME Frame, port = "conversation", Good(db), Opened(db), db' = db
  PROVE  Talks
BY TalkRests

\* A run that streams says more.
LEMMA MessageImplements ==
  ASSUME NEW lite, Shape, Frame, port = "conversation", Good(db), Held, Spoken(lite), Opened(db),
         NEW c \in Clients, Lite!AppendLLMMessages(c)
  PROVE  Talks
<1> DEFINE t == call[c].turn
           m == Lite!Says("tool")
<1>1. call[c].op = "turn"
  BY DEF Lite!AppendLLMMessages
<1>2. t \in DOMAIN db.turns /\ Replies(db, t) = {} /\ TurnOk(lite, db, t) /\ Placed(db)
  BY <1>1 DEF Held, Spoken, Stage
<1>3. PICK s \in 1..MaxStream : db' = Lite!insertDerivedMessage(db, t, s, m)
  BY DEF Lite!AppendLLMMessages
<1> DEFINE out == One(s, m)
<1>4. DOMAIN out = {s} /\ out[s].role # "assistant"
  BY DEF One, Lite!Says
<1> HIDE DEF t, m
<1>5. Derives(db, db', t, out) /\ db'.turns = db.turns
  BY <1>3, DerivedSays
<1> HIDE DEF out
<1>6. \A x \in DOMAIN out : x \in Nat /\ out[x].role # "assistant"
  BY <1>4
<1> QED
  BY <1>2, <1>5, <1>6, SayImplements

\* A run is finished, once by its caller or again by a later one.
LEMMA HeaderImplements ==
  ASSUME Shape, Frame, port = "conversation", Good(db), Held, Opened(db), NEW c \in Clients, Lite!FinishReasonTurn(c)
  PROVE  Talks
<1>1. call'[c].turn \in DOMAIN db.turns
  <2>1. CASE call[c].op = "turn" /\ call' = [call EXCEPT ![c].op = "finish"]
    BY <2>1 DEF Shape, Held
  <2>2. ASSUME NEW t \in DOMAIN db.turns, call' = [call EXCEPT ![c] = [op |-> "finish", turn |-> t]]
        PROVE  call'[c].turn \in DOMAIN db.turns
    BY <2>2 DEF Shape
  <2> QED
    BY <2>1, <2>2 DEF Lite!FinishReasonTurn
<1> DEFINE t == call'[c].turn  f == "status"  x == "finished"
<1>2. db' = [db EXCEPT !.turns[t][f] = x] /\ t \in DOMAIN db.turns /\ f \in {"status", "run"}
  BY <1>1 DEF Lite!FinishReasonTurn
<1> HIDE DEF t, f, x
<1> QED
  BY <1>2, MarkImplements

\* Every statement of the conversation, on the sqlite engine.
LEMMA SqliteTalkImplements ==
  ASSUME NEW lite, Shape, Frame, port = "conversation", Good(db), Held, Spoken(lite), Opened(db),
         NEW c \in Clients, Lite!ConversationStep(c)
  PROVE  Talks
<1>0. Placed(db) /\ Heard(lite, db)
  BY DEF Spoken
<1>1. CASE Lite!Does(c, "conversation", Lite!InsertReasonTurn(db, c))
  BY <1>0, <1>1, InsertImplements
<1>2. CASE Lite!BeginReasonTurn(c)
  BY <1>0, <1>2, BeginImplements
<1>3. CASE Lite!AppendLLMEvents(c)
  <2>1. db'.msgs = db.msgs /\ db'.turns = db.turns
    BY <1>3 DEF Lite!AppendLLMEvents, Good, DBFields, Tables
  <2> QED
    BY <2>1, TalkRests
<1>4. CASE Lite!FinishDerive(c) \/ Lite!FinishSeq(c) \/ Lite!Poll(c)
  <2>1. db' = db
    BY <1>4 DEF Lite!FinishDerive, Lite!FinishSeq, Lite!Poll
  <2> QED
    BY <2>1, TalkIdle
<1> QED
  BY <1>1, <1>2, <1>3, <1>4, MessageImplements, HeaderImplements, AggregatedImplements, RecordImplements,
     RunIdImplements DEF Lite!ConversationStep

\* What an event of a stream writes is more of its turn.
LEMMA StreamImplements ==
  ASSUME NEW lite, lite = FALSE, Frame, port = "conversation", Good(db), Placed(db), Heard(lite, db), Opened(db),
         NEW c \in Clients, NEW t, Buffer(t), t.turn \in DOMAIN db.turns, TurnOk(lite, db, t.turn),
         Replies(db, t.turn) = {}, NEW agg, Said(agg.out), NEW full, Step(c, t, agg, full)
  PROVE  Talks
<1>1. PICK kept, told \in BOOLEAN :
        db' = emitMessages(IF full THEN flush(db, t, kept) ELSE db, t, agg.out, told)
  BY DEF Step
<1> DEFINE turn == t.turn
           d == IF full THEN flush(db, t, kept) ELSE db
           out == agg.out
           e == AppendLLMMessages(d, turn, out)
<1>2. db' = d \/ db' = e
  BY <1>1 DEF emitMessages
<1>3. Good(d) /\ d.turns = db.turns /\ d.msgs = db.msgs
  <2>1. DOMAIN db = DBFields /\ IsFiniteSet(DOMAIN db.events)
    BY DEF Good, Heard
  <2>2. CASE full
    <3>1. d = flush(db, t, kept)
      BY <2>2
    <3> HIDE DEF d
    <3> QED
      BY <2>1, <3>1, FlushHeard, EventsAdded
  <2>3. CASE ~full
    BY <2>1, <2>3
  <2> QED
    BY <2>2, <2>3
<1>4. \A s \in DOMAIN out : s \in Nat /\ out[s].role # "assistant"
  BY DEF Said, Kinds
<1> HIDE DEF turn, d, out
<1>5. Derives(d, e, turn, out) /\ e.turns = d.turns
  BY <1>3, BatchSays
<1> HIDE DEF e
<1>6. CASE db' = d
  BY <1>3, <1>6, TalkRests
<1>7. CASE db' = e
  <2>1. Derives(db, db', turn, out) /\ db'.turns = db.turns
    BY <1>3, <1>5, <1>7 DEF Derives, SaysAt, At, Rows
  <2>2. turn \in DOMAIN db.turns /\ TurnOk(lite, db, turn) /\ Replies(db, turn) = {}
    BY DEF turn
  <2> QED
    BY <1>4, <2>1, <2>2, SayImplements
<1> QED
  BY <1>2, <1>6, <1>7

\* An event is streamed in the turn of its client.
LEMMA EmitImplements ==
  ASSUME NEW lite, lite = FALSE, Shape, Frame, port = "conversation", Good(db), Held, Traced, Buffered, Spoken(lite),
         Opened(db), NEW c \in Clients, NEW e, EmitEvent(c, e)
  PROVE  Talks
<1> DEFINE t == [trace[c] EXCEPT !.said = Append(@, e), !.buf = IF trace[c].events THEN Append(@, e) ELSE @]
           full == Len(t.buf) >= llmEventFlushSize
           agg == Add(trace[c].aggregator, e)
           u == call[c].turn
<1>1. Kept(trace[c]) /\ Buffer(trace[c])
  BY DEF Traced, Buffered
<1>2. t.turn = trace[c].turn /\ t.aggregator = trace[c].aggregator /\ "buf" \in DOMAIN t
      /\ t.buf = IF trace[c].events THEN Append(trace[c].buf, e) ELSE trace[c].buf
  BY <1>1 DEF Kept, Buffer
<1>3. call[c].op = "turn" /\ Step(c, t, agg, full)
  BY <1>2 DEF EmitEvent
<1>4. Said(agg.out)
  BY <1>1, AddIs DEF Kept
<1>5. /\ t.turn = u /\ u \in DOMAIN db.turns /\ Replies(db, u) = {} /\ TurnOk(lite, db, u)
      /\ Placed(db) /\ Heard(lite, db)
  BY <1>2, <1>3 DEF Traced, Held, Spoken, Stage
<1>6. Buffer(t)
  <2>1. PICK S : trace[c].buf \in Seq(S)
    BY <1>1 DEF Buffer
  <2>2. Append(trace[c].buf, e) \in Seq(S \cup {e}) /\ trace[c].buf \in Seq(S \cup {e})
    BY <2>1
  <2> HIDE DEF t
  <2> QED
    BY <1>2, <2>2 DEF Buffer
<1> HIDE DEF t, full, agg, u
<1> QED
  BY <1>3, <1>4, <1>5, <1>6, StreamImplements

\* The rest of a stream is flushed and written.
LEMMA FinishImplements ==
  ASSUME NEW lite, lite = FALSE, Shape, Frame, port = "conversation", Good(db), Held, Traced, Buffered, Spoken(lite),
         Opened(db), NEW c \in Clients, Finish(c)
  PROVE  Talks
<1> DEFINE t == trace[c]
           full == TRUE
           agg == Flush(t.aggregator)
           u == call[c].turn
<1>1. Kept(t) /\ Buffer(t)
  BY DEF Traced, Buffered
<1>2. call[c].op = "turn" /\ Step(c, t, agg, full)
  BY DEF Finish
<1>3. Said(agg.out)
  BY <1>1, FlushIs DEF Kept
<1>4. /\ t.turn = u /\ u \in DOMAIN db.turns /\ Replies(db, u) = {} /\ TurnOk(lite, db, u)
      /\ Placed(db) /\ Heard(lite, db)
  BY <1>2 DEF Traced, Held, Spoken, Stage
<1> HIDE DEF t, full, agg, u
<1> QED
  BY <1>1, <1>2, <1>3, <1>4, StreamImplements

\* Every statement of the conversation, on the postgres engine.
LEMMA PostgresTalkImplements ==
  ASSUME NEW lite, lite = FALSE, Shape, Frame, port = "conversation", Good(db), Held, Traced, Buffered, Spoken(lite),
         Opened(db), NEW c \in Clients, ConversationStep(c)
  PROVE  Talks
<1>0. Placed(db) /\ Heard(lite, db)
  BY DEF Spoken
<1>1. CASE BeginLLMTraceFrom(c)
  BY <1>0, <1>1, BeginImplements DEF BeginLLMTraceFrom, BeginReasonTurn
<1>2. ASSUME NEW e, EmitEvent(c, e) PROVE Talks
  BY <1>2, EmitImplements
<1>3. CASE Finish(c)
  BY <1>3, FinishImplements
<1>4. CASE FinishStored(c) \/ FinishFails(c) \/ FinishSeq(c)
  <2>1. db' = db
    BY <1>4 DEF FinishStored, FinishDerive, FinishFails, FinishSeq
  <2> QED
    BY <2>1, TalkIdle
<1>5. CASE Origin(c)
  BY <1>5, RunIdImplements DEF Origin, FinishRunId
<1>6. CASE FinishReasonTurn(c)
  <2> DEFINE t == call[c].turn  f == "status"  x == "finished"
  <2>1. db' = [db EXCEPT !.turns[t][f] = x] /\ t \in DOMAIN db.turns /\ f \in {"status", "run"}
    BY <1>6 DEF FinishReasonTurn, Held
  <2> HIDE DEF t, f, x
  <2> QED
    BY <2>1, MarkImplements
<1>7. CASE recordAggregatedMessages(c)
  BY <1>7, AggregatedImplements DEF recordAggregatedMessages
<1>8. CASE recordAssistantMessage(c)
  BY <1>8, RecordImplements DEF recordAssistantMessage
<1>9. CASE Does(c, "conversation", InsertReasonTurn(db, c))
  BY <1>0, <1>9, InsertImplements DEF InsertReasonTurn
<1> QED
  BY <1>1, <1>2, <1>3, <1>4, <1>5, <1>6, <1>7, <1>8, <1>9 DEF ConversationStep

-----------------------------------------------------------------------------
(* Each engine implements the contract *)

ContractInv == TableInv /\ (port = "conversation" => Opened(db))

\* What a step leaves true that is another port's.
LEMMA ContractInvIs ==
  ASSUME port' = port, port = "task" => TaskInv', port = "agent" => AgentInv', port = "execution" => PlanInv',
         port = "conversation" => Opened(db')
  PROVE  ContractInv'
BY TableInvIs DEF ContractInv

\* A step that writes nothing and kills at most a call.
LEMMA ContractRests ==
  ASSUME Shape, Frame, ContractInv, db' = db,
         call' = call \/ \E c \in Clients : call' = [call EXCEPT ![c] = Idle]
  PROVE  Implements /\ ContractInv'
<1>1. port' = port
  BY DEF Frame
<1>2. Implements
  BY NothingWritten
<1>3. TableInv'
  BY <1>1, TablesStay, TablesCrash DEF ContractInv
<1> QED
  BY <1>1, <1>2, <1>3 DEF ContractInv

\* Accounts are no part of the contract.
LEMMA AccountImplements ==
  ASSUME Frame, port = "account" PROVE Implements /\ ContractInv'
<1>1. port' = port
  BY DEF Frame
<1> QED
  BY <1>1, Unseen, ContractInvIs

\* Opening a database on the sqlite engine, in the middle of what others insert.
LEMMA SqliteOpenImplements ==
  ASSUME SqliteBase, Frame, port = "inbox", NEW c \in Clients, Lite!Open(c)
  PROVE  Implements
<1>1. db' = db \/ \E n : db' = [db EXCEPT !.seq[Lite!Table] = n]
  BY DEF Lite!Open, Lite!OpenRead, Lite!OpenDelete, Lite!OpenInsert
<1> QED
  BY <1>1, OpenImplements DEF SqliteBase, Inboxes

\* A step of a port on the sqlite engine is a step of the contract.
LEMMA SqlitePortImplements ==
  ASSUME NEW lite, SqlitePollInv, InboxInv, Speech(lite), ContractInv, Frame, NEW c \in Clients, SqlitePortStep(c)
  PROVE  Implements /\ ContractInv'
<1>0. port' = port /\ SqliteBase /\ Shape /\ TaskInv /\ AgentInv /\ PlanInv
  BY DEF Frame, SqlitePollInv, SqliteBase, ContractInv, TableInv
<1>1. CASE port = "task"
  <2>1. PICK w \in TaskRow : db' = Lite!UpsertTask(db, w)
    BY <1>1 DEF SqlitePortStep, Inboxes, Lite!TaskStep, Lite!TaskRow, TaskRow
  <2>2. Implements /\ "t" \in DOMAIN db'.tasks
    BY <1>0, <1>1, <2>1, TaskImplements
  <2> QED
    BY <1>0, <1>1, <2>2, ContractInvIs DEF TaskInv
<1>2. CASE port = "agent"
  <2>1. Lite!Open(c) \/ Lite!AgentStep(c)
    BY <1>2 DEF SqlitePortStep
  <2> QED
    BY <1>0, <1>2, <2>1, SqliteAgentImplements, ContractInvIs
<1>3. CASE port = "inbox"
  <2>1. Lite!Open(c) \/ Lite!InboxStep(c)
    BY <1>3 DEF SqlitePortStep
  <2>2. Implements
    BY <1>0, <1>3, <2>1, SqliteOpenImplements, SqliteInboxImplements
  <2> QED
    BY <1>0, <1>3, <2>2, ContractInvIs
<1>4. CASE port = "conversation"
  <2>1. Lite!ConversationStep(c)
    BY <1>4 DEF SqlitePortStep, Inboxes
  <2>2. Good(db) /\ Held /\ Spoken(lite) /\ Opened(db)
    BY <1>4 DEF SqlitePollInv, TalkInv, Speech, ContractInv
  <2>3. Talks
    BY <1>0, <1>4, <2>1, <2>2, SqliteTalkImplements
  <2> QED
    BY <1>0, <1>4, <2>3, ContractInvIs DEF Talks
<1>5. CASE port = "execution"
  <2>1. Lite!ExecutionStep(c)
    BY <1>5 DEF SqlitePortStep, Inboxes
  <2>2. Implements /\ PlanInv'
    BY <1>0, <1>5, <2>1, ExecutionImplements DEF Lite!ExecutionStep
  <2> QED
    BY <1>0, <1>5, <2>2, ContractInvIs
<1>6. CASE port = "verification"
  <2>1. Lite!VerificationStep(c)
    BY <1>6 DEF SqlitePortStep, Inboxes
  <2>2. \/ \E i, t : db' = Lite!AppendCompletionContract(db, i, t)
        \/ \E i, b : db' = Lite!AppendVerification(db, i, b)
    BY <2>1 DEF Lite!VerificationStep
  <2>3. Implements
    BY <1>0, <1>6, <2>2, ContractImplements, VerdictImplements
  <2> QED
    BY <1>0, <1>6, <2>3, ContractInvIs
<1>7. CASE port = "account"
  BY <1>7, AccountImplements
<1> QED
  BY <1>1, <1>2, <1>3, <1>4, <1>5, <1>6, <1>7 DEF SqlitePortStep, Inboxes

\* Every step of the sqlite engine is a step of the contract or none.
LEMMA SqliteImplements ==
  ASSUME NEW lite, SqlitePollInv, InboxInv, Speech(lite), ContractInv, [Lite!Next]_vars
  PROVE  Implements /\ ContractInv'
<1>0. Shape /\ SqliteBase
  BY DEF SqlitePollInv, SqliteBase
<1>1. CASE vars' = vars
  <2>1. db' = db /\ call' = call /\ port' = port
    BY <1>1 DEF vars
  <2>2. Frame
    BY <2>1 DEF Frame
  <2> QED
    BY <1>0, <2>1, <2>2, ContractRests
<1>2. CASE Lite!Next
  <2>1. Moves(SqliteOps(port)) /\ (Lite!Crash \/ \E c \in Clients : SqlitePortStep(c))
    BY <1>0, <1>2, SqliteSteps DEF SqliteBase
  <2>2. Frame
    BY <2>1 DEF Moves
  <2>3. CASE Lite!Crash
    <3>1. db' = db /\ \E c \in Clients : call' = [call EXCEPT ![c] = Idle]
      BY <2>3 DEF Lite!Crash
    <3> QED
      BY <1>0, <2>2, <3>1, ContractRests
  <2>4. CASE \E c \in Clients : SqlitePortStep(c)
    BY <2>2, <2>4, SqlitePortImplements
  <2> QED
    BY <2>1, <2>3, <2>4
<1> QED
  BY <1>1, <1>2

\* A step of a port on the postgres engine is a step of the contract.
LEMMA PostgresPortImplements ==
  ASSUME NEW lite, lite = FALSE, PostgresPollInv, InboxInv, Inserting, PostgresSpeech(lite), ContractInv, Frame,
         NEW c \in Clients, PostgresPortStep(c)
  PROVE  Implements /\ ContractInv'
<1>0. port' = port /\ PostgresBase /\ Shape /\ TaskInv /\ AgentInv /\ PlanInv
  BY DEF Frame, PostgresPollInv, PostgresBase, ContractInv, TableInv
<1>1. CASE port = "task"
  <2>1. PICK w \in TaskRow : db' = Lite!UpsertTask(db, w)
    BY <1>1 DEF PostgresPortStep, Inboxes, UpsertTask
  <2>2. Implements /\ "t" \in DOMAIN db'.tasks
    BY <1>0, <1>1, <2>1, TaskImplements
  <2> QED
    BY <1>0, <1>1, <2>2, ContractInvIs DEF TaskInv
<1>2. CASE port = "agent"
  <2>1. ensureIDSequences(c) \/ PostgresAgentStep(c)
    BY <1>2 DEF PostgresPortStep
  <2> QED
    BY <1>0, <1>2, <2>1, PostgresAgentImplements, ContractInvIs
<1>3. CASE port = "inbox"
  <2>1. ensureIDSequences(c) \/ PostgresInboxStep(c)
    BY <1>3 DEF PostgresPortStep
  <2>2. CASE ensureIDSequences(c)
    <3>1. \E n : db' = [db EXCEPT !.seq[Lite!Table] = n]
      BY <2>2 DEF ensureIDSequences
    <3>2. Implements
      BY <1>0, <1>3, <3>1, OpenImplements DEF Inboxes
    <3> QED
      BY <1>0, <1>3, <3>2, ContractInvIs
  <2>3. CASE PostgresInboxStep(c)
    BY <1>0, <1>3, <2>3, PostgresInboxImplements, ContractInvIs
  <2> QED
    BY <2>1, <2>2, <2>3
<1>4. CASE port = "conversation"
  <2>1. ConversationStep(c) \/ Poll(c)
    BY <1>4 DEF PostgresPortStep, Inboxes
  <2>2. CASE Poll(c)
    <3>1. db' = db
      BY <2>2 DEF Poll
    <3>2. Opened(db')
      BY <1>4, <3>1 DEF ContractInv
    <3> QED
      BY <1>0, <1>4, <3>1, <3>2, NothingWritten, ContractInvIs
  <2>3. CASE ConversationStep(c)
    <3>1. Good(db) /\ Held /\ Traced /\ Spoken(lite) /\ Buffered /\ Opened(db)
      BY <1>4 DEF PostgresPollInv, TalkInv, PostgresTalkInv, PostgresSpeech, ContractInv
    <3>2. Talks
      BY <1>0, <1>4, <2>3, <3>1, PostgresTalkImplements
    <3> QED
      BY <1>0, <1>4, <3>2, ContractInvIs DEF Talks
  <2> QED
    BY <2>1, <2>2, <2>3
<1>5. CASE port = "execution"
  <2>1. PostgresExecutionStep(c)
    BY <1>5 DEF PostgresPortStep, Inboxes
  <2>2. Implements /\ PlanInv'
    BY <1>0, <1>5, <2>1, ExecutionImplements
       DEF PostgresExecutionStep, CreateExecutionPlan, AppendExecutionStepPlans, AppendExecutionStep,
           AppendExecutionStepInteraction
  <2> QED
    BY <1>0, <1>5, <2>2, ContractInvIs
<1>6. CASE port = "verification"
  <2>1. PostgresVerificationStep(c)
    BY <1>6 DEF PostgresPortStep, Inboxes
  <2>2. \/ \E i, t : db' = Lite!AppendCompletionContract(db, i, t)
        \/ \E i, b : db' = Lite!AppendVerification(db, i, b)
    BY <2>1 DEF PostgresVerificationStep, AppendCompletionContract, AppendVerification
  <2>3. Implements
    BY <1>0, <1>6, <2>2, ContractImplements, VerdictImplements
  <2> QED
    BY <1>0, <1>6, <2>3, ContractInvIs
<1>7. CASE port = "account"
  BY <1>7, AccountImplements
<1> QED
  BY <1>1, <1>2, <1>3, <1>4, <1>5, <1>6, <1>7 DEF PostgresPortStep, Inboxes

\* Every step of the postgres engine is a step of the contract or none.
LEMMA PostgresImplements ==
  ASSUME NEW lite, lite = FALSE, PostgresPollInv, InboxInv, Inserting, PostgresSpeech(lite), ContractInv,
         [TraceNext]_traceVars
  PROVE  Implements /\ ContractInv'
<1>0. Shape /\ PostgresBase
  BY DEF PostgresPollInv, PostgresBase
<1>1. CASE traceVars' = traceVars
  <2>1. db' = db /\ call' = call /\ port' = port
    BY <1>1 DEF traceVars
  <2>2. Frame
    BY <2>1 DEF Frame
  <2> QED
    BY <1>0, <2>1, <2>2, ContractRests
<1>2. CASE TraceNext
  <2>1. /\ Moves(PostgresOps(port))
        /\ Replicate \/ Crash \/ \E c \in Clients : PostgresPortStep(c)
    BY <1>0, <1>2, PostgresSteps DEF PostgresBase
  <2>2. Frame
    BY <2>1 DEF Moves
  <2>3. CASE Replicate
    BY <1>0, <2>2, <2>3, ContractRests DEF Replicate
  <2>4. CASE Crash
    <3>1. db' = db /\ \E c \in Clients : call' = [call EXCEPT ![c] = Idle]
      BY <2>4 DEF Crash
    <3> QED
      BY <1>0, <2>2, <3>1, ContractRests
  <2>5. CASE \E c \in Clients : PostgresPortStep(c)
    BY <2>2, <2>5, PostgresPortImplements
  <2> QED
    BY <2>1, <2>3, <2>4, <2>5
<1> QED
  BY <1>1, <1>2

\* An empty store is the contract's.
LEMMA ContractStarts ==
  ASSUME Init PROVE Contract!Init /\ ContractInv
<1>1. TableInv
  BY TablesStart
<1>2. db = EmptyDB
  BY DEF Init
<1>3. db.tasks = None /\ db.agents = None /\ db.inbox = None /\ db.turns = None /\ db.msgs = None
      /\ db.plans = None /\ db.contract = None
  BY <1>2 DEF EmptyDB, Tables
<1>4. DOMAIN None = {}
  BY DEF None
<1>5. Opened(db)
  BY <1>3, <1>4 DEF Opened
<1>6. ASSUME NEW f, f = [x \in DOMAIN f |-> f[x]], DOMAIN f = {} PROVE f = Contract!NoKeys
  BY <1>6 DEF Contract!NoKeys
<1>7. /\ AgentsOf(db) = Contract!NoKeys /\ InboxOf(db) = Contract!NoKeys /\ SaidOf(db) = Contract!NoKeys
      /\ ReplyOf(db) = Contract!NoKeys /\ PlansOf(db) = Contract!NoKeys
  BY <1>3, <1>4 DEF AgentsOf, InboxOf, SaidOf, ReplyOf, PlansOf, Contract!NoKeys
<1>8. db.contract = Contract!NoKeys
  BY <1>3 DEF None, Contract!NoKeys
<1>9. TaskOf(db) = Contract!Unwritten
  BY <1>3, Zenon DEF TaskOf, Contract!Unwritten
<1> QED
  BY <1>1, <1>5, <1>7, <1>8, <1>9 DEF Contract!Init, ContractInv

\* Whatever a caller of the ports sees of the sqlite engine is the contract:
\* one atomic change per operation, whoever runs and dies between its
\* statements (sqlite_store.go, sqlite_inbox.go).
THEOREM ImplementsStoreOnSqlite == Lite!Spec => ImplementsStore
<1> DEFINE lite == TRUE
<1>0. lite
  OBVIOUS
<1> HIDE DEF lite
<1> DEFINE Inv == SqlitePollInv /\ SqliteOwnerInv /\ Speech(lite) /\ ContractInv
<1>1. Lite!Init => Inv /\ Contract!Init
  <2> SUFFICES ASSUME Lite!Init PROVE Inv /\ Contract!Init
    OBVIOUS
  <2>1. Init
    BY DEF Lite!Init, Init, Lite!EmptyDB, EmptyDB, Lite!IDBases, IDBases, Lite!None, None, Lite!Tables, Tables
  <2>2. SqliteOwnerInv
    BY <2>1, SqliteOwnerStart
  <2>3. SqlitePollInv
    BY <2>1, <2>2, StoreTalks DEF SqlitePollInv, SqliteOwnerInv
  <2> QED
    BY <2>1, <2>2, <2>3, SpokenStarts, ContractStarts DEF Speech
<1>2. Inv /\ [Lite!Next]_(Lite!vars) => Inv' /\ Implements
  <2> SUFFICES ASSUME SqlitePollInv, SqliteOwnerInv, Speech(lite), ContractInv, [Lite!Next]_vars
               PROVE  SqlitePollInv' /\ SqliteOwnerInv' /\ Speech(lite)' /\ ContractInv' /\ Implements
    BY DEF vars, Lite!vars
  <2>1. Implements /\ ContractInv'
    BY SqliteImplements DEF SqliteOwnerInv
  <2> QED
    BY <1>0, <2>1, SqlitePollStep, SqliteOwnerStep, SqliteSpeechStep
<1> QED
  BY <1>1, <1>2, PTL DEF Lite!Spec, ImplementsStore, Contract!Spec, Implements

\* The same of the postgres engine, whose ids are taken before their rows are
\* committed and whose streams are written as they come (postgres_store.go,
\* postgres_inbox.go, llm_trace.go).
THEOREM ImplementsStoreOnPostgres == TraceSpec => ImplementsStore
<1> DEFINE lite == FALSE
<1>0. lite = FALSE
  OBVIOUS
<1> HIDE DEF lite
<1> DEFINE Inv == PostgresPollInv /\ PostgresOwnerInv /\ PostgresSpeech(lite) /\ ContractInv
<1>1. TraceInit => Inv /\ Contract!Init
  <2> SUFFICES ASSUME TraceInit
               PROVE  PostgresPollInv /\ PostgresOwnerInv /\ PostgresSpeech(lite) /\ ContractInv /\ Contract!Init
    OBVIOUS
  <2>1. Init
    BY DEF TraceInit, PostgresInit
  <2> QED
    BY <1>0, <2>1, PostgresPollStart, PostgresOwnerStart, PostgresSpeechStart, ContractStarts
<1>2. Inv /\ [TraceNext]_traceVars => Inv' /\ Implements
  <2> SUFFICES ASSUME PostgresPollInv, PostgresOwnerInv, PostgresSpeech(lite), ContractInv, [TraceNext]_traceVars
               PROVE  PostgresPollInv' /\ PostgresOwnerInv' /\ PostgresSpeech(lite)' /\ ContractInv' /\ Implements
    OBVIOUS
  <2>1. Implements /\ ContractInv'
    BY <1>0, PostgresImplements DEF PostgresOwnerInv
  <2> QED
    BY <1>0, <2>1, PostgresPollStep, PostgresOwnerStep, PostgresSpeechStep
<1> QED
  BY <1>1, <1>2, PTL DEF TraceSpec, ImplementsStore, Contract!Spec, Implements
=============================================================================
