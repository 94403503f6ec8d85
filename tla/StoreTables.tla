---------------------------- MODULE StoreTables ----------------------------
(***************************************************************************)
(* The tables behind the store's ports, the rules both engines share       *)
(* outside SQL, and the properties of the tables both engines are checked  *)
(* for. The ports share no table and a behaviour exercises one of them, so *)
(* the state space is the sum of the ports' and not their product.         *)
(***************************************************************************)
EXTENDS Integers, FiniteSets, FiniteSetsExt, TLC, ChatMessages

CONSTANTS
  Ports,          \* the ports explored
  Clients,        \* goroutines and processes calling the store
  Events,         \* the events a provider may stream
  Criteria,       \* what a contract may ask
  Harnesses, Roots, Accounts,
  HasRootIndex,   \* the unique index on workspace_root could be created
  AgentIDBase, MessageIDBase, DefaultTurnPageLimit, MaxTurnPageLimit,
  MaxRows,        \* rows per table (a bound)
  MaxTurns,       \* LLM runs (a bound)
  MaxStream,      \* events and derived messages of a run (a bound)
  MaxFaults       \* processes that die inside a call (a bound)

ASSUME StoreAssumption ==
  /\ Ports \subseteq {"task", "agent", "inbox", "conversation", "execution", "verification", "account"}
  /\ HasRootIndex \in BOOLEAN
  /\ \A e \in Events : e.ch \in {"thought", "tool", "other"}
  /\ "" \notin Harnesses \cup Roots
  /\ {AgentIDBase, MessageIDBase, DefaultTurnPageLimit, MaxTurnPageLimit, MaxRows, MaxTurns, MaxStream}
       \subseteq Nat \ {0} /\ MaxFaults \in Nat

VARIABLES
  port,      \* the port this behaviour exercises
  db,        \* the committed rows
  call,      \* [client -> the operation it is inside, and its local state]
  faults,
  seen       \* the poller of one agent's conversation: whose, and the ids it was given

None == [i \in {} |-> <<>>]
Idle == [op |-> "idle"]

Tables == {"tasks", "agents", "inbox", "turns", "msgs", "events", "plans", "contract", "accounts"}

\* The last id each of the visible tables has handed out.
IDBases == [agents |-> AgentIDBase - 1, inbox |-> MessageIDBase - 1, msgs |-> MessageIDBase - 1]

\* agents, inbox, turns, msgs and plans are [id -> row], events is
\* [<<turn, seq>> -> event]; a row that was never written is absent. Planned
\* steps are keyed, steps and verdicts are appended.
EmptyDB == [t \in Tables \cup {"psteps", "steps", "verdicts", "seq"} |->
              CASE t \in Tables -> None [] t = "psteps" -> {} [] t = "seq" -> IDBases [] OTHER -> <<>>]

Put(f, k, row) == [x \in DOMAIN f \cup {k} |-> IF x = k THEN row ELSE f[x]]
Highest(rows) == Max({0} \cup DOMAIN rows)

TaskRow == [agent : 0..1, goal : {"", "g"}, status : {"pending", "running", "completed"}]
Statuses == {"done", "failed", "stopped"}
Account == [harness : Harnesses, root : Roots, isDefault : BOOLEAN]
AccountInput(harnesses) == [harness : harnesses \cup {""}, root : Roots \cup {""}, isDefault : BOOLEAN]

\* The rows of one turn, and where its reply is.
Rows(d, turn) == {m \in DOMAIN d.msgs : d.msgs[m].turn = turn}
At(d, turn, s) == {m \in Rows(d, turn) : d.msgs[m].seq = s}
Replies(d, turn) == {m \in Rows(d, turn) : d.msgs[m].role = "assistant"}
HighestSeq(d, turn) == Max({0} \cup {d.msgs[m].seq : m \in Rows(d, turn)})

\* The planned steps of one plan, and the ones that ran.
Planned(d, plan) == {q \in d.psteps : q[1] = plan}
Ran(d, plan) == {i \in DOMAIN d.steps : d.steps[i].plan = plan}

-----------------------------------------------------------------------------
(* The rules of a page, outside both engines *)

turnPageLimit(limit) ==
  IF limit <= 0 THEN DefaultTurnPageLimit
  ELSE IF limit > MaxTurnPageLimit THEN MaxTurnPageLimit ELSE limit

\* mutant: the second row is the first
OffByOne(offset) == IF offset <= 1 THEN 0 ELSE offset

turnPageOffset(offset) == IF offset < 0 THEN 0 ELSE offset

\* Sorting is by one of the whitelisted columns, or by id.
turnOrderColumn(order) == IF order = "created_at" THEN "at" ELSE "id"

\* mutant: the harness is not looked up
RootOnly(a) == a.root \in Roots

\* NormalizeAccount refuses a harness the runtime cannot run and a missing
\* or relative root.
NormalizeAccount(a) == a.harness \in Harnesses /\ a.root \in Roots

-----------------------------------------------------------------------------
vars == <<port, db, call, faults, seen>>

Init ==
  /\ port \in Ports /\ db = EmptyDB /\ faults = 0 /\ seen = [of |-> {}, ids |-> {}]
  /\ call = [c \in Clients |-> Idle]

Busy(c) == call[c].op # "idle"
Enter(c, p) == port = p /\ ~Busy(c)
Inside(c, op) == call[c].op = op
Same(vs) == UNCHANGED <<port, faults, seen>> /\ UNCHANGED vs

\* A call of one statement.
Does(c, p, d) == Enter(c, p) /\ db' = d /\ Same(call)

\* A process dies inside its calls; what it committed stays.
Crash ==
  /\ faults < MaxFaults /\ faults' = faults + 1
  /\ \E c \in Clients : Busy(c) /\ call' = [call EXCEPT ![c] = Idle]
  /\ UNCHANGED <<port, db, seen>>

-----------------------------------------------------------------------------
(* Properties *)

\* The tables as the ports' callers see them. An agent exists for them once
\* it has its name; the row before that is the engine's.
TaskOf(d) == IF d.tasks = None THEN [agent |-> 0, goal |-> ""]
             ELSE [agent |-> d.tasks["t"].agent, goal |-> d.tasks["t"].goal]
AgentsOf(d) == [a \in {b \in DOMAIN d.agents : d.agents[b].named} |-> d.agents[a].deleted]
InboxOf(d) == [i \in DOMAIN d.inbox |-> d.inbox[i].status]
Seqs(d, turn) == {d.msgs[m].seq : m \in Rows(d, turn)}
SaidOf(d) == [t \in DOMAIN d.turns |-> Seqs(d, t)]
ReplyAt(d, turn) == IF Replies(d, turn) = {} THEN 0 ELSE d.msgs[Min(Replies(d, turn))].seq
ReplyOf(d) == [t \in DOMAIN d.turns |-> ReplyAt(d, t)]
PlansOf(d) == [p \in DOMAIN d.plans |->
                 [planned |-> Cardinality(Planned(d, p)), ran |-> Cardinality(Ran(d, p))]]

Contract == INSTANCE Store WITH
  task <- TaskOf(db), agents <- AgentsOf(db), inbox <- InboxOf(db), said <- SaidOf(db),
  reply <- ReplyOf(db), plans <- PlansOf(db), contract <- db.contract

\* The engine implements the contract of the ports: every commit is one
\* operation of it or invisible, whoever runs and dies between statements.
ImplementsStore == Contract!Spec

\* The tables are well formed: keys are ids, and a message is keyed once
\* per (turn, seq).
TypeOK ==
  /\ port \in Ports /\ faults \in 0..MaxFaults
  /\ \A a \in DOMAIN db.agents : a \in Nat /\ db.agents[a] \in [named : BOOLEAN, deleted : BOOLEAN]
  /\ \A i \in DOMAIN db.inbox : db.inbox[i].status \in {"queued", "running"} \cup Statuses
  /\ \A m \in DOMAIN db.msgs : db.msgs[m].turn \in DOMAIN db.turns
  /\ \A k \in DOMAIN db.accounts : db.accounts[k] \in Account

\* A run has one reply, and the reply is its last message: FinishReasonTurn
\* derives rows, looks for a reply, takes the next seq and inserts in five
\* statements that other writers and crashes come between.
ReplyIsLast ==
  \A t \in DOMAIN db.turns :
    /\ Cardinality(Replies(db, t)) <= 1
    /\ \A m \in Replies(db, t) : db.msgs[m].seq = HighestSeq(db, t)

\* A poller that asks for what is after the last id it was given has been
\* given every message up to it: ids become visible in the order they are
\* handed out within one agent's stream.
PollMissesNothing ==
  \A m \in DOMAIN db.msgs :
    /\ db.turns[db.msgs[m].turn].agent \in seen.of /\ m <= Max(seen.ids)
    => m \in seen.ids

\* One account per workspace root, where the schema could be given the rule.
RootExclusive ==
  HasRootIndex =>
    \A j, k \in DOMAIN db.accounts : j # k => db.accounts[j].root # db.accounts[k].root

\* At most one default account per harness.
OneDefault ==
  \A j, k \in DOMAIN db.accounts :
    j # k /\ db.accounts[j].harness = db.accounts[k].harness
      => ~(db.accounts[j].isDefault /\ db.accounts[k].isDefault)

\* A claim is owned: two clients inside a claimed message are never inside
\* the same one.
OneOwner ==
  \A c, e \in Clients : c # e /\ Inside(c, "claimed") /\ Inside(e, "claimed") => call[c].id # call[e].id
=============================================================================
