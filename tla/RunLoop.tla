------------------------------ MODULE RunLoop ------------------------------
(***************************************************************************)
(* The decision loop of one task: accepted messages become runs, a run     *)
(* decides, hands each decision to Runtime.Execute on a goroutine of its   *)
(* own and parks on the result. A stopped run leaves its Execute behind,   *)
(* so executions of two runs of one task may overlap. Executing a plan     *)
(* writes its rows; executing a `done` verifies the pinned contract.       *)
(***************************************************************************)
EXTENDS Naturals, Sequences, FiniteSets

CONSTANTS
  Names,            \* step names
  Plans,            \* the plans a planner may answer: sequences of Names
  Contracts,        \* the contracts a first answer may declare: sequences of
                    \* criteria, a name (its slot is that step's output) or
                    \* World (a World Model read); a criterion without a slot
                    \* is a name no plan has
  Requests,         \* the <<message kind, contract>> pairs a request may carry
  Types,            \* the decision types the planner uses
  World,
  RequirePlanApproval,
  MaxSteps,         \* Autonomy.maxSteps
  MaxRuns,          \* messages accepted (a bound)
  MaxStops,         \* stops and broadcasts (a bound)
  MaxFaults,        \* panics, failing writes and lost rows (a bound)
  None

ASSUME RunLoopAssumption ==
  /\ Plans \subseteq Seq(Names) \ {<<>>}
  /\ Contracts \subseteq Seq(Names \cup {World}) /\ World \notin Names
  /\ Requests \subseteq {"instruction", "approval"} \X Seq(Names \cup {World})
  /\ Types \subseteq {"plan", "done", "blocked", "need_input"}
  /\ RequirePlanApproval \in BOOLEAN
  /\ MaxSteps \in Nat \ {0} /\ {MaxRuns, MaxStops, MaxFaults} \subseteq Nat
  /\ None # "completed"

VARIABLES
  status,        \* the task row's status
  request,       \* the acceptance in flight, or None (one at a time, a bound)
  queue,         \* the accepted messages, oldest first: their kind and how many
                 \* criteria came with them
  run,           \* the run in flight, or None
  runs,          \* runs started
  agent,         \* [pendingPlan : plan id or 0, planApproved : BOOLEAN]
  execs,         \* the executions dispatched, by <<run, cycle>>
  plans,         \* execution_plan rows with their execution_step_plan rows
  rows,          \* [plan id -> its execution_step rows, in insertion order]
  contract,      \* completion_contract rows: [idx -> row]
  stopper,       \* the stopTask request in flight, or None
  caster,        \* the row a broadcast in flight has listed, or None
  stops,         \* runs cancelled and broadcasts begun
  faults,
  confirmed,     \* ghost: plans the user confirmed
  judged,        \* ghost: [plan id -> the contracts its `done` held up against]
  asked,         \* ghost: [run -> how many criteria its request brought]
  skipped        \* ghost: the <<plan id, idx>> whose row could not be written

store == <<plans, rows, contract, judged, skipped>>
door == <<request, asked>>
vars == <<status, door, queue, run, runs, agent, execs, store, stopper, caster, stops,
          faults, confirmed>>

Decision == [type : Types, steps : Plans \cup {<<>>}, contract : Contracts, valid : BOOLEAN]
Live == {"pending", "running"}

Concludes(d) == d.type # "plan"
TaskStatusFor(d) == IF d.type = "done" THEN "completed" ELSE d.type

NoRows == [i \in {} |-> None]
Fault == faults < MaxFaults /\ faults' = faults + 1

Init ==
  /\ status = "none" /\ queue = <<>> /\ run = None /\ runs = 0
  /\ agent = [pendingPlan |-> 0, planApproved |-> FALSE]
  /\ execs = NoRows /\ plans = <<>> /\ rows = <<>> /\ contract = NoRows
  /\ request = None /\ asked = <<>> /\ skipped = {}
  /\ stopper = None /\ caster = None /\ stops = 0 /\ faults = 0 /\ confirmed = {} /\ judged = <<>>

-----------------------------------------------------------------------------
(* The store's rows *)

\* AppendCompletionContract ignores a row that is already there.
Pin(c, i, row) ==
  IF i \in DOMAIN c THEN c ELSE [j \in DOMAIN c \cup {i} |-> IF j = i THEN row ELSE c[j]]

Criterion(c, i, by) == [criterion |-> c[i], by |-> by]

\* mutant: the first row that cannot be written ends the pass
GiveUp(i, len, ok) == IF ok THEN i + 1 ELSE len + 1

\* A row that cannot be written is logged and skipped.
NextRow(i, len, ok) == i + 1

\* One turn of pinCompletionContract's loop, for row i of plan p.
PinRow(p, d, i, by, ok) ==
  IF ok THEN contract' = Pin(contract, i, Criterion(d.contract, i, by)) /\ UNCHANGED <<faults, skipped>>
  ELSE Fault /\ skipped' = skipped \cup {<<p, i>>} /\ UNCHANGED contract

\* The contract as ListCompletionContract returns it, by position.
Pinned == [i \in DOMAIN contract |-> contract[i].criterion]

\* criteria: how many rows the answer's contract is to have, the first answer's only.
PlanRow(d, key) ==
  [type |-> d.type, steps |-> d.steps, run |-> key[1], cycle |-> key[2],
   criteria |-> IF key[2] = 1 THEN Len(d.contract) ELSE 0]

AppendPlan(row) ==
  /\ plans' = Append(plans, row)
  /\ rows' = Append(rows, <<>>)
  /\ judged' = Append(judged, {})

\* Some plan has a successful execution of the step; its latest output is what a
\* slot resolves to.
Produced(n) ==
  \E p \in DOMAIN plans : \E k \in DOMAIN rows[p] :
    rows[p][k].ok /\ plans[p].steps[rows[p][k].idx] = n

-----------------------------------------------------------------------------
(* accept, the inbox and stopTask *)

Others(r) == IF r = None THEN 0 ELSE 1
Room == runs + Len(queue) + Others(request) + Others(caster) < MaxRuns

\* accept: the row is written pending first,
AcceptRow(kind, c) ==
  /\ request = None /\ Room
  /\ status' = "pending"
  /\ request' = [kind |-> kind, contract |-> c, next |-> 1]
  /\ UNCHANGED <<asked, queue, run, runs, agent, execs, store, stopper, caster, stops, faults, confirmed>>

\* then the contract of the request is pinned row by row, and a pin that fails
\* refuses the request,
AcceptPin ==
  /\ request # None /\ request.next <= Len(request.contract)
  /\ \/ /\ contract' = Pin(contract, request.next, Criterion(request.contract, request.next, 0))
        /\ request' = [request EXCEPT !.next = @ + 1] /\ UNCHANGED faults
     \/ Fault /\ request' = None /\ UNCHANGED contract
  /\ UNCHANGED <<status, asked, queue, run, runs, agent, execs, plans, rows, judged, skipped,
                 stopper, caster, stops, confirmed>>

\* and at the end the message is queued.
AcceptQueue ==
  /\ request # None /\ request.next > Len(request.contract)
  /\ queue' = Append(queue, [kind |-> request.kind, criteria |-> Len(request.contract)])
  /\ request' = None
  /\ UNCHANGED <<status, asked, run, runs, agent, execs, store, stopper, caster, stops, faults, confirmed>>

\* processInstruction up to the loop.
Start ==
  /\ run = None /\ queue # <<>>
  /\ queue' = Tail(queue) /\ runs' = runs + 1
  /\ status' = "running"
  /\ run' = [id |-> runs + 1, pc |-> "loop", cycles |-> 0, key |-> None, d |-> None,
             err |-> FALSE, cancelled |-> FALSE, seen |-> <<>>, outcome |-> None,
             plan |-> 0, next |-> 1]
  /\ asked' = Append(asked, Head(queue).criteria)
  /\ LET released == Head(queue).kind = "approval" /\ agent.pendingPlan # 0 IN
     /\ agent' = [agent EXCEPT !.planApproved = @ \/ released]
     /\ confirmed' = IF released THEN confirmed \cup {agent.pendingPlan} ELSE confirmed
  /\ UNCHANGED <<request, execs, store, stopper, caster, stops, faults>>

\* stopTask reads the row, cancels what is in flight, then marks the row it
\* read; a task that is not in flight is refused.
StopRead ==
  /\ stopper = None /\ stops < MaxStops /\ status # "none"
  /\ stopper' = [pc |-> "read", seen |-> status]
  /\ UNCHANGED <<status, door, queue, run, runs, agent, execs, store, caster, stops, faults, confirmed>>

StopCancel ==
  /\ stopper # None /\ stopper.pc = "read"
  /\ IF run = None
       THEN stopper' = None /\ UNCHANGED <<run, stops>>
       ELSE /\ run' = [run EXCEPT !.cancelled = TRUE]
            /\ stopper' = [stopper EXCEPT !.pc = "mark"] /\ stops' = stops + 1
  /\ UNCHANGED <<status, door, queue, runs, agent, execs, store, caster, faults, confirmed>>

StopMark ==
  /\ stopper # None /\ stopper.pc = "mark"
  /\ stopper' = None
  /\ status' = IF stopper.seen \in Live THEN "stopped" ELSE status
  /\ UNCHANGED <<door, queue, run, runs, agent, execs, store, caster, stops, faults, confirmed>>

\* Broadcast lists the rows of its scope first and then delivers one by one;
\* a task that was never accepted has no agent and is skipped.
BroadcastList ==
  /\ caster = None /\ status # "none" /\ Room
  /\ stops < MaxStops /\ stops' = stops + 1
  /\ caster' = status
  /\ UNCHANGED <<status, door, queue, run, runs, agent, execs, store, stopper, faults, confirmed>>

\* deliverBroadcast: the listed row is written as it was listed, then the message
\* is queued; an agent that cannot be resumed fails the task instead, and a
\* queue that cannot be written leaves the row alone without a message.
BroadcastDeliver ==
  /\ caster # None /\ caster' = None
  /\ \/ /\ status' = caster /\ UNCHANGED faults
        /\ queue' = Append(queue, [kind |-> "instruction", criteria |-> 0])
     \/ /\ Fault /\ status' \in {"error", caster} /\ UNCHANGED queue
  /\ UNCHANGED <<door, run, runs, agent, execs, store, stopper, stops, confirmed>>

-----------------------------------------------------------------------------
(* runLoop *)

\* The run writes its outcome to the row and leaves.
Leave(outcome) == run' = [run EXCEPT !.pc = "leave", !.outcome = outcome]

Dispatch(d, p) ==
  LET key == <<run.id, run.cycles + 1>> IN
  /\ run' = [run EXCEPT !.pc = "wait", !.cycles = @ + 1, !.key = key, !.d = d]
  /\ execs' = [e \in DOMAIN execs \cup {key} |->
                 IF e = key THEN [pc |-> "begin", d |-> d, plan |-> p, next |-> 1,
                                  failed |-> FALSE]
                 ELSE execs[e]]

\* The head of the loop: a cancelled run stops, a confirmed plan is executed
\* as it was written, a spent budget ends the run, else the agent decides.
LoopStopped ==
  /\ run # None /\ run.pc = "loop" /\ run.cancelled
  /\ Leave("stopped")
  /\ UNCHANGED <<status, door, queue, runs, agent, execs, store, stopper, caster, stops, faults, confirmed>>

LoopApproved ==
  /\ run # None /\ run.pc = "loop" /\ ~run.cancelled
  /\ agent.planApproved /\ agent.pendingPlan # 0
  /\ LET p == agent.pendingPlan IN
     Dispatch([type |-> "plan", steps |-> plans[p].steps, contract |-> <<>>, valid |-> TRUE], p)
  /\ agent' = [pendingPlan |-> 0, planApproved |-> FALSE]
  /\ UNCHANGED <<status, door, queue, runs, store, stopper, caster, stops, faults, confirmed>>

\* mutant: the budget is checked before the cycle is counted
SpentLate == run.cycles > MaxSteps

Spent == run.cycles + 1 > MaxSteps

LoopBudget ==
  /\ run # None /\ run.pc = "loop" /\ ~run.cancelled
  /\ ~(agent.planApproved /\ agent.pendingPlan # 0)
  /\ run' = [run EXCEPT !.pc = IF Spent THEN "end" ELSE "decide"]
  /\ UNCHANGED <<status, door, queue, runs, agent, execs, store, stopper, caster, stops, faults, confirmed>>

DecideFails ==
  /\ run # None /\ run.pc = "decide"
  /\ Leave(IF run.cancelled THEN "stopped" ELSE "error")
  /\ UNCHANGED <<status, door, queue, runs, agent, execs, store, stopper, caster, stops, faults, confirmed>>

\* mutant: only the agent's switch is asked, and not for a first cycle
GateLate(d) == RequirePlanApproval /\ run.cycles > 0 /\ d.type = "plan"

NeedsPlanApproval(d) == RequirePlanApproval /\ ~agent.planApproved /\ d.type = "plan"

\* An answer that is not held back goes to Execute on a goroutine of its own.
DecideExecute(d) ==
  /\ run # None /\ run.pc = "decide" /\ ~NeedsPlanApproval(d)
  /\ Dispatch(d, 0)
  /\ UNCHANGED <<status, door, queue, runs, agent, store, stopper, caster, stops, faults, confirmed>>

\* RecordPlanOnly: the plan that waits for the user is written first; its
\* contract is pinned when it is the run's first answer.
DecidePause(d) ==
  /\ run # None /\ run.pc = "decide" /\ NeedsPlanApproval(d)
  /\ \/ /\ d.valid
        /\ AppendPlan(PlanRow(d, <<run.id, run.cycles + 1>>))
        /\ run' = [run EXCEPT !.pc = "pin", !.d = d, !.plan = Len(plans) + 1]
        /\ UNCHANGED <<contract, skipped, faults>>
     \/ /\ d.valid /\ Fault
        /\ Leave("error") /\ UNCHANGED store
     \/ /\ ~d.valid
        /\ Leave("error") /\ UNCHANGED <<store, faults>>
  /\ UNCHANGED <<status, door, queue, runs, agent, execs, stopper, caster, stops, confirmed>>

ToPin == plans[run.plan].criteria

PausePin ==
  /\ run # None /\ run.pc = "pin" /\ run.next <= ToPin
  /\ \E ok \in BOOLEAN :
       /\ PinRow(run.plan, run.d, run.next, run.id, ok)
       /\ run' = [run EXCEPT !.next = NextRow(@, ToPin, ok)]
  /\ UNCHANGED <<status, door, queue, runs, agent, execs, plans, rows, judged, stopper, caster, stops, confirmed>>

\* The run pauses on the plan.
Pause ==
  /\ run # None /\ run.pc = "pin" /\ run.next > ToPin
  /\ agent' = [agent EXCEPT !.pendingPlan = run.plan]
  /\ run' = [run EXCEPT !.pc = "leave", !.outcome = "awaiting_approval", !.next = 1]
  /\ UNCHANGED <<status, door, queue, runs, execs, store, stopper, caster, stops, faults, confirmed>>

\* mutant: the runs of a task share one channel of results
SharedEvents == {e \in DOMAIN execs : execs[e].pc = "done"}

\* The result this run's channel can deliver: the one of its own last dispatch.
Events == {e \in DOMAIN execs : e = run.key /\ execs[e].pc = "done"}

\* select: a result, observed, or the cancellation.
Observe ==
  /\ run # None /\ run.pc = "wait"
  /\ \E e \in Events :
       run' = [run EXCEPT !.d = execs[e].d, !.err = execs[e].failed, !.seen = Append(@, e),
                          !.pc = IF Concludes(execs[e].d) /\ ~execs[e].failed
                                 THEN "end" ELSE "loop"]
  /\ UNCHANGED <<status, door, queue, runs, agent, execs, store, stopper, caster, stops, faults, confirmed>>

\* mutant: the planner is parked inside Execute
WaitNever == FALSE

WaitCancelled == run.pc = "wait" /\ run.cancelled

WaitStopped ==
  /\ run # None /\ WaitCancelled
  /\ Leave("stopped")
  /\ UNCHANGED <<status, door, queue, runs, agent, execs, store, stopper, caster, stops, faults, confirmed>>

\* What the end of the loop makes of the last answer and its result.
Outcome ==
  IF run.cancelled THEN "stopped"
  ELSE IF run.err THEN (IF run.d.type = "done" THEN "unverified" ELSE "error")
  ELSE IF Concludes(run.d) THEN TaskStatusFor(run.d) ELSE "error"

End ==
  /\ run # None /\ run.pc = "end"
  /\ Leave(Outcome)
  /\ UNCHANGED <<status, door, queue, runs, agent, execs, store, stopper, caster, stops, faults, confirmed>>

\* markStopped, failTask and the others persist the run's own Task value.
Persist ==
  /\ run # None /\ run.pc = "leave"
  /\ status' = run.outcome
  /\ run' = [run EXCEPT !.pc = "left"]
  /\ UNCHANGED <<door, queue, runs, agent, execs, store, stopper, caster, stops, faults, confirmed>>

\* The deferred delete of the inFlightTasks entry; the run's channel and the
\* results in it go with it, an execution that is not done goes on.
Return ==
  /\ run # None /\ run.pc = "left"
  /\ run' = None
  /\ execs' = [e \in {e \in DOMAIN execs : execs[e].pc # "done"} |-> execs[e]]
  /\ UNCHANGED <<status, door, queue, runs, agent, store, stopper, caster, stops, faults, confirmed>>

-----------------------------------------------------------------------------
(* executePlan, on the goroutine of execution e *)

Go(e, pc) == execs' = [execs EXCEPT ![e].pc = pc]
Ended(e, failed) ==
  execs' = [execs EXCEPT ![e].pc = "done", ![e].failed = failed, ![e].next = 1]
At(e, pc) == execs[e].pc = pc
AfterPlan(d) == IF d.type = "plan" THEN "step" ELSE IF d.type = "done" THEN "verify" ELSE "done"

\* An approved plan runs at once; another decision is validated and its plan
\* row is written first, and a failure of either ends the cycle.
ExecBegin(e) ==
  /\ At(e, "begin")
  /\ LET d == execs[e].d IN
     \/ /\ execs[e].plan # 0
        /\ Go(e, "step") /\ UNCHANGED <<store, faults>>
     \/ /\ execs[e].plan = 0 /\ ~d.valid
        /\ Ended(e, TRUE) /\ UNCHANGED <<store, faults>>
     \/ /\ execs[e].plan = 0 /\ d.valid
        /\ AppendPlan(PlanRow(d, e))
        /\ execs' = [execs EXCEPT ![e].plan = Len(plans) + 1,
                       ![e].pc = IF e[2] = 1 /\ d.contract # <<>> THEN "pin" ELSE AfterPlan(d)]
        /\ UNCHANGED <<contract, skipped, faults>>
     \/ /\ execs[e].plan = 0 /\ d.valid /\ Fault
        /\ Ended(e, TRUE) /\ UNCHANGED store
  /\ UNCHANGED <<status, door, queue, run, runs, agent, stopper, caster, stops, confirmed>>

\* pinCompletionContract, row by row.
ExecPin(e) ==
  /\ At(e, "pin")
  /\ LET x == execs[e] len == Len(x.d.contract) IN
     \E ok \in BOOLEAN :
       /\ PinRow(x.plan, x.d, x.next, e[1], ok)
       /\ LET n == NextRow(x.next, len, ok) IN
          execs' = [execs EXCEPT ![e].pc = IF n > len THEN AfterPlan(x.d) ELSE "pin",
                                 ![e].next = IF n > len THEN 1 ELSE n]
  /\ UNCHANGED <<status, door, queue, run, runs, agent, plans, rows, judged, stopper, caster, stops, confirmed>>

\* mutant: a failed step does not end the cycle
GoOn(x, ok) == IF x.next = Len(x.d.steps) THEN "done" ELSE "step"

\* The first failing step ends the cycle.
AfterStep(x, ok) == IF ok /\ x.next < Len(x.d.steps) THEN "step" ELSE "done"

\* One step: the capability runs, then recordStep writes its row, best effort.
ExecStep(e, ok) ==
  /\ At(e, "step")
  /\ LET x == execs[e] IN
     /\ execs' = [execs EXCEPT ![e].pc = AfterStep(x, ok), ![e].next = @ + 1, ![e].failed = ~ok]
     /\ \/ /\ rows' = [rows EXCEPT ![x.plan] = Append(@, [idx |-> x.next, ok |-> ok])]
           /\ UNCHANGED faults
        \/ Fault /\ UNCHANGED rows
  /\ UNCHANGED <<status, door, queue, run, runs, agent, plans, contract, judged, skipped, stopper, caster, stops, confirmed>>

\* The goroutine recovers a panic of a step: no row, a failed cycle.
ExecPanic(e) ==
  /\ At(e, "step") /\ Fault
  /\ Ended(e, TRUE)
  /\ UNCHANGED <<status, door, queue, run, runs, agent, store, stopper, caster, stops, confirmed>>

\* mutant: a criterion nothing can be asked about does not count against the done
Lenient(c) == {"pass", "fail"}

\* verifyCriterion: nothing to look at never passes; what the World Model and
\* the authority for a step's output say is up to them ("fail" stands for
\* inconclusive too).
Verdicts(c) == IF c \in Names /\ ~Produced(c) THEN {"fail"} ELSE {"pass", "fail"}

\* verifyDone: the contract as it is now, judged by what the task's steps have
\* produced; nothing pinned is nothing a done can be verified against.
ExecVerify(e) ==
  /\ At(e, "verify")
  /\ \/ /\ contract = NoRows
        /\ Ended(e, TRUE) /\ UNCHANGED judged
     \/ /\ contract # NoRows /\ \E i \in DOMAIN contract : "fail" \in Verdicts(Pinned[i])
        /\ Ended(e, TRUE) /\ UNCHANGED judged
     \/ /\ contract # NoRows /\ \A i \in DOMAIN contract : "pass" \in Verdicts(Pinned[i])
        /\ Ended(e, FALSE) /\ judged' = [judged EXCEPT ![execs[e].plan] = @ \cup {Pinned}]
  /\ UNCHANGED <<status, door, queue, run, runs, agent, plans, rows, contract, skipped, stopper, caster, stops, faults, confirmed>>

-----------------------------------------------------------------------------
\* The answers a planner may give; a contract is looked at on a valid first
\* answer only, and only a plan carries steps.
Answers == {d \in Decision :
  /\ d.type = "plan" <=> d.steps # <<>>
  /\ d.contract # <<>> => d.valid /\ run # None /\ run.cycles = 0}

Loop == LoopStopped \/ LoopApproved \/ LoopBudget \/ PausePin \/ Pause \/ Observe
        \/ WaitStopped \/ End \/ Persist \/ Return
Decide == DecideFails \/ \E d \in Answers : DecideExecute(d) \/ DecidePause(d)
Exec(e) == ExecBegin(e) \/ ExecPin(e) \/ ExecPanic(e) \/ ExecVerify(e)
           \/ \E ok \in BOOLEAN : ExecStep(e, ok)

Next ==
  \/ \E m \in Requests : AcceptRow(m[1], m[2])
  \/ AcceptPin \/ AcceptQueue
  \/ Start \/ StopRead \/ StopCancel \/ StopMark
  \/ BroadcastList \/ BroadcastDeliver
  \/ Loop \/ Decide
  \/ \E e \in DOMAIN execs : Exec(e)

Spec == Init /\ [][Next]_vars

\* The loop runs when it can, a decide call returns (its turn is under the
\* run's context and the idle watchdog). Nothing makes a capability return.
FairSpec == Spec /\ WF_vars(Start) /\ WF_vars(Loop) /\ WF_vars(Decide)

-----------------------------------------------------------------------------
Messages == {"instruction", "approval"}
Statuses == {"none", "pending", "running", "stopped", "error", "unverified",
             "awaiting_approval", "completed", "blocked", "need_input"}

TypeOK ==
  /\ status \in Statuses /\ queue \in Seq([kind : Messages, criteria : Nat]) /\ runs \in 0..MaxRuns
  /\ agent \in [pendingPlan : 0..Len(plans), planApproved : BOOLEAN]
  /\ Len(rows) = Len(plans) /\ Len(judged) = Len(plans)
  /\ DOMAIN contract \subseteq Nat
  /\ run # None => run.id = runs /\ run.cycles \in 0..MaxSteps
  /\ DOMAIN execs \subseteq (1..runs) \X (1..MaxSteps)
  /\ \A e \in DOMAIN execs : execs[e].plan \in 0..Len(plans)

\* The rows of a plan are its steps in order, each at most once, and nothing
\* after a failure: a plan is executed by one Execute only, also the plan a
\* confirmation releases (Runtime.executePlan).
StepsInOrder ==
  \A p \in DOMAIN rows : \A j, k \in DOMAIN rows[p] :
    j < k => rows[p][j].idx < rows[p][k].idx /\ rows[p][j].ok

\* "implementation starts after the plan is approved, never before": with
\* RequirePlanApproval nothing of a plan runs unless a confirmation named it,
\* whatever was stopped, accepted or replanned in between.
NothingRunsUnapproved ==
  RequirePlanApproval =>
    \A e \in DOMAIN execs : execs[e].d.type = "plan" => execs[e].plan \in confirmed

\* A run observes the results of its own decisions only, one per cycle and in
\* order, although an execution a stopped run left behind may end later.
ResultsInOrder ==
  run # None => \A k \in DOMAIN run.seen : run.seen[k] = <<run.id, k>>

DoneHeldUp(r) ==
  \E p \in DOMAIN plans :
    /\ plans[p].type = "done" /\ plans[p].run = r
    /\ \E c \in judged[p] : c # NoRows /\ \A i \in DOMAIN c : c[i] # World => Produced(c[i])

\* A run leaves its task completed only on a done of its own for which every
\* criterion of a contract that was not empty was judged to hold, and one whose
\* step never succeeded is not.
CompletedIsVerified ==
  run # None /\ run.outcome = "completed" => DoneHeldUp(run.id)

\* What run r was told a done would be judged by: the contract of its request,
\* pinned whole or the request is refused, and the one its first answer declared,
\* but the rows that could not be written.
DoneIsWhole(r) ==
  \E p \in DOMAIN plans :
    /\ plans[p].type = "done" /\ plans[p].run = r
    /\ \E c \in judged[p] :
         /\ 1..asked[r] \subseteq DOMAIN c
         /\ \A q \in 1..p : plans[q].run = r =>
              \A i \in 1..plans[q].criteria : i \in DOMAIN c \/ <<q, i>> \in skipped

\* A run leaves its task completed only on a done of its own that was judged by
\* every criterion its request and its first answer declared: a row that fails is
\* skipped and the ones behind it are still written (pinCompletionContract), a
\* request whose pin fails runs nothing (pinAcceptedContract), and no done is
\* judged while its own contract is still being pinned.
CompletedIsWhole ==
  run # None /\ run.outcome = "completed" => DoneIsWhole(run.id)

\* A stop ends the run although nothing makes the capability it waits for
\* return.
StopEndsRun == (run # None /\ run.cancelled) ~> (run = None)

\* Contradicted, "A run that already left running/pending keeps that outcome"
\* (markStopped): stopTask marks the copy of the row it read before the run
\* ended.
OutcomeKept ==
  [][status' = "stopped" => status \in Live \cup {"stopped"}]_vars

\* Contradicted, "The accept path writes the task as pending, exactly as it does
\* for a single instruction" (deliverBroadcast): the row is written back as it
\* was listed, an ended task's with its old outcome.
BroadcastPending ==
  [][(caster # None /\ caster' = None /\ queue' # queue) => status' = "pending"]_vars

\* Contradicted, "Only the first answer pins one: a later cycle restating its
\* contract changes nothing" (executePlan): the first answer of a later run
\* adds the criteria the first contract was too short for.
FirstAnswerPins ==
  \A i, j \in DOMAIN contract : contract[i].by = contract[j].by

\* Contradicted, "planApproved is set while a confirmation is being processed"
\* (Agent.planApproved): a confirmation stopped before the loop leaves the flag
\* set, and the next message runs the plan.
ApprovedWhileConfirmed ==
  agent.planApproved => run # None
=============================================================================
