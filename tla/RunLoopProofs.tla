---------------------------- MODULE RunLoopProofs ----------------------------
(***************************************************************************)
(* What holds of a task's run loop for every plan, contract and request,   *)
(* any number of runs and any budget. RunLoopInv is inductive: the store   *)
(* only grows (Grows), an execution carries what its stage needs (ExecOk), *)
(* the run has observed one result per cycle (RunOk), and a confirmation   *)
(* names a plan that was confirmed (AgentInv). StepsInv adds that a plan   *)
(* has one execution, Bounds that a run stays within its budget. WholeInv  *)
(* says where the contract of the current run stands: what was asked of    *)
(* it, which executions still pin, and what a done was judged by.          *)
(***************************************************************************)
EXTENDS RunLoop, SequenceTheorems, TLAPS

\* What a decision, a plan row, a step row and a judged contract are.
DecisionTypes == {"plan", "done", "blocked", "need_input"}
Criterions == Names \cup {World}
AnyDecision == [type : DecisionTypes, steps : Seq(Names), contract : Seq(Criterions), valid : BOOLEAN]
PlanRows == [type : DecisionTypes, steps : Seq(Names), run : Nat, cycle : Nat, criteria : Nat]
StepRows == [idx : Nat, ok : BOOLEAN]
Judgements == UNION {[S -> Criterions] : S \in SUBSET Nat}

\* The rows of a pinned contract.
ContractShape(c) ==
  /\ c = [i \in DOMAIN c |-> c[i]] /\ DOMAIN c \subseteq Nat
  /\ \A i \in DOMAIN c : c[i].criterion \in Criterions

\* The tables of the task: plan, step and verdict rows go together.
StoreInv ==
  /\ plans \in Seq(PlanRows) /\ rows \in Seq(Seq(StepRows)) /\ judged \in Seq(SUBSET Judgements)
  /\ Len(rows) = Len(plans) /\ Len(judged) = Len(plans)
  /\ ContractShape(contract)

\* A step of the system never takes back what the store holds of plans, step
\* rows and judgements.
Grows ==
  /\ Len(plans') \in Nat /\ Len(plans) <= Len(plans')
  /\ \A p \in 1 .. Len(plans) : plans'[p] = plans[p]
  /\ \A r : DoneHeldUp(r) => DoneHeldUp(r)'

ExecPcs == {"begin", "pin", "step", "verify", "done"}
Executions == [pc : ExecPcs, d : AnyDecision, plan : Nat, next : Nat, failed : BOOLEAN]

\* What an execution has behind it at each stage.
ExecOk(e) ==
  LET x == execs[e] IN
  /\ x \in Executions /\ e \in Nat \X Nat /\ x.plan <= Len(plans)
  /\ x.pc = "begin" => x.next = 1 /\ (x.plan # 0 => x.d.type = "plan")
  /\ x.pc = "pin" => x.plan # 0 /\ x.next \in 1 .. Len(x.d.contract)
  /\ x.pc = "step" => x.plan # 0 /\ x.d.type = "plan"
  /\ x.pc = "verify" => x.plan # 0 /\ x.d.type = "done"
  /\ x.d.type = "done" /\ x.plan # 0 => plans[x.plan].type = "done" /\ plans[x.plan].run = e[1]
  /\ x.d.type = "done" /\ x.pc = "done" /\ ~x.failed => DoneHeldUp(e[1])
  /\ RequirePlanApproval /\ x.d.type = "plan" => x.plan \in confirmed

\* Every execution, the ones stopped runs left behind included.
ExecInv == /\ execs = [e \in DOMAIN execs |-> execs[e]]
           /\ \A e \in DOMAIN execs : ExecOk(e)

RunFields == {"id", "pc", "cycles", "key", "d", "err", "cancelled", "seen", "outcome", "plan", "next"}

\* A run that pins the contract of a plan it waits with.
PinOk ==
  /\ run.d \in AnyDecision /\ run.plan \in 1 .. Len(plans)
  /\ plans[run.plan].criteria <= Len(run.d.contract)

\* The run and the results it has observed.
RunOk ==
  /\ run = [f \in RunFields |-> run[f]]
  /\ run.id \in Nat /\ run.cycles \in Nat /\ run.seen \in Seq(Nat \X Nat)
  /\ run.pc \in {"loop", "decide", "pin", "wait", "end", "leave", "left"}
  /\ run.pc \in {"loop", "decide", "pin"} => Len(run.seen) = run.cycles
  /\ run.pc = "pin" => PinOk
  /\ run.next \in Nat \ {0} /\ (run.pc # "pin" => run.next = 1)
  /\ run.pc = "wait" => Len(run.seen) + 1 = run.cycles /\ run.key = <<run.id, run.cycles>>
  /\ run.pc = "end" => run.cycles # 0
  /\ run.pc \in {"loop", "end"} /\ run.cycles # 0 =>
       /\ run.d.type \in DecisionTypes
       /\ ~run.err /\ run.d.type = "done" => DoneHeldUp(run.id)
  /\ run.outcome = "completed" => DoneHeldUp(run.id)
  /\ \A k \in 1 .. Len(run.seen) : run.seen[k] = <<run.id, k>>

RunInv == runs \in Nat /\ (run # None => RunOk)

\* A confirmation is spent by the one execution it released.
AgentInv ==
  /\ agent \in [pendingPlan : Nat, planApproved : BOOLEAN] /\ agent.pendingPlan <= Len(plans)
  /\ agent.planApproved => agent.pendingPlan # 0 /\ agent.pendingPlan \in confirmed
  /\ 0 \notin confirmed
  /\ run # None /\ run.pc \in {"decide", "pin"} => ~agent.planApproved

\* The request that is being accepted.
RequestInv ==
  request # None => request.contract \in Seq(Criterions) /\ request.next \in Nat \ {0}

RunLoopInv == StoreInv /\ ExecInv /\ RunInv /\ AgentInv /\ RequestInv

-----------------------------------------------------------------------------
(* The contract. *)

\* A contract stays one when a criterion is pinned.
LEMMA PinShape ==
  ASSUME NEW c, ContractShape(c), NEW k \in Nat, NEW row, row.criterion \in Criterions
  PROVE  ContractShape(Pin(c, k, row))
BY DEF Pin, ContractShape

\* A contract stays one when a criterion of a list is pinned.
LEMMA CriterionShape ==
  ASSUME NEW c, ContractShape(c), NEW l \in Seq(Criterions), NEW i \in 1 .. Len(l), NEW by
  PROVE  ContractShape(Pin(c, i, Criterion(l, i, by)))
<1>1. Len(l) \in Nat /\ l[i] \in Criterions BY LenProperties, ElementOfSeq
<1>2. i \in Nat /\ Criterion(l, i, by).criterion \in Criterions BY <1>1 DEF Criterion
<1>3. QED BY <1>2, PinShape

-----------------------------------------------------------------------------
(* The store only grows. *)

\* What Append does to a sequence.
LEMMA Appended ==
  ASSUME NEW S, NEW s \in Seq(S), NEW x \in S
  PROVE  /\ Append(s, x) \in Seq(S) /\ Len(Append(s, x)) = Len(s) + 1 /\ Len(s) \in Nat
         /\ DOMAIN s = 1 .. Len(s) /\ DOMAIN Append(s, x) = 1 .. Len(s) + 1
         /\ \A i \in 1 .. Len(s) : Append(s, x)[i] = s[i]
         /\ Append(s, x)[Len(s) + 1] = x
BY AppendProperties, LenProperties

\* What a judgement rests on is still there.
LEMMA HeldUpKept ==
  ASSUME StoreInv,
         \A p \in DOMAIN plans : /\ p \in DOMAIN plans' /\ plans'[p] = plans[p]
                                 /\ judged[p] \subseteq judged'[p]
                                 /\ \A k \in DOMAIN rows[p] : k \in DOMAIN rows'[p] /\ rows'[p][k] = rows[p][k]
  PROVE  \A r : DoneHeldUp(r) => DoneHeldUp(r)'
<1>1. \A n : Produced(n) => Produced(n)' BY DEF Produced
<1>2. QED BY <1>1 DEF DoneHeldUp

\* A step that writes no plan, step or verdict row keeps the store.
LEMMA StoreStands ==
  ASSUME StoreInv, UNCHANGED <<plans, rows, judged>>, ContractShape(contract')
  PROVE  StoreInv' /\ Grows
<1>1. StoreInv' BY DEF StoreInv
<1>2. \A r : DoneHeldUp(r) => DoneHeldUp(r)' BY DEF DoneHeldUp, Produced
<1>3. Len(plans) \in Nat BY LenProperties DEF StoreInv
<1>4. QED BY <1>1, <1>2, <1>3 DEF Grows

\* A plan row is appended.
LEMMA AppendGrows ==
  ASSUME StoreInv, NEW row \in PlanRows, AppendPlan(row), ContractShape(contract')
  PROVE  StoreInv' /\ Grows /\ Len(plans') = Len(plans) + 1 /\ plans'[Len(plans) + 1] = row
<1>1. plans \in Seq(PlanRows) /\ plans' = Append(plans, row) BY DEF StoreInv, AppendPlan
<1>2. rows \in Seq(Seq(StepRows)) /\ rows' = Append(rows, <<>>) /\ <<>> \in Seq(StepRows)
  BY EmptySeq DEF StoreInv, AppendPlan
<1>3. judged \in Seq(SUBSET Judgements) /\ judged' = Append(judged, {}) /\ {} \in SUBSET Judgements
  BY DEF StoreInv, AppendPlan
<1>4. /\ plans' \in Seq(PlanRows) /\ Len(plans') = Len(plans) + 1 /\ Len(plans) \in Nat
      /\ DOMAIN plans = 1 .. Len(plans) /\ DOMAIN plans' = 1 .. Len(plans) + 1
      /\ \A i \in 1 .. Len(plans) : plans'[i] = plans[i]
      /\ plans'[Len(plans) + 1] = row
  BY <1>1, Appended
<1>5. /\ rows' \in Seq(Seq(StepRows)) /\ Len(rows') = Len(rows) + 1
      /\ \A i \in 1 .. Len(rows) : rows'[i] = rows[i]
  BY <1>2, Appended
<1>6. /\ judged' \in Seq(SUBSET Judgements) /\ Len(judged') = Len(judged) + 1
      /\ \A i \in 1 .. Len(judged) : judged'[i] = judged[i]
  BY <1>3, Appended
<1>7. Len(rows) = Len(plans) /\ Len(judged) = Len(plans) BY DEF StoreInv
<1>8. StoreInv' BY <1>4, <1>5, <1>6, <1>7 DEF StoreInv
<1>9. \A r : DoneHeldUp(r) => DoneHeldUp(r)' BY <1>4, <1>5, <1>6, <1>7, HeldUpKept
<1>10. QED BY <1>4, <1>8, <1>9 DEF Grows

\* A step row is appended to its plan.
LEMMA RowGrows ==
  ASSUME StoreInv, NEW p \in 1 .. Len(plans), NEW row \in StepRows,
         rows' = [rows EXCEPT ![p] = Append(@, row)], UNCHANGED <<plans, judged, contract>>
  PROVE  StoreInv' /\ Grows
<1>1. Len(plans) \in Nat /\ DOMAIN plans = 1 .. Len(plans) /\ DOMAIN rows = 1 .. Len(plans)
  BY LenProperties DEF StoreInv
<1>2. rows[p] \in Seq(StepRows) BY <1>1, ElementOfSeq DEF StoreInv
<1>3. /\ Append(rows[p], row) \in Seq(StepRows) /\ DOMAIN rows[p] = 1 .. Len(rows[p])
      /\ Len(rows[p]) \in Nat /\ DOMAIN Append(rows[p], row) = 1 .. Len(rows[p]) + 1
      /\ \A i \in 1 .. Len(rows[p]) : Append(rows[p], row)[i] = rows[p][i]
  BY <1>2, Appended
<1>4. rows' \in Seq(Seq(StepRows)) /\ Len(rows') = Len(rows)
  BY <1>1, <1>3, ExceptSeq DEF StoreInv
<1>5. \A q \in DOMAIN plans : \A k \in DOMAIN rows[q] : k \in DOMAIN rows'[q] /\ rows'[q][k] = rows[q][k]
  <2> SUFFICES ASSUME NEW q \in DOMAIN plans, NEW k \in DOMAIN rows[q]
               PROVE  k \in DOMAIN rows'[q] /\ rows'[q][k] = rows[q][k] OBVIOUS
  <2>1. CASE q = p
    <3>1. rows'[q] = Append(rows[p], row) BY <1>1, <2>1
    <3>2. k \in 1 .. Len(rows[p]) /\ k \in 1 .. Len(rows[p]) + 1 BY <1>3, <2>1
    <3>3. QED BY <1>3, <2>1, <3>1, <3>2
  <2>2. CASE q # p BY <1>1, <2>2
  <2>3. QED BY <2>1, <2>2
<1>6. \A r : DoneHeldUp(r) => DoneHeldUp(r)' BY <1>5, HeldUpKept
<1>7. StoreInv' BY <1>4 DEF StoreInv
<1>8. QED BY <1>1, <1>6, <1>7 DEF Grows

\* A contract is judged to hold for a plan.
LEMMA JudgedGrows ==
  ASSUME StoreInv, NEW p \in 1 .. Len(plans), NEW c \in Judgements,
         judged' = [judged EXCEPT ![p] = @ \cup {c}], UNCHANGED <<plans, rows, contract>>
  PROVE  StoreInv' /\ Grows
<1>1. Len(plans) \in Nat /\ DOMAIN plans = 1 .. Len(plans) /\ DOMAIN judged = 1 .. Len(plans)
  BY LenProperties DEF StoreInv
<1>2. judged[p] \in SUBSET Judgements BY <1>1, ElementOfSeq DEF StoreInv
<1>3. judged' \in Seq(SUBSET Judgements) /\ Len(judged') = Len(judged)
  BY <1>1, <1>2, ExceptSeq DEF StoreInv
<1>4. \A q \in DOMAIN plans : judged[q] \subseteq judged'[q] BY <1>1
<1>5. \A r : DoneHeldUp(r) => DoneHeldUp(r)' BY <1>4, HeldUpKept
<1>6. StoreInv' BY <1>3 DEF StoreInv
<1>7. QED BY <1>1, <1>5, <1>6 DEF Grows

-----------------------------------------------------------------------------
(* What a step leaves alone. *)

\* An execution a step leaves alone keeps what it has behind it.
LEMMA ExecStands ==
  ASSUME StoreInv, Grows, confirmed \subseteq confirmed', NEW e, ExecOk(e), execs'[e] = execs[e]
  PROVE  ExecOk(e)'
<1>1. Len(plans) \in Nat BY LenProperties DEF StoreInv
<1>2. execs[e].plan \in Nat /\ execs[e].plan <= Len(plans) BY DEF ExecOk, Executions
<1>3. execs[e].plan <= Len(plans') BY <1>1, <1>2 DEF Grows
<1>4. execs[e].plan # 0 => plans'[execs[e].plan] = plans[execs[e].plan] BY <1>1, <1>2 DEF Grows
<1>5. DoneHeldUp(e[1]) => DoneHeldUp(e[1])' BY DEF Grows
<1>6. QED BY <1>3, <1>4, <1>5 DEF ExecOk

\* The executions stand when none of them moves.
LEMMA ExecsStand ==
  ASSUME StoreInv, ExecInv, Grows, confirmed \subseteq confirmed', UNCHANGED execs PROVE ExecInv'
<1>1. ASSUME NEW e \in DOMAIN execs PROVE ExecOk(e)' BY ExecStands DEF ExecInv
<1>2. QED BY <1>1 DEF ExecInv

\* One execution moves and the others stand.
LEMMA OneExecMoves ==
  ASSUME StoreInv, ExecInv, Grows, confirmed \subseteq confirmed', NEW e \in DOMAIN execs, NEW x,
         execs' = [execs EXCEPT ![e] = x], ExecOk(e)'
  PROVE  ExecInv'
<1>1. execs' = [f \in DOMAIN execs' |-> execs'[f]] /\ DOMAIN execs' = DOMAIN execs BY DEF ExecInv
<1>2. ASSUME NEW f \in DOMAIN execs PROVE ExecOk(f)'
  <2>1. CASE f = e BY <2>1
  <2>2. CASE f # e
    <3>1. execs'[f] = execs[f] BY <2>2 DEF ExecInv
    <3>2. QED BY <3>1, ExecStands DEF ExecInv
  <2>3. QED BY <2>1, <2>2
<1>3. QED BY <1>1, <1>2 DEF ExecInv

\* What a run has behind it stands when the store only grows.
LEMMA PinStands ==
  ASSUME Len(plans) \in Nat, Grows, PinOk, run'.d = run.d, run'.plan = run.plan
  PROVE  PinOk'
<1>1. run.plan \in 1 .. Len(plans') /\ plans'[run.plan] = plans[run.plan] BY DEF PinOk, Grows
<1>2. QED BY <1>1 DEF PinOk

\* The run stands when the store only grows.
LEMMA RunStands ==
  ASSUME StoreInv, RunInv, Grows, UNCHANGED <<run, runs>> PROVE RunInv'
<1>1. DoneHeldUp(run.id) => DoneHeldUp(run.id)' BY DEF Grows
<1>2. Len(plans) \in Nat BY LenProperties DEF StoreInv
<1>3. PinOk => PinOk' BY <1>2, PinStands
<1>4. QED BY <1>1, <1>3 DEF RunInv, RunOk

\* The agent's pending plan and its approval stand.
LEMMA AgentStands ==
  ASSUME StoreInv, AgentInv, Grows, UNCHANGED <<agent, confirmed>>,
         run' # None /\ run'.pc \in {"decide", "pin"} => ~agent.planApproved
  PROVE  AgentInv'
<1>1. Len(plans) \in Nat /\ agent.pendingPlan \in Nat BY LenProperties DEF StoreInv, AgentInv
<1>2. agent.pendingPlan <= Len(plans') BY <1>1 DEF AgentInv, Grows
<1>3. QED BY <1>2 DEF AgentInv

\* The store, the executions and the agent stand; only the run moves.
LEMMA OnlyRunMoves ==
  ASSUME RunLoopInv, UNCHANGED <<execs, plans, rows, judged, contract, agent, confirmed, request>>, RunInv',
         run' # None /\ run'.pc \in {"decide", "pin"} => ~agent.planApproved
  PROVE  RunLoopInv'
<1>1. StoreInv' /\ Grows BY StoreStands DEF RunLoopInv, StoreInv
<1>2. ExecInv' BY <1>1, ExecsStand DEF RunLoopInv
<1>3. AgentInv' BY <1>1, AgentStands DEF RunLoopInv
<1>4. RequestInv' BY DEF RunLoopInv, RequestInv
<1>5. QED BY <1>1, <1>2, <1>3, <1>4 DEF RunLoopInv

\* A done of a run that held up does so still.
LEMMA SameRun ==
  ASSUME Grows, run'.id = run.id PROVE DoneHeldUp(run.id) => DoneHeldUp(run.id)'
<1>1. \A r : DoneHeldUp(r) => DoneHeldUp(r)' BY DEF Grows
<1>2. \A r : r = run'.id /\ DoneHeldUp(r)' => DoneHeldUp(run.id)' BY DEF DoneHeldUp, Produced
<1>3. QED BY <1>1, <1>2

\* The run leaves, completed only when its done held up.
LEMMA LeaveKeeps ==
  ASSUME RunLoopInv, run # None, run.pc # "pin", NEW o, Leave(o), o = "completed" => DoneHeldUp(run.id),
         Grows, UNCHANGED runs
  PROVE  RunInv' /\ run'.pc = "leave"
<1>1. run' = [run EXCEPT !.pc = "leave", !.outcome = o] BY DEF Leave
<1>2. RunOk BY DEF RunLoopInv, RunInv
<1>3. /\ run' = [f \in RunFields |-> run'[f]] /\ run'.pc = "leave" /\ run'.outcome = o
      /\ run'.id = run.id /\ run'.cycles = run.cycles /\ run'.seen = run.seen /\ run'.next = run.next
  BY <1>1, <1>2 DEF RunOk, RunFields
<1>4. DoneHeldUp(run.id) => DoneHeldUp(run.id)' BY <1>3, SameRun
<1>5. RunOk' BY <1>2, <1>3, <1>4 DEF RunOk
<1>6. QED BY <1>3, <1>5 DEF RunInv, RunLoopInv

\* The run goes on to another stage with what it has seen.
LEMMA StageKeeps ==
  ASSUME RunLoopInv, run # None, run.pc # "pin", NEW pc \in {"decide", "end", "left"},
         run' = [run EXCEPT !.pc = pc], Grows, UNCHANGED runs,
         pc = "decide" => run.pc = "loop", pc = "end" => run.pc = "loop" /\ run.cycles # 0
  PROVE  RunInv' /\ run'.pc = pc
<1>1. RunOk BY DEF RunLoopInv, RunInv
<1>2. /\ run' = [f \in RunFields |-> run'[f]] /\ run'.pc = pc /\ run'.outcome = run.outcome
      /\ run'.id = run.id /\ run'.cycles = run.cycles /\ run'.seen = run.seen
      /\ run'.d = run.d /\ run'.err = run.err /\ run'.next = run.next
  BY <1>1 DEF RunOk, RunFields
<1>3. DoneHeldUp(run.id) => DoneHeldUp(run.id)' BY <1>2, SameRun
<1>4. RunOk' BY <1>1, <1>2, <1>3 DEF RunOk
<1>5. QED BY <1>2, <1>4 DEF RunInv, RunLoopInv

\* A decision is handed to an execution of its own.
LEMMA DispatchKeeps ==
  ASSUME RunLoopInv, run # None, run.pc \in {"loop", "decide"}, NEW d \in AnyDecision, NEW p \in Nat,
         Dispatch(d, p), p <= Len(plans), p # 0 => d.type = "plan",
         RequirePlanApproval /\ d.type = "plan" => p \in confirmed,
         UNCHANGED <<plans, rows, judged, contract, confirmed, runs, request>>
  PROVE  StoreInv' /\ Grows /\ ExecInv' /\ RunInv' /\ run'.pc = "wait" /\ RequestInv'
<1> DEFINE key == <<run.id, run.cycles + 1>>
           x == [pc |-> "begin", d |-> d, plan |-> p, next |-> 1, failed |-> FALSE]
<1>1. RunOk BY DEF RunLoopInv, RunInv
<1>2. StoreInv' /\ Grows BY StoreStands DEF RunLoopInv, StoreInv
<1>3. run' = [run EXCEPT !.pc = "wait", !.cycles = @ + 1, !.key = key, !.d = d] BY DEF Dispatch
<1>4. /\ run' = [f \in RunFields |-> run'[f]] /\ run'.pc = "wait" /\ run'.outcome = run.outcome
      /\ run'.id = run.id /\ run'.cycles = run.cycles + 1 /\ run'.seen = run.seen /\ run'.key = key
      /\ run'.next = 1
  BY <1>1, <1>3 DEF RunOk, RunFields
<1>5. DoneHeldUp(run.id) => DoneHeldUp(run.id)' BY <1>2, <1>4, SameRun
<1>6. RunOk'
  <2>1. run.seen \in Seq(Nat \X Nat) /\ Len(run.seen) = run.cycles /\ run.cycles \in Nat
    BY <1>1 DEF RunOk
  <2>2. \A k \in 1 .. Len(run'.seen) : run'.seen[k] = <<run'.id, k>> BY <1>1, <1>4 DEF RunOk
  <2>3. (run.outcome = "completed" => DoneHeldUp(run.id))'
    <3>1. run.outcome = "completed" => DoneHeldUp(run.id) BY <1>1 DEF RunOk
    <3>2. QED BY <1>4, <1>5, <3>1
  <2>4. run'.key = <<run'.id, run'.cycles>> /\ Len(run'.seen) + 1 = run'.cycles
    BY <1>4, <2>1
  <2>5. run'.cycles \in Nat /\ run'.seen \in Seq(Nat \X Nat) BY <1>4, <2>1
  <2>6. run' = [f \in RunFields |-> run'[f]] /\ run'.id \in Nat /\ run'.pc = "wait" /\ run'.next = 1
    BY <1>1, <1>4 DEF RunOk
  <2>7. QED BY <2>2, <2>3, <2>4, <2>5, <2>6 DEF RunOk
<1>7. execs' = [e \in DOMAIN execs \cup {key} |-> IF e = key THEN x ELSE execs[e]] BY DEF Dispatch
<1>8. key \in Nat \X Nat BY <1>1 DEF RunOk
<1>9. /\ x \in Executions /\ x.pc = "begin" /\ x.d = d /\ x.plan = p /\ x.next = 1
  BY DEF Executions, ExecPcs
<1> HIDE DEF key, x
<1>10. DOMAIN execs' = DOMAIN execs \cup {key} /\ execs'[key] = x
       /\ \A e \in DOMAIN execs : e # key => execs'[e] = execs[e]
  BY <1>7
<1>11. ASSUME NEW e \in DOMAIN execs' PROVE ExecOk(e)'
  <2>1. CASE e = key BY <1>8, <1>9, <1>10, <2>1 DEF ExecOk
  <2>2. CASE e # key BY <1>2, <1>10, <2>2, ExecStands DEF RunLoopInv, ExecInv
  <2>3. QED BY <2>1, <2>2
<1>12. ExecInv' BY <1>7, <1>11 DEF ExecInv
<1>13. RequestInv' BY DEF RunLoopInv, RequestInv
<1>14. QED BY <1>2, <1>4, <1>6, <1>12, <1>13 DEF RunInv, RunLoopInv

-----------------------------------------------------------------------------
(* The actions of the loop. *)

\* What a planner may answer is a decision.
LEMMA AnswersTyped == Answers \subseteq AnyDecision
<1>1. Types \subseteq DecisionTypes /\ Contracts \subseteq Seq(Criterions)
  BY RunLoopAssumption DEF DecisionTypes, Criterions
<1>2. Plans \cup {<<>>} \subseteq Seq(Names) BY RunLoopAssumption, EmptySeq
<1>3. QED BY <1>1, <1>2 DEF Answers, Decision, AnyDecision

\* Writing the row of a request and queueing its message keep the invariant.
LEMMA AcceptKeeps ==
  ASSUME RunLoopInv, AcceptQueue \/ \E m \in Requests : AcceptRow(m[1], m[2]) PROVE RunLoopInv'
<1>1. UNCHANGED <<run, runs, agent, execs, plans, rows, judged, contract, confirmed>>
  BY DEF AcceptRow, AcceptQueue, store
<1>2. StoreInv' /\ Grows BY <1>1, StoreStands DEF RunLoopInv, StoreInv
<1>3. ExecInv' BY <1>1, <1>2, ExecsStand DEF RunLoopInv
<1>4. RunInv' BY <1>1, <1>2, RunStands DEF RunLoopInv
<1>5. AgentInv' BY <1>1, <1>2, AgentStands DEF RunLoopInv, AgentInv
<1>6. RequestInv'
  <2>1. \A m \in Requests : m[2] \in Seq(Criterions) BY RunLoopAssumption DEF Criterions
  <2>2. CASE AcceptQueue BY <2>2 DEF AcceptQueue, RequestInv
  <2>3. ASSUME NEW m \in Requests, AcceptRow(m[1], m[2]) PROVE RequestInv'
    BY <2>1, <2>3 DEF AcceptRow, RequestInv
  <2>4. QED BY <2>2, <2>3
<1>7. QED BY <1>2, <1>3, <1>4, <1>5, <1>6 DEF RunLoopInv

\* Pinning the criteria of a request one by one keeps the invariant.
LEMMA AcceptPinKeeps == ASSUME RunLoopInv, AcceptPin PROVE RunLoopInv'
<1>1. /\ request # None /\ request.next <= Len(request.contract)
      /\ UNCHANGED <<run, runs, agent, execs, plans, rows, judged, confirmed>>
  BY DEF AcceptPin
<1>2. request.contract \in Seq(Criterions) /\ request.next \in Nat \ {0}
  BY <1>1 DEF RunLoopInv, RequestInv
<1>3. ContractShape(contract')
  <2>1. Len(request.contract) \in Nat BY <1>2, LenProperties
  <2>2. request.next \in 1 .. Len(request.contract) BY <1>1, <1>2, <2>1
  <2>3. ContractShape(contract) BY DEF RunLoopInv, StoreInv
  <2>4. contract' = contract \/ contract' = Pin(contract, request.next, Criterion(request.contract, request.next, 0))
    BY DEF AcceptPin
  <2>5. QED BY <1>2, <2>2, <2>3, <2>4, CriterionShape
<1>4. StoreInv' /\ Grows BY <1>1, <1>3, StoreStands DEF RunLoopInv
<1>5. ExecInv' BY <1>1, <1>4, ExecsStand DEF RunLoopInv
<1>6. RunInv' BY <1>1, <1>4, RunStands DEF RunLoopInv
<1>7. AgentInv' BY <1>1, <1>4, AgentStands DEF RunLoopInv, AgentInv
<1>8. RequestInv'
  <2> DEFINE one == [request EXCEPT !.next = @ + 1]
  <2>1. request' = one \/ request' = None BY DEF AcceptPin
  <2>2. one.contract = request.contract /\ one.next \in Nat \ {0}
    BY <1>2
  <2> HIDE DEF one
  <2>3. QED BY <1>2, <2>1, <2>2 DEF RequestInv
<1>9. QED BY <1>4, <1>5, <1>6, <1>7, <1>8 DEF RunLoopInv

\* Taking the next message keeps the invariant: the approval is of the plan
\* that waits.
LEMMA StartKeeps == ASSUME RunLoopInv, Start PROVE RunLoopInv'
<1>1. /\ runs' = runs + 1 /\ UNCHANGED <<execs, plans, rows, judged, contract>>
      /\ run' = [id |-> runs + 1, pc |-> "loop", cycles |-> 0, key |-> None, d |-> None,
                 err |-> FALSE, cancelled |-> FALSE, seen |-> <<>>, outcome |-> None,
                 plan |-> 0, next |-> 1]
  BY DEF Start, store
<1>2. StoreInv' /\ Grows BY <1>1, StoreStands DEF RunLoopInv, StoreInv
<1>3. confirmed \subseteq confirmed' BY DEF Start
<1>4. ExecInv' BY <1>1, <1>2, <1>3, ExecsStand DEF RunLoopInv
<1>5. /\ run' = [f \in RunFields |-> run'[f]] /\ run'.pc = "loop" /\ run'.id = runs + 1
      /\ run'.cycles = 0 /\ run'.seen = <<>> /\ run'.outcome = None /\ run'.next = 1
  BY <1>1 DEF RunFields
<1>6. <<>> \in Seq(Nat \X Nat) /\ Len(<<>>) = 0 BY EmptySeq
<1>7. run'.outcome # "completed" BY <1>5, RunLoopAssumption
<1>8. runs \in Nat BY DEF RunLoopInv, RunInv
<1>9. RunOk' BY <1>5, <1>6, <1>7, <1>8 DEF RunOk
<1>10. RunInv' BY <1>1, <1>8, <1>9 DEF RunInv
<1>11. AgentInv'
  <2> DEFINE released == Head(queue).kind = "approval" /\ agent.pendingPlan # 0
  <2>1. /\ agent' = [agent EXCEPT !.planApproved = @ \/ released]
        /\ confirmed' = IF released THEN confirmed \cup {agent.pendingPlan} ELSE confirmed
    BY DEF Start
  <2>2. agent \in [pendingPlan : Nat, planApproved : BOOLEAN] BY DEF RunLoopInv, AgentInv
  <2>3. released \in BOOLEAN OBVIOUS
  <2> HIDE DEF released
  <2>4. /\ agent' \in [pendingPlan : Nat, planApproved : BOOLEAN]
        /\ agent'.pendingPlan = agent.pendingPlan
        /\ agent'.planApproved = (agent.planApproved \/ released)
    BY <2>1, <2>2, <2>3
  <2>5. UNCHANGED plans BY <1>1
  <2>6. QED BY <1>5, <2>1, <2>4, <2>5 DEF RunLoopInv, AgentInv, released
<1>12. RequestInv' BY DEF Start, RunLoopInv, RequestInv
<1>13. QED BY <1>2, <1>4, <1>10, <1>11, <1>12 DEF RunLoopInv

\* The steps of a stop and of a broadcast that only touch the task row and
\* the queue keep the invariant.
LEMMA OutsideKeeps ==
  ASSUME RunLoopInv, StopRead \/ StopMark \/ BroadcastList \/ BroadcastDeliver PROVE RunLoopInv'
<1>1. UNCHANGED <<run, runs, agent, execs, plans, rows, judged, contract, confirmed, request>>
  BY DEF StopRead, StopMark, BroadcastList, BroadcastDeliver, store, door
<1>2. Grows BY <1>1, StoreStands DEF RunLoopInv, StoreInv
<1>3. RunInv' BY <1>1, <1>2, RunStands DEF RunLoopInv
<1>4. QED BY <1>1, <1>3, OnlyRunMoves DEF RunLoopInv, AgentInv

\* Cancelling the run's context keeps the invariant.
LEMMA StopCancelKeeps == ASSUME RunLoopInv, StopCancel PROVE RunLoopInv'
<1>1. UNCHANGED <<runs, agent, execs, plans, rows, judged, contract, confirmed, request>>
  BY DEF StopCancel, store, door
<1>2. Grows BY <1>1, StoreStands DEF RunLoopInv, StoreInv
<1>3. CASE run = None
  <2>1. UNCHANGED run BY <1>3 DEF StopCancel
  <2>2. RunInv' BY <1>1, <1>2, <2>1, RunStands DEF RunLoopInv
  <2>3. QED BY <1>1, <2>1, <2>2, OnlyRunMoves DEF RunLoopInv, AgentInv
<1>4. CASE run # None
  <2>1. run' = [run EXCEPT !.cancelled = TRUE] /\ RunOk BY <1>4 DEF StopCancel, RunLoopInv, RunInv
  <2>2. /\ run' = [f \in RunFields |-> run'[f]]
        /\ \A f \in RunFields : f # "cancelled" => run'[f] = run[f]
    BY <2>1 DEF RunOk, RunFields
  <2>3. /\ run'.pc = run.pc /\ run'.outcome = run.outcome
        /\ run'.id = run.id /\ run'.cycles = run.cycles /\ run'.seen = run.seen
        /\ run'.d = run.d /\ run'.err = run.err /\ run'.key = run.key
        /\ run'.plan = run.plan /\ run'.next = run.next
    BY <2>2 DEF RunFields
  <2>4. DoneHeldUp(run.id) => DoneHeldUp(run.id)' BY <1>2, <2>3, SameRun
  <2>5. Len(plans) \in Nat BY LenProperties DEF RunLoopInv, StoreInv
  <2>6. PinOk => PinOk' BY <1>2, <2>3, <2>5, PinStands
  <2>7. RunOk' BY <2>1, <2>2, <2>3, <2>4, <2>6 DEF RunOk
  <2>8. RunInv' BY <1>1, <2>7 DEF RunInv, RunLoopInv
  <2>9. QED BY <1>1, <1>4, <2>3, <2>8, OnlyRunMoves DEF RunLoopInv, AgentInv
<1>5. QED BY <1>3, <1>4

\* A run that leaves because it was stopped, failed to decide or came to its
\* end keeps the invariant; only a done that held up leaves it completed.
LEMMA LeavesKeep ==
  ASSUME RunLoopInv, LoopStopped \/ WaitStopped \/ DecideFails \/ End PROVE RunLoopInv'
<1>1. run # None /\ UNCHANGED <<runs, agent, execs, plans, rows, judged, contract, confirmed, request>>
  BY DEF LoopStopped, WaitStopped, DecideFails, End, store, door
<1>2. Grows BY <1>1, StoreStands DEF RunLoopInv, StoreInv
<1>3. PICK o : Leave(o) /\ (o = "completed" => DoneHeldUp(run.id))
  <2>1. CASE LoopStopped \/ WaitStopped \/ DecideFails
    BY <2>1 DEF LoopStopped, WaitStopped, DecideFails
  <2>2. CASE End
    <3>1. Leave(Outcome) /\ run.pc = "end" BY <2>2 DEF End
    <3>2. /\ run.d.type \in DecisionTypes
          /\ ~run.err /\ run.d.type = "done" => DoneHeldUp(run.id)
      BY <1>1, <3>1 DEF RunLoopInv, RunInv, RunOk
    <3>3. Outcome = "completed" => DoneHeldUp(run.id)
      BY <3>2 DEF Outcome, TaskStatusFor, Concludes, DecisionTypes
    <3>4. QED BY <3>1, <3>3
  <2>3. QED BY <2>1, <2>2
<1>4. run.pc # "pin" BY DEF LoopStopped, WaitStopped, WaitCancelled, DecideFails, End
<1>5. RunInv' /\ run'.pc = "leave" BY <1>1, <1>2, <1>3, <1>4, LeaveKeeps
<1>6. QED BY <1>1, <1>5, OnlyRunMoves

\* Dispatching a confirmed plan spends the confirmation.
LEMMA LoopApprovedKeeps == ASSUME RunLoopInv, LoopApproved PROVE RunLoopInv'
<1> DEFINE p == agent.pendingPlan
           d == [type |-> "plan", steps |-> plans[p].steps, contract |-> <<>>, valid |-> TRUE]
<1>1. /\ run # None /\ run.pc = "loop" /\ agent.planApproved /\ p # 0 /\ Dispatch(d, p)
      /\ UNCHANGED <<plans, rows, judged, contract, confirmed, runs, request>>
      /\ agent' = [pendingPlan |-> 0, planApproved |-> FALSE]
  BY DEF LoopApproved, store, door
<1>2. p \in Nat /\ p <= Len(plans) /\ p \in confirmed BY <1>1 DEF RunLoopInv, AgentInv
<1>3. plans[p] \in PlanRows
  <2>1. plans \in Seq(PlanRows) /\ p \in 1 .. Len(plans)
    BY <1>1, <1>2, LenProperties DEF RunLoopInv, StoreInv
  <2>2. QED BY <2>1, ElementOfSeq
<1>4. d \in AnyDecision /\ d.type = "plan"
  <2>1. <<>> \in Seq(Criterions) /\ plans[p].steps \in Seq(Names) BY <1>3, EmptySeq DEF PlanRows
  <2>2. QED BY <2>1 DEF AnyDecision, DecisionTypes
<1> HIDE DEF d
<1>5. StoreInv' /\ Grows /\ ExecInv' /\ RunInv' /\ run'.pc = "wait" /\ RequestInv'
  BY <1>1, <1>2, <1>4, DispatchKeeps
<1>6. AgentInv'
  <2>1. agent' \in [pendingPlan : Nat, planApproved : BOOLEAN] /\ agent'.pendingPlan = 0 /\ ~agent'.planApproved
    BY <1>1
  <2>2. Len(plans') \in Nat BY <1>5 DEF Grows
  <2>3. 0 \notin confirmed' BY <1>1 DEF RunLoopInv, AgentInv
  <2>4. QED BY <2>1, <2>2, <2>3 DEF AgentInv
<1>7. QED BY <1>5, <1>6 DEF RunLoopInv

\* Looking at the budget keeps the invariant.
LEMMA LoopBudgetKeeps == ASSUME RunLoopInv, LoopBudget PROVE RunLoopInv'
<1>1. /\ run # None /\ run.pc = "loop" /\ ~(agent.planApproved /\ agent.pendingPlan # 0)
      /\ UNCHANGED <<runs, agent, execs, plans, rows, judged, contract, confirmed, request>>
  BY DEF LoopBudget, store, door
<1>2. Grows BY <1>1, StoreStands DEF RunLoopInv, StoreInv
<1>3. PICK pc \in {"decide", "end"} : run' = [run EXCEPT !.pc = pc] /\ (pc = "end" => Spent)
  BY DEF LoopBudget
<1>4. pc = "end" => run.cycles # 0
  <2>1. run.cycles \in Nat BY <1>1 DEF RunLoopInv, RunInv, RunOk
  <2>2. QED BY <1>3, <2>1, RunLoopAssumption DEF Spent
<1>5. RunInv' /\ run'.pc = pc BY <1>1, <1>2, <1>3, <1>4, StageKeeps
<1>6. ~agent.planApproved BY <1>1 DEF RunLoopInv, AgentInv
<1>7. QED BY <1>1, <1>5, <1>6, OnlyRunMoves

\* Observing the result of the current decision keeps the order of results.
LEMMA ObserveKeeps == ASSUME RunLoopInv, Observe PROVE RunLoopInv'
<1>1. /\ run # None /\ run.pc = "wait"
      /\ UNCHANGED <<runs, agent, execs, plans, rows, judged, contract, confirmed, request>>
  BY DEF Observe, store, door
<1>2. Grows BY <1>1, StoreStands DEF RunLoopInv, StoreInv
<1>3. PICK e \in Events :
        run' = [run EXCEPT !.d = execs[e].d, !.err = execs[e].failed, !.seen = Append(@, e),
                           !.pc = IF Concludes(execs[e].d) /\ ~execs[e].failed THEN "end" ELSE "loop"]
  BY DEF Observe
<1>4. RunOk BY <1>1 DEF RunLoopInv, RunInv
<1>5. e \in DOMAIN execs /\ e = <<run.id, run.cycles>> /\ execs[e].pc = "done" /\ ExecOk(e)
  BY <1>1, <1>3, <1>4 DEF Events, RunOk, RunLoopInv, ExecInv
<1>6. /\ run' = [f \in RunFields |-> run'[f]] /\ run'.outcome = run.outcome
      /\ run'.pc = (IF Concludes(execs[e].d) /\ ~execs[e].failed THEN "end" ELSE "loop")
      /\ run'.id = run.id /\ run'.cycles = run.cycles /\ run'.seen = Append(run.seen, e)
      /\ run'.d = execs[e].d /\ run'.err = execs[e].failed /\ run'.next = run.next
  BY <1>3, <1>4 DEF RunOk, RunFields
<1>7. run'.pc \in {"loop", "end"} BY <1>6
<1>8. e \in Nat \X Nat /\ e[1] = run.id BY <1>4, <1>5 DEF RunOk
<1>9. /\ run'.seen \in Seq(Nat \X Nat) /\ Len(run'.seen) = Len(run.seen) + 1 /\ Len(run.seen) \in Nat
      /\ \A k \in 1 .. Len(run.seen) : run'.seen[k] = run.seen[k]
      /\ run'.seen[Len(run.seen) + 1] = e
  BY <1>4, <1>6, <1>8, Appended DEF RunOk
<1>10. run.cycles = Len(run.seen) + 1 BY <1>1, <1>4 DEF RunOk
<1>11. \A k \in 1 .. Len(run'.seen) : run'.seen[k] = <<run'.id, k>>
  <2> SUFFICES ASSUME NEW k \in 1 .. Len(run.seen) + 1 PROVE run'.seen[k] = <<run.id, k>>
    BY <1>6, <1>9
  <2>1. CASE k = Len(run.seen) + 1 BY <1>5, <1>9, <1>10, <2>1
  <2>2. CASE k # Len(run.seen) + 1
    <3>1. k \in 1 .. Len(run.seen) BY <1>9, <2>2
    <3>2. QED BY <1>4, <1>9, <3>1 DEF RunOk
  <2>3. QED BY <2>1, <2>2
<1>12. DoneHeldUp(run.id) => DoneHeldUp(run.id)' BY <1>2, <1>6, SameRun
<1>13. run'.d.type \in DecisionTypes BY <1>5, <1>6 DEF ExecOk, Executions, AnyDecision
<1>14. ~run'.err /\ run'.d.type = "done" => DoneHeldUp(run.id) BY <1>5, <1>6, <1>8 DEF ExecOk
<1>15. RunOk'
  <2>1. run'.id \in Nat /\ run'.cycles \in Nat /\ run'.cycles # 0 /\ Len(run'.seen) = run'.cycles
    BY <1>4, <1>6, <1>9, <1>10 DEF RunOk
  <2>2. run'.pc \in {"loop", "decide", "pin", "wait", "end", "leave", "left"} /\ run'.pc \notin {"wait", "pin"} BY <1>7
  <2>3. ~run'.err /\ run'.d.type = "done" => DoneHeldUp(run.id)' BY <1>12, <1>14
  <2>4. run'.outcome = "completed" => DoneHeldUp(run.id)' BY <1>4, <1>6, <1>12 DEF RunOk
  <2>5. run' = [f \in RunFields |-> run'[f]] /\ run'.seen \in Seq(Nat \X Nat) /\ run'.next = 1
    BY <1>1, <1>4, <1>6, <1>9 DEF RunOk
  <2>6. QED BY <1>11, <1>13, <2>1, <2>2, <2>3, <2>4, <2>5 DEF RunOk
<1>16. RunInv' BY <1>1, <1>15 DEF RunInv, RunLoopInv
<1>17. QED BY <1>1, <1>7, <1>16, OnlyRunMoves

\* Writing the outcome to the task row keeps the invariant.
LEMMA PersistKeeps == ASSUME RunLoopInv, Persist PROVE RunLoopInv'
<1>1. /\ run # None /\ run.pc = "leave" /\ run' = [run EXCEPT !.pc = "left"]
      /\ UNCHANGED <<runs, agent, execs, plans, rows, judged, contract, confirmed, request>>
  BY DEF Persist, store, door
<1>2. Grows BY <1>1, StoreStands DEF RunLoopInv, StoreInv
<1>3. RunInv' /\ run'.pc = "left" BY <1>1, <1>2, StageKeeps
<1>4. QED BY <1>1, <1>3, OnlyRunMoves

\* Returning from a run keeps the invariant.
LEMMA ReturnKeeps == ASSUME RunLoopInv, Return PROVE RunLoopInv'
<1>1. /\ run' = None /\ UNCHANGED <<runs, agent, plans, rows, judged, contract, confirmed>>
      /\ execs' = [e \in {e \in DOMAIN execs : execs[e].pc # "done"} |-> execs[e]]
  BY DEF Return, store
<1>2. StoreInv' /\ Grows BY <1>1, StoreStands DEF RunLoopInv, StoreInv
<1>3. RunInv' BY <1>1 DEF RunInv, RunLoopInv
<1>4. AgentInv' BY <1>1, <1>2, AgentStands DEF RunLoopInv
<1>5. ExecInv'
  <2>1. execs' = [e \in DOMAIN execs' |-> execs'[e]] BY <1>1
  <2>2. ASSUME NEW e \in DOMAIN execs' PROVE ExecOk(e)'
    <3>1. e \in DOMAIN execs /\ execs'[e] = execs[e] BY <1>1
    <3>2. QED BY <1>1, <1>2, <3>1, ExecStands DEF RunLoopInv, ExecInv
  <2>3. QED BY <2>1, <2>2 DEF ExecInv
<1>6. RequestInv' BY DEF Return, door, RunLoopInv, RequestInv
<1>7. QED BY <1>2, <1>3, <1>4, <1>5, <1>6 DEF RunLoopInv

\* Dispatching a decision keeps the invariant: a plan only without
\* RequirePlanApproval.
LEMMA DecideExecuteKeeps == ASSUME RunLoopInv, NEW d \in Answers, DecideExecute(d) PROVE RunLoopInv'
<1>1. /\ run # None /\ run.pc = "decide" /\ ~NeedsPlanApproval(d) /\ Dispatch(d, 0)
      /\ UNCHANGED <<plans, rows, judged, contract, confirmed, runs, agent, request>>
  BY DEF DecideExecute, store, door
<1>2. d \in AnyDecision BY AnswersTyped
<1>3. ~agent.planApproved BY <1>1 DEF RunLoopInv, AgentInv
<1>4. RequirePlanApproval => d.type # "plan" BY <1>1, <1>3 DEF NeedsPlanApproval
<1>5. 0 <= Len(plans) BY LenProperties DEF RunLoopInv, StoreInv
<1>6. StoreInv' /\ Grows /\ ExecInv' /\ RunInv' /\ run'.pc = "wait" /\ RequestInv'
  BY <1>1, <1>2, <1>4, <1>5, DispatchKeeps
<1>7. AgentInv' BY <1>1, <1>6, AgentStands DEF RunLoopInv
<1>8. QED BY <1>6, <1>7 DEF RunLoopInv

\* Writing the plan that waits for approval keeps the invariant and leaves
\* nothing running.
LEMMA DecidePauseKeeps == ASSUME RunLoopInv, NEW d \in Answers, DecidePause(d) PROVE RunLoopInv'
<1>1. /\ run # None /\ run.pc = "decide" /\ ~agent.planApproved /\ RunOk
      /\ UNCHANGED <<runs, execs, agent, confirmed, request>>
  BY DEF DecidePause, NeedsPlanApproval, door, RunLoopInv, RunInv
<1>2. d \in AnyDecision BY AnswersTyped
<1>3. CASE UNCHANGED store /\ Leave("error")
  <2>1. UNCHANGED <<plans, rows, judged, contract>> BY <1>3 DEF store
  <2>2. Grows BY <2>1, StoreStands DEF RunLoopInv, StoreInv
  <2>3. RunInv' /\ run'.pc = "leave" BY <1>1, <1>3, <2>2, LeaveKeeps
  <2>4. QED BY <1>1, <2>1, <2>3, OnlyRunMoves
<1>4. CASE /\ AppendPlan(PlanRow(d, <<run.id, run.cycles + 1>>)) /\ UNCHANGED contract
           /\ run' = [run EXCEPT !.pc = "pin", !.d = d, !.plan = Len(plans) + 1]
  <2> DEFINE row == PlanRow(d, <<run.id, run.cycles + 1>>)
  <2>1. run.id \in Nat /\ run.cycles + 1 \in Nat BY <1>1 DEF RunOk
  <2>2. Len(d.contract) \in Nat BY <1>2, LenProperties DEF AnyDecision
  <2>3. row \in PlanRows /\ row.criteria \in {0, Len(d.contract)}
    BY <1>2, <2>1, <2>2 DEF PlanRow, PlanRows, AnyDecision
  <2> HIDE DEF row
  <2>4. StoreInv' /\ Grows /\ Len(plans') = Len(plans) + 1 /\ plans'[Len(plans) + 1] = row
    BY <1>4, <2>3, AppendGrows DEF RunLoopInv, StoreInv, row
  <2>5. ExecInv' BY <1>1, <2>4, ExecsStand DEF RunLoopInv
  <2>6. /\ run' = [f \in RunFields |-> run'[f]] /\ run'.pc = "pin" /\ run'.outcome = run.outcome
        /\ run'.id = run.id /\ run'.cycles = run.cycles /\ run'.seen = run.seen
        /\ run'.d = d /\ run'.plan = Len(plans) + 1 /\ run'.next = 1
    BY <1>1, <1>4 DEF RunOk, RunFields
  <2>7. Len(plans) \in Nat BY LenProperties DEF RunLoopInv, StoreInv
  <2>8. DoneHeldUp(run.id) => DoneHeldUp(run.id)' BY <2>4, <2>6, SameRun
  <2>9. PinOk' BY <1>2, <2>2, <2>3, <2>4, <2>6, <2>7 DEF PinOk
  <2>10. RunOk' BY <1>1, <2>6, <2>8, <2>9 DEF RunOk
  <2>11. RunInv' BY <1>1, <2>10 DEF RunInv, RunLoopInv
  <2>12. AgentInv' BY <1>1, <2>4, <2>6, AgentStands DEF RunLoopInv
  <2>13. RequestInv' BY <1>1 DEF RunLoopInv, RequestInv
  <2>14. QED BY <2>4, <2>5, <2>11, <2>12, <2>13 DEF RunLoopInv
<1>5. QED BY <1>3, <1>4 DEF DecidePause

\* Pinning a row of the plan that waits keeps the invariant.
LEMMA PausePinKeeps == ASSUME RunLoopInv, PausePin PROVE RunLoopInv'
<1>1. /\ run # None /\ run.pc = "pin" /\ RunOk /\ PinOk /\ run.next <= plans[run.plan].criteria
      /\ UNCHANGED <<runs, agent, execs, plans, rows, judged, confirmed, request>>
  BY DEF PausePin, ToPin, door, RunLoopInv, RunInv, RunOk
<1>2. PICK ok \in BOOLEAN : /\ PinRow(run.plan, run.d, run.next, run.id, ok)
                            /\ run' = [run EXCEPT !.next = NextRow(@, ToPin, ok)]
  BY DEF PausePin
<1>3. /\ run.d.contract \in Seq(Criterions) /\ Len(run.d.contract) \in Nat /\ run.next \in Nat \ {0}
      /\ plans[run.plan].criteria \in Nat
  <2>1. plans[run.plan] \in PlanRows
    BY <1>1, ElementOfSeq DEF PinOk, RunLoopInv, StoreInv
  <2>2. run.d.contract \in Seq(Criterions) BY <1>1 DEF PinOk, AnyDecision
  <2>3. QED BY <1>1, <2>1, <2>2, LenProperties DEF RunOk, PlanRows
<1>4. run.next \in 1 .. Len(run.d.contract) BY <1>1, <1>3 DEF PinOk
<1>5. ContractShape(contract')
  <2>1. contract' = contract \/ contract' = Pin(contract, run.next, Criterion(run.d.contract, run.next, run.id))
    BY <1>2 DEF PinRow
  <2>2. ContractShape(contract) BY DEF RunLoopInv, StoreInv
  <2>3. QED BY <1>3, <1>4, <2>1, <2>2, CriterionShape
<1>6. StoreInv' /\ Grows BY <1>1, <1>5, StoreStands DEF RunLoopInv
<1>7. ExecInv' BY <1>1, <1>6, ExecsStand DEF RunLoopInv
<1>8. /\ run' = [f \in RunFields |-> run'[f]] /\ run'.pc = run.pc /\ run'.outcome = run.outcome
      /\ run'.id = run.id /\ run'.cycles = run.cycles /\ run'.seen = run.seen
      /\ run'.d = run.d /\ run'.plan = run.plan /\ run'.next = run.next + 1
  BY <1>1, <1>2 DEF RunOk, RunFields, NextRow
<1>9. DoneHeldUp(run.id) => DoneHeldUp(run.id)' BY <1>6, <1>8, SameRun
<1>10. PinOk' /\ run'.next \in Nat \ {0} BY <1>1, <1>3, <1>8 DEF PinOk
<1>11. RunOk' BY <1>1, <1>8, <1>9, <1>10 DEF RunOk
<1>12. RunInv' BY <1>1, <1>11 DEF RunInv, RunLoopInv
<1>13. AgentInv' BY <1>1, <1>6, <1>8, AgentStands DEF RunLoopInv, AgentInv
<1>14. RequestInv' BY <1>1 DEF RunLoopInv, RequestInv
<1>15. QED BY <1>6, <1>7, <1>12, <1>13, <1>14 DEF RunLoopInv

\* The run pauses on a plan nothing has confirmed.
LEMMA PauseKeeps == ASSUME RunLoopInv, Pause PROVE RunLoopInv'
<1>1. /\ run # None /\ run.pc = "pin" /\ RunOk /\ PinOk
      /\ UNCHANGED <<runs, execs, plans, rows, judged, contract, confirmed, request>>
      /\ agent' = [agent EXCEPT !.pendingPlan = run.plan]
      /\ run' = [run EXCEPT !.pc = "leave", !.outcome = "awaiting_approval", !.next = 1]
  BY DEF Pause, store, door, RunLoopInv, RunInv, RunOk
<1>2. StoreInv' /\ Grows BY <1>1, StoreStands DEF RunLoopInv, StoreInv
<1>3. ExecInv' BY <1>1, <1>2, ExecsStand DEF RunLoopInv
<1>4. /\ run' = [f \in RunFields |-> run'[f]] /\ run'.pc = "leave" /\ run'.outcome = "awaiting_approval"
      /\ run'.id = run.id /\ run'.cycles = run.cycles /\ run'.seen = run.seen /\ run'.next = 1
  BY <1>1 DEF RunOk, RunFields
<1>5. RunOk'
  <2>1. /\ run.id \in Nat /\ run.cycles \in Nat /\ run.seen \in Seq(Nat \X Nat)
        /\ \A k \in 1 .. Len(run.seen) : run.seen[k] = <<run.id, k>>
    BY <1>1 DEF RunOk
  <2>2. \A k \in 1 .. Len(run'.seen) : run'.seen[k] = <<run'.id, k>> BY <1>4, <2>1
  <2>3. QED BY <1>4, <2>1, <2>2 DEF RunOk
<1>6. RunInv' BY <1>1, <1>5 DEF RunInv, RunLoopInv
<1>7. AgentInv'
  <2>1. agent \in [pendingPlan : Nat, planApproved : BOOLEAN] /\ ~agent.planApproved /\ 0 \notin confirmed
    BY <1>1 DEF RunLoopInv, AgentInv
  <2>2. run.plan \in Nat /\ run.plan <= Len(plans) /\ Len(plans) \in Nat
    BY <1>1, LenProperties DEF PinOk, RunLoopInv, StoreInv
  <2>3. agent' \in [pendingPlan : Nat, planApproved : BOOLEAN] /\ agent'.pendingPlan = run.plan
        /\ agent'.planApproved = agent.planApproved
    BY <1>1, <2>1, <2>2
  <2>4. QED BY <1>1, <1>4, <2>1, <2>2, <2>3 DEF AgentInv
<1>8. RequestInv' BY <1>1 DEF RunLoopInv, RequestInv
<1>9. QED BY <1>2, <1>3, <1>6, <1>7, <1>8 DEF RunLoopInv

-----------------------------------------------------------------------------
(* The actions of an execution. *)

\* The rest of the state when an execution writes to the store.
LEMMA ExecLeavesRest ==
  ASSUME RunLoopInv, StoreInv', Grows, ExecInv', UNCHANGED <<run, runs, agent, confirmed, request>>
  PROVE  RunLoopInv'
<1>1. RunInv' BY RunStands DEF RunLoopInv
<1>2. AgentInv' BY AgentStands DEF RunLoopInv, AgentInv
<1>3. RequestInv' BY DEF RunLoopInv, RequestInv
<1>4. QED BY <1>1, <1>2, <1>3 DEF RunLoopInv

\* A cycle that ends in failure promises nothing.
LEMMA FailedEnds ==
  ASSUME RunLoopInv, NEW e \in DOMAIN execs, Ended(e, TRUE), StoreInv', Grows, UNCHANGED confirmed
  PROVE  ExecInv'
<1> DEFINE x == [execs[e] EXCEPT !.pc = "done", !.failed = TRUE, !.next = 1]
<1>1. ExecOk(e) /\ execs[e] \in Executions BY DEF RunLoopInv, ExecInv, ExecOk
<1>2. execs' = [execs EXCEPT ![e] = x] BY DEF Ended
<1>3. /\ x \in Executions /\ x.pc = "done" /\ x.failed /\ x.d = execs[e].d /\ x.plan = execs[e].plan
  BY <1>1 DEF Executions, ExecPcs
<1> HIDE DEF x
<1>4. execs'[e] = x BY <1>2 DEF RunLoopInv, ExecInv
<1>5. ExecOk(e)'
  <2>1. Len(plans) \in Nat /\ x.plan \in Nat BY <1>3, LenProperties DEF RunLoopInv, StoreInv, Executions
  <2>2. x.plan <= Len(plans') /\ (x.plan # 0 => plans'[x.plan] = plans[x.plan])
    BY <1>1, <1>3, <2>1 DEF Grows, ExecOk
  <2>3. QED BY <1>1, <1>3, <1>4, <2>2 DEF ExecOk
<1>6. QED BY <1>2, <1>5, OneExecMoves DEF RunLoopInv

\* An execution that panics promises nothing.
LEMMA ExecPanicKeeps == ASSUME RunLoopInv, NEW e \in DOMAIN execs, ExecPanic(e) PROVE RunLoopInv'
<1>1. Ended(e, TRUE) /\ UNCHANGED <<plans, rows, judged, contract, run, runs, agent, confirmed, request>>
  BY DEF ExecPanic, store, door
<1>2. StoreInv' /\ Grows BY <1>1, StoreStands DEF RunLoopInv, StoreInv
<1>3. ExecInv' BY <1>1, <1>2, FailedEnds
<1>4. QED BY <1>1, <1>2, <1>3, ExecLeavesRest

\* What an execution of e is before and after a step that keeps its decision.
LEMMA ExecTyped ==
  ASSUME RunLoopInv, NEW e \in DOMAIN execs
  PROVE  /\ ExecOk(e) /\ execs[e] \in Executions /\ execs[e].d \in AnyDecision /\ e \in Nat \X Nat
         /\ Len(plans) \in Nat /\ execs[e].plan \in 0 .. Len(plans)
         /\ Len(execs[e].d.contract) \in Nat
<1>1. ExecOk(e) BY DEF RunLoopInv, ExecInv
<1>2. execs[e] \in Executions /\ e \in Nat \X Nat BY <1>1 DEF ExecOk
<1>3. execs[e].d \in AnyDecision /\ execs[e].plan \in Nat BY <1>2 DEF Executions
<1>4. Len(plans) \in Nat BY LenProperties DEF RunLoopInv, StoreInv
<1>5. Len(execs[e].d.contract) \in Nat BY <1>3, LenProperties DEF AnyDecision
<1>6. execs[e].plan <= Len(plans) BY <1>1 DEF ExecOk
<1>7. QED BY <1>1, <1>2, <1>3, <1>4, <1>5, <1>6

\* The plan row an execution points at stays its own.
LEMMA PlanStands ==
  ASSUME RunLoopInv, Grows, NEW e \in DOMAIN execs
  PROVE  /\ execs[e].plan <= Len(plans')
         /\ execs[e].plan # 0 => plans'[execs[e].plan] = plans[execs[e].plan]
<1>1. Len(plans) \in Nat /\ execs[e].plan \in 0 .. Len(plans) BY ExecTyped
<1>2. QED BY <1>1 DEF Grows

\* What follows the writing of a decision's plan row.
LEMMA AfterPlanCases ==
  ASSUME NEW d \in AnyDecision
  PROVE  /\ AfterPlan(d) \in {"step", "verify", "done"}
         /\ AfterPlan(d) = "step" => d.type = "plan"
         /\ AfterPlan(d) = "verify" => d.type = "done"
         /\ d.type = "done" => AfterPlan(d) = "verify"
BY DEF AnyDecision, DecisionTypes, AfterPlan

\* Beginning an execution writes its plan row unless the plan waited for
\* approval.
LEMMA ExecBeginKeeps == ASSUME RunLoopInv, NEW e \in DOMAIN execs, ExecBegin(e) PROVE RunLoopInv'
<1> DEFINE d == execs[e].d
<1>1. UNCHANGED <<run, runs, agent, confirmed, request>> /\ execs[e].pc = "begin" BY DEF ExecBegin, At, door
<1>2. /\ ExecOk(e) /\ execs[e] \in Executions /\ d \in AnyDecision /\ e \in Nat \X Nat
      /\ Len(plans) \in Nat /\ execs[e].plan \in 0 .. Len(plans) /\ Len(d.contract) \in Nat
  BY ExecTyped
<1>3. CASE UNCHANGED <<plans, rows, judged, contract>> /\ Ended(e, TRUE)
  <2>1. StoreInv' /\ Grows BY <1>3, StoreStands DEF RunLoopInv, StoreInv
  <2>2. ExecInv' BY <1>1, <1>3, <2>1, FailedEnds
  <2>3. QED BY <1>1, <2>1, <2>2, ExecLeavesRest
<1>4. CASE execs[e].plan # 0 /\ Go(e, "step") /\ UNCHANGED <<plans, rows, judged, contract>>
  <2>1. StoreInv' /\ Grows BY <1>4, StoreStands DEF RunLoopInv, StoreInv
  <2> DEFINE x == [execs[e] EXCEPT !.pc = "step"]
  <2>2. execs' = [execs EXCEPT ![e] = x] BY <1>4 DEF Go
  <2>3. /\ x \in Executions /\ x.pc = "step" /\ x.d = d /\ x.plan = execs[e].plan
    BY <1>2 DEF Executions, ExecPcs
  <2> HIDE DEF x
  <2>4. execs'[e] = x BY <2>2 DEF RunLoopInv, ExecInv
  <2>5. d.type = "plan" BY <1>1, <1>2, <1>4 DEF ExecOk
  <2>6. ExecOk(e)' BY <1>1, <1>2, <1>4, <2>1, <2>3, <2>4, <2>5, PlanStands DEF ExecOk
  <2>7. ExecInv' BY <1>1, <2>1, <2>2, <2>6, OneExecMoves DEF RunLoopInv
  <2>8. QED BY <1>1, <2>1, <2>7, ExecLeavesRest
<1>5. CASE /\ execs[e].plan = 0 /\ AppendPlan(PlanRow(d, e)) /\ UNCHANGED contract
           /\ execs' = [execs EXCEPT ![e].plan = Len(plans) + 1,
                          ![e].pc = IF e[2] = 1 /\ d.contract # <<>> THEN "pin" ELSE AfterPlan(d)]
  <2>1. PlanRow(d, e) \in PlanRows /\ PlanRow(d, e).type = d.type /\ PlanRow(d, e).run = e[1]
    BY <1>2 DEF PlanRow, PlanRows, AnyDecision
  <2>2. /\ StoreInv' /\ Grows /\ Len(plans') = Len(plans) + 1
        /\ plans'[Len(plans) + 1] = PlanRow(d, e)
    BY <1>5, <2>1, AppendGrows DEF RunLoopInv, StoreInv
  <2> DEFINE pc == IF e[2] = 1 /\ d.contract # <<>> THEN "pin" ELSE AfterPlan(d)
             x == [execs[e] EXCEPT !.plan = Len(plans) + 1, !.pc = pc]
  <2>3. execs' = [execs EXCEPT ![e] = x] BY <1>5
  <2>4. pc \in ExecPcs /\ (pc = "pin" => d.contract # <<>>) /\ (pc # "pin" => pc = AfterPlan(d))
    BY <1>2, AfterPlanCases DEF ExecPcs
  <2> HIDE DEF pc
  <2>5. execs[e] = [pc |-> execs[e].pc, d |-> d, plan |-> execs[e].plan, next |-> execs[e].next, failed |-> execs[e].failed]
        /\ execs[e].next \in Nat /\ execs[e].failed \in BOOLEAN /\ Len(plans) + 1 \in Nat
    BY <1>2 DEF Executions
  <2>6. /\ x \in Executions /\ x.pc = pc /\ x.d = d /\ x.plan = Len(plans) + 1
        /\ x.next = execs[e].next
    BY <1>2, <2>4, <2>5 DEF Executions
  <2> HIDE DEF x
  <2>7. execs'[e] = x BY <2>3 DEF RunLoopInv, ExecInv
  <2>8. ~RequirePlanApproval \/ d.type # "plan"
    BY <1>2, <1>5 DEF ExecOk, RunLoopInv, AgentInv
  <2>9. pc = "pin" => x.next \in 1 .. Len(d.contract)
    <3>1. d.contract # <<>> => Len(d.contract) # 0 BY <1>2, EmptySeq DEF AnyDecision
    <3>2. execs[e].next = 1 BY <1>1, <1>2 DEF ExecOk
    <3>3. QED BY <1>2, <2>4, <2>6, <3>1, <3>2
  <2>10. ExecOk(e)'
    BY <1>1, <1>2, <2>1, <2>2, <2>4, <2>6, <2>7, <2>8, <2>9, AfterPlanCases DEF ExecOk
  <2>11. ExecInv' BY <1>1, <2>2, <2>3, <2>10, OneExecMoves DEF RunLoopInv
  <2>12. QED BY <1>1, <2>2, <2>11, ExecLeavesRest
<1>6. QED BY <1>3, <1>4, <1>5 DEF ExecBegin, store

\* Pinning the criteria of a decision one by one keeps the invariant.
LEMMA ExecPinKeeps == ASSUME RunLoopInv, NEW e \in DOMAIN execs, ExecPin(e) PROVE RunLoopInv'
<1> DEFINE d == execs[e].d
           n == execs[e].next
<1>1. /\ UNCHANGED <<run, runs, agent, confirmed, plans, rows, judged, request>> /\ execs[e].pc = "pin"
  BY DEF ExecPin, At, door
<1>2. /\ ExecOk(e) /\ execs[e] \in Executions /\ d \in AnyDecision /\ e \in Nat \X Nat
      /\ Len(plans) \in Nat /\ execs[e].plan \in 0 .. Len(plans) /\ Len(d.contract) \in Nat
  BY ExecTyped
<1>3. execs[e].plan # 0 /\ n \in 1 .. Len(d.contract) BY <1>1, <1>2 DEF ExecOk
<1>4. ContractShape(contract')
  <2>1. contract' = contract \/ contract' = Pin(contract, n, Criterion(d.contract, n, e[1]))
    BY DEF ExecPin, PinRow
  <2>2. ContractShape(contract) /\ d.contract \in Seq(Criterions)
    BY <1>2 DEF RunLoopInv, StoreInv, AnyDecision
  <2>3. QED BY <1>3, <2>1, <2>2, CriterionShape
<1>5. StoreInv' /\ Grows BY <1>1, <1>4, StoreStands DEF RunLoopInv
<1> DEFINE last == n + 1 > Len(d.contract)
           pc == IF last THEN AfterPlan(d) ELSE "pin"
           m == IF last THEN 1 ELSE n + 1
           x == [execs[e] EXCEPT !.pc = pc, !.next = m]
<1>6. execs' = [execs EXCEPT ![e] = x] BY DEF ExecPin, NextRow
<1>7. /\ pc \in ExecPcs /\ m \in Nat /\ (pc = "pin" => m \in 1 .. Len(d.contract))
      /\ (pc # "pin" => pc = AfterPlan(d))
  BY <1>2, <1>3, AfterPlanCases DEF ExecPcs
<1>8. /\ x \in Executions /\ x.pc = pc /\ x.d = d /\ x.plan = execs[e].plan /\ x.next = m
      /\ x.failed = execs[e].failed
  BY <1>2, <1>7 DEF Executions
<1> HIDE DEF pc, x, m
<1>9. execs'[e] = x BY <1>6 DEF RunLoopInv, ExecInv
<1>10. ExecOk(e)'
  BY <1>1, <1>2, <1>3, <1>5, <1>7, <1>8, <1>9, AfterPlanCases, PlanStands DEF ExecOk
<1>11. ExecInv' BY <1>1, <1>5, <1>6, <1>10, OneExecMoves DEF RunLoopInv
<1>12. QED BY <1>1, <1>5, <1>11, ExecLeavesRest

\* Running one step of a plan keeps the invariant.
LEMMA ExecStepKeeps ==
  ASSUME RunLoopInv, NEW e \in DOMAIN execs, NEW ok \in BOOLEAN, ExecStep(e, ok) PROVE RunLoopInv'
<1>1. /\ UNCHANGED <<run, runs, agent, confirmed, plans, judged, contract, request>> /\ execs[e].pc = "step"
  BY DEF ExecStep, At, door
<1>2. /\ ExecOk(e) /\ execs[e] \in Executions /\ execs[e].d \in AnyDecision /\ e \in Nat \X Nat
      /\ Len(plans) \in Nat /\ execs[e].plan \in 0 .. Len(plans)
  BY ExecTyped
<1>3. execs[e].plan # 0 /\ execs[e].d.type = "plan" BY <1>1, <1>2 DEF ExecOk
<1>4. StoreInv' /\ Grows
  <2>1. CASE UNCHANGED rows BY <1>1, <2>1, StoreStands DEF RunLoopInv, StoreInv
  <2>2. CASE rows' = [rows EXCEPT ![execs[e].plan] = Append(@, [idx |-> execs[e].next, ok |-> ok])]
    <3>1. [idx |-> execs[e].next, ok |-> ok] \in StepRows BY <1>2 DEF StepRows, Executions
    <3>2. execs[e].plan \in 1 .. Len(plans) BY <1>2, <1>3
    <3>3. QED BY <1>1, <2>2, <3>1, <3>2, RowGrows DEF RunLoopInv
  <2>3. QED BY <2>1, <2>2 DEF ExecStep
<1> DEFINE pc == AfterStep(execs[e], ok)
           x == [execs[e] EXCEPT !.pc = pc, !.next = @ + 1, !.failed = ~ok]
<1>5. execs' = [execs EXCEPT ![e] = x] BY DEF ExecStep
<1>6. pc \in {"step", "done"} /\ (~ok) \in BOOLEAN /\ execs[e].next + 1 \in Nat
  BY <1>2 DEF AfterStep, Executions
<1> HIDE DEF pc
<1>7. /\ x \in Executions /\ x.pc = pc /\ x.d = execs[e].d /\ x.plan = execs[e].plan
  BY <1>2, <1>6 DEF Executions, ExecPcs
<1> HIDE DEF x
<1>8. execs'[e] = x BY <1>5 DEF RunLoopInv, ExecInv
<1>9. ExecOk(e)' BY <1>1, <1>2, <1>3, <1>4, <1>6, <1>7, <1>8, PlanStands DEF ExecOk
<1>10. ExecInv' BY <1>1, <1>4, <1>5, <1>9, OneExecMoves DEF RunLoopInv
<1>11. QED BY <1>1, <1>4, <1>10, ExecLeavesRest

\* A done that is not failed held up against the whole contract of that moment.
LEMMA ExecVerifyKeeps == ASSUME RunLoopInv, NEW e \in DOMAIN execs, ExecVerify(e) PROVE RunLoopInv'
<1>1. /\ UNCHANGED <<run, runs, agent, confirmed, plans, rows, contract, request>> /\ execs[e].pc = "verify"
  BY DEF ExecVerify, At, door
<1>2. /\ ExecOk(e) /\ execs[e] \in Executions /\ execs[e].d \in AnyDecision /\ e \in Nat \X Nat
      /\ Len(plans) \in Nat /\ execs[e].plan \in 0 .. Len(plans)
  BY ExecTyped
<1>3. execs[e].plan \in 1 .. Len(plans) /\ execs[e].d.type = "done" BY <1>1, <1>2 DEF ExecOk
<1>4. plans[execs[e].plan].type = "done" /\ plans[execs[e].plan].run = e[1]
  BY <1>2, <1>3 DEF ExecOk
<1>5. CASE Ended(e, TRUE) /\ UNCHANGED judged
  <2>1. StoreInv' /\ Grows BY <1>1, <1>5, StoreStands DEF RunLoopInv, StoreInv
  <2>2. ExecInv' BY <1>1, <1>5, <2>1, FailedEnds
  <2>3. QED BY <1>1, <2>1, <2>2, ExecLeavesRest
<1>6. CASE /\ contract # NoRows /\ \A i \in DOMAIN contract : "pass" \in Verdicts(Pinned[i])
           /\ Ended(e, FALSE) /\ judged' = [judged EXCEPT ![execs[e].plan] = @ \cup {Pinned}]
  <2>1. ContractShape(contract) BY DEF RunLoopInv, StoreInv
  <2>2. /\ DOMAIN Pinned = DOMAIN contract /\ Pinned \in [DOMAIN contract -> Criterions]
        /\ DOMAIN contract \in SUBSET Nat
    BY <2>1 DEF Pinned, ContractShape
  <2>3. Pinned \in Judgements BY <2>2 DEF Judgements
  <2>4. Pinned # NoRows
    <3>1. DOMAIN contract # {} BY <1>6, <2>1 DEF ContractShape, NoRows
    <3>2. QED BY <2>2, <3>1 DEF NoRows
  <2>5. \A i \in DOMAIN Pinned : Pinned[i] # World => Produced(Pinned[i])
    BY <1>6, <2>2 DEF Verdicts, Criterions
  <2>6. StoreInv' /\ Grows BY <1>1, <1>3, <1>6, <2>3, JudgedGrows DEF RunLoopInv
  <2>7. DoneHeldUp(e[1])'
    <3> DEFINE p == execs[e].plan
    <3>1. p \in DOMAIN plans /\ p \in DOMAIN judged
      BY <1>3, LenProperties DEF RunLoopInv, StoreInv
    <3>2. Pinned \in judged'[p] BY <1>6, <3>1
    <3>3. \A n : Produced(n) => Produced(n)' BY <1>1 DEF Produced
    <3>4. PICK c : c = Pinned OBVIOUS
    <3>5. c \in judged'[p] /\ c # NoRows /\ \A i \in DOMAIN c : c[i] # World => Produced(c[i])
      BY <2>4, <2>5, <3>2, <3>4
    <3> HIDE DEF p
    <3>6. \A i \in DOMAIN c : c[i] # World => Produced(c[i])' BY <3>3, <3>5
    <3>7. p \in DOMAIN plans' /\ plans'[p].type = "done" /\ plans'[p].run = e[1]
      BY <1>1, <1>4, <3>1 DEF p
    <3>8. QED BY <3>5, <3>6, <3>7 DEF DoneHeldUp
  <2> DEFINE x == [execs[e] EXCEPT !.pc = "done", !.failed = FALSE, !.next = 1]
  <2>8. execs' = [execs EXCEPT ![e] = x] BY <1>6 DEF Ended
  <2>9. /\ x \in Executions /\ x.pc = "done" /\ x.d = execs[e].d /\ x.plan = execs[e].plan
    BY <1>2 DEF Executions, ExecPcs
  <2> HIDE DEF x
  <2>10. execs'[e] = x BY <2>8 DEF RunLoopInv, ExecInv
  <2>11. ExecOk(e)' BY <1>1, <1>2, <1>3, <1>4, <2>6, <2>7, <2>9, <2>10, PlanStands DEF ExecOk
  <2>12. ExecInv' BY <1>1, <2>6, <2>8, <2>11, OneExecMoves DEF RunLoopInv
  <2>13. QED BY <1>1, <2>6, <2>12, ExecLeavesRest
<1>7. QED BY <1>5, <1>6 DEF ExecVerify

-----------------------------------------------------------------------------
(* The invariant and what follows from it. *)

\* A task that was never asked satisfies the invariant.
LEMMA RunLoopInitially == Init => RunLoopInv
<1> SUFFICES ASSUME Init PROVE RunLoopInv OBVIOUS
<1>1. <<>> \in Seq(PlanRows) /\ <<>> \in Seq(Seq(StepRows)) /\ <<>> \in Seq(SUBSET Judgements) /\ Len(<<>>) = 0
  BY EmptySeq
<1>2. DOMAIN NoRows = {} /\ NoRows = [i \in DOMAIN NoRows |-> NoRows[i]] BY DEF NoRows
<1>3. StoreInv BY <1>1, <1>2 DEF Init, StoreInv, ContractShape
<1>4. ExecInv BY <1>2 DEF Init, ExecInv
<1>5. RunInv BY DEF Init, RunInv
<1>6. AgentInv BY <1>1 DEF Init, AgentInv
<1>7. RequestInv BY DEF Init, RequestInv
<1>8. QED BY <1>3, <1>4, <1>5, <1>6, <1>7 DEF RunLoopInv

\* Every step keeps the invariant.
LEMMA RunLoopStep == RunLoopInv /\ [Next]_vars => RunLoopInv'
<1> SUFFICES ASSUME RunLoopInv, [Next]_vars PROVE RunLoopInv' OBVIOUS
<1>1. CASE AcceptPin \/ AcceptQueue \/ \E m \in Requests : AcceptRow(m[1], m[2])
  BY <1>1, AcceptKeeps, AcceptPinKeeps
<1>2. CASE Start BY <1>2, StartKeeps
<1>3. CASE StopRead \/ StopMark \/ BroadcastList \/ BroadcastDeliver BY <1>3, OutsideKeeps
<1>4. CASE StopCancel BY <1>4, StopCancelKeeps
<1>5. CASE Loop
  BY <1>5, LeavesKeep, LoopApprovedKeeps, LoopBudgetKeeps, ObserveKeeps, PersistKeeps, ReturnKeeps,
     PausePinKeeps, PauseKeeps DEF Loop
<1>6. CASE Decide BY <1>6, LeavesKeep, DecideExecuteKeeps, DecidePauseKeeps DEF Decide
<1>7. ASSUME NEW e \in DOMAIN execs, Exec(e) PROVE RunLoopInv'
  BY <1>7, ExecBeginKeeps, ExecPinKeeps, ExecPanicKeeps, ExecVerifyKeeps, ExecStepKeeps DEF Exec
<1>8. CASE UNCHANGED vars
  <2>1. UNCHANGED <<run, runs, agent, execs, plans, rows, judged, contract, confirmed, request>>
    BY <1>8 DEF vars, store, door
  <2>2. StoreInv' /\ Grows BY <2>1, StoreStands DEF RunLoopInv, StoreInv
  <2>3. ExecInv' BY <2>1, <2>2, ExecsStand DEF RunLoopInv
  <2>4. QED BY <2>1, <2>2, <2>3, ExecLeavesRest
<1>9. QED BY <1>1, <1>2, <1>3, <1>4, <1>5, <1>6, <1>7, <1>8 DEF Next

\* The inductive invariant of the run loop.
THEOREM RunLoopInvariant == Spec => []RunLoopInv
BY RunLoopInitially, RunLoopStep, PTL DEF Spec

\* With RequirePlanApproval no step of a plan runs unless a confirmation
\* named that plan, whatever was stopped, broadcast or replanned in between.
THEOREM ApprovalHolds == Spec => []NothingRunsUnapproved
<1>1. RunLoopInv => NothingRunsUnapproved BY DEF RunLoopInv, ExecInv, ExecOk, NothingRunsUnapproved
<1>2. QED BY <1>1, RunLoopInvariant, PTL

\* A run observes the result of each of its own decisions, one per cycle and
\* in order, also while executions of stopped runs still end.
THEOREM OrderHolds == Spec => []ResultsInOrder
<1>1. ASSUME RunLoopInv, run # None
      PROVE  \A k \in DOMAIN run.seen : run.seen[k] = <<run.id, k>>
  <2>1. RunOk BY <1>1 DEF RunLoopInv, RunInv
  <2>2. DOMAIN run.seen = 1 .. Len(run.seen) BY <2>1, LenProperties DEF RunOk
  <2>3. QED BY <2>1, <2>2 DEF RunOk
<1>2. RunLoopInv => ResultsInOrder BY <1>1 DEF ResultsInOrder
<1>3. QED BY <1>2, RunLoopInvariant, PTL

\* A run leaves its task completed only on a done of its own whose contract,
\* not empty, was judged to hold, with a successful step for every criterion
\* that names one.
THEOREM CompletionHolds == Spec => []CompletedIsVerified
<1>1. RunLoopInv => CompletedIsVerified BY DEF RunLoopInv, RunInv, RunOk, CompletedIsVerified
<1>2. QED BY <1>1, RunLoopInvariant, PTL
-----------------------------------------------------------------------------
(* One execution for each plan. *)

\* What the executions have written of their plans: the plan of an execution
\* belongs to it alone, the plan that waits for the user has no rows, and while
\* an execution is in its steps every row is a success of an earlier step.
Untouched(e) ==
  execs[e].plan # 0 /\ execs[e].pc \in {"begin", "pin"} => rows[execs[e].plan] = <<>>
Stepping(e) ==
  execs[e].plan # 0 /\ execs[e].pc = "step" =>
    \A k \in DOMAIN rows[execs[e].plan] :
      rows[execs[e].plan][k].ok /\ rows[execs[e].plan][k].idx < execs[e].next
NotPending(e) == execs[e].plan # 0 => execs[e].plan # agent.pendingPlan

\* The plan a run is to wait with has no step rows and no execution.
PinFree ==
  run # None /\ run.pc = "pin" =>
    /\ run.plan # 0 /\ rows[run.plan] = <<>> /\ \A e \in DOMAIN execs : execs[e].plan # run.plan

StepsInv ==
  /\ \A e \in DOMAIN execs : Untouched(e) /\ Stepping(e) /\ NotPending(e)
  /\ \A e, f \in DOMAIN execs : execs[e].plan # 0 /\ execs[e].plan = execs[f].plan => e = f
  /\ agent.pendingPlan # 0 => rows[agent.pendingPlan] = <<>>
  /\ PinFree
  /\ StepsInOrder

\* The rows and the executions stand; the plan that waits is the same.
LEMMA StepsStand ==
  ASSUME StepsInv, UNCHANGED <<execs, rows>>, agent'.pendingPlan = agent.pendingPlan, PinFree'
  PROVE  StepsInv'
BY DEF StepsInv, Untouched, Stepping, NotPending, StepsInOrder

\* One execution goes on, its plan and the rows stand.
LEMMA StepsMove ==
  ASSUME RunLoopInv, StepsInv, NEW e \in DOMAIN execs, NEW x, execs' = [execs EXCEPT ![e] = x],
         x.plan = execs[e].plan, x.pc \in {"begin", "pin"} => execs[e].pc \in {"begin", "pin"},
         x.pc = "step" => execs[e].pc \in {"begin", "pin"}, UNCHANGED <<rows, agent, run>>
  PROVE  StepsInv'
<1>1. DOMAIN execs' = DOMAIN execs /\ execs'[e] = x /\ \A f \in DOMAIN execs : f # e => execs'[f] = execs[f]
  BY DEF RunLoopInv, ExecInv
<1>2. \A f \in DOMAIN execs : execs'[f].plan = execs[f].plan BY <1>1
<1>3. ASSUME NEW f \in DOMAIN execs PROVE Untouched(f)' /\ Stepping(f)' /\ NotPending(f)'
  <2>1. CASE f = e
    <3>1. DOMAIN <<>> = {} OBVIOUS
    <3>2. Untouched(e) /\ NotPending(e) BY DEF StepsInv
    <3>3. QED BY <1>1, <2>1, <3>1, <3>2 DEF Untouched, Stepping, NotPending
  <2>2. CASE f # e BY <1>1, <2>2 DEF StepsInv, Untouched, Stepping, NotPending
  <2>3. QED BY <2>1, <2>2
<1>4. StepsInOrder' BY DEF StepsInv, StepsInOrder
<1>5. PinFree' BY <1>1, <1>2 DEF StepsInv, PinFree
<1>6. QED BY <1>1, <1>2, <1>3, <1>4, <1>5 DEF StepsInv

\* A plan is appended: the rows of the others stand and it has none.
LEMMA RowsAppend ==
  ASSUME RunLoopInv, StepsInv, NEW row, AppendPlan(row)
  PROVE  /\ Len(plans) \in Nat /\ rows'[Len(plans) + 1] = <<>>
         /\ \A p \in 1 .. Len(plans) : rows'[p] = rows[p]
         /\ StepsInOrder'
<1>1. rows \in Seq(Seq(StepRows)) /\ Len(rows) = Len(plans) /\ <<>> \in Seq(StepRows) /\ rows' = Append(rows, <<>>)
  BY EmptySeq DEF RunLoopInv, StoreInv, AppendPlan
<1>2. /\ Len(rows) \in Nat /\ DOMAIN rows = 1 .. Len(rows) /\ DOMAIN rows' = 1 .. Len(rows) + 1
      /\ \A i \in 1 .. Len(rows) : rows'[i] = rows[i]
      /\ rows'[Len(rows) + 1] = <<>>
  BY <1>1, Appended
<1>3. StepsInOrder'
  <2> SUFFICES ASSUME NEW p \in DOMAIN rows', NEW j \in DOMAIN rows'[p], NEW k \in DOMAIN rows'[p], j < k
               PROVE  rows'[p][j].idx < rows'[p][k].idx /\ rows'[p][j].ok
    BY DEF StepsInOrder
  <2>1. CASE p = Len(rows) + 1 BY <1>2, <2>1
  <2>2. CASE p # Len(rows) + 1
    <3>1. p \in DOMAIN rows /\ rows'[p] = rows[p] BY <1>2, <2>2
    <3>2. QED BY <3>1 DEF StepsInv, StepsInOrder
  <2>3. QED BY <2>1, <2>2
<1>4. QED BY <1>1, <1>2, <1>3

\* A decision is dispatched, with no plan yet or with the one that waited.
LEMMA StepsDispatch ==
  ASSUME RunLoopInv, StepsInv, run # None, NEW d, NEW p, Dispatch(d, p), UNCHANGED rows,
         \/ p = 0 /\ UNCHANGED agent
         \/ p = agent.pendingPlan /\ agent'.pendingPlan = 0
  PROVE  StepsInv'
<1> DEFINE key == <<run.id, run.cycles + 1>>
           x == [pc |-> "begin", d |-> d, plan |-> p, next |-> 1, failed |-> FALSE]
<1>1. execs' = [e \in DOMAIN execs \cup {key} |-> IF e = key THEN x ELSE execs[e]] BY DEF Dispatch
<1>2. x.pc = "begin" /\ x.plan = p OBVIOUS
<1> HIDE DEF key, x
<1>3. /\ DOMAIN execs' = DOMAIN execs \cup {key} /\ execs'[key] = x
      /\ \A e \in DOMAIN execs' : e # key => e \in DOMAIN execs /\ execs'[e] = execs[e]
  BY <1>1
<1>4. p # 0 => rows[p] = <<>> /\ \A e \in DOMAIN execs : execs[e].plan # p
  BY DEF StepsInv, NotPending
<1>5. ASSUME NEW e \in DOMAIN execs' PROVE Untouched(e)' /\ Stepping(e)' /\ NotPending(e)'
  <2>1. CASE e = key BY <1>2, <1>3, <1>4, <2>1 DEF Untouched, Stepping, NotPending
  <2>2. CASE e # key BY <1>3, <2>2 DEF StepsInv, Untouched, Stepping, NotPending
  <2>3. QED BY <2>1, <2>2
<1>6. \A e, f \in DOMAIN execs' : execs'[e].plan # 0 /\ execs'[e].plan = execs'[f].plan => e = f
  BY <1>2, <1>3, <1>4 DEF StepsInv
<1>7. agent'.pendingPlan # 0 => rows'[agent'.pendingPlan] = <<>> BY DEF StepsInv
<1>8. StepsInOrder' BY DEF StepsInv, StepsInOrder
<1>9. run'.pc # "pin" BY DEF Dispatch, RunLoopInv, RunInv, RunOk, RunFields
<1>10. QED BY <1>5, <1>6, <1>7, <1>8, <1>9 DEF StepsInv, PinFree

\* A plan row that waits is new.
LEMMA StepsPause == ASSUME RunLoopInv, StepsInv, NEW d \in Answers, DecidePause(d) PROVE StepsInv'
<1>1. UNCHANGED <<agent, execs>> BY DEF DecidePause
<1>2. CASE UNCHANGED store /\ Leave("error")
  <2>1. UNCHANGED rows BY <1>2 DEF store
  <2>2. run'.pc # "pin" BY <1>2 DEF Leave, DecidePause, RunLoopInv, RunInv, RunOk, RunFields
  <2>3. QED BY <1>1, <2>1, <2>2, StepsStand DEF PinFree
<1>3. CASE /\ AppendPlan(PlanRow(d, <<run.id, run.cycles + 1>>))
           /\ run' = [run EXCEPT !.pc = "pin", !.d = d, !.plan = Len(plans) + 1]
  <2>1. /\ Len(plans) \in Nat /\ rows'[Len(plans) + 1] = <<>>
        /\ \A p \in 1 .. Len(plans) : rows'[p] = rows[p] /\ StepsInOrder'
    BY <1>3, RowsAppend
  <2>2. run'.plan = Len(plans) + 1
    BY <1>3 DEF DecidePause, RunLoopInv, RunInv, RunOk, RunFields
  <2>3. agent.pendingPlan \in 0 .. Len(plans) BY <2>1 DEF RunLoopInv, AgentInv
  <2>4. ASSUME NEW e \in DOMAIN execs
        PROVE  Untouched(e)' /\ Stepping(e)' /\ NotPending(e)' /\ execs[e].plan # Len(plans) + 1
    <3>1. execs[e].plan \in 0 .. Len(plans) BY ExecTyped
    <3>2. execs[e].plan # 0 => rows'[execs[e].plan] = rows[execs[e].plan] BY <2>1, <3>1
    <3>3. QED BY <1>1, <2>1, <3>1, <3>2 DEF StepsInv, Untouched, Stepping, NotPending
  <2>5. StepsInOrder' BY <1>3, RowsAppend
  <2>6. agent.pendingPlan # 0 => rows'[agent.pendingPlan] = <<>> BY <2>1, <2>3 DEF StepsInv
  <2>7. PinFree' BY <1>1, <2>1, <2>2, <2>4 DEF PinFree
  <2>8. QED BY <1>1, <2>4, <2>5, <2>6, <2>7 DEF StepsInv
<1>4. QED BY <1>2, <1>3 DEF DecidePause

\* The plan the run pauses on becomes the one that waits.
LEMMA StepsPaused == ASSUME RunLoopInv, StepsInv, Pause PROVE StepsInv'
<1>1. /\ run # None /\ run.pc = "pin" /\ UNCHANGED <<execs, rows>>
      /\ agent' = [agent EXCEPT !.pendingPlan = run.plan]
      /\ run' = [run EXCEPT !.pc = "leave", !.outcome = "awaiting_approval", !.next = 1]
  BY DEF Pause, store
<1>2. agent'.pendingPlan = run.plan BY <1>1 DEF RunLoopInv, AgentInv
<1>3. run'.pc # "pin" BY <1>1 DEF RunLoopInv, RunInv, RunOk, RunFields
<1>4. QED BY <1>1, <1>2, <1>3 DEF StepsInv, PinFree, Untouched, Stepping, NotPending, StepsInOrder

\* An execution begins with a plan row of its own.
LEMMA StepsBegin == ASSUME RunLoopInv, StepsInv, NEW e \in DOMAIN execs, ExecBegin(e) PROVE StepsInv'
<1>1. UNCHANGED <<agent, run>> /\ execs[e].pc = "begin" /\ execs[e] \in Executions
  BY ExecTyped DEF ExecBegin, At
<1>2. CASE UNCHANGED store /\ Ended(e, TRUE)
  <2> DEFINE x == [execs[e] EXCEPT !.pc = "done", !.failed = TRUE, !.next = 1]
  <2>1. execs' = [execs EXCEPT ![e] = x] /\ UNCHANGED rows BY <1>2 DEF Ended, store
  <2>2. x.pc = "done" /\ x.plan = execs[e].plan BY <1>1 DEF Executions
  <2> HIDE DEF x
  <2>3. QED BY <1>1, <2>1, <2>2, StepsMove
<1>3. CASE UNCHANGED store /\ Go(e, "step")
  <2> DEFINE x == [execs[e] EXCEPT !.pc = "step"]
  <2>1. execs' = [execs EXCEPT ![e] = x] /\ UNCHANGED rows BY <1>3 DEF Go, store
  <2>2. x.pc = "step" /\ x.plan = execs[e].plan BY <1>1 DEF Executions
  <2> HIDE DEF x
  <2>3. QED BY <1>1, <2>1, <2>2, StepsMove
<1>4. ASSUME NEW pc, AppendPlan(PlanRow(execs[e].d, e)),
             execs' = [execs EXCEPT ![e].plan = Len(plans) + 1, ![e].pc = pc]
      PROVE  StepsInv'
  <2>1. /\ Len(plans) \in Nat /\ rows'[Len(plans) + 1] = <<>>
        /\ \A p \in 1 .. Len(plans) : rows'[p] = rows[p]
    BY <1>4, RowsAppend
  <2> DEFINE x == [execs[e] EXCEPT !.plan = Len(plans) + 1, !.pc = pc]
  <2>2. execs' = [execs EXCEPT ![e] = x] BY <1>4
  <2>3. x.plan = Len(plans) + 1 BY <1>1 DEF Executions
  <2> HIDE DEF x
  <2>4. /\ DOMAIN execs' = DOMAIN execs /\ execs'[e] = x
        /\ \A f \in DOMAIN execs : f # e => execs'[f] = execs[f]
    BY <2>2 DEF RunLoopInv, ExecInv
  <2>5. \A f \in DOMAIN execs : execs[f].plan \in 0 .. Len(plans) BY ExecTyped
  <2>6. agent.pendingPlan \in 0 .. Len(plans) BY <2>1 DEF RunLoopInv, AgentInv
  <2>7. ASSUME NEW f \in DOMAIN execs PROVE Untouched(f)' /\ Stepping(f)' /\ NotPending(f)'
    <3>1. CASE f = e
      <4>1. rows'[execs'[e].plan] = <<>> /\ DOMAIN <<>> = {} BY <2>1, <2>3, <2>4
      <4>2. execs'[e].plan # agent'.pendingPlan BY <1>1, <2>1, <2>3, <2>4, <2>6
      <4>3. QED BY <3>1, <4>1, <4>2 DEF Untouched, Stepping, NotPending
    <3>2. CASE f # e
      <4>1. execs[f].plan # 0 => rows'[execs[f].plan] = rows[execs[f].plan] BY <2>1, <2>5
      <4>2. QED BY <1>1, <2>4, <3>2, <4>1 DEF StepsInv, Untouched, Stepping, NotPending
    <3>3. QED BY <3>1, <3>2
  <2>8. \A f, g \in DOMAIN execs' : execs'[f].plan # 0 /\ execs'[f].plan = execs'[g].plan => f = g
    BY <2>1, <2>3, <2>4, <2>5 DEF StepsInv
  <2>9. agent'.pendingPlan # 0 => rows'[agent'.pendingPlan] = <<>> BY <1>1, <2>1, <2>6 DEF StepsInv
  <2>10. StepsInOrder' BY <1>4, RowsAppend
  <2>11. PinFree'
    <3> SUFFICES ASSUME run # None, run.pc = "pin" PROVE PinFree' BY <1>1 DEF PinFree
    <3>1. run.plan \in 1 .. Len(plans) BY DEF RunLoopInv, RunInv, RunOk, PinOk
    <3>2. rows'[run.plan] = <<>> BY <2>1, <3>1 DEF StepsInv, PinFree
    <3>3. \A f \in DOMAIN execs : execs'[f].plan # run.plan BY <2>1, <2>3, <2>4, <3>1 DEF StepsInv, PinFree
    <3>4. QED BY <1>1, <2>4, <3>1, <3>2, <3>3 DEF PinFree
  <2>12. QED BY <2>4, <2>7, <2>8, <2>9, <2>10, <2>11 DEF StepsInv
<1>5. QED BY <1>2, <1>3, <1>4 DEF ExecBegin

\* Pinning touches no step row.
LEMMA StepsPin == ASSUME RunLoopInv, StepsInv, NEW e \in DOMAIN execs, ExecPin(e) PROVE StepsInv'
<1>1. UNCHANGED <<agent, rows, run>> /\ execs[e].pc = "pin" /\ execs[e] \in Executions
  BY ExecTyped DEF ExecPin, At
<1>2. PICK pc, m : execs' = [execs EXCEPT ![e].pc = pc, ![e].next = m] BY DEF ExecPin
<1> DEFINE x == [execs[e] EXCEPT !.pc = pc, !.next = m]
<1>3. execs' = [execs EXCEPT ![e] = x] BY <1>2
<1>4. x.plan = execs[e].plan BY <1>1 DEF Executions
<1> HIDE DEF x
<1>5. QED BY <1>1, <1>3, <1>4, StepsMove

\* An execution that panics or verifies writes no step row.
LEMMA StepsEnd ==
  ASSUME RunLoopInv, StepsInv, NEW e \in DOMAIN execs, ExecPanic(e) \/ ExecVerify(e) PROVE StepsInv'
<1>1. UNCHANGED <<agent, rows, run>> /\ execs[e] \in Executions
  BY ExecTyped DEF ExecPanic, ExecVerify, store
<1>2. PICK failed : Ended(e, failed) BY DEF ExecPanic, ExecVerify
<1> DEFINE x == [execs[e] EXCEPT !.pc = "done", !.failed = failed, !.next = 1]
<1>3. execs' = [execs EXCEPT ![e] = x] BY <1>2 DEF Ended
<1>4. x.pc = "done" /\ x.plan = execs[e].plan BY <1>1 DEF Executions
<1> HIDE DEF x
<1>5. QED BY <1>1, <1>3, <1>4, StepsMove

\* The row of a step comes after the rows of the steps before it.
LEMMA StepsStep ==
  ASSUME RunLoopInv, StepsInv, NEW e \in DOMAIN execs, NEW ok \in BOOLEAN, ExecStep(e, ok) PROVE StepsInv'
<1> DEFINE n == execs[e].next
           p == execs[e].plan
           row == [idx |-> n, ok |-> ok]
           pc == AfterStep(execs[e], ok)
           x == [execs[e] EXCEPT !.pc = pc, !.next = @ + 1, !.failed = ~ok]
<1>1. UNCHANGED <<agent, run>> /\ execs[e].pc = "step" BY DEF ExecStep, At
<1>2. /\ execs[e] \in Executions /\ p \in 1 .. Len(plans) /\ n \in Nat /\ Len(plans) \in Nat
  BY <1>1, ExecTyped DEF ExecOk, Executions
<1>3. execs' = [execs EXCEPT ![e] = x] BY DEF ExecStep
<1>4. /\ x.plan = p /\ x.next = n + 1 /\ x.pc = pc /\ pc \in {"step", "done"} /\ (pc = "step" => ok)
  BY <1>2 DEF Executions, AfterStep
<1>5. UNCHANGED rows \/ rows' = [rows EXCEPT ![p] = Append(@, row)] BY DEF ExecStep
<1>6. row.idx = n /\ row.ok = ok /\ row \in StepRows BY <1>2 DEF StepRows
<1>7. p \in DOMAIN rows /\ DOMAIN rows = 1 .. Len(plans) /\ rows \in Seq(Seq(StepRows))
  BY <1>2, LenProperties DEF RunLoopInv, StoreInv
<1>8. rows[p] \in Seq(StepRows) BY <1>2, <1>7, ElementOfSeq DEF RunLoopInv, StoreInv
<1>9. \A k \in DOMAIN rows[p] : rows[p][k].ok /\ rows[p][k].idx < n
  BY <1>1, <1>2 DEF StepsInv, Stepping
<1>10. \A k \in DOMAIN rows[p] : rows[p][k].idx \in Nat
  <2>1. \A k \in DOMAIN rows[p] : rows[p][k] \in StepRows BY <1>8, LenProperties, ElementOfSeq
  <2>2. QED BY <2>1 DEF StepRows
<1> HIDE DEF n, p, row, pc, x
<1>11. /\ DOMAIN execs' = DOMAIN execs /\ execs'[e] = x
       /\ \A f \in DOMAIN execs : f # e => execs'[f] = execs[f]
  BY <1>3 DEF RunLoopInv, ExecInv
<1>12. /\ Append(rows[p], row) \in Seq(StepRows) /\ Len(rows[p]) \in Nat /\ DOMAIN rows[p] = 1 .. Len(rows[p])
       /\ DOMAIN Append(rows[p], row) = 1 .. Len(rows[p]) + 1
       /\ \A i \in 1 .. Len(rows[p]) : Append(rows[p], row)[i] = rows[p][i]
       /\ Append(rows[p], row)[Len(rows[p]) + 1] = row
  BY <1>6, <1>8, Appended
<1>13. \A q \in DOMAIN rows : q # p => rows'[q] = rows[q] BY <1>5, <1>7
<1>14. DOMAIN rows' = DOMAIN rows BY <1>5
<1>15. rows'[p] = rows[p] \/ rows'[p] = Append(rows[p], row) BY <1>5, <1>7
<1>16. ok => \A k \in DOMAIN rows'[p] : rows'[p][k].ok /\ rows'[p][k].idx < n + 1
  <2> SUFFICES ASSUME ok, NEW k \in DOMAIN rows'[p] PROVE rows'[p][k].ok /\ rows'[p][k].idx < n + 1
    OBVIOUS
  <2>1. CASE k \in DOMAIN rows[p] /\ rows'[p][k] = rows[p][k] BY <1>2, <1>9, <1>10, <2>1 DEF n
  <2>2. CASE rows'[p][k] = row
    <3>1. row.idx < n + 1 BY <1>2, <1>6 DEF n
    <3>2. row.ok = TRUE BY <1>6
    <3>3. QED BY <2>2, <3>1, <3>2
  <2>3. QED BY <1>12, <1>15, <2>1, <2>2
<1>17. \A j, k \in DOMAIN rows'[p] : j < k => rows'[p][j].idx < rows'[p][k].idx /\ rows'[p][j].ok
  <2> SUFFICES ASSUME NEW j \in DOMAIN rows'[p], NEW k \in DOMAIN rows'[p], j < k
               PROVE  rows'[p][j].idx < rows'[p][k].idx /\ rows'[p][j].ok
    OBVIOUS
  <2>1. CASE rows'[p] = rows[p] BY <1>7, <2>1 DEF StepsInv, StepsInOrder
  <2>2. CASE rows'[p] = Append(rows[p], row)
    <3>1. j \in 1 .. Len(rows[p]) + 1 /\ k \in 1 .. Len(rows[p]) + 1 BY <1>12, <2>2
    <3>2. j \in DOMAIN rows[p] /\ rows'[p][j] = rows[p][j] BY <1>12, <2>2, <3>1
    <3>3. CASE k = Len(rows[p]) + 1
      <4>1. rows'[p][k] = row BY <1>12, <2>2, <3>3
      <4>2. QED BY <1>6, <1>9, <3>2, <4>1
    <3>4. CASE k # Len(rows[p]) + 1
      <4>1. k \in DOMAIN rows[p] /\ rows'[p][k] = rows[p][k] BY <1>12, <2>2, <3>1, <3>4
      <4>2. QED BY <1>7, <3>2, <4>1 DEF StepsInv, StepsInOrder
    <3>5. QED BY <3>3, <3>4
  <2>3. QED BY <1>15, <2>1, <2>2
<1>18. StepsInOrder'
  <2> SUFFICES ASSUME NEW q \in DOMAIN rows', NEW j \in DOMAIN rows'[q], NEW k \in DOMAIN rows'[q], j < k
               PROVE  rows'[q][j].idx < rows'[q][k].idx /\ rows'[q][j].ok
    BY DEF StepsInOrder
  <2>1. CASE q = p BY <1>17, <2>1
  <2>2. CASE q # p
    <3>1. q \in DOMAIN rows /\ rows'[q] = rows[q] BY <1>13, <1>14, <2>2
    <3>2. QED BY <3>1 DEF StepsInv, StepsInOrder
  <2>3. QED BY <2>1, <2>2
<1>19. ASSUME NEW f \in DOMAIN execs PROVE Untouched(f)' /\ Stepping(f)' /\ NotPending(f)'
  <2>1. CASE f = e
    <3>1. NotPending(e) BY DEF StepsInv
    <3>2. NotPending(e)' BY <1>1, <1>4, <1>11, <3>1 DEF NotPending, p
    <3>3. Untouched(e)' BY <1>4, <1>11 DEF Untouched
    <3>4. Stepping(e)' BY <1>4, <1>11, <1>16 DEF Stepping
    <3>5. QED BY <2>1, <3>2, <3>3, <3>4
  <2>2. CASE f # e
    <3>1. execs'[f] = execs[f] /\ execs[f].plan \in 0 .. Len(plans) BY <1>11, <2>2, ExecTyped
    <3>2. execs[f].plan # 0 => execs[f].plan # p BY <1>2, <2>2 DEF StepsInv, p
    <3>3. execs[f].plan # 0 => rows'[execs[f].plan] = rows[execs[f].plan]
      BY <1>2, <1>7, <1>13, <3>1, <3>2
    <3>4. QED BY <1>1, <3>1, <3>3 DEF StepsInv, Untouched, Stepping, NotPending
  <2>3. QED BY <2>1, <2>2
<1>20. \A f \in DOMAIN execs : execs'[f].plan = execs[f].plan BY <1>4, <1>11 DEF p
<1>21. agent'.pendingPlan # 0 => rows'[agent'.pendingPlan] = <<>>
  <2>1. agent.pendingPlan \in 0 .. Len(plans) BY <1>2 DEF RunLoopInv, AgentInv
  <2>2. agent.pendingPlan # p BY <1>2 DEF StepsInv, NotPending, p
  <2>3. agent.pendingPlan # 0 => agent.pendingPlan \in DOMAIN rows BY <1>2, <1>7, <2>1
  <2>4. QED BY <1>1, <1>13, <2>2, <2>3 DEF StepsInv
<1>22. PinFree'
  <2> SUFFICES ASSUME run # None, run.pc = "pin" PROVE PinFree' BY <1>1 DEF PinFree
  <2>1. run.plan \in DOMAIN rows /\ run.plan # p
    BY <1>7 DEF RunLoopInv, RunInv, RunOk, PinOk, StepsInv, PinFree, p
  <2>2. QED BY <1>1, <1>11, <1>13, <1>20, <2>1 DEF StepsInv, PinFree
<1>23. QED BY <1>11, <1>18, <1>19, <1>20, <1>21, <1>22 DEF StepsInv

\* A run that returns leaves the plan that waits.
LEMMA StepsReturn == ASSUME StepsInv, Return PROVE StepsInv'
<1>1. /\ UNCHANGED <<agent, rows>> /\ run' = None
      /\ execs' = [e \in {e \in DOMAIN execs : execs[e].pc # "done"} |-> execs[e]]
  BY DEF Return, store
<1>2. \A e \in DOMAIN execs' : e \in DOMAIN execs /\ execs'[e] = execs[e] BY <1>1
<1>3. ASSUME NEW e \in DOMAIN execs' PROVE Untouched(e)' /\ Stepping(e)' /\ NotPending(e)'
  BY <1>1, <1>2 DEF StepsInv, Untouched, Stepping, NotPending
<1>4. \A e, f \in DOMAIN execs' : execs'[e].plan # 0 /\ execs'[e].plan = execs'[f].plan => e = f
  BY <1>2 DEF StepsInv
<1>5. QED BY <1>1, <1>3, <1>4 DEF StepsInv, StepsInOrder, PinFree

\* Every step keeps one execution for each plan.
LEMMA StepsInductive == RunLoopInv /\ StepsInv /\ [Next]_vars => StepsInv'
<1> SUFFICES ASSUME RunLoopInv, StepsInv, [Next]_vars PROVE StepsInv' OBVIOUS
<1>1. CASE AcceptPin \/ AcceptQueue \/ \E m \in Requests : AcceptRow(m[1], m[2])
  <2>1. UNCHANGED <<execs, rows, agent, run>> BY <1>1 DEF AcceptPin, AcceptQueue, AcceptRow, store
  <2>2. QED BY <2>1, StepsStand DEF StepsInv, PinFree
<1>2. CASE Start
  <2>1. agent'.pendingPlan = agent.pendingPlan BY <1>2 DEF Start, RunLoopInv, AgentInv
  <2>2. run'.pc # "pin" BY <1>2 DEF Start
  <2>3. QED BY <1>2, <2>1, <2>2, StepsStand DEF Start, store, PinFree
<1>3. CASE StopRead \/ StopMark \/ BroadcastList \/ BroadcastDeliver
  <2>1. UNCHANGED <<execs, rows, agent, run>>
    BY <1>3 DEF StopRead, StopMark, BroadcastList, BroadcastDeliver, store
  <2>2. QED BY <2>1, StepsStand DEF StepsInv, PinFree
<1>4. CASE LoopApproved
  <2>1. agent'.pendingPlan = 0 /\ UNCHANGED rows BY <1>4 DEF LoopApproved, store
  <2>2. QED BY <1>4, <2>1, StepsDispatch DEF LoopApproved
<1>5. CASE LoopStopped \/ LoopBudget \/ Observe \/ WaitStopped \/ End \/ Persist \/ DecideFails
  <2>1. UNCHANGED <<execs, rows, agent>> /\ run # None
    BY <1>5 DEF LoopStopped, LoopBudget, Observe, WaitStopped, End, Persist, DecideFails, store
  <2>2. RunOk BY <2>1 DEF RunLoopInv, RunInv
  <2>3. run'.pc # "pin"
    BY <1>5, <2>2 DEF LoopStopped, LoopBudget, Observe, WaitStopped, End, Persist, DecideFails, Leave, RunOk, RunFields
  <2>4. QED BY <2>1, <2>3, StepsStand DEF PinFree
<1>6. CASE Return BY <1>6, StepsReturn
<1>7. ASSUME NEW d \in Answers, DecideExecute(d) PROVE StepsInv'
  BY <1>7, StepsDispatch DEF DecideExecute, store
<1>8. ASSUME NEW d \in Answers, DecidePause(d) PROVE StepsInv' BY <1>8, StepsPause
<1>9. ASSUME NEW e \in DOMAIN execs, Exec(e) PROVE StepsInv'
  BY <1>9, StepsBegin, StepsPin, StepsEnd, StepsStep DEF Exec
<1>10. CASE UNCHANGED vars BY <1>10, StepsStand DEF vars, store, StepsInv, PinFree
<1>11. CASE StopCancel \/ PausePin
  <2>1. UNCHANGED <<execs, rows, agent>> BY <1>11 DEF StopCancel, PausePin, store
  <2>2. CASE UNCHANGED run BY <2>1, <2>2, StepsStand DEF StepsInv, PinFree
  <2>3. CASE run # None /\ run'.pc = run.pc /\ run'.plan = run.plan
    BY <2>1, <2>3, StepsStand DEF StepsInv, PinFree
  <2>4. run # None => RunOk BY DEF RunLoopInv, RunInv
  <2>5. QED BY <1>11, <2>2, <2>3, <2>4 DEF StopCancel, PausePin, RunOk, RunFields
<1>12. CASE Pause BY <1>12, StepsPaused
<1>13. QED
  BY <1>1, <1>2, <1>3, <1>4, <1>5, <1>6, <1>7, <1>8, <1>9, <1>10, <1>11, <1>12 DEF Next, Loop, Decide

\* The step rows of a plan are its steps in order, each at most once, and
\* nothing follows a failure: one Execute runs a plan, also the plan a
\* confirmation releases.
THEOREM StepsInOrderHolds == Spec => []StepsInOrder
<1>1. Init => StepsInv
  <2> SUFFICES ASSUME Init PROVE StepsInv OBVIOUS
  <2>1. DOMAIN execs = {} /\ DOMAIN rows = {} /\ agent.pendingPlan = 0 BY DEF Init, NoRows
  <2>2. run = None BY DEF Init
  <2>3. QED BY <2>1, <2>2 DEF StepsInv, StepsInOrder, PinFree
<1>2. StepsInv => StepsInOrder BY DEF StepsInv
<1>3. QED BY <1>1, <1>2, StepsInductive, RunLoopInvariant, PTL DEF Spec
-----------------------------------------------------------------------------
(* Types and the budget of a run. *)

\* A run spends at most MaxSteps cycles: a confirmation, which is executed
\* without a look at the budget, is the first thing its run does.
Queued == [kind : Messages, criteria : Nat]
QueueBound ==
  /\ queue \in Seq(Queued) /\ runs + Len(queue) + Others(request) + Others(caster) <= MaxRuns
  /\ request # None => request.kind \in Messages
StatusBound == status \in Statuses /\ (caster # None => caster \in Statuses)
RunBound ==
  run # None =>
    /\ run.id = runs /\ runs # 0 /\ run.cycles <= MaxSteps
    /\ run.pc = "decide" => run.cycles < MaxSteps
    /\ run.pc = "leave" => run.outcome \in Statuses
    /\ agent.planApproved => run.cycles = 0
ExecBound == DOMAIN execs \subseteq (1..runs) \X (1..MaxSteps)
Bounds == QueueBound /\ StatusBound /\ RunBound /\ ExecBound

\* The message of an acceptance or of a broadcast takes the room that was kept
\* for it.
LEMMA RoomTaken ==
  ASSUME RunLoopInv, Bounds, UNCHANGED runs,
         \/ UNCHANGED <<queue, request, caster>>
         \/ Room /\ UNCHANGED queue /\ Others(request') + Others(caster') = Others(request) + Others(caster) + 1
         \/ /\ \E q \in Queued : queue' \in {queue, Append(queue, q)}
            /\ Others(request') + Others(caster') + 1 = Others(request) + Others(caster)
  PROVE  queue' \in Seq(Queued) /\ runs' + Len(queue') + Others(request') + Others(caster') <= MaxRuns
<1>1. queue \in Seq(Queued) /\ Len(queue) \in Nat /\ runs \in Nat
  BY LenProperties DEF Bounds, QueueBound, RunLoopInv, RunInv
<1>2. /\ Others(request) \in Nat /\ Others(caster) \in Nat
      /\ Others(request') \in Nat /\ Others(caster') \in Nat /\ MaxRuns \in Nat
  BY RunLoopAssumption DEF Others
<1>3. runs + Len(queue) + Others(request) + Others(caster) <= MaxRuns BY DEF Bounds, QueueBound
<1>4. CASE UNCHANGED <<queue, request, caster>> BY <1>1, <1>3, <1>4
<1>5. CASE Room /\ UNCHANGED queue /\ Others(request') + Others(caster') = Others(request) + Others(caster) + 1
  BY <1>1, <1>2, <1>5 DEF Room
<1>6. ASSUME NEW q \in Queued, queue' \in {queue, Append(queue, q)},
             Others(request') + Others(caster') + 1 = Others(request) + Others(caster)
      PROVE  queue' \in Seq(Queued) /\ runs' + Len(queue') + Others(request') + Others(caster') <= MaxRuns
  <2>1. queue' \in Seq(Queued) /\ Len(queue') <= Len(queue) + 1 /\ Len(queue') \in Nat
    BY <1>1, <1>6, Appended
  <2>2. QED BY <1>1, <1>2, <1>3, <1>6, <2>1
<1>7. QED BY <1>4, <1>5, <1>6

\* Accepting a request keeps the room of its message.
LEMMA BoundsAccept ==
  ASSUME RunLoopInv, Bounds, AcceptPin \/ AcceptQueue \/ \E m \in Requests : AcceptRow(m[1], m[2])
  PROVE  Bounds'
<1>1. UNCHANGED <<run, runs, agent, execs, caster>> BY DEF AcceptPin, AcceptQueue, AcceptRow
<1>2. RunBound' /\ ExecBound' BY <1>1 DEF Bounds, RunBound, ExecBound
<1>3. StatusBound' BY DEF Bounds, StatusBound, Statuses, AcceptPin, AcceptQueue, AcceptRow
<1>4. QueueBound'
  <2>1. CASE \E m \in Requests : AcceptRow(m[1], m[2])
    <3>1. PICK m \in Requests : AcceptRow(m[1], m[2]) BY <2>1
    <3> DEFINE one == [kind |-> m[1], contract |-> m[2], next |-> 1]
    <3>2. m[1] \in Messages BY RunLoopAssumption DEF Messages
    <3>3. request = None /\ request' = one /\ UNCHANGED queue /\ Room BY <3>1 DEF AcceptRow
    <3>4. one.kind = m[1] OBVIOUS
    <3> HIDE DEF one
    <3>5. Others(request') + Others(caster') = Others(request) + Others(caster) + 1 \/ request' = None
      BY <1>1, <3>3 DEF Others
    <3>6. QED BY <1>1, <3>2, <3>3, <3>4, <3>5, RoomTaken DEF QueueBound
  <2>2. CASE AcceptQueue
    <3> DEFINE q == [kind |-> request.kind, criteria |-> Len(request.contract)]
    <3>1. request # None /\ request' = None /\ queue' = Append(queue, q) BY <2>2 DEF AcceptQueue
    <3>2. q \in Queued BY <3>1, LenProperties DEF Bounds, QueueBound, Queued, RunLoopInv, RequestInv
    <3> HIDE DEF q
    <3>3. Others(request') + Others(caster') + 1 = Others(request) + Others(caster)
      BY <1>1, <3>1 DEF Others
    <3>4. QED BY <1>1, <3>1, <3>2, <3>3, RoomTaken DEF QueueBound
  <2>3. CASE AcceptPin
    <3>1. request # None /\ UNCHANGED queue BY <2>3 DEF AcceptPin
    <3>2. CASE request' = None
      <4>1. Others(request') + Others(caster') <= Others(request) + Others(caster)
        BY <1>1, <3>1, <3>2 DEF Others
      <4>2. QED BY <1>1, <3>1, <3>2, <4>1, LenProperties, RunLoopAssumption DEF Bounds, QueueBound, Others, RunLoopInv, RunInv
    <3>3. CASE request' = [request EXCEPT !.next = @ + 1]
      <4> DEFINE one == [request EXCEPT !.next = @ + 1]
      <4>1. one.kind = request.kind OBVIOUS
      <4>2. request' = one BY <3>3
      <4> HIDE DEF one
      <4>3. Others(request') <= Others(request) BY <3>1 DEF Others
      <4>4. runs' + Len(queue') + Others(request') + Others(caster') <= MaxRuns
        BY <1>1, <3>1, <4>3, LenProperties, RunLoopAssumption DEF Bounds, QueueBound, Others, RunLoopInv, RunInv
      <4>5. QED BY <1>1, <3>1, <4>1, <4>2, <4>4 DEF Bounds, QueueBound
    <3>4. QED BY <2>3, <3>2, <3>3 DEF AcceptPin
  <2>4. QED BY <2>1, <2>2, <2>3
<1>5. QED BY <1>2, <1>3, <1>4 DEF Bounds

\* Only the task row, the requests from outside and the queue change.
LEMMA BoundsOutside ==
  ASSUME RunLoopInv, Bounds, StopRead \/ StopMark \/ BroadcastList \/ BroadcastDeliver
  PROVE  Bounds'
<1>1. UNCHANGED <<run, runs, agent, execs, request>>
  BY DEF StopRead, StopMark, BroadcastList, BroadcastDeliver, door
<1>2. RunBound' /\ ExecBound' BY <1>1 DEF Bounds, RunBound, ExecBound
<1>3. status \in Statuses /\ (caster # None => caster \in Statuses) BY DEF Bounds, StatusBound
<1>4. StatusBound'
  BY <1>3 DEF StatusBound, Statuses, StopRead, StopMark, BroadcastList, BroadcastDeliver
<1>5. request' # None => request'.kind \in Messages BY <1>1 DEF Bounds, QueueBound
<1>6. queue' \in Seq(Queued) /\ runs' + Len(queue') + Others(request') + Others(caster') <= MaxRuns
  <2>1. CASE StopRead \/ StopMark BY <1>1, <2>1, RoomTaken DEF StopRead, StopMark
  <2>2. CASE BroadcastList
    <3>1. caster = None /\ UNCHANGED queue /\ Room BY <2>2 DEF BroadcastList
    <3>2. CASE caster' = None BY <1>1, <3>1, <3>2, RoomTaken
    <3>3. CASE caster' # None
      <4>1. Others(request') + Others(caster') = Others(request) + Others(caster) + 1
        BY <1>1, <3>1, <3>3 DEF Others
      <4>2. QED BY <1>1, <3>1, <4>1, RoomTaken
    <3>4. QED BY <3>2, <3>3
  <2>3. CASE BroadcastDeliver
    <3> DEFINE q == [kind |-> "instruction", criteria |-> 0]
    <3>1. caster # None /\ caster' = None /\ queue' \in {queue, Append(queue, q)}
      BY <2>3 DEF BroadcastDeliver
    <3>2. q \in Queued BY DEF Queued, Messages
    <3> HIDE DEF q
    <3>3. Others(request') + Others(caster') + 1 = Others(request) + Others(caster)
      BY <1>1, <3>1 DEF Others
    <3>4. QED BY <1>1, <3>1, <3>2, <3>3, RoomTaken
  <2>4. QED BY <2>1, <2>2, <2>3
<1>7. QED BY <1>2, <1>4, <1>5, <1>6 DEF Bounds, QueueBound

\* A new run has spent nothing.
LEMMA BoundsStart == ASSUME RunLoopInv, Bounds, Start PROVE Bounds'
<1>1. /\ queue # <<>> /\ queue' = Tail(queue) /\ runs' = runs + 1 /\ status' = "running"
      /\ UNCHANGED <<execs, caster, request>>
  BY DEF Start
<1>2. runs \in Nat /\ queue \in Seq(Queued) BY DEF RunLoopInv, RunInv, Bounds, QueueBound
<1>3. queue' \in Seq(Queued) /\ Len(queue') = Len(queue) - 1 /\ Len(queue) \in Nat
  BY <1>1, <1>2, LenProperties, HeadTailProperties
<1>4. QueueBound' BY <1>1, <1>2, <1>3, RunLoopAssumption DEF Bounds, QueueBound, Others
<1>5. StatusBound' BY <1>1 DEF Bounds, StatusBound, Statuses
<1>6. run'.id = runs + 1 /\ run'.cycles = 0 /\ run'.pc = "loop" BY DEF Start
<1>7. RunBound' BY <1>1, <1>2, <1>6, RunLoopAssumption DEF RunBound
<1>8. ExecBound' BY <1>1, <1>2, RunLoopAssumption DEF Bounds, ExecBound
<1>9. QED BY <1>4, <1>5, <1>7, <1>8 DEF Bounds

\* The run moves without spending a cycle.
LEMMA BoundsMove ==
  ASSUME RunLoopInv, Bounds, run # None, UNCHANGED <<queue, runs, execs, caster, request>>, status' \in Statuses,
         run'.id = run.id, run'.cycles = run.cycles, agent'.planApproved => agent.planApproved,
         run'.pc = "decide" => run'.cycles < MaxSteps \/ run.pc = "decide",
         run'.pc = "leave" => run'.outcome \in Statuses
  PROVE  Bounds'
<1>1. QueueBound' /\ StatusBound' /\ ExecBound' BY DEF Bounds, QueueBound, StatusBound, ExecBound
<1>2. RunBound' BY DEF Bounds, RunBound
<1>3. QED BY <1>1, <1>2 DEF Bounds

\* Leaving with an outcome spends nothing.
LEMMA BoundsLeave ==
  ASSUME RunLoopInv, Bounds, run # None, NEW o \in Statuses, Leave(o),
         UNCHANGED <<queue, runs, execs, caster, status, request>>, agent'.planApproved => agent.planApproved
  PROVE  Bounds'
<1>1. RunOk BY DEF RunLoopInv, RunInv
<1>2. run'.id = run.id /\ run'.cycles = run.cycles /\ run'.pc = "leave" /\ run'.outcome = o
  BY <1>1 DEF Leave, RunOk, RunFields
<1>3. status' \in Statuses BY DEF Bounds, StatusBound
<1>4. QED BY <1>2, <1>3, BoundsMove

\* The ways a run leaves end in a status of the task row.
LEMMA BoundsLeaves ==
  ASSUME RunLoopInv, Bounds, LoopStopped \/ WaitStopped \/ DecideFails \/ End
  PROVE  Bounds'
<1>1. run # None /\ UNCHANGED <<queue, runs, execs, caster, status, agent, request>>
  BY DEF LoopStopped, WaitStopped, DecideFails, End, door
<1>2. PICK o \in Statuses : Leave(o)
  <2>1. CASE LoopStopped \/ WaitStopped \/ DecideFails
    BY <2>1 DEF LoopStopped, WaitStopped, DecideFails, Statuses
  <2>2. CASE End
    <3>1. run.d.type \in DecisionTypes BY <1>1, <2>2 DEF End, RunLoopInv, RunInv, RunOk
    <3>2. Outcome \in Statuses BY <3>1 DEF Outcome, TaskStatusFor, Concludes, DecisionTypes, Statuses
    <3>3. QED BY <2>2, <3>2 DEF End
  <2>3. QED BY <2>1, <2>2
<1>3. QED BY <1>1, <1>2, BoundsLeave

\* Pausing on a plan spends nothing: the run has not counted its cycle.
LEMMA BoundsPause ==
  ASSUME RunLoopInv, Bounds, PausePin \/ Pause \/ \E d \in Answers : DecidePause(d) PROVE Bounds'
<1>1. /\ run # None /\ RunOk /\ UNCHANGED <<queue, runs, execs, caster, status, request>>
  BY DEF PausePin, Pause, DecidePause, door, RunLoopInv, RunInv
<1>2. status' \in Statuses /\ "error" \in Statuses /\ "awaiting_approval" \in Statuses
  BY <1>1 DEF Bounds, StatusBound, Statuses
<1>3. CASE PausePin
  <2>1. UNCHANGED agent /\ run.pc = "pin" /\ run'.id = run.id /\ run'.cycles = run.cycles /\ run'.pc = run.pc
    BY <1>1, <1>3 DEF PausePin, RunOk, RunFields
  <2>2. QED BY <1>1, <1>2, <2>1, BoundsMove
<1>4. CASE Pause
  <2>1. /\ run'.id = run.id /\ run'.cycles = run.cycles /\ run'.pc = "leave"
        /\ run'.outcome = "awaiting_approval"
    BY <1>1, <1>4 DEF Pause, RunOk, RunFields
  <2>2. agent'.planApproved = agent.planApproved BY <1>4 DEF Pause, RunLoopInv, AgentInv
  <2>3. QED BY <1>1, <1>2, <2>1, <2>2, BoundsMove
<1>5. ASSUME NEW d \in Answers, DecidePause(d) PROVE Bounds'
  <2>1. UNCHANGED agent BY <1>5 DEF DecidePause
  <2>2. CASE Leave("error") BY <1>1, <1>2, <2>1, <2>2, BoundsLeave
  <2>3. CASE run' = [run EXCEPT !.pc = "pin", !.d = d, !.plan = Len(plans) + 1]
    <3>1. run'.id = run.id /\ run'.cycles = run.cycles /\ run'.pc = "pin"
      BY <1>1, <2>3 DEF RunOk, RunFields
    <3>2. QED BY <1>1, <1>2, <2>1, <3>1, BoundsMove
  <2>4. QED BY <1>5, <2>2, <2>3 DEF DecidePause
<1>6. QED BY <1>3, <1>4, <1>5

\* Looking at the budget, observing and persisting spend nothing.
LEMMA BoundsStages ==
  ASSUME RunLoopInv, Bounds, LoopBudget \/ Observe \/ Persist PROVE Bounds'
<1>1. run # None /\ RunOk /\ UNCHANGED <<queue, runs, execs, caster, agent, request>>
  BY DEF LoopBudget, Observe, Persist, RunLoopInv, RunInv, door
<1>2. CASE LoopBudget
  <2>1. PICK pc \in {"decide", "end"} : run' = [run EXCEPT !.pc = pc] /\ (pc = "decide" => ~Spent)
    BY <1>2 DEF LoopBudget
  <2>2. run'.id = run.id /\ run'.cycles = run.cycles /\ run'.pc = pc BY <1>1, <2>1 DEF RunOk, RunFields
  <2>3. run.cycles \in Nat /\ MaxSteps \in Nat BY <1>1, RunLoopAssumption DEF RunOk
  <2>4. pc = "decide" => run'.cycles < MaxSteps BY <2>1, <2>2, <2>3 DEF Spent
  <2>5. status' \in Statuses BY <1>2 DEF LoopBudget, Bounds, StatusBound
  <2>6. QED BY <1>1, <2>1, <2>2, <2>4, <2>5, BoundsMove
<1>3. CASE Observe
  <2>1. /\ run'.id = run.id /\ run'.cycles = run.cycles /\ run'.pc \in {"loop", "end"}
    BY <1>1, <1>3 DEF Observe, RunOk, RunFields
  <2>2. status' \in Statuses BY <1>3 DEF Observe, Bounds, StatusBound
  <2>3. QED BY <1>1, <2>1, <2>2, BoundsMove
<1>4. CASE Persist
  <2>1. run'.id = run.id /\ run'.cycles = run.cycles /\ run'.pc = "left"
    BY <1>1, <1>4 DEF Persist, RunOk, RunFields
  <2>2. status' \in Statuses BY <1>4 DEF Persist, Bounds, RunBound
  <2>3. QED BY <1>1, <2>1, <2>2, BoundsMove
<1>5. QED BY <1>2, <1>3, <1>4

\* A cycle is spent.
LEMMA BoundsDispatch ==
  ASSUME RunLoopInv, Bounds, run # None, run.cycles < MaxSteps, NEW d, NEW p, Dispatch(d, p),
         UNCHANGED <<status, queue, runs, caster, request>>, ~agent'.planApproved
  PROVE  Bounds'
<1>1. RunOk BY DEF RunLoopInv, RunInv
<1>2. run'.id = run.id /\ run'.cycles = run.cycles + 1 /\ run'.pc = "wait"
  BY <1>1 DEF Dispatch, RunOk, RunFields
<1>3. run.id = runs /\ runs # 0 /\ runs \in Nat /\ run.cycles \in Nat /\ MaxSteps \in Nat
  BY <1>1, RunLoopAssumption DEF Bounds, RunBound, RunLoopInv, RunInv, RunOk
<1>4. RunBound' BY <1>2, <1>3 DEF RunBound
<1>5. DOMAIN execs' = DOMAIN execs \cup {<<run.id, run.cycles + 1>>} BY DEF Dispatch
<1>6. <<run.id, run.cycles + 1>> \in (1..runs) \X (1..MaxSteps) BY <1>3
<1>7. ExecBound' BY <1>5, <1>6 DEF Bounds, ExecBound
<1>8. QueueBound' /\ StatusBound' BY DEF Bounds, QueueBound, StatusBound
<1>9. QED BY <1>4, <1>7, <1>8 DEF Bounds

\* Every step keeps the run within its budget.
LEMMA BoundsInductive == RunLoopInv /\ Bounds /\ [Next]_vars => Bounds'
<1> SUFFICES ASSUME RunLoopInv, Bounds, [Next]_vars PROVE Bounds' OBVIOUS
<1>1. CASE StopRead \/ StopMark \/ BroadcastList \/ BroadcastDeliver BY <1>1, BoundsOutside
<1>2. CASE AcceptPin \/ AcceptQueue \/ \E m \in Requests : AcceptRow(m[1], m[2])
  BY <1>2, BoundsAccept
<1>3. CASE Start BY <1>3, BoundsStart
<1>4. CASE StopCancel
  <2>1. UNCHANGED <<status, queue, runs, agent, execs, caster, request>> BY <1>4 DEF StopCancel, door
  <2>2. CASE UNCHANGED run
    BY <2>1, <2>2 DEF Bounds, QueueBound, StatusBound, RunBound, ExecBound
  <2>3. CASE run # None /\ run' = [run EXCEPT !.cancelled = TRUE]
    <3>1. RunOk BY <2>3 DEF RunLoopInv, RunInv
    <3>2. /\ run'.id = run.id /\ run'.cycles = run.cycles /\ run'.pc = run.pc /\ run'.outcome = run.outcome
      BY <2>3, <3>1 DEF RunOk, RunFields
    <3>3. status' \in Statuses /\ (run.pc = "leave" => run.outcome \in Statuses)
      BY <2>1, <2>3 DEF Bounds, StatusBound, RunBound
    <3>4. QED BY <2>1, <2>3, <3>2, <3>3, BoundsMove
  <2>4. QED BY <1>4, <2>2, <2>3 DEF StopCancel
<1>5. CASE LoopStopped \/ WaitStopped \/ DecideFails \/ End BY <1>5, BoundsLeaves
<1>6. CASE PausePin \/ Pause \/ \E d \in Answers : DecidePause(d) BY <1>6, BoundsPause
<1>7. CASE LoopBudget \/ Observe \/ Persist BY <1>7, BoundsStages
<1>8. CASE LoopApproved
  <2>1. run # None /\ agent.planApproved /\ UNCHANGED <<status, queue, runs, caster, request>> /\ ~agent'.planApproved
    BY <1>8 DEF LoopApproved, door
  <2>2. run.cycles < MaxSteps BY <2>1, RunLoopAssumption DEF Bounds, RunBound
  <2>3. QED BY <1>8, <2>1, <2>2, BoundsDispatch DEF LoopApproved
<1>9. ASSUME NEW d \in Answers, DecideExecute(d) PROVE Bounds'
  <2>1. /\ run # None /\ run.pc = "decide" /\ Dispatch(d, 0)
        /\ UNCHANGED <<status, queue, runs, caster, agent, request>>
    BY <1>9 DEF DecideExecute, door
  <2>2. run.cycles < MaxSteps /\ ~agent.planApproved
    BY <2>1 DEF Bounds, RunBound, RunLoopInv, AgentInv
  <2>3. QED BY <2>1, <2>2, BoundsDispatch
<1>10. CASE Return
  <2>1. /\ run' = None /\ UNCHANGED <<status, queue, runs, caster, request>>
        /\ DOMAIN execs' \subseteq DOMAIN execs
    BY <1>10 DEF Return, door
  <2>2. QED BY <2>1 DEF Bounds, QueueBound, StatusBound, RunBound, ExecBound
<1>11. ASSUME NEW e \in DOMAIN execs, Exec(e) PROVE Bounds'
  <2>1. UNCHANGED <<status, queue, run, runs, agent, caster, request>>
    BY <1>11 DEF Exec, ExecBegin, ExecPin, ExecPanic, ExecVerify, ExecStep, door
  <2>2. DOMAIN execs' = DOMAIN execs
    BY <1>11 DEF Exec, ExecBegin, ExecPin, ExecPanic, ExecVerify, ExecStep, Ended, Go, RunLoopInv, ExecInv
  <2>3. QED BY <2>1, <2>2 DEF Bounds, QueueBound, StatusBound, RunBound, ExecBound
<1>12. CASE UNCHANGED vars
  BY <1>12 DEF vars, door, Bounds, QueueBound, StatusBound, RunBound, ExecBound
<1>13. QED
  BY <1>1, <1>3, <1>4, <1>5, <1>7, <1>8, <1>9, <1>10, <1>11, <1>12, <1>2, <1>6 DEF Next, Loop, Decide

\* A task that was never asked is within its bounds.
LEMMA BoundsInitially == Init => Bounds
<1> SUFFICES ASSUME Init PROVE Bounds OBVIOUS
<1>1. <<>> \in Seq(Queued) /\ Len(<<>>) = 0 /\ DOMAIN NoRows = {} BY EmptySeq DEF NoRows
<1>2. QED BY <1>1, RunLoopAssumption
          DEF Init, Bounds, QueueBound, StatusBound, RunBound, ExecBound, Statuses, Others

\* The types of the run loop: a run spends at most MaxSteps cycles although a
\* confirmed plan is dispatched without a look at the budget.
THEOREM RunLoopTypes == Spec => []TypeOK
<1>1. Init => Bounds BY BoundsInitially
<1>2. RunLoopInv /\ Bounds => TypeOK
  <2> SUFFICES ASSUME RunLoopInv, Bounds PROVE TypeOK OBVIOUS
  <2>1. Len(queue) \in Nat /\ Len(plans) \in Nat /\ runs \in Nat /\ queue \in Seq(Queued)
    BY LenProperties DEF Bounds, QueueBound, RunLoopInv, RunInv, StoreInv
  <2>2. runs \in 0..MaxRuns BY <2>1, RunLoopAssumption DEF Bounds, QueueBound, Others
  <2>3. agent \in [pendingPlan : 0..Len(plans), planApproved : BOOLEAN]
    <3>1. agent \in [pendingPlan : Nat, planApproved : BOOLEAN] /\ agent.pendingPlan <= Len(plans)
      BY DEF RunLoopInv, AgentInv
    <3>2. agent.pendingPlan \in 0..Len(plans) BY <2>1, <3>1
    <3>3. QED BY <3>1, <3>2
  <2>4. run # None => run.id = runs /\ run.cycles \in 0..MaxSteps
    BY RunLoopAssumption DEF Bounds, RunBound, RunLoopInv, RunInv, RunOk
  <2>5. \A e \in DOMAIN execs : execs[e].plan \in 0..Len(plans) BY ExecTyped
  <2>6. QED BY <2>1, <2>2, <2>3, <2>4, <2>5
            DEF TypeOK, Queued, Bounds, StatusBound, ExecBound, RunLoopInv, StoreInv, ContractShape
<1>3. QED BY <1>1, <1>2, BoundsInductive, RunLoopInvariant, PTL DEF Spec
-----------------------------------------------------------------------------
(* A done is judged by the whole contract of its run. *)

\* The request that is accepted, the messages that wait and the runs that were
\* started have the criteria they brought in the contract.
AskedInv ==
  /\ asked \in Seq(Nat) /\ Len(asked) = runs
  /\ \A r \in 1 .. runs : \A i \in 1 .. asked[r] : i \in DOMAIN contract
  /\ \A k \in 1 .. Len(queue) : \A i \in 1 .. queue[k].criteria : i \in DOMAIN contract
  /\ request # None => \A i \in 1 .. request.next - 1 : i \in DOMAIN contract

\* The executions of the run: the last one only may still be under way, and none
\* is while the run decides.
Own(e) == e[1] = run.id
LastOnly ==
  \A e \in DOMAIN execs : Own(e) =>
    /\ e[2] <= run.cycles
    /\ execs[e].pc # "done" => e[2] = run.cycles /\ run.pc \notin {"loop", "decide", "pin"}

\* A criterion the run declared is pinned, its row was skipped, or it is still to
\* come, by an execution of the run or by the run that waits with its plan.
ToCome(q, i) ==
  \/ \E e \in DOMAIN execs : Own(e) /\ execs[e].pc = "pin" /\ execs[e].plan = q /\ execs[e].next <= i
  \/ run.pc = "pin" /\ run.plan = q /\ run.next <= i
Declared ==
  \A q \in 1 .. Len(plans) : plans[q].run = run.id =>
    \A i \in 1 .. plans[q].criteria : i \in DOMAIN contract \/ <<q, i>> \in skipped \/ ToCome(q, i)
PinsAll ==
  \A e \in DOMAIN execs : Own(e) /\ execs[e].pc = "pin" =>
    plans[execs[e].plan].criteria <= Len(execs[e].d.contract)

\* What a done of the run that was not refused stands for, from its execution to
\* the outcome of the run.
Judged ==
  /\ \A e \in DOMAIN execs :
       Own(e) /\ execs[e].d.type = "done" /\ execs[e].pc = "done" /\ ~execs[e].failed => DoneIsWhole(run.id)
  /\ run.pc \in {"loop", "end"} /\ run.cycles # 0 /\ ~run.err /\ run.d.type = "done" => DoneIsWhole(run.id)
  /\ run.outcome = "completed" => DoneIsWhole(run.id)

WholeInv ==
  /\ AskedInv /\ \A p \in 1 .. Len(plans) : plans[p].run <= runs
  /\ run # None => LastOnly /\ Declared /\ PinsAll /\ Judged

\* What a step never takes back of the plans, their judgements, the contract and
\* the rows that were skipped.
Kept ==
  /\ \A p \in 1 .. Len(plans) : p \in 1 .. Len(plans') /\ plans'[p] = plans[p] /\ judged[p] \subseteq judged'[p]
  /\ \A i \in DOMAIN contract : i \in DOMAIN contract'
  /\ skipped \subseteq skipped'
  /\ \A r \in 1 .. runs : asked'[r] = asked[r]

\* A plan row that is appended.
LEMMA PlanAppended ==
  ASSUME StoreInv, NEW row, AppendPlan(row)
  PROVE  /\ Len(plans) \in Nat /\ Len(plans') = Len(plans) + 1 /\ plans'[Len(plans) + 1] = row
         /\ \A p \in 1 .. Len(plans) : plans'[p] = plans[p] /\ judged'[p] = judged[p]
<1>1. /\ Len(plans) \in Nat /\ Len(judged) = Len(plans)
      /\ plans = [p \in 1 .. Len(plans) |-> plans[p]] /\ judged = [p \in 1 .. Len(judged) |-> judged[p]]
  BY LenProperties DEF StoreInv
<1> DEFINE S == {plans[p] : p \in 1 .. Len(plans)} \cup {row}
<1>2. plans \in [1 .. Len(plans) -> S] BY <1>1
<1>3. row \in S OBVIOUS
<1> HIDE DEF S
<1>4. plans \in Seq(S) BY <1>1, <1>2, SeqDef
<1>5. judged \in Seq(SUBSET Judgements) /\ {} \in SUBSET Judgements BY DEF StoreInv
<1>6. plans' = Append(plans, row) /\ judged' = Append(judged, {}) BY DEF AppendPlan
<1>7. Len(plans') = Len(plans) + 1 /\ plans'[Len(plans) + 1] = row
      /\ \A p \in 1 .. Len(plans) : plans'[p] = plans[p]
  BY <1>3, <1>4, <1>6, Appended
<1>8. \A p \in 1 .. Len(judged) : judged'[p] = judged[p] BY <1>5, <1>6, Appended
<1>9. QED BY <1>1, <1>7, <1>8

\* Pinning a criterion takes nothing back and leaves it pinned.
LEMMA PinDomain ==
  ASSUME NEW c, NEW i, NEW row
  PROVE  i \in DOMAIN Pin(c, i, row) /\ \A j \in DOMAIN c : j \in DOMAIN Pin(c, i, row)
BY DEF Pin

\* No step takes anything back.
LEMMA NothingTakenBack == ASSUME RunLoopInv, AskedInv, [Next]_vars PROVE Kept
<1>1. StoreInv /\ Len(plans) \in Nat BY LenProperties DEF RunLoopInv, StoreInv
<1>2. \A r \in 1 .. runs : asked'[r] = asked[r]
  <2>1. CASE UNCHANGED asked BY <2>1
  <2>2. CASE Start
    <3>1. asked' = Append(asked, Head(queue).criteria) /\ queue # <<>> BY <2>2 DEF Start
    <3>2. runs \in Nat /\ asked \in Seq(Nat) /\ Len(asked) = runs BY DEF AskedInv, RunLoopInv, RunInv
    <3>3. asked \in Seq(Nat \cup {Head(queue).criteria}) BY <3>2, SeqDef
    <3>4. QED BY <3>1, <3>2, <3>3, Appended
  <2>3. QED
    BY <2>1, <2>2 DEF Next, vars, door, AcceptRow, AcceptPin, AcceptQueue, StopRead, StopCancel, StopMark,
       BroadcastList, BroadcastDeliver, Loop, LoopStopped, LoopApproved, LoopBudget, PausePin, Pause, Observe,
       WaitStopped, End, Persist, Return, Decide, DecideFails, DecideExecute, DecidePause, Exec, ExecBegin,
       ExecPin, ExecPanic, ExecVerify, ExecStep
<1>3. CASE UNCHANGED store BY <1>1, <1>2, <1>3 DEF Kept, store
<1>4. ASSUME NEW row, AppendPlan(row), UNCHANGED <<contract, skipped>> PROVE Kept
  <2>1. /\ Len(plans') = Len(plans) + 1
        /\ \A p \in 1 .. Len(plans) : plans'[p] = plans[p] /\ judged'[p] = judged[p]
    BY <1>1, <1>4, PlanAppended
  <2>2. QED BY <1>1, <1>2, <1>4, <2>1 DEF Kept
<1>5. ASSUME UNCHANGED <<plans, judged>>, NEW i, NEW row, contract' \in {contract, Pin(contract, i, row)},
             skipped \subseteq skipped'
      PROVE  Kept
  BY <1>1, <1>2, <1>5, PinDomain DEF Kept
<1>6. CASE AcceptPin
  <2>1. /\ UNCHANGED <<plans, judged, skipped>>
        /\ contract' \in {contract, Pin(contract, request.next, Criterion(request.contract, request.next, 0))}
    BY <1>6 DEF AcceptPin
  <2>2. QED BY <1>5, <2>1
<1>7. CASE PausePin
  <2>1. /\ UNCHANGED <<plans, judged>> /\ skipped \subseteq skipped'
        /\ contract' \in {contract, Pin(contract, run.next, Criterion(run.d.contract, run.next, run.id))}
    BY <1>7 DEF PausePin, PinRow
  <2>2. QED BY <1>5, <2>1
<1>8. ASSUME NEW e \in DOMAIN execs, ExecPin(e) PROVE Kept
  <2> DEFINE x == execs[e]
  <2>1. /\ UNCHANGED <<plans, judged>> /\ skipped \subseteq skipped'
        /\ contract' \in {contract, Pin(contract, x.next, Criterion(x.d.contract, x.next, e[1]))}
    BY <1>8 DEF ExecPin, PinRow
  <2>2. QED BY <1>5, <2>1
<1>9. ASSUME NEW e \in DOMAIN execs, ExecVerify(e) PROVE Kept
  <2>1. UNCHANGED <<plans, contract, skipped>> /\ Len(judged) = Len(plans) BY <1>1, <1>9 DEF ExecVerify, StoreInv
  <2>2. \A p \in 1 .. Len(plans) : p \in DOMAIN judged BY <1>1, <2>1, LenProperties DEF StoreInv
  <2>3. CASE UNCHANGED judged BY <1>2, <2>1, <2>3 DEF Kept
  <2>4. CASE judged' = [judged EXCEPT ![execs[e].plan] = @ \cup {Pinned}]
    <3>1. \A p \in 1 .. Len(plans) : judged[p] \subseteq judged'[p] BY <2>2, <2>4
    <3>2. QED BY <1>2, <2>1, <3>1 DEF Kept
  <2>5. QED BY <1>9, <2>3, <2>4 DEF ExecVerify
<1>10. ASSUME NEW e \in DOMAIN execs, ExecBegin(e) PROVE Kept BY <1>3, <1>4, <1>10 DEF ExecBegin
<1>11. ASSUME NEW e \in DOMAIN execs, NEW ok \in BOOLEAN, ExecStep(e, ok) PROVE Kept
  BY <1>1, <1>2, <1>11 DEF ExecStep, Kept
<1>12. ASSUME NEW d \in Answers, DecidePause(d) PROVE Kept BY <1>3, <1>4, <1>12 DEF DecidePause
<1>13. CASE Start \/ AcceptQueue \/ \E m \in Requests : AcceptRow(m[1], m[2])
  BY <1>3, <1>13 DEF Start, AcceptQueue, AcceptRow
<1>14. CASE StopRead \/ StopCancel \/ StopMark \/ BroadcastList \/ BroadcastDeliver
  BY <1>3, <1>14 DEF StopRead, StopCancel, StopMark, BroadcastList, BroadcastDeliver
<1>15. CASE Loop /\ ~PausePin
  BY <1>3, <1>15 DEF Loop, LoopStopped, LoopApproved, LoopBudget, Pause, Observe, WaitStopped, End, Persist, Return
<1>16. CASE DecideFails \/ \E d \in Answers : DecideExecute(d) BY <1>3, <1>16 DEF DecideFails, DecideExecute
<1>17. ASSUME NEW e \in DOMAIN execs, ExecPanic(e) PROVE Kept BY <1>3, <1>17 DEF ExecPanic
<1>18. CASE UNCHANGED vars BY <1>3, <1>18 DEF vars
<1>19. QED
  BY <1>6, <1>7, <1>8, <1>9, <1>10, <1>11, <1>12, <1>13, <1>14, <1>15, <1>16, <1>17, <1>18 DEF Next, Decide, Exec

\* A judgement by the whole contract stands.
LEMMA WholeKept ==
  ASSUME RunLoopInv, RunLoopInv', Kept, NEW r \in 1 .. runs, DoneIsWhole(r) PROVE DoneIsWhole(r)'
<1>1. /\ Len(plans) \in Nat /\ DOMAIN plans = 1 .. Len(plans)
      /\ Len(plans') \in Nat /\ DOMAIN plans' = 1 .. Len(plans')
  BY LenProperties DEF RunLoopInv, StoreInv
<1>2. PICK p \in DOMAIN plans :
        /\ plans[p].type = "done" /\ plans[p].run = r
        /\ \E c \in judged[p] :
             /\ 1..asked[r] \subseteq DOMAIN c
             /\ \A q \in 1..p : plans[q].run = r =>
                  \A i \in 1..plans[q].criteria : i \in DOMAIN c \/ <<q, i>> \in skipped
  BY DEF DoneIsWhole
<1>3. PICK c \in judged[p] :
        /\ 1..asked[r] \subseteq DOMAIN c
        /\ \A q \in 1..p : plans[q].run = r =>
             \A i \in 1..plans[q].criteria : i \in DOMAIN c \/ <<q, i>> \in skipped
  BY <1>2
<1>4. \A q \in 1 .. p : q \in 1 .. Len(plans) BY <1>1
<1>5. p \in DOMAIN plans' /\ plans'[p] = plans[p] /\ c \in judged'[p] BY <1>1, <1>3 DEF Kept
<1>6. \A q \in 1 .. p : plans'[q] = plans[q] BY <1>4 DEF Kept
<1>7. asked'[r] = asked[r] /\ skipped \subseteq skipped' BY DEF Kept
<1>8. \A q \in 1..p : plans'[q].run = r =>
        \A i \in 1..plans'[q].criteria : i \in DOMAIN c \/ <<q, i>> \in skipped'
  BY <1>3, <1>6, <1>7
<1>9. QED BY <1>2, <1>3, <1>5, <1>7, <1>8 DEF DoneIsWhole

\* What a request brought stays in the contract until its run is started, and
\* after.
LEMMA AskedNext == ASSUME RunLoopInv, Bounds, AskedInv, Kept, [Next]_vars PROVE AskedInv'
<1>1. /\ runs \in Nat /\ asked \in Seq(Nat) /\ Len(asked) = runs
      /\ queue \in Seq(Queued) /\ Len(queue) \in Nat
  BY LenProperties DEF AskedInv, RunLoopInv, RunInv, Bounds, QueueBound
<1>2. \A r \in 1 .. runs : \A i \in 1 .. asked[r] : i \in DOMAIN contract' BY DEF AskedInv, Kept
<1>3. \A k \in 1 .. Len(queue) : \A i \in 1 .. queue[k].criteria : i \in DOMAIN contract'
  BY DEF AskedInv, Kept
<1>4. request # None => request.next \in Nat \ {0} /\ \A i \in 1 .. request.next - 1 : i \in DOMAIN contract'
  BY DEF AskedInv, Kept, RunLoopInv, RequestInv
<1>5. CASE UNCHANGED <<asked, runs, queue, request>> BY <1>1, <1>2, <1>3, <1>4, <1>5 DEF AskedInv
<1>6. ASSUME NEW m \in Requests, AcceptRow(m[1], m[2]) PROVE AskedInv'
  <2>1. UNCHANGED <<asked, runs, queue>> /\ request'.next = 1 BY <1>6 DEF AcceptRow
  <2>2. QED BY <1>1, <1>2, <1>3, <2>1 DEF AskedInv
<1>7. CASE AcceptPin
  <2>1. UNCHANGED <<asked, runs, queue>> /\ request # None BY <1>7 DEF AcceptPin
  <2>2. CASE request' = None BY <1>1, <1>2, <1>3, <2>1, <2>2 DEF AskedInv
  <2>3. CASE /\ contract' = Pin(contract, request.next, Criterion(request.contract, request.next, 0))
             /\ request' = [request EXCEPT !.next = @ + 1]
    <3> DEFINE one == [request EXCEPT !.next = @ + 1]
    <3>1. request' = one BY <2>3
    <3>2. one.next = request.next + 1 BY DEF one
    <3> HIDE DEF one
    <3>3. request.next \in DOMAIN contract' BY <2>3, PinDomain
    <3>4. \A i \in 1 .. request'.next - 1 : i \in DOMAIN contract'
      <4>1. request.next \in Nat \ {0} /\ request'.next = request.next + 1 BY <1>4, <2>1, <3>1, <3>2
      <4>2. \A i \in 1 .. request'.next - 1 : i = request.next \/ i \in 1 .. request.next - 1 BY <4>1
      <4>3. QED BY <1>4, <2>1, <3>3, <4>2
    <3>5. QED BY <1>1, <1>2, <1>3, <2>1, <3>4 DEF AskedInv
  <2>4. QED BY <1>7, <2>2, <2>3 DEF AcceptPin
<1>8. CASE AcceptQueue
  <2> DEFINE q == [kind |-> request.kind, criteria |-> Len(request.contract)]
  <2>1. /\ UNCHANGED <<asked, runs>> /\ request # None /\ request' = None /\ queue' = Append(queue, q)
        /\ request.next > Len(request.contract)
    BY <1>8 DEF AcceptQueue
  <2>2. Len(request.contract) \in Nat /\ q.criteria = Len(request.contract)
    BY <2>1, LenProperties DEF RunLoopInv, RequestInv
  <2>3. q \in Queued BY <2>1, <2>2 DEF Queued, Bounds, QueueBound
  <2>4. \A i \in 1 .. q.criteria : i \in DOMAIN contract' BY <1>4, <2>1, <2>2
  <2> HIDE DEF q
  <2>5. Len(queue') = Len(queue) + 1 /\ queue'[Len(queue) + 1] = q
        /\ \A k \in 1 .. Len(queue) : queue'[k] = queue[k]
    BY <1>1, <2>1, <2>3, Appended
  <2>6. \A k \in 1 .. Len(queue') : \A i \in 1 .. queue'[k].criteria : i \in DOMAIN contract'
    <3> SUFFICES ASSUME NEW k \in 1 .. Len(queue) + 1
                 PROVE  \A i \in 1 .. queue'[k].criteria : i \in DOMAIN contract' BY <2>5
    <3>1. CASE k = Len(queue) + 1 BY <2>4, <2>5, <3>1
    <3>2. CASE k \in 1 .. Len(queue) BY <1>3, <2>5, <3>2
    <3>3. QED BY <1>1, <3>1, <3>2
  <2>7. QED BY <1>1, <1>2, <2>1, <2>6 DEF AskedInv
<1>9. CASE Start
  <2> DEFINE n == Head(queue).criteria
  <2>1. /\ UNCHANGED request /\ queue # <<>> /\ queue' = Tail(queue) /\ runs' = runs + 1
        /\ asked' = Append(asked, n)
    BY <1>9 DEF Start
  <2>2. /\ Head(queue) = queue[1] /\ 1 \in 1 .. Len(queue) /\ Len(queue') = Len(queue) - 1
        /\ \A k \in 1 .. Len(queue) - 1 : queue'[k] = queue[k + 1]
    BY <1>1, <2>1, HeadTailProperties
  <2>3. n \in Nat /\ \A i \in 1 .. n : i \in DOMAIN contract'
    <3>1. queue[1] \in Queued BY <1>1, <2>2, ElementOfSeq
    <3>2. n = queue[1].criteria BY <2>2
    <3>3. queue[1].criteria \in Nat BY <3>1 DEF Queued
    <3>4. QED BY <1>3, <2>2, <3>2, <3>3
  <2> HIDE DEF n
  <2>4. /\ asked' \in Seq(Nat) /\ Len(asked') = runs + 1 /\ asked'[runs + 1] = n
        /\ \A r \in 1 .. runs : asked'[r] = asked[r]
    BY <1>1, <2>1, <2>3, Appended
  <2>5. ASSUME NEW r \in 1 .. runs + 1 PROVE \A i \in 1 .. asked'[r] : i \in DOMAIN contract'
    <3>1. CASE r = runs + 1 BY <2>3, <2>4, <3>1
    <3>2. CASE r \in 1 .. runs BY <1>2, <2>4, <3>2
    <3>3. QED BY <1>1, <3>1, <3>2
  <2>6. ASSUME NEW k \in 1 .. Len(queue) - 1 PROVE \A i \in 1 .. queue'[k].criteria : i \in DOMAIN contract'
    <3>1. k + 1 \in 1 .. Len(queue) /\ queue'[k] = queue[k + 1] BY <1>1, <2>2
    <3>2. QED BY <1>3, <3>1
  <2>7. QED BY <1>1, <1>4, <2>1, <2>2, <2>4, <2>5, <2>6 DEF AskedInv
<1>10. CASE BroadcastDeliver
  <2> DEFINE q == [kind |-> "instruction", criteria |-> 0]
  <2>1. UNCHANGED <<asked, runs, request>> /\ queue' \in {queue, Append(queue, q)}
    BY <1>10 DEF BroadcastDeliver, door
  <2>2. q \in Queued /\ q.criteria = 0 BY DEF Queued, Messages
  <2> HIDE DEF q
  <2>3. CASE queue' = queue BY <1>5, <2>1, <2>3
  <2>4. CASE queue' = Append(queue, q)
    <3>1. Len(queue') = Len(queue) + 1 /\ queue'[Len(queue) + 1] = q
          /\ \A k \in 1 .. Len(queue) : queue'[k] = queue[k]
      BY <1>1, <2>2, <2>4, Appended
    <3>2. \A k \in 1 .. Len(queue') : \A i \in 1 .. queue'[k].criteria : i \in DOMAIN contract'
      <4> SUFFICES ASSUME NEW k \in 1 .. Len(queue) + 1
                   PROVE  \A i \in 1 .. queue'[k].criteria : i \in DOMAIN contract' BY <3>1
      <4>1. CASE k = Len(queue) + 1 BY <2>2, <3>1, <4>1
      <4>2. CASE k \in 1 .. Len(queue) BY <1>3, <3>1, <4>2
      <4>3. QED BY <1>1, <4>1, <4>2
    <3>3. QED BY <1>1, <1>2, <1>4, <2>1, <3>2 DEF AskedInv
  <2>5. QED BY <2>1, <2>3, <2>4
<1>11. CASE StopRead \/ StopCancel \/ StopMark \/ BroadcastList
  BY <1>5, <1>11 DEF StopRead, StopCancel, StopMark, BroadcastList, door
<1>12. CASE Loop
  BY <1>5, <1>12 DEF door, Loop, LoopStopped, LoopApproved, LoopBudget, PausePin, Pause, Observe,
     WaitStopped, End, Persist, Return
<1>13. CASE Decide BY <1>5, <1>13 DEF door, Decide, DecideFails, DecideExecute, DecidePause
<1>14. ASSUME NEW e \in DOMAIN execs, Exec(e) PROVE AskedInv'
  BY <1>5, <1>14 DEF door, Exec, ExecBegin, ExecPin, ExecPanic, ExecVerify, ExecStep
<1>15. CASE UNCHANGED vars BY <1>5, <1>15 DEF vars, door
<1>16. QED
  BY <1>6, <1>7, <1>8, <1>9, <1>10, <1>11, <1>12, <1>13, <1>14, <1>15 DEF Next

\* The run in flight is one of those that were started.
LEMMA RunStarted ==
  ASSUME RunLoopInv, Bounds, run # None
  PROVE  RunOk /\ runs \in Nat /\ run.id = runs /\ run.id \in 1 .. runs /\ run.cycles \in Nat
BY DEF RunLoopInv, RunInv, RunOk, Bounds, RunBound

\* What was declared stays declared.
LEMMA DeclaredNext ==
  ASSUME RunLoopInv, Kept, Declared, run'.id = run.id,
         \A q \in 1 .. Len(plans) : plans[q].run = run.id => \A i \in 1 .. plans[q].criteria :
           ToCome(q, i) => i \in DOMAIN contract' \/ <<q, i>> \in skipped' \/ ToCome(q, i)',
         \A q \in 1 .. Len(plans') : q \notin 1 .. Len(plans) /\ plans'[q].run = run.id =>
           \A i \in 1 .. plans'[q].criteria : ToCome(q, i)'
  PROVE  Declared'
<1> SUFFICES ASSUME NEW q \in 1 .. Len(plans'), plans'[q].run = run.id, NEW i \in 1 .. plans'[q].criteria
             PROVE  i \in DOMAIN contract' \/ <<q, i>> \in skipped' \/ ToCome(q, i)'
  BY DEF Declared
<1>1. CASE q \notin 1 .. Len(plans) BY <1>1
<1>2. CASE q \in 1 .. Len(plans)
  <2>1. plans'[q] = plans[q] BY <1>2 DEF Kept
  <2>2. i \in DOMAIN contract \/ <<q, i>> \in skipped \/ ToCome(q, i) BY <1>2, <2>1 DEF Declared
  <2>3. CASE ToCome(q, i) BY <1>2, <2>1, <2>3
  <2>4. CASE i \in DOMAIN contract BY <2>4 DEF Kept
  <2>5. CASE <<q, i>> \in skipped BY <2>5 DEF Kept
  <2>6. QED BY <2>2, <2>3, <2>4, <2>5
<1>3. QED BY <1>1, <1>2

\* The run moves, its executions and the plans stand.
LEMMA WholeStage ==
  ASSUME RunLoopInv, RunLoopInv', Bounds, WholeInv, AskedInv', Kept, run # None, UNCHANGED <<runs, execs, plans>>,
         run'.id = run.id, run'.cycles = run.cycles,
         run'.pc \in {"loop", "decide", "pin"} => \A e \in DOMAIN execs : Own(e) => execs[e].pc = "done",
         \A q \in 1 .. Len(plans) : plans[q].run = run.id => \A i \in 1 .. plans[q].criteria :
           ToCome(q, i) => i \in DOMAIN contract' \/ <<q, i>> \in skipped' \/ ToCome(q, i)',
         run'.pc \in {"loop", "end"} /\ run'.cycles # 0 /\ ~run'.err /\ run'.d.type = "done" => DoneIsWhole(run.id),
         run'.outcome = "completed" => DoneIsWhole(run.id)
  PROVE  WholeInv'
<1>1. run.id \in 1 .. runs BY RunStarted
<1>2. DoneIsWhole(run.id) => DoneIsWhole(run.id)' BY <1>1, WholeKept
<1>3. Declared' BY DeclaredNext DEF WholeInv
<1>4. LastOnly' /\ PinsAll' BY DEF WholeInv, LastOnly, PinsAll, Own
<1>5. \A e \in DOMAIN execs :
        Own(e) /\ execs[e].d.type = "done" /\ execs[e].pc = "done" /\ ~execs[e].failed => DoneIsWhole(run.id)
  BY DEF WholeInv, Judged
<1>6. Judged' BY <1>2, <1>5 DEF Judged, Own
<1>7. QED BY <1>3, <1>4, <1>6 DEF WholeInv

\* The run, its executions and the plans stand.
LEMMA WholeRest ==
  ASSUME RunLoopInv, RunLoopInv', Bounds, WholeInv, AskedInv', Kept, UNCHANGED <<run, runs, execs, plans>>
  PROVE  WholeInv'
<1>1. CASE run = None BY <1>1 DEF WholeInv
<1>2. CASE run # None
  <2>1. run.pc \in {"loop", "decide", "pin"} => \A e \in DOMAIN execs : Own(e) => execs[e].pc = "done"
    BY <1>2 DEF WholeInv, LastOnly
  <2>2. \A q, i : ToCome(q, i) => ToCome(q, i)' BY DEF ToCome, Own
  <2>3. /\ run.pc \in {"loop", "end"} /\ run.cycles # 0 /\ ~run.err /\ run.d.type = "done" => DoneIsWhole(run.id)
        /\ run.outcome = "completed" => DoneIsWhole(run.id)
    BY <1>2 DEF WholeInv, Judged
  <2>4. QED BY <1>2, <2>1, <2>2, <2>3, WholeStage
<1>3. QED BY <1>1, <1>2

\* The run leaves, completed only on a done that was judged by everything.
LEMMA WholeLeave ==
  ASSUME RunLoopInv, RunLoopInv', Bounds, WholeInv, AskedInv', Kept, run # None, run.pc # "pin", NEW o, Leave(o),
         UNCHANGED <<runs, execs, plans>>, o = "completed" => DoneIsWhole(run.id)
  PROVE  WholeInv'
<1>1. RunOk BY RunStarted
<1>2. run'.pc = "leave" /\ run'.id = run.id /\ run'.cycles = run.cycles /\ run'.outcome = o
  BY <1>1 DEF Leave, RunOk, RunFields
<1>3. \A q, i : ToCome(q, i) => ToCome(q, i)' BY <1>2 DEF ToCome, Own
<1>4. QED BY <1>2, <1>3, WholeStage

\* The steps of the run that dispatch nothing.
LEMMA WholeLoop ==
  ASSUME RunLoopInv, RunLoopInv', Bounds, WholeInv, AskedInv', Kept,
         LoopStopped \/ LoopBudget \/ PausePin \/ Pause \/ Observe \/ WaitStopped \/ End \/ Persist \/ DecideFails
  PROVE  WholeInv'
<1>1. run # None /\ UNCHANGED <<runs, execs, plans>>
  BY DEF LoopStopped, LoopBudget, PausePin, Pause, Observe, WaitStopped, End, Persist, DecideFails, store
<1>2. RunOk /\ run.id \in 1 .. runs BY <1>1, RunStarted
<1>3. LastOnly /\ Declared /\ PinsAll /\ Judged BY <1>1 DEF WholeInv
<1>4. CASE LoopStopped \/ WaitStopped \/ DecideFails \/ End
  <2>1. run.pc # "pin" BY <1>4 DEF LoopStopped, WaitStopped, WaitCancelled, DecideFails, End
  <2>2. CASE LoopStopped \/ WaitStopped \/ DecideFails
    <3>1. PICK o : Leave(o) /\ o # "completed" BY <2>2 DEF LoopStopped, WaitStopped, DecideFails
    <3>2. QED BY <1>1, <2>1, <3>1, WholeLeave
  <2>3. CASE End
    <3>1. Leave(Outcome) /\ run.pc = "end" /\ run.d.type \in DecisionTypes /\ run.cycles # 0
      BY <1>2, <2>3 DEF End, RunOk
    <3>2. ~run.err /\ run.d.type = "done" => DoneIsWhole(run.id) BY <1>3, <3>1 DEF Judged
    <3>3. Outcome = "completed" => DoneIsWhole(run.id)
      BY <3>1, <3>2 DEF Outcome, TaskStatusFor, Concludes, DecisionTypes
    <3>4. QED BY <1>1, <2>1, <3>1, <3>3, WholeLeave
  <2>4. QED BY <1>4, <2>2, <2>3
<1>5. CASE LoopBudget
  <2>1. /\ run.pc = "loop" /\ run'.pc \in {"decide", "end"} /\ run'.id = run.id /\ run'.cycles = run.cycles
        /\ run'.outcome = run.outcome /\ run'.err = run.err /\ run'.d = run.d
    BY <1>2, <1>5 DEF LoopBudget, RunOk, RunFields
  <2>2. \A e \in DOMAIN execs : Own(e) => execs[e].pc = "done" BY <1>3, <2>1 DEF LastOnly
  <2>3. \A q, i : ToCome(q, i) => ToCome(q, i)' BY <1>1, <2>1 DEF ToCome, Own
  <2>4. run'.cycles # 0 /\ ~run'.err /\ run'.d.type = "done" => DoneIsWhole(run.id) BY <1>3, <2>1 DEF Judged
  <2>5. run'.outcome = "completed" => DoneIsWhole(run.id) BY <1>3, <2>1 DEF Judged
  <2>6. QED BY <1>1, <2>1, <2>2, <2>3, <2>4, <2>5, WholeStage
<1>6. CASE Persist
  <2>1. /\ run.pc = "leave" /\ run'.pc = "left" /\ run'.id = run.id /\ run'.cycles = run.cycles
        /\ run'.outcome = run.outcome
    BY <1>2, <1>6 DEF Persist, RunOk, RunFields
  <2>2. \A q, i : ToCome(q, i) => ToCome(q, i)' BY <1>1, <2>1 DEF ToCome, Own
  <2>3. run'.outcome = "completed" => DoneIsWhole(run.id) BY <1>3, <2>1 DEF Judged
  <2>4. QED BY <1>1, <2>1, <2>2, <2>3, WholeStage
<1>7. CASE Observe
  <2>1. PICK e \in Events :
          run' = [run EXCEPT !.d = execs[e].d, !.err = execs[e].failed, !.seen = Append(@, e),
                             !.pc = IF Concludes(execs[e].d) /\ ~execs[e].failed THEN "end" ELSE "loop"]
    BY <1>7 DEF Observe
  <2>2. run.pc = "wait" /\ e \in DOMAIN execs /\ execs[e].pc = "done" /\ e = <<run.id, run.cycles>>
    BY <1>2, <1>7, <2>1 DEF Observe, Events, RunOk
  <2>3. /\ run'.id = run.id /\ run'.cycles = run.cycles /\ run'.outcome = run.outcome
        /\ run'.d = execs[e].d /\ run'.err = execs[e].failed /\ run'.pc \in {"loop", "end"}
    BY <1>2, <2>1 DEF RunOk, RunFields
  <2>4. \A f \in DOMAIN execs : Own(f) => execs[f].pc = "done"
    <3> SUFFICES ASSUME NEW f \in DOMAIN execs, Own(f), execs[f].pc # "done" PROVE FALSE OBVIOUS
    <3>1. f[1] = run.id /\ f[2] = run.cycles BY <1>3 DEF LastOnly, Own
    <3>2. f \in Nat \X Nat BY ExecTyped
    <3>3. QED BY <2>2, <3>1, <3>2
  <2>5. \A q, i : ToCome(q, i) => ToCome(q, i)' BY <1>1, <2>2, <2>3 DEF ToCome, Own
  <2>6. ~run'.err /\ run'.d.type = "done" => DoneIsWhole(run.id) BY <1>3, <2>2, <2>3 DEF Judged, Own
  <2>7. run'.outcome = "completed" => DoneIsWhole(run.id) BY <1>3, <2>3 DEF Judged
  <2>8. QED BY <1>1, <2>3, <2>4, <2>5, <2>6, <2>7, WholeStage
<1>8. CASE PausePin
  <2>1. PICK ok \in BOOLEAN : /\ PinRow(run.plan, run.d, run.next, run.id, ok)
                              /\ run' = [run EXCEPT !.next = NextRow(@, ToPin, ok)]
    BY <1>8 DEF PausePin
  <2>2. /\ run.pc = "pin" /\ run'.pc = "pin" /\ run'.id = run.id /\ run'.cycles = run.cycles
        /\ run'.outcome = run.outcome /\ run'.plan = run.plan /\ run'.next = run.next + 1
    BY <1>2, <1>8, <2>1 DEF PausePin, RunOk, RunFields, NextRow
  <2>3. run.next \in DOMAIN contract' \/ <<run.plan, run.next>> \in skipped'
    <3>1. CASE ok BY <2>1, <3>1, PinDomain DEF PinRow
    <3>2. CASE ~ok BY <2>1, <3>2 DEF PinRow
    <3>3. QED BY <3>1, <3>2
  <2>4. ASSUME NEW q \in 1 .. Len(plans), NEW i \in 1 .. plans[q].criteria, ToCome(q, i)
        PROVE  i \in DOMAIN contract' \/ <<q, i>> \in skipped' \/ ToCome(q, i)'
    <3>1. plans[q] \in PlanRows BY ElementOfSeq DEF RunLoopInv, StoreInv
    <3>2. i \in Nat /\ run.next \in Nat BY <1>2, <3>1 DEF PlanRows, RunOk
    <3>3. CASE \E e \in DOMAIN execs : Own(e) /\ execs[e].pc = "pin" /\ execs[e].plan = q /\ execs[e].next <= i
      BY <1>1, <2>2, <3>3 DEF ToCome, Own
    <3>4. CASE run.plan = q /\ run.next <= i
      <4>1. CASE i = run.next BY <2>3, <3>4, <4>1
      <4>2. CASE i # run.next
        <5>1. run'.next <= i BY <2>2, <3>2, <3>4, <4>2
        <5>2. QED BY <2>2, <3>4, <5>1 DEF ToCome
      <4>3. QED BY <4>1, <4>2
    <3>5. QED BY <2>4, <3>3, <3>4 DEF ToCome
  <2>5. \A e \in DOMAIN execs : Own(e) => execs[e].pc = "done" BY <1>3, <2>2 DEF LastOnly
  <2>6. run'.outcome = "completed" => DoneIsWhole(run.id) BY <1>3, <2>2 DEF Judged
  <2>7. QED BY <1>1, <2>2, <2>4, <2>5, <2>6, WholeStage
<1>9. CASE Pause
  <2>1. /\ run.pc = "pin" /\ run'.pc = "leave" /\ run'.id = run.id /\ run'.cycles = run.cycles
        /\ run'.outcome = "awaiting_approval" /\ run.next > plans[run.plan].criteria
    BY <1>2, <1>9 DEF Pause, ToPin, RunOk, RunFields
  <2>2. ASSUME NEW q \in 1 .. Len(plans), NEW i \in 1 .. plans[q].criteria, ToCome(q, i)
        PROVE  ToCome(q, i)'
    <3>1. plans[q] \in PlanRows BY ElementOfSeq DEF RunLoopInv, StoreInv
    <3>2. plans[q].criteria \in Nat /\ run.next \in Nat BY <1>2, <3>1 DEF PlanRows, RunOk
    <3>3. ~(run.plan = q /\ run.next <= i) BY <2>1, <3>2
    <3>4. QED BY <1>1, <2>1, <2>2, <3>3 DEF ToCome, Own
  <2>3. QED BY <1>1, <2>1, <2>2, WholeStage
<1>10. QED BY <1>4, <1>5, <1>6, <1>7, <1>8, <1>9

\* Cancelling the run's context changes nothing of this.
LEMMA WholeCancel ==
  ASSUME RunLoopInv, RunLoopInv', Bounds, WholeInv, AskedInv', Kept, StopCancel PROVE WholeInv'
<1>1. UNCHANGED <<runs, execs, plans>> BY DEF StopCancel, store
<1>2. CASE UNCHANGED run BY <1>1, <1>2, WholeRest
<1>3. CASE run # None /\ run' = [run EXCEPT !.cancelled = TRUE]
  <2>1. RunOk BY <1>3, RunStarted
  <2>2. /\ run'.pc = run.pc /\ run'.id = run.id /\ run'.cycles = run.cycles /\ run'.outcome = run.outcome
        /\ run'.d = run.d /\ run'.err = run.err /\ run'.plan = run.plan /\ run'.next = run.next
    BY <1>3, <2>1 DEF RunOk, RunFields
  <2>3. LastOnly /\ Judged BY <1>3 DEF WholeInv
  <2>4. run'.pc \in {"loop", "decide", "pin"} => \A e \in DOMAIN execs : Own(e) => execs[e].pc = "done"
    BY <2>2, <2>3 DEF LastOnly
  <2>5. \A q, i : ToCome(q, i) => ToCome(q, i)' BY <1>1, <2>2 DEF ToCome, Own
  <2>6. run'.pc \in {"loop", "end"} /\ run'.cycles # 0 /\ ~run'.err /\ run'.d.type = "done" => DoneIsWhole(run.id)
    BY <2>2, <2>3 DEF Judged
  <2>7. run'.outcome = "completed" => DoneIsWhole(run.id) BY <2>2, <2>3 DEF Judged
  <2>8. QED BY <1>1, <1>3, <2>2, <2>4, <2>5, <2>6, <2>7, WholeStage
<1>4. QED BY <1>2, <1>3 DEF StopCancel

\* A decision is dispatched when nothing of the run is under way.
LEMMA WholeDispatch ==
  ASSUME RunLoopInv, RunLoopInv', Bounds, WholeInv, AskedInv', Kept, run # None, run.pc \in {"loop", "decide"},
         NEW d, NEW p, Dispatch(d, p), UNCHANGED <<runs, plans>>
  PROVE  WholeInv'
<1> DEFINE key == <<run.id, run.cycles + 1>>
           x == [pc |-> "begin", d |-> d, plan |-> p, next |-> 1, failed |-> FALSE]
<1>1. RunOk /\ run.id \in 1 .. runs /\ run.cycles \in Nat BY RunStarted
<1>2. LastOnly /\ Declared /\ PinsAll /\ Judged BY DEF WholeInv
<1>3. run'.id = run.id /\ run'.cycles = run.cycles + 1 /\ run'.pc = "wait" /\ run'.outcome = run.outcome
  BY <1>1 DEF Dispatch, RunOk, RunFields
<1>4. execs' = [e \in DOMAIN execs \cup {key} |-> IF e = key THEN x ELSE execs[e]] BY DEF Dispatch
<1>5. x.pc = "begin" /\ key[1] = run.id /\ key[2] = run.cycles + 1 OBVIOUS
<1> HIDE DEF key, x
<1>6. /\ DOMAIN execs' = DOMAIN execs \cup {key} /\ execs'[key].pc = "begin"
      /\ \A e \in DOMAIN execs : e # key => execs'[e] = execs[e]
  BY <1>4, <1>5
<1>7. \A e \in DOMAIN execs : Own(e) => execs[e].pc = "done" /\ e[2] <= run.cycles BY <1>2 DEF LastOnly
<1>8. \A e \in DOMAIN execs : e[2] \in Nat
  <2>1. ASSUME NEW e \in DOMAIN execs PROVE e[2] \in Nat
    <3>1. e \in Nat \X Nat BY ExecTyped
    <3>2. QED BY <3>1
  <2>2. QED BY <2>1
<1>9. LastOnly'
  <2> SUFFICES ASSUME NEW e \in DOMAIN execs', e[1] = run.id
               PROVE  /\ e[2] <= run'.cycles
                      /\ execs'[e].pc # "done" => e[2] = run'.cycles /\ run'.pc \notin {"loop", "decide", "pin"}
    BY <1>3 DEF LastOnly, Own
  <2>1. CASE e = key BY <1>1, <1>3, <1>5, <2>1
  <2>2. CASE e # key
    <3>1. e \in DOMAIN execs /\ execs'[e] = execs[e] BY <1>6, <2>2
    <3>2. execs[e].pc = "done" /\ e[2] <= run.cycles BY <1>7, <3>1 DEF Own
    <3>3. QED BY <1>1, <1>3, <1>8, <3>1, <3>2
  <2>3. QED BY <2>1, <2>2
<1>10. \A q, i : ~ToCome(q, i) BY <1>7 DEF ToCome
<1>11. Declared' BY <1>2, <1>3, <1>10, DeclaredNext
<1>12. PinsAll' BY <1>3, <1>6, <1>7 DEF PinsAll, Own
<1>13. DoneIsWhole(run.id) => DoneIsWhole(run.id)' BY <1>1, <1>3, WholeKept
<1>14. \A e \in DOMAIN execs :
         Own(e) /\ execs[e].d.type = "done" /\ execs[e].pc = "done" /\ ~execs[e].failed => DoneIsWhole(run.id)
  BY <1>2 DEF Judged
<1>15. run'.outcome = "completed" => DoneIsWhole(run.id) BY <1>2, <1>3 DEF Judged
<1>16. Judged' BY <1>3, <1>6, <1>13, <1>14, <1>15 DEF Judged, Own
<1>17. \A q \in 1 .. Len(plans') : plans'[q].run <= runs' BY DEF WholeInv
<1>18. QED BY <1>9, <1>11, <1>12, <1>16, <1>17 DEF WholeInv

\* The plan that waits is declared with the criteria that are to come.
LEMMA WholePause ==
  ASSUME RunLoopInv, RunLoopInv', Bounds, WholeInv, AskedInv', Kept, NEW d \in Answers, DecidePause(d)
  PROVE  WholeInv'
<1>1. run # None /\ run.pc = "decide" /\ UNCHANGED <<runs, execs>> BY DEF DecidePause
<1>2. RunOk /\ run.id \in 1 .. runs /\ run.id = runs /\ runs \in Nat BY <1>1, RunStarted
<1>3. LastOnly /\ Declared /\ PinsAll /\ Judged BY <1>1 DEF WholeInv
<1>4. CASE UNCHANGED store /\ Leave("error")
  <2>1. UNCHANGED plans /\ run.pc # "pin" BY <1>1, <1>4 DEF store
  <2>2. QED BY <1>1, <1>4, <2>1, WholeLeave
<1>5. CASE /\ AppendPlan(PlanRow(d, <<run.id, run.cycles + 1>>))
           /\ run' = [run EXCEPT !.pc = "pin", !.d = d, !.plan = Len(plans) + 1]
  <2> DEFINE row == PlanRow(d, <<run.id, run.cycles + 1>>)
  <2>1. row.run = run.id BY DEF PlanRow
  <2>2. AppendPlan(row) /\ StoreInv BY <1>5 DEF RunLoopInv
  <2> HIDE DEF row
  <2>3. /\ Len(plans) \in Nat /\ Len(plans') = Len(plans) + 1 /\ plans'[Len(plans) + 1] = row
        /\ \A p \in 1 .. Len(plans) : plans'[p] = plans[p]
    BY <2>2, PlanAppended
  <2>4. /\ run'.pc = "pin" /\ run'.id = run.id /\ run'.cycles = run.cycles /\ run'.outcome = run.outcome
        /\ run'.plan = Len(plans) + 1 /\ run'.next = 1
    BY <1>1, <1>2, <1>5 DEF RunOk, RunFields
  <2>5. \A e \in DOMAIN execs : Own(e) => execs[e].pc = "done" /\ e[2] <= run.cycles BY <1>1, <1>3 DEF LastOnly
  <2>6. LastOnly' BY <1>1, <2>4, <2>5 DEF LastOnly, Own
  <2>7. PinsAll' BY <1>1, <2>4, <2>5 DEF PinsAll, Own
  <2>8. \A q, i : ~ToCome(q, i) BY <1>1, <2>5 DEF ToCome
  <2>9. ASSUME NEW q \in 1 .. Len(plans'), q \notin 1 .. Len(plans), NEW i \in 1 .. plans'[q].criteria
        PROVE  ToCome(q, i)'
    <3>1. q = Len(plans) + 1 BY <2>3, <2>9
    <3>2. plans'[q] \in PlanRows BY ElementOfSeq DEF RunLoopInv, StoreInv
    <3>3. i \in Nat /\ 1 <= i BY <3>2 DEF PlanRows
    <3>4. QED BY <2>4, <3>1, <3>3 DEF ToCome
  <2>10. Declared' BY <1>3, <2>4, <2>8, <2>9, DeclaredNext
  <2>11. DoneIsWhole(run.id) => DoneIsWhole(run.id)' BY <1>2, <2>4, WholeKept
  <2>12. \A e \in DOMAIN execs :
           Own(e) /\ execs[e].d.type = "done" /\ execs[e].pc = "done" /\ ~execs[e].failed => DoneIsWhole(run.id)
    BY <1>3 DEF Judged
  <2>13. run'.outcome = "completed" => DoneIsWhole(run.id) BY <1>3, <2>4 DEF Judged
  <2>14. Judged' BY <1>1, <2>4, <2>11, <2>12, <2>13 DEF Judged, Own
  <2>15. \A q \in 1 .. Len(plans') : plans'[q].run <= runs'
    <3> SUFFICES ASSUME NEW q \in 1 .. Len(plans) + 1 PROVE plans'[q].run <= runs BY <1>1, <2>3
    <3>1. CASE q = Len(plans) + 1 BY <1>2, <2>1, <2>3, <3>1
    <3>2. CASE q \in 1 .. Len(plans) BY <2>3, <3>2 DEF WholeInv
    <3>3. QED BY <2>3, <3>1, <3>2
  <2>16. QED BY <2>6, <2>7, <2>10, <2>14, <2>15 DEF WholeInv
<1>6. QED BY <1>4, <1>5 DEF DecidePause

\* A run that is only starting has declared nothing.
LEMMA WholeStart ==
  ASSUME RunLoopInv, RunLoopInv', Bounds, WholeInv, AskedInv', Start PROVE WholeInv'
<1>1. /\ runs' = runs + 1 /\ UNCHANGED <<execs, plans>> /\ run'.id = runs + 1 /\ run'.cycles = 0
      /\ run'.pc = "loop" /\ run'.outcome = None
  BY DEF Start, store
<1>2. runs \in Nat /\ None # "completed" BY RunLoopAssumption DEF RunLoopInv, RunInv
<1>3. \A e \in DOMAIN execs : e[1] # runs + 1
  <2>1. ASSUME NEW e \in DOMAIN execs PROVE e[1] # runs + 1
    <3>1. e[1] \in 1 .. runs BY DEF Bounds, ExecBound
    <3>2. QED BY <1>2, <3>1
  <2>2. QED BY <2>1
<1>4. \A q \in 1 .. Len(plans) : plans[q].run <= runs /\ plans[q].run \in Nat
  <2>1. \A q \in 1 .. Len(plans) : plans[q] \in PlanRows BY ElementOfSeq DEF RunLoopInv, StoreInv
  <2>2. QED BY <2>1 DEF WholeInv, PlanRows
<1>5. \A q \in 1 .. Len(plans) : plans[q].run # runs + 1 /\ plans[q].run <= runs + 1 BY <1>2, <1>4
<1>6. LastOnly' /\ PinsAll' BY <1>1, <1>3 DEF LastOnly, PinsAll, Own
<1>7. Declared' BY <1>1, <1>5 DEF Declared
<1>8. Judged' BY <1>1, <1>2, <1>3 DEF Judged, Own
<1>9. QED BY <1>1, <1>5, <1>6, <1>7, <1>8 DEF WholeInv

\* One execution moves and may have written its plan row.
LEMMA WholeExec ==
  ASSUME RunLoopInv, RunLoopInv', Bounds, WholeInv, AskedInv', Kept, NEW e \in DOMAIN execs, NEW x,
         execs' = [execs EXCEPT ![e] = x], UNCHANGED <<run, runs>>, execs[e].pc # "done",
         \A q \in 1 .. Len(plans') : q \notin 1 .. Len(plans) =>
           plans'[q].run = e[1] /\ \A i \in 1 .. plans'[q].criteria : x.pc = "pin" /\ x.plan = q /\ x.next <= i,
         run # None /\ Own(e) /\ execs[e].pc = "pin" =>
           \A i \in 1 .. plans[execs[e].plan].criteria : execs[e].next <= i =>
             \/ i \in DOMAIN contract' \/ <<execs[e].plan, i>> \in skipped'
             \/ x.pc = "pin" /\ x.plan = execs[e].plan /\ x.next <= i,
         run # None /\ Own(e) /\ x.pc = "pin" => plans'[x.plan].criteria <= Len(x.d.contract),
         run # None /\ Own(e) /\ x.d.type = "done" /\ x.pc = "done" /\ ~x.failed => DoneIsWhole(run.id)'
  PROVE  WholeInv'
<1>1. /\ DOMAIN execs' = DOMAIN execs /\ execs'[e] = x
      /\ \A f \in DOMAIN execs : f # e => execs'[f] = execs[f]
  BY DEF RunLoopInv, ExecInv
<1>2. \A q \in 1 .. Len(plans') : plans'[q].run <= runs'
  <2> SUFFICES ASSUME NEW q \in 1 .. Len(plans') PROVE plans'[q].run <= runs OBVIOUS
  <2>1. CASE q \in 1 .. Len(plans) BY <2>1 DEF WholeInv, Kept
  <2>2. CASE q \notin 1 .. Len(plans)
    <3>1. e[1] \in 1 .. runs /\ runs \in Nat BY DEF Bounds, ExecBound, RunLoopInv, RunInv
    <3>2. plans'[q].run = e[1] BY <2>2
    <3>3. QED BY <3>1, <3>2
  <2>3. QED BY <2>1, <2>2
<1>3. CASE run = None BY <1>2, <1>3 DEF WholeInv
<1>4. CASE run # None
  <2>1. run.id \in 1 .. runs /\ LastOnly /\ Declared /\ PinsAll /\ Judged BY <1>4, RunStarted DEF WholeInv
  <2>2. LastOnly' BY <1>1, <2>1 DEF LastOnly, Own
  <2>3. PinsAll'
    <3> SUFFICES ASSUME NEW f \in DOMAIN execs, f[1] = run.id, execs'[f].pc = "pin"
                 PROVE  plans'[execs'[f].plan].criteria <= Len(execs'[f].d.contract)
      BY <1>1 DEF PinsAll, Own
    <3>1. CASE f = e BY <1>1, <1>4, <3>1 DEF Own
    <3>2. CASE f # e
      <4>1. execs'[f] = execs[f] /\ execs[f].pc = "pin" BY <1>1, <3>2
      <4>2. plans[execs[f].plan].criteria <= Len(execs[f].d.contract) BY <2>1, <4>1 DEF PinsAll, Own
      <4>3. execs[f].plan \in 0 .. Len(plans) /\ execs[f].plan # 0 /\ Len(plans) \in Nat
        BY <4>1, ExecTyped DEF ExecOk
      <4>4. execs[f].plan \in 1 .. Len(plans) BY <4>3
      <4>5. plans'[execs[f].plan] = plans[execs[f].plan] BY <4>4 DEF Kept
      <4>6. QED BY <4>1, <4>2, <4>5
    <3>3. QED BY <3>1, <3>2
  <2>4. ASSUME NEW q \in 1 .. Len(plans), plans[q].run = run.id, NEW i \in 1 .. plans[q].criteria, ToCome(q, i)
        PROVE  i \in DOMAIN contract' \/ <<q, i>> \in skipped' \/ ToCome(q, i)'
    <3>1. CASE run.pc = "pin" /\ run.plan = q /\ run.next <= i BY <3>1 DEF ToCome
    <3>2. ASSUME NEW f \in DOMAIN execs, Own(f), execs[f].pc = "pin", execs[f].plan = q, execs[f].next <= i
          PROVE  i \in DOMAIN contract' \/ <<q, i>> \in skipped' \/ ToCome(q, i)'
      <4>1. CASE f = e
        <5>1. CASE x.pc = "pin" /\ x.plan = execs[e].plan /\ x.next <= i
          BY <1>1, <3>2, <4>1, <5>1 DEF ToCome, Own
        <5>2. QED BY <1>4, <3>2, <4>1, <5>1
      <4>2. CASE f # e BY <1>1, <3>2, <4>2 DEF ToCome, Own
      <4>3. QED BY <4>1, <4>2
    <3>3. QED BY <2>4, <3>1, <3>2 DEF ToCome
  <2>5. ASSUME NEW q \in 1 .. Len(plans'), q \notin 1 .. Len(plans), plans'[q].run = run.id,
               NEW i \in 1 .. plans'[q].criteria
        PROVE  ToCome(q, i)'
    <3>1. e[1] = run.id /\ x.pc = "pin" /\ x.plan = q /\ x.next <= i BY <2>5
    <3>2. QED BY <1>1, <3>1 DEF ToCome, Own
  <2>6. Declared' BY <2>1, <2>4, <2>5, DeclaredNext
  <2>7. DoneIsWhole(run.id) => DoneIsWhole(run.id)' BY <2>1, WholeKept
  <2>8. \A f \in DOMAIN execs' :
          f[1] = run.id /\ execs'[f].d.type = "done" /\ execs'[f].pc = "done" /\ ~execs'[f].failed =>
            DoneIsWhole(run.id)'
    <3> SUFFICES ASSUME NEW f \in DOMAIN execs, f[1] = run.id, execs'[f].d.type = "done",
                        execs'[f].pc = "done", ~execs'[f].failed
                 PROVE  DoneIsWhole(run.id)'
      BY <1>1
    <3>1. CASE f = e BY <1>1, <1>4, <3>1 DEF Own
    <3>2. CASE f # e BY <1>1, <2>1, <2>7, <3>2 DEF Judged, Own
    <3>3. QED BY <3>1, <3>2
  <2>9. Judged' BY <2>1, <2>7, <2>8 DEF Judged, Own
  <2>10. QED BY <1>2, <2>2, <2>3, <2>6, <2>9 DEF WholeInv
<1>5. QED BY <1>3, <1>4

\* Beginning an execution declares the contract that is to be pinned.
LEMMA WholeBegin ==
  ASSUME RunLoopInv, RunLoopInv', Bounds, WholeInv, AskedInv', Kept, NEW e \in DOMAIN execs, ExecBegin(e)
  PROVE  WholeInv'
<1> DEFINE d == execs[e].d
<1>1. /\ UNCHANGED <<run, runs>> /\ execs[e].pc = "begin" /\ ExecOk(e) /\ execs[e] \in Executions
      /\ d \in AnyDecision /\ Len(d.contract) \in Nat /\ Len(plans) \in Nat
  BY ExecTyped DEF ExecBegin, At
<1>2. CASE UNCHANGED plans /\ (Ended(e, TRUE) \/ Go(e, "step"))
  <2>1. PICK x : execs' = [execs EXCEPT ![e] = x] /\ x.pc \in {"done", "step"} /\ (x.pc = "done" => x.failed)
    <3>1. CASE Ended(e, TRUE)
      <4> DEFINE x == [execs[e] EXCEPT !.pc = "done", !.failed = TRUE, !.next = 1]
      <4>1. execs' = [execs EXCEPT ![e] = x] BY <3>1 DEF Ended
      <4>2. x.pc = "done" /\ x.failed BY <1>1 DEF Executions
      <4> HIDE DEF x
      <4>3. QED BY <4>1, <4>2
    <3>2. CASE Go(e, "step")
      <4> DEFINE x == [execs[e] EXCEPT !.pc = "step"]
      <4>1. execs' = [execs EXCEPT ![e] = x] BY <3>2 DEF Go
      <4>2. x.pc = "step" BY <1>1 DEF Executions
      <4> HIDE DEF x
      <4>3. QED BY <4>1, <4>2
    <3>3. QED BY <1>2, <3>1, <3>2
  <2>2. QED BY <1>1, <1>2, <2>1, WholeExec
<1>3. CASE /\ AppendPlan(PlanRow(d, e))
           /\ execs' = [execs EXCEPT ![e].plan = Len(plans) + 1,
                          ![e].pc = IF e[2] = 1 /\ d.contract # <<>> THEN "pin" ELSE AfterPlan(d)]
  <2> DEFINE row == PlanRow(d, e)
             pc == IF e[2] = 1 /\ d.contract # <<>> THEN "pin" ELSE AfterPlan(d)
             x == [execs[e] EXCEPT !.plan = Len(plans) + 1, !.pc = pc]
  <2>1. row.run = e[1] /\ row.criteria = (IF e[2] = 1 THEN Len(d.contract) ELSE 0) BY DEF PlanRow
  <2>2. pc \in {"pin", "step", "verify", "done"} /\ (pc = "done" => d.type # "done")
    BY <1>1, AfterPlanCases
  <2>3. row.criteria \in Nat /\ row.criteria <= Len(d.contract) /\ (row.criteria # 0 => pc = "pin")
    <3>1. Len(<<>>) = 0 BY EmptySeq
    <3>2. QED BY <1>1, <2>1, <3>1
  <2>4. execs' = [execs EXCEPT ![e] = x] BY <1>3
  <2>5. AppendPlan(row) /\ StoreInv BY <1>3 DEF RunLoopInv
  <2>6. execs[e].next = 1 BY <1>1 DEF ExecOk
  <2> HIDE DEF pc, row
  <2>7. x.pc = pc /\ x.plan = Len(plans) + 1 /\ x.next = 1 /\ x.d = d BY <1>1, <2>6 DEF Executions
  <2> HIDE DEF x
  <2>8. /\ Len(plans') = Len(plans) + 1 /\ plans'[Len(plans) + 1] = row
    BY <2>5, PlanAppended
  <2>9. \A q \in 1 .. Len(plans') : q \notin 1 .. Len(plans) =>
          plans'[q].run = e[1] /\ \A i \in 1 .. plans'[q].criteria : x.pc = "pin" /\ x.plan = q /\ x.next <= i
    <3> SUFFICES ASSUME NEW q \in 1 .. Len(plans) + 1, q \notin 1 .. Len(plans), NEW i \in 1 .. plans'[q].criteria
                 PROVE  x.pc = "pin" /\ x.plan = q /\ x.next <= i
      BY <1>1, <2>1, <2>8
    <3>1. q = Len(plans) + 1 /\ plans'[q] = row BY <1>1, <2>8
    <3>2. i \in Nat /\ 1 <= i /\ row.criteria # 0 BY <2>3, <3>1
    <3>3. QED BY <2>3, <2>7, <3>1, <3>2
  <2>10. x.pc = "pin" => plans'[x.plan].criteria <= Len(x.d.contract) BY <2>3, <2>7, <2>8
  <2>11. ~(x.d.type = "done" /\ x.pc = "done") BY <2>2, <2>7
  <2>12. QED BY <1>1, <2>4, <2>9, <2>10, <2>11, WholeExec
<1>4. QED BY <1>2, <1>3 DEF ExecBegin, store

\* A row that is pinned or skipped is no longer to come.
LEMMA WholePin ==
  ASSUME RunLoopInv, RunLoopInv', Bounds, WholeInv, AskedInv', Kept, NEW e \in DOMAIN execs, ExecPin(e)
  PROVE  WholeInv'
<1> DEFINE d == execs[e].d
           n == execs[e].next
           p == execs[e].plan
           last == n + 1 > Len(d.contract)
           pc == IF last THEN AfterPlan(d) ELSE "pin"
           m == IF last THEN 1 ELSE n + 1
           x == [execs[e] EXCEPT !.pc = pc, !.next = m]
<1>1. /\ UNCHANGED <<run, runs, plans>> /\ execs[e].pc = "pin" /\ ExecOk(e) /\ execs[e] \in Executions
      /\ d \in AnyDecision /\ Len(d.contract) \in Nat /\ p \in 0 .. Len(plans) /\ Len(plans) \in Nat
  BY ExecTyped DEF ExecPin, At
<1>2. p \in 1 .. Len(plans) /\ n \in 1 .. Len(d.contract) BY <1>1 DEF ExecOk
<1>3. execs' = [execs EXCEPT ![e] = x] BY DEF ExecPin, NextRow
<1>4. pc \in {"pin", "step", "verify", "done"} /\ (pc = "done" => d.type # "done")
      /\ (pc = "pin" => m = n + 1) /\ (pc # "pin" => n + 1 > Len(d.contract))
  BY <1>1, AfterPlanCases
<1>5. n \in DOMAIN contract' \/ <<p, n>> \in skipped'
  <2>1. PICK ok \in BOOLEAN : PinRow(p, d, n, e[1], ok) BY DEF ExecPin
  <2>2. CASE ok BY <2>1, <2>2, PinDomain DEF PinRow
  <2>3. CASE ~ok BY <2>1, <2>3 DEF PinRow
  <2>4. QED BY <2>2, <2>3
<1> HIDE DEF pc, m
<1>6. x.pc = pc /\ x.plan = p /\ x.next = m /\ x.d = d BY <1>1 DEF Executions
<1> HIDE DEF x
<1>7. plans[p] \in PlanRows BY <1>2, ElementOfSeq DEF RunLoopInv, StoreInv
<1>8. plans[p].criteria \in Nat BY <1>7 DEF PlanRows
<1>9. ASSUME run # None, Own(e)
      PROVE  /\ x.pc = "pin" => plans'[x.plan].criteria <= Len(x.d.contract)
             /\ \A i \in 1 .. plans[p].criteria : n <= i =>
                  \/ i \in DOMAIN contract' \/ <<p, i>> \in skipped'
                  \/ (x.pc = "pin" /\ x.plan = p /\ x.next <= i)
  <2>1. plans[p].criteria <= Len(d.contract) BY <1>1, <1>9 DEF WholeInv, PinsAll
  <2>2. ASSUME NEW i \in 1 .. plans[p].criteria, n <= i
        PROVE  \/ i \in DOMAIN contract' \/ <<p, i>> \in skipped'
               \/ (x.pc = "pin" /\ x.plan = p /\ x.next <= i)
    <3>1. CASE i = n BY <1>5, <3>1
    <3>2. CASE i # n
      <4>1. n + 1 <= i /\ i <= Len(d.contract) BY <1>1, <1>2, <1>8, <2>1, <2>2, <3>2
      <4>2. pc = "pin" BY <1>1, <1>2, <1>4, <4>1
      <4>3. QED BY <1>4, <1>6, <4>1, <4>2
    <3>3. QED BY <3>1, <3>2
  <2>3. QED BY <1>1, <1>6, <2>1, <2>2
<1>10. ~(x.d.type = "done" /\ x.pc = "done") BY <1>4, <1>6
<1>11. QED BY <1>1, <1>3, <1>9, <1>10, WholeExec

\* A step of a plan and a panic judge nothing.
LEMMA WholeStep ==
  ASSUME RunLoopInv, RunLoopInv', Bounds, WholeInv, AskedInv', Kept, NEW e \in DOMAIN execs,
         ExecPanic(e) \/ \E ok \in BOOLEAN : ExecStep(e, ok)
  PROVE  WholeInv'
<1>1. /\ UNCHANGED <<run, runs, plans>> /\ execs[e].pc = "step" /\ ExecOk(e) /\ execs[e] \in Executions
  BY ExecTyped DEF ExecPanic, ExecStep, At, store
<1>2. execs[e].d.type = "plan" BY <1>1 DEF ExecOk
<1>3. CASE ExecPanic(e)
  <2> DEFINE x == [execs[e] EXCEPT !.pc = "done", !.failed = TRUE, !.next = 1]
  <2>1. execs' = [execs EXCEPT ![e] = x] BY <1>3 DEF ExecPanic, Ended
  <2>2. x.pc = "done" /\ x.failed BY <1>1 DEF Executions
  <2> HIDE DEF x
  <2>3. QED BY <1>1, <2>1, <2>2, WholeExec
<1>4. ASSUME NEW ok \in BOOLEAN, ExecStep(e, ok) PROVE WholeInv'
  <2> DEFINE pc == AfterStep(execs[e], ok)
             x == [execs[e] EXCEPT !.pc = pc, !.next = @ + 1, !.failed = ~ok]
  <2>1. execs' = [execs EXCEPT ![e] = x] BY <1>4 DEF ExecStep
  <2>2. pc \in {"step", "done"} BY DEF AfterStep
  <2> HIDE DEF pc
  <2>3. x.pc = pc /\ x.d = execs[e].d BY <1>1 DEF Executions
  <2> HIDE DEF x
  <2>4. QED BY <1>1, <1>2, <2>1, <2>2, <2>3, WholeExec
<1>5. QED BY <1>3, <1>4

\* When a done of the run is judged nothing of its contract is still to come.
LEMMA WholeVerify ==
  ASSUME RunLoopInv, RunLoopInv', Bounds, WholeInv, AskedInv', Kept, NEW e \in DOMAIN execs, ExecVerify(e)
  PROVE  WholeInv'
<1> DEFINE p == execs[e].plan
<1>1. /\ UNCHANGED <<run, runs, plans, contract, skipped, asked>> /\ execs[e].pc = "verify" /\ ExecOk(e)
      /\ execs[e] \in Executions /\ e \in Nat \X Nat /\ p \in 0 .. Len(plans) /\ Len(plans) \in Nat
  BY ExecTyped DEF ExecVerify, At, door
<1>2. p \in 1 .. Len(plans) /\ plans[p].type = "done" /\ plans[p].run = e[1] BY <1>1 DEF ExecOk
<1>3. CASE Ended(e, TRUE)
  <2> DEFINE x == [execs[e] EXCEPT !.pc = "done", !.failed = TRUE, !.next = 1]
  <2>1. execs' = [execs EXCEPT ![e] = x] BY <1>3 DEF Ended
  <2>2. x.pc = "done" /\ x.failed BY <1>1 DEF Executions
  <2> HIDE DEF x
  <2>3. QED BY <1>1, <2>1, <2>2, WholeExec
<1>4. CASE Ended(e, FALSE) /\ judged' = [judged EXCEPT ![p] = @ \cup {Pinned}]
  <2> DEFINE x == [execs[e] EXCEPT !.pc = "done", !.failed = FALSE, !.next = 1]
  <2>1. execs' = [execs EXCEPT ![e] = x] BY <1>4 DEF Ended
  <2>2. x.pc = "done" BY <1>1 DEF Executions
  <2> HIDE DEF x
  <2>3. ASSUME run # None, Own(e) PROVE DoneIsWhole(run.id)'
    <3>1. run.id \in 1 .. runs /\ LastOnly /\ Declared /\ AskedInv BY <2>3, RunStarted DEF WholeInv
    <3>2. e[2] = run.cycles /\ run.pc # "pin" BY <1>1, <2>3, <3>1 DEF LastOnly
    <3>3. ASSUME NEW q, NEW i, ToCome(q, i) PROVE FALSE
      <4>1. PICK f \in DOMAIN execs : Own(f) /\ execs[f].pc = "pin" BY <3>2, <3>3 DEF ToCome
      <4>2. f[2] = run.cycles /\ f[1] = run.id BY <3>1, <4>1 DEF LastOnly, Own
      <4>3. f \in Nat \X Nat BY ExecTyped
      <4>4. f = e BY <1>1, <2>3, <3>2, <4>2, <4>3 DEF Own
      <4>5. QED BY <1>1, <4>1, <4>4
    <3>4. DOMAIN Pinned = DOMAIN contract BY DEF Pinned
    <3>5. \A i \in 1 .. asked[run.id] : i \in DOMAIN Pinned BY <3>1, <3>4 DEF AskedInv
    <3>6. \A q \in 1 .. p : q \in 1 .. Len(plans) BY <1>1, <1>2
    <3>7. \A q \in 1 .. p : plans[q].run = run.id =>
            \A i \in 1 .. plans[q].criteria : i \in DOMAIN Pinned \/ <<q, i>> \in skipped
      BY <3>1, <3>3, <3>4, <3>6 DEF Declared
    <3>8. p \in DOMAIN judged BY <1>1, <1>2, LenProperties DEF RunLoopInv, StoreInv
    <3>9. PICK c : c = Pinned OBVIOUS
    <3>10. c \in judged'[p] BY <1>4, <3>8, <3>9
    <3>11. p \in DOMAIN plans' /\ plans'[p].type = "done" /\ plans'[p].run = run'.id
      BY <1>1, <1>2, <2>3, LenProperties DEF RunLoopInv, StoreInv, Own
    <3>12. \A i \in 1 .. asked'[run'.id] : i \in DOMAIN c BY <1>1, <3>5, <3>9
    <3>13. \A q \in 1 .. p : plans'[q].run = run'.id =>
             \A i \in 1 .. plans'[q].criteria : i \in DOMAIN c \/ <<q, i>> \in skipped'
      BY <1>1, <3>7, <3>9
    <3> HIDE DEF p
    <3>14. QED BY <3>10, <3>11, <3>12, <3>13 DEF DoneIsWhole
  <2>4. QED BY <1>1, <2>1, <2>2, <2>3, WholeExec
<1>5. QED BY <1>3, <1>4 DEF ExecVerify

\* Every step keeps the whole contract of the run.
LEMMA WholeInductive == RunLoopInv /\ RunLoopInv' /\ Bounds /\ WholeInv /\ [Next]_vars => WholeInv'
<1> SUFFICES ASSUME RunLoopInv, RunLoopInv', Bounds, WholeInv, [Next]_vars PROVE WholeInv' OBVIOUS
<1>1. AskedInv BY DEF WholeInv
<1>2. Kept BY <1>1, NothingTakenBack
<1>3. AskedInv' BY <1>1, <1>2, AskedNext
<1>4. CASE AcceptPin \/ AcceptQueue \/ \E m \in Requests : AcceptRow(m[1], m[2])
  <2>1. UNCHANGED <<run, runs, execs, plans>> BY <1>4 DEF AcceptPin, AcceptQueue, AcceptRow, store
  <2>2. QED BY <1>2, <1>3, <2>1, WholeRest
<1>5. CASE StopRead \/ StopMark \/ BroadcastList \/ BroadcastDeliver \/ UNCHANGED vars
  <2>1. UNCHANGED <<run, runs, execs, plans>>
    BY <1>5 DEF StopRead, StopMark, BroadcastList, BroadcastDeliver, store, vars
  <2>2. QED BY <1>2, <1>3, <2>1, WholeRest
<1>6. CASE Start BY <1>3, <1>6, WholeStart
<1>7. CASE StopCancel BY <1>2, <1>3, <1>7, WholeCancel
<1>8. CASE LoopApproved
  <2>1. run # None /\ run.pc = "loop" /\ UNCHANGED <<runs, plans>> BY <1>8 DEF LoopApproved, store
  <2>2. PICK d, p : Dispatch(d, p) BY <1>8 DEF LoopApproved
  <2>3. QED BY <1>2, <1>3, <2>1, <2>2, WholeDispatch
<1>9. ASSUME NEW d \in Answers, DecideExecute(d) PROVE WholeInv'
  <2>1. run # None /\ run.pc = "decide" /\ Dispatch(d, 0) /\ UNCHANGED <<runs, plans>>
    BY <1>9 DEF DecideExecute, store
  <2>2. QED BY <1>2, <1>3, <2>1, WholeDispatch
<1>10. ASSUME NEW d \in Answers, DecidePause(d) PROVE WholeInv' BY <1>2, <1>3, <1>10, WholePause
<1>11. CASE Return
  <2>1. run' = None /\ UNCHANGED <<runs, plans>> BY <1>11 DEF Return, store
  <2>2. QED BY <1>3, <2>1 DEF WholeInv
<1>12. CASE LoopStopped \/ LoopBudget \/ PausePin \/ Pause \/ Observe \/ WaitStopped \/ End \/ Persist
            \/ DecideFails
  BY <1>2, <1>3, <1>12, WholeLoop
<1>13. ASSUME NEW e \in DOMAIN execs, Exec(e) PROVE WholeInv'
  BY <1>2, <1>3, <1>13, WholeBegin, WholePin, WholeStep, WholeVerify DEF Exec
<1>14. QED
  BY <1>4, <1>5, <1>6, <1>7, <1>8, <1>9, <1>10, <1>11, <1>12, <1>13 DEF Next, Loop, Decide

\* A run leaves its task completed only on a done of its own that was judged by
\* every criterion its request and its first answer declared, but those whose row
\* could not be written (pinCompletionContract, pinAcceptedContract, verifyDone).
THEOREM CompletionIsWhole == Spec => []CompletedIsWhole
<1>1. Init => WholeInv
  <2> SUFFICES ASSUME Init PROVE WholeInv OBVIOUS
  <2>1. <<>> \in Seq(Nat) /\ Len(<<>>) = 0 BY EmptySeq
  <2>2. QED BY <2>1 DEF Init, WholeInv, AskedInv
<1>2. RunLoopInv /\ WholeInv => CompletedIsWhole BY DEF WholeInv, Judged, CompletedIsWhole
<1>3. QED BY <1>1, <1>2, WholeInductive, BoundsInitially, BoundsInductive, RunLoopInvariant, PTL DEF Spec
=============================================================================
