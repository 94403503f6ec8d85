--------------------------- MODULE DeliveryProofs ---------------------------
(***************************************************************************)
(* What holds of the plans of a task and of its completion, for any        *)
(* answers, pull requests, pipelines and bounds. DeliveryInv is inductive: *)
(* what a plan has observed are rows of its own cycle (PlanInv), a call    *)
(* made for a step carries what the step's inputs are bound to             *)
(* (BoundCall), a call made for a criterion asks about what the criterion's *)
(* slot names (AskInv), what the monitor last saw succeeded still is       *)
(* (SeenInv), and every criterion that passed stands or was passed on the  *)
(* word of the monitoring agent (VerdictInv).                              *)
(*                                                                         *)
(* The second part is the context a plan is made from: what holds of it    *)
(* although it is built through the registries' caches, for any number of  *)
(* builds that share them, any rows and any TTL. ContextInv is inductive:  *)
(* a cached row is the row of the id it is kept under (CacheInv), and what *)
(* a build has resolved of one item so far belongs together (BuildInv).    *)
(***************************************************************************)
EXTENDS Delivery, ContextBuilder, TLAPS, FiniteSetTheorems,
        SequenceTheorems, WellFoundedInduction

IsSeq(s) == Len(s) \in Nat /\ s = [i \in 1..Len(s) |-> s[i]]

RunFields == {"d", "prior", "verdicts", "err", "unread"}
CallFields == {"cap", "in", "pc", "polls", "trail", "seen", "failed", "last", "raw", "pull", "was", "asked"}

\* The shapes the operations rely on.
Shapes ==
  /\ IsSeq(pulls) /\ IsSeq(pipes) /\ IsSeq(rows) /\ IsSeq(contract)
  /\ run # None => /\ run = [x \in RunFields |-> run[x]]
                   /\ IsSeq(run.prior) /\ IsSeq(run.verdicts)
  /\ call # None => call = [x \in CallFields |-> call[x]]

\* What is executed passed the gates, while the task runs; only a done is verified.
GateInv ==
  /\ run # None => /\ status = "running"
                   /\ run.d.type \in {"plan", "done", "blocked", "need_input"}
                   /\ validateDecision(run.d) /\ validatePlanLineage(run.d.steps)
                   /\ run.d.type # "done" \/ run.unread = None => run.verdicts = <<>>
                   /\ \A i \in DOMAIN run.d.steps :
                        run.d.steps[i].cap = "nothing" => run.d.steps[i].inputs = <<>>
  /\ call # None => run # None /\ run.d.type \in {"plan", "done"}

\* What a plan has observed are rows of this cycle, one for each step in order.
PlanInv ==
  run # None => \A j \in DOMAIN run.prior :
    /\ run.prior[j].cycle = cycles /\ run.prior[j].name = run.d.steps[j].name
    /\ \E m \in DOMAIN rows : rows[m] = run.prior[j]

\* What an input bound to a step is called with.
Bound(b, v, prior) ==
  /\ v # Empty
  /\ \E j \in DOMAIN prior : /\ prior[j].name = b.of /\ b.key \in DOMAIN prior[j].out
                             /\ prior[j].out[b.key] = v
BoundCall ==
  call # None /\ run.d.type = "plan" =>
    \A k \in DOMAIN Step.inputs :
      Step.inputs[k].src = "step" => Bound(Step.inputs[k], call.in[k], run.prior)

Succeeded(n) == n \in DOMAIN pipes /\ normalizeState(pipes[n].word) = "succeeded"
IsMerged(n) == n \in DOMAIN pulls /\ pulls[n].merged

\* A success the monitor saw is still one.
SeenInv ==
  call # None => /\ "state" \in DOMAIN call.last
                 /\ call.last.state = "succeeded" => Succeeded(Req.pipe)

\* A call made for a criterion asks about what its slot names.
AskInv ==
  call # None /\ run.d.type = "done" =>
    /\ run.unread # None /\ Len(run.verdicts) < Len(contract)
    /\ \E p \in Producer : LET v == p.out[Criterion.slot.key] IN
         \/ call.cap = "pr.check" /\ Reference(call.in).number \in {0, v.n}
         \/ call.cap = "deployment.monitor" /\ Req.pipe = v.n

\* A criterion that passed stands.
VerdictInv ==
  run # None => \A i \in DOMAIN run.verdicts :
    run.verdicts[i].result = "pass" => HoldsUp(contract[i], run.verdicts[i].told)

\* The inductive invariant.
DeliveryInv ==
  /\ Shapes /\ GateInv /\ PlanInv /\ BoundCall /\ SeenInv /\ AskInv /\ VerdictInv
  /\ BoundIsReported /\ LineageHolds
-----------------------------------------------------------------------------
(* Sequences and least members *)

\* A value put at the end of a sequence.
LEMMA AppendIs ==
  ASSUME NEW s, IsSeq(s), NEW e
  PROVE  /\ IsSeq(Append(s, e)) /\ Len(Append(s, e)) = Len(s) + 1
         /\ DOMAIN s = 1..Len(s) /\ DOMAIN Append(s, e) = 1..(Len(s) + 1)
         /\ Append(s, e)[Len(s) + 1] = e
         /\ \A i \in 1..Len(s) : Append(s, e)[i] = s[i]
<1> DEFINE S == {s[i] : i \in 1..Len(s)} \cup {e}
<1>1. s \in [1..Len(s) -> S] /\ Len(s) \in Nat
  BY DEF IsSeq
<1>2. s \in Seq(S)
  BY <1>1
<1>3. e \in S
  OBVIOUS
<1> HIDE DEF S
<1>4. /\ Append(s, e) \in Seq(S) /\ Len(Append(s, e)) = Len(s) + 1
      /\ Append(s, e)[Len(s) + 1] = e /\ \A i \in 1..Len(s) : Append(s, e)[i] = s[i]
  BY <1>2, <1>3, AppendProperties
<1>5. Append(s, e) = [i \in 1..Len(Append(s, e)) |-> Append(s, e)[i]]
  <2>1. Append(s, e) \in [1..Len(Append(s, e)) -> S]
    BY <1>4, LenProperties
  <2> QED
    BY <2>1
<1> QED
  BY <1>1, <1>4, <1>5 DEF IsSeq

\* The empty sequence.
LEMMA EmptyIs == IsSeq(<<>>) /\ DOMAIN <<>> = {}
BY DEF IsSeq

\* Positions are numbers.
LEMMA PositionsAreNumbers == \A m \in Nat : \A j \in 1..m : j \in Nat /\ m # 0
OBVIOUS

\* The first of a set of positions, by well-founded induction.
LEMMA FirstIsIn ==
  ASSUME NEW S \in SUBSET Nat, S # {}
  PROVE  First(S) \in S
<1> DEFINE R == OpToRel(<, Nat)
<1>1. IsWellFoundedOn(R, Nat)
  BY NatLessThanWellFounded
<1>2. \A m, n \in Nat : <<m, n>> \in R <=> m < n
  BY DEF OpToRel
<1> HIDE DEF R
<1>3. PICK x \in S : \A y \in S : ~(<<y, x>> \in R)
  BY <1>1, WFMin
<1>4. \A y \in S : y \in Nat /\ x \in Nat /\ ~(y < x)
  BY <1>2, <1>3
<1>5. \A y \in S : x <= y
  BY <1>4
<1> QED
  BY <1>3, <1>5 DEF First

\* The first of one.
LEMMA FirstOfOne ==
  ASSUME NEW n \in Nat
  PROVE  First({n}) = n
BY FirstIsIn

-----------------------------------------------------------------------------
(* What a step's inputs come to *)

\* A binding that can be read gives what a step of that name reported.
LEMMA PriorValue ==
  ASSUME NEW b, NEW prior, IsSeq(prior), StepValue(b, prior).why = ""
  PROVE  Bound(b, StepValue(b, prior).v, prior)
<1> DEFINE at == {j \in DOMAIN prior : prior[j].name = b.of}
           out == prior[First(at)].out
<1>1. DOMAIN prior = 1..Len(prior) /\ Len(prior) \in Nat
  BY DEF IsSeq
<1>2. at # {}
  BY DEF StepValue, Missing
<1>3. First(at) \in at
  <2>1. \A j \in DOMAIN prior : j \in Nat
    BY <1>1, PositionsAreNumbers
  <2>2. at \in SUBSET Nat
    BY <2>1
  <2> HIDE DEF at
  <2> QED
    BY <1>2, <2>2, FirstIsIn
<1>4. b.key \in DOMAIN out
  BY <1>2 DEF StepValue, Missing
<1>5. out[b.key] # Empty
  BY <1>2, <1>4 DEF StepValue, Missing
<1>6. StepValue(b, prior).v = out[b.key]
  BY <1>2, <1>4, <1>5 DEF StepValue, Got
<1> QED
  BY <1>3, <1>4, <1>5, <1>6 DEF Bound

\* A call whose inputs are all resolved carries what they are bound to.
LEMMA Resolves ==
  ASSUME NEW inputs, NEW prior, NEW facts, NEW cap, IsSeq(prior),
         Unresolved(inputs, prior, facts) = {},
         NEW k \in DOMAIN inputs, inputs[k].src = "step"
  PROVE  Bound(inputs[k], fillTaskID(cap, resolveStepInputs(inputs, prior, facts))[k], prior)
<1> DEFINE in == resolveStepInputs(inputs, prior, facts)
<1>1. resolveInputSource(inputs[k], prior, facts) = StepValue(inputs[k], prior)
  BY DEF resolveInputSource
<1>2. StepValue(inputs[k], prior).why = ""
  BY <1>1 DEF Unresolved
<1>3. DOMAIN in = DOMAIN inputs /\ in[k] = StepValue(inputs[k], prior).v
  BY <1>1 DEF resolveStepInputs
<1>4. fillTaskID(cap, in)[k] = in[k]
  BY <1>3 DEF fillTaskID
<1> QED
  BY <1>2, <1>3, <1>4, PriorValue

\* An input of a step that passed the lineage check is readable, and the step
\* it reads is in the plan's records.
LEMMA ReadsARecord ==
  ASSUME Shapes, GateInv, PlanInv, Stepping, Step.cap # "nothing"
  PROVE  Unresolved(Step.inputs, run.prior, assets) \cap {"step", "unreadable"} = {}
<1> DEFINE n == At1(run.prior)
           steps == run.d.steps
<1>1. n \in Called(steps) /\ n = Len(run.prior) + 1 /\ Len(run.prior) \in Nat
      /\ DOMAIN run.prior = 1..Len(run.prior)
  BY DEF Stepping, Shapes, IsSeq, Called, Step, At1
<1>2. StepLineage(steps, n)
  BY <1>1 DEF GateInv, Stepping, validatePlanLineage
<1> SUFFICES ASSUME NEW k \in DOMAIN Step.inputs
             PROVE  resolveInputSource(Step.inputs[k], run.prior, assets).why \notin {"step", "unreadable"}
  BY DEF Unresolved
<1> DEFINE b == Step.inputs[k]
<1>3. b.src \in {"literal", "step", "world"} /\ (b.src = "step" => ReadsEarlierStep(steps, n, b))
  BY <1>2 DEF StepLineage, Step
<1>4. CASE b.src = "step"
  <2>1. PICK j \in Named(steps, b.of) : j \in 1..(n - 1)
    BY <1>3, <1>4 DEF ReadsEarlierStep
  <2>2. j \in DOMAIN run.prior /\ run.prior[j].name = b.of
    BY <1>1, <2>1 DEF Named, PlanInv, Stepping
  <2>3. StepValue(b, run.prior).why \in {"", "unreported", "empty"}
    BY <2>2 DEF StepValue, Missing, Got
  <2> QED
    BY <1>4, <2>3 DEF resolveInputSource
<1>5. CASE b.src # "step"
  BY <1>3, <1>5 DEF resolveInputSource, worldValue, Got, Missing
<1> QED
  BY <1>4, <1>5
-----------------------------------------------------------------------------
(* The two ways a call ends, and what happens in between *)

\* What the hosts may do to the facts a criterion speaks of.
HostsKeepFacts ==
  /\ IsSeq(pulls') /\ IsSeq(pipes')
  /\ \A n : IsMerged(n) => n \in DOMAIN pulls' /\ pulls'[n].merged
  /\ \A n : Succeeded(n) => n \in DOMAIN pipes' /\ normalizeState(pipes'[n].word) = "succeeded"

\* A criterion that stands goes on standing.
LEMMA GoesOnStanding ==
  ASSUME HostsKeepFacts, UNCHANGED <<rows, contract>>, run'.unread = run.unread,
         NEW i, NEW told, HoldsUp(contract[i], told)
  PROVE  HoldsUp(contract[i], told)'
<1> DEFINE c == contract[i]
<1> SUFFICES ASSUME c.slot.src = "step", ~c.expect.exists
             PROVE  \E p \in taskStepOutputs(rows, c.slot.of, run.unread) : LET v == p.out[c.slot.key] IN
                      /\ c.expect.field = "merged" /\ c.expect.equals = Word("true") =>
                           v.n \in DOMAIN pulls' /\ pulls'[v.n].merged
                      /\ c.expect.field = "state" /\ c.expect.equals = Word("succeeded") =>
                           told \/ (v.n \in DOMAIN pipes' /\ normalizeState(pipes'[v.n].word) = "succeeded")
  BY DEF HoldsUp
<1>1. PICK p \in taskStepOutputs(rows, c.slot.of, run.unread) : LET v == p.out[c.slot.key] IN
                      /\ c.expect.field = "merged" /\ c.expect.equals = Word("true") => IsMerged(v.n)
                      /\ c.expect.field = "state" /\ c.expect.equals = Word("succeeded") =>
                           told \/ Succeeded(v.n)
  BY DEF HoldsUp, IsMerged, Succeeded
<1> QED
  BY <1>1 DEF HostsKeepFacts

\* A step that ends leaves a record the invariant allows.
LEMMA StepEndsWell ==
  ASSUME DeliveryInv, run # None, run.d.type = "plan",
         NEW out, NEW ok, NEW why, NEW in, StepEnds(out, ok, why, in),
         why \notin {"step", "unreadable"},
         ok => \A k \in DOMAIN Step.inputs :
                 Step.inputs[k].src = "step" => Bound(Step.inputs[k], in[k], run.prior),
         call' = call \/ call' = None, call # None => call' = None,
         IsSeq(pulls'), IsSeq(pipes'), status' = status, cycles' = cycles, contract' = contract
  PROVE  DeliveryInv'
<1>0. PICK kept \in BOOLEAN :
        /\ rows' = Append(rows, Record(out, ok, why, in, kept))
        /\ run' = [run EXCEPT !.prior = Append(run.prior, Record(out, ok, why, in, kept)), !.err = ~ok]
  BY DEF StepEnds
<1> DEFINE r == Record(out, ok, why, in, kept)
           n == Len(rows) + 1
<1>1. /\ r.name = Step.name /\ r.inputs = Step.inputs /\ r.in = in /\ r.out = out
      /\ r.ok = ok /\ r.why = why /\ r.cycle = cycles
  BY DEF Record
<1>2. /\ rows' = Append(rows, r) /\ run' = [run EXCEPT !.prior = Append(run.prior, r), !.err = ~ok]
  BY <1>0
<1> HIDE DEF r
<1>3. /\ IsSeq(rows') /\ DOMAIN rows' = 1..n /\ DOMAIN rows = 1..Len(rows) /\ Len(rows) \in Nat
      /\ rows'[n] = r /\ \A m \in 1..Len(rows) : rows'[m] = rows[m]
  <2>1. IsSeq(rows) /\ Len(rows) \in Nat
    BY DEF DeliveryInv, Shapes, IsSeq
  <2> QED
    BY <1>2, <2>1, AppendIs
<1>4. /\ run' = [x \in RunFields |-> run'[x]] /\ run'.d = run.d /\ run'.verdicts = run.verdicts
      /\ run'.prior = Append(run.prior, r)
  BY <1>2 DEF DeliveryInv, Shapes, RunFields
<1>5. /\ IsSeq(run'.prior) /\ DOMAIN run.prior = 1..Len(run.prior) /\ Len(run.prior) \in Nat
      /\ DOMAIN run'.prior = 1..At1(run.prior)
      /\ run'.prior[At1(run.prior)] = r /\ \A m \in 1..Len(run.prior) : run'.prior[m] = run.prior[m]
  BY <1>4, AppendIs DEF DeliveryInv, Shapes, IsSeq, At1
<1>6. call' = None
  OBVIOUS
<1>7. run.verdicts = <<>> /\ status = "running"
  BY DEF DeliveryInv, GateInv
<1>8. Shapes'
  BY <1>3, <1>4, <1>5, <1>6, <1>7 DEF DeliveryInv, Shapes
<1>9. GateInv'
  BY <1>4, <1>6, <1>7 DEF DeliveryInv, GateInv
<1>10. PlanInv'
  <2> SUFFICES ASSUME NEW j \in DOMAIN run'.prior
               PROVE  /\ run'.prior[j].cycle = cycles /\ run'.prior[j].name = run'.d.steps[j].name
                      /\ \E m \in DOMAIN rows' : rows'[m] = run'.prior[j]
    BY DEF PlanInv
  <2>1. CASE j = At1(run.prior)
    BY <2>1, <1>1, <1>3, <1>4, <1>5 DEF Step
  <2>2. CASE j # At1(run.prior)
    <3>1. j \in DOMAIN run.prior
      BY <1>5, <2>2 DEF At1
    <3>2. PICK m \in DOMAIN rows : rows[m] = run.prior[j]
      BY <3>1 DEF DeliveryInv, PlanInv
    <3>3. m \in DOMAIN rows' /\ rows'[m] = run'.prior[j]
      BY <3>1, <3>2, <1>3, <1>5
    <3> QED
      BY <3>1, <3>3, <1>4, <1>5 DEF DeliveryInv, PlanInv
  <2> QED
    BY <2>1, <2>2
<1>11. BoundCall' /\ SeenInv' /\ AskInv'
  BY <1>6 DEF BoundCall, SeenInv, AskInv
<1>12. VerdictInv'
  BY <1>4, <1>7 DEF VerdictInv
<1>13. BoundIsReported'
  <2> SUFFICES ASSUME NEW i \in DOMAIN rows', rows'[i].ok, NEW k \in DOMAIN rows'[i].inputs,
                      rows'[i].inputs[k].src = "step"
               PROVE  LET b == rows'[i].inputs[k] IN
                      /\ rows'[i].in[k] # Empty
                      /\ \E j \in 1..(i - 1) :
                           /\ rows'[j].cycle = rows'[i].cycle /\ rows'[j].name = b.of
                           /\ b.key \in DOMAIN rows'[j].out /\ rows'[j].out[b.key] = rows'[i].in[k]
    BY DEF BoundIsReported
  <2>1. CASE i \in 1..Len(rows)
    <3>1. rows'[i] = rows[i] /\ i \in DOMAIN rows
      BY <2>1, <1>3
    <3>2. PICK j \in 1..(i - 1) :
            /\ rows[j].cycle = rows[i].cycle /\ rows[j].name = rows[i].inputs[k].of
            /\ rows[i].inputs[k].key \in DOMAIN rows[j].out
            /\ rows[j].out[rows[i].inputs[k].key] = rows[i].in[k]
      BY <3>1 DEF DeliveryInv, BoundIsReported
    <3>3. rows'[j] = rows[j]
      BY <2>1, <1>3
    <3>4. rows[i].in[k] # Empty
      BY <3>1 DEF DeliveryInv, BoundIsReported
    <3> QED
      BY <3>1, <3>2, <3>3, <3>4
  <2>2. CASE i = n
    <3>1. rows'[i] = r /\ ok /\ k \in DOMAIN Step.inputs /\ rows'[i].inputs = Step.inputs
      BY <2>2, <1>1, <1>3
    <3>2. Bound(Step.inputs[k], in[k], run.prior)
      BY <3>1
    <3>3. PICK j \in DOMAIN run.prior :
            /\ run.prior[j].name = Step.inputs[k].of /\ Step.inputs[k].key \in DOMAIN run.prior[j].out
            /\ run.prior[j].out[Step.inputs[k].key] = in[k]
      BY <3>2 DEF Bound
    <3>4. PICK m \in DOMAIN rows : rows[m] = run.prior[j]
      BY <3>3 DEF DeliveryInv, PlanInv
    <3>5. m \in 1..(i - 1) /\ rows'[m] = run.prior[j] /\ run.prior[j].cycle = cycles
      BY <3>3, <3>4, <2>2, <1>3 DEF DeliveryInv, PlanInv
    <3>6. rows'[i].in[k] # Empty /\ rows'[i].in[k] = in[k] /\ rows'[i].cycle = cycles
      BY <3>1, <3>2, <1>1 DEF Bound
    <3> QED
      BY <3>1, <3>3, <3>5, <3>6
  <2> QED
    BY <2>1, <2>2, <1>3
<1>14. LineageHolds'
  BY <1>1, <1>3 DEF DeliveryInv, LineageHolds
<1> QED
  BY <1>8, <1>9, <1>10, <1>11, <1>12, <1>13, <1>14 DEF DeliveryInv

\* A verdict is added to those of a done.
LEMMA JudgedWell ==
  ASSUME DeliveryInv, run # None, run.d.type = "done", run.unread # None,
         NEW result, NEW told, Verdict(result, told),
         NEW n, n = At1(run.verdicts), result = "pass" => HoldsUp(contract[n], told)',
         HostsKeepFacts, call' = call \/ call' = None, call # None => call' = None,
         UNCHANGED <<rows, status, cycles, contract>>
  PROVE  DeliveryInv'
<1> DEFINE v == [result |-> result, told |-> told]
<1>0. v.result = result /\ v.told = told
  OBVIOUS
<1>1. run' = [run EXCEPT !.verdicts = Append(run.verdicts, v)]
  BY DEF Verdict
<1> HIDE DEF v
<1>2. /\ run' = [x \in RunFields |-> run'[x]] /\ run'.d = run.d /\ run'.prior = run.prior
      /\ run'.unread = run.unread /\ run'.verdicts = Append(run.verdicts, v)
  BY <1>1 DEF DeliveryInv, Shapes, RunFields
<1>3. /\ IsSeq(run'.verdicts) /\ DOMAIN run.verdicts = 1..Len(run.verdicts) /\ Len(run.verdicts) \in Nat
      /\ DOMAIN run'.verdicts = 1..At1(run.verdicts) /\ run'.verdicts[At1(run.verdicts)] = v
      /\ \A m \in 1..Len(run.verdicts) : run'.verdicts[m] = run.verdicts[m]
  BY <1>2, AppendIs DEF DeliveryInv, Shapes, IsSeq, At1
<1>4. call' = None /\ status = "running"
  BY DEF DeliveryInv, GateInv
<1>5. Shapes'
  BY <1>2, <1>3, <1>4 DEF DeliveryInv, Shapes, HostsKeepFacts
<1>6. GateInv'
  BY <1>2, <1>4 DEF DeliveryInv, GateInv
<1>7. PlanInv'
  BY <1>2 DEF DeliveryInv, PlanInv
<1>8. BoundCall' /\ SeenInv' /\ AskInv'
  BY <1>4 DEF BoundCall, SeenInv, AskInv
<1>9. VerdictInv'
  <2> SUFFICES ASSUME NEW i \in DOMAIN run'.verdicts, run'.verdicts[i].result = "pass",
                      NEW by, by = run'.verdicts[i].told
               PROVE  HoldsUp(contract[i], by)'
    BY DEF VerdictInv
  <2>1. CASE i = n
    BY <2>1, <1>0, <1>3
  <2>2. CASE i # n
    <3>1. HoldsUp(contract[i], by)
      BY <2>2, <1>3 DEF DeliveryInv, VerdictInv, At1
    <3> QED
      BY <1>2, <3>1, GoesOnStanding
  <2> QED
    BY <2>1, <2>2
<1>10. BoundIsReported' /\ LineageHolds'
  BY DEF DeliveryInv, BoundIsReported, LineageHolds
<1> QED
  BY <1>5, <1>6, <1>7, <1>8, <1>9, <1>10 DEF DeliveryInv

\* A call that goes on, or a step of the hosts.
LEMMA GoesOn ==
  ASSUME DeliveryInv, HostsKeepFacts,
         UNCHANGED <<status, cycles, run, rows, contract>>,
         \/ call' = call
         \/ /\ call # None /\ call' = [x \in CallFields |-> call'[x]]
            /\ call'.cap = call.cap /\ call'.in = call.in
            /\ \/ call'.last = call.last
               \/ "state" \in DOMAIN call'.last /\ (call'.last.state = "succeeded" => Succeeded(Req.pipe))
  PROVE  DeliveryInv'
<1>1. call' # None => call # None /\ call'.cap = call.cap /\ call'.in = call.in
                      /\ call' = [x \in CallFields |-> call'[x]]
  BY DEF DeliveryInv, Shapes
<1>2. Shapes'
  BY <1>1 DEF DeliveryInv, Shapes, HostsKeepFacts
<1>3. GateInv'
  BY <1>1 DEF DeliveryInv, GateInv
<1>4. PlanInv' /\ BoundIsReported' /\ LineageHolds'
  BY DEF DeliveryInv, PlanInv, BoundIsReported, LineageHolds
<1>5. BoundCall'
  <2>1. Step' = Step
    BY DEF Step, At1
  <2> QED
    BY <1>1, <2>1 DEF DeliveryInv, BoundCall
<1>6. SeenInv'
  <2>3. call' # None => "state" \in DOMAIN call'.last
    BY <1>1 DEF DeliveryInv, SeenInv
  <2> SUFFICES ASSUME call' # None, call'.last.state = "succeeded"
               PROVE  Succeeded(Req.pipe)'
    BY <2>3 DEF SeenInv
  <2>1. Succeeded(Req.pipe)
    BY <1>1 DEF DeliveryInv, SeenInv
  <2>2. Req' = Req
    BY <1>1 DEF Req
  <2> QED
    BY <2>1, <2>2 DEF HostsKeepFacts, Succeeded
<1>7. AskInv'
  <2> SUFFICES ASSUME call' # None, run.d.type = "done"
               PROVE  (/\ run.unread # None /\ Len(run.verdicts) < Len(contract)
                       /\ \E p \in Producer : LET v == p.out[Criterion.slot.key] IN
                            \/ call.cap = "pr.check" /\ Reference(call.in).number \in {0, v.n}
                            \/ call.cap = "deployment.monitor" /\ Req.pipe = v.n)'
    BY DEF AskInv
  <2>1. /\ run.unread # None /\ Len(run.verdicts) < Len(contract)
        /\ \E p \in Producer : LET v == p.out[Criterion.slot.key] IN
             \/ call.cap = "pr.check" /\ Reference(call.in).number \in {0, v.n}
             \/ call.cap = "deployment.monitor" /\ Req.pipe = v.n
    BY <1>1 DEF DeliveryInv, AskInv
  <2>2. Req' = Req /\ Criterion' = Criterion /\ Producer' = Producer
    BY <1>1 DEF Req, Criterion, Producer, At1
  <2>3. call'.cap = call.cap /\ call'.in = call.in
    BY <1>1
  <2> QED
    BY <2>1, <2>2, <2>3
<1>8. VerdictInv'
  <2> SUFFICES ASSUME run # None, NEW i \in DOMAIN run.verdicts, run.verdicts[i].result = "pass"
               PROVE  HoldsUp(contract[i], run.verdicts[i].told)'
    BY DEF VerdictInv, HoldsUp
  <2> QED
    BY GoesOnStanding DEF DeliveryInv, VerdictInv
<1> QED
  BY <1>2, <1>3, <1>4, <1>5, <1>6, <1>7, <1>8 DEF DeliveryInv

\* The hosts as they are keep their facts, and so do hosts of which some grew.
LEMMA HostsStay ==
  ASSUME Shapes, pulls' = pulls \/ (\E p : pulls' = Append(pulls, p)),
                 pipes' = pipes \/ (\E p : pipes' = Append(pipes, p))
  PROVE  HostsKeepFacts
<1>1. IsSeq(pulls) /\ IsSeq(pipes)
  BY DEF Shapes
<1>2. \A n : IsMerged(n) => n \in DOMAIN pulls' /\ pulls'[n].merged
  BY <1>1, AppendIs DEF IsMerged
<1>3. \A n : Succeeded(n) => n \in DOMAIN pipes' /\ normalizeState(pipes'[n].word) = "succeeded"
  BY <1>1, AppendIs DEF Succeeded
<1>4. \A s, e : IsSeq(s) => IsSeq(Append(s, e))
  BY AppendIs
<1>5. IsSeq(pulls')
  BY <1>1, <1>4
<1>6. IsSeq(pipes')
  BY <1>1, <1>4
<1> QED
  BY <1>2, <1>3, <1>5, <1>6 DEF HostsKeepFacts

\* A merged pull request is not touched again.
LEMMA PullMovesKeeps ==
  ASSUME DeliveryInv, PullMoves
  PROVE  DeliveryInv'
<1>1. PICK n \in DOMAIN pulls : ~pulls[n].merged /\ \E p : pulls' = [pulls EXCEPT ![n] = p]
  <2>1. PICK n \in DOMAIN pulls : /\ ~pulls[n].merged
       /\ \/ pulls' = [pulls EXCEPT ![n].open = FALSE, ![n].merged = pulls[n].open]
          \/ pulls[n].open /\ pulls' = [pulls EXCEPT ![n].open = FALSE]
          \/ pulls' = [pulls EXCEPT ![n].reviews = @ + 1]
    BY DEF PullMoves
  <2>2. [pulls EXCEPT ![n].open = FALSE, ![n].merged = pulls[n].open] =
        [pulls EXCEPT ![n] = [pulls[n] EXCEPT !.open = FALSE, !.merged = pulls[n].open]]
    OBVIOUS
  <2> QED
    BY <2>1, <2>2
<1>2. DOMAIN pulls' = DOMAIN pulls /\ \A m \in DOMAIN pulls : pulls[m].merged => pulls'[m] = pulls[m]
  BY <1>1
<1>3. IsSeq(pulls) /\ IsSeq(pipes)
  BY DEF DeliveryInv, Shapes
<1>4. IsSeq(pulls')
  <2>1. Len(pulls') = Len(pulls)
    BY <1>1, <1>3 DEF IsSeq
  <2> QED
    BY <1>1, <1>3, <2>1 DEF IsSeq
<1>5. HostsKeepFacts
  BY <1>2, <1>3, <1>4 DEF PullMoves, HostsKeepFacts, IsMerged, Succeeded
<1> QED
  BY <1>5, GoesOn DEF PullMoves

\* A pipeline that ended is not touched again.
LEMMA PipeMovesKeeps ==
  ASSUME DeliveryInv, PipeMoves
  PROVE  DeliveryInv'
<1>1. PICK n \in DOMAIN pipes, p \in Payloads :
        ~terminal(normalizeState(pipes[n].word)) /\ pipes' = [pipes EXCEPT ![n] = p]
  BY DEF PipeMoves
<1>2. normalizeState(pipes[n].word) # "succeeded"
  BY <1>1 DEF terminal
<1>3. IsSeq(pulls) /\ IsSeq(pipes)
  BY DEF DeliveryInv, Shapes
<1>4. IsSeq(pipes')
  <2>1. Len(pipes') = Len(pipes)
    BY <1>1, <1>3 DEF IsSeq
  <2> QED
    BY <1>1, <1>3, <2>1 DEF IsSeq
<1>5. HostsKeepFacts
  BY <1>1, <1>2, <1>3, <1>4 DEF PipeMoves, HostsKeepFacts, IsMerged, Succeeded
<1> QED
  BY <1>5, GoesOn DEF PipeMoves

-----------------------------------------------------------------------------
(* What is asked about a criterion, and what the answer means *)

\* The reader of a kind and the input it takes the evidence under.
LEMMA ReaderNames ==
  ASSUME NEW kind, NEW key, NEW r \in toolForKind(kind, key)
  PROVE  \/ r.cap = "pr.check" /\ r.input = "pr"
         \/ r.cap = "deployment.monitor" /\ r.input \in {"deployment", "poll"}
<1> DEFINE tools == {c \in DOMAIN ChecksKind : ChecksKind[c] = kind}
           tool == CHOOSE c \in tools : TRUE
           takes == {f \in InputsOf[tool] : f.kind = kind}
           same == {f \in takes : fieldAccepts({f}, key)}
<1>1. Cardinality(tools) = 1
  BY DEF toolForKind
<1>2. tools # {}
  BY <1>1, FS_EmptySet
<1>3. r = [cap |-> tool,
           input |-> IF same # {} THEN (CHOOSE f \in same : TRUE).name
                     ELSE IF kind = "deployment" THEN "deployment"
                     ELSE (CHOOSE f \in takes : TRUE).name]
  BY <1>1 DEF toolForKind
<1>4. CASE kind = "pull_request"
  <2>1. tool = "pr.check"
    BY <1>2, <1>4 DEF ChecksKind
  <2>2. InputsOf["pr.check"] = {Field("pr", {"pr_url", "pull_request"}, TRUE, "pull_request"),
                                Field("repo", {"repository"}, FALSE, "")}
    BY DEF InputsOf
  <2>3. takes = {f \in InputsOf["pr.check"] : f.kind = "pull_request"}
    BY <1>4, <2>1
  <2> HIDE DEF takes, same, tool
  <2>6. /\ Field("pr", {"pr_url", "pull_request"}, TRUE, "pull_request").kind = "pull_request"
        /\ Field("repo", {"repository"}, FALSE, "").kind = ""
        /\ Field("pr", {"pr_url", "pull_request"}, TRUE, "pull_request").name = "pr"
    BY DEF Field
  <2>4. \A f \in takes : f.name = "pr"
    BY <2>2, <2>3, <2>6
  <2>5. takes # {} /\ same \subseteq takes
    BY <2>2, <2>3, <2>6 DEF same
  <2> QED
    BY <1>3, <1>4, <2>1, <2>4, <2>5
<1>5. CASE kind = "deployment"
  <2>1. tool = "deployment.monitor"
    BY <1>2, <1>5 DEF ChecksKind
  <2>2. InputsOf["deployment.monitor"] =
          {Field("deployment", {"pipeline_id", "pipeline", "request_id", "target", "run", "id"},
                 FALSE, "deployment"),
           Field("poll", {}, FALSE, "deployment")}
          \cup Plain({"status_url", "endpoint", "logs_url", "watch", "interval", "timeout", "tail", "task_id"})
    BY DEF InputsOf
  <2>4. same \subseteq takes
    OBVIOUS
  <2>5. takes = {f \in InputsOf["deployment.monitor"] : f.kind = "deployment"}
    BY <1>5, <2>1
  <2> HIDE DEF takes, same, tool
  <2>6. \A names : \A f \in Plain(names) : f.kind = ""
    <3>1. \A n : Field(n, {}, FALSE, "").kind = ""
      BY DEF Field
    <3> SUFFICES ASSUME NEW names, NEW f \in Plain(names) PROVE f.kind = ""
      OBVIOUS
    <3>2. PICK n \in names : f = Field(n, {}, FALSE, "")
      BY DEF Plain
    <3> QED
      BY <3>1, <3>2
  <2>7. /\ Field("deployment", {"pipeline_id", "pipeline", "request_id", "target", "run", "id"},
                 FALSE, "deployment").name = "deployment"
        /\ Field("poll", {}, FALSE, "deployment").name = "poll"
    BY DEF Field
  <2>3. \A f \in takes : f.name \in {"deployment", "poll"}
    BY <2>2, <2>5, <2>6, <2>7
  <2> QED
    BY <1>3, <1>5, <2>1, <2>3, <2>4
<1>6. kind \in {"pull_request", "deployment"}
  BY <1>2 DEF ChecksKind
<1> QED
  BY <1>4, <1>5, <1>6

\* Of the keys an input may be given under, one was used.
LEMMA OneGiven ==
  ASSUME NEW in, NEW keys, NEW n \in Nat, n \in DOMAIN keys, At(in, keys[n]) # Empty,
         \A i \in DOMAIN keys : i # n => At(in, keys[i]) = Empty
  PROVE  firstNonEmpty(in, keys) = At(in, keys[n])
<1> DEFINE given == {i \in DOMAIN keys : At(in, keys[i]) # Empty}
<1>1. given = {n}
  OBVIOUS
<1>2. First(given) = n
  BY <1>1, FirstOfOne
<1> QED
  BY <1>1, <1>2 DEF firstNonEmpty

\* And when none was, there is nothing.
LEMMA NoneGiven ==
  ASSUME NEW in, NEW keys, \A i \in DOMAIN keys : At(in, keys[i]) = Empty
  PROVE  firstNonEmpty(in, keys) = Empty
BY DEF firstNonEmpty

\* The one input of a verification, and perhaps the task id.
LEMMA OnlyInput ==
  ASSUME NEW cap, NEW key, key # "task_id", NEW one, DOMAIN one = {key}
  PROVE  /\ At(fillTaskID(cap, one), key) = one[key]
         /\ \A x : x \notin {key, "task_id"} => At(fillTaskID(cap, one), x) = Empty
<1> DEFINE in == fillTaskID(cap, one)
<1>1. \/ in = one
      \/ in = [k \in {key} \cup {"task_id"} |-> IF k = "task_id" THEN Word("task") ELSE one[k]]
  BY DEF fillTaskID
<1> HIDE DEF in
<1>2. DOMAIN in \subseteq {key, "task_id"} /\ key \in DOMAIN in /\ in[key] = one[key]
  BY <1>1
<1>3. At(in, key) = one[key] /\ \A x : x \notin {key, "task_id"} => At(in, x) = Empty
  BY <1>2 DEF At
<1> QED
  BY <1>3 DEF in

\* pr.check is asked about the pull request the evidence names.
LEMMA AsksPull ==
  ASSUME NEW v, v # Empty
  PROVE  Reference(fillTaskID("pr.check", [k \in {"pr"} |-> v])).number \in {0, v.n}
<1> DEFINE in == fillTaskID("pr.check", [k \in {"pr"} |-> v])
           keys == <<"pr", "pr_url", "pull_request">>
<1>1. At(in, "pr") = v /\ \A k : k \notin {"pr", "task_id"} => At(in, k) = Empty
  <2> DEFINE one == [k \in {"pr"} |-> v]
  <2>1. DOMAIN one = {"pr"} /\ one["pr"] = v
    OBVIOUS
  <2> HIDE DEF one
  <2>2. /\ At(fillTaskID("pr.check", one), "pr") = one["pr"]
        /\ \A x : x \notin {"pr", "task_id"} => At(fillTaskID("pr.check", one), x) = Empty
    BY <2>1, OnlyInput
  <2> QED
    BY <2>1, <2>2 DEF one
<1> HIDE DEF in
<1>2. firstNonEmpty(in, keys) = v
  <2>1. DOMAIN keys = 1..3 /\ keys[1] = "pr" /\ keys[2] = "pr_url" /\ keys[3] = "pull_request"
    OBVIOUS
  <2> HIDE DEF keys
  <2>2. \A i \in DOMAIN keys : i # 1 => At(in, keys[i]) = Empty
    BY <1>1, <2>1
  <2> QED
    BY <1>1, <2>1, <2>2, OneGiven
<1>3. Reference(in) = parsePullReference(v)
  BY <1>2 DEF Reference
<1>4. parsePullReference(v).number \in {0, v.n}
  BY DEF parsePullReference
<1> QED
  BY <1>3, <1>4 DEF in

\* deployment.monitor is asked about the pipeline the evidence names.
LEMMA AsksPipe ==
  ASSUME NEW v, v # Empty, NEW key \in {"deployment", "poll"}
  PROVE  ParseRequest(fillTaskID("deployment.monitor", [k \in {key} |-> v])).pipe = v.n
<1> DEFINE in == fillTaskID("deployment.monitor", [k \in {key} |-> v])
           keys == <<"deployment", "pipeline_id", "pipeline", "request_id", "target", "run", "id">>
<1>1. At(in, key) = v /\ \A k : k \notin {key, "task_id"} => At(in, k) = Empty
  <2> DEFINE one == [k \in {key} |-> v]
  <2>1. DOMAIN one = {key} /\ one[key] = v /\ key # "task_id"
    OBVIOUS
  <2> HIDE DEF one
  <2>2. /\ At(fillTaskID("deployment.monitor", one), key) = one[key]
        /\ \A x : x \notin {key, "task_id"} => At(fillTaskID("deployment.monitor", one), x) = Empty
    BY <2>1, OnlyInput
  <2> QED
    BY <2>1, <2>2 DEF one
<1> HIDE DEF in
<1>2. /\ DOMAIN keys = 1..7 /\ keys[1] = "deployment" /\ keys[2] = "pipeline_id" /\ keys[3] = "pipeline"
      /\ keys[4] = "request_id" /\ keys[5] = "target" /\ keys[6] = "run" /\ keys[7] = "id"
  OBVIOUS
<1>3. ParseRequest(in).pipe = IF At(in, "poll") # Empty THEN At(in, "poll").n ELSE firstNonEmpty(in, keys).n
  BY DEF ParseRequest
<1> HIDE DEF keys
<1>4. CASE key = "poll"
  BY <1>1, <1>3, <1>4 DEF in
<1>5. CASE key = "deployment"
  <2>1. \A i \in DOMAIN keys : i # 1 => At(in, keys[i]) = Empty
    BY <1>1, <1>2, <1>5
  <2>2. firstNonEmpty(in, keys) = v
    BY <1>1, <1>2, <1>5, <2>1, OneGiven
  <2> QED
    BY <1>1, <1>3, <1>5, <2>2 DEF in
<1> QED
  BY <1>4, <1>5

\* The size of a set of at most one.
LEMMA SizeOfAtMostOne ==
  ASSUME NEW S, S = {} \/ \E x : S = {x}
  PROVE  Cardinality(S) \in Nat /\ (S = {} <=> Cardinality(S) = 0)
<1>1. CASE S = {}
  BY <1>1, FS_EmptySet
<1>2. CASE S # {}
  <2>1. PICK x : S = {x}
    BY <1>2
  <2>2. Cardinality({x}) = 1
    BY FS_Singleton
  <2> QED
    BY <1>2, <2>1, <2>2
<1> QED
  BY <1>1, <1>2

\* The value of a slot is what its producer reported.
LEMMA SlotIsReported ==
  ASSUME SlotValue.why = ""
  PROVE  /\ SlotValue.v # Empty
         /\ \E p \in Producer : SlotValue.v = p.out[Criterion.slot.key]
<1> DEFINE one == CHOOSE p \in Producer : TRUE
           made == [i \in 1..Cardinality(Producer) |-> one]
<1>1. Cardinality(Producer) \in Nat /\ (Producer = {} <=> Cardinality(Producer) = 0)
  <2>1. Producer = {} \/ \E x : Producer = {x}
    BY DEF Producer, taskStepOutputs
  <2> QED
    BY <2>1, SizeOfAtMostOne
<1>2. IsSeq(made) /\ DOMAIN made = 1..Cardinality(Producer)
  <2>1. made \in [1..Cardinality(Producer) -> {one}]
    OBVIOUS
  <2> HIDE DEF made, one
  <2>2. made \in Seq({one})
    BY <1>1, <2>1, SeqDef
  <2>3. made \in [1..Len(made) -> {one}] /\ Len(made) \in Nat
    BY <2>2, LenProperties
  <2> QED
    BY <2>1, <2>3 DEF IsSeq
<1>3. SlotValue = StepValue(Criterion.slot, made)
  BY DEF SlotValue
<1> HIDE DEF made
<1>4. Bound(Criterion.slot, SlotValue.v, made)
  BY <1>2, <1>3, PriorValue
<1>5. PICK j \in DOMAIN made : made[j].out[Criterion.slot.key] = SlotValue.v
  BY <1>4 DEF Bound
<1>6. Producer # {}
  <2> DEFINE m == Cardinality(Producer)
  <2>1. m \in Nat /\ j \in 1..m
    BY <1>1, <1>2, <1>5
  <2> HIDE DEF m
  <2>2. m # 0
    BY <2>1, PositionsAreNumbers
  <2> QED
    BY <1>1, <2>2 DEF m
<1> QED
  BY <1>2, <1>4, <1>5, <1>6 DEF Bound, made

\* Texts are told apart by what they say.
LEMMA WordsDiffer == \A a, b : Word(a) = Word(b) => a = b
BY DEF Word, Text

\* A criterion pr.check answered with a pass stands.
LEMMA PullJudged ==
  ASSUME DeliveryInv, In("pr.check", "start"), run.d.type = "done", CanCheck(call.in),
         Judge(Criterion.expect, CheckReport(pulls, Pull(pulls, call.in))) = "pass"
  PROVE  HoldsUp(Criterion, FALSE)
<1> DEFINE c == Criterion
           found == Pull(pulls, call.in)
           out == CheckReport(pulls, found)
<1> SUFFICES ASSUME c.slot.src = "step", ~c.expect.exists
             PROVE  \E p \in taskStepOutputs(rows, c.slot.of, run.unread) : LET v == p.out[c.slot.key] IN
                      /\ c.expect.field = "merged" /\ c.expect.equals = Word("true") => IsMerged(v.n)
                      /\ c.expect.field = "state" /\ c.expect.equals = Word("succeeded") => Succeeded(v.n)
  BY DEF HoldsUp, IsMerged, Succeeded
<1>1. PICK p \in taskStepOutputs(rows, c.slot.of, run.unread) : Reference(call.in).number \in {0, p.out[c.slot.key].n}
  BY DEF DeliveryInv, AskInv, In, Producer
<1>2. Reference(call.in).number = p.out[c.slot.key].n
  <2>1. Reference(call.in).number > 0
    BY DEF CanCheck
  <2>2. Reference(call.in).number # 0
    <3> DEFINE n == Reference(call.in).number
    <3>1. n > 0
      BY <2>1
    <3> HIDE DEF n
    <3>2. n # 0
      BY <3>1
    <3> QED
      BY <3>2 DEF n
  <2> QED
    BY <1>1, <2>2
<1>3. c.expect.field \in DOMAIN out /\ out[c.expect.field] = c.expect.equals
  BY DEF Judge
<1>4. CASE c.expect.field = "merged" /\ c.expect.equals = Word("true")
  <2>1. found # {}
    BY <1>3, <1>4 DEF CheckReport
  <2>2. found = {Reference(call.in).number} /\ Reference(call.in).number \in DOMAIN pulls
    BY <2>1 DEF Pull
  <2>3. out["merged"] = YesNo(pulls[Reference(call.in).number].merged)
    BY <2>1, <2>2 DEF CheckReport
  <2>4. pulls[Reference(call.in).number].merged
    BY <1>3, <1>4, <2>3, WordsDiffer DEF YesNo
  <2> QED
    BY <1>2, <1>4, <2>2, <2>4 DEF IsMerged
<1>5. CASE c.expect.field = "state" /\ c.expect.equals = Word("succeeded")
  <2>1. found # {}
    BY <1>3, <1>5 DEF CheckReport
  <2>2. PICK w \in {"open", "closed"} : out["state"] = Word(w)
    BY <2>1 DEF CheckReport
  <2> QED
    BY <1>3, <1>5, <2>2, WordsDiffer
<1> QED
  BY <1>4, <1>5

\* A criterion the monitor's report passed stands, when the report is of a
\* pipeline that succeeded if it says so, or what the agent said.
LEMMA PipeJudged ==
  ASSUME DeliveryInv, call # None, call.cap = "deployment.monitor", run.d.type = "done",
         NEW told, NEW s, s.state = "succeeded" => told \/ Succeeded(Req.pipe),
         Judge(Criterion.expect, report(s, Req.pipe)) = "pass"
  PROVE  HoldsUp(Criterion, told)
<1> DEFINE c == Criterion
           out == report(s, Req.pipe)
<1> SUFFICES ASSUME c.slot.src = "step", ~c.expect.exists
             PROVE  \E p \in taskStepOutputs(rows, c.slot.of, run.unread) : LET v == p.out[c.slot.key] IN
                      /\ c.expect.field = "merged" /\ c.expect.equals = Word("true") => IsMerged(v.n)
                      /\ c.expect.field = "state" /\ c.expect.equals = Word("succeeded") =>
                           told \/ Succeeded(v.n)
  BY DEF HoldsUp, IsMerged, Succeeded
<1>1. PICK p \in taskStepOutputs(rows, c.slot.of, run.unread) : Req.pipe = p.out[c.slot.key].n
  BY DEF DeliveryInv, AskInv, Producer
<1>2. c.expect.field \in DOMAIN out /\ out[c.expect.field] = c.expect.equals
  BY DEF Judge
<1>3. DOMAIN out = {"deployment", "state", "terminal", "problem", "signals"} /\ out["state"] = Word(s.state)
  BY DEF report
<1>4. c.expect.field # "merged"
  BY <1>2, <1>3
<1>5. c.expect.field = "state" /\ c.expect.equals = Word("succeeded") => told \/ Succeeded(Req.pipe)
  BY <1>2, <1>3, WordsDiffer
<1> QED
  BY <1>1, <1>4, <1>5

-----------------------------------------------------------------------------
(* The steps of an execution *)

\* A step that names no capability binds no input.
LEMMA NothingTakesNothing ==
  ASSUME NEW a, "steps" \in DOMAIN a, NEW i \in DOMAIN parseDecision(a).steps,
         parseDecision(a).steps[i].cap = "nothing"
  PROVE  parseDecision(a).steps[i].inputs = <<>>
<1> DEFINE named == WithoutNoops(a.steps)
<1>1. \/ parseDecision(a).steps = <<>>
      \/ parseDecision(a).steps = [j \in DOMAIN named |-> IF named[j].cap \in DOMAIN InputsOf THEN named[j] ELSE Nothing]
  BY DEF parseDecision, planActions
<1> HIDE DEF named
<1>2. "nothing" \notin DOMAIN InputsOf /\ Nothing.inputs = <<>>
  BY DEF InputsOf, Nothing
<1> QED
  BY <1>1, <1>2, EmptyIs

\* Refused at the gate, or let in.
LEMMA DecideKeeps ==
  ASSUME DeliveryInv, NEW a \in Answers, Decide(a)
  PROVE  DeliveryInv'
<1> DEFINE d == parseDecision(a)
<1>1. call = None /\ call' = None
  BY DEF Decide, DeliveryInv, GateInv
<1>2. run = None /\ status = "running" /\ status' = status
      /\ UNCHANGED <<pulls, pipes, rows>>
  BY DEF Decide, hosts
<1>3. d.type = a.type /\ d.contract = a.contract
  BY DeliveryAssumption DEF parseDecision
<1>4. \/ UNCHANGED <<run, contract>>
      \/ /\ run' = [d |-> d, prior |-> <<>>, verdicts |-> <<>>, err |-> FALSE, unread |-> None]
         /\ contract' = d.contract \/ contract' = contract
         /\ Readable(a) /\ Gates(d)
  BY DEF Decide
<1>5. IsSeq(a.contract)
  <2> DEFINE S == {a.contract[i] : i \in DOMAIN a.contract}
  <2>1. a.contract \in Seq(S)
    BY DeliveryAssumption
  <2> HIDE DEF S
  <2>2. a.contract \in [1..Len(a.contract) -> S] /\ Len(a.contract) \in Nat
    BY <2>1, LenProperties
  <2> QED
    BY <2>2 DEF IsSeq
<1>6. PlanInv' /\ BoundCall' /\ SeenInv' /\ AskInv' /\ VerdictInv'
  BY <1>1, <1>2, <1>4, EmptyIs DEF PlanInv, BoundCall, SeenInv, AskInv, VerdictInv
<1>7. Shapes'
  <2>1. run' # None => /\ run' = [x \in RunFields |-> run'[x]]
                       /\ IsSeq(run'.prior) /\ IsSeq(run'.verdicts)
    <3>1. CASE run' = run
      BY <3>1, <1>2
    <3>2. CASE run' = [d |-> d, prior |-> <<>>, verdicts |-> <<>>, err |-> FALSE, unread |-> None]
      BY <3>2, EmptyIs DEF RunFields
    <3> QED
      BY <1>4, <3>1, <3>2
  <2>2. IsSeq(contract')
    <3>1. CASE contract' = contract
      BY <3>1 DEF DeliveryInv, Shapes, IsSeq
    <3>2. CASE contract' = d.contract
      BY <3>2, <1>3, <1>5
    <3> QED
      BY <1>4, <3>1, <3>2
  <2> QED
    BY <1>1, <1>2, <2>1, <2>2 DEF DeliveryInv, Shapes, IsSeq
<1>8. GateInv'
  <2>1. CASE UNCHANGED <<run, contract>>
    BY <2>1, <1>1, <1>2 DEF GateInv
  <2>2. CASE /\ run' = [d |-> d, prior |-> <<>>, verdicts |-> <<>>, err |-> FALSE, unread |-> None]
             /\ Readable(a) /\ Gates(d)
    <3>1. run'.d = d /\ run'.verdicts = <<>>
      BY <2>2
    <3>2. d.type \in {"plan", "done", "blocked", "need_input"} /\ validateDecision(d) /\ validatePlanLineage(d.steps)
      BY <2>2, <1>3 DEF Readable, Gates
    <3>3. \A i \in DOMAIN d.steps : d.steps[i].cap = "nothing" => d.steps[i].inputs = <<>>
      BY NothingTakesNothing, DeliveryAssumption
    <3> HIDE DEF d
    <3> QED
      BY <3>1, <3>2, <3>3, <1>1, <1>2 DEF GateInv
  <2> QED
    BY <1>4, <2>1, <2>2
<1>9. BoundIsReported' /\ LineageHolds'
  BY <1>2 DEF DeliveryInv, BoundIsReported, LineageHolds
<1> QED
  BY <1>6, <1>7, <1>8, <1>9 DEF DeliveryInv

\* A call that is made for a step or a criterion.
LEMMA CallMade ==
  ASSUME DeliveryInv, run # None, call = None, run.d.type \in {"plan", "done"},
         NEW cap, NEW in, call' = NewCall(cap, in),
         UNCHANGED <<pulls, pipes, status, cycles, run, rows, contract>>,
         BoundCall', AskInv'
  PROVE  DeliveryInv'
<1>1. call' = [x \in CallFields |-> call'[x]] /\ call'.last.state # "succeeded"
      /\ "state" \in DOMAIN call'.last
  BY DEF NewCall, CallFields, NoSnapshot
<1>2. Shapes'
  BY <1>1 DEF DeliveryInv, Shapes, IsSeq
<1>3. GateInv'
  BY DEF DeliveryInv, GateInv
<1>4. PlanInv' /\ BoundIsReported' /\ LineageHolds' /\ SeenInv'
  BY <1>1 DEF DeliveryInv, PlanInv, BoundIsReported, LineageHolds, SeenInv
<1>5. VerdictInv'
  BY DEF DeliveryInv, VerdictInv, HoldsUp
<1> QED
  BY <1>2, <1>3, <1>4, <1>5 DEF DeliveryInv

\* Only a plan has steps.
LEMMA OnlyPlansStep ==
  ASSUME DeliveryInv, Stepping
  PROVE  run.d.type = "plan"
<1>1. run.d.type # "plan" => run.d.steps = <<>>
  BY DEF DeliveryInv, GateInv, validateDecision, Stepping
<1> QED
  BY <1>1, EmptyIs DEF Stepping

\* A step does nothing, cannot be resolved, or makes its call.
LEMMA StepStartKeeps ==
  ASSUME DeliveryInv, StepStart
  PROVE  DeliveryInv'
<1> DEFINE unresolved == Unresolved(Step.inputs, run.prior, assets)
           in == fillTaskID(Step.cap, resolveStepInputs(Step.inputs, run.prior, assets))
<1>1. /\ Stepping /\ run # None /\ call = None /\ UNCHANGED <<pulls, pipes, status, cycles, contract>>
      /\ run.d.type = "plan"
  BY OnlyPlansStep DEF StepStart, Stepping, hosts
<1>2. IsSeq(pulls') /\ IsSeq(pipes') /\ IsSeq(run.prior)
  BY <1>1 DEF DeliveryInv, Shapes, IsSeq
<1>3. ASSUME Step.cap = "nothing", StepEnds(NoOut, TRUE, "", NoOut), UNCHANGED call
      PROVE  DeliveryInv'
  <2>1. \A k \in DOMAIN Step.inputs : Step.inputs[k].src # "step"
    BY <1>1, <1>3, EmptyIs DEF DeliveryInv, GateInv, Stepping, Step
  <2> QED
    BY <1>1, <1>2, <1>3, <2>1, StepEndsWell
<1>4. ASSUME Step.cap # "nothing", unresolved # {},
             StepEnds(NoOut, FALSE, CHOOSE w \in unresolved : TRUE, NoOut), UNCHANGED call
      PROVE  DeliveryInv'
  <2> DEFINE w == CHOOSE w \in unresolved : TRUE
  <2>1. w \in unresolved
    BY <1>4
  <2>2. w \notin {"step", "unreadable"}
    BY <1>1, <1>4, <2>1, ReadsARecord DEF DeliveryInv
  <2>3. StepEnds(NoOut, FALSE, w, NoOut)
    BY <1>4
  <2> HIDE DEF w
  <2> QED
    BY <1>1, <1>2, <1>4, <2>2, <2>3, StepEndsWell
<1>5. ASSUME Step.cap # "nothing", unresolved = {}, call' = NewCall(Step.cap, in), UNCHANGED <<run, rows>>
      PROVE  DeliveryInv'
  <2>1. \A k \in DOMAIN Step.inputs : Step.inputs[k].src = "step" => Bound(Step.inputs[k], in[k], run.prior)
    BY <1>2, <1>5, Resolves
  <2>2. call'.in = in
    BY <1>5 DEF NewCall
  <2>3. Step' = Step
    BY <1>5 DEF Step, At1
  <2>4. BoundCall'
    BY <1>5, <2>1, <2>2, <2>3 DEF BoundCall
  <2>5. AskInv'
    BY <1>1, <1>5 DEF AskInv
  <2> HIDE DEF in
  <2> QED
    BY <1>1, <1>5, <2>4, <2>5, CallMade
<1> QED
  BY <1>3, <1>4, <1>5 DEF StepStart

\* What a done is verified against is read before any criterion is judged.
LEMMA VerifyReadKeeps ==
  ASSUME DeliveryInv, VerifyRead
  PROVE  DeliveryInv'
<1>1. /\ run # None /\ call = None /\ run.d.type = "done" /\ run.unread = None
      /\ UNCHANGED <<pulls, pipes, status, cycles, call, rows, contract>>
  BY DEF VerifyRead, Verifying, hosts
<1>2. PICK lost : run' = [run EXCEPT !.unread = lost]
  BY DEF VerifyRead
<1>3. /\ run' = [x \in RunFields |-> run'[x]] /\ run'.d = run.d /\ run'.prior = run.prior
      /\ run'.verdicts = run.verdicts /\ run.verdicts = <<>>
  BY <1>1, <1>2 DEF DeliveryInv, Shapes, GateInv, RunFields
<1>4. Shapes'
  BY <1>1, <1>3 DEF DeliveryInv, Shapes, IsSeq
<1>5. GateInv'
  BY <1>1, <1>3 DEF DeliveryInv, GateInv
<1>6. PlanInv' /\ BoundCall' /\ SeenInv' /\ AskInv'
  BY <1>1, <1>3 DEF DeliveryInv, PlanInv, BoundCall, SeenInv, AskInv
<1>7. VerdictInv'
  BY <1>3, EmptyIs DEF VerdictInv
<1>8. BoundIsReported' /\ LineageHolds'
  BY <1>1 DEF DeliveryInv, BoundIsReported, LineageHolds
<1> QED
  BY <1>4, <1>5, <1>6, <1>7, <1>8 DEF DeliveryInv

\* A criterion is asked about, or judged without asking.
LEMMA VerifyStartKeeps ==
  ASSUME DeliveryInv, VerifyStart
  PROVE  DeliveryInv'
<1>1. /\ Verifying /\ run # None /\ call = None /\ run.d.type = "done"
      /\ run.unread # None /\ Len(run.verdicts) < Len(contract)
      /\ UNCHANGED <<pulls, pipes, status, cycles, rows, contract>>
  BY DEF VerifyStart, Verifying, hosts
<1>2. ASSUME Askable,
             call' = LET r == CHOOSE r \in Reader : TRUE
                     IN NewCall(r.cap, fillTaskID(r.cap, [k \in {r.input} |-> SlotValue.v])),
             UNCHANGED run
      PROVE  DeliveryInv'
  <2> DEFINE r == CHOOSE r \in Reader : TRUE
             v == SlotValue.v
             in == fillTaskID(r.cap, [k \in {r.input} |-> v])
  <2>1. r \in Reader /\ SlotValue.why = ""
    BY <1>2 DEF Askable
  <2>2. \E kind : Reader = toolForKind(kind, Criterion.slot.key)
    <3> DEFINE kind == outputKind((CHOOSE p \in Producer : TRUE).cap, Criterion.slot.key)
    <3>1. Reader = {} \/ Reader = toolForKind(kind, Criterion.slot.key)
      BY DEF Reader
    <3> HIDE DEF kind
    <3> QED
      BY <2>1, <3>1
  <2>3. \/ r.cap = "pr.check" /\ r.input = "pr"
        \/ r.cap = "deployment.monitor" /\ r.input \in {"deployment", "poll"}
    BY <2>1, <2>2, ReaderNames
  <2>4. v # Empty /\ \E p \in Producer : v = p.out[Criterion.slot.key]
    BY <2>1, SlotIsReported
  <2>5. \/ r.cap = "pr.check" /\ Reference(in).number \in {0, v.n}
        \/ r.cap = "deployment.monitor" /\ ParseRequest(in).pipe = v.n
    BY <2>3, <2>4, AsksPull, AsksPipe
  <2>6. call' = NewCall(r.cap, in)
    BY <1>2
  <2> HIDE DEF r, in, v
  <2>7. call'.cap = r.cap /\ call'.in = in
    BY <2>6 DEF NewCall
  <2>8. Req' = ParseRequest(in) /\ Producer' = Producer /\ Criterion' = Criterion
    BY <1>1, <1>2, <2>7 DEF Req, Producer, Criterion, At1
  <2>9. AskInv'
    <3>1. \E p \in Producer : LET w == p.out[Criterion.slot.key] IN
               \/ call'.cap = "pr.check" /\ Reference(call'.in).number \in {0, w.n}
               \/ call'.cap = "deployment.monitor" /\ Req'.pipe = w.n
      BY <2>4, <2>5, <2>7, <2>8
    <3> QED
      BY <1>1, <1>2, <2>8, <3>1 DEF AskInv
  <2>10. BoundCall'
    BY <1>1, <1>2 DEF BoundCall
  <2> QED
    BY <1>1, <1>2, <2>6, <2>9, <2>10, CallMade
<1>3. ASSUME ~Askable, UNCHANGED call,
             Verdict(IF Judges(Criterion.expect) /\ Criterion.slot.src = "world"
                       THEN JudgeWorld(Criterion.slot, Criterion.expect, assets) ELSE "inconclusive", FALSE)
      PROVE  DeliveryInv'
  <2> DEFINE v == IF Judges(Criterion.expect) /\ Criterion.slot.src = "world"
                    THEN JudgeWorld(Criterion.slot, Criterion.expect, assets) ELSE "inconclusive"
  <2>5. PICK n : n = At1(run.verdicts)
    OBVIOUS
  <2>1. v = "pass" => contract[n].slot.src # "step"
    BY <2>5 DEF Criterion
  <2>2. v = "pass" => HoldsUp(contract[n], FALSE)'
    BY <1>1, <2>1 DEF HoldsUp
  <2>3. Verdict(v, FALSE)
    BY <1>3
  <2>4. HostsKeepFacts
    BY <1>1, HostsStay DEF DeliveryInv
  <2> HIDE DEF v
  <2> QED
    BY <1>1, <1>3, <2>2, <2>3, <2>4, <2>5, JudgedWell
<1> QED
  BY <1>2, <1>3 DEF VerifyStart

\* A task becomes completed when the criteria of a done all passed.
LEMMA CompletesOnPass ==
  ASSUME DeliveryInv, Conclude, status' = "completed", NEW i \in DOMAIN contract
  PROVE  HoldsUp(contract[i], run.verdicts[i].told)
<1>1. run # None /\ call = None /\ ~Verifying
  BY DEF Conclude
<1>2. status = "running" /\ run.d.type \in {"plan", "done", "blocked", "need_input"}
  BY <1>1 DEF DeliveryInv, GateInv
<1>3. run.d.type = "done" /\ Verified
  BY <1>2 DEF Conclude
<1>4. Len(run.verdicts) \in Nat /\ Len(contract) \in Nat /\ DOMAIN contract = 1..Len(contract)
      /\ DOMAIN run.verdicts = 1..Len(run.verdicts)
  BY <1>1 DEF DeliveryInv, Shapes, IsSeq
<1>5. ~(Len(run.verdicts) < Len(contract))
  BY <1>1, <1>3 DEF Verifying
<1>6. i \in DOMAIN run.verdicts /\ run.verdicts[i].result = "pass"
  BY <1>3, <1>4, <1>5 DEF Verified
<1> QED
  BY <1>1, <1>6 DEF DeliveryInv, VerdictInv

\* An execution ends.
LEMMA ConcludeKeeps ==
  ASSUME DeliveryInv, Conclude
  PROVE  DeliveryInv'
<1>1. /\ call = None /\ run' = None /\ call' = None
      /\ UNCHANGED <<pulls, pipes, cycles, rows, contract>>
  BY DEF Conclude, hosts
<1>2. Shapes'
  BY <1>1 DEF DeliveryInv, Shapes, IsSeq
<1>3. GateInv' /\ PlanInv' /\ BoundCall' /\ SeenInv' /\ AskInv' /\ VerdictInv'
  BY <1>1 DEF GateInv, PlanInv, BoundCall, SeenInv, AskInv, VerdictInv
<1>4. BoundIsReported' /\ LineageHolds'
  BY <1>1 DEF DeliveryInv, BoundIsReported, LineageHolds
<1> QED
  BY <1>2, <1>3, <1>4 DEF DeliveryInv

-----------------------------------------------------------------------------
(* The capabilities *)

\* A call returns: the step it was made for has its record, or the criterion
\* its verdict.
LEMMA EndsWell ==
  ASSUME DeliveryInv, call # None, NEW out, NEW ok \in BOOLEAN, NEW told, Ends(out, ok, told),
         HostsKeepFacts, UNCHANGED <<status, cycles, contract>>,
         run.d.type = "done" /\ ok /\ Judge(Criterion.expect, out) = "pass" => HoldsUp(Criterion, told)
  PROVE  DeliveryInv'
<1>1. run # None /\ run.d.type \in {"plan", "done"} /\ call' = None
  BY DEF DeliveryInv, GateInv, Ends
<1>2. CASE run.d.type = "plan"
  <2>1. StepEnds(out, ok, IF ok THEN "" ELSE "call", call.in)
    BY <1>2 DEF Ends
  <2>2. \A k \in DOMAIN Step.inputs :
          Step.inputs[k].src = "step" => Bound(Step.inputs[k], call.in[k], run.prior)
    BY <1>2 DEF DeliveryInv, BoundCall
  <2>3. \A why : why = (IF ok THEN "" ELSE "call") => why \notin {"step", "unreadable"}
    OBVIOUS
  <2> QED
    BY <1>1, <1>2, <2>1, <2>2, <2>3, StepEndsWell DEF HostsKeepFacts
<1>3. CASE run.d.type = "done"
  <2> DEFINE v == IF ok THEN Judge(Criterion.expect, out) ELSE "inconclusive"
  <2>1. PICK n : n = At1(run.verdicts)
    OBVIOUS
  <2>2. Verdict(v, told) /\ rows' = rows /\ run.unread # None
    BY <1>3 DEF Ends, DeliveryInv, AskInv
  <2>3. v = "pass" => HoldsUp(contract[n], told)
    BY <1>3, <2>1 DEF Criterion
  <2>4. run'.unread = run.unread
    BY <1>1, <2>2 DEF Verdict, DeliveryInv, Shapes, RunFields
  <2>5. v = "pass" => HoldsUp(contract[n], told)'
    BY <2>2, <2>3, <2>4, GoesOnStanding
  <2> HIDE DEF v
  <2> QED
    BY <1>1, <1>3, <2>1, <2>2, <2>5, JudgedWell
<1> QED
  BY <1>1, <1>2, <1>3

\* And nobody told what it returns.
LEMMA ReturnsWell ==
  ASSUME DeliveryInv, call # None, NEW out, NEW ok \in BOOLEAN, Returns(out, ok), HostsKeepFacts,
         UNCHANGED <<status, cycles, contract>>,
         run.d.type = "done" /\ ok /\ Judge(Criterion.expect, out) = "pass" => HoldsUp(Criterion, FALSE)
  PROVE  DeliveryInv'
BY EndsWell DEF Returns

\* A call that fails.
LEMMA RefusesWell ==
  ASSUME DeliveryInv, call # None, Refuses, HostsKeepFacts, UNCHANGED <<status, cycles, contract>>
  PROVE  DeliveryInv'
<1>1. Returns(NoOut, FALSE) /\ FALSE \in BOOLEAN
  BY DEF Refuses
<1> QED
  BY <1>1, ReturnsWell

\* Only a reader is asked about a criterion.
LEMMA OnlyReadersVerify ==
  ASSUME DeliveryInv, call # None, run.d.type = "done"
  PROVE  call.cap \in {"pr.check", "deployment.monitor"}
BY DEF DeliveryInv, AskInv

\* What a call that is no reader returns.
LEMMA WorkReturnsWell ==
  ASSUME DeliveryInv, call # None, call.cap \notin {"pr.check", "deployment.monitor"},
         NEW out, Returns(out, TRUE), HostsKeepFacts, UNCHANGED <<status, cycles, contract>>
  PROVE  DeliveryInv'
<1>1. run.d.type # "done"
  BY OnlyReadersVerify
<1>2. TRUE \in BOOLEAN
  OBVIOUS
<1> QED
  BY <1>1, <1>2, ReturnsWell

\* A call goes on to its next step.
LEMMA StepsOn ==
  ASSUME DeliveryInv, call # None, HostsKeepFacts, UNCHANGED <<status, cycles, run, rows, contract>>,
         NEW new, new = [x \in CallFields |-> new[x]], call' = new,
         new.cap = call.cap, new.in = call.in, new.last = call.last
  PROVE  DeliveryInv'
BY GoesOn

\* Goes(pc) is such a step.
LEMMA GoesWell ==
  ASSUME DeliveryInv, call # None, HostsKeepFacts, UNCHANGED <<status, cycles, contract>>,
         NEW pc, Goes(pc)
  PROVE  DeliveryInv'
<1>1. call' = [call EXCEPT !.pc = pc] /\ UNCHANGED <<run, rows>>
  BY DEF Goes
<1>2. call = [x \in CallFields |-> call[x]]
  BY DEF DeliveryInv, Shapes
<1>3. /\ call' = [x \in CallFields |-> call'[x]]
      /\ call'.cap = call.cap /\ call'.in = call.in /\ call'.last = call.last
  BY <1>1, <1>2 DEF CallFields
<1> QED
  BY <1>1, <1>3, GoesOn

\* asset.change and code_edit: no criterion is judged by them.
LEMMA AssetChangeKeeps ==
  ASSUME DeliveryInv, AssetChange
  PROVE  DeliveryInv'
<1>1. /\ call # None /\ call.cap = "asset.change"
      /\ UNCHANGED <<pulls, pipes, status, cycles, contract>>
  BY DEF AssetChange, In, hosts
<1>2. HostsKeepFacts
  BY <1>1, HostsStay DEF DeliveryInv
<1>3. Refuses \/ Returns([k \in {"state"} |-> Word("changed")], TRUE)
  BY DEF AssetChange
<1> QED
  BY <1>1, <1>2, <1>3, RefusesWell, WorkReturnsWell

\* A worker is borrowed, or there is none.
LEMMA AcquireKeeps ==
  ASSUME DeliveryInv, call # None, UNCHANGED hosts, Idle, NEW pc, Acquire(pc)
  PROVE  DeliveryInv'
<1>1. UNCHANGED <<pulls, pipes, status, cycles, contract>>
  BY DEF hosts, Idle
<1>2. HostsKeepFacts
  BY <1>1, HostsStay DEF DeliveryInv
<1>3. Goes(pc) \/ Refuses
  BY DEF Acquire
<1> QED
  BY <1>1, <1>2, <1>3, RefusesWell, GoesWell

LEMMA CodeEditAcquireKeeps ==
  ASSUME DeliveryInv, CodeEditAcquire
  PROVE  DeliveryInv'
<1>1. call # None /\ UNCHANGED hosts /\ Idle /\ (Refuses \/ Acquire("prompt"))
  BY DEF CodeEditAcquire, In
<1>2. UNCHANGED <<pulls, pipes, status, cycles, contract>>
  BY <1>1 DEF hosts, Idle
<1>3. HostsKeepFacts
  BY <1>2, HostsStay DEF DeliveryInv
<1> QED
  BY <1>1, <1>2, <1>3, AcquireKeeps, RefusesWell

LEMMA CodeEditReportKeeps ==
  ASSUME DeliveryInv, CodeEditReport
  PROVE  DeliveryInv'
<1>1. /\ call # None /\ call.cap = "code_edit"
      /\ UNCHANGED <<pipes, status, cycles, contract>>
  BY DEF CodeEditReport, In, Idle
<1>2. pulls' = pulls \/ pulls' = Append(pulls, NewPull)
  BY DEF CodeEditReport
<1>3. HostsKeepFacts
  BY <1>1, <1>2, HostsStay DEF DeliveryInv
<1>4. Refuses \/ \E out : Returns(out, TRUE)
  BY DEF CodeEditReport
<1>5. CASE Refuses
  BY <1>1, <1>3, <1>5, RefusesWell
<1>6. CASE \E out : Returns(out, TRUE)
  BY <1>1, <1>3, <1>6, WorkReturnsWell
<1> QED
  BY <1>4, <1>5, <1>6

\* The two readers of pull requests; a criterion is answered by pr.check.
LEMMA PRCheckKeeps ==
  ASSUME DeliveryInv, PRCheck
  PROVE  DeliveryInv'
<1>1. /\ In("pr.check", "start") /\ call # None
      /\ UNCHANGED <<pulls, pipes, status, cycles, contract>>
  BY DEF PRCheck, In, hosts, Idle
<1>2. HostsKeepFacts
  BY <1>1, HostsStay DEF DeliveryInv
<1>3. Refuses \/ (CanCheck(call.in) /\ Returns(CheckReport(pulls, Pull(pulls, call.in)), TRUE))
  BY DEF PRCheck
<1>4. CASE CanCheck(call.in) /\ Returns(CheckReport(pulls, Pull(pulls, call.in)), TRUE)
  <2> DEFINE out == CheckReport(pulls, Pull(pulls, call.in))
  <2>1. run.d.type = "done" /\ Judge(Criterion.expect, out) = "pass" => HoldsUp(Criterion, FALSE)
    BY <1>1, <1>4, PullJudged
  <2>2. Returns(out, TRUE) /\ TRUE \in BOOLEAN
    BY <1>4
  <2> HIDE DEF out
  <2> QED
    BY <1>1, <1>2, <2>1, <2>2, ReturnsWell
<1> QED
  BY <1>1, <1>2, <1>3, <1>4, RefusesWell

LEMMA ReviewIdentifyKeeps ==
  ASSUME DeliveryInv, ReviewIdentify
  PROVE  DeliveryInv'
<1>1. /\ call # None /\ UNCHANGED <<pulls, pipes, status, cycles, contract>>
  BY DEF ReviewIdentify, In, hosts, Idle
<1>2. HostsKeepFacts
  BY <1>1, HostsStay DEF DeliveryInv
<1>3. \/ Refuses
      \/ \E n : call' = [call EXCEPT !.pc = "reviews", !.pull = n, !.was = pulls[n]] /\ UNCHANGED <<run, rows>>
  BY DEF ReviewIdentify
<1>4. ASSUME NEW n, call' = [call EXCEPT !.pc = "reviews", !.pull = n, !.was = pulls[n]], UNCHANGED <<run, rows>>
      PROVE  DeliveryInv'
  <2>1. call = [x \in CallFields |-> call[x]]
    BY <1>1 DEF DeliveryInv, Shapes
  <2>2. /\ call' = [x \in CallFields |-> call'[x]]
        /\ call'.cap = call.cap /\ call'.in = call.in /\ call'.last = call.last
    BY <1>4, <2>1 DEF CallFields
  <2> QED
    BY <1>1, <1>2, <1>4, <2>2, GoesOn
<1> QED
  BY <1>1, <1>2, <1>3, <1>4, RefusesWell

LEMMA ReviewListKeeps ==
  ASSUME DeliveryInv, ReviewList
  PROVE  DeliveryInv'
<1>1. /\ call # None /\ call.cap = "pull_request.review"
      /\ UNCHANGED <<pulls, pipes, status, cycles, contract>>
  BY DEF ReviewList, In, hosts, Idle
<1>2. HostsKeepFacts
  BY <1>1, HostsStay DEF DeliveryInv
<1>3. Refuses \/ Returns(ReviewReport(call.was, call.pull, pulls[call.pull].reviews), TRUE)
  BY DEF ReviewList
<1> QED
  BY <1>1, <1>2, <1>3, RefusesWell, WorkReturnsWell

LEMMA DeployKeeps ==
  ASSUME DeliveryInv, Deploy
  PROVE  DeliveryInv'
<1>1. /\ call # None /\ call.cap = "service.deploy" /\ UNCHANGED <<pulls, status, cycles, contract>>
  BY DEF Deploy, In, Idle
<1>2. pipes' = pipes \/ pipes' = Append(pipes, Queued)
  BY DEF Deploy
<1>3. HostsKeepFacts
  BY <1>1, <1>2, HostsStay DEF DeliveryInv
<1>4. Refuses \/ Returns(DeployReport(Len(pipes) + 1), TRUE)
  BY DEF Deploy
<1> QED
  BY <1>1, <1>3, <1>4, RefusesWell, WorkReturnsWell

\* The monitor: what it answers about a pipeline it has seen or was told of.
LEMMA MonitorEnds ==
  ASSUME DeliveryInv, call # None, call.cap = "deployment.monitor", HostsKeepFacts,
         UNCHANGED <<status, cycles, contract>>, NEW told,
         NEW s, s.state = "succeeded" => told \/ Succeeded(Req.pipe), Ends(report(s, Req.pipe), TRUE, told)
  PROVE  DeliveryInv'
<1> DEFINE out == report(s, Req.pipe)
<1>1. run.d.type = "done" /\ Judge(Criterion.expect, out) = "pass" => HoldsUp(Criterion, told)
  BY PipeJudged
<1>2. Ends(out, TRUE, told) /\ TRUE \in BOOLEAN
  OBVIOUS
<1> HIDE DEF out
<1> QED
  BY <1>1, <1>2, EndsWell

LEMMA MonitorReturns ==
  ASSUME DeliveryInv, call # None, call.cap = "deployment.monitor", HostsKeepFacts,
         UNCHANGED <<status, cycles, contract>>,
         NEW s, s.state = "succeeded" => Succeeded(Req.pipe), Returns(report(s, Req.pipe), TRUE)
  PROVE  DeliveryInv'
BY MonitorEnds DEF Returns

LEMMA MonitorStartKeeps ==
  ASSUME DeliveryInv, MonitorStart
  PROVE  DeliveryInv'
<1>1. /\ call # None /\ UNCHANGED <<pulls, pipes, status, cycles, contract>>
  BY DEF MonitorStart, In, hosts, Idle
<1>2. HostsKeepFacts
  BY <1>1, HostsStay DEF DeliveryInv
<1>3. Refuses \/ \E pc : Goes(pc)
  BY DEF MonitorStart
<1> QED
  BY <1>1, <1>2, <1>3, RefusesWell, GoesWell

\* What a read of the control plane shows.
LEMMA ReadShows ==
  ASSUME ReadOk
  PROVE  /\ "state" \in DOMAIN toSnapshot(pipes[Req.pipe])
         /\ toSnapshot(pipes[Req.pipe]).state = "succeeded" => Succeeded(Req.pipe)
BY DEF ReadOk, Known, toSnapshot, NoSnapshot, Succeeded

LEMMA AfterKeeps ==
  ASSUME DeliveryInv, call # None, call.cap = "deployment.monitor", HostsKeepFacts,
         UNCHANGED <<status, cycles, contract>>,
         NEW c, c = [x \in CallFields |-> c[x]], c.cap = call.cap, c.in = call.in,
         "state" \in DOMAIN c.last, c.last.state = "succeeded" => Succeeded(Req.pipe),
         NEW settled, After(c, settled)
  PROVE  DeliveryInv'
<1>1. CASE call' = c /\ UNCHANGED <<run, rows>>
  BY <1>1, GoesOn
<1>2. CASE call' = [c EXCEPT !.pc = "base"] /\ UNCHANGED <<run, rows>>
  <2>1. /\ call' = [x \in CallFields |-> call'[x]]
        /\ call'.cap = call.cap /\ call'.in = call.in /\ call'.last = c.last
    BY <1>2 DEF CallFields
  <2> QED
    BY <1>2, <2>1, GoesOn
<1>3. CASE Returns(NoOut, FALSE)
  BY <1>3, RefusesWell DEF Refuses
<1>4. CASE Returns(report(c.last, Req.pipe), TRUE)
  BY <1>4, MonitorReturns
<1> QED
  BY <1>1, <1>2, <1>3, <1>4 DEF After

LEMMA MonitorPollKeeps ==
  ASSUME DeliveryInv, MonitorPoll
  PROVE  DeliveryInv'
<1>1. /\ call # None /\ call.cap = "deployment.monitor"
      /\ UNCHANGED <<pulls, pipes, status, cycles, contract>>
  BY DEF MonitorPoll, In, hosts, Idle
<1>2. HostsKeepFacts
  BY <1>1, HostsStay DEF DeliveryInv
<1>3. call = [x \in CallFields |-> call[x]]
  BY <1>1 DEF DeliveryInv, Shapes
<1>4. ASSUME NEW trail, NEW seen, NEW settled, NEW c, ReadOk,
             c = [call EXCEPT !.polls = @ + 1, !.failed = FALSE, !.last = toSnapshot(pipes[Req.pipe]),
                              !.trail = trail, !.seen = seen],
             After(c, settled)
      PROVE  DeliveryInv'
  <2>1. /\ c = [x \in CallFields |-> c[x]] /\ c.cap = call.cap /\ c.in = call.in
        /\ c.last = toSnapshot(pipes[Req.pipe])
    BY <1>3, <1>4 DEF CallFields
  <2>2. "state" \in DOMAIN c.last /\ (c.last.state = "succeeded" => Succeeded(Req.pipe))
    BY <1>4, <2>1, ReadShows
  <2> QED
    BY <1>1, <1>2, <1>4, <2>1, <2>2, AfterKeeps
<1>5. ASSUME NEW c, c = [call EXCEPT !.polls = @ + 1, !.failed = TRUE], After(c, FALSE)
      PROVE  DeliveryInv'
  <2>1. c = [x \in CallFields |-> c[x]] /\ c.cap = call.cap /\ c.in = call.in /\ c.last = call.last
    BY <1>3, <1>5 DEF CallFields
  <2>2. "state" \in DOMAIN c.last /\ (c.last.state = "succeeded" => Succeeded(Req.pipe))
    BY <1>1, <2>1 DEF DeliveryInv, SeenInv
  <2> QED
    BY <1>1, <1>2, <1>5, <2>1, <2>2, AfterKeeps
<1> DEFINE s == toSnapshot(pipes[Req.pipe])
           on == terminal(s.state) \/ ~Req.watch
           read == [call EXCEPT !.polls = @ + 1, !.failed = FALSE, !.last = s,
                                !.trail = IF on THEN @ ELSE Observe(@, s),
                                !.seen = IF on THEN @ ELSE Append(@, ChangeKey(s))]
<1>6. \/ ReadOk /\ After(read, terminal(s.state))
      \/ After([call EXCEPT !.polls = @ + 1, !.failed = TRUE], FALSE)
  BY DEF MonitorPoll
<1>7. CASE ReadOk /\ After(read, terminal(s.state))
  <2>1. read = [call EXCEPT !.polls = @ + 1, !.failed = FALSE, !.last = toSnapshot(pipes[Req.pipe]),
                            !.trail = IF on THEN call.trail ELSE Observe(call.trail, s),
                            !.seen = IF on THEN call.seen ELSE Append(call.seen, ChangeKey(s))]
    BY <1>3 DEF CallFields
  <2> HIDE DEF s, on, read
  <2> QED
    BY <1>4, <1>7, <2>1
<1> HIDE DEF read, s, on
<1> QED
  BY <1>5, <1>6, <1>7

LEMMA MonitorBaseKeeps ==
  ASSUME DeliveryInv, MonitorBase
  PROVE  DeliveryInv'
<1>1. /\ call # None /\ UNCHANGED <<pulls, pipes, status, cycles, contract, run, rows>>
  BY DEF MonitorBase, In, hosts, Idle
<1>2. HostsKeepFacts
  BY <1>1, HostsStay DEF DeliveryInv
<1>3. call = [x \in CallFields |-> call[x]]
  BY <1>1 DEF DeliveryInv, Shapes
<1>4. PICK raw, last : /\ call' = [call EXCEPT !.pc = "acquire", !.raw = raw, !.last = last]
                       /\ "state" \in DOMAIN last /\ (last.state = "succeeded" => Succeeded(Req.pipe))
  <2>1. CASE ReadOk /\ call' = [call EXCEPT !.pc = "acquire", !.raw = TRUE, !.last = toSnapshot(pipes[Req.pipe])]
    BY <2>1, ReadShows
  <2>2. CASE call' = [call EXCEPT !.pc = "acquire", !.raw = FALSE, !.last = NoSnapshot]
    <3>1. NoSnapshot.state # "succeeded" /\ "state" \in DOMAIN NoSnapshot
      BY DEF NoSnapshot
    <3> QED
      BY <2>2, <3>1
  <2> QED
    BY <2>1, <2>2 DEF MonitorBase
<1>5. /\ call' = [x \in CallFields |-> call'[x]]
      /\ call'.cap = call.cap /\ call'.in = call.in /\ call'.last = last
  BY <1>3, <1>4 DEF CallFields
<1> QED
  BY <1>1, <1>2, <1>4, <1>5, GoesOn

LEMMA MonitorAcquireKeeps ==
  ASSUME DeliveryInv, MonitorAcquire
  PROVE  DeliveryInv'
<1>1. call # None
  BY DEF MonitorAcquire, In
<1> QED
  BY <1>1, AcquireKeeps DEF MonitorAcquire

\* A success in the answer was read, or the agent named it.
LEMMA MonitorAnswerKeeps ==
  ASSUME DeliveryInv, MonitorAnswer
  PROVE  DeliveryInv'
<1>1. /\ call # None /\ call.cap = "deployment.monitor"
      /\ UNCHANGED <<pulls, pipes, status, cycles, contract>>
  BY DEF MonitorAnswer, In, hosts, Idle
<1>2. HostsKeepFacts
  BY <1>1, HostsStay DEF DeliveryInv
<1>3. "state" \in DOMAIN call.last /\ (call.last.state = "succeeded" => Succeeded(Req.pipe))
  BY <1>1 DEF DeliveryInv, SeenInv
<1>4. ASSUME NEW a \in AgentAnswers, NEW told, told = (normalizeState(a.state) # "unknown"),
             Ends(report(applyTo(a, call.last), Req.pipe), TRUE, told)
      PROVE  DeliveryInv'
  <2> DEFINE s == applyTo(a, call.last)
  <2>1. s.state = call.last.state \/ normalizeState(a.state) # "unknown"
    BY <1>3 DEF applyTo
  <2>2. s.state = "succeeded" => told \/ Succeeded(Req.pipe)
    BY <1>3, <1>4, <2>1
  <2> HIDE DEF s
  <2> QED
    BY <1>1, <1>2, <1>4, <2>2, MonitorEnds DEF s
<1>5. CASE Returns(report(call.last, Req.pipe), TRUE)
  BY <1>1, <1>2, <1>3, <1>5, MonitorReturns
<1>6. CASE Refuses
  BY <1>1, <1>2, <1>6, RefusesWell
<1>7. \/ \E a \in AgentAnswers :
           Ends(report(applyTo(a, call.last), Req.pipe), TRUE, normalizeState(a.state) # "unknown")
      \/ Returns(report(call.last, Req.pipe), TRUE) \/ Refuses
  BY DEF MonitorAnswer
<1> QED
  BY <1>4, <1>5, <1>6, <1>7

-----------------------------------------------------------------------------
(* Theorems *)

LEMMA InitDelivery == Init => DeliveryInv
<1> SUFFICES ASSUME Init PROVE DeliveryInv
  OBVIOUS
<1>1. /\ pulls = <<>> /\ pipes = <<>> /\ rows = <<>> /\ contract = <<>>
      /\ run = None /\ call = None /\ status = "running"
  BY DEF Init
<1> QED
  BY <1>1, EmptyIs DEF DeliveryInv, Shapes, GateInv, PlanInv, BoundCall, SeenInv, AskInv, VerdictInv,
                       BoundIsReported, LineageHolds

LEMMA NextDelivery == DeliveryInv /\ [Next]_vars => DeliveryInv'
<1> SUFFICES ASSUME DeliveryInv, [Next]_vars PROVE DeliveryInv'
  OBVIOUS
<1>1. CASE UNCHANGED vars
  <2>1. UNCHANGED <<pulls, pipes, status, cycles, run, call, rows, contract>>
    BY <1>1 DEF vars
  <2>2. HostsKeepFacts
    BY <2>1, HostsStay DEF DeliveryInv
  <2> QED
    BY <2>1, <2>2, GoesOn
<1>2. CASE PullMoves
  BY <1>2, PullMovesKeeps
<1>3. CASE PipeMoves
  BY <1>3, PipeMovesKeeps
<1>4. CASE \E a \in Answers : Decide(a)
  BY <1>4, DecideKeeps
<1>5. CASE StepStart \/ VerifyRead \/ VerifyStart \/ Conclude
  BY <1>5, StepStartKeeps, VerifyReadKeeps, VerifyStartKeeps, ConcludeKeeps
<1>6. CASE Calls
  BY <1>6, AssetChangeKeeps, CodeEditAcquireKeeps, CodeEditReportKeeps, PRCheckKeeps,
     ReviewIdentifyKeeps, ReviewListKeeps, DeployKeeps, MonitorStartKeeps, MonitorPollKeeps,
     MonitorBaseKeeps, MonitorAcquireKeeps, MonitorAnswerKeeps
  DEF Calls
<1>7. CASE Rests
  BY <1>1, <1>7 DEF Rests
<1> QED
  BY <1>1, <1>2, <1>3, <1>4, <1>5, <1>6, <1>7 DEF Next, Executes

\* The invariant of the plans, the calls and the verdicts of one task.
THEOREM DeliveryInvHolds == Spec => []DeliveryInv
BY InitDelivery, NextDelivery, PTL DEF Spec

\* What a step is called with for an input bound to another step is what an
\* earlier step of the same plan reported (runtime.go: resolveStepInputs).
THEOREM BoundIsReportedHolds == Spec => []BoundIsReported
<1>1. DeliveryInv => BoundIsReported
  BY DEF DeliveryInv
<1> QED
  BY <1>1, DeliveryInvHolds, PTL

\* The lineage check before a plan is complete: no step that runs finds that the
\* step it reads is missing, or a source it cannot read (plan_lineage.go).
THEOREM LineageIsComplete == Spec => []LineageHolds
<1>1. DeliveryInv => LineageHolds
  BY DEF DeliveryInv
<1> QED
  BY <1>1, DeliveryInvHolds, PTL

\* Only the end of an execution moves the task's status.
LEMMA OnlyConcludeCompletes ==
  ASSUME [Next]_vars, ~Conclude
  PROVE  status' = status
<1>1. CASE PullMoves \/ PipeMoves \/ Rests \/ UNCHANGED vars
  BY <1>1 DEF PullMoves, PipeMoves, Rests, vars
<1>2. CASE (\E a \in Answers : Decide(a)) \/ StepStart \/ VerifyRead \/ VerifyStart
  BY <1>2 DEF Decide, StepStart, VerifyRead, VerifyStart
<1>3. CASE Calls
  BY <1>3 DEF Calls, AssetChange, CodeEditAcquire, CodeEditReport, PRCheck, ReviewIdentify, ReviewList,
       Deploy, MonitorStart, MonitorPoll, MonitorBase, MonitorAcquire, MonitorAnswer, Idle
<1> QED
  BY <1>1, <1>2, <1>3 DEF Next, Executes

\* When a task becomes completed, what its criteria say of merges is true, and
\* what they say of deployments is true or what the monitoring agent answered
\* (verification.go, agent_observer.go).
THEOREM CompletedHoldsAlways == Spec => CompletedHolds
<1>1. DeliveryInv /\ [Next]_vars =>
        [status # "completed" /\ status' = "completed" =>
           \A i \in DOMAIN contract : HoldsUp(contract[i], run.verdicts[i].told)]_vars
  BY OnlyConcludeCompletes, CompletesOnPass
<1> QED
  BY <1>1, DeliveryInvHolds, PTL DEF Spec, CompletedHolds

-----------------------------------------------------------------------------
\* The context of a run: resolvers over the registries' shared caches.

\* The fields of a build and of an item being resolved.
BuildFields == {"ref", "queue", "pos", "at", "seen", "fields", "sections"}
FieldNames == {"local", "project", "org", "dept", "services", "task"}
Stages == {"take", "project", "organization", "service", "task", "close", "done"}

\* A cached row is the row of the id it is kept under; the project list ages as
\* a whole.
CacheShape(g, c) ==
  /\ c = [x \in {"at", "ok", "data"} |-> c[x]] /\ c.at \in Nat /\ c.ok \in BOOLEAN
  /\ \A id \in DOMAIN c.data : c.data[id].row.of = id
  /\ g = "project" => \A id \in DOMAIN c.data : c.data[id].read = c.at

\* What belongs together in the fields of one item.
Consistent(f, id) ==
  /\ f.project # NoValue => f.project.row.of = id /\ f.org = f.project.row.v /\ f.project.age < TTL
  /\ f.dept # NoValue => f.dept.row.of = f.org
  /\ f.services # NoValue => f.services.row.of = OrganizationId(f)

\* A build, at every stage between two calls of the registries.
BuildInv(b) ==
  build[b] # NoValue =>
    /\ build[b] = [x \in BuildFields |-> build[b][x]]
    /\ F(b) = [x \in FieldNames |-> F(b)[x]]
    /\ build[b].at \in Stages
    /\ build[b].at \notin {"take", "done"} => Consistent(F(b), Item(b).id)
    /\ build[b].at = "project" => F(b).dept = NoValue
    /\ build[b].at \in {"project", "organization"} => F(b).services = NoValue
    /\ \A t \in DOMAIN build[b].sections : Consistent(build[b].sections[t].fields, build[b].sections[t].id)

\* The caches of all registries.
CacheInv == /\ clock \in Nat \ {0} /\ cache = [g \in Registries |-> cache[g]]
            /\ \A g \in Registries : CacheShape(g, cache[g])

\* The inductive invariant.
ContextInv ==
  /\ CacheInv
  /\ build = [b \in Builds |-> build[b]] /\ \A b \in Builds : BuildInv(b)

-----------------------------------------------------------------------------
\* A read fills a cache with rows of the ids they are kept under.
LEMMA LoadedRows ==
  ASSUME CacheInv, NEW g \in Registries, NEW id
  PROVE  /\ \A k \in DOMAIN Loaded(g, id, cache[g].data) : Loaded(g, id, cache[g].data)[k].row.of = k
         /\ g = "project" => \A k \in DOMAIN Loaded(g, id, cache[g].data) :
                               Loaded(g, id, cache[g].data)[k].read = clock
<1> DEFINE held == cache[g].data
           d == Loaded(g, id, held)
<1> SUFFICES /\ \A k \in DOMAIN d : d[k].row.of = k
             /\ g = "project" => \A k \in DOMAIN d : d[k].read = clock
  OBVIOUS
<1>1. \A k : Row(g, k).of = k BY DEF Row, Registries
<1>2. CASE g = "project"
  <2>1. d = [p \in Projects |-> [row |-> Row(g, p), read |-> clock]] BY <1>2 DEF Loaded
  <2> HIDE DEF d
  <2>2. QED BY <1>1, <2>1
<1>3. CASE g = "task" /\ RegistryTasks[id] = NoValue
  <2>1. d = held /\ \A k \in DOMAIN held : held[k].row.of = k
    BY <1>3 DEF Loaded, CacheInv, CacheShape
  <2> HIDE DEF d, held
  <2>2. QED BY <1>3, <2>1
<1>4. CASE g # "project" /\ ~(g = "task" /\ RegistryTasks[id] = NoValue)
  <2> DEFINE new == [row |-> Row(g, id), read |-> clock]
  <2>1. d = [k \in DOMAIN held \cup {id} |-> IF k = id THEN new ELSE held[k]]
    BY <1>4 DEF Loaded, With
  <2>2. new.row.of = id BY <1>1
  <2>3. \A k \in DOMAIN held : held[k].row.of = k BY DEF CacheInv, CacheShape
  <2> HIDE DEF d, new, held
  <2>4. QED BY <1>4, <2>1, <2>2, <2>3
<1>5. QED BY <1>2, <1>3, <1>4

\* What one read through the cache gives, fresh, read anew or failing.
LEMMA OutcomeIsOwn ==
  ASSUME CacheInv, NEW g \in Registries, NEW id, NEW o \in Outcomes(g, id)
  PROVE  /\ CacheShape(g, o.cache)
         /\ Answer(o.cache, id) # NoValue =>
              /\ Answer(o.cache, id).row.of = id
              /\ g = "project" => Answer(o.cache, id).age < TTL
<1> DEFINE d == Loaded(g, id, cache[g].data)
<1>1. clock \in Nat /\ CacheShape(g, cache[g]) /\ TTL \in Nat \ {0}
  BY ContextAssumption DEF CacheInv
<1>2. CASE fresh(cache[g])
  <2>1. o.cache = cache[g] BY <1>2 DEF Outcomes
  <2>2. cache[g].ok => clock - cache[g].at < TTL BY <1>1, <1>2 DEF fresh
  <2>3. QED BY <1>1, <2>1, <2>2 DEF Answer, CacheShape
<1>3. CASE ~fresh(cache[g]) /\ o = [cache |-> [at |-> clock, ok |-> TRUE, data |-> d], err |-> FALSE]
  <2>1. /\ \A k \in DOMAIN d : d[k].row.of = k
        /\ g = "project" => \A k \in DOMAIN d : d[k].read = clock
    BY LoadedRows
  <2> HIDE DEF d
  <2>2. o.cache = [at |-> clock, ok |-> TRUE, data |-> d] BY <1>3
  <2>3. o.cache.data = d /\ o.cache.at = clock /\ o.cache.ok BY <2>2
  <2>4. CacheShape(g, o.cache) BY <1>1, <2>1, <2>2 DEF CacheShape
  <2>5. Answer(o.cache, id) # NoValue => id \in DOMAIN d
        /\ Answer(o.cache, id) = [row |-> d[id].row, age |-> clock - d[id].read]
    BY <2>3 DEF Answer
  <2>6. QED BY <1>1, <2>1, <2>4, <2>5
<1>4. CASE o = [cache |-> [at |-> clock, ok |-> FALSE, data |-> NoData], err |-> TRUE]
  <2>1. o.cache = [at |-> clock, ok |-> FALSE, data |-> NoData] BY <1>4
  <2>2. DOMAIN NoData = {} BY DEF NoData
  <2>3. Answer(o.cache, id) = NoValue BY <2>1 DEF Answer
  <2>4. CacheShape(g, o.cache) BY <1>1, <2>1, <2>2 DEF CacheShape
  <2>5. QED BY <2>3, <2>4
<1>5. QED
  <2>1. ~fresh(cache[g]) => \/ o = [cache |-> [at |-> clock, ok |-> TRUE, data |-> d], err |-> FALSE]
                            \/ o = [cache |-> [at |-> clock, ok |-> FALSE, data |-> NoData], err |-> TRUE]
    BY DEF Outcomes
  <2>2. QED BY <1>2, <1>3, <1>4, <2>1

\* One build moves and the others stand.
LEMMA OthersStand ==
  ASSUME ContextInv, CacheInv', NEW b \in Builds, NEW B, build' = [build EXCEPT ![b] = B], BuildInv(b)'
  PROVE  ContextInv'
<1>1. build' = [c \in Builds |-> build'[c]] BY DEF ContextInv
<1>2. ASSUME NEW c \in Builds PROVE BuildInv(c)'
  <2>1. CASE c = b BY <2>1
  <2>2. CASE c # b
    <3>1. build'[c] = build[c] BY <2>2 DEF ContextInv
    <3>2. BuildInv(c) BY DEF ContextInv
    <3>3. QED BY <3>1, <3>2 DEF BuildInv, F, Item
  <2>3. QED BY <2>1, <2>2
<1>3. QED BY <1>1, <1>2 DEF ContextInv

\* A build begins with nothing resolved.
LEMMA BeginKeeps == ASSUME ContextInv, NEW b \in Builds, Begin(b) PROVE ContextInv'
<1>1. PICK ref \in Refs : build' = [build EXCEPT ![b] =
        [ref |-> ref, queue |-> namedRefs(ref), pos |-> 1, at |-> "take", seen |-> {},
         fields |-> NoFields, sections |-> NoData]]
  BY DEF Begin
<1>2. CacheInv' BY DEF Begin, ContextInv, CacheInv
<1> DEFINE B == [ref |-> ref, queue |-> namedRefs(ref), pos |-> 1, at |-> "take", seen |-> {},
                 fields |-> NoFields, sections |-> NoData]
<1>3. build'[b] = B BY <1>1 DEF ContextInv
<1>4. DOMAIN NoData = {} BY DEF NoData
<1>5. NoFields = [x \in FieldNames |-> NoFields[x]] BY DEF NoFields, FieldNames
<1>6. B = [x \in BuildFields |-> B[x]] BY DEF BuildFields
<1>7. B.at = "take" /\ B.fields = NoFields /\ B.sections = NoData OBVIOUS
<1> HIDE DEF B
<1>8. BuildInv(b)' BY <1>3, <1>4, <1>5, <1>6, <1>7 DEF BuildInv, F, Stages
<1>9. QED BY <1>1, <1>2, <1>8, OthersStand DEF B

\* The next item of the queue starts with fields of its own.
LEMMA TakeKeeps == ASSUME ContextInv, NEW b \in Builds, Take(b) PROVE ContextInv'
<1> DEFINE B == build[b]
           N == IF B.pos > Len(B.queue) THEN [B EXCEPT !.at = "done"]
                ELSE IF Key(Item(b)) \in B.seen THEN [B EXCEPT !.pos = @ + 1]
                ELSE IF Cardinality(DOMAIN B.sections) >= maxContextRefs THEN [B EXCEPT !.at = "done"]
                ELSE [B EXCEPT !.seen = @ \cup {Key(Item(b))}, !.fields = OwnFields(Item(b)),
                               !.at = Asked(Item(b))]
<1>1. build' = [build EXCEPT ![b] = N] BY DEF Take
<1>2. CacheInv' BY DEF Take, ContextInv, CacheInv
<1>3. B # NoValue /\ B.at = "take" BY DEF Take, Stands
<1>4. build'[b] = N BY <1>1 DEF ContextInv
<1>5. /\ B = [x \in BuildFields |-> B[x]] /\ B.fields = [x \in FieldNames |-> B.fields[x]]
      /\ \A t \in DOMAIN B.sections : Consistent(B.sections[t].fields, B.sections[t].id)
  BY <1>3 DEF ContextInv, BuildInv, F
<1>6. CASE N.at \in {"take", "done"} /\ N.fields = B.fields
  <2>1. N = [x \in BuildFields |-> N[x]] /\ N.sections = B.sections BY <1>5 DEF BuildFields
  <2> HIDE DEF N
  <2>2. BuildInv(b)' BY <1>4, <1>5, <1>6, <2>1 DEF BuildInv, F, Stages
  <2>3. QED BY <1>1, <1>2, <2>2, OthersStand
<1>7. CASE N = [B EXCEPT !.seen = @ \cup {Key(Item(b))}, !.fields = OwnFields(Item(b)),
                         !.at = Asked(Item(b))]
  <2> DEFINE own == OwnFields(Item(b))
  <2>1. own = [x \in FieldNames |-> own[x]] /\ own.project = NoValue /\ own.dept = NoValue /\ own.services = NoValue
    BY DEF OwnFields, NoFields, FieldNames
  <2>2. N = [x \in BuildFields |-> N[x]] /\ N.sections = B.sections /\ N.fields = own /\ N.at = Asked(Item(b))
    BY <1>5, <1>7 DEF BuildFields
  <2>3. Asked(Item(b)) \in Stages BY DEF Asked, Stages
  <2> HIDE DEF N, own
  <2>4. \A id : Consistent(own, id) BY <2>1 DEF Consistent
  <2>5. BuildInv(b)' BY <1>4, <1>5, <2>1, <2>2, <2>3, <2>4 DEF BuildInv, F
  <2>6. QED BY <1>1, <1>2, <2>5, OthersStand
<1>8. QED
  <2>1. \/ N = [B EXCEPT !.at = "done"] \/ N = [B EXCEPT !.pos = @ + 1]
        \/ N = [B EXCEPT !.seen = @ \cup {Key(Item(b))}, !.fields = OwnFields(Item(b)), !.at = Asked(Item(b))]
    OBVIOUS
  <2>2. N = [B EXCEPT !.at = "done"] => N.at = "done" /\ N.fields = B.fields
    BY <1>5 DEF BuildFields
  <2>3. N = [B EXCEPT !.pos = @ + 1] => N.at = "take" /\ N.fields = B.fields
    BY <1>3, <1>5 DEF BuildFields
  <2> HIDE DEF N
  <2>4. QED BY <1>6, <1>7, <2>1, <2>2, <2>3

\* An answer about the id that was asked keeps the fields about one world.
LEMMA MergeKeeps ==
  ASSUME NEW b, build[b] # NoValue, BuildInv(b), NEW g \in Registries, build[b].at = g, NEW a, NEW id,
         g = "project" => id = Item(b).id /\ a.age < TTL,
         g = "organization" => id = F(b).org, g = "service" => id = OrganizationId(F(b)), a.row.of = id
  PROVE  /\ Consistent(Merge(F(b), g, a), Item(b).id)
         /\ Merge(F(b), g, a) = [x \in FieldNames |-> Merge(F(b), g, a)[x]]
<1> DEFINE f == F(b)
<1>1. f = [x \in FieldNames |-> f[x]] BY DEF BuildInv
<1>2. /\ Consistent(f, Item(b).id) /\ (g = "project" => f.dept = NoValue)
      /\ g \in {"project", "organization"} => f.services = NoValue
  BY DEF BuildInv, Registries
<1>3. CASE g = "project"
  <2> DEFINE n == [f EXCEPT !.project = a, !.org = a.row.v]
  <2>1. Merge(f, g, a) = n BY <1>3 DEF Merge
  <2>2. n = [x \in FieldNames |-> n[x]] /\ n.project = a /\ n.org = a.row.v
        /\ n.dept = NoValue /\ n.services = NoValue
    BY <1>1, <1>2, <1>3 DEF FieldNames
  <2> HIDE DEF n, f
  <2>3. Consistent(n, Item(b).id) BY <1>3, <2>2 DEF Consistent
  <2>4. QED BY <2>1, <2>2, <2>3 DEF f
<1>4. CASE g = "organization"
  <2> DEFINE n == [f EXCEPT !.dept = a]
  <2>1. Merge(f, g, a) = n BY <1>4 DEF Merge
  <2>2. n = [x \in FieldNames |-> n[x]] /\ n.project = f.project /\ n.org = f.org
        /\ n.dept = a /\ n.services = NoValue
    BY <1>1, <1>2, <1>4 DEF FieldNames
  <2>3. a.row.of = f.org BY <1>4
  <2> HIDE DEF n, f
  <2>4. Consistent(n, Item(b).id) BY <1>2, <2>2, <2>3 DEF Consistent
  <2>5. QED BY <2>1, <2>2, <2>4 DEF f
<1>5. CASE g = "service"
  <2> DEFINE n == [f EXCEPT !.services = a]
  <2>1. Merge(f, g, a) = n \/ Merge(f, g, a) = f BY <1>5 DEF Merge
  <2>2. n = [x \in FieldNames |-> n[x]] /\ n.project = f.project /\ n.org = f.org
        /\ n.dept = f.dept /\ n.services = a
    BY <1>1 DEF FieldNames
  <2>3. a.row.of = OrganizationId(f) /\ OrganizationId(n) = OrganizationId(f)
    BY <1>5, <2>2 DEF OrganizationId
  <2> HIDE DEF n, f
  <2>4. Consistent(n, Item(b).id) BY <1>2, <2>2, <2>3 DEF Consistent
  <2>5. QED BY <1>1, <1>2, <2>1, <2>2, <2>4 DEF f
<1>6. CASE g = "task"
  <2> DEFINE n == [f EXCEPT !.task = a]
  <2>1. Merge(f, g, a) = n BY <1>6 DEF Merge
  <2>2. n = [x \in FieldNames |-> n[x]] /\ n.project = f.project /\ n.org = f.org
        /\ n.dept = f.dept /\ n.services = f.services
    BY <1>1 DEF FieldNames
  <2> HIDE DEF n, f
  <2>3. Consistent(n, Item(b).id) BY <1>2, <2>2 DEF Consistent, OrganizationId
  <2>4. QED BY <2>1, <2>2, <2>3 DEF f
<1>7. QED BY <1>3, <1>4, <1>5, <1>6 DEF Registries

\* A read through a cache, answered, missed or failing, adds what belongs to
\* the item.
LEMMA ResolveKeeps ==
  ASSUME ContextInv, NEW b \in Builds, NEW g \in Registries, NEW id, Resolve(b, g, id),
         g = "project" => id = Item(b).id, g = "organization" => id = F(b).org,
         g = "service" => id = OrganizationId(F(b))
  PROVE  ContextInv'
<1>1. PICK o \in Outcomes(g, id) :
        LET a == Answer(o.cache, id)
            fields == IF o.err \/ a = NoValue THEN F(b) ELSE Merge(F(b), g, a)
        IN /\ cache' = [cache EXCEPT ![g] = o.cache]
           /\ misses' = IF o.err THEN misses + 1 ELSE misses
           /\ build' = [build EXCEPT ![b].fields = fields, ![b].at = Afterwards(fields, g)]
  BY DEF Resolve
<1> DEFINE a == Answer(o.cache, id)
           fields == IF o.err \/ a = NoValue THEN F(b) ELSE Merge(F(b), g, a)
           N == [build[b] EXCEPT !.fields = fields, !.at = Afterwards(fields, g)]
<1>2. build[b] # NoValue /\ build[b].at = g /\ BuildInv(b) BY DEF Resolve, Stands, ContextInv
<1>3. CacheShape(g, o.cache) /\ (a # NoValue => a.row.of = id /\ (g = "project" => a.age < TTL))
  BY OutcomeIsOwn DEF ContextInv
<1>4. CacheInv'
  <2>1. cache' = [cache EXCEPT ![g] = o.cache] /\ clock' = clock BY <1>1 DEF Resolve
  <2>2. QED BY <1>3, <2>1 DEF ContextInv, CacheInv
<1>5. build' = [build EXCEPT ![b] = N] BY <1>1 DEF ContextInv
<1>6. build'[b] = N BY <1>5 DEF ContextInv
<1>7. /\ Consistent(fields, Item(b).id) /\ fields = [x \in FieldNames |-> fields[x]]
      /\ g = "project" => fields.services = NoValue
  <2>1. CASE o.err \/ a = NoValue BY <1>2, <2>1 DEF BuildInv, Registries
  <2>2. CASE ~(o.err \/ a = NoValue)
    <3>1. fields = Merge(F(b), g, a) BY <2>2
    <3> HIDE DEF a, fields
    <3>2. Consistent(Merge(F(b), g, a), Item(b).id)
          /\ Merge(F(b), g, a) = [x \in FieldNames |-> Merge(F(b), g, a)[x]]
      BY <1>2, <1>3, <2>2, MergeKeeps
    <3>3. ASSUME g = "project" PROVE Merge(F(b), g, a).services = NoValue
      <4>1. F(b) = [x \in FieldNames |-> F(b)[x]] /\ F(b).services = NoValue
        BY <1>2, <3>3 DEF BuildInv
      <4>2. QED BY <3>3, <4>1 DEF Merge, FieldNames
    <3>4. QED BY <3>1, <3>2, <3>3
  <2>3. QED BY <2>1, <2>2
<1> HIDE DEF fields
<1>8. /\ Afterwards(fields, g) \in Stages /\ Afterwards(fields, g) # "project"
      /\ Afterwards(fields, g) = "organization" => fields.services = NoValue
  BY <1>7 DEF Afterwards, Stages
<1>9. /\ build[b] = [x \in BuildFields |-> build[b][x]]
      /\ \A t \in DOMAIN build[b].sections :
           Consistent(build[b].sections[t].fields, build[b].sections[t].id)
  BY <1>2 DEF BuildInv
<1>10. /\ N = [x \in BuildFields |-> N[x]] /\ N.sections = build[b].sections /\ N.fields = fields
       /\ N.at = Afterwards(fields, g) /\ N.queue = build[b].queue /\ N.pos = build[b].pos
  BY <1>9 DEF BuildFields
<1> HIDE DEF N
<1>11. Item(b)' = Item(b) BY <1>6, <1>10 DEF Item
<1>12. BuildInv(b)' BY <1>6, <1>7, <1>8, <1>9, <1>10, <1>11 DEF BuildInv, F
<1>13. QED BY <1>4, <1>5, <1>12, OthersStand

\* A section is the fields of its item.
LEMMA CloseKeeps == ASSUME ContextInv, NEW b \in Builds, Close(b) PROVE ContextInv'
<1> DEFINE B == build[b]
           section == [id |-> Item(b).id, fields |-> B.fields]
<1>1. PICK extra : build' = [build EXCEPT ![b] =
        [B EXCEPT !.sections = With(@, Item(b).type, section), !.queue = @ \o extra,
                  !.pos = @ + 1, !.at = "take"]]
  BY DEF Close
<1> DEFINE N == [B EXCEPT !.sections = With(@, Item(b).type, section), !.queue = @ \o extra,
                          !.pos = @ + 1, !.at = "take"]
<1>2. CacheInv' BY DEF Close, ContextInv, CacheInv
<1>3. B # NoValue /\ B.at = "close" /\ BuildInv(b) BY DEF Close, Stands, ContextInv
<1>4. build'[b] = N BY <1>1 DEF ContextInv
<1>5. /\ B = [x \in BuildFields |-> B[x]] /\ B.fields = [x \in FieldNames |-> B.fields[x]]
      /\ Consistent(B.fields, Item(b).id)
      /\ \A t \in DOMAIN B.sections : Consistent(B.sections[t].fields, B.sections[t].id)
  BY <1>3 DEF BuildInv, F
<1>6. /\ N = [x \in BuildFields |-> N[x]] /\ N.fields = B.fields /\ N.at = "take"
      /\ N.sections = With(B.sections, Item(b).type, section)
  BY <1>5 DEF BuildFields
<1>7. section.id = Item(b).id /\ section.fields = B.fields OBVIOUS
<1> DEFINE S == With(B.sections, Item(b).type, section)
<1> HIDE DEF N, section
<1>8. S = [t \in DOMAIN B.sections \cup {Item(b).type} |-> IF t = Item(b).type THEN section ELSE B.sections[t]]
  BY DEF With
<1> HIDE DEF S
<1>9. \A t \in DOMAIN S : Consistent(S[t].fields, S[t].id) BY <1>5, <1>7, <1>8
<1>10. BuildInv(b)' BY <1>4, <1>5, <1>6, <1>9 DEF BuildInv, F, Stages, S
<1>11. QED BY <1>1, <1>2, <1>10, OthersStand DEF N

\* A rendered build is forgotten.
LEMMA RenderedKeeps == ASSUME ContextInv, NEW b \in Builds, Rendered(b) PROVE ContextInv'
<1>1. CacheInv' BY DEF Rendered, ContextInv, CacheInv
<1>2. build' = [build EXCEPT ![b] = NoValue] BY DEF Rendered
<1>3. build'[b] = NoValue BY <1>2 DEF ContextInv
<1>4. BuildInv(b)' BY <1>3 DEF BuildInv
<1>5. QED BY <1>1, <1>2, <1>4, OthersStand

\* Empty caches and no build satisfy the invariant.
LEMMA ContextInitially == ContextInit => ContextInv
<1> SUFFICES ASSUME ContextInit PROVE ContextInv OBVIOUS
<1>1. \A g \in Registries : CacheShape(g, cache[g])
  <2> SUFFICES ASSUME NEW g \in Registries PROVE CacheShape(g, cache[g]) OBVIOUS
  <2>1. cache[g] = [at |-> 0, ok |-> FALSE, data |-> NoData] BY DEF ContextInit
  <2>2. DOMAIN NoData = {} BY DEF NoData
  <2>3. QED BY <2>1, <2>2 DEF CacheShape
<1>2. CacheInv
  <2>1. clock \in Nat \ {0} BY DEF ContextInit
  <2>2. cache = [g \in Registries |-> cache[g]] BY DEF ContextInit
  <2>3. QED BY <1>1, <2>1, <2>2 DEF CacheInv
<1>3. QED BY <1>2 DEF ContextInit, ContextInv, BuildInv

\* Every step keeps the invariant.
LEMMA ContextStep == ContextInv /\ [ContextNext]_contextVars => ContextInv'
<1> SUFFICES ASSUME ContextInv, [ContextNext]_contextVars PROVE ContextInv' OBVIOUS
<1>1. CASE ProjectMoves
  BY <1>1 DEF ProjectMoves, ContextInv, CacheInv, BuildInv, F, Item
<1>2. CASE Tick
  <2>1. UNCHANGED <<cache, build>> /\ clock' \in Nat \ {0} BY <1>2 DEF Tick, ContextInv, CacheInv
  <2>2. QED BY <2>1 DEF ContextInv, CacheInv, BuildInv, F, Item
<1>3. ASSUME NEW b \in Builds, BuildStep(b) PROVE ContextInv'
  <2>1. CASE Begin(b) BY <2>1, BeginKeeps
  <2>2. CASE Take(b) BY <2>2, TakeKeeps
  <2>3. CASE AskProject(b) BY <2>3, ResolveKeeps DEF AskProject, Registries
  <2>4. CASE AskOrganization(b) BY <2>4, ResolveKeeps DEF AskOrganization, Registries
  <2>5. CASE AskServices(b) BY <2>5, ResolveKeeps DEF AskServices, Registries
  <2>6. CASE AskTask(b) BY <2>6, ResolveKeeps DEF AskTask, Registries
  <2>7. CASE Close(b) BY <2>7, CloseKeeps
  <2>8. CASE Rendered(b) BY <2>8, RenderedKeeps
  <2>9. QED BY <1>3, <2>1, <2>2, <2>3, <2>4, <2>5, <2>6, <2>7, <2>8 DEF BuildStep
<1>4. CASE UNCHANGED contextVars
  BY <1>4 DEF contextVars, ContextInv, CacheInv, BuildInv, F, Item
<1>5. QED BY <1>1, <1>2, <1>3, <1>4 DEF ContextNext

\* The sections of a build belong together.
LEMMA ConsistentSections == ContextInv => OneWorld /\ ProjectWithinTTL
BY DEF ContextInv, BuildInv, Consistent, OneWorld, ProjectWithinTTL, Sections

\* A section of a context describes one world: its project is the item's, its
\* department and services are of that project's organization, although each
\* registry ages on its own and projects move between two reads.
THEOREM OneWorldHolds == ContextSpec => []OneWorld
BY ContextInitially, ContextStep, ConsistentSections, PTL DEF ContextSpec

\* A project's facts in a context were the registry's less than a TTL before
\* the resolver was asked.
THEOREM ProjectWithinTTLHolds == ContextSpec => []ProjectWithinTTL
BY ContextInitially, ContextStep, ConsistentSections, PTL DEF ContextSpec

=============================================================================
