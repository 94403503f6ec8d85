------------------------------ MODULE Delivery ------------------------------
(***************************************************************************)
(* One task's decisions executed against the world: Runtime.executePlan    *)
(* validates an answer, runs its steps in order, each a call of a          *)
(* capability that reads or changes the git host and the deployment        *)
(* control plane; a `done` is verified by asking the authoritative         *)
(* readers. Hosts move on their own between any two reads.                 *)
(***************************************************************************)
EXTENDS DeploymentMonitor

CONSTANTS
  Answers,        \* what the planner may answer
  Payloads,       \* what the control plane may report of a pipeline
  AgentAnswers,   \* what a monitoring agent may answer, true or not
  Agents,         \* whether the monitor may delegate to a monitoring agent
  MaxCycles,      \* decisions executed (a bound)
  MaxPulls, MaxPipes,   \* pull requests and pipelines (bounds)
  MaxMoves,       \* steps of the hosts (a bound)
  MaxFaults,      \* failing calls and unwritten step rows (a bound)
  None

ASSUME DeliveryAssumption ==
  /\ Agents \subseteq BOOLEAN
  /\ {MaxCycles, MaxPulls, MaxPipes, MaxMoves, MaxFaults} \subseteq Nat
  /\ \E p \in Payloads : p.word = "queued"
  /\ \A a \in Answers : /\ DOMAIN a = {"type", "steps", "evidence", "need", "contract"}
                        /\ a.contract \in Seq({a.contract[i] : i \in DOMAIN a.contract})

VARIABLES
  pulls,      \* the git host's pull requests
  pipes,      \* the control plane's pipelines
  assets,     \* the World Model
  status,     \* the task row's status
  cycles,
  run,        \* the decision being executed, or None
  call,       \* the capability call in flight, or None
  rows,       \* the steps the task ran, oldest first; `kept`: its row was written
  contract,   \* the pinned contract
  loans,      \* agents acquired and not released
  delegates,  \* whether this runtime's monitor has a monitoring agent
  moves, faults

hosts == <<pulls, pipes, moves, delegates>>
vars == <<pulls, pipes, assets, status, cycles, run, call, rows, contract, loans,
          delegates, moves, faults>>

Init ==
  /\ pulls = <<>> /\ pipes = <<>>
  /\ assets = [a \in {"server"} |-> [state |-> Word("idle"), kind |-> Word("machine")]]
  /\ status = "running" /\ cycles = 0 /\ run = None /\ call = None
  /\ rows = <<>> /\ contract = <<>> /\ loans = 0 /\ moves = 0 /\ faults = 0
  /\ delegates \in Agents

Failures == faults + Cardinality({i \in DOMAIN rows : ~rows[i].kept})
Fault == Failures < MaxFaults /\ faults' = faults + 1

-----------------------------------------------------------------------------
(* The hosts: external *)

Move == moves < MaxMoves /\ moves' = moves + 1
Queued == CHOOSE p \in Payloads : p.word = "queued"
NewPull == [head |-> "topic", base |-> "trunk", open |-> TRUE, merged |-> FALSE, reviews |-> 0]

PullMoves ==
  /\ Move
  /\ \E n \in DOMAIN pulls : /\ ~pulls[n].merged
       /\ \/ pulls' = [pulls EXCEPT ![n].open = FALSE, ![n].merged = pulls[n].open]
          \/ pulls[n].open /\ pulls' = [pulls EXCEPT ![n].open = FALSE]
          \/ pulls' = [pulls EXCEPT ![n].reviews = @ + 1]
  /\ UNCHANGED <<delegates, pipes, assets, status, cycles, run, call, rows, contract, loans, faults>>

PipeMoves ==
  /\ Move
  /\ \E n \in DOMAIN pipes, p \in Payloads :
       ~terminal(normalizeState(pipes[n].word)) /\ p # pipes[n] /\ pipes' = [pipes EXCEPT ![n] = p]
  /\ UNCHANGED <<delegates, pulls, assets, status, cycles, run, call, rows, contract, loans, faults>>

-----------------------------------------------------------------------------
(* executePlan: the gates *)

Gates(d) ==
  /\ validateDecision(d) /\ validatePlanLineage(d.steps)
  /\ cycles = 0 => validateCompletionContract(d.contract, d.steps)

Decide(answer) ==
  /\ run = None /\ status = "running" /\ cycles < MaxCycles
  /\ cycles' = cycles + 1
  /\ LET d == parseDecision(answer) IN
     IF Readable(answer) /\ Gates(d)
       THEN /\ run' = [d |-> d, prior |-> <<>>, verdicts |-> <<>>, err |-> FALSE, unread |-> None]
            /\ contract' = IF cycles = 0 THEN d.contract ELSE contract
       ELSE UNCHANGED <<run, contract>>
  /\ UNCHANGED <<hosts, assets, status, call, rows, loans, faults>>

-----------------------------------------------------------------------------
(* Steps and criteria: what a call is made for *)

At1(s) == Len(s) + 1
Step == run.d.steps[At1(run.prior)]
Stepping == run # None /\ call = None /\ ~run.err /\ At1(run.prior) \in DOMAIN run.d.steps

Record(out, ok, why, in, kept) ==
  [name |-> Step.name, cap |-> Step.cap, inputs |-> Step.inputs, in |-> in, out |-> out,
   ok |-> ok, why |-> why, cycle |-> cycles, kept |-> kept]

\* recordStep, best effort: the step happened whether its row is written or
\* not. The first failing step ends the cycle.
StepEnds(out, ok, why, in) ==
  \E kept \in BOOLEAN :
    LET r == Record(out, ok, why, in, kept) IN
    /\ kept \/ Failures < MaxFaults
    /\ rows' = Append(rows, r)
    /\ run' = [run EXCEPT !.prior = Append(@, r), !.err = ~ok]

NewCall(cap, in) ==
  [cap |-> cap, in |-> in, pc |-> "start", polls |-> 0, trail |-> <<>>, seen |-> <<>>,
   failed |-> FALSE, last |-> NoSnapshot, raw |-> TRUE, pull |-> 0, was |-> None, asked |-> 0]

NoOut == [k \in {} |-> Empty]

StepStart ==
  /\ Stepping
  /\ LET unresolved == Unresolved(Step.inputs, run.prior, assets)
         in == fillTaskID(Step.cap, resolveStepInputs(Step.inputs, run.prior, assets))
     IN \/ /\ Step.cap = "nothing" /\ StepEnds(NoOut, TRUE, "", NoOut) /\ UNCHANGED call
        \/ /\ Step.cap # "nothing" /\ unresolved # {}
           /\ StepEnds(NoOut, FALSE, CHOOSE w \in unresolved : TRUE, NoOut) /\ UNCHANGED call
        \/ /\ Step.cap # "nothing" /\ unresolved = {}
           /\ call' = NewCall(Step.cap, in) /\ UNCHANGED <<run, rows>>
  /\ UNCHANGED <<hosts, assets, status, cycles, contract, loans, faults>>

Verifying == /\ run # None /\ call = None /\ run.d.type = "done"
             /\ Len(run.verdicts) < Len(contract)
Criterion == contract[At1(run.verdicts)]

\* taskStepOutputs: what a done is verified against is read once; a plan whose
\* steps cannot be listed is left out, and no plan is seen when the plans
\* cannot be listed.
VerifyRead ==
  /\ Verifying /\ run.unread = None
  /\ \/ run' = [run EXCEPT !.unread = {}] /\ UNCHANGED faults
     \/ Fault /\ \E lost \in SUBSET {rows[i].cycle : i \in DOMAIN rows} :
                  run' = [run EXCEPT !.unread = lost]
  /\ UNCHANGED <<hosts, assets, status, cycles, call, rows, contract, loans>>

\* verifyCriterion: inconclusive without an expectation, a slot, a value in
\* it or a reader for its kind; otherwise the reader is called.
Producer == taskStepOutputs(rows, Criterion.slot.of, run.unread)
SlotValue == StepValue(Criterion.slot, [i \in 1..Cardinality(Producer) |-> CHOOSE p \in Producer : TRUE])
Reader == IF Producer = {} THEN {}
          ELSE LET kind == outputKind((CHOOSE p \in Producer : TRUE).cap, Criterion.slot.key)
               IN IF kind = "" THEN {} ELSE toolForKind(kind, Criterion.slot.key)
Askable == /\ Judges(Criterion.expect) /\ Criterion.slot.src = "step"
           /\ Criterion.expect.exists \/ Criterion.expect.field # ""
           /\ SlotValue.why = "" /\ Reader # {}

\* `told` is a history of the model's own: the state in the answer is the word
\* of a monitoring agent.
Verdict(result, told) ==
  run' = [run EXCEPT !.verdicts = Append(@, [result |-> result, told |-> told])]

VerifyStart ==
  /\ Verifying /\ run.unread # None
  /\ \/ /\ Askable
        /\ call' = LET r == CHOOSE r \in Reader : TRUE
                   IN NewCall(r.cap, fillTaskID(r.cap, [k \in {r.input} |-> SlotValue.v]))
        /\ UNCHANGED run
     \/ /\ ~Askable /\ UNCHANGED call
        /\ Verdict(IF Judges(Criterion.expect) /\ Criterion.slot.src = "world"
                     THEN JudgeWorld(Criterion.slot, Criterion.expect, assets) ELSE "inconclusive", FALSE)
  /\ UNCHANGED <<hosts, assets, status, cycles, rows, contract, loans, faults>>

\* A call that returned: a step's record, or a criterion's verdict.
Ends(out, ok, told) ==
  /\ call' = None
  /\ IF run.d.type = "plan" THEN StepEnds(out, ok, IF ok THEN "" ELSE "call", call.in)
     ELSE Verdict(IF ok THEN Judge(Criterion.expect, out) ELSE "inconclusive", told) /\ UNCHANGED rows

Returns(out, ok) == Ends(out, ok, FALSE)

\* mutant: a `done` holds up unless a criterion failed
NoneFailed == \A i \in DOMAIN run.verdicts : run.verdicts[i].result # "fail"

\* verifyDone: a contract must be pinned and every criterion pass.
Verified == contract # <<>> /\ \A i \in DOMAIN run.verdicts : run.verdicts[i].result = "pass"

Conclude ==
  /\ run # None /\ call = None /\ ~Verifying /\ ~Stepping
  /\ run' = None
  /\ status' = CASE run.d.type = "plan" -> status
                 [] run.d.type = "done" -> IF Verified THEN "completed" ELSE status
                 [] OTHER -> run.d.type
  /\ UNCHANGED <<hosts, assets, cycles, call, rows, contract, loans, faults>>

-----------------------------------------------------------------------------
(* The capabilities *)

In(cap, pc) == call # None /\ call.cap = cap /\ call.pc = pc
Idle == UNCHANGED <<assets, status, cycles, contract>>
Goes(pc) == call' = [call EXCEPT !.pc = pc] /\ UNCHANGED <<run, rows>>
Refuses == Returns(NoOut, FALSE)

AssetChange ==
  /\ In("asset.change", "start")
  /\ LET id == At(call.in, "target").what IN
     IF id \notin DOMAIN assets THEN Refuses /\ UNCHANGED assets
     ELSE /\ assets' = [assets EXCEPT ![id].state = Word("changed")]
          /\ Returns([k \in {"state"} |-> Word("changed")], TRUE)
  /\ UNCHANGED <<hosts, status, cycles, contract, loans, faults>>

\* code_edit and the monitor's judge both borrow a worker.
Acquire(pc) ==
  \/ loans' = loans + 1 /\ Goes(pc) /\ UNCHANGED faults
  \/ Fault /\ Refuses /\ UNCHANGED loans

CodeEditAcquire ==
  /\ In("code_edit", "start")
  /\ IF firstNonEmpty(call.in, <<"instruction", "goal">>) = Empty
       THEN Refuses /\ UNCHANGED <<loans, faults>> ELSE Acquire("prompt")
  /\ UNCHANGED hosts /\ Idle

\* mutant: a failing prompt keeps the worker
KeepsWorker(ok) == loans' = IF ok THEN loans - 1 ELSE loans

Release(ok) == loans' = loans - 1

\* The worker may open a pull request, and its report may name it; a prompt
\* may fail after the pull request was opened.
CodeEditReport ==
  /\ In("code_edit", "prompt")
  /\ \E opens \in BOOLEAN, named \in BOOLEAN :
       /\ opens => Len(pulls) < MaxPulls
       /\ pulls' = IF opens THEN Append(pulls, NewPull) ELSE pulls
       /\ LET said == IF named /\ pulls' # <<>> THEN <<Text("number", 1), Text("url", Len(pulls'))>> ELSE <<>>
          IN \/ /\ Returns([k \in {"summary", "pr_url"} |->
                              IF k = "summary" THEN Word("report") ELSE pullRequestIn(said)], TRUE)
                /\ Release(TRUE) /\ UNCHANGED faults
             \/ Fault /\ ~named /\ Refuses /\ Release(FALSE)
  /\ UNCHANGED <<delegates, pipes, moves>> /\ Idle

PRCheck ==
  /\ In("pr.check", "start")
  /\ \/ /\ ~CanCheck(call.in) /\ Refuses /\ UNCHANGED faults
     \/ /\ CanCheck(call.in)
        /\ \/ /\ \E t \in tokenForRepo : Token(t)
              /\ Returns(CheckReport(pulls, Pull(pulls, call.in)), TRUE) /\ UNCHANGED faults
           \/ /\ \E t \in tokenForRepo : ~Token(t)
              /\ Refuses /\ UNCHANGED faults
           \/ Fault /\ Refuses
  /\ UNCHANGED <<hosts, loans>> /\ Idle

ReviewIdentify ==
  /\ In("pull_request.review", "start")
  /\ \/ /\ CanReview(call.in) /\ \E t \in tokenForRepo : Token(t)
        /\ \E to \in resolveBase(call.in) :
             LET found == identifyPull(pulls, call.in, to) IN
             IF found = {} THEN Refuses
             ELSE LET n == CHOOSE n \in found : TRUE IN
                  /\ call' = [call EXCEPT !.pc = "reviews", !.pull = n, !.was = pulls[n]]
                  /\ UNCHANGED <<run, rows>>
        /\ UNCHANGED faults
     \/ /\ ~CanReview(call.in) \/ \E t \in tokenForRepo : ~Token(t)
        /\ Refuses /\ UNCHANGED faults
     \/ Fault /\ Refuses
  /\ UNCHANGED <<hosts, loans>> /\ Idle

ReviewList ==
  /\ In("pull_request.review", "reviews")
  /\ \/ /\ Returns(ReviewReport(call.was, call.pull, pulls[call.pull].reviews), TRUE) /\ UNCHANGED faults
     \/ Fault /\ Refuses
  /\ UNCHANGED <<hosts, loans>> /\ Idle

\* The pipeline is created when the control plane accepts (it refuses beyond
\* MaxPipes); its answer may be lost on the way back.
Deploy ==
  /\ In("service.deploy", "start")
  /\ \/ /\ ~CanDeploy(call.in) /\ Refuses /\ UNCHANGED <<pipes, faults>>
     \/ /\ CanDeploy(call.in) /\ Len(pipes) < MaxPipes
        /\ pipes' = Append(pipes, Queued)
        /\ \/ Returns(DeployReport(Len(pipes) + 1), TRUE) /\ UNCHANGED faults
           \/ Fault /\ Refuses
     \/ /\ CanDeploy(call.in) /\ Refuses /\ UNCHANGED pipes
        /\ Fault \/ (Len(pipes) = MaxPipes /\ UNCHANGED faults)
  /\ UNCHANGED <<delegates, pulls, moves, loans>> /\ Idle

-----------------------------------------------------------------------------
(* deployment.monitor *)

Req == ParseRequest(call.in)
Known == Req.pipe \in DOMAIN pipes

\* Whether this read of the control plane fails: the pipeline is not there,
\* or the call fails.
ReadOk == Known /\ UNCHANGED faults
ReadFails == (~Known /\ UNCHANGED faults) \/ Fault

MonitorStart ==
  /\ In("deployment.monitor", "start")
  /\ IF ~Req.ok THEN Refuses
     ELSE Goes(IF Req.watch \/ ~delegates THEN "poll" ELSE "base")
  /\ UNCHANGED <<hosts, loans, faults>> /\ Idle

\* What the loop does after a poll: a terminal state or a closed window ends
\* it (the deadline may pass at any poll), an error in the last poll is the
\* call's error, and the judge, if there is one, is asked once.
After(c, settled) ==
  \/ /\ ~settled /\ Req.watch /\ c.polls < maxPolls(Req)
     /\ call' = c /\ UNCHANGED <<run, rows>>
  \/ IF c.failed THEN Returns(NoOut, FALSE)
     ELSE IF delegates THEN call' = [c EXCEPT !.pc = "base"] /\ UNCHANGED <<run, rows>>
     ELSE Returns(report(c.last, Req.pipe), TRUE)

MonitorPoll ==
  /\ In("deployment.monitor", "poll")
  /\ \/ /\ ReadOk
        /\ LET s == toSnapshot(pipes[Req.pipe])
               settled == terminal(s.state)
           IN After([call EXCEPT !.polls = @ + 1, !.failed = FALSE, !.last = s,
                                 !.trail = IF settled \/ ~Req.watch THEN @ ELSE Observe(@, s),
                                 !.seen = IF settled \/ ~Req.watch THEN @ ELSE Append(@, ChangeKey(s))],
                    settled)
     \/ ReadFails /\ After([call EXCEPT !.polls = @ + 1, !.failed = TRUE], FALSE)
  /\ UNCHANGED <<hosts, loans>> /\ Idle

\* ObserveWithHistory: a raw observation of its own, best effort, before the
\* agent is acquired.
MonitorBase ==
  /\ In("deployment.monitor", "base")
  /\ \/ /\ ReadOk
        /\ call' = [call EXCEPT !.pc = "acquire", !.raw = TRUE, !.last = toSnapshot(pipes[Req.pipe])]
     \/ ReadFails /\ call' = [call EXCEPT !.pc = "acquire", !.raw = FALSE, !.last = NoSnapshot]
  /\ UNCHANGED <<hosts, run, rows, loans>> /\ Idle

MonitorAcquire ==
  /\ In("deployment.monitor", "acquire")
  /\ Acquire("prompt")
  /\ UNCHANGED hosts /\ Idle

\* The agent looks for itself, and its answer is taken for what it says.
MonitorAnswer ==
  /\ In("deployment.monitor", "prompt")
  /\ \/ /\ \E a \in AgentAnswers :
             Ends(report(applyTo(a, call.last), Req.pipe), TRUE, normalizeState(a.state) # "unknown")
        /\ Release(TRUE) /\ UNCHANGED faults
     \/ /\ IF call.raw THEN Returns(report(call.last, Req.pipe), TRUE) ELSE Refuses
        /\ Release(TRUE) /\ UNCHANGED faults
     \/ Fault /\ Refuses /\ Release(FALSE)
  /\ UNCHANGED hosts /\ Idle

-----------------------------------------------------------------------------
Calls == \/ AssetChange \/ CodeEditAcquire \/ CodeEditReport \/ PRCheck
         \/ ReviewIdentify \/ ReviewList \/ Deploy
         \/ MonitorStart \/ MonitorPoll \/ MonitorBase \/ MonitorAcquire \/ MonitorAnswer

Executes == StepStart \/ VerifyRead \/ VerifyStart \/ Conclude \/ Calls

\* The only states this model may stop in: nothing is being executed, and the
\* task has left running or the bound on its decisions is reached. Every
\* execution that can return does: anything else is a deadlock.
Rests == run = None /\ (status # "running" \/ cycles = MaxCycles) /\ UNCHANGED vars

Next == PullMoves \/ PipeMoves \/ (\E a \in Answers : Decide(a)) \/ Executes \/ Rests

Spec == Init /\ [][Next]_vars

-----------------------------------------------------------------------------
(* Properties *)

\* Plan data lineage: an input bound to a step's output was called with what
\* an earlier step of the same plan, of that name, reported under that key,
\* and never with an empty text.
BoundIsReported ==
  \A i \in DOMAIN rows : rows[i].ok =>
    \A k \in DOMAIN rows[i].inputs : LET b == rows[i].inputs[k] IN b.src = "step" =>
      /\ rows[i].in[k] # Empty
      /\ \E j \in 1..(i - 1) : /\ rows[j].cycle = rows[i].cycle /\ rows[j].name = b.of
                               /\ b.key \in DOMAIN rows[j].out /\ rows[j].out[b.key] = rows[i].in[k]

\* validatePlanLineage is complete: a step that was allowed to run never finds
\* that the step it reads produced nothing in this plan, or that its binding
\* cannot be read.
LineageHolds == \A i \in DOMAIN rows : rows[i].why \notin {"step", "unreadable"}

\* What a criterion that passed says of the world, of the object it was judged
\* by: a merge the git host shows, a success the control plane shows unless it
\* is what the monitoring agent answered. Both stay true once they are.
HoldsUp(c, told) ==
  c.slot.src = "step" /\ ~c.expect.exists =>
    \E p \in taskStepOutputs(rows, c.slot.of, run.unread) : LET v == p.out[c.slot.key] IN
      /\ c.expect.field = "merged" /\ c.expect.equals = Word("true") =>
           v.n \in DOMAIN pulls /\ pulls[v.n].merged
      /\ c.expect.field = "state" /\ c.expect.equals = Word("succeeded") =>
           told \/ (v.n \in DOMAIN pipes /\ normalizeState(pipes[v.n].word) = "succeeded")

\* A task becomes completed only by facts of the world or the word of the agent
\* the runtime asked: what every criterion of its contract says of a merge or a
\* deployment holds up then (verification.go, AgentObserver).
CompletedHolds ==
  [][status # "completed" /\ status' = "completed" =>
       \A i \in DOMAIN contract : HoldsUp(contract[i], run.verdicts[i].told)]_vars

\* Every agent a capability acquires is released before the call returns,
\* also when the prompt or the answer fails.
LoansReturned == call = None => loans = 0

\* A watch hands its judge the newest changes, in order: the polls with
\* consecutive repeats removed, cut to the last trailMaxChanges.
Changes(s) == LET at == {i \in DOMAIN s : i = 1 \/ s[i] # s[i - 1]}
                  kept == {i \in at : Cardinality({j \in at : j >= i}) <= trailMaxChanges}
              IN [m \in 1..Cardinality(kept) |->
                    s[CHOOSE i \in kept : Cardinality({j \in kept : j <= i}) = m]]
TrailIsChanges == call # None => call.trail = Changes(call.seen)

\* "Returns an error only when the deployment cannot be observed at all":
\* a monitor step that failed while its watch saw the deployment. [violated]
WatchErrorMeansUnseen ==
  [][\A i \in DOMAIN rows' \ DOMAIN rows :
       rows'[i].cap = "deployment.monitor" /\ ~rows'[i].ok => call.seen = <<>>]_vars
=============================================================================
