----------------------------- MODULE PlanRules -----------------------------
(***************************************************************************)
(* What the runtime checks of a planner's answer before anything runs, how *)
(* a step's inputs are resolved while the plan runs, and how a criterion   *)
(* of the completion contract is judged. Pure definitions.                 *)
(*                                                                         *)
(* A text is a pair: what it says and the number it names, if it names one *)
(* (a pull request, a pipeline, a count of seconds). A step input is a     *)
(* literal, a binding, or one of the shapes no reader accepts.             *)
(***************************************************************************)
EXTENDS Naturals, Sequences, FiniteSets

Text(what, n) == [what |-> what, n |-> n]
Word(what) == Text(what, 0)
Empty == Word("")

Literal(v) == [src |-> "literal", of |-> "", key |-> "", v |-> v]
FromStep(name, key) == [src |-> "step", of |-> name, key |-> key, v |-> Empty]
FromWorld(id, field) == [src |-> "world", of |-> id, key |-> field, v |-> Empty]
\* A source string that is neither of the two binding forms, an input object
\* with neither a source nor a value, and a criterion without a slot.
Unreadable == [src |-> "unreadable", of |-> "", key |-> "", v |-> Empty]
Broken == [src |-> "broken", of |-> "", key |-> "", v |-> Empty]
NoSlot == [src |-> "none", of |-> "", key |-> "", v |-> Empty]

IsBinding(in) == in.src \in {"step", "world", "unreadable"}

-----------------------------------------------------------------------------
(* The registered capabilities' call signatures *)

Field(name, aliases, required, kind) ==
  [name |-> name, aliases |-> aliases, required |-> required, kind |-> kind]
Plain(names) == {Field(n, {}, FALSE, "") : n \in names}

InputsOf ==
  [c \in {"code_edit", "pr.check", "pull_request.review", "service.deploy",
          "deployment.monitor", "asset.change"} |->
     CASE c = "code_edit" -> {Field("instruction", {"goal"}, TRUE, "")} \cup Plain({"task_id"})
       [] c = "pr.check" -> {Field("pr", {"pr_url", "pull_request"}, TRUE, "pull_request"),
                             Field("repo", {"repository"}, FALSE, "")}
       [] c = "pull_request.review" -> {Field("pr", {"pr_url", "pull_request"}, FALSE, ""),
                             Field("from", {"from_branch", "head", "source"}, FALSE, ""),
                             Field("to", {"to_branch", "base", "target"}, FALSE, ""),
                             Field("repo", {"repository"}, FALSE, "")}
       [] c = "service.deploy" -> {Field("service", {"service_id"}, TRUE, ""),
                             Field("branch", {"ref"}, FALSE, "")}
                             \cup Plain({"identity_role", "identity_id"})
       [] c = "deployment.monitor" -> {Field("deployment", {"pipeline_id", "pipeline", "request_id",
                                               "target", "run", "id"}, FALSE, "deployment"),
                             Field("poll", {}, FALSE, "deployment")}
                             \cup Plain({"status_url", "endpoint", "logs_url", "watch", "interval",
                                         "timeout", "tail", "task_id"})
       [] c = "asset.change" -> {Field("target", {}, TRUE, "")}]

OutputsOf ==
  [c \in DOMAIN InputsOf |->
     CASE c = "code_edit" -> Plain({"summary"}) \cup {Field("pr_url", {}, FALSE, "pull_request")}
       [] c = "pr.check" -> Plain({"exists", "valid", "state", "draft", "merged", "number", "pr",
                                   "title", "repo"})
       [] c = "pull_request.review" -> Plain({"from", "to", "number", "pr", "title", "state", "draft",
                                   "merged", "requires_human_approval", "reviews",
                                   "reviews_count", "review_summary"})
       [] c = "service.deploy" -> Plain({"state", "deployment", "version"})
                                   \cup {Field(n, {}, FALSE, "deployment") : n \in {"pipeline_id", "poll"}}
       [] c = "deployment.monitor" -> Plain({"deployment", "state", "terminal", "problem", "signals",
                                   "diagnosis", "evidence", "suggestions", "healthy", "error"})
       [] c = "asset.change" -> Plain({"state"})]

ChecksKind == [c \in {"pr.check", "deployment.monitor"} |->
                 IF c = "pr.check" THEN "pull_request" ELSE "deployment"]

fieldAccepts(fields, key) == \E f \in fields : key \in {f.name} \cup f.aliases
suppliedInput(inputs, f) == DOMAIN inputs \cap ({f.name} \cup f.aliases) # {}

-----------------------------------------------------------------------------
(* parseDecision *)

Nothing == [name |-> "", cap |-> "nothing", inputs |-> <<>>, effect |-> TRUE, refs |-> {}]

\* The steps of a plan that name something to do.
WithoutNoops(steps) == SelectSeq(steps, LAMBDA s : s.cap \notin {"noop", "nothing", "none", ""})

\* planActions: no-op steps are dropped, a step naming an unregistered
\* capability becomes NothingAction and keeps its place.
planActions(steps) ==
  LET named == WithoutNoops(steps)
  IN [i \in DOMAIN named |-> IF named[i].cap \in DOMAIN InputsOf THEN named[i] ELSE Nothing]

\* An input that is no value and no binding makes the whole answer unreadable.
Readable(answer) ==
  /\ answer.type \in {"plan", "done", "blocked", "need_input"}
  /\ answer.type = "plan" =>
       \A i \in DOMAIN answer.steps : \A k \in DOMAIN answer.steps[i].inputs :
         answer.steps[i].inputs[k].src # "broken"

\* Only a plan's steps become actions.
parseDecision(answer) ==
  [answer EXCEPT !.steps = IF answer.type = "plan" THEN planActions(@) ELSE <<>>]

-----------------------------------------------------------------------------
(* validateDecision: the requirements of each decision type *)

maxNeedOptions == 9

Called(steps) == {i \in DOMAIN steps : steps[i].cap # "nothing"}

planStepsSayWhatTheyAreFor(d) == \A i \in Called(d.steps) : d.steps[i].effect
planEvidenceRefsExist(d) == \A i \in Called(d.steps) : d.steps[i].refs \subseteq d.evidence

\* The need a blocked or need_input answer must carry: said in words, not a
\* gap the runtime itself fills, and its options (if any) a real choice.
needDescribesWhatIsMissing(d) == d.need.said
needNotAskRuntimeToAuthorizeAWorker(d) ==
  d.need.type \in {"capability", "permission", "approval"} => ~d.need.falseGap
needOptionsAreChoices(d) ==
  LET o == d.need.options IN
  o = <<>> \/ /\ Len(o) \in 2..maxNeedOptions
              /\ \A i \in DOMAIN o : o[i] # ""
              /\ Cardinality({o[i] : i \in DOMAIN o}) = Len(o)

noNeed(d) == d.need.type = "" /\ ~d.need.said /\ d.need.options = <<>>

validateDecision(d) ==
  CASE d.type = "plan" -> d.steps # <<>> /\ planStepsSayWhatTheyAreFor(d) /\ planEvidenceRefsExist(d)
    [] d.type = "done" -> d.steps = <<>> /\ noNeed(d) /\ d.evidence # {}
    [] OTHER -> /\ d.steps = <<>> /\ needDescribesWhatIsMissing(d)
                /\ needNotAskRuntimeToAuthorizeAWorker(d) /\ needOptionsAreChoices(d)

-----------------------------------------------------------------------------
(* validatePlanLineage *)

\* Names a binding could not address.
Unusable == {"a.b"}

Named(steps, name) == {i \in Called(steps) : steps[i].name = name}

\* mutant: a step's position is compared with >, so a step may read itself
ReadsUpToItself(steps, i, in) ==
  \E j \in Named(steps, in.of) \cap 1..i : fieldAccepts(OutputsOf[steps[j].cap], in.key)

\* A step binding names an earlier step and an output its capability declares.
ReadsEarlierStep(steps, i, in) ==
  \E j \in Named(steps, in.of) \cap 1..(i - 1) : fieldAccepts(OutputsOf[steps[j].cap], in.key)

StepLineage(steps, i) ==
  LET step == steps[i] IN
  /\ \A k \in DOMAIN step.inputs :
       /\ fieldAccepts(InputsOf[step.cap], k)
       /\ step.inputs[k].src \in {"literal", "step", "world"}
       /\ step.inputs[k].src = "step" => ReadsEarlierStep(steps, i, step.inputs[k])
  /\ \A f \in InputsOf[step.cap] : f.required => suppliedInput(step.inputs, f)

validatePlanLineage(steps) ==
  /\ \A i, j \in Called(steps) :
       steps[i].name # "" => /\ steps[i].name \notin Unusable
                             /\ steps[j].name = steps[i].name => i = j
  /\ \A i \in Called(steps) : StepLineage(steps, i)

-----------------------------------------------------------------------------
(* resolveStepInputs, against the steps of this plan that already ran *)

Got(v) == [why |-> "", v |-> v]
Missing(why) == [why |-> why, v |-> Empty]

First(s) == CHOOSE i \in s : \A j \in s : i <= j

worldValue(in, assets) ==
  IF in.of \in DOMAIN assets THEN Got(assets[in.of][in.key]) ELSE Missing("asset")

\* mutant: the step that reported last is read, whatever the binding names
LastReport(in, prior) ==
  IF prior = <<>> \/ in.key \notin DOMAIN prior[Len(prior)].out
    THEN Missing("unreported") ELSE Got(prior[Len(prior)].out[in.key])

StepValue(in, prior) ==
  LET at == {j \in DOMAIN prior : prior[j].name = in.of} IN
  IF at = {} THEN Missing("step")
  ELSE LET out == prior[First(at)].out IN
       IF in.key \notin DOMAIN out THEN Missing("unreported")
       ELSE IF out[in.key] = Empty THEN Missing("empty") ELSE Got(out[in.key])

resolveInputSource(in, prior, assets) ==
  CASE in.src = "literal" -> Got(in.v)
    [] in.src = "step" -> StepValue(in, prior)
    [] in.src = "world" -> worldValue(in, assets)
    [] OTHER -> Missing("unreadable")

\* The first input that cannot be read fails the step.
Unresolved(inputs, prior, assets) ==
  {resolveInputSource(inputs[k], prior, assets).why : k \in DOMAIN inputs} \ {""}

\* The task id is added for a capability that declares it, never over a value.
fillTaskID(cap, in) ==
  IF "task_id" \notin DOMAIN in /\ fieldAccepts(InputsOf[cap], "task_id")
    THEN [k \in DOMAIN in \cup {"task_id"} |-> IF k = "task_id" THEN Word("task") ELSE in[k]]
    ELSE in

resolveStepInputs(inputs, prior, assets) ==
  [k \in DOMAIN inputs |-> resolveInputSource(inputs[k], prior, assets).v]

-----------------------------------------------------------------------------
(* The completion contract *)

\* A criterion that binds no slot is pinned: it is inconclusive later. A slot
\* naming a step of this plan must name an output of it; a leftover check is
\* refused.
checkSlotAgainstPlan(slot, steps) ==
  \A j \in Named(steps, slot.of) : fieldAccepts(OutputsOf[steps[j].cap], slot.key)

validateCompletionContract(contract, steps) ==
  \A i \in DOMAIN contract : contract[i].slot.src # "none" =>
    /\ contract[i].slot.src # "unreadable"
    /\ contract[i].slot.src = "step" => checkSlotAgainstPlan(contract[i].slot, steps)
    /\ ~contract[i].check

Judges(e) == e.exists \/ e.field # "" \/ e.equals # Empty

outputKind(cap, key) ==
  LET fs == {f \in OutputsOf[cap] : fieldAccepts({f}, key)}
  IN IF fs = {} THEN "" ELSE (CHOOSE f \in fs : TRUE).kind

\* The one system tool that checks the kind; the input whose name is the
\* evidence key is preferred, else the first of that kind.
toolForKind(kind, key) ==
  LET tools == {c \in DOMAIN ChecksKind : ChecksKind[c] = kind}
      tool == CHOOSE c \in tools : TRUE
      takes == {f \in InputsOf[tool] : f.kind = kind}
      same == {f \in takes : fieldAccepts({f}, key)}
  IN IF Cardinality(tools) # 1 THEN {}
     ELSE {[cap |-> tool,
            input |-> IF same # {} THEN (CHOOSE f \in same : TRUE).name
                      ELSE IF kind = "deployment" THEN "deployment"
                      ELSE (CHOOSE f \in takes : TRUE).name]}

\* taskStepOutputs: per step name the task's most recent successful execution
\* whose row was written, of the plans whose steps could be listed.
taskStepOutputs(rows, name, unread) ==
  LET ok == {i \in DOMAIN rows : /\ rows[i].name = name /\ rows[i].ok
                                 /\ rows[i].kept /\ rows[i].cycle \notin unread}
  IN IF ok = {} THEN {} ELSE {rows[CHOOSE i \in ok : \A j \in ok : j <= i]}

\* verifyStepCriterion, given what the authoritative source answered. A source
\* that reports no `exists` has answered, and that counts as existing.
Judge(expect, answer) ==
  IF expect.exists
    THEN IF "exists" \in DOMAIN answer /\ answer["exists"] # Word("true") THEN "fail" ELSE "pass"
    ELSE IF expect.field \notin DOMAIN answer \/ answer[expect.field] = Empty THEN "inconclusive"
    ELSE IF answer[expect.field] = expect.equals THEN "pass" ELSE "fail"

\* verifyWorldCriterion: the World Model read is the answer.
JudgeWorld(slot, expect, assets) ==
  IF expect.field # "" /\ expect.field # slot.key THEN "inconclusive"
  ELSE IF slot.of \notin DOMAIN assets THEN "fail"
  ELSE IF expect.exists \/ assets[slot.of][slot.key] = expect.equals THEN "pass" ELSE "fail"
=============================================================================
