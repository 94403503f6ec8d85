---------------------------- MODULE MCDelivery ----------------------------
(***************************************************************************)
(* Small instances of Delivery and of ContextBuilder, what a decision      *)
(* cycle executes and what its prompt is built from. They share no state,  *)
(* so a behaviour is one of the one or one of the other.                   *)
(***************************************************************************)
EXTENDS Delivery, ContextBuilder, TLC

VARIABLE part

NoNeed == [type |-> "", said |-> FALSE, falseGap |-> FALSE, options |-> <<>>]
Step1(name, cap, inputs) == [name |-> name, cap |-> cap, inputs |-> inputs, effect |-> TRUE, refs |-> {}]
Give(key, v) == [k \in {key} |-> v]

Merged == [slot |-> FromStep("edit", "pr_url"), check |-> FALSE,
           expect |-> [exists |-> FALSE, field |-> "merged", equals |-> Word("true")]]
Live == [slot |-> FromStep("ship", "pipeline_id"), check |-> FALSE,
         expect |-> [exists |-> FALSE, field |-> "state", equals |-> Word("succeeded")]]
There == [Live EXCEPT !.expect = [exists |-> TRUE, field |-> "", equals |-> Empty]]
Changed == [slot |-> FromWorld("server", "state"), check |-> FALSE,
            expect |-> [exists |-> FALSE, field |-> "", equals |-> Word("changed")]]
Leftover == [Live EXCEPT !.check = TRUE]

Plan(steps, criteria) ==
  [type |-> "plan", steps |-> steps, evidence |-> {}, need |-> NoNeed, contract |-> criteria]
Says(type, need) ==
  [type |-> type, steps |-> <<>>, evidence |-> {"e"}, need |-> need, contract |-> <<>>]

Edit == Step1("edit", "code_edit", Give("goal", Literal(Word("do it"))))
Ship == Step1("ship", "service.deploy", Give("service", Literal(Word("svc"))))
Watch == Step1("watch", "deployment.monitor",
               [k \in {"poll", "watch", "timeout", "interval"} |->
                  CASE k = "poll" -> FromStep("ship", "poll")
                    [] k = "watch" -> Literal(Word("true"))
                    [] k = "timeout" -> Literal(Text("seconds", 2))
                    [] k = "interval" -> Literal(Text("seconds", 1))])

\* Plans that pass, and one answer for each reason an answer is refused.
MCAnswers ==
  { Plan(<<Edit, Step1("", "noop", Give("x", Literal(Empty))), Step1("look", "unheard of", Give("x", Literal(Empty))),
           Step1("", "pr.check", Give("pr", FromStep("edit", "pr_url"))),
           Step1("", "pull_request.review", Give("head", Literal(Word("topic"))))>>, <<Merged>>),
    Plan(<<Ship, Watch>>, <<Live>>),
    Plan(<<Ship, [Ship EXCEPT !.name = "again"],
           Step1("", "deployment.monitor", Give("id", FromStep("ship", "pipeline_id")))>>, <<There>>),
    Plan(<<Step1("", "asset.change", Give("target", Literal(Word("server")))),
           Step1("", "asset.change", Give("target", FromWorld("server", "kind")))>>, <<Changed>>),
    Plan(<<Step1("edit", "pr.check", Give("pr", FromStep("edit", "pr")))>>, <<>>),
    Plan(<<Watch, Ship>>, <<>>),
    Plan(<<Ship, Ship>>, <<>>),
    Plan(<<Step1("a", "pr.check", Give("repo", Literal(Word("own"))))>>, <<>>),
    Plan(<<Step1("a", "pr.check", Give("pr", Broken))>>, <<>>),
    Plan(<<Step1("a", "pr.check", Give("pr", Unreadable))>>, <<>>),
    Plan(<<Ship>>, <<Leftover>>),
    Plan(<<>>, <<>>),
    Says("done", NoNeed),
    Says("blocked", [NoNeed EXCEPT !.type = "approval", !.said = TRUE]),
    Says("blocked", [NoNeed EXCEPT !.type = "approval", !.said = TRUE, !.falseGap = TRUE]),
    Says("need_input", [NoNeed EXCEPT !.type = "input", !.said = TRUE, !.options = <<"a", "a">>]),
    Says("maybe", NoNeed) }

Payload(word, health, quiet, signs) == [word |-> word, health |-> health, quiet |-> quiet, signs |-> signs]
MCPayloads == { Payload("queued", "", FALSE, {}), Payload("running", "red", FALSE, {}),
                Payload("done", "green", FALSE, {}),
                Payload("error", "red", TRUE, {"oom"}) }

\* Nothing recognised, and each way a state is named: with a problem or without.
Answer1(state, problem, signals) == [state |-> state, problem |-> problem, signals |-> signals]
MCAgentAnswers == { Answer1("", "", {}), Answer1("ok", "", {}), Answer1("aborted", "true", {"slow"}),
                    Answer1("packaging", "false", {"slow"}) }

CONSTANTS b1, b2, p1, p2, o1, o2, t1, t2

MCBuilds == {b1, b2}
MCProjects == {p1, p2}
MCOrgs == {o1, o2}
MCProjectLists == {(p1 :> o1) @@ (p2 :> o2)}
MCCatalogueId == (o1 :> o2) @@ (o2 :> NoValue)
MCTasks == {t1, t2}
MCStoreTask == (t1 :> p1) @@ (t2 :> NoValue)
MCRegistryTasks == (t1 :> p2) @@ (t2 :> NoValue)
MCRefs == {"project" :> p1, ("task" :> t2) @@ ("team" :> t1), ("project" :> p2) @@ ("task" :> t1)}
MCSym == Permutations(MCBuilds)

MCVars == <<part, vars, contextVars>>
MCInit == /\ part \in {"delivery", "context"} /\ Init /\ ContextInit
          /\ part = "context" => delegates
MCNext == \/ part = "delivery" /\ Next /\ UNCHANGED <<part, contextVars>>
          \/ part = "context" /\ ContextNext /\ UNCHANGED <<part, vars>>
          \/ part = "context" /\ clock = MaxClock /\ UNCHANGED MCVars   \* no more builds
MCSpec == MCInit /\ [][MCNext]_MCVars
=============================================================================
