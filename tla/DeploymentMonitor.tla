------------------------- MODULE DeploymentMonitor -------------------------
(***************************************************************************)
(* deployment.monitor and service.deploy: what a request asks for, what    *)
(* one observation of a pipeline is, how a watch keeps its trail, how the  *)
(* monitoring agent's answer is merged and how a snapshot is diagnosed.    *)
(* Pure definitions over what the control plane reports of a pipeline:     *)
(*   [word, health, quiet, signs] - its state word, its health word,       *)
(*   whether its last update is older than stallAfter, and the failure     *)
(*   fingerprints in its logs and its error.                               *)
(***************************************************************************)
EXTENDS GitHost

CONSTANT trailMaxChanges   \* 24 in the code

ASSUME TrailAssumption == trailMaxChanges \in Nat \ {0}

defaultInterval == 5
minInterval == 1
defaultTimeout == 60
maxTimeout == 600

\* secondsInput: "" is the default, anything but a positive number an error
\* (-1 here), a number is clamped.
secondsInput(in, key, fallback, least, most) ==
  LET v == At(in, key) IN
  IF v = Empty THEN fallback
  ELSE IF v.what # "seconds" \/ v.n = 0 THEN 0 - 1
  ELSE IF v.n < least THEN least ELSE IF v.n > most THEN most ELSE v.n

boolInput(v) == v.what \in {"1", "true", "yes", "y", "on"}

Smaller(a, b) == IF a < b THEN a ELSE b

\* ParseRequest: the pipeline by id or by its poll path (a status url built
\* from the path wins over the id), and a window that is bounded.
ParseRequest(in) ==
  LET id == firstNonEmpty(in, <<"deployment", "pipeline_id", "pipeline", "request_id", "target", "run", "id">>)
      poll == At(in, "poll")
      timeout == secondsInput(in, "timeout", defaultTimeout, 0, maxTimeout)
      interval == secondsInput(in, "interval", defaultInterval, minInterval, 10000)
  IN [ok |-> (id # Empty \/ poll # Empty) /\ timeout >= 0 /\ interval >= 0,
      pipe |-> IF poll # Empty THEN poll.n ELSE id.n,
      watch |-> boolInput(At(in, "watch")),
      interval |-> Smaller(interval, timeout), timeout |-> timeout]

maxPolls(req) == 1 + (req.timeout \div req.interval)

-----------------------------------------------------------------------------
(* One observation *)

normalizeState(word) ==
  CASE word \in {"done", "ok", "succeeded"} -> "succeeded"
    [] word \in {"failed", "error", "aborted"} -> "failed"
    [] word \in {"deploying", "packaging", "running"} -> "running"
    [] word \in {"queued", "pending"} -> "pending"
    [] OTHER -> "unknown"

terminal(state) == state \in {"succeeded", "failed"}

healthy(word) == CASE word \in {"healthy", "green"} -> "true"
                   [] word \in {"unhealthy", "red", "degraded"} -> "false"
                   [] OTHER -> ""

NoSnapshot == [state |-> "unknown", healthy |-> "", quiet |-> FALSE, signs |-> {},
               problem |-> "", signals |-> {}]

toSnapshot(p) == [NoSnapshot EXCEPT !.state = normalizeState(p.word), !.healthy = healthy(p.health),
                                    !.quiet = p.quiet, !.signs = p.signs]

-----------------------------------------------------------------------------
(* Diagnosis *)

Structural(s) ==
  (IF s.state = "failed" THEN {"deployment_failed"} ELSE {})
  \cup (IF s.state \in {"running", "pending"} /\ s.quiet THEN {"stalled"} ELSE {})
  \cup (IF s.healthy = "false" THEN {"unhealthy"} ELSE {})

\* The agent's own signals replace the log fingerprints, which only speak
\* while the outcome is open.
Judged(s) == s.problem # "" \/ s.signals # {}

Signals(s) == Structural(s)
  \cup (IF Judged(s) THEN s.signals ELSE IF s.state # "succeeded" THEN s.signs ELSE {})

\* The agent's verdict is the verdict; without one, any signal is a problem.
Problem(s) == IF s.problem # "" THEN s.problem = "true" ELSE Signals(s) # {}

report(s, pipe) ==
  [k \in {"deployment", "state", "terminal", "problem", "signals"} |->
     CASE k = "deployment" -> Text("pipeline", pipe)
       [] k = "state" -> Word(s.state)
       [] k = "terminal" -> YesNo(terminal(s.state))
       [] k = "problem" -> YesNo(Problem(s))
       [] k = "signals" -> Text("signals", Cardinality(Signals(s)))]

-----------------------------------------------------------------------------
(* The trail of a watch: material changes, the newest trailMaxChanges *)

ChangeKey(s) == [state |-> s.state, healthy |-> s.healthy, signals |-> Signals(s)]

Recent(t) == IF Len(t) > trailMaxChanges THEN Tail(t) ELSE t

\* mutant: a poll is kept when its state differs from the one before it
ByState(trail, s) ==
  IF trail # <<>> /\ trail[Len(trail)].state = s.state THEN trail ELSE Recent(Append(trail, ChangeKey(s)))

\* pollTrail.observe: a poll whose key is the last one's is not kept.
Observe(trail, s) ==
  IF trail # <<>> /\ trail[Len(trail)] = ChangeKey(s) THEN trail ELSE Recent(Append(trail, ChangeKey(s)))

-----------------------------------------------------------------------------
(* The monitoring agent's answer: [state, problem, signals], its state a word *)

\* applyTo: the answer wins where it speaks, the raw observation is the rest;
\* an unrecognised state word is not a state.
applyTo(answer, base) ==
  [base EXCEPT !.state = IF normalizeState(answer.state) # "unknown" THEN normalizeState(answer.state) ELSE @,
               !.problem = answer.problem, !.signals = answer.signals]

-----------------------------------------------------------------------------
(* service.deploy *)

\* resolveDeploymentIdentity: a role that is neither user nor agent, or an id
\* the control plane would refuse, fails before the request.
IdentityHolds(in) ==
  /\ At(in, "identity_role").what \in {"", "user", "agent"}
  /\ At(in, "identity_id").what # "unusable id"

CanDeploy(in) == firstNonEmpty(in, <<"service", "service_id">>) # Empty /\ IdentityHolds(in)

DeployReport(n) ==
  [k \in {"pipeline_id", "state", "poll"} |->
     CASE k = "pipeline_id" -> Text("pipeline", n)
       [] k = "state" -> Word("queued")
       [] k = "poll" -> Text("path", n)]
=============================================================================
