------------------------------ MODULE CursorRun ------------------------------
(***************************************************************************)
(* One agent on the Cursor SDK bridge (src/src/cursorsdk,                  *)
(* src/src/llmbackend/cursor).  The provider allows one active run per     *)
(* agent and keeps a run active after its stream dropped or its caller     *)
(* left, so every way out of a wait has to say what happens to the run.    *)
(* Text, usage and keepalives are left out.                                *)
(***************************************************************************)
EXTENDS Naturals, FiniteSets

CONSTANT MaxRuns   \* bound: prompts sent to the provider

ASSUME CursorAssumption == MaxRuns \in Nat

Runs == 1 .. MaxRuns

VARIABLES
  ready,     \* Client.ready: the bridge was started and answered
  agent,     \* the provider's agent: "none", "open" or "deleted"
  active,    \* its runs the provider marks active
  ended,     \* its runs that reached a result
  run,       \* Run: id, known (runID), terminal
  sendStream, \* the Send stream
  pc,        \* where Prompt is
  attempt,   \* promptOnce of this Prompt
  live,      \* the caller's context
  result,    \* how the latest Prompt returned
  unlisted,  \* active runs ListRuns does not name yet
  missed,    \* history: a cancel failed since that Prompt began
  overlooked \* history: active runs a ListRuns of that Prompt did not name

cursorHistory == <<missed, overlooked>>
listing == <<unlisted, cursorHistory>>
cursorVars == <<ready, agent, active, ended, run, sendStream, pc, attempt, live, result, listing>>

CursorTypeOK ==
  /\ ready \in BOOLEAN /\ agent \in {"none", "open", "deleted"}
  /\ active \subseteq Runs /\ ended \subseteq Runs
  /\ unlisted \subseteq Runs /\ overlooked \subseteq Runs
  /\ run \in [id : 0 .. MaxRuns, known : BOOLEAN, terminal : BOOLEAN]
  /\ sendStream \in {"none", "open", "dropped", "refused", "done"}
  /\ pc \in {"idle", "consume", "waitLive", "release", "clear"}
  /\ attempt \in 1 .. 2 /\ live \in BOOLEAN /\ missed \in BOOLEAN
  /\ result \in {"none", "finished", "cancelled", "refused", "lost", "unsent"}

CursorInit ==
  /\ ready = FALSE /\ agent = "none" /\ active = {} /\ ended = {}
  /\ run = [id |-> 0, known |-> FALSE, terminal |-> FALSE] /\ sendStream = "none"
  /\ pc = "idle" /\ attempt = 1 /\ live = TRUE /\ result = "none" /\ unlisted = {}
  /\ missed = FALSE /\ overlooked = {}

\* Ping starts the bridge on first use; a bridge that does not come up leaves
\* nothing and fails the attach.
Ensure ==
  /\ ~ready /\ ready' = TRUE
  /\ UNCHANGED <<agent, active, ended, run, sendStream, pc, attempt, live, result, listing>>

\* The recorded agent is resumed, with whatever run it still has active, or a
\* new one is created when the provider no longer has it.
AttachAgent ==
  /\ ready /\ agent = "none" /\ pc = "idle"
  /\ agent' = "open"
  /\ UNCHANGED <<ready, active, ended, run, sendStream, pc, attempt, live, result, listing>>

To(where, how) == pc' = where /\ result' = how

\* The call of Send returns a stream; a send while a run is active is refused on
\* it, and no run starts.
StreamOpened(k, busy) ==
  /\ To("consume", "none")
  /\ IF busy = {} THEN active' = {k} /\ unlisted' = {k} /\ sendStream' = "open"
                  ELSE active' = busy /\ UNCHANGED unlisted /\ sendStream' = "refused"

\* The call itself fails: promptOnce returns and releases nothing, though the
\* provider may have taken the prompt.  Prompt clears the agent's runs after a
\* refusal, its first, unless the context is over.
SendFails(k, try, busy) ==
  /\ sendStream' = "none"
  /\ \/ /\ To("idle", "unsent")
        /\ \/ active' = busy /\ UNCHANGED unlisted
           \/ busy = {} /\ active' = {k} /\ unlisted' = {k}
     \/ /\ busy # {} /\ active' = busy /\ UNCHANGED unlisted
        /\ IF try = 1 THEN To("clear", "none") ELSE To("idle", "refused")

SendOnce(try, busy) ==
  LET k == run.id + 1 IN
  /\ k \in Runs
  /\ run' = [id |-> k, known |-> FALSE, terminal |-> FALSE]
  /\ attempt' = try
  /\ StreamOpened(k, busy) \/ SendFails(k, try, busy)

Prompt ==
  /\ pc = "idle" /\ agent = "open"
  /\ SendOnce(1, active) /\ live' = TRUE /\ missed' = FALSE /\ overlooked' = {}
  /\ UNCHANGED <<ready, agent, ended>>

-----------------------------------------------------------------------------
(* The provider and the stream. *)

ProviderFinishes ==
  /\ active # {}
  /\ active' = {} /\ ended' = ended \cup active /\ unlisted' = {}
  /\ UNCHANGED <<ready, agent, run, sendStream, pc, attempt, live, result, cursorHistory>>

\* ListRuns names a run some time after it started.
ProviderLists ==
  /\ unlisted # {} /\ unlisted' = {}
  /\ UNCHANGED <<ready, agent, active, ended, run, sendStream, pc, attempt, live, result,
                 cursorHistory>>

Receive ==
  /\ pc = "consume" /\ sendStream = "open" /\ live
  /\ \/ run' = [run EXCEPT !.known = TRUE] /\ UNCHANGED sendStream
     \/ run.id \in ended /\ run' = [run EXCEPT !.known = TRUE, !.terminal = TRUE]
                         /\ UNCHANGED sendStream
     \/ run.id \in ended /\ sendStream' = "done" /\ UNCHANGED run
  /\ UNCHANGED <<ready, agent, active, ended, pc, attempt, live, result, listing>>

StreamDrops ==
  /\ sendStream = "open" /\ sendStream' = "dropped"
  /\ UNCHANGED <<ready, agent, active, ended, run, pc, attempt, live, result, listing>>

\* The watchdog found the run silent, or the caller was stopped.
ContextEnds ==
  /\ pc # "idle" /\ live /\ live' = FALSE
  /\ UNCHANGED <<ready, agent, active, ended, run, sendStream, pc, attempt, result, listing>>

-----------------------------------------------------------------------------
(* Run.WaitStream, once consume is over, and what it falls back to. *)

\* mutant: a stream that ended badly is reported before its result is looked at
ErrorFirst(broken) == run.terminal /\ ~broken

\* A result that arrived is the outcome, however the stream ended after it.
HasResult(broken) == run.terminal

WaitStream ==
  LET broken == ~live \/ sendStream \in {"dropped", "refused"} IN
  /\ pc = "consume" /\ (broken \/ sendStream = "done")
  /\ IF HasResult(broken) THEN To("idle", "finished")
     ELSE IF sendStream # "done" /\ (~live \/ sendStream = "refused") THEN To("release", result)
     ELSE IF run.known THEN To("waitLive", result)
     ELSE To("idle", "lost")
  /\ UNCHANGED <<ready, agent, active, ended, run, sendStream, attempt, live, listing>>

WaitLive ==
  /\ pc = "waitLive"
  /\ \/ live /\ run.id \in ended /\ run' = [run EXCEPT !.terminal = TRUE] /\ To("idle", "finished")
     \/ ~live /\ To("release", result) /\ UNCHANGED run
     \/ live /\ To("idle", "lost") /\ UNCHANGED run      \* the call itself failed
  /\ UNCHANGED <<ready, agent, active, ended, sendStream, attempt, live, listing>>

\* CancelActiveRuns: every non-terminal run ListRuns names.
ActiveRuns == active \ unlisted
Overlook == overlooked' = overlooked \cup (active \cap unlisted)

\* mutant: only a run whose id arrived is cancelled
OnlyKnown == IF run.known THEN {run.id} ELSE {}

\* What releaseProviderRun cancels: the run it knows, else all of the agent's.
Released == IF run.known THEN {run.id} ELSE ActiveRuns

Refused == sendStream = "refused" /\ live

\* The release has its own deadline; a failure is traced and dropped.
ReleaseProviderRun ==
  /\ pc = "release"
  /\ \E ok \in BOOLEAN :
       /\ active' = IF ok THEN active \ Released ELSE active
       /\ missed' = (missed \/ ~ok)
  /\ IF run.known THEN UNCHANGED overlooked ELSE Overlook
  /\ IF Refused /\ attempt = 1 THEN To("clear", result)
     ELSE To("idle", IF Refused THEN "refused" ELSE "cancelled")
  /\ UNCHANGED <<ready, agent, ended, run, sendStream, attempt, live, unlisted>>

\* Prompt after a refusal: clear the agent's runs and send once more, unless
\* the clearing fails or the context is over by now.
RetryOnce ==
  /\ pc = "clear"
  /\ \/ SendOnce(2, active \ ActiveRuns) /\ Overlook /\ UNCHANGED missed
     \/ /\ To("idle", "refused") /\ missed' = TRUE
        /\ UNCHANGED <<active, unlisted, overlooked, run, sendStream, attempt>>
  /\ UNCHANGED <<ready, agent, ended, live>>

\* A one-shot worker's agent is deleted, its runs cancelled first, also when
\* that fails.  A resident agent is closed and stays.
DisposeAgent ==
  /\ pc = "idle" /\ agent = "open"
  /\ \/ agent' = "deleted" /\ active' \in {active, active \ ActiveRuns}
     \/ agent' = "none" /\ UNCHANGED active
  /\ UNCHANGED <<ready, ended, run, sendStream, pc, attempt, live, result, listing>>

CursorNext ==
  \/ Ensure \/ AttachAgent \/ Prompt \/ ProviderFinishes \/ ProviderLists \/ Receive
  \/ StreamDrops \/ ContextEnds \/ WaitStream \/ WaitLive \/ ReleaseProviderRun \/ RetryOnce
  \/ DisposeAgent

CursorSpec == CursorInit /\ [][CursorNext]_cursorVars

-----------------------------------------------------------------------------
(* Properties. *)

\* A result that reached the runtime is what the turn returns, although the
\* watchdog or a dropped stream races it (WaitStream).
ResultKept == pc = "idle" /\ run.terminal => result = "finished"

\* A turn given up, by its context or to a refusal, leaves no run active on
\* the agent for the next one to be refused by, unless a cancel failed or
\* ListRuns did not name the run when it was asked.  (A turn whose Send call
\* failed is not among them: it releases nothing, and its run meets the next
\* prompt as a refusal.)
NothingLeftActive ==
  pc = "idle" /\ result \in {"cancelled", "refused"} => active \subseteq overlooked \/ missed
=============================================================================
