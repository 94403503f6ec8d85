--------------------------- MODULE GracefulRestart ---------------------------
(***************************************************************************)
(* A task's run and the process around it: acceptance (api_service.go),    *)
(* the run's registry, the two stops (api_service.go, stop_reason.go), the *)
(* announced restart, SIGTERM, and the two boot scans (graceful.go,        *)
(* cmd/autonomyd).                                                         *)
(*                                                                         *)
(* A task has one agent, so a task stands for both.  The agent's consumer  *)
(* is the one module Inbox shows there is: it is started, claims in order, *)
(* and leaves when the queue is empty or the drain holds what it claimed,  *)
(* one critical section or store statement at a time.  Tasks and messages  *)
(* are rows and survive the process; everything else is memory.            *)
(***************************************************************************)
EXTENDS Naturals, FiniteSets

CONSTANTS
  Tasks,
  NoTask,      \* no task
  MaxMsg,      \* rows of agent_messages ever written (a bound)
  MaxNotify,   \* restarts announced (a bound)
  MaxTerm,     \* SIGTERMs (a bound)
  MaxKill,     \* SIGKILLs (a bound)
  MaxStop,     \* stops asked for over HTTP (a bound)
  Forced       \* the platform restarts without waiting for canRestart

ASSUME RestartAssumption ==
  /\ NoTask \notin Tasks
  /\ MaxMsg \in Nat /\ MaxNotify \in Nat /\ MaxTerm \in Nat
  /\ MaxKill \in Nat /\ MaxStop \in Nat /\ Forced \in BOOLEAN

Ids == 1..MaxMsg
Stoppers == {"user", "runtime"}
Kinds == {"instruction", "observation", "stop"}

VARIABLES
  \* the store
  row,         \* [Tasks -> Rows]: tasks.status
  by,          \* [Tasks -> Stoppers \cup {"none"}]: whom tasks.error names
  status,      \* [Ids -> Statuses]: agent_messages.status
  task,        \* [Ids -> Tasks]: agent_messages.task_id
  kind,        \* [Ids -> Kinds]: agent_messages.kind
  last,        \* the highest id given out
  \* the runtime's memory
  phase,       \* where the process is, Phases
  todo,        \* SUBSET Tasks: what the loop of this phase still has to visit
  resumed,     \* SUBSET Tasks: runs resumeInterruptedRuns re-entered
  draining,    \* RestartDrain.active
  held,        \* SUBSET Tasks: agents whose start is held
  resuming,    \* the drain was given up, resumePaused is still to be called
  starting,    \* SUBSET Tasks: calls of Inbox.start under way
  inFlight,    \* [Tasks -> Ids \cup {0}]: inFlightTasks, the message it would cancel
  reason,      \* [Tasks -> Stoppers \cup {"none"}]: stopReasons
  cancelled,   \* SUBSET Ids: messages whose context is cancelled
  \* the consumers
  pc,          \* [Tasks -> Stages]
  cur,         \* [Tasks -> Ids \cup {0}]: the message claimed
  arrived,     \* SUBSET Tasks: Inbox.gen moved on since the consumer was started
  missed,      \* SUBSET Tasks: start found a consumer that was leaving (history)
  reclaimed,   \* SUBSET Tasks: claims of dead processes taken back
  ending,      \* [Tasks -> {"done", "stopped"}]: how the handler returned
  \* the doors
  door,        \* SUBSET Tasks: acceptances between the row and the message
  stop,        \* [Stoppers -> [at, task, copy, target]]: the stopTask calls
  ready,       \* the platform's last poll said canRestart
  person,      \* SUBSET Tasks: a person's stop stands (history)
  notifies, terms, kills, stops

store == <<row, by, status, task, kind, last>>
consumer == <<pc, cur, reclaimed, ending>>
bounds == <<notifies, terms, kills, stops>>
wake == <<resuming, starting, arrived, missed>>
vars == <<store, phase, todo, resumed, draining, held, wake, inFlight, reason, cancelled,
          consumer, door, stop, person, ready, bounds>>

Rows == {"none", "pending", "running", "ended", "stopped"}
Statuses == {"absent", "queued", "running", "done", "stopped"}
Phases == {"booting", "scanAccepted", "scanInterrupted", "up", "idleWait", "stopping",
           "closing", "down"}
Leaving == {"idleWait", "stopping", "closing"}
Stages == {"none", "reclaim", "claim", "hold", "requeue", "mark", "register", "run",
           "clear", "leave", "finish", "end"}
\* Between the claim's last question to the drain and the registry, and back out.
InRun == {"mark", "register", "run", "clear", "leave"}
StopStages == {"no", "load", "cancel", "record", "mark"}
NoStop == [at |-> "no", task |-> NoTask, copy |-> "none", target |-> 0]

Mine(t) == {i \in Ids : task[i] = t /\ status[i] # "absent"}
QueuedOf(t) == {i \in Mine(t) : status[i] = "queued"}
RunningOf(t) == {i \in Mine(t) : status[i] = "running"}

Init ==
  /\ row = [t \in Tasks |-> "none"] /\ by = [t \in Tasks |-> "none"]
  /\ status = [i \in Ids |-> "absent"]
  /\ task = [i \in Ids |-> NoTask]
  /\ kind = [i \in Ids |-> "instruction"] /\ last = 0
  /\ phase = "up" /\ todo = {} /\ resumed = {}
  /\ draining = FALSE /\ held = {}
  /\ resuming = FALSE /\ starting = {} /\ arrived = {} /\ missed = {}
  /\ inFlight = [t \in Tasks |-> 0] /\ reason = [t \in Tasks |-> "none"]
  /\ cancelled = {}
  /\ pc = [t \in Tasks |-> "none"] /\ cur = [t \in Tasks |-> 0]
  /\ reclaimed = {} /\ ending = [t \in Tasks |-> "done"]
  /\ door = {} /\ stop = [s \in Stoppers |-> NoStop] /\ person = {} /\ ready = FALSE
  /\ notifies = 0 /\ terms = 0 /\ kills = 0 /\ stops = 0

-----------------------------------------------------------------------------
(* The inbox as the runtime uses it (its interleavings are module Inbox's).*)

Alive == phase # "down"

\* The consumer will look at the queue again, or endDrain will start it again.
Coming(t) == pc[t] \notin {"none", "requeue", "end"} \/ (pc[t] = "end" /\ t \in arrived)

\* mutant: holdStart answers TRUE and forgets the agent
HoldNone(t) == held

\* holdStart: remembered by name.
HoldBack(t) == held \cup {t}

\* Inbox.start: held while draining, else one consumer.
InboxStart(t) ==
  \/ /\ draining
     /\ held' = HoldBack(t) /\ UNCHANGED <<pc, missed>>
  \/ /\ ~draining /\ pc[t] = "none"
     /\ pc' = [pc EXCEPT ![t] = "reclaim"]
     /\ missed' = missed \ {t} /\ UNCHANGED held
  \/ /\ ~draining /\ pc[t] # "none"
     /\ missed' = IF Coming(t) THEN missed ELSE missed \cup {t}
     /\ UNCHANGED <<pc, held>>

\* Inbox.enqueue: the row and the generation, then a call of start.
EnqueueFor(t, k) ==
  /\ last' = last + 1
  /\ status' = [status EXCEPT ![last + 1] = "queued"]
  /\ task' = [task EXCEPT ![last + 1] = t]
  /\ kind' = [kind EXCEPT ![last + 1] = k]
  /\ arrived' = IF pc[t] = "none" THEN arrived ELSE arrived \cup {t}
  /\ starting' = starting \cup {t}
  /\ UNCHANGED <<pc, held, resuming, missed>>

StartCall(t) ==
  /\ Alive /\ t \in starting
  /\ starting' = starting \ {t}
  /\ InboxStart(t)
  /\ UNCHANGED <<store, phase, todo, resumed, draining, resuming, arrived, inFlight, reason,
                 cancelled, cur, reclaimed, ending, door, stop, person, ready, bounds>>

Goto(t, stage) == pc' = [pc EXCEPT ![t] = stage]

Reclaim(t) ==
  /\ Alive /\ pc[t] = "reclaim"
  /\ Goto(t, "claim")
  /\ reclaimed' = reclaimed \cup {t}
  /\ status' = IF t \in reclaimed THEN status
               ELSE [i \in Ids |-> IF i \in RunningOf(t) THEN "queued" ELSE status[i]]
  /\ UNCHANGED <<row, by, task, kind, last, phase, todo, resumed, draining, held, wake,
                 inFlight, reason, cancelled, cur, ending, door, stop, person, ready, bounds>>

\* The oldest queued message; a stop's record is finished as it is read.
Claim(t) ==
  /\ Alive /\ pc[t] = "claim"
  /\ \E i \in QueuedOf(t) :
       /\ \A j \in QueuedOf(t) : i <= j
       /\ status' = [status EXCEPT ![i] = "running"]
       /\ cur' = [cur EXCEPT ![t] = i]
       /\ ending' = [ending EXCEPT ![t] = "done"]
       /\ Goto(t, IF kind[i] = "stop" THEN "finish" ELSE "hold")
  /\ UNCHANGED <<row, by, task, kind, last, phase, todo, resumed, draining, held, wake,
                 inFlight, reason, cancelled, reclaimed, door, stop, person, ready,
                 bounds>>

Idle(t) ==
  /\ Alive /\ pc[t] = "claim" /\ QueuedOf(t) = {}
  /\ Goto(t, "end")
  /\ UNCHANGED <<store, phase, todo, resumed, draining, held, wake, inFlight, reason,
                 cancelled, cur, reclaimed, ending, door, stop, person, ready, bounds>>

\* A new run asks the drain, under Inbox.mu.
HoldCheck(t) ==
  /\ Alive /\ pc[t] = "hold"
  /\ held' = IF draining THEN HoldBack(t) ELSE held
  /\ Goto(t, IF draining THEN "requeue" ELSE "mark")
  /\ UNCHANGED <<store, phase, todo, resumed, draining, wake, inFlight, reason,
                 cancelled, cur, reclaimed, ending, door, stop, person, ready, bounds>>

\* RequeueMessage: back where it was in the queue.
Requeue(t) ==
  /\ Alive /\ pc[t] = "requeue"
  /\ status' = [status EXCEPT ![cur[t]] = "queued"]
  /\ cur' = [cur EXCEPT ![t] = 0]
  /\ Goto(t, "end")
  /\ UNCHANGED <<row, by, task, kind, last, phase, todo, resumed, draining, held, wake,
                 inFlight, reason, cancelled, reclaimed, ending, door, stop, person,
                 ready, bounds>>

\* endDrain: the consumer is gone; start is called again if a message arrived.
EndDrain(t) ==
  /\ Alive /\ pc[t] = "end"
  /\ Goto(t, "none")
  /\ arrived' = arrived \ {t}
  /\ starting' = IF t \in arrived THEN starting \cup {t} ELSE starting
  /\ UNCHANGED <<store, phase, todo, resumed, draining, held, resuming, missed, inFlight,
                 reason, cancelled, cur, reclaimed, ending, door, stop, person, ready,
                 bounds>>

-----------------------------------------------------------------------------
(* processInstruction and the end of runLoop.                              *)

Mark(t) ==
  /\ Alive /\ pc[t] = "mark"
  /\ row' = [row EXCEPT ![t] = "running"]
  /\ person' = person \ {t}
  /\ Goto(t, "register")
  /\ UNCHANGED <<by, status, task, kind, last, phase, todo, resumed, draining, held, wake,
                 inFlight, reason, cancelled, cur, reclaimed, ending, door, stop,
                 ready, bounds>>

Register(t) ==
  /\ Alive /\ pc[t] = "register"
  /\ inFlight' = [inFlight EXCEPT ![t] = cur[t]]
  /\ Goto(t, "run")
  /\ UNCHANGED <<store, phase, todo, resumed, draining, held, wake, reason, cancelled, cur,
                 reclaimed, ending, door, stop, person, ready, bounds>>

\* The loop ends by itself (completed, blocked, need_input, unverified, error).
Conclude(t) ==
  /\ Alive /\ pc[t] = "run"
  /\ row' = [row EXCEPT ![t] = "ended"]
  /\ ending' = [ending EXCEPT ![t] = "done"]
  /\ Goto(t, "clear")
  /\ UNCHANGED <<by, status, task, kind, last, phase, todo, resumed, draining, held, wake,
                 inFlight, reason, cancelled, cur, reclaimed, door, stop, person, ready,
                 bounds>>

\* markStopped on a Task value: what a stopped row says of who did it.
Blamed(t) == IF reason[t] = "runtime" THEN "runtime" ELSE "user"

\* The loop sees its context cancelled: markStopped on the run's own Task.
Unwind(t) ==
  /\ Alive /\ pc[t] = "run" /\ cur[t] \in cancelled
  /\ row' = [row EXCEPT ![t] = "stopped"]
  /\ by' = [by EXCEPT ![t] = Blamed(t)]
  /\ ending' = [ending EXCEPT ![t] = "stopped"]
  /\ Goto(t, "clear")
  /\ UNCHANGED <<status, task, kind, last, phase, todo, resumed, draining, held, wake,
                 inFlight, reason, cancelled, cur, reclaimed, door, stop, person, ready,
                 bounds>>

ClearReason(t) ==
  /\ Alive /\ pc[t] = "clear"
  /\ reason' = [reason EXCEPT ![t] = "none"]
  /\ Goto(t, "leave")
  /\ UNCHANGED <<store, phase, todo, resumed, draining, held, wake, inFlight, cancelled,
                 cur, reclaimed, ending, door, stop, person, ready, bounds>>

\* mutant: the run leaves its cancel func in the registry
LeftBehind(t) == inFlight

\* inFlightTasks.Delete.
Left(t) == [inFlight EXCEPT ![t] = 0]

Leave(t) ==
  /\ Alive /\ pc[t] = "leave"
  /\ inFlight' = Left(t)
  /\ Goto(t, "finish")
  /\ UNCHANGED <<store, phase, todo, resumed, draining, held, wake, reason, cancelled, cur,
                 reclaimed, ending, door, stop, person, ready, bounds>>

Finish(t) ==
  /\ Alive /\ pc[t] = "finish"
  /\ status' = [status EXCEPT ![cur[t]] = ending[t]]
  /\ cur' = [cur EXCEPT ![t] = 0]
  /\ Goto(t, "claim")
  /\ UNCHANGED <<row, by, task, kind, last, phase, todo, resumed, draining, held, wake,
                 inFlight, reason, cancelled, reclaimed, ending, door, stop, person,
                 ready, bounds>>

-----------------------------------------------------------------------------
(* The doors.                                                              *)

\* Messages already promised: an acceptance or a stop under way writes one.
Room == last + Cardinality(door) + Cardinality({s \in Stoppers : stop[s].at # "no"})
          < MaxMsg
\* A request that was being answered when SIGTERM came is still answered.
Serving == phase \in {"up", "idleWait", "stopping"}

\* accept: the row is written pending, whatever it said, before the message is.
AcceptRow(t) ==
  /\ Serving /\ Room /\ t \notin door
  /\ door' = door \cup {t}
  /\ row' = [row EXCEPT ![t] = "pending"]
  /\ by' = [by EXCEPT ![t] = "none"]
  /\ person' = person \ {t}
  /\ UNCHANGED <<status, task, kind, last, phase, todo, resumed, draining, held, wake,
                 inFlight, reason, cancelled, consumer, stop, ready, bounds>>

AcceptMessage(t) ==
  /\ Alive /\ t \in door
  /\ door' = door \ {t}
  /\ EnqueueFor(t, "instruction")
  /\ UNCHANGED <<row, by, phase, todo, resumed, draining, inFlight, reason, cancelled,
                 cur, reclaimed, ending, stop, person, ready, bounds>>

\* The acceptance fails between the two (pinning its contract, the queue's insert).
AcceptFails(t) ==
  /\ Alive /\ t \in door
  /\ door' = door \ {t}
  /\ UNCHANGED <<store, phase, todo, resumed, draining, held, wake, inFlight, reason,
                 cancelled, consumer, stop, person, ready, bounds>>

\* notifyWorldEvent: an observation of a task that has an agent; no row is written.
\* The feed is up before the boot scans are.
Observe(t) ==
  /\ Alive /\ Room /\ row[t] # "none"
  /\ EnqueueFor(t, "observation")
  /\ person' = person \ {t}
  /\ UNCHANGED <<row, by, phase, todo, resumed, draining, inFlight, reason, cancelled,
                 cur, reclaimed, ending, door, stop, ready, bounds>>

\* stopTask, called by s: GetTask from the writer first.
StopRead(s, t) ==
  /\ stop[s].at = "no" /\ row[t] # "none"
  /\ stop' = [stop EXCEPT ![s] =
       [at |-> "load", task |-> t, copy |-> row[t], target |-> 0]]

StopTask(t) ==
  /\ Serving /\ Room /\ stops < MaxStop
  /\ stops' = stops + 1
  /\ StopRead("user", t)
  /\ UNCHANGED <<store, phase, todo, resumed, draining, held, wake, inFlight, reason,
                 cancelled, consumer, door, person, ready, notifies, terms, kills>>

\* The registry's answer: errTaskNotRunning, or the cancel func to call.
StopLoad(s) ==
  /\ Alive /\ stop[s].at = "load"
  /\ stop' = [stop EXCEPT ![s] =
       IF inFlight[@.task] = 0 THEN NoStop
       ELSE [@ EXCEPT !.at = "cancel", !.target = inFlight[stop[s].task]]]
  /\ UNCHANGED <<store, phase, todo, resumed, draining, held, wake, inFlight, reason,
                 cancelled, consumer, door, person, ready, bounds>>

StopCancel(s) ==
  /\ Alive /\ stop[s].at = "cancel"
  /\ reason' = [reason EXCEPT ![stop[s].task] = s]
  /\ cancelled' = cancelled \cup {stop[s].target}
  /\ stop' = [stop EXCEPT ![s].at = "record"]
  /\ UNCHANGED <<store, phase, todo, resumed, draining, held, wake, inFlight, consumer, door,
                 person, ready, bounds>>

StopRecord(s) ==
  /\ Alive /\ stop[s].at = "record"
  /\ EnqueueFor(stop[s].task, "stop")
  /\ stop' = [stop EXCEPT ![s].at = "mark"]
  /\ UNCHANGED <<row, by, phase, todo, resumed, draining, inFlight, reason, cancelled,
                 cur, reclaimed, ending, door, person, ready, bounds>>

\* markStopped on the Task read at the start of the stop: an outcome it saw stays.
StopMark(s) ==
  LET t == stop[s].task IN
  /\ Alive /\ stop[s].at = "mark"
  /\ IF stop[s].copy \in {"pending", "running"}
       THEN /\ row' = [row EXCEPT ![t] = "stopped"]
            /\ by' = [by EXCEPT ![t] = Blamed(t)]
            /\ person' = IF s = "user" THEN person \cup {t} ELSE person
       ELSE UNCHANGED <<row, by, person>>
  /\ stop' = [stop EXCEPT ![s] = NoStop]
  /\ UNCHANGED <<status, task, kind, last, phase, todo, resumed, draining, held, wake,
                 inFlight, reason, cancelled, consumer, door, ready, bounds>>

-----------------------------------------------------------------------------
(* An announced restart and the end of the process.                        *)

RestartNotify ==
  /\ phase = "up" /\ notifies < MaxNotify
  /\ notifies' = notifies + 1
  /\ draining' = TRUE /\ ready' = FALSE
  /\ UNCHANGED <<store, phase, todo, resumed, held, wake, inFlight, reason, cancelled,
                 consumer, door, stop, person, terms, kills, stops>>

\* The safety timeout: finish takes the drain down and unlocks before it calls
\* resume. (A drain lasts longer than the call of the one before it.)
DrainTimeout ==
  /\ phase = "up" /\ draining /\ ~resuming
  /\ draining' = FALSE /\ resuming' = TRUE
  /\ UNCHANGED <<store, phase, todo, resumed, held, starting, arrived, missed, inFlight,
                 reason, cancelled, consumer, door, stop, person, ready, bounds>>

\* resumePaused: the held agents are swapped out and started one by one.
ResumePaused ==
  /\ Alive /\ resuming
  /\ resuming' = FALSE
  /\ starting' = starting \cup held /\ held' = {}
  /\ UNCHANGED <<store, phase, todo, resumed, draining, arrived, missed, inFlight, reason,
                 cancelled, consumer, door, stop, person, ready, bounds>>

\* RestartStatus.CanRestart.
CanRestart == \A t \in Tasks : inFlight[t] = 0

\* GET /api/ops/restart-status.
Poll ==
  /\ phase = "up" /\ draining
  /\ ready' = CanRestart
  /\ UNCHANGED <<store, phase, todo, resumed, draining, held, wake, inFlight, reason,
                 cancelled, consumer, door, stop, person, bounds>>

\* SIGTERM: Shutdown enters a drain of its own and waits for idle runs.
Term ==
  /\ phase = "up" /\ terms < MaxTerm
  /\ Forced \/ ready
  /\ terms' = terms + 1
  /\ phase' = "idleWait" /\ draining' = TRUE
  /\ UNCHANGED <<store, todo, resumed, held, wake, inFlight, reason, cancelled, consumer,
                 door, stop, person, ready, notifies, kills, stops>>

\* waitForIdleRuns: nothing in flight, or its context is done first.
IdleSeen ==
  /\ phase = "idleWait" /\ CanRestart
  /\ phase' = "closing" /\ draining' = FALSE
  /\ UNCHANGED <<store, todo, resumed, held, wake, inFlight, reason, cancelled, consumer,
                 door, stop, person, ready, bounds>>

GraceOver ==
  /\ phase = "idleWait" /\ ~CanRestart
  /\ phase' = "stopping"
  /\ todo' = {t \in Tasks : inFlight[t] # 0}
  /\ UNCHANGED <<store, resumed, draining, held, wake, inFlight, reason, cancelled, consumer,
                 door, stop, person, ready, bounds>>

ShutdownStops(t) ==
  /\ phase = "stopping" /\ t \in todo /\ Room
  /\ todo' = todo \ {t}
  /\ StopRead("runtime", t)
  /\ UNCHANGED <<store, phase, resumed, draining, held, wake, inFlight, reason, cancelled,
                 consumer, door, person, ready, bounds>>

\* The second waitForIdleRuns has a context that is already done: Shutdown returns,
\* and Close takes the drain down first (RestartDrain.stop).
StopsDone ==
  /\ phase = "stopping" /\ todo = {} /\ stop["runtime"].at = "no"
  /\ phase' = "closing" /\ draining' = FALSE
  /\ UNCHANGED <<store, todo, resumed, held, wake, inFlight, reason, cancelled, consumer,
                 door, stop, person, ready, bounds>>

\* The process is gone: exit after Close, or SIGKILL.
Gone ==
  /\ phase' = "down" /\ todo' = {} /\ resumed' = {}
  /\ draining' = FALSE /\ held' = {}
  /\ resuming' = FALSE /\ starting' = {} /\ arrived' = {} /\ missed' = {}
  /\ inFlight' = [t \in Tasks |-> 0] /\ reason' = [t \in Tasks |-> "none"]
  /\ cancelled' = {}
  /\ pc' = [t \in Tasks |-> "none"] /\ cur' = [t \in Tasks |-> 0]
  /\ reclaimed' = {} /\ ending' = [t \in Tasks |-> "done"]
  /\ door' = {} /\ stop' = [s \in Stoppers |-> NoStop]
  /\ ready' = FALSE
  /\ UNCHANGED <<store, person>>

Exit ==
  /\ phase = "closing"
  /\ Gone /\ UNCHANGED bounds

Kill ==
  /\ Alive /\ kills < MaxKill
  /\ kills' = kills + 1
  /\ Gone /\ UNCHANGED <<notifies, terms, stops>>

-----------------------------------------------------------------------------
(* The boot.                                                               *)

\* BootstrapAutonomy up to startEventCenterFeed: no run, no registry, the feed is up.
Boot ==
  /\ phase = "down"
  /\ phase' = "booting"
  /\ UNCHANGED <<store, todo, resumed, draining, held, wake, inFlight, reason, cancelled,
                 consumer, door, stop, person, ready, bounds>>

Open(t) == row[t] \in {"pending", "running"}

\* mutant: only a task marked running is looked at
ListsRunningOnly == {t \in Tasks : row[t] = "running"}

\* The open tasks among the rows resumeAcceptedInstructions lists.
ListsOpen == {t \in Tasks : Open(t)}

\* mutant: a row that was still pending when the process died is not resumable
RunningRowOnly(t) == row[t] = "running" \/ (row[t] = "stopped" /\ by[t] = "runtime")

\* resumableAfterCut.
ResumableAfterCut(t) == Open(t) \/ (row[t] = "stopped" /\ by[t] = "runtime")

\* Each scan lists the task rows once, and visits what it listed with that reading.
NextScan ==
  /\ phase \in {"booting", "scanAccepted", "scanInterrupted"} /\ todo = {}
  /\ phase' = CASE phase = "booting" -> "scanAccepted"
                [] phase = "scanAccepted" -> "scanInterrupted"
                [] phase = "scanInterrupted" -> "up"
  /\ todo' = CASE phase = "booting" -> ListsOpen
               [] phase = "scanAccepted" -> {t \in Tasks : ResumableAfterCut(t)}
               [] phase = "scanInterrupted" -> {}
  /\ UNCHANGED <<store, resumed, draining, held, wake, inFlight, reason, cancelled, consumer,
                 door, stop, person, ready, bounds>>

Visit(t, chosen) ==
  /\ t \in todo
  /\ todo' = todo \ {t}
  /\ IF chosen THEN InboxStart(t) ELSE UNCHANGED <<pc, held, missed>>
  /\ UNCHANGED <<store, phase, draining, resuming, starting, arrived, inFlight, reason,
                 cancelled, cur, reclaimed, ending, door, stop, person, ready, bounds>>

\* A queued message and none the dead process was on.
NeverStarted(t) == QueuedOf(t) # {} /\ RunningOf(t) = {}

ScanAccepted(t) ==
  /\ phase = "scanAccepted"
  /\ Visit(t, NeverStarted(t))
  /\ UNCHANGED resumed

ScanInterrupted(t) ==
  /\ phase = "scanInterrupted"
  /\ Visit(t, RunningOf(t) # {})
  /\ resumed' = IF RunningOf(t) # {} THEN resumed \cup {t} ELSE resumed

-----------------------------------------------------------------------------
Consumer(t) ==
  \/ Reclaim(t) \/ Claim(t) \/ Idle(t) \/ HoldCheck(t) \/ Requeue(t) \/ EndDrain(t)
  \/ Mark(t) \/ Register(t) \/ Conclude(t) \/ Unwind(t) \/ ClearReason(t) \/ Leave(t)
  \/ Finish(t)
StopCall(s) == StopLoad(s) \/ StopCancel(s) \/ StopRecord(s) \/ StopMark(s)
Process ==
  \/ IdleSeen \/ GraceOver \/ StopsDone \/ Exit \/ Boot \/ NextScan
  \/ \E t \in Tasks : ShutdownStops(t) \/ ScanAccepted(t) \/ ScanInterrupted(t)

Next ==
  \/ \E t \in Tasks : Consumer(t) \/ AcceptRow(t) \/ AcceptMessage(t) \/ AcceptFails(t)
                      \/ Observe(t) \/ StopTask(t) \/ StartCall(t)
  \/ \E s \in Stoppers : StopCall(s)
  \/ RestartNotify \/ DrainTimeout \/ ResumePaused \/ Poll \/ Term \/ Kill
  \/ Process

Spec == Init /\ [][Next]_vars

\* Goroutines run, runs end, the drain's timer fires, the process moves on.
Fairness ==
  /\ \A t \in Tasks :
       WF_vars(Consumer(t)) /\ WF_vars(AcceptMessage(t)) /\ WF_vars(StartCall(t))
  /\ \A s \in Stoppers : WF_vars(StopCall(s))
  /\ WF_vars(DrainTimeout) /\ WF_vars(ResumePaused) /\ WF_vars(Process)

FairSpec == Spec /\ Fairness

-----------------------------------------------------------------------------
(* Correctness.                                                            *)

TypeStore ==
  /\ row \in [Tasks -> Rows] /\ by \in [Tasks -> Stoppers \cup {"none"}]
  /\ status \in [Ids -> Statuses] /\ task \in [Ids -> Tasks \cup {NoTask}]
  /\ kind \in [Ids -> Kinds] /\ last \in 0..MaxMsg

TypeMemory ==
  /\ phase \in Phases /\ todo \subseteq Tasks /\ resumed \subseteq Tasks
  /\ draining \in BOOLEAN /\ held \subseteq Tasks
  /\ inFlight \in [Tasks -> Ids \cup {0}]
  /\ reason \in [Tasks -> Stoppers \cup {"none"}] /\ cancelled \subseteq Ids
  /\ resuming \in BOOLEAN /\ starting \subseteq Tasks
  /\ door \subseteq Tasks /\ person \subseteq Tasks /\ ready \in BOOLEAN
  /\ notifies \in 0..MaxNotify /\ terms \in 0..MaxTerm
  /\ kills \in 0..MaxKill /\ stops \in 0..MaxStop

TypeConsumer ==
  /\ pc \in [Tasks -> Stages] /\ cur \in [Tasks -> Ids \cup {0}]
  /\ reclaimed \subseteq Tasks /\ ending \in [Tasks -> {"done", "stopped"}]
  /\ arrived \subseteq Tasks /\ missed \subseteq Tasks
  /\ \A t \in Tasks : pc[t] \in InRun \cup {"hold", "requeue", "finish"} => cur[t] \in Ids

TypeStop ==
  /\ stop \in [Stoppers -> [at : StopStages, task : Tasks \cup {NoTask}, copy : Rows,
                            target : Ids \cup {0}]]
  /\ \A s \in Stoppers : stop[s].at # "no" => stop[s].task \in Tasks

\* Rows, registry and goroutines keep their types.
TypeOK == TypeStore /\ TypeMemory /\ TypeConsumer /\ TypeStop

\* The task's agent has a consumer that looks again, or the process owes it one.
Attended(t) == Coming(t) \/ t \in held \cup starting
Sole(i) == \A j \in Ids : j # i => task[j] # task[i]

\* No process has ended since the one that came up behind a run cut by Shutdown:
\* the cut takes a SIGTERM and a SIGKILL, the next end a third signal.
CutsHealed == terms = 0 \/ terms + kills < 3

\* Restarts, graceful or not, lose no task's first instruction: once the boot
\* scans are over it has a consumer that will claim it, or a start is owed to it,
\* by the drain that holds it, by resumePaused or by whoever enqueued it. Two
\* exceptions are named: a run that Shutdown cut has its row stopped, and when the
\* process ends again after its message was taken back and before the row is
\* written, no scan of the next process finds it (CutsHealed); and a start that
\* meets a consumer between its hold decision and endDrain does nothing (missed,
\* the lost wake-up of module Inbox).
FirstInstructionSurvives ==
  phase = "up" /\ CutsHealed => \A i \in Ids :
    status[i] = "queued" /\ Sole(i) => Attended(task[i]) \/ task[i] \in missed

\* A run the process died in is re-entered at boot: when the scans end, a message
\* still running for a task whose row is open has its consumer back.
CutRunsHealed ==
  [][phase = "scanInterrupted" /\ phase' = "up" => \A i \in Ids :
       status[i] = "running" /\ Open(task[i]) => Attended(task[i])]_vars

\* What the registry would cancel is the run of that task: never the message
\* behind it, never a run that has ended.
RegistryNamesTheRun ==
  \A t \in Tasks : inFlight[t] # 0 => inFlight[t] = cur[t] /\ status[cur[t]] = "running"

\* A task's only instruction is eventually answered, whatever SIGKILLs, stops and
\* announced restarts come in between: its message is over, or (the process died
\* between the two writes) the outcome of its run is on the task's row. Left out
\* are a SIGTERM (a run that Shutdown cuts is not re-entered in every case) and a
\* start that was missed: its message waits for the next enqueue or process.
SoleInstructionAnswered ==
  \A i \in Ids : status[i] = "queued" ~>
    \/ status[i] \in {"done", "stopped"}
    \/ status[i] # "absent" /\ row[task[i]] \in {"ended", "stopped"}
    \/ ~Sole(i) \/ terms > 0 \/ task[i] \in missed

\* "the process that comes up after the restart does ... Nothing a caller handed
\* over is lost": after the boot scans every queued instruction has a consumer.
AcceptedSurvives ==
  phase = "up" => \A i \in Ids :
    status[i] = "queued" /\ kind[i] = "instruction" => Attended(task[i])

\* "What safe means here is: nothing is being run": with a restart announced, an
\* answer of canRestart means no agent is inside a run.
CanRestartIsSafe ==
  draining /\ CanRestart => \A t \in Tasks : pc[t] \notin {"mark", "register", "run"}

\* "so a restart cutting a run is not recorded as the user's stop": a row says
\* stopped without naming the runtime only when a person asked for a stop.
RuntimeStopIsNamed ==
  \A t \in Tasks : row[t] = "stopped" /\ by[t] = "user" => stops > 0

\* A restart loses no run it cut: after the boot scans a task the runtime stopped
\* for its own restart is being worked on again.
CutRunsComeBack ==
  phase = "up" => \A t \in Tasks :
    row[t] = "stopped" /\ by[t] = "runtime" => Attended(t)

\* "a task a person stopped was stopped on purpose: this runtime does not re-enter
\* either of those on boot".
PersonStopStays == [][resumed' \cap person \subseteq resumed]_vars

StartsARun == \E t \in Tasks : pc[t] = "hold" /\ pc'[t] = "mark"

\* Shutdown: "no new run starts (a drain that never expires ...)", until the
\* process is gone.
NoRunStartsInShutdown ==
  [][StartsARun => phase \notin Leaving]_vars

\* "the scan of this boot does not do that": a run a process was killed in waits
\* for the next instruction.
BootLeavesCutRuns == resumed = {}

-----------------------------------------------------------------------------
(* The inductive invariant behind them (GracefulRestartProofs).            *)

Working == InRun \cup {"hold", "requeue", "finish"}

\* Rows are numbered without gaps and belong to a task.
RowsInv ==
  \A i \in Ids : /\ status[i] = "absent" <=> last < i
                 /\ IF status[i] = "absent" THEN task[i] = NoTask ELSE task[i] \in Tasks

\* The stops that still have a message to write.
Owing == {s \in Stoppers : stop[s].at \in {"load", "cancel", "record"}}

\* There is room for the messages promised.
RoomInv == IsFiniteSet(door) /\ last + Cardinality(door) + Cardinality(Owing) <= MaxMsg

\* What a consumer works on is a running row of its task, and the registry names
\* it from Register to Leave.
ConsumerInv ==
  \A t \in Tasks :
    /\ pc[t] \in Working => status[cur[t]] = "running" /\ task[cur[t]] = t
    /\ inFlight[t] # 0 => pc[t] \in {"run", "clear", "leave"} /\ inFlight[t] = cur[t]
    /\ pc[t] \notin {"none", "reclaim"} => t \in reclaimed

Held(i) == pc[task[i]] \in Working /\ cur[task[i]] = i

\* A running row nobody works on was left by a dead process whose claims have not
\* been taken back.
OrphanInv == \A i \in Ids : status[i] = "running" /\ task[i] \in reclaimed => Held(i)

\* Nothing is held before the boot is over.
DrainInv ==
  /\ draining => phase \in {"up", "idleWait", "stopping"}
  /\ phase \notin {"up"} \cup Leaving =>
       held = {} /\ ~resuming /\ \A t \in Tasks : pc[t] # "requeue"
  /\ phase = "down" => starting = {} /\ \A t \in Tasks : pc[t] = "none"

\* A start is owed to the agent of a consumer that puts its message back, and to
\* one whose consumer leaves a message behind, or was missed.
OwedOrMissed(t) == t \in held \cup starting \cup missed
WakeInv ==
  \A t \in Tasks :
    /\ pc[t] = "requeue" => OwedOrMissed(t)
    /\ pc[t] = "end" /\ QueuedOf(t) # {} => t \in arrived \/ OwedOrMissed(t)

\* A stop under way is a stop of a message this process ran; past its record the
\* task has a second message.
StopKept(s) ==
  LET i == stop[s].target IN
  /\ stop[s].at # "no" => phase \in {"up"} \cup Leaving
  /\ stop[s].at \in {"cancel", "record"} =>
       /\ i \in Ids /\ task[i] = stop[s].task /\ status[i] \notin {"absent", "queued"}
       /\ status[i] = "running" =>
            Held(i) /\ pc[task[i]] \in {"run", "clear", "leave", "finish"}
  /\ stop[s].at = "mark" =>
       \E j, k \in Ids : j # k /\ task[j] = stop[s].task /\ task[k] = stop[s].task

StopInv == \A s \in Stoppers : StopKept(s)

\* The runtime stopped the run for its own restart.
CutByRestart(t) == row[t] = "stopped" /\ by[t] = "runtime"

\* The runtime stops tasks only in Shutdown; a task it stopped that still has one
\* message is being stopped right now, or was when the process was killed.
CutInv ==
  /\ phase \in Leaving => terms > 0
  /\ stop["runtime"].at # "no" => phase = "stopping"
  /\ \A t \in Tasks : reason[t] = "runtime" => \E i \in Ids : task[i] = t
  /\ \A i \in Ids : Sole(i) /\ task[i] \in Tasks =>
       /\ reason[task[i]] = "runtime" =>
            stop["runtime"].at = "record" /\ stop["runtime"].target = i
       /\ CutByRestart(task[i]) =>
            \/ stop["runtime"].at = "record" /\ stop["runtime"].target = i
            \/ terms > 0 /\ kills > 0 /\ (phase \in Leaving => terms > 1)

Findable(t) == Open(t) \/ CutByRestart(t)

\* The first instruction of a task waits behind a row that one of the two scans
\* looks at; so it does while its consumer may still put it back, and when its
\* agent is started after the process that ran it has died.
FirstFound(i) ==
  LET t == task[i] IN
  /\ status[i] = "queued" => Findable(t)
  /\ Held(i) /\ pc[t] \in {"hold", "requeue"} => Findable(t)
  /\ status[i] = "running" /\ ~Held(i) /\ Attended(t) =>
       Findable(t) /\ phase \notin {"down", "booting"}
  /\ status[i] = "queued" /\ CutsHealed =>
       IF phase \in {"down", "booting"} THEN Open(t)
       ELSE Attended(t) \/ t \in missed \/ (phase = "scanAccepted" /\ t \in todo)

FirstInv ==
  /\ \A t \in door : row[t] # "none"
  /\ \A t \in Tasks : (\A i \in Ids : task[i] # t) => row[t] \in {"none", "pending"}
  /\ \A i \in Ids : Sole(i) /\ task[i] \in Tasks => FirstFound(i)

\* The second scan has visited, or will, every open task with a running message.
ScanInv ==
  /\ phase = "scanInterrupted" =>
       /\ \A i \in Ids : status[i] = "running" /\ Open(task[i]) =>
            Attended(task[i]) \/ task[i] \in todo
       /\ \A t \in todo \ reclaimed : Findable(t)
  /\ phase \in {"down", "booting"} => todo = {}

RestartInv ==
  /\ RowsInv /\ RoomInv /\ ConsumerInv /\ OrphanInv /\ DrainInv /\ WakeInv /\ StopInv
  /\ CutInv /\ FirstInv /\ ScanInv
=============================================================================
