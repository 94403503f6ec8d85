# A TLA+ model of autonomy

autonomy is a Go daemon that turns instructions into runs of LLM agents. A task
has one planner agent; a message for an agent is a row in its inbox; a consumer
goroutine takes the messages one at a time and runs the decide / execute /
observe loop for each. The process is restarted by deploys while it works, and
tells the deploy platform when that is safe.

This directory models the parts of it where ordering, failure and concurrency
decide whether an instruction is lost, run twice or cut in half, whether a task
is called completed that is not, and whether two callers of one store, bridge
or cache get what is theirs.

Paths below are relative to the repository (`src/inbox.go` is the Go package's
`src/` directory, `cmd/` and `docs/` are the repository's).

## Inventory

| component | state it keeps | operations | what must be right |
|---|---|---|---|
| agent inbox (`inbox.go`, `db/sqlite_inbox.go`) | rows `agent_messages`; in memory `running`, `gen`, `reclaim`, `waiters`, `cancels`, `held` | `Enqueue`, `Send`, `Accept`, `Stop`, `start`, `drain`, `process`, `endDrain`, `resumePaused` | one consumer per agent, arrival order, no lost wake-up, every caller answered once and after its message ended |
| restart drain (`graceful.go`) | `active`, `notice`, `timer` under its own lock | `begin`, timer callback, `finish`, `stop`, `paused` | what it holds is handed back; no stale timer ends a later drain |
| graceful restart and boot (`graceful.go`, `cmd/autonomyd`) | task rows, message rows, `inFlightTasks` | `RestartNotify`, `RestartStatus`, `Shutdown`, `Close`, the two boot scans | no accepted instruction and no cut run is lost; `canRestart` is true only when nothing runs |
| acceptance and stop (`api_service.go`, `stop_reason.go`) | task rows, `inFlightTasks`, `stopReasons` | `AcceptTask`, `Run`, `StopTask` | the stop reaches the run it was meant for, and the row says who asked |
| decision loop (`autonomy.go`, `loop.go`, `decision.go`) | the run, its cycle, plan rows | `processInstruction`, `runLoop`, `dispatchExecute` | a stopped run acts no more; approvals release exactly the plan that waited |
| plan execution (`runtime.go`, `execution.go`, `action.go`) | plan and step rows | `Execute` | steps in order, each recorded once |
| agents and worker loans (`agent.go`, `runtime.go`, `capability/broker`) | `AgentFactory.agents`, loans | `ForTask`, `lendWorker`, release, end | one planner per task, a worker lent to one run at a time |
| LLM session (`llm_session.go`, `llmrun/idle.go`) | provider session, turn rows, idle timer | attach, prompt, retry, cancel, close | a timeout or a stop hits the turn it was meant for |
| provider bridges (`bridgesdk`, `cursorsdk`, ...) | a subprocess and its streams | start, cancel, events | a cancel does not reach the next turn |
| world events (`event_gateway.go`, `eventgateway`, `event_center.go`) | capped log, idempotency keys, feed cursor | ingest, notify, consume | an event wakes its task once; a failed ingest is not skipped |
| world watcher (`watcher/`) | watches, the poll loop | `Watch`, `poll`, `Close` | one loop, no result for a watch that is gone |
| verification (`verification.go`, `completion_contract.go`) | contract and verdict rows | pin, judge, refuse | no refused answer ends a task as completed |
| store engines (`store*.go`, `db/`) | SQLite or Postgres | one statement each | reads that precede a write come from the writer |
| context (`context_builder/`, `*_registry`) | caches shared by all runs | `Build`, resolvers | a section of a prompt is about one project and its organization |
| capabilities (`capability/`), git host, deployment control plane | pull requests, pipelines, trails | `code_edit`, `pr.check`, `service.deploy`, `deployment.monitor`, ... | an input is what the step it names reported; a watch reports what it saw |
| accounts (`agent_runtime.go`, `agent_account.go`) | the pool | resolve, edit | an agent bills the account it was given |
| task record, prompts and policies, HTTP pages, command line | text | | not modelled |

How they interact: HTTP handlers and the event feed call `Autonomy.accept` or
`notifyWorldEvent`, which write the task row and enqueue a message; the inbox
starts the agent's consumer; the consumer calls back into `Autonomy`
(`processInstruction`), which registers the run in `inFlightTasks`, runs the
loop and writes the task row; a capability inside the run delegates a prompt by
sending a message to a worker's inbox and waiting for it. The drain is asked by
the inbox, under the inbox's lock, before a start and before a claimed run; its
end calls back into the inbox (`resumePaused`). `Shutdown` calls the same
`stopTask` as a person's stop. After the process is gone, the next one reads
the rows and starts consumers again (`resumeAcceptedInstructions`,
`resumeInterruptedRuns`).

Hard behaviours: goroutines under two locks that are never held together for a
whole decision; flags checked and used in different critical sections; a timer
whose callback outlives `Timer.Stop`; rows of one task written by acceptance,
run and stop with no transaction around them; a process that may die between
any two store statements. `PROJECT.json` lists them as hazards at their lines.

## Modules

| module | models | kind |
|---|---|---|
| `Inbox` | `inbox.go` over `db/sqlite_inbox.go`: one action per critical section of `Inbox.mu` or per store statement | component |
| `AgentQueue` | what the inbox promises: one message at a time, in order, and an end is final | abstract specification |
| `InboxRefinement` | `Inbox` implements `AgentQueue` (the rows are the queue) | refinement |
| `RestartDrain` | `RestartDrain` of `graceful.go` with its timers, its lock and the inbox's | component |
| `GracefulRestart` | tasks, runs, registry, stops, announced restart, SIGTERM, SIGKILL, boot | composition |
| `RunLoop` | the decision loop of one task: acceptance, runs, cycles, executions on goroutines of their own, approval, contract and verification, stop, broadcast | component |
| `EventGateway` | `Gateway.Ingest`, `MemoryLog`, the wake of a task | component |
| `World` | the watcher and the event-center feed on top of `EventGateway` | composition |
| `Store` | what the store's ports promise | abstract specification |
| `StoreTables`, `SqliteStore`, `PostgresStore` | the tables and the two engines, statement by statement; the postgres module takes the statements the engines share from the sqlite one | component |
| `LLMTrace` | the trace of a turn as it is streamed into the postgres engine | component |
| `ChatMessages` | the folding of a stream into conversation messages | pure definitions |
| `Bridge` | one session behind a stdio bridge (cline, codex): transport, streams, stop calls, idle watchdog | component |
| `CursorRun` | one agent on the Cursor bridge, whose provider allows one active run | component |
| `DeepseekTurn` | one agent on the native harness, which keeps its own histories | component |
| `AgentRuntime` | which account an agent bills | pure definitions |
| `LLMSession` | attach, frame, prompt and retry of one session | definitions over an agent's record |
| `Workers` | agents, task pairing, worker loans and the sessions they speak on; uses `AgentRuntime` and `LLMSession` | composition |
| `PlanRules`, `GitHost`, `DeploymentMonitor` | validation of an answer, binding of inputs, judging of a criterion; the git capabilities; the deployment capabilities | pure definitions |
| `Delivery` | the plans of one task executed through the three modules above against hosts that move | composition |
| `ContextBuilder` | concurrent context builds through shared caches | component |
| `InboxProofs` (with the refinement), `GracefulRestartProofs` (with the drain), `RunLoopProofs`, `WorldProofs`, `BridgeProofs` (with the Cursor bridge), `WorkersProofs` (with the native harness), `DeliveryProofs` (with the context), `StoreProofs` (both engines and the trace) | theorems | proofs |
| `MC*` | instances for TLC | model checking |

A `\* mutant` definition beside an operator is the operator with a plausible
bug in it. It is used nowhere; put in the operator's place it shows that a
property can fail.

### Inbox

The store's variables (`status`, `to`, `kind`, `last`) survive a `Crash`; all
others are the process's memory. A goroutine inside the inbox is a member of
`Procs` with a program counter; the caller of `start` and the `go drain` it
spawns are the same member, because after the spawn the caller has only its own
outcome left. The stages and the code:

| stage | code |
|---|---|
| `start`, `launch` | `Inbox.start`: `holdStart`, then the `running` check |
| `reclaim` | `takeReclaim`, `RequeueRunningMessages` |
| `claim` | `ClaimNextMessage` (which may fail before or after its UPDATE) |
| `hold`, `requeue` | the drain's second question for a new run, and `RequeueMessage` |
| `take`, `handle`, `finish` | `process`: waiter and cancel registered, the handler, `FinishAgentMessage` |
| `dry` | `queueIsDry` |
| `end`, `drained` | `endDrain`: the flag and the generation, then the callback |

A handler may delegate (`Delegate`): it enqueues a message for a worker and
waits, under the context of its own message. Contents are left out; the kind is
kept because it decides whether a message is a new run.

### RestartDrain

A notice arms one timer, named by the notice's number. `callback[k]` is where
the function passed to `time.AfterFunc` is: `armed`, `fired` (on its own
goroutine, past `Timer.Stop`), `resuming` (the drain is down, the lock
released, `resumePaused` not yet called), `over`. `asking` is an agent between
the drain's answer and its entry into `heldAgents` (`Inbox.held`), under
`Inbox.mu`; that lock is what `Resume` has to wait for. `Begin`, `Expire` and
`ConsumerEnds` are `begin`, `expire` with `finish`, and a consumer's end; the
names of the specification (`DrainSpec`) differ from those of `GracefulRestart`
so that one module can hold the proofs of both.

### GracefulRestart

A task has one agent, so a task stands for both. The consumer is one goroutine per
task, claiming in order: `Inbox` shows that there is at most one and in which
order it claims, so the races of two consumers are not repeated here. The
consumer's own critical sections are kept apart, because a drain may begin, expire
or be resumed between any two: the hold decision (`HoldCheck`), the put-back
(`Requeue`), the end (`EndDrain`, which may call `start` again), an enqueue and
the `start` its caller makes afterwards (`StartCall`), the drain's end
(`DrainTimeout`) and the starts it hands back (`ResumePaused`). `start` itself,
which takes the lock once for the drain's answer and once for the flag, is one
step here and two in `Inbox`. A start that finds a consumer which has looked at
its queue for the last time, or is about to put its message back, does nothing;
`missed` remembers it, until a start or a process comes that is not. That is the
lost wake-up of the run `lostwakeup`, and the two properties it breaks name it as
their exception. Further apart are row, registry, reason and message of a run
(`Mark`, `Register`, `Conclude` or `Unwind`, `ClearReason`, `Leave`, `Finish`),
the two halves of an acceptance (`AcceptRow`, `AcceptMessage`), and the five of a
stop (`StopRead`, `StopLoad`, `StopCancel`, `StopRecord`, `StopMark`), which a
person and `Shutdown` may be in at the same time. `copy` in a stop is the task row
it read first and writes last. The process goes through `up`, `idleWait`,
`stopping`, `closing`, `down`, `booting`, the two scans and `up` again.

### RunLoop

One task and its planner. An acceptance writes the task row (`AcceptRow`), pins
the criteria the request brought, one statement each (`AcceptPin`), and then
queues the message (`AcceptQueue`); one acceptance at a time is a bound. `queue`
is what was accepted, `run` the run in flight with its program counter, `execs`
the executions: `dispatchExecute` starts `Runtime.Execute` on a goroutine and the
loop parks on a channel of its own (`key`), so a stopped run leaves its execution
behind and the next run may overlap it. `plans`, `rows` (the steps of a plan) and
`contract` are the store. A decision is a type, its steps and the contract it
declares; what a capability does is a choice between success and failure. A first
answer's contract is pinned row by row after its plan row, by the execution
(`ExecPin`) or by the run that pauses with the plan (`PausePin`): a row that is
there stays, a row that fails is left out and the next one is tried. `asked`,
`judged` and `skipped` are history: how many criteria a run's request brought, the
contracts a plan's `done` was judged by, and the rows whose write failed.

### EventGateway and World

`events` and `byKey` are `MemoryLog`: the ring and its index. Appending is one
critical section; the notification is a later step of the same caller
(`notifying`), which is where callers interleave. `entered`, `dropped`, `wakes`
and `woken` are history. `World` adds the watches (one slot per object), the
poll loop with the batch it copied under the lock, and the feed with its page
and cursor over `center`, the stream it tails.

### Store

`StoreTables` has the tables as one record; a port's operations in
`SqliteStore` and `PostgresStore` are sequences of statements, other clients
run in between. A behaviour exercises one port and one engine, since the ports
share no table. `ImplementsStore` maps the tables to `Store`, where every
operation is atomic.

### Backends

`Bridge` keeps the transport's pending calls, the routed streams and where the
turn is; `harness` chooses between the two `bridge.mjs`. Codex's events are read
inside the call. Cline's come from a subscription of the session: they may be
written after the call returned, when the handle has no request any more (they are
dropped) or has the next prompt's (they go out under its name), and `late` remembers
that one was. Cline's result is a step of its own (`WriteResult`), behind the
`finally` that clears the handle's request and the await of the usage.
`CursorRun` keeps what the provider holds active, what the wait knows of it and how
it ends. A Send call may fail with the run taken or not (`SendFails`); the prompt
then returns and releases nothing, or, after a refusal, clears the agent's runs. A
run the provider has taken may not be listed yet when `ListRuns` is asked
(`unlisted`); `overlooked` remembers those a release did not see.
`DeepseekTurn` keeps histories per mode and workspace in memory and in files;
`turn.base` is where the history stood when the turn began.

### Workers, Delivery, ContextBuilder

`Workers`: agents are records as `LLMSession` describes them; requests and loans
are used once each. `Delivery`: a step of a plan is bound and called, its
capability's questions to the hosts are steps of their own, and its row is written
when it ends; hosts move in between. Where the runtime asks a monitoring agent to
read a pipeline, the agent answers any word of `AgentAnswers`, true or not, and the code takes a word it knows over the raw observation
(`applyTo`); `told` in a verdict remembers that it rests on one. A step's row is
best effort (`kept`), and a verification leaves out the plans whose steps it
cannot list (`VerifyRead`), so that it may judge by an older step of the same
name. `ContextBuilder`: a build goes through the resolver chain one registry at a
time; a cache is read and filled under its own lock, and the clock ticks in
between. Services are asked for under the id the department catalogue answered
(`OrganizationId`), which need not be the id on the project's row.

`MCBridge`, `MCWorkers` and `MCDelivery` look at two components each. An agent
is on one backend, and `Delivery` and `ContextBuilder` share no state, so a
behaviour is one of the one or one of the other, never a product.

## Runs

| run | instance | checks |
|---|---|---|
| `inbox` | planner and worker, delegation, two messages, three goroutines, a drain that expires, a crash, a cancelled caller | `InOrder`; `HeldIsOwed`: until the restart is called off, every queued message has somebody coming or an agent that is owed a start; `AnsweredAfterTheEnd`; `WaiterNotStranded`: a waiter is registered, in a goroutine's hands or answered; `ImplementsQueue` |
| `faults` | one agent, two messages, two failing statements, a drain, a crash | `OneConsumer`, `ClaimedOnce` |
| `inbox_live` | planner and worker, three messages, no restart | `NoMessageUnattended`, `EveryMessageEnds`, `EveryCallerReturns` |
| `drain` | two agents, three notices, shutdown, close | `OnlyTimerArmed`, `HeldIsHandedBack`, `AnnouncedDrainEnds` |
| `boot` | one task, two messages, a notice, a SIGTERM, two SIGKILLs, a stop; the platform may restart without waiting, or give the restart up | `FirstInstructionSurvives`, `RegistryNamesTheRun`, `CutRunsHealed`, `SoleInstructionAnswered`; the first and the last except for a start that was missed |
| `runloop` | two runs of two cycles, approval required, a stop, a broadcast, a failing statement | `NothingRunsUnapproved`; `ResultsInOrder`: a run sees its own results, once, in order; `CompletedIsVerified`; `CompletedIsWhole`: the `done` that completes the task was judged by every criterion the request brought and every one the first answer declared, but for rows that could not be written; `StopEndsRun` |
| `world` | one object, three tasks of which two have agents, one loop, a log of two, a look-back of two, two moves, two requests, a fault, a failed wake | `OneWakePerFact`; `FeedLeavesNoGap`; `WatchedEndWakes`; `EndedWatchIsAFact`: a watch is cleared by a poll only for an end the gateway was given |
| `store` | two clients on either engine, two rows a table, a failing statement, a lost write of a trace, a lagging follower | `ReplyIsLast`, `OneOwner`, `PollMissesNothing`, `ImplementsStore` |
| `bridge` | two prompts and two events on a stdio bridge of either kind, late events and a dead child included, or four runs on the Cursor bridge with sends that fail and a list that lags | `OwnEvents`; `NothingLeftActive`: a prompt given up leaves no provider run that `ListRuns` names; `TurnAndRunEnd` |
| `workers` | two requests, two loans, three agents, a fault, an edit of the pool; or two deepseek turns in two workspaces with a crash, move or failing save | `FrameBeforeWords`, `SpokenOnItsLoan`, `PairingKept`, `DiskIsMemory` |
| `delivery` | three cycles, one pull request, two pipelines, a move of a host, a fault, monitoring agents that say anything; or two builds with a TTL of two and a clock of three | `BoundIsReported`; `CompletedHolds`: a task becomes completed by what is true of the hosts or by the word of the agent that was asked; `OneWorld` |
| `lostwakeup` | one agent, two messages, a drain | `NoMessageUnattended` fails |

`lostwakeup` is a counterexample. The comment at `inbox.go:350` says that a run
held after its claim is started again by the drain's end. The drain may end
between `holdStart` and `RequeueMessage`: `resumePaused`'s start sees `running`,
`endDrain` sees no new generation, and the row is queued with nobody coming. `boot`
has the same window; there the message waits for the next enqueue for its agent or
for the next process, whose boot scan finds it.
`HeldIsOwed` is what remains true: as long as the announced restart has not been
called off, every agent with a queued message is owed a start or has somebody
coming.

### Further disagreements

These statements of comments and docs are written as properties in the modules,
beside the ones above, and the model has a short trace against each. No
configuration is kept for them: checking the property in the place of those of
the component's cfg gives the trace. Six need another bound:
`PersonStopStays` `MaxMsg = 3`, `FrameFirst` `MaxConvs = 3`, `ResumedWasTold`
`Deployed = {"cursor"}`, `DeletedStays` `OneShot = {TRUE}`, `ToldWhereItActs`
`MaxAsides = 2`, and `InFlightRunsFinish` `FairSpec` with a drain that does not
expire.

| property (module) | statement | code | the trace |
|---|---|---|---|
| `CallerReturnsLast` (`Inbox`) | `inbox.go:367-370` | `inbox.go:371` | `endDrain` restarts a consumer, then the caller is answered while it works |
| `IdleMeansDry` (`Inbox`) | `docs/inbox.md:54` | `inbox.go:405` | the `drained` callback marks idle an agent whose next run has begun |
| `InFlightRunsFinish` (`Inbox`) | `inbox.go:90-93` | `inbox.go:262` | `start` asks the drain before the kind is known: a delegated prompt to a worker at rest is held, and the run that waits for it with it |
| `ShutdownDrainNeverExpires` (`RestartDrain`) | `graceful.go:576-577` | `graceful.go:203` | the callback of a timer that had fired ends the shutdown's drain |
| `DrainStaysDown` (`RestartDrain`) | `autonomy.go:202-203` | `graceful.go:215` | a callback between `finish`'s unlock and its resume starts agents after `Close` |
| `ShutdownNamesItsRestart` (`RestartDrain`) | `graceful.go:591-593` | `graceful.go:207` | a drain that was given up keeps its notice; a later SIGTERM is attributed to it |
| `RuntimeStopIsNamed` (`GracefulRestart`) | `autonomy.go:626-629` | `api_service.go:777` | a run that ends by itself clears the reason before `stopTask` writes the row |
| `CutRunsComeBack` (`GracefulRestart`) | `docs/graceful-restart.md:93-94` | `graceful.go:517` | a runtime-stopped run whose message reached its end is found by no scan |
| `NoRunStartsInShutdown` (`GracefulRestart`) | `graceful.go:576-577` | `autonomy.go:205` | `Close` takes the drain down first; a consumer that had claimed starts its run |
| `BootLeavesCutRuns` (`GracefulRestart`) | `docs/graceful-restart.md:111-113` | `graceful.go:481` | invariant 6 predates `resumeInterruptedRuns` |
| `AcceptedSurvives` (`GracefulRestart`) | `graceful.go:30-33` | `graceful.go:383` | an instruction accepted behind a run is still queued when that run writes the row as ended, and the boot looks only at open rows; likewise a run `Shutdown` cut, whose message the next boot takes back before that process dies too |
| `CanRestartIsSafe` (`GracefulRestart`) | `graceful.go:26` | `autonomy.go:352` | between the hold check and `inFlightTasks.Store` a run is invisible to the poll |
| `PersonStopStays` (`GracefulRestart`) | `graceful.go:429-431` | `graceful.go:617` | `Shutdown` stops the unwinding run again, the row names the runtime, and the boot resumes it |
| `OutcomeKept` (`RunLoop`) | `autonomy.go:616` | `api_service.go:777` | `stopTask` marks a copy it read before the run ended |
| `FirstAnswerPins` (`RunLoop`) | `runtime.go:158` | `completion_contract.go:317` | the first answer of a later run adds criteria a shorter contract left room for |
| `ApprovedWhileConfirmed` (`RunLoop`) | `agent.go:307` | `autonomy.go:346` | a confirmation stopped before the loop leaves the flag set |
| `BroadcastPending` (`RunLoop`) | `broadcast.go:234-236` | `broadcast.go:250` | the row is written back as it was listed, with its old outcome |
| `WatchedTaskWoken` (`World`) | `capability/watch.go:25` | `watcher.go:305` | a second task takes the object's one slot; the first is told nothing |
| `CloseEndsLoops` (`World`) | `Watcher.Close` | `watcher.go:213` | `Close` replaces the channel it closes; a loop that reads the field afterwards selects on the new one and polls on |
| `FinishKeepsRows` (`LLMTrace`) | `db/postgres_store.go:727-729` | `db/postgres_store.go:730` | the second derivation reads the events from a follower that is behind and writes a shorter message over the right one |
| `OneDefault` (`StoreTables`) | `db/postgres_accounts.go:132` | `db/postgres_accounts.go:148` | two clients at READ COMMITTED each clear the default they see |
| `PairedWithItsPrompt` (`Bridge`) | `bridge.mjs:334-335` (cline) | `bridge.mjs:123-142` | a cut run is still streaming when the next prompt is sent; its event goes out under the new prompt |
| `TimedOutRunStops` (`Bridge`) | `bridgesdk/agent.go:355-356` | `bridge.mjs:440` | a stop that arrives while the session is being started finds no session and stops nothing |
| `AccountSurvivesRestart` (`Workers`) | `agent_account.go:18-19` | `agent_resume.go:141` | `restoredAgent` does not take the account over from the row |
| `FrameFirst` (`Workers`) | `llm_session.go` | `llm_session.go:232` | an edit of the pool between frame and prompt moves the worker to another workspace, where a new conversation has no frame |
| `ResumedWasTold` (`Workers`) | `cursor.go:83-84` | `cursor.go:85` | a process dies in a session's frame turn; the next resumes the session, takes it as told and, at the next turn, asks it what it was never told it is |
| `DeletedStays` (`Workers`) | `agent.go` | `inbox.go:405` | the late `drained` callback saves the agent's row as idle after the worker was deleted |
| `OnePlanner` (`Workers`) | `agent_resume.go` | `agent.go:139` | two first requests of a task make two planners |
| `LoanedIsRunning` (`Workers`) | `agent.go` | `runtime.go:468` | a loaned worker between two prompts is idle in its row |
| `NamedStays` (`ContextBuilder`) | `context_builder.go:19-20` | `context_builder.go:181` | the project a task expands to replaces the one the ref named |
| `DepartmentWithinTTL` (`ContextBuilder`) | `registry.go:18` | `organization.go:103` | reading one department renews the cache that holds the others |
| `WatchErrorMeansUnseen` (`Delivery`) | `monitor.go:309-312` | `monitor.go:388` | a watch that saw the deployment still returns the error of its last poll |
| `ToldWhereItActs` (`DeepseekTurn`) | `docs/deepseek-harness.md` | `deepseek/session.go` | a history is resumed in another directory than its preamble names |
| `IdleIsSilence` (`DeepseekTurn`) | `docs/deepseek-harness.md` | `deepseek/run.go` | a command may run for longer than the watchdog's gap and nothing touches it |

### Bounds

`MaxMsg` rows, `Procs` goroutines, `MaxDrain` / `MaxNotify` announcements,
`MaxTerm`, `MaxKill`, `MaxCrash`, `MaxFault(s)` (failing statements or calls),
`MaxCancel` (stops and cancelled callers), `MaxStop(s)`. Two messages are enough
for a race between the end of one consumer and the arrival of the next message.
Three goroutines are a consumer, its successor in `start`, and an enqueuer or
the drain's end. One crash leaves every combination of queued, running and
ended rows the bound on messages allows to the next process, which starts from
the same empty memory as the first; in `boot` a second kill may hit the boot
itself. Three notices are a drain, one that refreshes it, and one after it was
given up. `Room` in `GracefulRestart` keeps a row for every acceptance and stop
under way, so that the bound on messages never cuts an operation in the middle.
`Forced` is whether the platform restarts without a `canRestart` answer.

`RunLoop`: two runs are a stopped one that leaves an execution behind and its
successor; two cycles reach the budget; one acceptance is in flight at a time,
beside a run. `World`: a log of two drops its oldest fact within three, a
look-back of two makes the feed page; two moves are a change and an end. `Store`:
two rows and two clients are the race of a read and a write; the streams are as
long as one flush and a remainder. `Bridge`: two prompts are a cut one and its
successor, which is also whom a late event meets; a caller's stop cuts a wait as
the watchdog does and is looked at on codex only. `Workers`: three agents are two
planners that race and a worker. `Delivery`: two plans, of which a later step may
go by the name of an earlier one, and a verdict. `ContextBuilder`: a clock of
three lets a cache of TTL two expire between two builds.

`UserKinds` and `UserWaits` choose what the outside world sends in an instance.
Goroutines, clients, requests, loans and builds are interchangeable and are
symmetry sets of the safety runs; runs with a liveness property use none.

`CHECK_DEADLOCK FALSE` where a daemon with nothing to do, or an instance whose
bounds are used up, may rest. `delivery` checks deadlock: an execution always
has a next step, and a task that ended says so in a step of its own.

### Fairness

Weak fairness on every goroutine's next step (the Go scheduler runs runnable
goroutines; handlers return: a run is bounded by its cycles and its idle
watchdog), on the noticing of a done context, on timers and their callbacks, on
the steps of `Shutdown` and of the boot. `RestartDrain` assumes strong fairness
of `Resume`, which waits for `Inbox.mu`: a `sync.Mutex` in starvation mode is
handed to its longest waiter. `RunLoop` assumes it of the run's own goroutine
(`Start`, `Loop`, `Decide`) and of nothing a capability does: `StopEndsRun`
holds although an execution may never return. `Bridge` assumes it of the turn,
the reader, the clock, the watchdog and the stop calls, and that a run the
bridge did stop comes to an end; a provider owes no event and no result.
Nothing obliges anybody to send a message, announce a restart, stop a task or
fail. In `inbox_live` no restart is announced, because with one the lost
wake-up above and `InFlightRunsFinish` are real. In `boot` restarts are announced
and given up: `SoleInstructionAnswered` asks of behaviours in which no start of the
agent was missed, and without a SIGTERM, because a run that `Shutdown` cuts is not
re-entered in every case (`CutRunsComeBack`).

## Proofs

For every value of the constants: any sets of agents, goroutines, tasks,
objects, plans, contracts, builds, and any bound.

| theorem | statement |
|---|---|
| `TypeCorrect` | the types of `Inbox` |
| `OneConsumerHolds`, `ClaimedOnceHolds` | one consumer per agent; a message is processed once at a time. Crashes, drains and failing statements included |
| `InOrderHolds` | messages leave the queue in the order they came (no failing statement) |
| `NoLostWakeup` | `NoMessageUnattended` with no announced restart and no failing statement |
| `HeldIsOwedHolds` | the same with restarts announced, until the first is called off (no failing statement) |
| `WaiterNotStrandedHolds`, `AnsweredAfterTheEndHolds` | a waiting caller is registered, in a goroutine's hands or answered; it is answered only after its message ended (no failing statement) |
| `InboxImplementsQueue` | with no failing statement, `Inbox` implements `AgentQueue` |
| `DrainTypes`, `OnlyTimerArmedHolds`, `HeldIsHandedBackHolds` | the drain's timers and held agents |
| `GracefulRestartTypes` | the types of tasks, messages, registry, stops and boot |
| `RegistryNamesTheRunHolds` | what a stop would cancel is the run in its task's hands |
| `FirstInstructionSurvivesHolds` | after the boot scans a queued first instruction has a consumer or is owed a start, or a start of its agent was missed |
| `CutRunsHealedHolds` | the boot ends with a consumer for every running message of an open task (action property) |
| `RunLoopTypes` | the types of `RunLoop`; no run has more than `MaxSteps` cycles |
| `ApprovalHolds` | with approval required, no step runs of a plan that was not confirmed |
| `OrderHolds` | a run observes its own results, one per cycle and in order |
| `CompletionHolds` | a task is left completed only by a `done` whose contract was not empty and held up |
| `CompletionIsWhole` | the `done` that leaves a task completed was judged by every criterion of its request and of its run's first answer, but for rows that could not be written |
| `StepsInOrderHolds` | the rows of a plan are its steps in order, once each, nothing after a failure |
| `WorldTypes`, `LogStaysIndexed` | the types of gateway, watcher and feed; `byKey` is the index of the ring |
| `OneWakePerFactHolds` | a fact wakes at most as often as the log let its key in |
| `FeedLeavesNoGapHolds` | the cursor passes over no event that was not offered |
| `WatchedEndWakesHolds`, `EndedWatchIsAFactHolds` | the end of a watched object wakes a watching task; a poll clears a watch only for a fact (action property) |
| `BridgeTypes`, `BridgeInvariant` | the types of a stdio bridge's session; where the events of the current run are, and what a result is behind |
| `OwnEventsHolds` | a caller is handed the events of its own run, in order, and all of them by the time it answers: in codex always, in cline while no wait on the handle was cut and no event was late |
| `ClosedIsKnownHolds`, `CutOnlyWhenQuietHolds` | nobody waits on a closed transport; the watchdog cuts only a turn that was silent for its idle time (action property) |
| `GivenUpLeavesNothing`, `ResultIsKept` | a cursor prompt given up leaves no provider run that `ListRuns` names, unless a cancel failed; a result that arrived is returned |
| `DiskIsMemoryHolds`, `PlannerNeverActsHolds` | a deepseek history between turns is its file; plan mode runs no tool that acts |
| `WorkersInvHolds` | the types of `Workers`; which planner a task has, which loan a worker speaks for, which conversation holds the frame |
| `SpokenOnItsLoanHolds` | what a capability asks is spoken on the session it was lent, unless the worker was lent twice at once |
| `FrameBeforeWordsHolds` | no conversation is prompted before it was told the frame, but for the three excuses the property names |
| `PairingKeptHolds` | a task's planner stays its planner unless the task has two (action property) |
| `DeliveryInvHolds`, `LineageIsComplete` | what is executed passed the gates, and a criterion that passed stands or was the monitoring agent's word; no step of an admitted plan misses the step it reads |
| `BoundIsReportedHolds` | an input bound to a step is called with what an earlier step of that plan reported |
| `CompletedHoldsAlways` | when a task becomes completed its criteria on merges are true, and those on deployments are true or what the monitoring agent answered (action property) |
| `OneWorldHolds`, `ProjectWithinTTLHolds` | a context section is about one project, its organization and the services of the organization the catalogue answered; a project's facts are no older than a TTL when they are taken |
| `OneOwnerOnSqlite`, `OneOwnerOnPostgres` | two claims in progress never hold the same message; processes that open the store, requeue and die included |
| `PollMissesNothingOnSqlite`, `PollMissesNothingOnPostgres` | a poller's cursor passes over no message of its agent; on postgres with lost writes and a lagging follower |
| `ReplyIsLastOnSqlite`, `ReplyIsLastOnPostgres` | a run has one reply at most and it is the run's last message; with repeated finishes on sqlite, lost writes and a derivation from old events on postgres |

**Inbox.** `OneConsumer` is not inductive: a second launch is excluded by the
flag, so `ConsumerInv` adds that the flag is up while somebody drains
(`RunningFlag`), that what a consumer holds is a running row of its agent
(`HoldsClaim`), and that it has taken the dead process's claims back before it
claims (`Reclaimed`); the last is why `RequeueRunningMessages` never takes a row
from a live consumer. `OrderInv` adds `NoOrphanClaim`: a running row is in
somebody's hands, or its agent's claims have not been taken back yet. Order
needs it because a claim asks only that a row is the oldest *queued* one.
`WakeupInv` adds that a raised flag has a consumer behind it
(`FlagHasConsumer`), that a consumer in `endDrain` with a non-empty queue
sees a new generation or has left its agent held (`GenSeen`), and that a
consumer about to put its message back has left its agent held
(`HoldRemembered`). All three end with the drain (`NotCalledOff`): a restart once
called off is never un-called (`CalledOffForGood`), and after it the lost wake-up
of `lostwakeup` is possible, so neither theorem can say more. `CallerInv` adds
`OwesItsOwn`: the outcome a goroutine carries is that of a message it processed,
taken from the registry when the handler began and with an ended row once it is
past `FinishAgentMessage`. A waiter moves from the registry into a goroutine and
from there to its caller, and no third place is left for it to be dropped in.
The refinement maps rows to rows; a claim is
a `Begin` because of `OrderInv`, a reclaim is a `Return` because at most one
row of an agent is running, every other step stutters.

**RestartDrain.** Its two invariants are inductive beside its types.

**GracefulRestart.** `RestartInv` is ten parts. `RowsInv` and `RoomInv` are
bookkeeping: rows have no gaps, and there is room for the messages promised.
`ConsumerInv` and `OrphanInv` restate what `Inbox` shows: a consumer works on a
running row of its task, and a running row nobody works on belongs to a dead
process whose claims were not taken back. `DrainInv` says that nothing is held
before the boot is over, which is why a scan's start is never lost in `held`.
`WakeInv` follows a message through the unlocked windows: a consumer about to put
its message back, and one at its end with a message left behind, has left a start
owed to its agent (held, on its way to `start`, or arrived and seen by
`endDrain`), or that start came too early and was missed. Without the last
disjunct it is not inductive, and the step that breaks it is `ResumePaused` with
`StartCall` between `HoldCheck` and `EndDrain`. `FirstInv` is the core: a task
without a message has a row nobody has run, and the *sole* message of a task stays
behind a row that one of the scans looks at (`Findable`) in each of the states
from which it can become queued again: queued, claimed but not yet past the hold
check or not yet put back, and running for a dead process. Its weak spot is a run
that `Shutdown` cut: the row is stopped while the message is still the only one
until the stop's own record is written (`StopKept`, `CutInv`). Between the two
only a SIGKILL can intervene, and after it the message is found by
`resumeInterruptedRuns`, put back by its reclaim, and invisible to the next boot
if the process ends once more before the row is written. `CutsHealed` draws the
line there: without a SIGTERM, or with fewer than three signals. The proof attempt
put it there: an earlier form of the property counted the kills only, which holds
for one SIGTERM and fails for two. `ScanInv` says that the second scan has
visited, or will, every open task with a running message; it is inductive although
the event feed enqueues and consumers run while the scan goes on, because a
consumer of this process leaves no running row behind (`OrphanInv`).

**RunLoop.** `RunLoopInv` is `StoreInv` (plans, rows, contract and verdicts
have their shapes), `ExecInv`, `RunInv` and `AgentInv`. `ExecInv` says of every
execution, of the current run or left behind by an earlier one, that its plan
is the one dispatched, that a plan that waits for approval has none before the
confirmation, and that an execution past its verification has the verdict of
*its own* `done` in the store. `RunInv` ties the channel a run is parked on to
the execution it started; results cannot cross because no two runs have the same
key. The store only grows (`Grows`), which is how a fact about a row survives
the steps of other runs. `StepsInv` adds that a plan has one execution: the
confirmed plan is the one that was paused and was never dispatched. `WholeInv`
carries `CompletedIsWhole`: a declared criterion is in the contract, was skipped, or
is still to come, by the run's only unfinished execution or by the run that waits
with its plan (`Declared`, `LastOnly`); hence when a `done` is judged nothing of its
own run is still to come. What a request brought is in the contract before its
message is queued (`AskedInv`), because a pin that fails there ends the acceptance.
`Bounds`
counts the cycles; it needs its own invariant because a confirmed plan is
dispatched without a look at the budget, and holds because a fresh run is at
zero.

**World.** `GatewayInv`: the index is the index of the ring, a key is in the
ring once, and for each key `wakes` plus the callers still to notify are at most
`entered`, which is at most `dropped` plus one. Counting the callers *between*
append and notify is what makes it inductive. `FeedInv`: what the cursor has
passed was handed to the gateway, and the page in hand begins there. `EndInv`: a
poll about to clear a watch has given its end to the gateway. `WakeInv`: an
object that ended under a watch stays watched until its end is taken, and once
it is taken a task was woken, somebody is on the way to wake one, or a wake
failed; it speaks of whoever holds the slot, since another task may have taken
it after the poll copied its batch.

**Bridge.** `OwnEvents` speaks of what the caller has; an event gets there from
the child's pipe by way of the reader, which puts it into the stream of the
request it is tagged with if that stream is still routed. `InOrder` therefore says
where the events of the current run are: what was handed over, what the stream
buffers and what is unread in the pipe are, one after the other, `1` to `n` of
that run, as far as they came while its call was running. `ResultInv` (a result is
behind all events of its run that came in time, which in codex are all) makes a
successful `Finish` mean that nothing of them is left to read, and `DoneInv` keeps
that until the caller answers. `Paired` marks where it ends: codex tags an event
with the request it closed over, cline with the request its handle holds when the
event is written, so that in cline a wait that ended without a result may leave a
run streaming under the next prompt (`CutBefore`, the disagreement
`PairedWithItsPrompt` above), and a late event is dropped or goes the same way
(`OnTime`); `SettledInv` says that these are the only ways: a run nobody waits for
and nobody stopped is over and, if its events were in time, read to the end.
`TransportInv` ties the stop calls to `pending`, which is why the shutdown's sweep
reaches each of them. `WatchInv` counts: time left on the watchdog plus time since
the last event is at least `Idle` until the watchdog has fired.

**Backends.** `CursorInv` adds `ActiveIsOwn`: once the run's id is known, or its
stream is open, nothing else of the agent is active, so that cancelling the known
run cancels all. Where the id is not known a release can only cancel what
`ListRuns` names, and what it does not name is all that is left. `DeepseekInv`
says that the *settled* part of a history, all of it between turns and what stood
at `turn.base` in one, is what the file holds; a failing turn falls back on it, an
answered one extends it by saving. That ids are minted once, so that no two
conversations share a file, is part of `SessionShape`.

**Workers.** `PairInv` carries `PairingKept`. Its weak spot is a request between
the look for the task's planner and the queueing of its message: `FoundRow` says
that the agent it found is in the factory or is the one the task's row names, and
`PairedHeld` that once there is a planner in memory the row names one of them, so
that a second request that made a planner of its own cannot move the pairing away
from one that is held. `LoanInv` adds to `SpokenOnItsLoan` that an agent which is
asked something for a loan is asked it in that loan's `asked` stage (`AskedOnce`)
and that a worker on loan has the loan's session attached, or was lent to two
(`LoanSpeaks`). `FrameInv` says where the frame is: an agent whose frame flag is
set, or who is past its frame turn, has a conversation that was told, or is
excused (`HoldsFrame`), and the session its next turn opens is that one
(`OpenOf`): the session attached for the current directory, or none and then no
conversation at all. The excuses came out of the proof attempt. The first version
of the model took `prev` in `GiveFirstPrompt` from the directory of the turn; the
code takes it from the session attached last (`llm_session.go:274-282`), and only
with that is the step inductive. The second version had no Cursor case, and no
invariant: a session id restored from the row is taken as told although its frame
turn may have failed, which TLC confirms (`ResumedWasTold`).

**Delivery.** An input is bound when the call is made and the row is written when
it ends, several steps of the call and of the hosts later. `BoundCall` carries the
binding over the call, `PlanInv` says that what a plan has observed are rows of
its own cycle in step order, and together they give `BoundIsReported` at the
moment the row is written. `GateInv` keeps the answer as it passed the gates,
which is what makes `LineageHolds` provable: `validatePlanLineage` looks only at
the names of earlier steps, and at run time the step that is read is the last
report under its name, which exists because a plan stops at its first failure.
`CompletedHolds` speaks of the world when the task's row is written, which is
after the last criterion was judged, so that a verdict has to stand while hosts
move: `HostsKeepFacts` is that merges and successful ends are final, `SeenInv`
that a success the monitor keeps as its last report is still one, `AskInv` that
the call in flight asks about what the criterion's slot names, in the plans this
verification could list, and `VerdictInv` that every `pass` so far still stands,
or was told by the monitoring agent, whose word no invariant of the hosts can make
true. The attempt showed that the property had been too strong for answers the
instance does not have: a criterion may expect `merged` to be false.

**ContextBuilder.** `ContextInv`: a cached row is the row of the id it is kept
under, the project list ages as a whole, and the fields a build has resolved so
far belong together (`Consistent`) at every stage between two registries, the
services under the id the catalogue answered.

**Store.** A behaviour is on one port, so every step of an engine is first shown
to stay within its port: the stages a call may be at, and the tables a step may
write (`Calls`, `Frame`). Whatever another port does then keeps both invariants.
`OneOwner` needs `InboxInv`: ids are numbers with a highest (`Ids`, which makes
the id of an insert new), what a claim selected or holds is a row, and a row that
is held is *running* (`Claims`). A second claim is excluded by the UPDATE, which
asks again whether the row is still queued; a requeue of all running rows is
harmless only because the inbox runs it before an agent's first claim in a
process, when nobody is inside one (`Reclaimed` of `Inbox`), which is its guard.
On postgres an id is taken before its row is inserted, so that `Inserting` says
the row is queued when it comes and an id inserted late is not one somebody holds.
`PollMissesNothing` rests on one relation of two states, `Grown`: no message left
its stream, no turn changed its agent, and every new message has a higher id than
every older one. Every statement of a turn keeps it (`MsgStep`): single inserts,
derived rows, which are rewritten under the id they had, and batches, whose ids go
with their seqs. A page is the lowest ids after the cursor, hence what is at or
below the new cursor has been given. On postgres the page comes from the follower:
`Following` says that the replica is an earlier state (`Grown(replica, db)`), so
what the writer has and the page did not is above the cursor. That a trace writes
only for the turn its client is inside (`Traced`), and rows that the folding
numbers from 1 (`Groups`, `Said`), is part of it. The proof made the model more
exact: ids of a batch insert follow the order of its rows, where the first version
left them to a choice. `ReplyIsLast` is about single turns, and all of it is told
by what a statement leaves of the rows: `Derives` says which rows of a turn a
write may change and `Apart` that it changes no other turn's, so that each client
is reasoned about alone (`SpeakHolds`). Within the turn a reply is safe for one of
two reasons. Before the reply there is none to be overtaken: on postgres
everything derived is derived from a call that has not replied (`Stage`), and the
reply's place was the next free one when it was taken and stays so, because only
this client writes in its turn (`Free`). On sqlite a finish may be repeated after
the reply, with a full derivation: that is harmless because it writes what the
events of the run say, these cannot change once the run is past its stream, every
one of their places is taken by the time the reply is written, and none is the
reply's (`Repeatable`, `TurnOk`). The places the folding of a stream hands out are
numbers and its roles never `assistant` (`Said`); this is followed through the
whole stream by the least event that would break it (`FoldSays`). That two
readings of a run's events are the same sequence when somebody else's were added
needs that a finite set of numbers has a member of each rank (`RankIs`). The
derivation on postgres may read a follower that has part of the events: the places
differ then, the order does not. `ImplementsStore` is proved of both engines, port
by port. A port sees nothing of another's writes (`ViewsKept`), and a statement
its callers cannot see is a stutter (`Unseen`): the sequence a database is opened
with, a claim's SELECT, the nameless row of an agent, an event, the header of a
turn. The others are each one operation of `Store`. The invariants above carry
most of it; three things are added (`ContractInv`). The row a caller is about to
name is there, whichever way its engine came by the id, and a row without a name
is not deleted (`AgentInv`). What was planned and what ran are of plans there are,
and a plan that is to be filled is one client's and empty (`PlanInv`). Every turn
has its input (`Opened`), which makes the place of a reply one past the highest
place its caller sees (`FreeIsNext`). A finish that is repeated on sqlite shows
nothing: it derives places that are there (`Repeatable`), finds the reply and
writes no other.

Assumptions: `ConstantsAssumption`, `DrainAssumption`, `RestartAssumption`,
`RunLoopAssumption`, `GatewayAssumption`, `WorldAssumption`, `BridgeBounds`,
`CursorAssumption`, `DeepseekAssumption`, `WorkersAssumption`,
`DeliveryAssumption`, `ContextAssumption`, `StoreAssumption`. They say that bounds
are naturals, that the null values are none of the real ones, that answers have
their fields, that plans, contracts and tool calls are sequences of what they
should be, that requests and loans are told apart, that caps, look-backs, TTLs, id
bases and page limits are positive, and that the goroutines calling the gateway
are the poll loops, the feed and the HTTP handlers. TLC evaluates each on the runs
of its module.

Only model-checked:

- all liveness (`EveryMessageEnds`, `EveryCallerReturns`, `AnnouncedDrainEnds`,
  `SoleInstructionAnswered`, `StopEndsRun`, `TurnAndRunEnd`): the prover has no
  fairness;
- what a recursive definition computes, which is induction over a sequence: of the
  messages a stream folds to (`ChatMessages`) the theorems say only that their
  places are numbers and that none is the reply, and `RequestIsAnswerable` of
  `DeepseekTurn` is left out.

Where a proof about a sequence or a set of numbers needs its first or last
member, that is taken from the well-foundedness of the naturals (`WFMin` in the
library), which needs no operator parameter.

## What is left out

- Contents, prompts and formatting; the text of a stopped row is abstracted to
  whom it names, a message of a model to its role and tool calls.
- The task record, prompts and policies, HTTP routing and pages, the command
  line client, migrations and SQL dialects, generated protocol code, the
  knowledge base. `PROJECT.json` says why for each.
- `accept` when the agent cannot be resumed (`failTask`), chat, approval and
  broadcast messages in `GracefulRestart` (they are kinds of `Inbox`, and
  approvals and broadcasts are in `RunLoop`).
- `AUTONOMY_RESUME_INTERRUPTED` is on and no cut is older than
  `AUTONOMY_RESUME_MAX_AGE`.
- A restart notice that arrives during `Shutdown`.
- `resumePaused` is one step in `RestartDrain` and two in `Inbox`, where its
  interleavings matter. `Store.Close` and the exit are one step: what happens
  to statements in between is covered by `Exit` at any moment of `closing`.
- Store failures in `GracefulRestart`, a failing `RequeueMessage` included, except an
  acceptance that fails. `Inbox` has them (`faults`).
- `InitializeAgent`'s first prompt (`agent_init.go`) in `Workers`: nothing in the
  program calls it, and a first prompt that failed is given again by the first turn
  that needs it, which is modelled.
- `Runtime.cycle` and `Runtime.stepSessions`, which an execution left behind by a
  stopped run shares with the next run's: `RunLoop` gives each execution its own.
- The error event a cline bridge writes beside a failed result.
- The restart in `RunLoop`: the boot's effect on runs is in `GracefulRestart`.

## Plan

Every safety property and both refinements the runs check are theorems. What is
left is what this prover cannot reach, listed above.
