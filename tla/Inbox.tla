------------------------------- MODULE Inbox -------------------------------
(***************************************************************************)
(* The per-agent message queue of autonomy (src/src/inbox.go) over its     *)
(* store (src/src/db/sqlite_inbox.go).                                     *)
(*                                                                         *)
(* A message is a row of agent_messages; its id is its place in the queue. *)
(* Every goroutine that is somewhere inside the inbox is a member of Procs *)
(* with a program counter: a caller of start(), or the consumer drain() it *)
(* turned into.  One action is one critical section of Inbox.mu or one     *)
(* store statement, so every interleaving the mutex allows is explored.    *)
(* The store survives a Crash; everything else is the process's memory.    *)
(***************************************************************************)
EXTENDS Naturals, FiniteSets

CONSTANTS
  Agents,        \* agents that own an inbox
  Workers,       \* the agents a capability delegates prompts to
  NoAgent,       \* no agent
  Procs,         \* goroutines inside the inbox at one time (a bound)
  UserKinds,     \* the kinds the outside world enqueues in this instance
  UserWaits,     \* whether the outside callers wait for their message (subset of BOOLEAN)
  MaxMsg,        \* rows ever written (a bound)
  MaxDrain,      \* restarts announced (a bound)
  MaxCrash,      \* process deaths (a bound)
  MaxFault,      \* store statements that fail (a bound)
  MaxCancel,     \* stops and cancelled callers (a bound)
  DrainExpires   \* AUTONOMY_DRAIN_TIMEOUT > 0

Kinds == {"instruction", "observation", "approval", "chat", "delegation", "stop"}

ASSUME ConstantsAssumption ==
  /\ Workers \subseteq Agents
  /\ NoAgent \notin Agents
  /\ UserKinds \subseteq Kinds
  /\ UserWaits \subseteq BOOLEAN
  /\ MaxMsg \in Nat /\ MaxDrain \in Nat /\ MaxCrash \in Nat
  /\ MaxFault \in Nat /\ MaxCancel \in Nat
  /\ DrainExpires \in BOOLEAN

Ids == 1..MaxMsg
Finished == {"done", "failed", "stopped"}
Statuses == {"absent", "queued", "running"} \cup Finished

\* message.go: what starts a new run of the agent's own task.
isNewRunKind(k) == k \in {"instruction", "observation"}

VARIABLES
  \* the store
  status,        \* [Ids -> Statuses]: agent_messages.status
  to,            \* [Ids -> Agents]: agent_messages.agent_id
  kind,          \* [Ids -> Kinds]: agent_messages.kind
  last,          \* the highest row id
  \* the Inbox struct
  running,       \* [Agents -> BOOLEAN]: a consumer is draining
  reclaim,       \* [Agents -> BOOLEAN]: claims of dead processes taken back
  gen,           \* [Agents -> Nat]: bumped by every enqueue
  waiters,       \* SUBSET Ids: messages with a registered waiter
  held,          \* SUBSET Agents: agents whose start was held back
  \* the drain that holds starts back, and resumePaused
  paused,        \* RestartDrain.active
  resuming,      \* finish() has cleared active and not yet called resumePaused
  toStart,       \* SUBSET Agents: what resumePaused still has to start
  \* the goroutines
  pc,            \* [Procs -> Stages]
  who,           \* [Procs -> Agents]: the agent the goroutine works for
  myGen,         \* [Procs -> Nat]: drain's gen argument
  msg,           \* [Procs -> Ids]: the message claimed, 0 for none
  owed,          \* [Procs -> Ids]: the waiter process() took, 0 for none
  cancelled,     \* [Procs -> BOOLEAN]: the message's own cancel was called
  asks,          \* [Procs -> Ids]: the delegated message a handler waits for
  result,        \* [Procs -> Finished]: how the handler ended
  caller,        \* [Ids -> Callers]: who waits for the message outside
  ctxDone,       \* SUBSET Ids: messages whose caller's context is done
  agentState,    \* [Agents -> {"idle", "running"}]: Agent.State
  boot,          \* SUBSET Agents: agents the boot has not looked at yet
  drains, crashes, faults, cancels    \* the bounded environment

store == <<status, to, kind, last>>
memory == <<running, reclaim, gen, waiters, held>>
drain == <<paused, resuming, toStart>>
procs == <<pc, who, myGen, msg, owed, cancelled, asks, result>>
callers == <<caller, ctxDone>>
env == <<drains, crashes, faults, cancels>>
vars == <<store, memory, drain, procs, callers, agentState, boot, env>>

\* start() before holdStart, start() before its own lock, then drain().
Stages == {"free", "start", "launch", "reclaim", "claim", "hold", "requeue",
           "take", "handle", "finish", "dry", "end", "drained"}
\* The goroutine is a consumer: between `running = true` and endDrain's unlock.
Draining == {"reclaim", "claim", "hold", "requeue", "take", "handle", "finish",
             "dry", "end"}
\* The consumer has a message in its hands.
Holding == {"hold", "requeue", "take", "handle", "finish"}
Callers == {"none", "waiting", "answered", "gone"}

Queued(a) == {i \in Ids : status[i] = "queued" /\ to[i] = a}

Init ==
  /\ status = [i \in Ids |-> "absent"]
  /\ to = [i \in Ids |-> NoAgent]
  /\ kind = [i \in Ids |-> "stop"]
  /\ last = 0
  /\ running = [a \in Agents |-> FALSE]
  /\ reclaim = [a \in Agents |-> FALSE]
  /\ gen = [a \in Agents |-> 0]
  /\ waiters = {} /\ held = {}
  /\ paused = FALSE /\ resuming = FALSE /\ toStart = {}
  /\ pc = [p \in Procs |-> "free"]
  /\ who = [p \in Procs |-> NoAgent]
  /\ myGen = [p \in Procs |-> 0]
  /\ msg = [p \in Procs |-> 0]
  /\ owed = [p \in Procs |-> 0]
  /\ cancelled = [p \in Procs |-> FALSE]
  /\ asks = [p \in Procs |-> 0]
  /\ result = [p \in Procs |-> "done"]
  /\ caller = [i \in Ids |-> "none"]
  /\ ctxDone = {}
  /\ agentState = [a \in Agents |-> "idle"]
  /\ boot = {}
  /\ drains = 0 /\ crashes = 0 /\ faults = 0 /\ cancels = 0

-----------------------------------------------------------------------------
(* Goroutine bookkeeping.                                                  *)

At(p, stage) == pc[p] = stage
Goto(p, stage) == pc' = [pc EXCEPT ![p] = stage]

\* A goroutine enters start(a) on behalf of a.
CallStart(p, a) ==
  /\ At(p, "free")
  /\ Goto(p, "start")
  /\ who' = [who EXCEPT ![p] = a]
  /\ UNCHANGED <<myGen, msg, owed, cancelled, asks, result>>

\* waiter.ch <- outcome: the channel is buffered, so the send never blocks; a
\* caller that has given up simply never reads it.
Deliver(i) ==
  caller' = [j \in Ids |-> IF j = i /\ caller[j] = "waiting" THEN "answered"
                                                            ELSE caller[j]]

\* The goroutine has nothing left but the outcome it owes, and returns.
Leave(p) ==
  /\ Goto(p, "free")
  /\ who' = [who EXCEPT ![p] = NoAgent]
  /\ owed' = [owed EXCEPT ![p] = 0]
  /\ Deliver(owed[p])

\* mutant: holdStart answers TRUE and forgets the agent
HoldAndForget(p) == held' = held

\* holdStart: under Inbox.mu, the drain's answer.
HoldStart(p) == held' = IF paused THEN held \cup {who[p]} ELSE held

-----------------------------------------------------------------------------
(* The doors: Enqueue, Accept, Send, Stop.                                 *)

\* enqueue's critical section: the row, the waiter and the generation together.
WriteRow(a, k, waits) ==
  /\ last < MaxMsg
  /\ last' = last + 1
  /\ status' = [status EXCEPT ![last + 1] = "queued"]
  /\ to' = [to EXCEPT ![last + 1] = a]
  /\ kind' = [kind EXCEPT ![last + 1] = k]
  /\ waiters' = IF waits THEN waiters \cup {last + 1} ELSE waiters
  /\ caller' = [caller EXCEPT ![last + 1] = IF waits THEN "waiting" ELSE "none"]
  /\ gen' = [gen EXCEPT ![a] = @ + 1]
  /\ boot' = boot \ {a}

\* A message from outside: HTTP accepts and returns (Enqueue), Autonomy.Run
\* waits for the receipt (Accept).
Enqueue(p, a, k, waits) ==
  /\ a \in Agents \ Workers /\ k \in UserKinds
  /\ WriteRow(a, k, waits)
  /\ CallStart(p, a)
  /\ UNCHANGED <<running, reclaim, held, drain, ctxDone, agentState, env>>

\* ctx.Err() of the message's context: its own cancel, or its caller's.
CtxErr(p) == cancelled[p] \/ owed[p] \in ctxDone

\* A capability inside p's run prompts a worker (LLMSession.Prompt -> Send); the
\* prompt inherits the run's context.
Delegate(p, q, w) ==
  /\ At(p, "handle") /\ asks[p] = 0 /\ who[p] \notin Workers
  /\ kind[msg[p]] # "stop"
  /\ w \in Workers
  /\ WriteRow(w, "delegation", TRUE)
  /\ At(q, "free")
  /\ Goto(q, "start")
  /\ who' = [who EXCEPT ![q] = w]
  /\ asks' = [asks EXCEPT ![p] = last + 1]
  /\ ctxDone' = IF CtxErr(p) THEN ctxDone \cup {last + 1} ELSE ctxDone
  /\ UNCHANGED <<running, reclaim, held, drain, myGen, msg, owed, cancelled,
                 result, agentState, env>>

\* Receipt.Wait got its outcome, or its context ended first (await: dropWaiter).
AnswerToHandler(p) ==
  /\ At(p, "handle") /\ asks[p] # 0 /\ caller[asks[p]] = "answered"
  /\ asks' = [asks EXCEPT ![p] = 0]
  /\ UNCHANGED <<store, memory, drain, pc, who, myGen, msg, owed, cancelled,
                 result, callers, agentState, boot, env>>

GiveUp(i) ==
  /\ caller[i] = "waiting" /\ i \in ctxDone
  /\ caller' = [caller EXCEPT ![i] = "gone"]
  /\ waiters' = waiters \ {i}
  /\ asks' = [p \in Procs |-> IF asks[p] = i THEN 0 ELSE asks[p]]
  /\ UNCHANGED <<store, running, reclaim, gen, held, drain, pc, who, myGen, msg,
                 owed, cancelled, result, ctxDone, agentState, boot, env>>

\* The context of an outside caller (Autonomy.Run) is cancelled, and with it the
\* one of a prompt its run has delegated (process: base is the waiter's context).
CancelCaller(i) ==
  /\ cancels < MaxCancel /\ cancels' = cancels + 1
  /\ caller[i] = "waiting" /\ i \notin ctxDone
  /\ \A p \in Procs : asks[p] # i
  /\ ctxDone' = ctxDone \cup {i} \cup {asks[p] : p \in {q \in Procs : owed[q] = i /\ asks[q] # 0}}
  /\ UNCHANGED <<store, memory, drain, procs, caller, agentState, boot,
                 drains, crashes, faults>>

\* Inbox.Stop: cancel of the message being processed, and with it the context a
\* delegated prompt of that run inherited.
Stop(a) ==
  /\ cancels < MaxCancel /\ cancels' = cancels + 1
  /\ \E p \in Procs :
       /\ At(p, "handle") /\ who[p] = a /\ ~cancelled[p]
       /\ cancelled' = [cancelled EXCEPT ![p] = TRUE]
       /\ ctxDone' = IF asks[p] # 0 THEN ctxDone \cup {asks[p]} ELSE ctxDone
  /\ UNCHANGED <<store, memory, drain, pc, who, myGen, msg, owed, asks, result,
                 caller, agentState, boot, drains, crashes, faults>>

-----------------------------------------------------------------------------
(* start: hold it while a restart is drained for, else make sure one       *)
(* consumer runs.                                                          *)

StartHold(p) ==
  /\ At(p, "start")
  /\ HoldStart(p)
  /\ IF paused THEN Leave(p)
               ELSE Goto(p, "launch") /\ UNCHANGED <<who, owed, caller>>
  /\ UNCHANGED <<store, running, reclaim, gen, waiters, drain, myGen, msg,
                 cancelled, asks, result, ctxDone, agentState, boot, env>>

\* mutant: start does not look at the running flag
LaunchBlind(p) == TRUE

MayLaunch(p) == ~running[who[p]]

\* The goroutine that called start and the `go drain` it spawns are one member
\* of Procs: the caller has only its owed outcome left.
Launch(p) ==
  /\ At(p, "launch")
  /\ IF MayLaunch(p)
       THEN /\ running' = [running EXCEPT ![who[p]] = TRUE]
            /\ myGen' = [myGen EXCEPT ![p] = gen[who[p]]]
            /\ Goto(p, "reclaim")
            /\ owed' = [owed EXCEPT ![p] = 0]
            /\ Deliver(owed[p])
            /\ UNCHANGED who
       ELSE Leave(p) /\ UNCHANGED <<running, myGen>>
  /\ UNCHANGED <<store, reclaim, gen, waiters, held, drain, msg, cancelled, asks,
                 result, ctxDone, agentState, boot, env>>

-----------------------------------------------------------------------------
(* drain: the consumer.                                                    *)

Fault == faults < MaxFault /\ faults' = faults + 1
NoFault == UNCHANGED faults

\* mutant: the claims of a dead process stay running
TakeNothingBack(a) == status

\* RequeueRunningMessages: what a process that is gone had claimed.
TakeBack(a) ==
  [i \in Ids |-> IF to[i] = a /\ status[i] = "running" THEN "queued" ELSE status[i]]

\* takeReclaim, once per agent and process, then the store statement; a failed
\* statement is logged and not tried again.
Reclaim(p) ==
  /\ At(p, "reclaim")
  /\ Goto(p, "claim")
  /\ reclaim' = [reclaim EXCEPT ![who[p]] = TRUE]
  /\ \/ /\ ~reclaim[who[p]] /\ NoFault
        /\ status' = TakeBack(who[p])
     \/ /\ ~reclaim[who[p]] /\ Fault
        /\ UNCHANGED status
     \/ /\ reclaim[who[p]] /\ NoFault
        /\ UNCHANGED status
  /\ UNCHANGED <<to, kind, last, running, gen, waiters, held, drain, who, myGen,
                 msg, owed, cancelled, asks, result, callers, agentState, boot,
                 drains, crashes, cancels>>

\* mutant: ORDER BY id DESC
NewestFirst(a, i) == i \in Queued(a) /\ \A j \in Queued(a) : j <= i

NextInLine(a, i) == i \in Queued(a) /\ \A j \in Queued(a) : i <= j

\* mutant: the claim reads the row and does not mark it
NotMarked(i) == status

\* ClaimNextMessage's UPDATE.
Marked(i) == [status EXCEPT ![i] = "running"]

\* ClaimNextMessage: the oldest queued row becomes running.
Claim(p) ==
  /\ At(p, "claim")
  /\ \E i \in Ids :
       /\ NextInLine(who[p], i)
       /\ status' = Marked(i)
       /\ msg' = [msg EXCEPT ![p] = i]
       /\ Goto(p, IF isNewRunKind(kind[i]) THEN "hold" ELSE "take")
  /\ UNCHANGED <<to, kind, last, memory, drain, who, myGen, owed, cancelled, asks,
                 result, callers, agentState, boot, env>>

ClaimNothing(p) ==
  /\ At(p, "claim") /\ Queued(who[p]) = {}
  /\ Goto(p, "end")
  /\ UNCHANGED <<store, memory, drain, who, myGen, msg, owed, cancelled, asks,
                 result, callers, agentState, boot, env>>

\* The claim fails, before or after its UPDATE took effect: the consumer ends.
ClaimFails(p) ==
  /\ At(p, "claim") /\ Fault
  /\ \/ UNCHANGED status
     \/ \E i \in Ids : /\ NextInLine(who[p], i)
                       /\ status' = Marked(i)
  /\ Goto(p, "end")
  /\ UNCHANGED <<to, kind, last, memory, drain, who, myGen, msg, owed, cancelled,
                 asks, result, callers, agentState, boot, drains, crashes, cancels>>

\* A new run asks the drain once more before it is processed.
HoldCheck(p) ==
  /\ At(p, "hold")
  /\ HoldStart(p)
  /\ Goto(p, IF paused THEN "requeue" ELSE "take")
  /\ UNCHANGED <<store, running, reclaim, gen, waiters, drain, who, myGen, msg,
                 owed, cancelled, asks, result, callers, agentState, boot, env>>

\* RequeueMessage puts the row back where it was; a failed one stays running.
Requeue(p) ==
  /\ At(p, "requeue")
  /\ \/ NoFault /\ status' = [status EXCEPT ![msg[p]] = "queued"]
     \/ Fault /\ UNCHANGED status
  /\ msg' = [msg EXCEPT ![p] = 0]
  /\ Goto(p, "end")
  /\ UNCHANGED <<to, kind, last, memory, drain, who, myGen, owed, cancelled, asks,
                 result, callers, agentState, boot, drains, crashes, cancels>>

\* mutant: the waiter is unregistered and nobody keeps its channel
WaiterLost(p) == 0

\* takeWaiter: the channel the outcome goes to, if somebody waits.
TakeWaiter(p) == IF msg[p] \in waiters THEN msg[p] ELSE 0

\* process: take the waiter, publish the cancel, and enter the handler, which
\* for a run marks the agent running (processInstruction: agent.Start).
Take(p) ==
  /\ At(p, "take")
  /\ Goto(p, "handle")
  /\ owed' = [owed EXCEPT ![p] = TakeWaiter(p)]
  /\ waiters' = waiters \ {msg[p]}
  /\ agentState' = [agentState EXCEPT ![who[p]] =
       IF kind[msg[p]] \in {"instruction", "observation", "approval"}
         THEN "running" ELSE @]
  /\ UNCHANGED <<store, running, reclaim, gen, held, drain, who, myGen, msg,
                 cancelled, asks, result, callers, boot, env>>

\* mutant: a message whose handler failed goes back to the queue
RetryFailed(p, err) == IF err THEN "queued" ELSE "done"

Outcome(p, err) == IF ~err THEN "done" ELSE IF CtxErr(p) THEN "stopped" ELSE "failed"

\* The handler returns; ctx.Err() is read before the cleanup cancels.
HandlerReturns(p, err) ==
  /\ At(p, "handle") /\ asks[p] = 0
  /\ (kind[msg[p]] = "stop") => ~err
  /\ result' = [result EXCEPT ![p] = Outcome(p, err)]
  /\ cancelled' = [cancelled EXCEPT ![p] = FALSE]
  /\ Goto(p, "finish")
  /\ UNCHANGED <<store, memory, drain, who, myGen, msg, owed, asks, callers,
                 agentState, boot, env>>

\* FinishAgentMessage, then the outcome goes to the waiter process() returned.
Finish(p) ==
  /\ At(p, "finish")
  /\ \/ NoFault /\ status' = [status EXCEPT ![msg[p]] = result[p]]
     \/ Fault /\ UNCHANGED status
  /\ msg' = [msg EXCEPT ![p] = 0]
  /\ result' = [result EXCEPT ![p] = "done"]
  /\ Goto(p, IF owed[p] = 0 THEN "claim" ELSE "dry")
  /\ UNCHANGED <<to, kind, last, memory, drain, who, myGen, owed, cancelled, asks,
                 callers, agentState, boot, drains, crashes, cancels>>

\* queueIsDry: nothing behind it, so the consumer ends before the caller is
\* released; a count that fails counts as dry.
DryCheck(p) ==
  /\ At(p, "dry")
  /\ \/ /\ Queued(who[p]) = {} /\ NoFault
        /\ Goto(p, "end") /\ UNCHANGED <<owed, caller>>
     \/ /\ Fault
        /\ Goto(p, "end") /\ UNCHANGED <<owed, caller>>
     \/ /\ Queued(who[p]) # {} /\ NoFault
        /\ Goto(p, "claim")
        /\ owed' = [owed EXCEPT ![p] = 0]
        /\ Deliver(owed[p])
  /\ UNCHANGED <<store, memory, drain, who, myGen, msg, cancelled, asks, result,
                 ctxDone, agentState, boot, drains, crashes, cancels>>

\* mutant: endDrain does not compare generations
NeverArrived(p) == FALSE

Arrived(p) == gen[who[p]] # myGen[p]

\* endDrain's critical section.
EndDrain(p) ==
  /\ At(p, "end")
  /\ running' = [running EXCEPT ![who[p]] = FALSE]
  /\ Goto(p, IF Arrived(p) THEN "start" ELSE "drained")
  /\ myGen' = [myGen EXCEPT ![p] = 0]
  /\ UNCHANGED <<store, reclaim, gen, waiters, held, drain, who, msg, owed,
                 cancelled, asks, result, callers, agentState, boot, env>>

\* drained(agent) outside the lock: Autonomy.drainedAgent marks the agent idle.
Drained(p) ==
  /\ At(p, "drained")
  /\ agentState' = [agentState EXCEPT ![who[p]] = "idle"]
  /\ Leave(p)
  /\ UNCHANGED <<store, memory, drain, myGen, msg, cancelled, asks, result,
                 ctxDone, boot, env>>

-----------------------------------------------------------------------------
(* The drain as the inbox sees it (RestartDrain has its own module), the   *)
(* process's death and its successor's boot.                               *)

BeginDrain ==
  /\ drains < MaxDrain /\ drains' = drains + 1
  /\ paused' = TRUE
  /\ UNCHANGED <<store, memory, resuming, toStart, procs, callers, agentState,
                 boot, crashes, faults, cancels>>

\* RestartDrain.finish after the timeout: active goes down under the drain's own
\* lock, and resume is called after it.
FinishDrain ==
  /\ DrainExpires /\ paused /\ ~resuming
  /\ paused' = FALSE /\ resuming' = TRUE
  /\ UNCHANGED <<store, memory, toStart, procs, callers, agentState, boot, env>>

\* resumePaused: swap the held agents out, then start them one by one.
ResumePaused ==
  /\ resuming
  /\ resuming' = FALSE
  /\ toStart' = toStart \cup held
  /\ held' = {}
  /\ UNCHANGED <<store, running, reclaim, gen, waiters, paused, procs, callers,
                 agentState, boot, env>>

StartHeld(p, a) ==
  /\ a \in toStart
  /\ toStart' = toStart \ {a}
  /\ CallStart(p, a)
  /\ UNCHANGED <<store, memory, paused, resuming, callers, agentState, boot, env>>

Crash ==
  /\ crashes < MaxCrash /\ crashes' = crashes + 1
  /\ running' = [a \in Agents |-> FALSE]
  /\ reclaim' = [a \in Agents |-> FALSE]
  /\ gen' = [a \in Agents |-> 0]
  /\ waiters' = {} /\ held' = {}
  /\ paused' = FALSE /\ resuming' = FALSE /\ toStart' = {}
  /\ pc' = [p \in Procs |-> "free"]
  /\ who' = [p \in Procs |-> NoAgent]
  /\ myGen' = [p \in Procs |-> 0]
  /\ msg' = [p \in Procs |-> 0]
  /\ owed' = [p \in Procs |-> 0]
  /\ cancelled' = [p \in Procs |-> FALSE]
  /\ asks' = [p \in Procs |-> 0]
  /\ result' = [p \in Procs |-> "done"]
  /\ caller' = [i \in Ids |-> IF caller[i] = "waiting" THEN "gone" ELSE caller[i]]
  /\ ctxDone' = {}
  /\ agentState' = [a \in Agents |-> "idle"]
  /\ boot' = Agents
  /\ UNCHANGED <<store, drains, faults, cancels>>

\* The boot scans decide to start this agent (graceful.go; which agents they
\* choose is module GracefulRestart's subject).
BootStart(p, a) ==
  /\ a \in boot
  /\ boot' = boot \ {a}
  /\ CallStart(p, a)
  /\ UNCHANGED <<store, memory, drain, callers, agentState, env>>

-----------------------------------------------------------------------------
Consumer(p) ==
  \/ Reclaim(p) \/ Claim(p) \/ ClaimNothing(p) \/ ClaimFails(p)
  \/ HoldCheck(p) \/ Requeue(p) \/ Take(p)
  \/ (\E err \in BOOLEAN : HandlerReturns(p, err))
  \/ Finish(p) \/ DryCheck(p) \/ EndDrain(p) \/ Drained(p)

Goroutine(p) == StartHold(p) \/ Launch(p) \/ Consumer(p) \/ AnswerToHandler(p)

Environment ==
  \/ \E p \in Procs, a \in Agents :
       \/ \E k \in UserKinds, waits \in UserWaits : Enqueue(p, a, k, waits)
       \/ BootStart(p, a)
  \/ \E p, q \in Procs, w \in Workers : Delegate(p, q, w)
  \/ \E i \in Ids : CancelCaller(i)
  \/ \E a \in Agents : Stop(a)
  \/ BeginDrain \/ FinishDrain \/ Crash

Next ==
  \/ \E p \in Procs : Goroutine(p)
  \/ \E i \in Ids : GiveUp(i)
  \/ ResumePaused
  \/ \E p \in Procs, a \in Agents : StartHeld(p, a)
  \/ Environment

Spec == Init /\ [][Next]_vars

\* Every goroutine keeps running, a handler returns, a context that is done is
\* noticed, and a drain that can expire does.
Fairness ==
  /\ \A p \in Procs : WF_vars(Goroutine(p))
  /\ \A i \in Ids : WF_vars(GiveUp(i))
  /\ WF_vars(FinishDrain) /\ WF_vars(ResumePaused)
  /\ \A a \in Agents : WF_vars(\E p \in Procs : StartHeld(p, a))

FairSpec == Spec /\ Fairness

-----------------------------------------------------------------------------
(* Correctness.                                                            *)

MsgOrNone == Ids \cup {0}

TypeStore ==
  /\ status \in [Ids -> Statuses]
  /\ to \in [Ids -> Agents \cup {NoAgent}]
  /\ kind \in [Ids -> Kinds]
  /\ last \in 0..MaxMsg

TypeMemory ==
  /\ running \in [Agents -> BOOLEAN] /\ reclaim \in [Agents -> BOOLEAN]
  /\ gen \in [Agents -> Nat]
  /\ waiters \subseteq Ids /\ held \subseteq Agents
  /\ paused \in BOOLEAN /\ resuming \in BOOLEAN /\ toStart \subseteq Agents
  /\ agentState \in [Agents -> {"idle", "running"}]
  /\ boot \subseteq Agents

TypeProcs ==
  /\ pc \in [Procs -> Stages]
  /\ who \in [Procs -> Agents \cup {NoAgent}]
  /\ myGen \in [Procs -> Nat]
  /\ msg \in [Procs -> MsgOrNone] /\ owed \in [Procs -> MsgOrNone]
  /\ cancelled \in [Procs -> BOOLEAN]
  /\ asks \in [Procs -> MsgOrNone]
  /\ result \in [Procs -> Finished]
  /\ \A p \in Procs : pc[p] # "free" => who[p] \in Agents

TypeCallers ==
  /\ caller \in [Ids -> Callers]
  /\ ctxDone \subseteq Ids
  /\ drains \in 0..MaxDrain /\ crashes \in 0..MaxCrash
  /\ faults \in 0..MaxFault /\ cancels \in 0..MaxCancel

\* Every variable keeps its type: the Go maps' keys and values, and the store's
\* columns.
TypeOK == TypeStore /\ TypeMemory /\ TypeProcs /\ TypeCallers

\* "one per agent, never two" (drain's comment): two goroutines never drain the
\* same agent's inbox, whatever start() calls, holds, restarts and re-checks in
\* endDrain interleave.
OneConsumer ==
  \A p, q \in Procs :
    pc[p] \in Draining /\ pc[q] \in Draining /\ who[p] = who[q] => p = q

\* A message being processed is that agent's row and is `running` in the store
\* until its consumer says otherwise: RequeueRunningMessages never takes a
\* message away from a consumer of this process, and no message is processed
\* twice at once.
ClaimedOnce ==
  \A p \in Procs : pc[p] \in Holding =>
    /\ msg[p] \in Ids /\ status[msg[p]] = "running" /\ to[msg[p]] = who[p]
    /\ \A q \in Procs : pc[q] \in Holding /\ msg[q] = msg[p] => p = q

Later(i, j) == i < j /\ to[i] = to[j] /\ status[j] # "absent"

\* "the agent processes its messages in order": a message has left the queue only
\* if everything that arrived before it has been finished, across holds, crashes
\* and the next process's reclaim (no store statement failing).
InOrder ==
  MaxFault = 0 =>
    \A i, j \in Ids : Later(i, j) /\ status[j] # "queued" => status[i] \in Finished

\* Goroutine p is going to look at a's queue again: it is in start(), it is a
\* consumer that will claim, or one about to find out in endDrain that a message
\* arrived.
Coming(p, a) ==
  /\ who[p] = a
  /\ \/ pc[p] \in {"start", "launch"}
     \/ pc[p] \in Draining \ {"requeue", "end"}
     \/ pc[p] = "end" /\ gen[a] # myGen[p]

\* Somebody will look: a goroutine, or the drain or the boot that owes a start.
Attended(a) == a \in held \cup toStart \cup boot \/ \E p \in Procs : Coming(p, a)

\* No lost wakeup: a queued message always has somebody coming for it.
NoMessageUnattended == \A a \in Agents : Queued(a) # {} => Attended(a)

\* No restart was announced, or one was and it has not been called off.
NotCalledOff == drains = 0 \/ (drains = 1 /\ paused)

\* Until a restart that was announced is called off, what it holds back is still
\* owed a start: a start call and a claimed message that meet the drain leave
\* their agent in `held`, or a consumer that will claim again.
HeldIsOwed == NotCalledOff => NoMessageUnattended

\* A caller is released only when its message has ended; with every store
\* statement succeeding the row already says how.
AnsweredAfterTheEnd ==
  MaxFault = 0 =>
    \A i \in Ids : caller[i] = "answered" => status[i] \in Finished

\* A registered waiter is never stranded: as long as its caller waits, the waiter
\* is still registered with a message nobody has processed, or it is owed by the
\* goroutine that processed it.
WaiterNotStranded ==
  \A i \in Ids : caller[i] = "waiting" =>
    \/ i \in waiters /\ status[i] \in {"queued", "running"}
    \/ \E p \in Procs : owed[p] = i /\ pc[p] # "free"

\* Every accepted message is eventually processed (no restart announced, no
\* crash, no failing store).
EveryMessageEnds ==
  \A i \in Ids : status[i] = "queued" ~> status[i] \in Finished

\* Every caller that waits is eventually answered or gives up by itself.
EveryCallerReturns ==
  \A i \in Ids : caller[i] = "waiting" ~> caller[i] # "waiting"

\* "holding them would stop an in-flight run from finishing - which is the very
\* thing a drain waits for": a run that is being processed comes to its end even
\* while a restart is drained for.
InFlightRunsFinish ==
  \A p \in Procs : pc[p] = "handle" ~> pc[p] # "handle"

\* "a synchronous caller must not return while a goroutine is still writing the
\* agent's row": when the caller of an agent's last message is answered, no
\* goroutine of that agent is left in the inbox.
CallerReturnsLast ==
  \A i \in Ids :
    caller[i] = "answered" /\ (\A j \in Ids : to[j] = to[i] => status[j] \in Finished)
      => \A p \in Procs : who[p] # to[i]

\* The agent is marked idle when its queue has run dry, not while it is
\* processing a run.
IdleMeansDry ==
  \A p \in Procs :
    pc[p] = "handle" /\ kind[msg[p]] \in {"instruction", "observation", "approval"}
      => agentState[who[p]] = "running"

-----------------------------------------------------------------------------
(* The inductive invariant behind the safety properties (InboxProofs).     *)

\* Rows are numbered without gaps and belong to an agent.
RowsNumbered ==
  \A i \in Ids : /\ status[i] = "absent" <=> last < i
                 /\ status[i] # "absent" => to[i] \in Agents

\* running[a] is set for as long as a goroutine drains a's inbox.
RunningFlag == \A p \in Procs : pc[p] \in Draining => running[who[p]]

\* What a consumer holds is a row it claimed.
HoldsClaim ==
  \A p \in Procs : pc[p] \in Holding =>
    /\ msg[p] \in Ids /\ status[msg[p]] = "running" /\ to[msg[p]] = who[p]

\* A consumer past its first step has taken the dead process's claims back.
Reclaimed ==
  \A p \in Procs : pc[p] \in Draining \ {"reclaim"} => reclaim[who[p]]

\* A running row nobody in this process holds was left by a dead process, and
\* its agent's consumer has not started yet.
NoOrphanClaim ==
  /\ faults = 0
  /\ \A i \in Ids : status[i] = "running" =>
       \/ ~reclaim[to[i]]
       \/ \E p \in Procs : pc[p] \in Holding /\ msg[p] = i

ConsumerInv == RowsNumbered /\ RunningFlag /\ OneConsumer /\ HoldsClaim /\ Reclaimed
OrderInv == MaxFault = 0 => NoOrphanClaim /\ InOrder

\* The outcome a goroutine owes is that of a message it processed: taken from
\* the registry when the handler began, and with an ended row once it is past
\* FinishAgentMessage.
OwesItsOwn ==
  \A p \in Procs :
    /\ owed[p] # 0 => pc[p] \in {"handle", "finish", "dry", "end", "start", "launch", "drained"}
    /\ pc[p] \in {"handle", "finish"} => msg[p] \notin waiters /\ owed[p] \in {0, msg[p]}
    /\ MaxFault = 0 /\ owed[p] # 0 /\ pc[p] \notin {"handle", "finish"} => status[owed[p]] \in Finished

CallerInv == OwesItsOwn /\ WaiterNotStranded /\ AnsweredAfterTheEnd

\* Until then nobody is handed back, and a consumer about to put its message
\* back has left its agent among the held.
HoldRemembered ==
  /\ ~resuming /\ toStart = {} /\ (drains = 0 => ~paused)
  /\ \A p \in Procs : pc[p] = "requeue" => who[p] \in held

\* running[a] is cleared when the consumer leaves.
FlagHasConsumer ==
  \A a \in Agents : running[a] => \E p \in Procs : pc[p] \in Draining /\ who[p] = a

\* gen only grows, and a consumer that found the queue empty sees it grow before
\* a message is there again; one that put its message back left its agent held.
GenSeen ==
  \A p \in Procs : pc[p] \in Draining =>
    /\ myGen[p] <= gen[who[p]]
    /\ pc[p] = "end" /\ Queued(who[p]) # {} => gen[who[p]] # myGen[p] \/ who[p] \in held

WakeupParts == HoldRemembered /\ FlagHasConsumer /\ GenSeen /\ NoMessageUnattended
WakeupInv == MaxFault = 0 /\ NotCalledOff => WakeupParts
=============================================================================
