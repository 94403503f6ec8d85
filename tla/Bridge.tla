------------------------------- MODULE Bridge -------------------------------
(***************************************************************************)
(* One resident provider session behind a bridge process                   *)
(* (src/src/bridgesdk, the cline and codex bridges, src/src/llmrun).       *)
(*                                                                         *)
(* The runtime sends a prompt over the child's stdin and drains the run's  *)
(* event stream until its result arrives, the watchdog finds the provider  *)
(* silent, the caller is stopped or the child dies.  A wait that ends      *)
(* without a result asks the bridge, on a goroutine of its own, to stop    *)
(* the session.  Prompts, and what an event says, are left out: a run is   *)
(* its number, an event the run that produced it and its place there.      *)
(***************************************************************************)
EXTENDS Naturals, Sequences, FiniteSets

CONSTANTS MaxSends,    \* bound: prompts sent on the handle
          MaxEvents,   \* bound: events two runs produce together
          Idle,        \* the idle timeout, in ticks
          Harnesses    \* the bridges this instance looks at

ASSUME BridgeBounds == /\ MaxSends \in Nat /\ MaxEvents \in Nat
                       /\ Idle \in Nat \ {0}
                       /\ Harnesses \subseteq {"cline", "codex"}

Sends == 1 .. MaxSends
None == 0

VARIABLES
  harness,  \* which bridge.mjs the child runs
  alive,    \* the child process runs
  tr,       \* transport: state, pending (stop calls), streams (routed runs)
  stream,   \* runStream of each run: events, done, ok, notify
  fromB,    \* the child's stdout: messages the reader has not read
  handle,   \* the child's handle: started, owned, request, controller
  flight,   \* the provider's run of each send; late (history): an event of it came
            \* when its call was not running any more
  turn,     \* the caller: pc, the run it waits on, runs sent so far
  ctx,      \* its context: "live", "idle" (watchdog) or "stopped" (caller)
  wd,       \* IdleWatchdog: left (deadline - now), due (timer), firing, fired
  stopper,  \* the goroutine of cancelRun, per run
  got,      \* history: the events the latest WaitStream delivered
  outcome,  \* history: how the latest WaitStream returned
  quiet     \* history: ticks since the caller last saw an event

bridgeVars == <<alive, fromB, handle, flight>>
vars == <<harness, alive, tr, stream, fromB, handle, flight, turn, ctx,
          wd, stopper, got, outcome, quiet>>

Event == [run : Sends, n : 1 .. MaxEvents]
Message == [type : {"event"}, to : Sends, ev : Event]
             \cup [type : {"result"}, cmd : {"send", "stop"}, run : Sends, ok : BOOLEAN]
Transports == [state : {"none", "open", "closed"}, pending : SUBSET Sends, streams : SUBSET Sends]
Streams == [events : Seq(Event), done : BOOLEAN, ok : BOOLEAN, notify : BOOLEAN]
Handles == [started : BOOLEAN, owned : BOOLEAN, request : Sends \cup {None}]
FlightStates == {"none", "running", "stopped", "returned", "over"}
Flights == [state : FlightStates, first : BOOLEAN, n : 0 .. MaxEvents, late : BOOLEAN]
Turns == [pc : {"idle", "draining", "parked"}, sent : 0 .. MaxSends]
Watchdogs == [left : 0 .. Idle, due : 0 .. Idle, firing : BOOLEAN, fired : BOOLEAN]

NewFlight == [state |-> "none", first |-> FALSE, n |-> 0, late |-> FALSE]
NewStream == [events |-> <<>>, done |-> FALSE, ok |-> FALSE, notify |-> FALSE]
NoHandle == [started |-> FALSE, owned |-> FALSE, request |-> None]
NewWatchdog == [left |-> Idle, due |-> Idle, firing |-> FALSE, fired |-> FALSE]

TypeOK ==
  /\ harness \in Harnesses /\ alive \in BOOLEAN
  /\ tr \in Transports /\ stream \in [Sends -> Streams] /\ fromB \in Seq(Message)
  /\ handle \in Handles /\ flight \in [Sends -> Flights]
  /\ turn \in Turns /\ ctx \in {"live", "idle", "stopped"} /\ wd \in Watchdogs
  /\ stopper \in [Sends -> {"none", "begin", "called", "done"}]
  /\ got \in Seq(Event) /\ outcome \in {"none", "answered", "failed", "cut"}
  /\ quiet \in 0 .. Idle

Init ==
  /\ harness \in Harnesses /\ alive = FALSE
  /\ tr = [state |-> "none", pending |-> {}, streams |-> {}]
  /\ stream = [k \in Sends |-> NewStream]
  /\ fromB = <<>>
  /\ handle = NoHandle
  /\ flight = [k \in Sends |-> NewFlight]
  /\ turn = [pc |-> "idle", sent |-> 0]
  /\ ctx = "live" /\ wd = NewWatchdog /\ quiet = 0
  /\ stopper = [k \in Sends |-> "none"]
  /\ got = <<>> /\ outcome = "none"

-----------------------------------------------------------------------------
(* The watchdog of the turn (llmrun.IdleWatchdog). *)

\* mutant: activity does not move the deadline, so the budget caps the run
NeverMoves(w) == w

\* mutant: the gap is added to the old deadline instead of to now
Extends(w) == IF w.fired THEN w ELSE [w EXCEPT !.left = w.left + Idle, !.due = Idle]

Touch(w) == IF w.fired THEN w ELSE [w EXCEPT !.left = Idle, !.due = Idle]

Tick ==
  /\ turn.pc # "idle" /\ (wd.left > 0 \/ wd.due > 0 \/ quiet < Idle)
  /\ wd' = [wd EXCEPT !.left = IF @ > 0 THEN @ - 1 ELSE 0,
                      !.due = IF @ > 0 THEN @ - 1 ELSE 0,
                      !.firing = @ \/ (wd.due = 1)]
  /\ quiet' = IF quiet < Idle THEN quiet + 1 ELSE quiet
  /\ UNCHANGED <<harness, bridgeVars, tr, stream, turn, ctx, stopper, got, outcome>>

\* mutant: the callback re-arms when nothing remains, and never cancels
Reversed(w) == ~w.fired /\ w.left > Idle

GoneIdle(w) == ~w.fired /\ w.left = 0

\* The timer goroutine takes the lock: it cancels, or re-arms for what is left.
OnIdle ==
  /\ wd.firing
  /\ IF GoneIdle(wd)
       THEN /\ wd' = [wd EXCEPT !.firing = FALSE, !.fired = TRUE]
            /\ ctx' = IF ctx = "live" THEN "idle" ELSE ctx
       ELSE /\ wd' = [wd EXCEPT !.firing = FALSE, !.due = IF wd.fired THEN @ ELSE wd.left]
            /\ UNCHANGED ctx
  /\ UNCHANGED <<harness, bridgeVars, tr, stream, turn, stopper, got, outcome, quiet>>

CallerStops ==
  /\ turn.pc # "idle" /\ ctx = "live"
  /\ ctx' = "stopped"
  /\ UNCHANGED <<harness, bridgeVars, tr, stream, turn, wd, stopper, got, outcome, quiet>>

-----------------------------------------------------------------------------
(* What the child does with a request as it reads it (bridge.mjs).  The pipe *)
(* of its stdin is folded into the moment the runtime writes.                *)

\* The cline bridge starts the session on the first send after a stop and
\* remembers one request per handle; codex one abort controller per handle.
ChildSend(k) ==
  /\ flight' = [flight EXCEPT ![k] =
       [state |-> "running", first |-> ~handle.started, n |-> 0, late |-> FALSE]]
  /\ handle' = [handle EXCEPT !.request = k, !.owned = TRUE]

\* mutant: a stop is answered and the run it was for goes on
StopsNothing == {}

\* The runs a stop reaches: cline, those of a session whose start has
\* returned; codex, the run whose controller is the handle's.
Reached ==
  {k \in Sends : /\ flight[k].state = "running"
                 /\ IF harness = "cline" THEN handle.started ELSE handle.request = k}

ChildStop(call) ==
  /\ flight' = [k \in Sends |-> IF k \in Reached THEN [flight[k] EXCEPT !.state = "stopped"]
                                                 ELSE flight[k]]
  /\ handle' = IF harness = "cline" /\ handle.started
                 THEN [handle EXCEPT !.started = FALSE, !.owned = FALSE] ELSE handle
  /\ fromB' = Append(fromB, [type |-> "result", cmd |-> "stop", run |-> call, ok |-> TRUE])

-----------------------------------------------------------------------------
(* The caller: Agent.Send, Run.WaitStream, and the stop after a cut wait. *)

Open == tr.state = "open"

\* Client.ensure on first use: the child is spawned and says it is ready.  The
\* transport is kept from then on, whatever becomes of the child.
Start ==
  /\ tr.state = "none" /\ turn.pc = "idle" /\ turn.sent < MaxSends
  /\ alive' = TRUE /\ tr' = [tr EXCEPT !.state = "open"]
  /\ UNCHANGED <<harness, stream, fromB, handle, flight, turn, ctx, wd, stopper, got, outcome, quiet>>

\* No ready line in time, an early exit or another protocol: the child is
\* killed, nothing is kept and the prompt fails.
NotReady ==
  /\ tr.state = "none" /\ turn.pc = "idle" /\ turn.sent < MaxSends
  /\ turn' = [turn EXCEPT !.sent = @ + 1] /\ outcome' = "failed"
  /\ UNCHANGED <<harness, bridgeVars, tr, stream, ctx, wd, stopper, got, quiet>>

\* A send on a closed transport, or into a dead child's pipe, is an error
\* and leaves nothing behind.
Send ==
  LET k == turn.sent + 1 IN
  /\ tr.state # "none" /\ turn.pc = "idle" /\ k \in Sends
  /\ IF Open /\ alive
       THEN /\ tr' = [tr EXCEPT !.streams = @ \cup {k}]
            /\ ChildSend(k)
            /\ turn' = [pc |-> "draining", sent |-> k]
            /\ wd' = NewWatchdog /\ outcome' = "none"
       ELSE /\ turn' = [turn EXCEPT !.sent = k]
            /\ outcome' = "failed"
            /\ UNCHANGED <<tr, wd, handle, flight>>
  /\ got' = <<>>
  /\ UNCHANGED <<harness, alive, fromB, stream, ctx, stopper, quiet>>

Waiting == stream[turn.sent]

Consume ==
  LET k == turn.sent IN
  /\ turn.pc = "draining" /\ Waiting.events # <<>>
  /\ got' = Append(got, Head(Waiting.events))
  /\ stream' = [stream EXCEPT ![k].events = Tail(@)]
  /\ wd' = Touch(wd) /\ quiet' = 0
  /\ UNCHANGED <<harness, bridgeVars, tr, turn, ctx, stopper, outcome>>

\* The buffer is empty and the run is not done: wait for the one-slot signal.
Park ==
  /\ turn.pc = "draining" /\ Waiting.events = <<>> /\ ~Waiting.done
  /\ turn' = [turn EXCEPT !.pc = "parked"]
  /\ UNCHANGED <<harness, bridgeVars, tr, stream, ctx, wd, stopper, got, outcome, quiet>>

Wake ==
  /\ turn.pc = "parked" /\ Waiting.notify
  /\ stream' = [stream EXCEPT ![turn.sent].notify = FALSE]
  /\ turn' = [turn EXCEPT !.pc = "draining"]
  /\ UNCHANGED <<harness, bridgeVars, tr, ctx, wd, stopper, got, outcome, quiet>>

\* WaitStream returns; without a result it also starts the stop of the session.
\* What a stream nobody drains any more still buffers is left out, and so is a
\* timer callback of the stopped watchdog, which finds it fired.
Return(how) ==
  LET k == turn.sent IN
  /\ turn' = [turn EXCEPT !.pc = "idle"]
  /\ outcome' = how
  /\ stopper' = IF how = "answered" THEN stopper ELSE [stopper EXCEPT ![k] = "begin"]
  /\ stream' = [stream EXCEPT ![k] = NewStream]
  /\ wd' = NewWatchdog /\ ctx' = "live" /\ quiet' = 0
  /\ UNCHANGED <<harness, bridgeVars, tr, got>>

Answer ==
  /\ turn.pc = "draining" /\ Waiting.events = <<>> /\ Waiting.done
  /\ Return(IF Waiting.ok THEN "answered" ELSE "failed")

\* The select may prefer the context to a signal that is there as well.
Cut ==
  /\ turn.pc = "parked" /\ ctx # "live"
  /\ Return("cut")

StopCall(k) ==
  /\ stopper[k] = "begin"
  /\ IF Open /\ alive
       THEN /\ tr' = [tr EXCEPT !.pending = @ \cup {k}]
            /\ ChildStop(k)
            /\ stopper' = [stopper EXCEPT ![k] = "called"]
       ELSE stopper' = [stopper EXCEPT ![k] = "done"] /\ UNCHANGED <<tr, fromB, handle, flight>>
  /\ UNCHANGED <<harness, alive, stream, turn, ctx, wd, got, outcome, quiet>>

\* 20 seconds without an answer: the call forgets its request.
StopTimesOut(k) ==
  /\ stopper[k] = "called" /\ k \in tr.pending
  /\ tr' = [tr EXCEPT !.pending = @ \ {k}]
  /\ stopper' = [stopper EXCEPT ![k] = "done"]
  /\ UNCHANGED <<harness, bridgeVars, stream, turn, ctx, wd, got, outcome, quiet>>

-----------------------------------------------------------------------------
(* The reader of the child's stdout (transport.readLoop). *)

Finish(s, ok) == IF s.done THEN s ELSE [s EXCEPT !.done = TRUE, !.ok = ok, !.notify = TRUE]

Drained(k) == turn.pc # "idle" /\ k = turn.sent

\* An event for a run nobody routes to, and an answer nobody waits for, are dropped.
Dispatch ==
  LET m == Head(fromB) IN
  /\ fromB # <<>>
  /\ fromB' = Tail(fromB)
  /\ IF m.type = "event"
       THEN /\ stream' = IF m.to \in tr.streams /\ Drained(m.to)
                           THEN [stream EXCEPT ![m.to].events = Append(@, m.ev),
                                               ![m.to].notify = TRUE]
                           ELSE stream
            /\ UNCHANGED <<tr, stopper>>
       ELSE IF m.cmd = "send"
       THEN /\ stream' = IF m.run \in tr.streams /\ Drained(m.run)
                           THEN [stream EXCEPT ![m.run] = Finish(@, m.ok)] ELSE stream
            /\ tr' = [tr EXCEPT !.streams = @ \ {m.run}]
            /\ UNCHANGED stopper
       ELSE /\ tr' = [tr EXCEPT !.pending = @ \ {m.run}]
            /\ stopper' = IF m.run \in tr.pending
                            THEN [stopper EXCEPT ![m.run] = "done"] ELSE stopper
            /\ UNCHANGED stream
  /\ UNCHANGED <<harness, alive, handle, flight, turn, ctx, wd, got, outcome, quiet>>

\* mutant: the end of the stream fails the calls and forgets the runs
CallsOnly == {}

Stolen == tr.streams

\* End of the child's output, or Client.Close: whoever waits is told, once.
Shutdown ==
  /\ Open
  /\ tr' = [state |-> "closed", pending |-> {}, streams |-> {}]
  /\ stream' = [k \in Sends |-> IF k \in Stolen /\ Drained(k) THEN Finish(stream[k], FALSE) ELSE stream[k]]
  /\ stopper' = [k \in Sends |-> IF k \in tr.pending THEN "done" ELSE stopper[k]]
  /\ UNCHANGED <<harness, turn, ctx, wd, got, outcome, quiet>>

ReaderEnds ==
  /\ ~alive /\ fromB = <<>>
  /\ Shutdown
  /\ UNCHANGED bridgeVars

Over(f) == [f EXCEPT !.state = IF @ = "none" THEN "none" ELSE "over"]

\* Closing stdin ends the child; what it still writes finds nobody.
CloseClient ==
  /\ Shutdown
  /\ alive' = FALSE
  /\ flight' = [k \in Sends |-> Over(flight[k])]
  /\ handle' = NoHandle
  /\ UNCHANGED fromB

-----------------------------------------------------------------------------
(* The child: bridge.mjs of the harness, and the provider behind it. *)

runtimeVars == <<harness, tr, stream, turn, ctx, wd, stopper, got, outcome, quiet>>

\* mutant: the codex bridge tags its events from the handle as cline does
FromHandle(k) == IF handle.owned THEN handle.request ELSE None

\* The request an event of run k is written for: cline looks up the owner of
\* the session and its current request, codex closes over the request.
RequestOf(k) == IF harness = "codex" THEN k
                ELSE IF handle.owned THEN handle.request ELSE None

\* codex reads its events inside the call.  cline's are handed over by the
\* session's subscription: the last ones may land after the call has returned.
Emits(k) == \/ flight[k].state \in {"running", "stopped"}
            \/ harness = "cline" /\ flight[k].state \in {"returned", "over"}

\* An event that belongs to no request is written with none, and the transport
\* reads past it: it is left out of the pipe.
ProviderEvent(k) ==
  /\ alive /\ Emits(k)
  /\ flight[k].n < MaxEvents
  /\ \A j \in Sends \ {k} : flight[k].n + flight[j].n < MaxEvents
  /\ flight' = [flight EXCEPT ![k].n = @ + 1, ![k].late = @ \/ flight[k].state # "running"]
  /\ fromB' = IF RequestOf(k) = None THEN fromB
               ELSE Append(fromB, [type |-> "event", to |-> RequestOf(k),
                                   ev |-> [run |-> k, n |-> flight[k].n + 1]])
  /\ UNCHANGED <<runtimeVars, alive, handle>>

ResultOf(k, ok) == [type |-> "result", cmd |-> "send", run |-> k, ok |-> ok]

\* The provider call of send k returns or throws: the finally clears the
\* handle's request (or controller), whoever's it is by now.  An error, and
\* codex's result, is written before anything else happens in the child; cline
\* first asks the session for its usage.
ProviderEnds(k, ok) ==
  /\ alive /\ flight[k].state \in {"running", "stopped"}
  /\ flight[k].state = "stopped" => ~ok
  /\ handle' = [handle EXCEPT !.request = None,
                              !.started = @ \/ (ok /\ flight[k].first),
                              !.owned = @ \/ (ok /\ flight[k].first)]
  /\ IF harness = "cline" /\ ok
       THEN /\ flight' = [flight EXCEPT ![k].state = "returned"]
            /\ UNCHANGED fromB
       ELSE /\ flight' = [flight EXCEPT ![k].state = "over"]
            /\ fromB' = Append(fromB, ResultOf(k, ok))
  /\ UNCHANGED <<runtimeVars, alive>>

\* (The error event a cline bridge adds to a failed run's result is left out.)
WriteResult(k) ==
  /\ alive /\ flight[k].state = "returned"
  /\ flight' = [flight EXCEPT ![k].state = "over"]
  /\ fromB' = Append(fromB, ResultOf(k, TRUE))
  /\ UNCHANGED <<runtimeVars, alive, handle>>

Dies ==
  /\ alive
  /\ alive' = FALSE
  /\ flight' = [k \in Sends |-> Over(flight[k])]
  /\ handle' = NoHandle
  /\ UNCHANGED <<runtimeVars, fromB>>

-----------------------------------------------------------------------------
Drain == Consume \/ Park \/ Wake \/ Answer \/ Cut
Reader == Dispatch \/ ReaderEnds

Next ==
  \/ Start \/ NotReady \/ Send \/ Consume \/ Park \/ Wake \/ Answer \/ Cut
  \/ Tick \/ OnIdle \/ CallerStops
  \/ \E k \in Sends : \/ StopCall(k) \/ StopTimesOut(k)
                      \/ ProviderEvent(k) \/ WriteResult(k)
                      \/ \E ok \in BOOLEAN : ProviderEnds(k, ok)
  \/ Dispatch \/ ReaderEnds \/ CloseClient
  \/ Dies

Spec == Init /\ [][Next]_vars

\* The goroutines of the runtime run, timers fire, and a live child answers
\* what it was told to stop.  The provider owes nothing: a
\* run may stay silent for ever.
Fairness ==
  /\ WF_vars(Drain)
  /\ WF_vars(Tick) /\ WF_vars(OnIdle) /\ WF_vars(Reader)
  /\ \A k \in Sends : /\ WF_vars(StopCall(k)) /\ WF_vars(WriteResult(k))
                      /\ WF_vars(flight[k].state = "stopped" /\ ProviderEnds(k, FALSE))

FairSpec == Spec /\ Fairness

-----------------------------------------------------------------------------
(* Properties. *)

CutBefore == \E k \in Sends : k < turn.sent /\ stopper[k] # "none"

\* No event has landed when its run's call was not running any more.
OnTime == \A k \in Sends : ~flight[k].late

\* WaitStream hands its caller the events of its own run, in order and with
\* none missing by the time it answers - in codex always; in cline as long as
\* no earlier wait on the handle ended without a result and no event landed
\* after the call it belongs to (it is dropped then, or read as the next
\* prompt's).
OwnEvents ==
  harness = "codex" \/ (~CutBefore /\ OnTime) =>
    /\ \A i \in 1 .. Len(got) : got[i] = [run |-> turn.sent, n |-> i]
    /\ outcome = "answered" => Len(got) = flight[turn.sent].n

\* Once the transport is closed nobody waits on it: the run being drained is
\* done and no call is outstanding (transport.shutdown against write).
ClosedIsKnown ==
  tr.state = "closed" => /\ turn.pc # "idle" => Waiting.done
               /\ \A k \in Sends : stopper[k] # "called"

\* The watchdog cuts only a run whose caller has seen nothing for the whole
\* idle time, although its timer may fire while an event is being taken.
CutOnlyWhenQuiet == [][ctx = "live" /\ ctx' = "idle" => quiet = Idle]_vars

CutRun(k) == turn.sent = k /\ outcome = "cut"

\* No turn hangs, and none leaves a run behind: a silent provider, a dead child
\* and a lost answer all end it, and a run whose wait was cut ends at the
\* provider too, unless another prompt is sent before the stop, an earlier wait
\* on the handle was cut too, or (cline) its session was only being started.
TurnAndRunEnd ==
  []<>(/\ turn.pc = "idle"
       /\ outcome = "cut" => \/ ~alive \/ CutBefore
                             \/ flight[turn.sent].state = "over"
                             \/ harness = "cline" /\ flight[turn.sent].first)

\* What bridge.mjs says of the events it streams: they are paired with the
\* prompt that produced them.
PairedWithItsPrompt ==
  \A i \in 1 .. Len(got) : got[i].run = turn.sent

\* What cancelRun says: a timed-out run does not keep running at the provider.
TimedOutRunStops ==
  \A k \in Sends : CutRun(k) ~> flight[k].state = "over" \/ ~alive
=============================================================================
