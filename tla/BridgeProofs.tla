---------------------------- MODULE BridgeProofs ----------------------------
(***************************************************************************)
(* What holds of a session behind a stdio bridge, for any number of        *)
(* prompts, events and ticks, in either harness. BridgeInv is inductive:   *)
(* what the caller has been handed, what its stream buffers and what the   *)
(* child's pipe still holds of the current run are, one after the other,   *)
(* the events the run produced (InOrder).  And what holds of a cursor      *)
(* prompt, whose runs live at the provider: CursorInv.                     *)
(***************************************************************************)
EXTENDS Bridge, CursorRun, SequenceTheorems, TLAPS

USE DEF None

\* Nothing has been done for a prompt that was not sent, and only the run being
\* waited on has a stream that fills.
FreshInv ==
  \A k \in Sends :
    /\ k > turn.sent => flight[k].state = "none" /\ flight[k].n = 0 /\ ~flight[k].late
    /\ k > turn.sent \/ Drained(k) => stopper[k] = "none"
    /\ ~Drained(k) => stream[k] = NewStream
    /\ k \in tr.streams => k <= turn.sent

\* Where the unread events and results of runs are in the child's pipe.
Events == {p \in 1 .. Len(fromB) : fromB[p].type = "event"}
Results == {p \in 1 .. Len(fromB) : fromB[p].type = "result" /\ fromB[p].cmd = "send"}

\* Every event was written before the result of its run: codex reads them inside
\* the call, cline's come by subscription and may land after it.
InTime == harness = "codex" \/ OnTime

\* The result of a run is written when it is over, and is the last the child
\* writes of it if its events are in time.
ResultInv ==
  \A p \in Results :
    /\ flight[fromB[p].run].state = "over"
    /\ InTime => \A q \in Events : fromB[q].ev.run = fromB[p].run => q < p

\* A run nobody waits on any more is over, and read to the end if its events are
\* in time, unless a stop was sent after it.
SettledInv ==
  \A k \in Sends : ~Drained(k) /\ stopper[k] = "none" =>
    /\ flight[k].state \in {"none", "over"}
    /\ InTime => \A p \in Events : fromB[p].ev.run # k

\* The bridge pairs the events of the current run with it.
Paired == harness = "codex" \/ (~CutBefore /\ OnTime)

OwnerInv ==
  /\ harness = "codex" => \A p \in Events : fromB[p].to = fromB[p].ev.run
  /\ harness = "cline" /\ ~CutBefore =>
       \A k \in Sends : k = turn.sent /\ flight[k].state = "running" =>
         handle.owned /\ handle.request = k
  /\ Paired => \A p \in Events : fromB[p].to = turn.sent <=> fromB[p].ev.run = turn.sent

\* What the caller has, what its stream buffers and what the reader has still to
\* read of the run are its events, one after the other.
Taken == Len(got) + Len(stream[turn.sent].events)

InOrder ==
  /\ \A i \in 1 .. Len(got) : got[i] = [run |-> turn.sent, n |-> i]
  /\ turn.pc # "idle" =>
       /\ \A i \in 1 .. Len(Waiting.events) :
            Waiting.events[i] = [run |-> turn.sent, n |-> Len(got) + i]
       /\ Taken <= flight[turn.sent].n
       /\ turn.sent \in tr.streams =>
            /\ \A p \in Events : fromB[p].ev.run = turn.sent =>
                 fromB[p].ev.n \in Taken + 1 .. flight[turn.sent].n
            /\ \A p, q \in Events :
                 p < q /\ fromB[p].ev.run = turn.sent /\ fromB[q].ev.run = turn.sent =>
                   fromB[p].ev.n < fromB[q].ev.n
            /\ \A n \in Taken + 1 .. flight[turn.sent].n :
                 \E p \in Events : fromB[p].ev.run = turn.sent /\ fromB[p].ev.n = n

StreamInv == Paired => InOrder

\* A run that is done is out of the routing table, and one that succeeded has
\* ended at the provider, with nothing left to read if its events are in time.
DoneInv ==
  /\ turn.pc # "idle" =>
       /\ turn.sent \in Sends
       /\ turn.sent \in tr.streams <=> ~Waiting.done
       /\ Waiting.done /\ Waiting.ok =>
            /\ flight[turn.sent].state = "over"
            /\ InTime => \A p \in Events : fromB[p].ev.run # turn.sent
            /\ Paired => Taken = flight[turn.sent].n
  /\ outcome = "answered" =>
       /\ turn.pc = "idle" /\ turn.sent \in Sends /\ flight[turn.sent].state = "over"
       /\ Paired => Len(got) = flight[turn.sent].n

\* A transport that was never opened has carried nothing; a closed one owes
\* nobody an answer.
TransportInv ==
  /\ tr.state = "none" => got = <<>> /\ turn.pc = "idle" /\ tr.streams = {}
  /\ tr.state = "closed" => tr.streams = {} /\ tr.pending = {}
  /\ \A k \in Sends : stopper[k] = "called" <=> k \in tr.pending

\* The deadline moves with what the caller sees.
WatchInv == /\ wd.left + quiet >= Idle \/ wd.fired
            /\ turn.pc = "idle" => quiet = 0
            /\ ctx = "live" => ~wd.fired

BridgeInv ==
  /\ FreshInv /\ ResultInv /\ SettledInv /\ OwnerInv /\ StreamInv /\ DoneInv
  /\ TransportInv /\ WatchInv

-----------------------------------------------------------------------------
\* The unread events and results are where and what they were.
Kept == /\ Events' = Events /\ Results' = Results
        /\ \A p \in Events \cup Results : fromB'[p] = fromB[p]

\* A message is written behind the unread ones.
LEMMA Written ==
  ASSUME fromB \in Seq(Message), NEW m \in Message, fromB' = Append(fromB, m)
  PROVE  LET l == Len(fromB) + 1 IN
         /\ fromB'[l] = m /\ \A p \in Events \cup Results : fromB'[p] = fromB[p] /\ p < l
         /\ Events' = IF m.type = "event" THEN Events \cup {l} ELSE Events
         /\ Results' = IF m.type = "result" /\ m.cmd = "send" THEN Results \cup {l} ELSE Results
<1> DEFINE l == Len(fromB) + 1
<1>1. /\ Len(fromB) \in Nat /\ Len(fromB') = l /\ fromB'[l] = m
      /\ \A p \in 1 .. Len(fromB) : fromB'[p] = fromB[p] /\ p < l
  OBVIOUS
<1>2. \A p : p \in 1 .. Len(fromB') <=> p \in 1 .. Len(fromB) \/ p = l
  BY <1>1
<1>3. Events' = IF m.type = "event" THEN Events \cup {l} ELSE Events
  BY <1>1, <1>2 DEF Events
<1>4. Results' = IF m.type = "result" /\ m.cmd = "send" THEN Results \cup {l} ELSE Results
  BY <1>1, <1>2 DEF Results
<1>5. \A p \in Events \cup Results : fromB'[p] = fromB[p] /\ p < l
  BY <1>1 DEF Events, Results
<1>6. QED
  BY <1>1, <1>3, <1>4, <1>5

\* The reader takes the first message; the others move up by one.
LEMMA ReadOff ==
  ASSUME fromB \in Seq(Message), fromB # <<>>, fromB' = Tail(fromB)
  PROVE  /\ fromB[1] = Head(fromB) /\ fromB[1] \in Message
         /\ 1 \in Events <=> fromB[1].type = "event"
         /\ 1 \in Results <=> fromB[1].type = "result" /\ fromB[1].cmd = "send"
         /\ \A p \in Events' : p + 1 \in Events /\ fromB'[p] = fromB[p + 1]
         /\ \A p \in Results' : p + 1 \in Results /\ fromB'[p] = fromB[p + 1]
         /\ \A p \in Events' \cup Results' : p \in Nat /\ p + 1 > 1
         /\ \A p \in Events \ {1} : p - 1 \in Events' /\ fromB'[p - 1] = fromB[p]
<1>1. /\ fromB' \in Seq(Message) /\ Len(fromB) \in Nat \ {0} /\ Len(fromB') = Len(fromB) - 1
      /\ \A p \in 1 .. Len(fromB) - 1 : fromB'[p] = fromB[p + 1]
  BY HeadTailProperties
<1>2. fromB[1] = Head(fromB) /\ fromB[1] \in Message /\ 1 \in 1 .. Len(fromB)
  BY <1>1
<1>3. \A p \in 1 .. Len(fromB') :
        p + 1 \in 1 .. Len(fromB) /\ fromB'[p] = fromB[p + 1] /\ p \in Nat /\ p + 1 > 1
  BY <1>1
<1>4. ASSUME NEW p \in 1 .. Len(fromB), p # 1
      PROVE  p - 1 \in 1 .. Len(fromB') /\ fromB'[p - 1] = fromB[p]
  <2>1. p - 1 \in 1 .. Len(fromB) - 1 /\ (p - 1) + 1 = p
    BY <1>1, <1>4
  <2>2. QED
    BY <1>1, <2>1
<1>5. /\ 1 \in Events <=> fromB[1].type = "event"
      /\ 1 \in Results <=> fromB[1].type = "result" /\ fromB[1].cmd = "send"
  BY <1>2 DEF Events, Results
<1>6. /\ \A p \in Events' : p + 1 \in Events /\ fromB'[p] = fromB[p + 1]
      /\ \A p \in Results' : p + 1 \in Results /\ fromB'[p] = fromB[p + 1]
      /\ \A p \in Events' \cup Results' : p \in Nat /\ p + 1 > 1
  BY <1>3 DEF Events, Results
<1>7. \A p \in Events \ {1} : p - 1 \in Events' /\ fromB'[p - 1] = fromB[p]
  BY <1>4 DEF Events
<1>8. QED
  BY <1>2, <1>5, <1>6, <1>7

\* A stream keeps its type when one of its fields is set.
LEMMA FieldSet ==
  ASSUME NEW s \in Streams, NEW e \in Seq(Event), NEW b \in BOOLEAN
  PROVE  /\ [s EXCEPT !.events = e] \in Streams /\ [s EXCEPT !.notify = b] \in Streams
         /\ [s EXCEPT !.done = b] \in Streams /\ [s EXCEPT !.ok = b] \in Streams
<1>1. s.events \in Seq(Event) /\ s.done \in BOOLEAN /\ s.ok \in BOOLEAN /\ s.notify \in BOOLEAN
  BY DEF Streams
<1>2. [s EXCEPT !.events = e] =
        [events |-> e, done |-> s.done, ok |-> s.ok, notify |-> s.notify]
  BY DEF Streams
<1>3. [s EXCEPT !.notify = b] =
        [events |-> s.events, done |-> s.done, ok |-> s.ok, notify |-> b]
  BY DEF Streams
<1>4. [s EXCEPT !.done = b] =
        [events |-> s.events, done |-> b, ok |-> s.ok, notify |-> s.notify]
  BY DEF Streams
<1>5. [s EXCEPT !.ok = b] =
        [events |-> s.events, done |-> s.done, ok |-> b, notify |-> s.notify]
  BY DEF Streams
<1>6. \A f \in Seq(Event), d, o, n \in BOOLEAN :
        [events |-> f, done |-> d, ok |-> o, notify |-> n] \in Streams
  BY DEF Streams
<1>7. [s EXCEPT !.events = e] \in Streams
  BY <1>1, <1>2, <1>6
<1>8. [s EXCEPT !.notify = b] \in Streams
  BY <1>1, <1>3, <1>6
<1>9. [s EXCEPT !.done = b] \in Streams
  BY <1>1, <1>4, <1>6
<1>10. [s EXCEPT !.ok = b] \in Streams
  BY <1>1, <1>5, <1>6
<1>11. QED
  BY <1>7, <1>8, <1>9, <1>10

\* So it does when several are.
LEMMA StreamSet ==
  ASSUME NEW s \in Streams, NEW e \in Seq(Event), NEW b \in BOOLEAN
  PROVE  /\ [s EXCEPT !.events = e] \in Streams /\ [s EXCEPT !.notify = b] \in Streams
         /\ [s EXCEPT !.events = e, !.notify = TRUE] \in Streams
         /\ [s EXCEPT !.done = TRUE, !.ok = b, !.notify = TRUE] \in Streams
<1>1. [[s EXCEPT !.events = e] EXCEPT !.notify = TRUE] \in Streams
  BY FieldSet
<1>2. [[[s EXCEPT !.done = TRUE] EXCEPT !.ok = b] EXCEPT !.notify = TRUE] \in Streams
  <2>1. [s EXCEPT !.done = TRUE] \in Streams
    BY FieldSet
  <2>2. [[s EXCEPT !.done = TRUE] EXCEPT !.ok = b] \in Streams
    BY <2>1, FieldSet
  <2>3. QED
    BY <2>2, FieldSet
<1>3. QED
  BY <1>1, <1>2, FieldSet

\* Setting one stream to a stream keeps them streams.
LEMMA OneStream ==
  ASSUME stream \in [Sends -> Streams], NEW k \in Sends, NEW s \in Streams,
         stream' = [stream EXCEPT ![k] = s]
  PROVE  stream' \in [Sends -> Streams]
  OBVIOUS

\* Closing the transport keeps the streams streams: the waiting one is finished.
LEMMA ClosedStreams ==
  ASSUME stream \in [Sends -> Streams], Shutdown
  PROVE  stream' \in [Sends -> Streams]
<1>1. ASSUME NEW s \in Streams PROVE Finish(s, FALSE) \in Streams
  <2>1. s.events \in Seq(Event) /\ FALSE \in BOOLEAN
    BY DEF Streams
  <2>2. QED
    BY <2>1, StreamSet DEF Finish
<1>2. QED
  BY <1>1 DEF Shutdown

\* A watchdog that is rewound, or due again, is a watchdog.
LEMMA RewoundWatchdog ==
  ASSUME NEW w \in Watchdogs
  PROVE  /\ [w EXCEPT !.left = Idle] \in Watchdogs
         /\ [w EXCEPT !.left = Idle, !.due = Idle] \in Watchdogs
<1>1. Idle \in 0 .. Idle
  BY BridgeBounds
<1>2. [w EXCEPT !.left = Idle] \in Watchdogs
  BY <1>1 DEF Watchdogs
<1>3. \A v \in Watchdogs : [v EXCEPT !.due = Idle] \in Watchdogs
  BY <1>1 DEF Watchdogs
<1>4. [[w EXCEPT !.left = Idle] EXCEPT !.due = Idle] \in Watchdogs
  BY <1>2, <1>3
<1>5. QED
  BY <1>2, <1>4

\* The types are kept by every step.
LEMMA TypeStep == TypeOK /\ BridgeInv /\ [Next]_vars => TypeOK'
<1> SUFFICES ASSUME TypeOK, BridgeInv, [Next]_vars PROVE TypeOK'
  OBVIOUS
<1> USE BridgeBounds DEF TypeOK, BridgeInv
<1>1. ASSUME Start PROVE TypeOK'
  <2>1. alive' \in BOOLEAN
    BY <1>1 DEF Start, Open
  <2>2. tr' \in Transports
    BY <1>1 DEF Start, Open, Transports
  <2>3. QED
    BY <1>1, <2>1, <2>2 DEF Start, bridgeVars, Open
<1>2. ASSUME NotReady PROVE TypeOK'
  <2>1. turn' \in Turns
    BY <1>2 DEF NotReady, Turns
  <2>2. outcome' \in {"none", "answered", "failed", "cut"}
    BY <1>2 DEF NotReady
  <2>3. QED
    BY <1>2, <2>1, <2>2 DEF NotReady, bridgeVars
<1>3. ASSUME Send PROVE TypeOK'
  <2>1. tr' \in Transports
    <3>1. turn.sent + 1 \in Sends
      BY <1>3 DEF Send
    <3>2. [tr EXCEPT !.streams = @ \cup {turn.sent + 1}] \in Transports
      BY <3>1 DEF Transports
    <3>3. QED
      BY <1>3, <3>2 DEF Send
  <2>2. flight' \in [Sends -> Flights]
    <3>1. turn.sent + 1 \in Sends /\ (~handle.started) \in BOOLEAN
      BY <1>3 DEF Send, Handles
    <3>2. [state |-> "running", first |-> ~handle.started, n |-> 0, late |-> FALSE] \in Flights
      BY <3>1 DEF Flights, FlightStates
    <3>3. QED
      BY <1>3, <3>1, <3>2 DEF Send, ChildSend
  <2>3. handle' \in Handles
    BY <1>3 DEF Send, Open, ChildSend, Handles, NoHandle
  <2>4. turn' \in Turns
    <3>1. turn.sent + 1 \in 0 .. MaxSends
      BY <1>3 DEF Send, Sends
    <3>2. [pc |-> "draining", sent |-> turn.sent + 1] \in Turns
      BY <3>1 DEF Turns
    <3>3. [turn EXCEPT !.sent = turn.sent + 1] \in Turns
      BY <3>1 DEF Turns
    <3>4. QED
      BY <1>3, <3>2, <3>3 DEF Send
  <2>5. wd' \in Watchdogs
    <3>1. NewWatchdog \in Watchdogs
      BY DEF NewWatchdog, Watchdogs
    <3>2. QED
      BY <1>3, <3>1 DEF Send
  <2>6. outcome' \in {"none", "answered", "failed", "cut"}
    BY <1>3 DEF Send, Open, ChildSend
  <2>7. got' \in Seq(Event)
    BY <1>3 DEF Send, Open, ChildSend
  <2>8. QED
    BY <1>3, <2>1, <2>2, <2>3, <2>4, <2>5, <2>6, <2>7 DEF Send, bridgeVars, Open,
       ChildSend
<1>4. ASSUME Consume PROVE TypeOK'
  <2>1. got' \in Seq(Event)
    <3>1. turn.sent \in Sends
      BY <1>4 DEF Consume, DoneInv
    <3>2. Waiting.events \in Seq(Event) /\ Waiting.events # <<>>
      BY <1>4, <3>1 DEF Consume, Waiting, Streams
    <3>3. Head(Waiting.events) \in Event
      BY <3>2, HeadTailProperties
    <3>4. QED
      BY <1>4, <3>3, AppendProperties DEF Consume
  <2>2. stream' \in [Sends -> Streams]
    <3>1. turn.sent \in Sends
      BY <1>4 DEF Consume, DoneInv
    <3>2. stream[turn.sent].events \in Seq(Event) /\ stream[turn.sent].events # <<>>
      BY <1>4, <3>1 DEF Consume, Waiting, Streams
    <3>3. Tail(stream[turn.sent].events) \in Seq(Event)
      BY <3>2, HeadTailProperties
    <3>4. [stream[turn.sent] EXCEPT !.events = Tail(stream[turn.sent].events)] \in Streams
      BY <3>1, <3>3, StreamSet
    <3>5. stream' = [stream EXCEPT ![turn.sent] =
                       [stream[turn.sent] EXCEPT !.events = Tail(stream[turn.sent].events)]]
      BY <1>4, <3>1 DEF Consume
    <3>6. stream \in [Sends -> Streams]
      OBVIOUS
    <3> HIDE DEF TypeOK, BridgeInv
    <3>7. QED
      BY <3>1, <3>4, <3>5, <3>6, OneStream
  <2>3. wd' \in Watchdogs
    BY <1>4, RewoundWatchdog DEF Consume, Touch
  <2>4. quiet' \in 0 .. Idle
    BY <1>4 DEF Consume, Waiting, Touch
  <2>5. QED
    BY <1>4, <2>1, <2>2, <2>3, <2>4 DEF Consume, bridgeVars, Waiting, Touch
<1>5. ASSUME Park PROVE TypeOK'
  <2>1. turn' \in Turns
    BY <1>5 DEF Park, Waiting, Turns
  <2>2. QED
    BY <1>5, <2>1 DEF Park, bridgeVars, Waiting
<1>6. ASSUME Wake PROVE TypeOK'
  <2>1. stream' \in [Sends -> Streams]
    <3>1. turn.sent \in Sends
      BY <1>6 DEF Wake, DoneInv
    <3>2. [stream[turn.sent] EXCEPT !.notify = FALSE] \in Streams
      BY <3>1, StreamSet
    <3>3. stream' = [stream EXCEPT ![turn.sent] = [stream[turn.sent] EXCEPT !.notify = FALSE]]
      BY <1>6, <3>1 DEF Wake
    <3>4. QED
      BY <3>1, <3>2, <3>3, OneStream
  <2>2. turn' \in Turns
    BY <1>6 DEF Wake, Waiting, Turns
  <2>3. QED
    BY <1>6, <2>1, <2>2 DEF Wake, bridgeVars, Waiting
<1>7. ASSUME Answer PROVE TypeOK'
  <2>1. turn' \in Turns
    BY <1>7 DEF Answer, Waiting, Return, Turns
  <2>2. outcome' \in {"none", "answered", "failed", "cut"}
    BY <1>7 DEF Answer, Waiting, Return
  <2>3. stopper' \in [Sends -> {"none", "begin", "called", "done"}]
    BY <1>7 DEF Answer, Waiting, Return
  <2>4. stream' \in [Sends -> Streams]
    <3>1. NewStream \in Streams
      BY EmptySeq DEF NewStream, Streams
    <3>2. QED
      BY <1>7, <3>1 DEF Answer, Return
  <2>5. wd' \in Watchdogs
    BY <1>7 DEF Answer, Waiting, Return, Watchdogs, NewWatchdog
  <2>6. ctx' \in {"live", "idle", "stopped"}
    BY <1>7 DEF Answer, Waiting, Return
  <2>7. quiet' \in 0 .. Idle
    BY <1>7 DEF Answer, Waiting, Return
  <2>8. QED
    BY <1>7, <2>1, <2>2, <2>3, <2>4, <2>5, <2>6, <2>7 DEF Answer, bridgeVars, Waiting,
       Return
<1>8. ASSUME Cut PROVE TypeOK'
  <2>1. turn' \in Turns
    BY <1>8 DEF Cut, Return, Turns
  <2>2. outcome' \in {"none", "answered", "failed", "cut"}
    BY <1>8 DEF Cut, Return
  <2>3. stopper' \in [Sends -> {"none", "begin", "called", "done"}]
    BY <1>8 DEF Cut, Return
  <2>4. stream' \in [Sends -> Streams]
    <3>1. NewStream \in Streams
      BY EmptySeq DEF NewStream, Streams
    <3>2. QED
      BY <1>8, <3>1 DEF Cut, Return
  <2>5. wd' \in Watchdogs
    BY <1>8 DEF Cut, Return, Watchdogs, NewWatchdog
  <2>6. ctx' \in {"live", "idle", "stopped"}
    BY <1>8 DEF Cut, Return
  <2>7. quiet' \in 0 .. Idle
    BY <1>8 DEF Cut, Return
  <2>8. QED
    BY <1>8, <2>1, <2>2, <2>3, <2>4, <2>5, <2>6, <2>7 DEF Cut, bridgeVars, Return
<1>9. ASSUME Tick PROVE TypeOK'
  <2>1. wd' \in Watchdogs
    <3>1. wd' = [left |-> IF wd.left > 0 THEN wd.left - 1 ELSE 0,
                 due |-> IF wd.due > 0 THEN wd.due - 1 ELSE 0,
                 firing |-> wd.firing \/ wd.due = 1, fired |-> wd.fired]
      BY <1>9 DEF Tick, Watchdogs
    <3>2. /\ (IF wd.left > 0 THEN wd.left - 1 ELSE 0) \in 0 .. Idle
          /\ (IF wd.due > 0 THEN wd.due - 1 ELSE 0) \in 0 .. Idle
      BY DEF Watchdogs
    <3>3. (wd.firing \/ wd.due = 1) \in BOOLEAN /\ wd.fired \in BOOLEAN
      BY DEF Watchdogs
    <3>4. QED
      BY <3>1, <3>2, <3>3 DEF Watchdogs
  <2>2. quiet' \in 0 .. Idle
    BY <1>9 DEF Tick
  <2>3. QED
    BY <1>9, <2>1, <2>2 DEF Tick, bridgeVars
<1>10. ASSUME OnIdle PROVE TypeOK'
  <2>1. wd' \in Watchdogs
    BY <1>10 DEF OnIdle, GoneIdle, Watchdogs, NewWatchdog
  <2>2. ctx' \in {"live", "idle", "stopped"}
    BY <1>10 DEF OnIdle, GoneIdle
  <2>3. QED
    BY <1>10, <2>1, <2>2 DEF OnIdle, bridgeVars, GoneIdle
<1>11. ASSUME CallerStops PROVE TypeOK'
  <2>1. ctx' \in {"live", "idle", "stopped"}
    BY <1>11 DEF CallerStops
  <2>2. QED
    BY <1>11, <2>1 DEF CallerStops, bridgeVars
<1>12. ASSUME NEW k \in Sends, StopCall(k) PROVE TypeOK'
  <2>1. tr' \in Transports
    BY <1>12 DEF StopCall, Open, ChildStop, Reached, Transports
  <2>2. flight' \in [Sends -> Flights]
    <3>1. \A j \in Sends : [flight[j] EXCEPT !.state = "stopped"] \in Flights
      BY DEF Flights, FlightStates
    <3>2. QED
      BY <1>12, <3>1 DEF StopCall, ChildStop
  <2>3. handle' \in Handles
    BY <1>12 DEF StopCall, Open, ChildStop, Reached, Handles, NoHandle
  <2>4. fromB' \in Seq(Message)
    <3>1. [type |-> "result", cmd |-> "stop", run |-> k, ok |-> TRUE] \in Message
      BY DEF Message
    <3>2. \/ fromB' = fromB
          \/ fromB' = Append(fromB, [type |-> "result", cmd |-> "stop", run |-> k, ok |-> TRUE])
      BY <1>12, Zenon DEF StopCall, ChildStop
    <3>3. \A m \in Message : Append(fromB, m) \in Seq(Message)
      BY AppendProperties
    <3>4. QED
      BY <3>1, <3>2, <3>3
  <2>5. stopper' \in [Sends -> {"none", "begin", "called", "done"}]
    BY <1>12 DEF StopCall, Open, ChildStop, Reached
  <2>6. QED
    BY <1>12, <2>1, <2>2, <2>3, <2>4, <2>5 DEF StopCall, bridgeVars, Open, ChildStop,
       Reached
<1>13. ASSUME NEW k \in Sends, StopTimesOut(k) PROVE TypeOK'
  <2>1. tr' \in Transports
    BY <1>13 DEF StopTimesOut, Transports
  <2>2. stopper' \in [Sends -> {"none", "begin", "called", "done"}]
    BY <1>13 DEF StopTimesOut
  <2>3. QED
    BY <1>13, <2>1, <2>2 DEF StopTimesOut, bridgeVars
<1>14. ASSUME NEW k \in Sends, ProviderEvent(k) PROVE TypeOK'
  <2> DEFINE late == flight[k].late \/ flight[k].state # "running"
  <2>1. flight' \in [Sends -> Flights]
    <3>1. flight[k].n + 1 \in 0 .. MaxEvents /\ late \in BOOLEAN /\ flight[k] \in Flights
      BY <1>14 DEF ProviderEvent, Flights
    <3>2. flight' = [flight EXCEPT ![k] = [[flight[k] EXCEPT !.n = @ + 1] EXCEPT !.late = late]]
      BY <1>14 DEF ProviderEvent
    <3> HIDE DEF late
    <3>3. [flight[k] EXCEPT !.n = @ + 1] \in Flights
      BY <3>1 DEF Flights
    <3>4. \A f \in Flights : [f EXCEPT !.late = late] \in Flights
      BY <3>1 DEF Flights
    <3>5. QED
      BY <3>2, <3>3, <3>4
  <2>2. fromB' \in Seq(Message)
    <3>1. CASE RequestOf(k) = None
      BY <1>14, <3>1 DEF ProviderEvent
    <3>2. CASE RequestOf(k) # None
      <4>1. RequestOf(k) \in Sends
        BY <3>2 DEF RequestOf, Handles
      <4>2. flight[k].n + 1 \in 1 .. MaxEvents
        BY <1>14 DEF ProviderEvent, Flights
      <4>3. [type |-> "event", to |-> RequestOf(k),
             ev |-> [run |-> k, n |-> flight[k].n + 1]] \in Message
        BY <4>1, <4>2 DEF Message, Event
      <4>4. QED
        BY <1>14, <3>2, <4>3, AppendProperties DEF ProviderEvent
    <3>3. QED
      BY <3>1, <3>2
  <2>3. QED
    BY <1>14, <2>1, <2>2 DEF ProviderEvent, bridgeVars, runtimeVars
<1>15. ASSUME NEW k \in Sends, NEW ok \in BOOLEAN, ProviderEnds(k, ok) PROVE TypeOK'
  <2>1. \/ flight' = [flight EXCEPT ![k].state = "returned"] /\ fromB' = fromB
        \/ flight' = [flight EXCEPT ![k].state = "over"] /\ fromB' = Append(fromB, ResultOf(k, ok))
    BY <1>15, Zenon DEF ProviderEnds
  <2>2. flight' \in [Sends -> Flights]
    <3>1. flight[k] \in Flights
      OBVIOUS
    <3>2. /\ [flight[k] EXCEPT !.state = "returned"] \in Flights
          /\ [flight[k] EXCEPT !.state = "over"] \in Flights
      BY <3>1 DEF Flights, FlightStates
    <3>3. QED
      BY <2>1, <3>2
  <2>3. handle' \in Handles
    BY <1>15 DEF ProviderEnds, Handles
  <2>4. fromB' \in Seq(Message)
    <3>1. ResultOf(k, ok) \in Message
      BY DEF Message, ResultOf
    <3>2. Append(fromB, ResultOf(k, ok)) \in Seq(Message)
      BY <3>1, AppendProperties
    <3>3. QED
      BY <2>1, <3>2
  <2>5. QED
    BY <1>15, <2>2, <2>3, <2>4 DEF ProviderEnds, bridgeVars, runtimeVars
<1>16. ASSUME NEW k \in Sends, WriteResult(k) PROVE TypeOK'
  <2>1. flight' \in [Sends -> Flights]
    BY <1>16 DEF WriteResult, Flights, FlightStates
  <2>2. fromB' \in Seq(Message)
    <3>1. ResultOf(k, TRUE) \in Message
      BY DEF Message, ResultOf
    <3>2. QED
      BY <1>16, <3>1, AppendProperties DEF WriteResult
  <2>3. QED
    BY <1>16, <2>1, <2>2 DEF WriteResult, bridgeVars, runtimeVars
<1>17. ASSUME Dispatch PROVE TypeOK'
  <2>1. fromB' \in Seq(Message)
    BY <1>17 DEF Dispatch, Drained, Finish
  <2>2. stream' \in [Sends -> Streams]
    <3>1. ASSUME NEW m \in Message, NEW s \in Streams
          PROVE  /\ m.type = "event" =>
                      [s EXCEPT !.events = Append(s.events, m.ev), !.notify = TRUE] \in Streams
                 /\ m.type = "result" => Finish(s, m.ok) \in Streams
      <4>1. CASE m.type = "event"
        <5>1. m.ev \in Event /\ s.events \in Seq(Event)
          BY <4>1 DEF Message, Streams
        <5>2. Append(s.events, m.ev) \in Seq(Event)
          BY <5>1, AppendProperties
        <5>3. QED
          BY <4>1, <5>2, StreamSet
      <4>2. CASE m.type = "result"
        <5>1. m.ok \in BOOLEAN
          BY <4>2 DEF Message
        <5>2. QED
          BY <4>2, <5>1, StreamSet DEF Finish
      <4>3. QED
        BY <4>1, <4>2
    <3>2. Head(fromB) \in Message
      BY <1>17, HeadTailProperties DEF Dispatch
    <3>3. Head(fromB).type \in {"event", "result"}
      BY <3>2 DEF Message
    <3>4. CASE Head(fromB).type = "event"
      <4>1. \A j \in Sends :
              [stream[j] EXCEPT !.events = Append(stream[j].events, Head(fromB).ev),
                                !.notify = TRUE] \in Streams
        BY <3>1, <3>2, <3>4
      <4>2. \/ stream' = stream
            \/ LET r == Head(fromB).to IN
               /\ r \in Sends
               /\ stream' = [stream EXCEPT ![r] =
                    [stream[r] EXCEPT !.events = Append(stream[r].events, Head(fromB).ev),
                                      !.notify = TRUE]]
        <5>1. \/ stream' = stream
              \/ /\ Head(fromB).to \in tr.streams
                 /\ stream' = [stream EXCEPT ![Head(fromB).to].events = Append(@, Head(fromB).ev),
                                             ![Head(fromB).to].notify = TRUE]
          BY <1>17, <3>4, Zenon DEF Dispatch
        <5>2. \A r \in Sends : \A e :
                [stream EXCEPT ![r].events = Append(@, e), ![r].notify = TRUE] =
                  [stream EXCEPT ![r] =
                    [stream[r] EXCEPT !.events = Append(stream[r].events, e), !.notify = TRUE]]
          OBVIOUS
        <5>3. tr.streams \subseteq Sends
          BY DEF Transports
        <5>4. QED
          BY <5>1, <5>2, <5>3
      <4>3. QED
        BY <4>1, <4>2
    <3>5. CASE Head(fromB).type = "result"
      <4>1. \A j \in Sends : Finish(stream[j], Head(fromB).ok) \in Streams
        BY <3>1, <3>2, <3>5
      <4>2. stream' \in {stream, [stream EXCEPT ![Head(fromB).run] =
                                    Finish(stream[Head(fromB).run], Head(fromB).ok)]}
        BY <1>17, <3>5 DEF Dispatch
      <4>3. QED
        BY <4>1, <4>2
    <3>6. QED
      BY <3>3, <3>4, <3>5
  <2>3. tr' \in Transports
    <3>1. \A r : [tr EXCEPT !.streams = @ \ {r}] \in Transports
      BY DEF Transports
    <3>2. \A r : [tr EXCEPT !.pending = @ \ {r}] \in Transports
      BY DEF Transports
    <3>3. QED
      BY <1>17, <3>1, <3>2 DEF Dispatch
  <2>4. stopper' \in [Sends -> {"none", "begin", "called", "done"}]
    <3>1. \A r : [stopper EXCEPT ![r] = "done"] \in [Sends -> {"none", "begin", "called", "done"}]
      OBVIOUS
    <3>2. QED
      BY <1>17, <3>1 DEF Dispatch
  <2>5. QED
    BY <1>17, <2>1, <2>2, <2>3, <2>4 DEF Dispatch, bridgeVars, Drained, Finish
<1>18. ASSUME ReaderEnds PROVE TypeOK'
  <2>1. tr' \in Transports
    BY <1>18 DEF ReaderEnds, Shutdown, Stolen, Drained, Finish, Open, Transports
  <2>2. stream' \in [Sends -> Streams]
    BY <1>18, ClosedStreams DEF ReaderEnds
  <2>3. stopper' \in [Sends -> {"none", "begin", "called", "done"}]
    BY <1>18 DEF ReaderEnds, Shutdown
  <2>4. QED
    BY <1>18, <2>1, <2>2, <2>3 DEF ReaderEnds, bridgeVars, Shutdown, Stolen, Drained,
       Finish, Open
<1>19. ASSUME CloseClient PROVE TypeOK'
  <2>1. tr' \in Transports
    BY <1>19 DEF CloseClient, Shutdown, Stolen, Drained, Finish, Open, Over, Transports
  <2>2. stream' \in [Sends -> Streams]
    BY <1>19, ClosedStreams DEF CloseClient
  <2>3. stopper' \in [Sends -> {"none", "begin", "called", "done"}]
    BY <1>19 DEF CloseClient, Shutdown
  <2>4. alive' \in BOOLEAN
    BY <1>19 DEF CloseClient, Shutdown, Stolen, Drained, Finish, Open, Over
  <2>5. flight' \in [Sends -> Flights]
    BY <1>19 DEF CloseClient, Shutdown, Stolen, Drained, Finish, Open, Over, Flights, FlightStates
  <2>6. handle' \in Handles
    BY <1>19 DEF CloseClient, Shutdown, Stolen, Drained, Finish, Open, Over, Handles,
       NoHandle
  <2>7. QED
    BY <1>19, <2>1, <2>2, <2>3, <2>4, <2>5, <2>6 DEF CloseClient, bridgeVars, Shutdown,
       Stolen, Drained, Finish, Open, Over
<1>20. ASSUME Dies PROVE TypeOK'
  <2>1. alive' \in BOOLEAN
    BY <1>20 DEF Dies, Over, runtimeVars
  <2>2. flight' \in [Sends -> Flights]
    BY <1>20 DEF Dies, Over, runtimeVars, Flights, FlightStates
  <2>3. handle' \in Handles
    BY <1>20 DEF Dies, Over, runtimeVars, Handles, NoHandle
  <2>4. QED
    BY <1>20, <2>1, <2>2, <2>3 DEF Dies, bridgeVars, Over, runtimeVars
<1>21. CASE UNCHANGED <<harness, alive, tr, stream, fromB, handle, flight, turn, ctx,
                         wd, stopper, got, outcome, quiet>>
  BY <1>21 DEF bridgeVars
<1> HIDE DEF TypeOK, BridgeInv, TypeOK
<1>22. QED
  BY <1>1, <1>2, <1>3, <1>4, <1>5, <1>6, <1>7, <1>8, <1>9, <1>10, <1>11, <1>12, <1>13,
     <1>14, <1>15, <1>17, <1>18, <1>19, <1>20, <1>21, <1>16, ZenonT(40) DEF Next, vars,
     bridgeVars

-----------------------------------------------------------------------------
(* What each step does, field by field.                                    *)

\* What nobody reads stays.
LEMMA KeptUnread == UNCHANGED fromB => Kept
  BY DEF Kept, Events, Results

\* No earlier run is stopped, and no event is in time again.
Follows == (CutBefore' <=> CutBefore) /\ (OnTime' => OnTime)

\* Only a prompt and the first stop of a run change whether a run before the
\* current one was stopped; an event that was late stays so.
LEMMA CutKept ==
  ASSUME turn'.sent = turn.sent,
         \A j \in Sends : j < turn.sent => (stopper'[j] = "none" <=> stopper[j] = "none"),
         \A j \in Sends : flight[j].late => flight'[j].late
  PROVE  Follows
<1>1. CutBefore' <=> CutBefore
  BY DEF CutBefore
<1>2. OnTime' => OnTime
  BY DEF OnTime
<1>3. QED
  BY <1>1, <1>2 DEF Follows

\* What follows is paired, and in time, only if it was.
LEMMA PairedKept ==
  ASSUME Follows, harness' = harness
  PROVE  (Paired' => Paired) /\ (InTime' => InTime) /\ (Paired' => InTime')
  BY DEF Follows, Paired, InTime

\* What the types say of the parts the invariant relates.
LEMMA Shape ==
  ASSUME TypeOK
  PROVE  /\ turn.sent \in Nat /\ turn.pc \in {"idle", "draining", "parked"}
         /\ \A k \in Sends : k \in Nat
         /\ tr.pending \subseteq Sends /\ tr.streams \subseteq Sends
         /\ \A k \in Sends : /\ stream[k].events \in Seq(Event) /\ Len(stream[k].events) \in Nat
                             /\ flight[k].n \in Nat
         /\ got \in Seq(Event) /\ Len(got) \in Nat
         /\ NewStream.events = <<>> /\ NewStream.done = FALSE /\ NewStream.ok = FALSE
         /\ \A p \in Events : /\ p \in Nat /\ fromB[p].to \in Sends
                             /\ fromB[p].ev \in Event /\ fromB[p].ev.run \in Sends
                             /\ fromB[p].ev.n \in Nat
         /\ \A p \in Results : p \in Nat /\ fromB[p].run \in Sends
<1>1. turn.sent \in Nat /\ turn.pc \in {"idle", "draining", "parked"}
  BY BridgeBounds DEF TypeOK, Turns
<1>2. \A k \in Sends : k \in Nat
  BY DEF Sends
<1>3. tr.pending \subseteq Sends /\ tr.streams \subseteq Sends
  BY DEF TypeOK, Transports
<1>4. \A k \in Sends : stream[k].events \in Seq(Event) /\ Len(stream[k].events) \in Nat
  BY DEF TypeOK, Streams
<1>5. \A k \in Sends : flight[k].n \in Nat
  BY BridgeBounds DEF TypeOK, Flights
<1>6. got \in Seq(Event) /\ Len(got) \in Nat
  BY DEF TypeOK
<1>7. \A p \in 1 .. Len(fromB) : p \in Nat /\ fromB[p] \in Message
  BY DEF TypeOK
<1>8. \A m \in Message :
        /\ m.type = "event" => /\ m.to \in Sends /\ m.ev \in Event
                               /\ m.ev.run \in Sends /\ m.ev.n \in Nat
        /\ m.type = "result" => m.run \in Sends
  BY BridgeBounds DEF Message, Event
<1>9. /\ \A p \in Events : /\ p \in Nat /\ fromB[p].to \in Sends
                          /\ fromB[p].ev \in Event /\ fromB[p].ev.run \in Sends
                          /\ fromB[p].ev.n \in Nat
      /\ \A p \in Results : p \in Nat /\ fromB[p].run \in Sends
  BY <1>7, <1>8 DEF Events, Results
<1>10. QED
  BY <1>1, <1>2, <1>3, <1>4, <1>5, <1>6, <1>9 DEF NewStream

\* A prompt is written, and its run starts with an empty stream, or fails.
LEMMA SendEffect ==
  ASSUME TypeOK, Send
  PROVE  LET k == turn.sent + 1 IN
         /\ turn.pc = "idle" /\ tr.state # "none" /\ k \in Sends
         /\ turn'.sent = k /\ got' = <<>> /\ UNCHANGED <<harness, stream, stopper>> /\ Kept
         /\ tr'.state = tr.state /\ tr'.pending = tr.pending
         /\ \A j \in Sends : j # k => flight'[j] = flight[j]
         /\ \/ /\ turn'.pc = "draining" /\ tr.state = "open" /\ tr'.streams = tr.streams \cup {k}
               /\ flight'[k].state = "running" /\ flight'[k].n = 0 /\ ~flight'[k].late
               /\ handle'.owned /\ handle'.request = k /\ outcome' = "none"
            \/ turn'.pc = "idle" /\ UNCHANGED <<tr, flight, handle>> /\ outcome' = "failed"
<1> DEFINE k == turn.sent + 1
<1>1. /\ turn.pc = "idle" /\ tr.state # "none" /\ k \in Sends /\ got' = <<>>
      /\ UNCHANGED <<harness, stream, stopper>> /\ Kept
  BY KeptUnread DEF Send
<1>2. CASE Open /\ alive
  <2>1. turn' = [pc |-> "draining", sent |-> k] /\ outcome' = "none"
    BY <1>2 DEF Send
  <2>2. tr' = [tr EXCEPT !.streams = @ \cup {k}] /\ ChildSend(k)
    BY <1>2 DEF Send
  <2>3. tr'.streams = tr.streams \cup {k} /\ tr'.state = tr.state /\ tr'.pending = tr.pending
    BY <2>2 DEF TypeOK, Transports
  <2>4. /\ flight'[k].state = "running" /\ flight'[k].n = 0 /\ ~flight'[k].late
        /\ \A j \in Sends : j # k => flight'[j] = flight[j]
    BY <1>1, <2>2 DEF TypeOK, ChildSend
  <2>5. handle' = [[handle EXCEPT !.request = k] EXCEPT !.owned = TRUE]
    BY <2>2 DEF ChildSend
  <2>6. handle'.request = k
    BY <2>5 DEF TypeOK, Handles
  <2>7. handle'.owned = TRUE
    BY <2>5 DEF TypeOK, Handles
  <2>8. QED
    BY <1>1, <1>2, <2>1, <2>3, <2>4, <2>6, <2>7 DEF Open
<1>3. CASE ~(Open /\ alive)
  <2>1. /\ turn' = [turn EXCEPT !.sent = k] /\ outcome' = "failed"
        /\ UNCHANGED <<tr, flight, handle>>
    BY <1>3 DEF Send
  <2>2. turn'.sent = k /\ turn'.pc = "idle"
    BY <1>1, <2>1 DEF TypeOK, Turns
  <2>3. QED
    BY <1>1, <2>1, <2>2
<1>4. QED
  BY <1>2, <1>3

\* A prompt sent to a bridge that does not start fails.
LEMMA NotReadyEffect ==
  ASSUME TypeOK, NotReady
  PROVE  /\ turn.pc = "idle" /\ tr.state = "none" /\ turn'.pc = "idle"
         /\ turn'.sent = turn.sent + 1 /\ turn.sent + 1 \in Sends /\ outcome' = "failed"
         /\ UNCHANGED <<harness, stream, stopper, tr, flight, handle, got>> /\ Kept
<1>1. turn.sent \in Nat /\ turn.sent < MaxSends /\ turn' = [turn EXCEPT !.sent = turn.sent + 1]
  BY BridgeBounds DEF NotReady, TypeOK, Turns
<1>2. turn.sent + 1 \in Sends
  BY <1>1, BridgeBounds DEF Sends
<1>3. QED
  BY <1>1, <1>2, KeptUnread DEF NotReady, TypeOK, Turns, bridgeVars

\* A prompt puts no event in time, and pairs none.
LEMMA SentInTime ==
  ASSUME TypeOK, FreshInv, Send \/ NotReady
  PROVE  (InTime' => InTime) /\ (Paired' => Paired) /\ (Paired' => InTime')
<1>1. /\ harness' = harness /\ turn'.sent = turn.sent + 1 /\ turn.sent + 1 \in Sends
      /\ \A j \in Sends : j # turn.sent + 1 => flight'[j] = flight[j]
      /\ stopper' = stopper
  BY SendEffect, NotReadyEffect
<1>2. turn.sent \in Nat /\ \A j \in Sends : j \in Nat
  BY Shape
<1>3. ~flight[turn.sent + 1].late
  BY <1>1, <1>2 DEF FreshInv
<1>4. OnTime' => OnTime
  BY <1>1, <1>3 DEF OnTime
<1>5. CutBefore => CutBefore'
  BY <1>1, <1>2 DEF CutBefore
<1>6. QED
  BY <1>1, <1>4, <1>5 DEF InTime, Paired

\* The caller is handed the first event its stream buffers.
LEMMA ConsumeEffect ==
  ASSUME TypeOK, DoneInv, Consume
  PROVE  LET k == turn.sent  e == stream[k].events IN
         /\ k \in Sends /\ turn.pc # "idle" /\ e # <<>> /\ e \in Seq(Event)
         /\ Len(e) \in Nat \ {0}
         /\ \A j \in Sends : j # k => stream'[j] = stream[j]
         /\ stream'[k].done = stream[k].done /\ stream'[k].ok = stream[k].ok
         /\ Len(stream'[k].events) = Len(e) - 1
         /\ \A i \in 1 .. Len(e) - 1 : stream'[k].events[i] = e[i + 1]
         /\ Len(got') = Len(got) + 1 /\ got'[Len(got) + 1] = e[1]
         /\ \A i \in 1 .. Len(got) : got'[i] = got[i]
         /\ UNCHANGED <<harness, stopper, tr, flight, handle, turn, outcome>>
         /\ Kept /\ Follows
<1> DEFINE k == turn.sent  e == stream[k].events
<1>1. k \in Sends /\ turn.pc # "idle" /\ e # <<>>
  BY DEF Consume, DoneInv, Waiting
<1>2. e \in Seq(Event) /\ got \in Seq(Event)
  BY <1>1 DEF TypeOK, Streams
<1>3. got' = Append(got, Head(e)) /\ stream' = [stream EXCEPT ![k].events = Tail(e)]
  BY DEF Consume, Waiting
<1>4. stream' = [stream EXCEPT ![k] = [stream[k] EXCEPT !.events = Tail(e)]]
  BY <1>3
<1>5. /\ \A j \in Sends : j # k => stream'[j] = stream[j]
      /\ stream'[k].done = stream[k].done /\ stream'[k].ok = stream[k].ok
      /\ stream'[k].events = Tail(e)
  BY <1>1, <1>4 DEF TypeOK, Streams
<1>6. /\ Len(e) \in Nat \ {0} /\ Len(Tail(e)) = Len(e) - 1 /\ Head(e) = e[1]
      /\ \A i \in 1 .. Len(e) - 1 : Tail(e)[i] = e[i + 1]
  BY <1>1, <1>2, HeadTailProperties
<1>7. /\ Len(got') = Len(got) + 1 /\ got'[Len(got) + 1] = Head(e)
      /\ \A i \in 1 .. Len(got) : got'[i] = got[i]
  BY <1>2, <1>3
<1>8. /\ UNCHANGED <<harness, stopper, tr, flight, handle, turn, outcome>>
      /\ Kept /\ Follows
  BY KeptUnread, CutKept DEF Consume, bridgeVars
<1>9. QED
  BY <1>1, <1>2, <1>5, <1>6, <1>7, <1>8

\* Waiting for the signal changes nothing but the program counter.
LEMMA ParkEffect ==
  ASSUME TypeOK, Park
  PROVE  /\ turn.pc # "idle" /\ turn'.pc # "idle" /\ turn'.sent = turn.sent
         /\ UNCHANGED <<harness, stream, stopper, tr, flight, handle, got, outcome>>
         /\ Kept /\ Follows
  BY KeptUnread, CutKept DEF Park, TypeOK, Turns, bridgeVars

\* Taking the signal leaves the buffered events alone.
LEMMA WakeEffect ==
  ASSUME TypeOK, DoneInv, Wake
  PROVE  LET k == turn.sent IN
         /\ turn.pc # "idle" /\ turn'.pc # "idle" /\ turn'.sent = k /\ k \in Sends
         /\ \A j \in Sends : j # k => stream'[j] = stream[j]
         /\ stream'[k].done = stream[k].done /\ stream'[k].ok = stream[k].ok
         /\ stream'[k].events = stream[k].events
         /\ UNCHANGED <<harness, stopper, tr, flight, handle, got, outcome>>
         /\ Kept /\ Follows
<1>1. turn.sent \in Sends
  BY DEF Wake, DoneInv
<1>2. /\ \A j \in Sends : j # turn.sent => stream'[j] = stream[j]
      /\ stream'[turn.sent].done = stream[turn.sent].done
      /\ stream'[turn.sent].ok = stream[turn.sent].ok
      /\ stream'[turn.sent].events = stream[turn.sent].events
  BY <1>1 DEF Wake, TypeOK, Streams
<1>3. QED
  BY <1>1, <1>2, KeptUnread, CutKept DEF Wake, TypeOK, Turns, bridgeVars

\* The wait returns; only an answer leaves no stop behind.
LEMMA ReturnEffect ==
  ASSUME TypeOK, DoneInv, Answer \/ Cut
  PROVE  LET k == turn.sent IN
         /\ turn.pc # "idle" /\ turn'.pc = "idle" /\ turn'.sent = k /\ k \in Sends
         /\ \A j \in Sends : j # k => stream'[j] = stream[j] /\ stopper'[j] = stopper[j]
         /\ stream'[k] = NewStream
         /\ UNCHANGED <<harness, tr, flight, handle, got>>
         /\ Kept /\ Follows
         /\ \/ /\ outcome' = "answered" /\ UNCHANGED stopper
               /\ stream[k].events = <<>> /\ stream[k].done /\ stream[k].ok
            \/ outcome' \in {"failed", "cut"} /\ stopper'[k] = "begin"
<1> DEFINE k == turn.sent
<1>1. turn.pc # "idle" /\ k \in Sends
  BY DEF Answer, Cut, DoneInv
<1>2. PICK how \in {"answered", "failed", "cut"} :
        /\ Return(how)
        /\ how = "answered" => stream[k].events = <<>> /\ stream[k].done /\ stream[k].ok
  <2>1. CASE Answer
    <3>1. stream[k].events = <<>> /\ stream[k].done
      BY <2>1 DEF Answer, Waiting
    <3>2. CASE stream[k].ok
      BY <2>1, <3>1, <3>2 DEF Answer, Waiting
    <3>3. CASE ~stream[k].ok
      BY <2>1, <3>3 DEF Answer, Waiting
    <3>4. QED
      BY <3>2, <3>3
  <2>2. CASE Cut
    BY <2>2 DEF Cut
  <2>3. QED
    BY <2>1, <2>2
<1>3. turn'.pc = "idle" /\ turn'.sent = k
  BY <1>2 DEF Return, TypeOK, Turns
<1>4. /\ \A j \in Sends : j # k => stream'[j] = stream[j] /\ stopper'[j] = stopper[j]
      /\ stream'[k] = NewStream
      /\ how = "answered" => UNCHANGED stopper
      /\ how # "answered" => stopper'[k] = "begin"
  BY <1>1, <1>2 DEF Return, TypeOK
<1>5. outcome' = how /\ Kept /\ UNCHANGED <<harness, tr, flight, handle, got>>
  BY <1>2, KeptUnread DEF Return, bridgeVars
<1>6. Follows
  BY <1>3, <1>4, <1>5, CutKept, Shape
<1>7. QED
  BY <1>1, <1>2, <1>3, <1>4, <1>5, <1>6

\* A stop is written to the child, or finds the transport closed.
LEMMA StopCallEffect ==
  ASSUME TypeOK, NEW k \in Sends, StopCall(k)
  PROVE  /\ stopper[k] = "begin" /\ stopper'[k] \in {"called", "done"}
         /\ \A j \in Sends : j # k => stopper'[j] = stopper[j]
         /\ tr'.state = tr.state /\ tr'.streams = tr.streams
         /\ tr.state = "open" \/ UNCHANGED tr
         /\ tr'.pending = IF stopper'[k] = "called" THEN tr.pending \cup {k} ELSE tr.pending
         /\ \A j \in Sends : /\ flight'[j].n = flight[j].n /\ flight'[j].late = flight[j].late
                             /\ \/ flight'[j].state = flight[j].state
                                \/ flight[j].state = "running" /\ flight'[j].state = "stopped"
         /\ harness = "cline" =>
              \/ handle' = handle
              \/ \A j \in Sends : flight'[j].state # "running"
         /\ UNCHANGED <<harness, stream, turn, got, outcome>>
         /\ Kept /\ Follows
<1>1. stopper[k] = "begin" /\ UNCHANGED <<harness, stream, turn, got, outcome>>
  BY DEF StopCall
<1>2. CASE Open /\ alive
  <2>1. /\ tr' = [tr EXCEPT !.pending = @ \cup {k}] /\ ChildStop(k)
        /\ stopper' = [stopper EXCEPT ![k] = "called"]
    BY <1>2 DEF StopCall
  <2>2. /\ tr'.state = tr.state /\ tr'.streams = tr.streams /\ tr'.pending = tr.pending \cup {k}
        /\ stopper'[k] = "called" /\ \A j \in Sends : j # k => stopper'[j] = stopper[j]
    BY <2>1 DEF TypeOK, Transports
  <2>3. \A j \in Sends : flight'[j] = IF j \in Reached THEN [flight[j] EXCEPT !.state = "stopped"]
                                                       ELSE flight[j]
    BY <2>1 DEF ChildStop
  <2>4. ASSUME NEW f \in Flights
         PROVE  LET g == [f EXCEPT !.state = "stopped"] IN
                g.n = f.n /\ g.late = f.late /\ g.state = "stopped"
    BY DEF Flights
  <2>5. \A j \in Sends : /\ flight'[j].n = flight[j].n /\ flight'[j].late = flight[j].late
                         /\ \/ flight'[j].state = flight[j].state
                            \/ flight[j].state = "running" /\ flight'[j].state = "stopped"
    <3>1. ASSUME NEW j \in Sends PROVE
            /\ flight'[j].n = flight[j].n /\ flight'[j].late = flight[j].late
            /\ \/ flight'[j].state = flight[j].state
               \/ flight[j].state = "running" /\ flight'[j].state = "stopped"
      <4>1. flight[j] \in Flights
        BY DEF TypeOK
      <4>2. CASE j \in Reached
        <5>1. flight'[j] = [flight[j] EXCEPT !.state = "stopped"] /\ flight[j].state = "running"
          BY <2>3, <4>2 DEF Reached
        <5>2. QED
          BY <2>4, <4>1, <5>1
      <4>3. CASE j \notin Reached
        BY <2>3, <4>3
      <4>4. QED
        BY <4>2, <4>3
    <3>2. QED
      BY <3>1
  <2>6. Follows
    BY <1>1, <2>2, <2>5, CutKept
  <2>7. Kept
    <3> DEFINE m == [type |-> "result", cmd |-> "stop", run |-> k, ok |-> TRUE]
    <3>1. m \in Message /\ fromB' = Append(fromB, m) /\ m.type = "result" /\ m.cmd = "stop"
      BY <2>1 DEF ChildStop, Message
    <3> HIDE DEF m
    <3>2. QED
      BY <3>1, Written DEF TypeOK, Kept
  <2>8. CASE harness = "cline" /\ handle.started
    <3>1. \A j \in Sends : flight[j].state = "running" => j \in Reached
      BY <2>8 DEF Reached
    <3>2. \A j \in Sends : flight'[j].state # "running"
      BY <2>3, <2>4, <3>1 DEF TypeOK
    <3>3. QED
      BY <1>1, <1>2, <2>2, <2>5, <2>6, <2>7, <3>2 DEF Open
  <2>9. CASE ~(harness = "cline" /\ handle.started)
    <3>1. handle' = handle
      BY <2>1, <2>9 DEF ChildStop
    <3>2. QED
      BY <1>1, <1>2, <2>2, <2>5, <2>6, <2>7, <3>1 DEF Open
  <2>10. QED
    BY <2>8, <2>9
<1>3. CASE ~(Open /\ alive)
  <2>1. stopper' = [stopper EXCEPT ![k] = "done"] /\ UNCHANGED <<tr, fromB, handle, flight>>
    BY <1>3 DEF StopCall
  <2>2. stopper'[k] = "done" /\ \A j \in Sends : j # k => stopper'[j] = stopper[j]
    BY <2>1 DEF TypeOK
  <2>3. Kept /\ Follows
    BY <1>1, <2>1, <2>2, KeptUnread, CutKept
  <2>4. QED
    BY <1>1, <2>1, <2>2, <2>3
<1>4. QED
  BY <1>2, <1>3

\* A stop nobody answered is forgotten.
LEMMA StopTimesOutEffect ==
  ASSUME TypeOK, NEW k \in Sends, StopTimesOut(k)
  PROVE  /\ stopper[k] = "called" /\ stopper'[k] = "done"
         /\ \A j \in Sends : j # k => stopper'[j] = stopper[j]
         /\ tr'.state = tr.state /\ tr'.streams = tr.streams /\ tr'.pending = tr.pending \ {k}
         /\ UNCHANGED <<harness, stream, flight, handle, turn, got, outcome>>
         /\ Kept /\ Follows
<1>1. /\ stopper[k] = "called" /\ stopper'[k] = "done"
      /\ \A j \in Sends : j # k => stopper'[j] = stopper[j]
      /\ tr'.state = tr.state /\ tr'.streams = tr.streams /\ tr'.pending = tr.pending \ {k}
      /\ UNCHANGED <<harness, fromB, stream, flight, handle, turn, got, outcome>>
  BY DEF StopTimesOut, TypeOK, Transports, bridgeVars
<1>2. Kept /\ Follows
  BY <1>1, KeptUnread, CutKept
<1>3. QED
  BY <1>1, <1>2

\* The provider produces the next event of one run: it is written for the request
\* the bridge finds, or for none.
LEMMA ProviderEventEffect ==
  ASSUME TypeOK, NEW k \in Sends, ProviderEvent(k)
  PROVE  LET l == Len(fromB) + 1 IN
         /\ flight[k].state \in {"running", "stopped", "returned", "over"}
         /\ InTime' => flight[k].state \in {"running", "stopped"}
         /\ OnTime' => flight[k].state = "running"
         /\ flight'[k].n = flight[k].n + 1 /\ flight'[k].state = flight[k].state
         /\ \A j \in Sends : j # k => flight'[j] = flight[j]
         /\ Results' = Results /\ \A p \in Events \cup Results : fromB'[p] = fromB[p] /\ p < l
         /\ \/ /\ RequestOf(k) # None /\ Events' = Events \cup {l}
               /\ fromB'[l].to = RequestOf(k)
               /\ fromB'[l].ev.run = k /\ fromB'[l].ev.n = flight[k].n + 1
            \/ RequestOf(k) = None /\ Events' = Events
         /\ UNCHANGED <<harness, stream, stopper, tr, handle, turn, got, outcome>>
         /\ Follows
<1> DEFINE m == [type |-> "event", to |-> RequestOf(k),
                 ev |-> [run |-> k, n |-> flight[k].n + 1]]
           late == flight[k].late \/ flight[k].state # "running"
<1>1. RequestOf(k) # None => m \in Message
  <2>1. RequestOf(k) # None => RequestOf(k) \in Sends
    BY DEF RequestOf, TypeOK, Handles
  <2>2. flight[k].n + 1 \in 1 .. MaxEvents
    BY BridgeBounds DEF ProviderEvent, TypeOK, Flights
  <2>3. QED
    BY <2>1, <2>2 DEF Message, Event
<1>2. /\ flight[k].state \in {"running", "stopped", "returned", "over"}
      /\ harness = "codex" => flight[k].state \in {"running", "stopped"}
  BY DEF ProviderEvent, Emits
<1>3. /\ flight'[k].n = flight[k].n + 1 /\ flight'[k].state = flight[k].state
      /\ \A j \in Sends : j # k => flight'[j] = flight[j]
      /\ flight'[k].late = late
  <2>1. flight' = [flight EXCEPT ![k] = [[flight[k] EXCEPT !.n = @ + 1] EXCEPT !.late = late]]
    BY DEF ProviderEvent
  <2> HIDE DEF late
  <2>2. flight'[k].n = flight[k].n + 1
    BY <2>1 DEF TypeOK, Flights
  <2>3. flight'[k].state = flight[k].state
    BY <2>1 DEF TypeOK, Flights
  <2>4. flight'[k].late = late
    BY <2>1 DEF TypeOK, Flights
  <2>5. \A j \in Sends : j # k => flight'[j] = flight[j]
    BY <2>1
  <2>6. QED
    BY <2>2, <2>3, <2>4, <2>5
<1>4. OnTime' => flight[k].state = "running"
  BY <1>3 DEF OnTime
<1>5. UNCHANGED <<harness, stream, stopper, tr, handle, turn, got, outcome>>
  BY DEF ProviderEvent, runtimeVars
<1>6. InTime' => flight[k].state \in {"running", "stopped"}
  BY <1>2, <1>4, <1>5 DEF InTime
<1>7. Follows
  <2>1. \A j \in Sends : flight[j].late => flight'[j].late
    BY <1>3
  <2>2. QED
    BY <1>5, <2>1, CutKept
<1>8. CASE RequestOf(k) = None
  <2>1. UNCHANGED fromB
    BY <1>8 DEF ProviderEvent
  <2>2. Kept /\ \A p \in Events \cup Results : p < Len(fromB) + 1
    BY <2>1, KeptUnread DEF TypeOK, Events, Results
  <2> HIDE DEF m, late
  <2>3. QED
    BY <1>2, <1>3, <1>4, <1>5, <1>6, <1>7, <1>8, <2>2 DEF Kept
<1>9. CASE RequestOf(k) # None
  <2>1. fromB' = Append(fromB, m) /\ fromB \in Seq(Message) /\ m \in Message
    BY <1>1, <1>9 DEF ProviderEvent, TypeOK
  <2>2. m.type = "event" /\ m.to = RequestOf(k) /\ m.ev.run = k /\ m.ev.n = flight[k].n + 1
    OBVIOUS
  <2> HIDE DEF m, late
  <2>3. QED
    BY <1>2, <1>3, <1>4, <1>5, <1>6, <1>7, <1>9, <2>1, <2>2, Written
<1>10. QED
  BY <1>8, <1>9

\* The provider's call of one run ends: its result is written, or cline's is
\* still to be.
LEMMA ProviderEndsEffect ==
  ASSUME TypeOK, NEW k \in Sends, NEW ok \in BOOLEAN, ProviderEnds(k, ok)
  PROVE  LET l == Len(fromB) + 1 IN
         /\ flight[k].state \in {"running", "stopped"} /\ flight'[k].state \in {"returned", "over"}
         /\ flight'[k].n = flight[k].n /\ flight'[k].late = flight[k].late
         /\ \A j \in Sends : j # k => flight'[j] = flight[j]
         /\ Events' = Events /\ \A p \in Events \cup Results : fromB'[p] = fromB[p] /\ p < l
         /\ \/ Results' = Results
            \/ Results' = Results \cup {l} /\ fromB'[l].run = k /\ flight'[k].state = "over"
         /\ UNCHANGED <<harness, stream, stopper, tr, turn, got, outcome>>
         /\ Follows
<1> DEFINE m == ResultOf(k, ok)
<1>1. m \in Message /\ m.type = "result" /\ m.cmd = "send" /\ m.run = k
  BY DEF Message, ResultOf
<1>2. /\ flight[k].state \in {"running", "stopped"} /\ flight'[k].state \in {"returned", "over"}
      /\ flight'[k].n = flight[k].n /\ flight'[k].late = flight[k].late
      /\ \A j \in Sends : j # k => flight'[j] = flight[j]
  BY DEF ProviderEnds, TypeOK, Flights
<1>3. UNCHANGED <<harness, stream, stopper, tr, turn, got, outcome>>
  BY DEF ProviderEnds, runtimeVars
<1>4. Follows
  <2>1. \A j \in Sends : flight[j].late => flight'[j].late
    BY <1>2
  <2>2. QED
    BY <1>3, <2>1, CutKept
<1>5. CASE UNCHANGED fromB
  <2>1. Kept /\ \A p \in Events \cup Results : p < Len(fromB) + 1
    BY <1>5, KeptUnread DEF TypeOK, Events, Results
  <2>2. QED
    BY <1>2, <1>3, <1>4, <2>1 DEF Kept
<1>6. CASE fromB' = Append(fromB, m) /\ flight' = [flight EXCEPT ![k].state = "over"]
  <2>1. flight'[k].state = "over" /\ fromB \in Seq(Message)
    BY <1>6 DEF TypeOK, Flights
  <2> HIDE DEF m
  <2>2. QED
    BY <1>1, <1>2, <1>3, <1>4, <1>6, <2>1, Written
<1>7. QED
  BY <1>5, <1>6 DEF ProviderEnds

\* cline's result is written once the usage is known.
LEMMA WriteResultEffect ==
  ASSUME TypeOK, NEW k \in Sends, WriteResult(k)
  PROVE  LET l == Len(fromB) + 1 IN
         /\ flight[k].state = "returned" /\ flight'[k].state = "over"
         /\ flight'[k].n = flight[k].n /\ flight'[k].late = flight[k].late
         /\ \A j \in Sends : j # k => flight'[j] = flight[j]
         /\ Events' = Events /\ Results' = Results \cup {l}
         /\ \A p \in Events \cup Results : fromB'[p] = fromB[p] /\ p < l
         /\ fromB'[l].run = k
         /\ UNCHANGED <<harness, stream, stopper, tr, handle, turn, got, outcome>>
         /\ Follows
<1> DEFINE m == ResultOf(k, TRUE)
<1>1. m \in Message /\ m.type = "result" /\ m.cmd = "send" /\ m.run = k
  BY DEF Message, ResultOf
<1>2. /\ flight[k].state = "returned" /\ flight'[k].state = "over"
      /\ flight'[k].n = flight[k].n /\ flight'[k].late = flight[k].late
      /\ \A j \in Sends : j # k => flight'[j] = flight[j]
  BY DEF WriteResult, TypeOK, Flights
<1>3. /\ UNCHANGED <<harness, stream, stopper, tr, handle, turn, got, outcome>>
      /\ fromB' = Append(fromB, m) /\ fromB \in Seq(Message)
  BY DEF WriteResult, runtimeVars, TypeOK
<1>4. Follows
  <2>1. \A j \in Sends : flight[j].late => flight'[j].late
    BY <1>2
  <2>2. QED
    BY <1>3, <2>1, CutKept
<1> HIDE DEF m
<1>5. QED
  BY <1>1, <1>2, <1>3, <1>4, Written

\* What the reader does with the first message: an event is buffered for the
\* run waited on, or dropped; a result ends that run's stream, or is nobody's;
\* an answer to a stop releases the goroutine that waits for it.
Buffers ==
  /\ 1 \in Events /\ fromB[1].to = turn.sent /\ turn.sent \in tr.streams /\ turn.pc # "idle"
  /\ stream'[turn.sent].events = Append(stream[turn.sent].events, fromB[1].ev)
  /\ stream'[turn.sent].done = stream[turn.sent].done
  /\ stream'[turn.sent].ok = stream[turn.sent].ok
  /\ UNCHANGED <<tr, stopper>>

Drops ==
  /\ 1 \in Events
  /\ ~(fromB[1].to = turn.sent /\ turn.sent \in tr.streams /\ turn.pc # "idle")
  /\ UNCHANGED <<stream, tr, stopper>>

Finishes ==
  /\ 1 \in Results /\ fromB[1].run = turn.sent /\ turn.sent \in tr.streams /\ turn.pc # "idle"
  /\ tr'.streams = tr.streams \ {turn.sent} /\ tr'.pending = tr.pending
  /\ stream'[turn.sent].events = stream[turn.sent].events /\ stream'[turn.sent].done
  /\ UNCHANGED stopper

Forgets ==
  /\ 1 \in Results
  /\ ~(fromB[1].run = turn.sent /\ turn.sent \in tr.streams /\ turn.pc # "idle")
  /\ tr'.streams = tr.streams \ {fromB[1].run} /\ tr'.pending = tr.pending
  /\ UNCHANGED <<stream, stopper>>

Releases ==
  /\ 1 \notin Events /\ 1 \notin Results
  /\ tr'.streams = tr.streams /\ UNCHANGED stream
  /\ \E k \in Sends :
       /\ tr'.pending = tr.pending \ {k}
       /\ \A j \in Sends :
            stopper'[j] = IF j = k /\ k \in tr.pending THEN "done" ELSE stopper[j]

LEMMA DispatchEffect ==
  ASSUME TypeOK, BridgeInv, Dispatch
  PROVE  /\ tr'.state = tr.state /\ UNCHANGED <<harness, flight, handle, turn, got, outcome>>
         /\ \A j \in Sends : ~Drained(j) => stream'[j] = stream[j]
         /\ \A p \in Events' : p + 1 \in Events /\ fromB'[p] = fromB[p + 1]
         /\ \A p \in Results' : p + 1 \in Results /\ fromB'[p] = fromB[p + 1]
         /\ \A p \in Events' \cup Results' : p \in Nat /\ p + 1 > 1
         /\ \A p \in Events \ {1} : p - 1 \in Events' /\ fromB'[p - 1] = fromB[p]
         /\ Follows
         /\ Buffers \/ Drops \/ Finishes \/ Forgets \/ Releases
<1> DEFINE m == fromB[1]  k == turn.sent
<1>1. /\ m = Head(fromB) /\ m \in Message
      /\ 1 \in Events <=> m.type = "event"
      /\ 1 \in Results <=> m.type = "result" /\ m.cmd = "send"
      /\ \A p \in Events' : p + 1 \in Events /\ fromB'[p] = fromB[p + 1]
      /\ \A p \in Results' : p + 1 \in Results /\ fromB'[p] = fromB[p + 1]
      /\ \A p \in Events' \cup Results' : p \in Nat /\ p + 1 > 1
      /\ \A p \in Events \ {1} : p - 1 \in Events' /\ fromB'[p - 1] = fromB[p]
  BY ReadOff DEF Dispatch, TypeOK
<1> DEFINE Goal == /\ \A j \in Sends : ~Drained(j) => stream'[j] = stream[j]
                   /\ tr'.state = tr.state
                   /\ \A j \in Sends : stopper'[j] = "none" <=> stopper[j] = "none"
                   /\ Buffers \/ Drops \/ Finishes \/ Forgets \/ Releases
<1>2. UNCHANGED <<harness, flight, handle, turn, got, outcome>>
  BY DEF Dispatch
<1>3. ASSUME m.type = "event" PROVE Goal
  <2>1. m.ev \in Event /\ UNCHANGED <<tr, stopper>> /\ 1 \in Events
    BY <1>1, <1>3 DEF Dispatch, Message
  <2>2. CASE m.to \in tr.streams /\ Drained(m.to)
    <3>1. k \in Sends /\ m.to = k /\ turn.pc # "idle" /\ k \in tr.streams
      BY <2>2 DEF Drained, TypeOK, Transports
    <3>2. stream' = [stream EXCEPT ![k].events = Append(@, m.ev), ![k].notify = TRUE]
      BY <1>1, <1>3, <2>2, <3>1 DEF Dispatch
    <3>3. stream' = [stream EXCEPT ![k] = [stream[k] EXCEPT
                       !.events = Append(stream[k].events, m.ev), !.notify = TRUE]]
      BY <3>2
    <3>4. /\ stream'[k].events = Append(stream[k].events, m.ev)
          /\ stream'[k].done = stream[k].done /\ stream'[k].ok = stream[k].ok
          /\ \A j \in Sends : j # k => stream'[j] = stream[j]
      BY <3>1, <3>3 DEF TypeOK, Streams
    <3>5. Buffers
      BY <2>1, <3>1, <3>4 DEF Buffers
    <3>6. QED
      BY <2>1, <3>1, <3>4, <3>5 DEF Drained
  <2>3. CASE ~(m.to \in tr.streams /\ Drained(m.to))
    <3>1. UNCHANGED stream
      BY <1>1, <1>3, <2>3 DEF Dispatch
    <3>2. Drops
      BY <2>1, <2>3, <3>1 DEF Drops, Drained
    <3>3. QED
      BY <2>1, <3>1, <3>2
  <2>4. QED
    BY <2>2, <2>3
<1>4. ASSUME m.type = "result" /\ m.cmd = "send" PROVE Goal
  <2>1. m.run \in Sends /\ m.ok \in BOOLEAN /\ 1 \in Results
    BY <1>1, <1>4 DEF Message
  <2>2. UNCHANGED stopper /\ tr' = [tr EXCEPT !.streams = @ \ {m.run}]
    BY <1>1, <1>4 DEF Dispatch
  <2>3. tr'.state = tr.state /\ tr'.pending = tr.pending /\ tr'.streams = tr.streams \ {m.run}
    BY <2>2 DEF TypeOK, Transports
  <2>4. CASE m.run \in tr.streams /\ Drained(m.run)
    <3>1. m.run = k /\ turn.pc # "idle" /\ k \in tr.streams /\ k \in Sends
      BY <2>1, <2>4 DEF Drained
    <3>2. ~stream[k].done
      BY <3>1 DEF BridgeInv, DoneInv, Waiting
    <3>3. stream' = [stream EXCEPT ![k] =
                       [stream[k] EXCEPT !.done = TRUE, !.ok = m.ok, !.notify = TRUE]]
      BY <1>1, <1>4, <2>4, <3>1, <3>2 DEF Dispatch, Finish
    <3>4. /\ stream'[k].events = stream[k].events
          /\ \A j \in Sends : j # k => stream'[j] = stream[j]
      BY <3>1, <3>3 DEF TypeOK, Streams
    <3>5. stream'[k].done = TRUE
      BY <3>1, <3>3 DEF TypeOK, Streams
    <3>6. Finishes
      BY <2>1, <2>2, <2>3, <3>1, <3>4, <3>5 DEF Finishes
    <3>7. QED
      BY <2>2, <2>3, <3>1, <3>4, <3>6 DEF Drained
  <2>5. CASE ~(m.run \in tr.streams /\ Drained(m.run))
    <3>1. UNCHANGED stream
      BY <1>1, <1>4, <2>5 DEF Dispatch
    <3>2. Forgets
      BY <2>1, <2>2, <2>3, <2>5, <3>1 DEF Forgets, Drained
    <3>3. QED
      BY <2>2, <2>3, <3>1, <3>2
  <2>6. QED
    BY <2>4, <2>5
<1>5. ASSUME m.type = "result" /\ m.cmd = "stop" PROVE Goal
  <2>1. m.run \in Sends /\ 1 \notin Events /\ 1 \notin Results
    BY <1>1, <1>5 DEF Message
  <2>2. /\ UNCHANGED stream /\ tr' = [tr EXCEPT !.pending = @ \ {m.run}]
        /\ stopper' = IF m.run \in tr.pending THEN [stopper EXCEPT ![m.run] = "done"] ELSE stopper
    BY <1>1, <1>5 DEF Dispatch
  <2>3. tr'.state = tr.state /\ tr'.streams = tr.streams /\ tr'.pending = tr.pending \ {m.run}
    BY <2>2 DEF TypeOK, Transports
  <2>4. \A j \in Sends :
          stopper'[j] = IF j = m.run /\ m.run \in tr.pending THEN "done" ELSE stopper[j]
    BY <2>1, <2>2 DEF TypeOK
  <2>5. \A j \in Sends : stopper'[j] = "none" <=> stopper[j] = "none"
    BY <2>1, <2>4 DEF BridgeInv, TransportInv
  <2>6. Releases
    BY <2>1, <2>2, <2>3, <2>4 DEF Releases
  <2>7. QED
    BY <2>2, <2>3, <2>5, <2>6
<1>6. m.type \in {"event", "result"} /\ (m.type = "result" => m.cmd \in {"send", "stop"})
  BY <1>1 DEF Message
<1>7. Goal
  BY <1>3, <1>4, <1>5, <1>6
<1>8. Follows
  BY <1>2, <1>7, CutKept
<1>9. QED
  BY <1>1, <1>2, <1>7, <1>8

\* Whoever waits on a transport that shuts down is told.
LEMMA ShutdownEffect ==
  ASSUME TypeOK, BridgeInv, Shutdown
  PROVE  /\ tr'.state = "closed" /\ tr'.pending = {} /\ tr'.streams = {}
         /\ \A j \in Sends :
              /\ ~Drained(j) => stream'[j] = stream[j]
              /\ stream'[j].events = stream[j].events
              /\ stream'[j] = stream[j] \/ ~stream'[j].ok
              /\ Drained(j) => stream'[j].done
              /\ stopper'[j] = IF stopper[j] = "called" THEN "done" ELSE stopper[j]
         /\ UNCHANGED <<harness, turn, got, outcome>>
         /\ CutBefore' <=> CutBefore
<1>1. tr' = [state |-> "closed", pending |-> {}, streams |-> {}]
  BY DEF Shutdown
<1>2. ASSUME NEW j \in Sends
      PROVE  /\ ~Drained(j) => stream'[j] = stream[j]
             /\ stream'[j].events = stream[j].events
             /\ stream'[j] = stream[j] \/ ~stream'[j].ok
             /\ Drained(j) => stream'[j].done
  <2>1. CASE j \in tr.streams /\ Drained(j)
    <3>1. ~stream[j].done
      BY <2>1 DEF Drained, BridgeInv, DoneInv, Waiting
    <3>2. stream'[j] = [stream[j] EXCEPT !.done = TRUE, !.ok = FALSE, !.notify = TRUE]
      BY <2>1, <3>1 DEF Shutdown, Stolen, Finish
    <3>3. stream'[j].events = stream[j].events
      BY <3>2 DEF TypeOK, Streams
    <3>4. stream'[j].done = TRUE
      BY <3>2 DEF TypeOK, Streams
    <3>5. stream'[j].ok = FALSE
      BY <3>2 DEF TypeOK, Streams
    <3>6. QED
      BY <2>1, <3>3, <3>4, <3>5
  <2>2. CASE ~(j \in tr.streams /\ Drained(j))
    <3>1. stream'[j] = stream[j]
      BY <2>2 DEF Shutdown, Stolen
    <3>2. Drained(j) => stream[j].done
      BY <2>2 DEF Drained, BridgeInv, DoneInv, Waiting
    <3>3. QED
      BY <3>1, <3>2
  <2>3. QED
    BY <2>1, <2>2
<1>3. \A j \in Sends : stopper'[j] = IF stopper[j] = "called" THEN "done" ELSE stopper[j]
  BY DEF Shutdown, BridgeInv, TransportInv
<1>4. UNCHANGED <<harness, turn, got, outcome>>
  BY DEF Shutdown
<1>5. tr'.state = "closed" /\ tr'.pending = {} /\ tr'.streams = {}
  BY <1>1
<1>6. CutBefore' <=> CutBefore
  BY <1>3, <1>4 DEF CutBefore
<1>7. QED
  BY <1>2, <1>3, <1>4, <1>5, <1>6

\* When the child is gone its runs are over.
LEMMA GoneEffect ==
  ASSUME TypeOK, CloseClient \/ Dies
  PROVE  /\ \A j \in Sends :
              /\ flight'[j].n = flight[j].n /\ flight'[j].late = flight[j].late
              /\ flight'[j].state = IF flight[j].state = "none" THEN "none" ELSE "over"
         /\ Kept /\ (OnTime' => OnTime)
<1>1. UNCHANGED fromB
  BY DEF CloseClient, Dies
<1>2. \A j \in Sends :
        /\ flight'[j].n = flight[j].n /\ flight'[j].late = flight[j].late
        /\ flight'[j].state = IF flight[j].state = "none" THEN "none" ELSE "over"
  BY DEF CloseClient, Dies, Over, TypeOK, Flights
<1>3. OnTime' => OnTime
  BY <1>2 DEF OnTime
<1>4. QED
  BY <1>1, <1>2, <1>3, KeptUnread

\* As long as no wait was cut, only the current run is at the provider.
LEMMA StillRunning ==
  ASSUME TypeOK, FreshInv, SettledInv, ~CutBefore, NEW k \in Sends,
         flight[k].state \in {"running", "stopped", "returned"}
  PROVE  k = turn.sent
<1>1. k \in Nat /\ turn.sent \in Nat
  BY Shape
<1>2. k <= turn.sent
  BY <1>1 DEF FreshInv
<1>3. ~(k < turn.sent)
  BY <1>1 DEF CutBefore, SettledInv, Drained
<1>4. QED
  BY <1>1, <1>2, <1>3

\* A step that leaves the current run alone leaves what was read of it alone.
LEMMA StreamStill ==
  ASSUME StreamInv, turn'.sent = turn.sent, turn'.pc # "idle" => turn.pc # "idle",
         harness' = harness, got' = got, Follows,
         turn'.pc # "idle" => /\ stream'[turn.sent].events = stream[turn.sent].events
                              /\ flight'[turn.sent].n = flight[turn.sent].n
                              /\ turn.sent \in tr'.streams => turn.sent \in tr.streams,
         Events' = Events, \A p \in Events : fromB'[p] = fromB[p]
  PROVE  StreamInv'
<1> SUFFICES ASSUME Paired' PROVE InOrder'
  BY DEF StreamInv
<1> DEFINE k == turn.sent
<1>1. InOrder
  BY PairedKept DEF StreamInv
<1>2. \A i \in 1 .. Len(got') : got'[i] = [run |-> turn'.sent, n |-> i]
  BY <1>1 DEF InOrder
<1>3. ASSUME turn'.pc # "idle" PROVE
        /\ Waiting' = stream'[k] /\ stream'[k].events = stream[k].events
        /\ Taken' = Taken /\ flight'[k].n = flight[k].n /\ turn.pc # "idle"
        /\ k \in tr'.streams => k \in tr.streams
  BY <1>3 DEF Waiting, Taken
<1>4. ASSUME turn'.pc # "idle" PROVE
        /\ \A i \in 1 .. Len(Waiting'.events) :
             Waiting'.events[i] = [run |-> turn'.sent, n |-> Len(got') + i]
        /\ Taken' <= flight'[turn'.sent].n
  BY <1>1, <1>3, <1>4 DEF InOrder, Waiting
<1>5. ASSUME turn'.pc # "idle", turn'.sent \in tr'.streams PROVE
        /\ \A p \in Events' : fromB'[p].ev.run = turn'.sent =>
             fromB'[p].ev.n \in Taken' + 1 .. flight'[turn'.sent].n
        /\ \A p, q \in Events' :
             p < q /\ fromB'[p].ev.run = turn'.sent /\ fromB'[q].ev.run = turn'.sent =>
               fromB'[p].ev.n < fromB'[q].ev.n
        /\ \A n \in Taken' + 1 .. flight'[turn'.sent].n :
             \E p \in Events' : fromB'[p].ev.run = turn'.sent /\ fromB'[p].ev.n = n
  BY <1>1, <1>3, <1>5 DEF InOrder
<1>6. QED
  BY <1>2, <1>4, <1>5 DEF InOrder

\* A step that leaves a run that is over alone leaves a done stream done.
LEMMA DoneStill ==
  ASSUME DoneInv, turn'.sent = turn.sent, turn'.pc = "idle" <=> turn.pc = "idle",
         harness' = harness, got' = got, outcome' = outcome, Follows,
         /\ stream'[turn.sent].events = stream[turn.sent].events
         /\ stream'[turn.sent].done = stream[turn.sent].done
         /\ stream'[turn.sent].ok = stream[turn.sent].ok,
         turn.sent \in tr'.streams <=> turn.sent \in tr.streams,
         turn.sent \in Sends /\ flight[turn.sent].state = "over" =>
           /\ flight'[turn.sent].state = "over"
           /\ InTime' => flight'[turn.sent].n = flight[turn.sent].n
           /\ InTime' /\ (\A p \in Events : fromB[p].ev.run # turn.sent) =>
                \A p \in Events' : fromB'[p].ev.run # turn.sent
  PROVE  DoneInv'
<1>1. Taken' = Taken /\ Waiting' = stream'[turn.sent]
  BY DEF Taken, Waiting
<1>2. (Paired' => Paired) /\ (InTime' => InTime) /\ (Paired' => InTime')
  BY PairedKept
<1>3. QED
  BY <1>1, <1>2 DEF DoneInv, Waiting

\* A caller that waits, waits on a prompt it sent.
LEMMA Current == DoneInv /\ turn.pc # "idle" => turn.sent \in Sends
  BY DEF DoneInv

\* The bridge finds the request an event in time was produced for.
LEMMA PairedRequest ==
  ASSUME TypeOK, BridgeInv, NEW k \in Sends, ProviderEvent(k), Paired'
  PROVE  RequestOf(k) = k /\ RequestOf(k) # None
<1>1. harness' = harness /\ Follows /\ (OnTime' => flight[k].state = "running")
  BY ProviderEventEffect
<1>2. Paired
  BY <1>1, PairedKept
<1>3. k # None
  BY Shape DEF Sends
<1>4. CASE harness = "codex"
  BY <1>3, <1>4 DEF RequestOf
<1>5. CASE harness # "codex"
  <2>1. ~CutBefore /\ flight[k].state = "running" /\ harness = "cline"
    BY <1>1, <1>2, <1>5, BridgeBounds DEF Paired, Follows, TypeOK
  <2>2. k = turn.sent
    BY <2>1, StillRunning DEF BridgeInv
  <2>3. handle.owned /\ handle.request = k
    BY <2>1, <2>2 DEF BridgeInv, OwnerInv
  <2>4. QED
    BY <1>3, <1>5, <2>3 DEF RequestOf
<1>6. QED
  BY <1>4, <1>5

\* An event the current run produces is the last of those still to be read.
LEMMA ProducedInOrder ==
  ASSUME TypeOK, BridgeInv, NEW k \in Sends, ProviderEvent(k)
  PROVE  StreamInv'
<1> DEFINE l == Len(fromB) + 1  s == turn.sent
<1> SUFFICES ASSUME Paired' PROVE InOrder'
  BY DEF StreamInv
<1>1. UNCHANGED <<harness, stream, tr, handle, turn, got>> /\ Follows
  BY ProviderEventEffect
<1>2. RequestOf(k) # None
  BY <1>1, PairedRequest
<1>3. /\ UNCHANGED <<harness, stream, tr, turn, got>>
      /\ flight[k].n \in Nat /\ flight'[k].n = flight[k].n + 1
      /\ \A j \in Sends : j # k => flight'[j] = flight[j]
      /\ Events' = Events \cup {l} /\ \A p \in Events : fromB'[p] = fromB[p] /\ p < l
      /\ \A p \in Events : p \in Nat /\ fromB[p].ev.n \in Nat
      /\ fromB'[l].ev.run = k /\ fromB'[l].ev.n = flight[k].n + 1
  BY <1>2, ProviderEventEffect, Shape
<1>4. InOrder /\ Waiting' = Waiting /\ Taken' = Taken
  BY <1>3, <1>1, PairedKept DEF Waiting, Taken, BridgeInv, StreamInv
<1>5. turn.pc # "idle" => s \in Sends /\ Taken \in Nat
  BY Shape DEF BridgeInv, DoneInv, Taken
<1> DEFINE Read(m) == /\ \A p \in Events' :
                           fromB'[p].ev.run = s => fromB'[p].ev.n \in Taken + 1 .. m
                      /\ \A p, q \in Events' :
                           p < q /\ fromB'[p].ev.run = s /\ fromB'[q].ev.run = s =>
                             fromB'[p].ev.n < fromB'[q].ev.n
                      /\ \A n \in Taken + 1 .. m :
                           \E p \in Events' : fromB'[p].ev.run = s /\ fromB'[p].ev.n = n
<1>6. ASSUME turn.pc # "idle"
      PROVE  Taken <= flight'[s].n /\ (s \in tr.streams => Read(flight'[s].n))
  <2>1. Taken <= flight[s].n
    BY <1>4, <1>6 DEF InOrder
  <2>2. ASSUME s \in tr.streams PROVE
          /\ \A p \in Events : fromB[p].ev.run = s => fromB[p].ev.n \in Taken + 1 .. flight[s].n
          /\ \A p, q \in Events :
               p < q /\ fromB[p].ev.run = s /\ fromB[q].ev.run = s =>
                 fromB[p].ev.n < fromB[q].ev.n
          /\ \A n \in Taken + 1 .. flight[s].n :
               \E p \in Events : fromB[p].ev.run = s /\ fromB[p].ev.n = n
    BY <1>4, <1>6, <2>2 DEF InOrder
  <2>3. CASE k # s
    <3>1. flight'[s] = flight[s]
      BY <1>3, <1>5, <1>6, <2>3
    <3>2. \A p \in Events' : fromB'[p].ev.run = s => p \in Events
      BY <1>3, <2>3
    <3>3. Events \subseteq Events' /\ \A p \in Events : fromB'[p] = fromB[p]
      BY <1>3
    <3>4. ASSUME s \in tr.streams PROVE Read(flight[s].n)
      BY <2>2, <3>2, <3>3, <3>4
    <3>5. QED
      BY <2>1, <3>1, <3>4
  <2>4. CASE k = s
    <3>1. Taken <= flight'[s].n
      BY <1>3, <1>5, <1>6, <2>1, <2>4
    <3>2. ASSUME s \in tr.streams, NEW p \in Events', fromB'[p].ev.run = s
          PROVE  fromB'[p].ev.n \in Taken + 1 .. flight'[s].n
      <4>1. CASE p \in Events
        <5>1. fromB[p].ev.n \in Taken + 1 .. flight[s].n /\ fromB'[p] = fromB[p]
          BY <1>3, <2>2, <3>2, <4>1
        <5>2. QED
          BY <1>3, <1>5, <1>6, <2>4, <5>1
      <4>2. CASE p = l
        BY <1>3, <1>5, <1>6, <2>1, <2>4, <4>2
      <4>3. QED
        BY <1>3, <3>2, <4>1, <4>2
    <3>3. ASSUME s \in tr.streams, NEW p \in Events', NEW q \in Events', p < q,
                 fromB'[p].ev.run = s, fromB'[q].ev.run = s
          PROVE  fromB'[p].ev.n < fromB'[q].ev.n
      <4>1. l \in Nat /\ (p \in Events \/ p = l) /\ (q \in Events \/ q = l)
        BY <1>3 DEF TypeOK
      <4>2. p \in Events
        BY <1>3, <3>3, <4>1
      <4>3. CASE q \in Events
        BY <1>3, <2>2, <3>3, <4>2, <4>3
      <4>4. CASE q = l
        <5>1. fromB[p].ev.n \in Taken + 1 .. flight[s].n /\ fromB'[p] = fromB[p]
          BY <1>3, <2>2, <3>3, <4>2
        <5>2. QED
          BY <1>3, <1>5, <1>6, <2>4, <4>4, <5>1
      <4>5. QED
        BY <4>1, <4>3, <4>4
    <3>4. ASSUME s \in tr.streams, NEW n \in Taken + 1 .. flight'[s].n
          PROVE  \E p \in Events' : fromB'[p].ev.run = s /\ fromB'[p].ev.n = n
      <4>1. n \in Taken + 1 .. flight[s].n \/ n = flight[s].n + 1
        BY <1>3, <1>5, <1>6, <2>4
      <4>2. QED
        BY <1>3, <2>2, <2>4, <3>4, <4>1
    <3>5. QED
      BY <3>1, <3>2, <3>3, <3>4
  <2>5. QED
    BY <2>3, <2>4
<1>7. QED
  BY <1>3, <1>4, <1>6 DEF InOrder

\* What a message that is not buffered leaves behind.
LEMMA DroppedInOrder ==
  ASSUME TypeOK, BridgeInv, Dispatch, Drops \/ Finishes \/ Forgets \/ Releases
  PROVE  StreamInv'
<1> SUFFICES ASSUME Paired' PROVE InOrder'
  BY DEF StreamInv
<1> DEFINE k == turn.sent
<1>1. /\ UNCHANGED <<harness, turn, got, flight>> /\ Follows
      /\ \A p \in Events' : p \in Nat /\ p + 1 \in Events /\ fromB'[p] = fromB[p + 1]
      /\ \A p \in Events \ {1} : p - 1 \in Events' /\ fromB'[p - 1] = fromB[p]
  BY DispatchEffect
<1>2. /\ stream'[k].events = stream[k].events /\ tr'.streams \subseteq tr.streams
      /\ 1 \in Events /\ k \in tr.streams /\ turn.pc # "idle" => fromB[1].to # k
  <2>1. \A p \in Events : p \notin Results
    BY DEF Events, Results
  <2>2. QED
    BY <2>1 DEF Drops, Finishes, Forgets, Releases
<1>3. Paired /\ InOrder /\ OwnerInv
  BY <1>1, PairedKept DEF BridgeInv, StreamInv
<1>4. k \in tr.streams /\ turn.pc # "idle" /\ 1 \in Events => fromB[1].ev.run # k
  BY <1>2, <1>3 DEF OwnerInv
<1>5. Waiting'.events = Waiting.events /\ Taken' = Taken
  BY <1>1, <1>2 DEF Waiting, Taken
<1>6. ASSUME turn.pc # "idle", k \in tr'.streams PROVE
        /\ \A p \in Events' : fromB'[p].ev.run = k => fromB'[p].ev.n \in Taken + 1 .. flight[k].n
        /\ \A p, q \in Events' :
             p < q /\ fromB'[p].ev.run = k /\ fromB'[q].ev.run = k =>
               fromB'[p].ev.n < fromB'[q].ev.n
        /\ \A n \in Taken + 1 .. flight[k].n :
             \E p \in Events' : fromB'[p].ev.run = k /\ fromB'[p].ev.n = n
  <2>1. /\ \A p \in Events : fromB[p].ev.run = k => fromB[p].ev.n \in Taken + 1 .. flight[k].n
        /\ \A p, q \in Events :
             p < q /\ fromB[p].ev.run = k /\ fromB[q].ev.run = k => fromB[p].ev.n < fromB[q].ev.n
        /\ \A n \in Taken + 1 .. flight[k].n :
             \E p \in Events : fromB[p].ev.run = k /\ fromB[p].ev.n = n
    BY <1>2, <1>3, <1>6 DEF InOrder
  <2>2. \A p \in Events : fromB[p].ev.run = k => p # 1
    BY <1>2, <1>4, <1>6
  <2>3. \A n \in Taken + 1 .. flight[k].n :
          \E p \in Events' : fromB'[p].ev.run = k /\ fromB'[p].ev.n = n
    BY <1>1, <2>1, <2>2
  <2>4. \A p, q \in Events' : p < q => p + 1 < q + 1
    BY <1>1
  <2>5. QED
    BY <1>1, <2>1, <2>3, <2>4
<1>7. QED
  BY <1>1, <1>2, <1>3, <1>5, <1>6 DEF InOrder

\* An event buffered for the current run is the next one of the run.
LEMMA BufferedInOrder ==
  ASSUME TypeOK, BridgeInv, Dispatch, Buffers
  PROVE  StreamInv'
<1> SUFFICES ASSUME Paired' PROVE InOrder'
  BY DEF StreamInv
<1> DEFINE k == turn.sent  e == stream[k].events
<1>1. /\ UNCHANGED <<harness, turn, got, flight>> /\ Follows
      /\ \A p \in Events' : p \in Nat /\ p + 1 > 1 /\ p + 1 \in Events /\ fromB'[p] = fromB[p + 1]
      /\ \A p \in Events \ {1} : p - 1 \in Events' /\ fromB'[p - 1] = fromB[p]
  BY DispatchEffect
<1>2. /\ 1 \in Events /\ fromB[1].to = k /\ k \in tr.streams /\ turn.pc # "idle"
      /\ stream'[k].events = Append(e, fromB[1].ev) /\ UNCHANGED tr
  BY DEF Buffers
<1>3. Paired /\ InOrder /\ OwnerInv /\ k \in Sends
  BY <1>1, <1>2, PairedKept DEF BridgeInv, StreamInv, DoneInv
<1>4. /\ fromB[1].ev.run = k /\ fromB[1].ev \in Event
      /\ \A p \in Events : p \in Nat /\ fromB[p].ev.n \in Nat
      /\ Taken \in Nat /\ Len(got) \in Nat /\ flight[k].n \in Nat
      /\ e \in Seq(Event) /\ Len(e) \in Nat
  BY <1>2, <1>3, Shape DEF OwnerInv, Taken
<1>5. /\ \A p \in Events : fromB[p].ev.run = k => fromB[p].ev.n \in Taken + 1 .. flight[k].n
      /\ \A p, q \in Events :
           p < q /\ fromB[p].ev.run = k /\ fromB[q].ev.run = k => fromB[p].ev.n < fromB[q].ev.n
      /\ \A n \in Taken + 1 .. flight[k].n :
           \E p \in Events : fromB[p].ev.run = k /\ fromB[p].ev.n = n
  BY <1>2, <1>3 DEF InOrder
<1>6. fromB[1].ev.n = Taken + 1 /\ Taken + 1 <= flight[k].n
  <2>1. fromB[1].ev.n \in Taken + 1 .. flight[k].n
    BY <1>2, <1>4, <1>5
  <2>2. Taken + 1 \in Taken + 1 .. flight[k].n
    BY <1>4, <2>1
  <2>3. PICK p \in Events : fromB[p].ev.run = k /\ fromB[p].ev.n = Taken + 1
    BY <1>5, <2>2
  <2>4. CASE p = 1
    BY <1>4, <2>2, <2>3, <2>4
  <2>5. CASE p # 1
    <3>1. 1 < p
      <4>1. p \in 1 .. Len(fromB)
        BY DEF Events
      <4>2. QED
        BY <2>5, <4>1
    <3>2. fromB[1].ev.n < Taken + 1
      BY <1>2, <1>4, <1>5, <2>3, <3>1
    <3>3. QED
      BY <1>4, <2>1, <3>2
  <2>6. QED
    BY <2>4, <2>5
<1>7. fromB[1].ev = [run |-> k, n |-> Taken + 1]
  BY <1>4, <1>6 DEF Event
<1>8. Waiting' = stream'[k] /\ Taken' = Taken + 1 /\ Len(stream'[k].events) = Len(e) + 1
  BY <1>1, <1>2, <1>4 DEF Waiting, Taken
<1>9. \A i \in 1 .. Len(e) + 1 : stream'[k].events[i] = [run |-> k, n |-> Len(got) + i]
  <2>1. \A i \in 1 .. Len(e) : e[i] = [run |-> k, n |-> Len(got) + i]
    BY <1>2, <1>3 DEF InOrder, Waiting
  <2>2. Len(got) + (Len(e) + 1) = Taken + 1
    BY <1>4 DEF Taken
  <2>3. /\ Append(e, fromB[1].ev)[Len(e) + 1] = fromB[1].ev
        /\ \A i \in 1 .. Len(e) : Append(e, fromB[1].ev)[i] = e[i]
    BY <1>4, AppendProperties
  <2>4. \A i \in 1 .. Len(e) : stream'[k].events[i] = [run |-> k, n |-> Len(got) + i]
    BY <1>2, <2>1, <2>3
  <2>5. stream'[k].events[Len(e) + 1] = [run |-> k, n |-> Len(got) + (Len(e) + 1)]
    BY <1>2, <1>7, <2>2, <2>3
  <2>6. \A i \in 1 .. Len(e) + 1 : i \in 1 .. Len(e) \/ i = Len(e) + 1
    BY <1>4
  <2>7. QED
    BY <2>4, <2>5, <2>6
<1>10. /\ \A p \in Events' : fromB'[p].ev.run = k =>
            fromB'[p].ev.n \in (Taken + 1) + 1 .. flight[k].n
       /\ \A p, q \in Events' :
            p < q /\ fromB'[p].ev.run = k /\ fromB'[q].ev.run = k => fromB'[p].ev.n < fromB'[q].ev.n
       /\ \A n \in (Taken + 1) + 1 .. flight[k].n :
            \E p \in Events' : fromB'[p].ev.run = k /\ fromB'[p].ev.n = n
  <2>1. ASSUME NEW p \in Events', fromB'[p].ev.run = k
        PROVE  fromB'[p].ev.n \in (Taken + 1) + 1 .. flight[k].n
    <3>1. fromB[1].ev.n < fromB[p + 1].ev.n /\ fromB[p + 1].ev.n \in Taken + 1 .. flight[k].n
      BY <1>1, <1>2, <1>4, <1>5, <2>1
    <3>2. QED
      BY <1>1, <1>4, <1>6, <3>1
  <2>2. ASSUME NEW n \in (Taken + 1) + 1 .. flight[k].n
        PROVE  \E p \in Events' : fromB'[p].ev.run = k /\ fromB'[p].ev.n = n
    <3>1. n \in Taken + 1 .. flight[k].n /\ n # Taken + 1
      BY <1>4
    <3>2. PICK p \in Events : fromB[p].ev.run = k /\ fromB[p].ev.n = n
      BY <1>5, <3>1
    <3>3. p # 1
      BY <1>6, <3>1, <3>2
    <3>4. QED
      BY <1>1, <3>2, <3>3
  <2>3. \A p, q \in Events' :
          p < q /\ fromB'[p].ev.run = k /\ fromB'[q].ev.run = k => fromB'[p].ev.n < fromB'[q].ev.n
    <3>1. \A p, q \in Events' : p < q => p + 1 < q + 1
      BY <1>1
    <3>2. QED
      BY <1>1, <1>5, <3>1
  <2>4. QED
    BY <2>1, <2>2, <2>3
<1>11. QED
  BY <1>1, <1>2, <1>3, <1>6, <1>8, <1>9, <1>10 DEF InOrder

\* The result of the current run is read behind all of its events.
LEMMA FinishedDone ==
  ASSUME TypeOK, BridgeInv, Dispatch, Finishes
  PROVE  DoneInv'
<1> DEFINE k == turn.sent
<1>1. /\ UNCHANGED <<harness, turn, got, flight, outcome>> /\ Follows
      /\ \A p \in Events' : p + 1 \in Events /\ fromB'[p] = fromB[p + 1]
  BY DispatchEffect
<1>2. /\ 1 \in Results /\ fromB[1].run = k /\ k \in tr.streams /\ turn.pc # "idle"
      /\ tr'.streams = tr.streams \ {k} /\ stream'[k].done
      /\ stream'[k].events = stream[k].events
  BY DEF Finishes
<1>3. k \in Sends /\ outcome # "answered"
  BY <1>2 DEF BridgeInv, DoneInv
<1>4. flight[k].state = "over" /\ (InTime => \A p \in Events : fromB[p].ev.run # k)
  <2>1. flight[k].state = "over" /\ (InTime => \A p \in Events : fromB[p].ev.run = k => p < 1)
    BY <1>2 DEF BridgeInv, ResultInv
  <2>2. \A p \in Events : p \in Nat /\ ~(p < 1)
    BY DEF Events
  <2>3. QED
    BY <2>1, <2>2
<1>5. Waiting' = stream'[k] /\ Taken' = Taken
  BY <1>1, <1>2 DEF Waiting, Taken
<1>6. ASSUME Paired PROVE Taken = flight[k].n
  <2>1. Taken \in Nat /\ flight[k].n \in Nat
    BY <1>3, Shape DEF Taken
  <2>2. InOrder /\ InTime
    BY <1>6 DEF BridgeInv, StreamInv, Paired, InTime
  <2>3. Taken <= flight[k].n /\ \A n \in Taken + 1 .. flight[k].n : FALSE
    BY <1>2, <1>4, <2>2 DEF InOrder
  <2>4. flight[k].n \notin Taken + 1 .. flight[k].n
    BY <2>3
  <2>5. QED
    BY <2>1, <2>3, <2>4
<1>7. (Paired' => Paired) /\ (InTime' => InTime)
  BY <1>1, PairedKept
<1>8. QED
  BY <1>1, <1>2, <1>3, <1>4, <1>5, <1>6, <1>7 DEF DoneInv

\* The deadline moves with what the caller sees.
LEMMA WatchStep == TypeOK /\ BridgeInv /\ [Next]_vars => WatchInv'
<1> SUFFICES ASSUME TypeOK, BridgeInv, [Next]_vars PROVE WatchInv'
  OBVIOUS
<1> USE BridgeBounds DEF TypeOK, BridgeInv, Turns, Watchdogs
<1>1. ASSUME NotReady PROVE WatchInv'
  BY <1>1 DEF NotReady, WatchInv, NewWatchdog
<1>2. ASSUME Send PROVE WatchInv'
  BY <1>2 DEF Send, Open, ChildSend, WatchInv, NewWatchdog
<1>3. ASSUME Consume PROVE WatchInv'
  BY <1>3 DEF Consume, Waiting, Touch, WatchInv, NewWatchdog
<1>4. ASSUME Park PROVE WatchInv'
  BY <1>4 DEF Park, Waiting, WatchInv, NewWatchdog
<1>5. ASSUME Wake PROVE WatchInv'
  BY <1>5 DEF Wake, Waiting, WatchInv, NewWatchdog
<1>6. ASSUME Answer PROVE WatchInv'
  BY <1>6 DEF Answer, Waiting, Return, WatchInv, NewWatchdog
<1>7. ASSUME Cut PROVE WatchInv'
  BY <1>7 DEF Cut, Return, WatchInv, NewWatchdog
<1>8. ASSUME Tick PROVE WatchInv'
  BY <1>8 DEF Tick, WatchInv, NewWatchdog
<1>9. ASSUME OnIdle PROVE WatchInv'
  BY <1>9 DEF OnIdle, GoneIdle, WatchInv, NewWatchdog
<1>10. ASSUME CallerStops PROVE WatchInv'
  BY <1>10 DEF CallerStops, WatchInv, NewWatchdog
<1>11. CASE UNCHANGED <<wd, quiet, turn, ctx, outcome>>
  BY <1>11 DEF WatchInv, NewWatchdog
<1> HIDE DEF TypeOK, BridgeInv, WatchInv
<1>12. QED
  BY <1>1, <1>2, <1>3, <1>4, <1>5, <1>6, <1>7, <1>8, <1>9, <1>10, <1>11, ZenonT(40)
     DEF Next, vars, bridgeVars, Start, StopCall, StopTimesOut, ProviderEvent,
     ProviderEnds, WriteResult, Dispatch, ReaderEnds, CloseClient, Dies, Shutdown, runtimeVars

\* A transport keeps its books.
LEMMA TransportStep == TypeOK /\ BridgeInv /\ [Next]_vars => TransportInv'
<1> SUFFICES ASSUME TypeOK, BridgeInv, [Next]_vars PROVE TransportInv'
  OBVIOUS
<1>1. /\ FreshInv /\ ResultInv /\ SettledInv /\ OwnerInv /\ StreamInv /\ DoneInv /\ TransportInv
      /\ turn.sent \in Nat /\ \A j \in Sends : j \in Nat
  BY Shape DEF BridgeInv
<1>2. ASSUME Start PROVE TransportInv'
  BY <1>1, <1>2 DEF Start, TypeOK, Transports, TransportInv
<1>3. ASSUME NotReady PROVE TransportInv'
  BY <1>1, <1>3, NotReadyEffect DEF TransportInv
<1>4. ASSUME Send PROVE TransportInv'
  BY <1>1, <1>4, SendEffect DEF TransportInv
<1>5. ASSUME Consume PROVE TransportInv'
  BY <1>1, <1>5, ConsumeEffect DEF TransportInv
<1>6. ASSUME Park PROVE TransportInv'
  BY <1>1, <1>6, ParkEffect DEF TransportInv
<1>7. ASSUME Wake PROVE TransportInv'
  BY <1>1, <1>7, WakeEffect DEF TransportInv
<1>8. ASSUME Answer PROVE TransportInv'
  <2>1. /\ turn.pc # "idle" /\ turn'.pc = "idle" /\ turn.sent \in Sends /\ UNCHANGED <<tr, got>>
        /\ \A j \in Sends : j # turn.sent => stopper'[j] = stopper[j]
        /\ stopper' = stopper \/ stopper'[turn.sent] = "begin"
    BY <1>1, <1>8, ReturnEffect
  <2>2. stopper[turn.sent] = "none"
    BY <1>1, <2>1 DEF FreshInv, Drained
  <2>3. QED
    BY <1>1, <2>1, <2>2 DEF TransportInv
<1>9. ASSUME Cut PROVE TransportInv'
  <2>1. /\ turn.pc # "idle" /\ turn'.pc = "idle" /\ turn.sent \in Sends /\ UNCHANGED <<tr, got>>
        /\ \A j \in Sends : j # turn.sent => stopper'[j] = stopper[j]
        /\ stopper' = stopper \/ stopper'[turn.sent] = "begin"
    BY <1>1, <1>9, ReturnEffect
  <2>2. stopper[turn.sent] = "none"
    BY <1>1, <2>1 DEF FreshInv, Drained
  <2>3. QED
    BY <1>1, <2>1, <2>2 DEF TransportInv
<1>10. ASSUME NEW k \in Sends, StopCall(k) PROVE TransportInv'
  <2>1. tr'.state = tr.state /\ tr'.streams = tr.streams /\ UNCHANGED <<turn, got>>
    BY <1>10, StopCallEffect
  <2>2. tr.state = "closed" => tr'.pending = {}
    BY <1>1, <1>10, StopCallEffect DEF TransportInv
  <2>3. ASSUME NEW j \in Sends PROVE stopper'[j] = "called" <=> j \in tr'.pending
    <3>1. /\ stopper[k] = "begin" /\ stopper'[k] \in {"called", "done"}
          /\ j # k => stopper'[j] = stopper[j]
          /\ tr'.pending = IF stopper'[k] = "called" THEN tr.pending \cup {k} ELSE tr.pending
      BY <1>10, StopCallEffect
    <3>2. QED
      BY <1>1, <3>1 DEF TransportInv
  <2>4. QED
    BY <1>1, <2>1, <2>2, <2>3 DEF TransportInv
<1>11. ASSUME NEW k \in Sends, StopTimesOut(k) PROVE TransportInv'
  BY <1>1, <1>11, StopTimesOutEffect DEF TransportInv
<1>12. ASSUME Dispatch PROVE TransportInv'
  <2>1. tr'.state = tr.state /\ UNCHANGED <<turn, got>>
    BY <1>12, DispatchEffect
  <2>2. /\ tr'.streams \subseteq tr.streams /\ tr'.pending \subseteq tr.pending
        /\ \A j \in Sends : stopper'[j] = "called" <=> j \in tr'.pending
    <3>1. CASE Buffers \/ Drops \/ Finishes \/ Forgets
      BY <1>1, <3>1 DEF Buffers, Drops, Finishes, Forgets, TransportInv
    <3>2. CASE Releases
      BY <1>1, <3>2 DEF Releases, TransportInv
    <3>3. QED
      BY <1>12, <3>1, <3>2, DispatchEffect
  <2>3. QED
    BY <1>1, <2>1, <2>2 DEF TransportInv
<1>13. ASSUME ReaderEnds PROVE TransportInv'
  BY <1>1, <1>13, ShutdownEffect DEF ReaderEnds, bridgeVars, TransportInv
<1>14. ASSUME CloseClient PROVE TransportInv'
  BY <1>1, <1>14, ShutdownEffect, GoneEffect DEF CloseClient, TransportInv
<1>15. CASE UNCHANGED <<tr, got, turn, stopper>>
  BY <1>1, <1>15 DEF TransportInv
<1>16. QED
  BY <1>2, <1>3, <1>4, <1>5, <1>6, <1>7, <1>8, <1>9, <1>10, <1>11, <1>12, <1>13,
     <1>14, <1>15, ZenonT(40) DEF Next, vars, bridgeVars, Tick, OnIdle, CallerStops,
     ProviderEvent, ProviderEnds, WriteResult, Dies, runtimeVars

\* Nothing is done for a prompt not yet sent.
LEMMA FreshStep == TypeOK /\ BridgeInv /\ [Next]_vars => FreshInv'
<1> SUFFICES ASSUME TypeOK, BridgeInv, [Next]_vars PROVE FreshInv'
  OBVIOUS
<1>1. /\ FreshInv /\ ResultInv /\ SettledInv /\ OwnerInv /\ StreamInv /\ DoneInv /\ TransportInv
      /\ turn.sent \in Nat /\ \A j \in Sends : j \in Nat
  BY Shape DEF BridgeInv
<1>2. ASSUME Start PROVE FreshInv'
  BY <1>1, <1>2 DEF Start, TypeOK, Transports, FreshInv, Drained
<1>3. ASSUME NotReady PROVE FreshInv'
  BY <1>1, <1>3, NotReadyEffect DEF FreshInv, Drained
<1>4. ASSUME Send PROVE FreshInv'
  BY <1>1, <1>4, SendEffect DEF FreshInv, Drained
<1>5. ASSUME Consume PROVE FreshInv'
  BY <1>1, <1>5, ConsumeEffect DEF FreshInv, Drained
<1>6. ASSUME Park PROVE FreshInv'
  BY <1>1, <1>6, ParkEffect DEF FreshInv, Drained
<1>7. ASSUME Wake PROVE FreshInv'
  BY <1>1, <1>7, WakeEffect DEF FreshInv, Drained
<1>8. ASSUME Answer PROVE FreshInv'
  BY <1>1, <1>8, ReturnEffect DEF FreshInv, Drained
<1>9. ASSUME Cut PROVE FreshInv'
  BY <1>1, <1>9, ReturnEffect DEF FreshInv, Drained
<1>10. ASSUME NEW k \in Sends, StopCall(k) PROVE FreshInv'
  <2>1. \A j \in Sends : j > turn.sent \/ Drained(j) => j # k /\ stopper[j] = "none"
    BY <1>1, <1>10, StopCallEffect DEF FreshInv
  <2>2. \A j \in Sends : (Drained(j)' <=> Drained(j)) /\ stream'[j] = stream[j]
    BY <1>10, StopCallEffect DEF Drained
  <2>3. \A j \in Sends : j > turn.sent =>
          flight'[j].state = "none" /\ flight'[j].n = 0 /\ ~flight'[j].late
    <3>1. \A j \in Sends : j > turn.sent =>
            flight[j].state = "none" /\ flight[j].n = 0 /\ ~flight[j].late
      BY <1>1 DEF FreshInv
    <3>2. \A j \in Sends :
            /\ flight'[j].n = flight[j].n /\ flight'[j].late = flight[j].late
            /\ flight'[j].state = flight[j].state \/ flight[j].state = "running"
      BY <1>10, StopCallEffect
    <3>3. QED
      BY <3>1, <3>2
  <2>4. /\ tr'.streams = tr.streams /\ turn' = turn
        /\ \A j \in Sends : j # k => stopper'[j] = stopper[j]
    BY <1>10, StopCallEffect
  <2>5. QED
    BY <1>1, <2>1, <2>2, <2>3, <2>4 DEF FreshInv
<1>11. ASSUME NEW k \in Sends, StopTimesOut(k) PROVE FreshInv'
  BY <1>1, <1>11, StopTimesOutEffect DEF FreshInv, Drained
<1>12. ASSUME NEW k \in Sends, ProviderEvent(k) PROVE FreshInv'
  <2>1. \A j \in Sends : j > turn.sent => flight'[j] = flight[j]
    BY <1>1, <1>12, ProviderEventEffect DEF FreshInv
  <2>2. UNCHANGED <<stream, stopper, tr, turn>>
    BY <1>12, ProviderEventEffect
  <2>3. QED
    BY <1>1, <2>1, <2>2 DEF FreshInv, Drained
<1>13. ASSUME NEW k \in Sends, NEW ok \in BOOLEAN, ProviderEnds(k, ok) PROVE FreshInv'
  BY <1>1, <1>13, ProviderEndsEffect DEF FreshInv, Drained
<1>14. ASSUME NEW k \in Sends, WriteResult(k) PROVE FreshInv'
  BY <1>1, <1>14, WriteResultEffect DEF FreshInv, Drained
<1>15. ASSUME Dispatch PROVE FreshInv'
  <2>1. UNCHANGED <<flight, turn>> /\ \A j \in Sends : ~Drained(j) => stream'[j] = stream[j]
    BY <1>15, DispatchEffect
  <2>2. /\ tr'.streams \subseteq tr.streams
        /\ \A j \in Sends : stopper[j] = "none" => stopper'[j] = "none"
    <3>1. CASE Buffers \/ Drops \/ Finishes \/ Forgets
      BY <3>1 DEF Buffers, Drops, Finishes, Forgets
    <3>2. CASE Releases
      BY <1>1, <3>2 DEF Releases, TransportInv
    <3>3. QED
      BY <1>15, <3>1, <3>2, DispatchEffect
  <2>3. QED
    BY <1>1, <2>1, <2>2 DEF FreshInv, Drained
<1>16. ASSUME ReaderEnds PROVE FreshInv'
  BY <1>1, <1>16, ShutdownEffect DEF ReaderEnds, bridgeVars, FreshInv, Drained
<1>17. ASSUME CloseClient PROVE FreshInv'
  <2>1. \A j \in Sends : /\ flight'[j].n = flight[j].n /\ flight'[j].late = flight[j].late
                         /\ flight[j].state = "none" => flight'[j].state = "none"
    BY <1>17, GoneEffect
  <2>2. /\ turn' = turn /\ tr'.streams = {}
        /\ \A j \in Sends : /\ ~Drained(j) => stream'[j] = stream[j]
                            /\ stopper[j] = "none" => stopper'[j] = "none"
    BY <1>17, ShutdownEffect DEF CloseClient
  <2>3. QED
    BY <1>1, <2>1, <2>2 DEF FreshInv, Drained
<1>18. ASSUME Dies PROVE FreshInv'
  BY <1>1, <1>18, GoneEffect DEF Dies, runtimeVars, FreshInv, Drained
<1>19. CASE UNCHANGED <<turn, flight, stopper, stream, tr>>
  BY <1>1, <1>19 DEF FreshInv, Drained
<1>20. QED
  BY <1>2, <1>3, <1>4, <1>5, <1>6, <1>7, <1>8, <1>9, <1>10, <1>11, <1>12, <1>13,
     <1>15, <1>16, <1>17, <1>18, <1>19, <1>14, ZenonT(40) DEF Next, vars, bridgeVars, Tick,
     OnIdle, CallerStops, runtimeVars

\* The result of a run is written when it is over, behind its events in time.
LEMMA ResultStep == TypeOK /\ BridgeInv /\ [Next]_vars => ResultInv'
<1> SUFFICES ASSUME TypeOK, BridgeInv, [Next]_vars PROVE ResultInv'
  OBVIOUS
<1>1. /\ FreshInv /\ ResultInv /\ SettledInv /\ OwnerInv /\ StreamInv /\ DoneInv /\ TransportInv
      /\ turn.sent \in Nat /\ \A j \in Sends : j \in Nat
  BY Shape DEF BridgeInv
<1>2. ASSUME Send PROVE ResultInv'
  <2>1. \A j \in Sends : flight[j].state = "over" => flight'[j].state = "over"
    <3>1. /\ flight[turn.sent + 1].state = "none"
          /\ \A j \in Sends : j # turn.sent + 1 => flight'[j] = flight[j]
      BY <1>1, <1>2, SendEffect DEF FreshInv
    <3>2. QED
      BY <3>1
  <2>2. Kept
    BY <1>2, SendEffect
  <2>3. \A p \in Results : fromB[p].run \in Sends
    BY Shape
  <2>4. InTime' => InTime
    BY <1>1, <1>2, SentInTime
  <2>5. QED
    BY <1>1, <2>1, <2>2, <2>3, <2>4 DEF ResultInv, Kept
<1>3. ASSUME NEW k \in Sends, StopCall(k) PROVE ResultInv'
  <2>1. \A j \in Sends : flight[j].state = "over" => flight'[j].state = "over"
    BY <1>1, <1>3, StopCallEffect
  <2>2. Kept
    BY <1>3, StopCallEffect
  <2>3. \A p \in Results : fromB[p].run \in Sends
    BY Shape
  <2>4. InTime' => InTime
    BY <1>3, StopCallEffect, PairedKept
  <2>5. QED
    BY <1>1, <2>1, <2>2, <2>3, <2>4 DEF ResultInv, Kept
<1>4. ASSUME NEW k \in Sends, ProviderEvent(k) PROVE ResultInv'
  <2> DEFINE l == Len(fromB) + 1
  <2>1. /\ InTime' => flight[k].state \in {"running", "stopped"}
        /\ flight'[k].state = flight[k].state /\ \A j \in Sends : j # k => flight'[j] = flight[j]
        /\ Results' = Results /\ \A p \in Events \cup Results : fromB'[p] = fromB[p]
        /\ Events' = Events \/ (Events' = Events \cup {l} /\ fromB'[l].ev.run = k)
    BY <1>4, ProviderEventEffect
  <2>2. \A p \in Results : fromB[p].run \in Sends /\ (InTime' => fromB[p].run # k)
    BY <1>1, <2>1, Shape DEF ResultInv
  <2>3. InTime' => InTime
    BY <1>4, ProviderEventEffect, PairedKept
  <2>4. QED
    BY <1>1, <2>1, <2>2, <2>3 DEF ResultInv
<1>5. ASSUME NEW k \in Sends, NEW ok \in BOOLEAN, ProviderEnds(k, ok) PROVE ResultInv'
  <2> DEFINE l == Len(fromB) + 1
  <2>1. /\ flight[k].state \in {"running", "stopped"}
        /\ \A j \in Sends : j # k => flight'[j] = flight[j]
        /\ Events' = Events /\ \A p \in Events \cup Results : fromB'[p] = fromB[p] /\ p < l
        /\ \/ Results' = Results
           \/ Results' = Results \cup {l} /\ fromB'[l].run = k /\ flight'[k].state = "over"
    BY <1>5, ProviderEndsEffect
  <2>2. \A p \in Results : fromB[p].run \in Sends /\ fromB[p].run # k
    BY <1>1, <2>1, Shape DEF ResultInv
  <2>3. InTime' => InTime
    BY <1>5, ProviderEndsEffect, PairedKept
  <2>4. QED
    BY <1>1, <2>1, <2>2, <2>3 DEF ResultInv
<1>6. ASSUME NEW k \in Sends, WriteResult(k) PROVE ResultInv'
  <2> DEFINE l == Len(fromB) + 1
  <2>1. /\ flight'[k].state = "over" /\ \A j \in Sends : j # k => flight'[j] = flight[j]
        /\ Events' = Events /\ Results' = Results \cup {l} /\ fromB'[l].run = k
        /\ \A p \in Events \cup Results : fromB'[p] = fromB[p] /\ p < l
    BY <1>6, WriteResultEffect
  <2>2. \A p \in Results : fromB[p].run \in Sends
    BY Shape
  <2>3. InTime' => InTime
    BY <1>6, WriteResultEffect, PairedKept
  <2>4. QED
    BY <1>1, <2>1, <2>2, <2>3 DEF ResultInv
<1>7. ASSUME Dispatch PROVE ResultInv'
  <2>1. /\ UNCHANGED flight
        /\ \A p \in Events' : p + 1 \in Events /\ fromB'[p] = fromB[p + 1]
        /\ \A p \in Results' : p + 1 \in Results /\ fromB'[p] = fromB[p + 1]
        /\ \A p \in Events' \cup Results' : p \in Nat
    BY <1>7, DispatchEffect
  <2>2. InTime' => InTime
    BY <1>7, DispatchEffect, PairedKept
  <2>3. QED
    BY <1>1, <2>1, <2>2 DEF ResultInv
<1>8. ASSUME CloseClient PROVE ResultInv'
  <2>1. \A j \in Sends : flight[j].state = "over" => flight'[j].state = "over"
    BY <1>1, <1>8, GoneEffect
  <2>2. Kept
    BY <1>8, GoneEffect
  <2>3. InTime' => InTime
    BY <1>8, GoneEffect DEF InTime, CloseClient, Shutdown
  <2>4. \A p \in Results : fromB[p].run \in Sends
    BY Shape
  <2>5. QED
    BY <1>1, <2>1, <2>2, <2>4, <2>3 DEF ResultInv, Kept
<1>9. ASSUME Dies PROVE ResultInv'
  <2>1. \A j \in Sends : flight[j].state = "over" => flight'[j].state = "over"
    BY <1>1, <1>9, GoneEffect
  <2>2. Kept
    BY <1>9, GoneEffect
  <2>3. InTime' => InTime
    BY <1>9, GoneEffect DEF InTime, Dies, runtimeVars
  <2>4. \A p \in Results : fromB[p].run \in Sends
    BY Shape
  <2>5. QED
    BY <1>1, <2>1, <2>2, <2>4, <2>3 DEF ResultInv, Kept
<1>10. CASE UNCHANGED <<fromB, flight, harness>>
  BY <1>1, <1>10, KeptUnread DEF ResultInv, Kept, InTime, OnTime
<1>11. QED
  BY <1>2, <1>3, <1>4, <1>5, <1>7, <1>8, <1>9, <1>10, <1>6, ZenonT(40) DEF Next, vars,
     bridgeVars, Start, NotReady, Consume, Park, Wake, Answer, Cut, Tick, OnIdle,
     CallerStops, StopTimesOut, ReaderEnds, Return, Shutdown, runtimeVars

\* A run no stop was sent after is read to its end before its wait returns.
LEMMA SettledStep == TypeOK /\ BridgeInv /\ [Next]_vars => SettledInv'
<1> SUFFICES ASSUME TypeOK, BridgeInv, [Next]_vars PROVE SettledInv'
  OBVIOUS
<1>1. /\ FreshInv /\ ResultInv /\ SettledInv /\ OwnerInv /\ StreamInv /\ DoneInv /\ TransportInv
      /\ turn.sent \in Nat /\ \A j \in Sends : j \in Nat
  BY Shape DEF BridgeInv
<1>2. ASSUME NotReady PROVE SettledInv'
  BY <1>1, <1>2, NotReadyEffect, SentInTime DEF SettledInv, Drained, Kept
<1>3. ASSUME Send PROVE SettledInv'
  BY <1>1, <1>3, SendEffect, SentInTime DEF SettledInv, Drained, Kept
<1>4. ASSUME Park PROVE SettledInv'
  BY <1>1, <1>4, ParkEffect, PairedKept DEF SettledInv, Drained, Kept
<1>5. ASSUME Wake PROVE SettledInv'
  BY <1>1, <1>5, WakeEffect, PairedKept DEF SettledInv, Drained, Kept
<1>6. ASSUME Answer PROVE SettledInv'
  <2>1. /\ turn.pc # "idle" /\ turn'.pc = "idle" /\ turn'.sent = turn.sent /\ turn.sent \in Sends
        /\ UNCHANGED flight /\ Kept /\ \A j \in Sends : j # turn.sent => stopper'[j] = stopper[j]
        /\ stopper'[turn.sent] = "none" => stream[turn.sent].done /\ stream[turn.sent].ok
    BY <1>1, <1>6, ReturnEffect
  <2>2. \A j \in Sends : stopper'[j] = "none" =>
          /\ flight[j].state \in {"none", "over"}
          /\ InTime => \A p \in Events : fromB[p].ev.run # j
    BY <1>1, <2>1 DEF SettledInv, Drained, DoneInv, Waiting
  <2>3. InTime' => InTime
    BY <1>1, <1>6, ReturnEffect, PairedKept
  <2>4. QED
    BY <2>1, <2>2, <2>3 DEF SettledInv, Kept
<1>7. ASSUME Cut PROVE SettledInv'
  <2>1. /\ turn.pc # "idle" /\ turn'.pc = "idle" /\ turn'.sent = turn.sent /\ turn.sent \in Sends
        /\ UNCHANGED flight /\ Kept /\ \A j \in Sends : j # turn.sent => stopper'[j] = stopper[j]
        /\ stopper'[turn.sent] = "none" => stream[turn.sent].done /\ stream[turn.sent].ok
    BY <1>1, <1>7, ReturnEffect
  <2>2. \A j \in Sends : stopper'[j] = "none" =>
          /\ flight[j].state \in {"none", "over"}
          /\ InTime => \A p \in Events : fromB[p].ev.run # j
    BY <1>1, <2>1 DEF SettledInv, Drained, DoneInv, Waiting
  <2>3. InTime' => InTime
    BY <1>1, <1>7, ReturnEffect, PairedKept
  <2>4. QED
    BY <2>1, <2>2, <2>3 DEF SettledInv, Kept
<1>8. ASSUME NEW k \in Sends, StopCall(k) PROVE SettledInv'
  <2>1. UNCHANGED turn /\ Kept /\ \A j \in Sends : stopper'[j] = "none" => stopper[j] = "none"
    BY <1>8, StopCallEffect
  <2>2. \A j \in Sends :
          flight[j].state \in {"none", "over"} => flight'[j].state \in {"none", "over"}
    BY <1>8, StopCallEffect
  <2>3. InTime' => InTime
    BY <1>8, StopCallEffect, PairedKept
  <2>4. QED
    BY <1>1, <2>1, <2>2, <2>3 DEF SettledInv, Drained, Kept
<1>9. ASSUME NEW k \in Sends, StopTimesOut(k) PROVE SettledInv'
  BY <1>1, <1>9, StopTimesOutEffect, PairedKept DEF SettledInv, Drained, Kept
<1>10. ASSUME NEW k \in Sends, ProviderEvent(k) PROVE SettledInv'
  <2> DEFINE l == Len(fromB) + 1
  <2>1. /\ InTime' => flight[k].state \in {"running", "stopped"}
        /\ flight'[k].state = flight[k].state /\ \A j \in Sends : j # k => flight'[j] = flight[j]
        /\ Events' = Events \/ (Events' = Events \cup {l} /\ fromB'[l].ev.run = k)
        /\ \A p \in Events : fromB'[p] = fromB[p]
        /\ UNCHANGED <<turn, stopper>>
    BY <1>10, ProviderEventEffect
  <2>2. InTime' => InTime
    BY <1>10, ProviderEventEffect, PairedKept
  <2>3. QED
    BY <1>1, <2>1, <2>2 DEF SettledInv, Drained
<1>11. ASSUME NEW k \in Sends, NEW ok \in BOOLEAN, ProviderEnds(k, ok) PROVE SettledInv'
  <2>1. /\ flight[k].state \in {"running", "stopped"}
        /\ \A j \in Sends : j # k => flight'[j] = flight[j]
        /\ Events' = Events /\ \A p \in Events : fromB'[p] = fromB[p]
        /\ UNCHANGED <<turn, stopper>>
    BY <1>11, ProviderEndsEffect
  <2>2. InTime' => InTime
    BY <1>11, ProviderEndsEffect, PairedKept
  <2>3. QED
    BY <1>1, <2>1, <2>2 DEF SettledInv, Drained
<1>12. ASSUME NEW k \in Sends, WriteResult(k) PROVE SettledInv'
  <2>1. /\ flight'[k].state = "over" /\ \A j \in Sends : j # k => flight'[j] = flight[j]
        /\ Events' = Events /\ \A p \in Events : fromB'[p] = fromB[p]
        /\ UNCHANGED <<turn, stopper>>
    BY <1>12, WriteResultEffect
  <2>2. InTime' => InTime
    BY <1>12, WriteResultEffect, PairedKept
  <2>3. QED
    BY <1>1, <2>1, <2>2 DEF SettledInv, Drained
<1>13. ASSUME Dispatch PROVE SettledInv'
  <2>1. /\ UNCHANGED <<flight, turn>>
        /\ \A p \in Events' : p + 1 \in Events /\ fromB'[p] = fromB[p + 1]
    BY <1>13, DispatchEffect
  <2>2. \A j \in Sends : stopper'[j] = "none" => stopper[j] = "none"
    <3>1. CASE Buffers \/ Drops \/ Finishes \/ Forgets
      BY <3>1 DEF Buffers, Drops, Finishes, Forgets
    <3>2. CASE Releases
      BY <3>2 DEF Releases
    <3>3. QED
      BY <1>13, <3>1, <3>2, DispatchEffect
  <2>3. InTime' => InTime
    BY <1>13, DispatchEffect, PairedKept
  <2>4. QED
    BY <1>1, <2>1, <2>2, <2>3 DEF SettledInv, Drained
<1>14. ASSUME ReaderEnds PROVE SettledInv'
  BY <1>1, <1>14, ShutdownEffect, KeptUnread DEF ReaderEnds, bridgeVars, SettledInv,
     Drained, Kept, InTime, OnTime
<1>15. ASSUME CloseClient PROVE SettledInv'
  <2>1. \A j \in Sends :
          flight[j].state \in {"none", "over"} => flight'[j].state \in {"none", "over"}
    BY <1>15, GoneEffect
  <2>2. Kept
    BY <1>15, GoneEffect
  <2>3. UNCHANGED turn /\ \A j \in Sends : stopper'[j] = "none" => stopper[j] = "none"
    BY <1>15, ShutdownEffect DEF CloseClient
  <2>4. InTime' => InTime
    BY <1>15, GoneEffect DEF InTime, CloseClient, Shutdown
  <2>5. QED
    BY <1>1, <2>1, <2>2, <2>3, <2>4 DEF SettledInv, Drained, Kept
<1>16. ASSUME Dies PROVE SettledInv'
  BY <1>1, <1>16, GoneEffect DEF Dies, runtimeVars, SettledInv, Drained, Kept, InTime
<1>17. CASE UNCHANGED <<turn, stopper, flight, fromB, outcome, harness>>
  BY <1>1, <1>17, KeptUnread DEF SettledInv, Drained, Kept, InTime, OnTime
<1>18. QED
  BY <1>2, <1>3, <1>4, <1>5, <1>6, <1>7, <1>8, <1>9, <1>10, <1>11, <1>13, <1>14,
     <1>15, <1>16, <1>17, <1>12, ZenonT(40) DEF Next, vars, bridgeVars, Start, Consume, Tick,
     OnIdle, CallerStops, runtimeVars

\* The bridge pairs the events of the current run with it.
LEMMA OwnerStep == TypeOK /\ BridgeInv /\ [Next]_vars => OwnerInv'
<1> SUFFICES ASSUME TypeOK, BridgeInv, [Next]_vars PROVE OwnerInv'
  OBVIOUS
<1>1. /\ FreshInv /\ ResultInv /\ SettledInv /\ OwnerInv /\ StreamInv /\ DoneInv /\ TransportInv
      /\ turn.sent \in Nat /\ \A j \in Sends : j \in Nat
  BY Shape DEF BridgeInv
<1>2. ASSUME NotReady PROVE OwnerInv'
  <2>1. /\ turn.pc = "idle" /\ turn'.sent = turn.sent + 1 /\ turn.sent + 1 \in Sends
        /\ Kept /\ UNCHANGED <<harness, stopper>>
    BY <1>2, NotReadyEffect
  <2>2. ~CutBefore' => \A j \in Sends : stopper[j] = "none"
    <3>1. \A j \in Sends : j < turn.sent + 1 \/ j > turn.sent
      BY <1>1
    <3>2. QED
      BY <1>1, <2>1, <3>1 DEF CutBefore, FreshInv
  <2>3. (InTime' => InTime) /\ (Paired' => InTime')
    BY <1>1, <1>2, SentInTime
  <2>4. ~CutBefore' /\ InTime' => Events = {}
    BY <1>1, <2>1, <2>2, <2>3, Shape DEF SettledInv, Drained
  <2>5. harness = "cline" => \A j \in Sends : j = turn'.sent /\ flight'[j].state = "running" =>
          handle'.owned /\ handle'.request = j
    BY <1>1, <1>2, <2>1, NotReadyEffect DEF FreshInv
  <2>6. harness = "codex" => \A p \in Events : fromB[p].to = fromB[p].ev.run
    BY <1>1 DEF OwnerInv
  <2>7. QED
    BY <2>1, <2>4, <2>5, <2>6, <2>3 DEF OwnerInv, Paired, Kept
<1>3. ASSUME Send PROVE OwnerInv'
  <2>1. /\ turn.pc = "idle" /\ turn'.sent = turn.sent + 1 /\ turn.sent + 1 \in Sends
        /\ Kept /\ UNCHANGED <<harness, stopper>>
    BY <1>3, SendEffect
  <2>2. ~CutBefore' => \A j \in Sends : stopper[j] = "none"
    <3>1. \A j \in Sends : j < turn.sent + 1 \/ j > turn.sent
      BY <1>1
    <3>2. QED
      BY <1>1, <2>1, <3>1 DEF CutBefore, FreshInv
  <2>3. (InTime' => InTime) /\ (Paired' => InTime')
    BY <1>1, <1>3, SentInTime
  <2>4. ~CutBefore' /\ InTime' => Events = {}
    BY <1>1, <2>1, <2>2, <2>3, Shape DEF SettledInv, Drained
  <2>5. harness = "cline" => \A j \in Sends : j = turn'.sent /\ flight'[j].state = "running" =>
          handle'.owned /\ handle'.request = j
    BY <1>1, <1>3, <2>1, SendEffect DEF FreshInv
  <2>6. harness = "codex" => \A p \in Events : fromB[p].to = fromB[p].ev.run
    BY <1>1 DEF OwnerInv
  <2>7. QED
    BY <2>1, <2>4, <2>5, <2>6, <2>3 DEF OwnerInv, Paired, Kept
<1>4. ASSUME Park PROVE OwnerInv'
  BY <1>1, <1>4, ParkEffect, PairedKept DEF OwnerInv, Follows, Kept
<1>5. ASSUME Wake PROVE OwnerInv'
  BY <1>1, <1>5, WakeEffect, PairedKept DEF OwnerInv, Follows, Kept
<1>6. ASSUME Answer PROVE OwnerInv'
  BY <1>1, <1>6, ReturnEffect, PairedKept DEF OwnerInv, Follows, Kept
<1>7. ASSUME Cut PROVE OwnerInv'
  BY <1>1, <1>7, ReturnEffect, PairedKept DEF OwnerInv, Follows, Kept
<1>8. ASSUME NEW k \in Sends, StopCall(k) PROVE OwnerInv'
  <2>1. UNCHANGED <<harness, turn>> /\ Kept /\ Follows
    BY <1>8, StopCallEffect
  <2>2. harness = "cline" => \A j \in Sends : flight'[j].state = "running" =>
          handle' = handle /\ flight[j].state = "running"
    BY <1>8, StopCallEffect
  <2>3. Paired' => Paired
    BY <2>1, PairedKept
  <2>4. QED
    BY <1>1, <2>1, <2>2, <2>3 DEF OwnerInv, Follows, Kept
<1>9. ASSUME NEW k \in Sends, StopTimesOut(k) PROVE OwnerInv'
  BY <1>1, <1>9, StopTimesOutEffect, PairedKept DEF OwnerInv, Follows, Kept
<1>10. ASSUME NEW k \in Sends, ProviderEvent(k) PROVE OwnerInv'
  <2> DEFINE l == Len(fromB) + 1
  <2>1. /\ \/ Events' = Events
           \/ Events' = Events \cup {l} /\ fromB'[l].ev.run = k /\ fromB'[l].to = RequestOf(k)
        /\ \A p \in Events : fromB'[p] = fromB[p]
        /\ UNCHANGED <<harness, turn, handle, stopper>> /\ Follows
        /\ \A j \in Sends : flight'[j].state = flight[j].state
    BY <1>10, ProviderEventEffect
  <2>2. harness = "codex" => RequestOf(k) = k
    BY DEF RequestOf
  <2>3. Paired' => Paired /\ RequestOf(k) = k
    BY <1>10, <2>1, PairedKept, PairedRequest
  <2>4. QED
    BY <1>1, <2>1, <2>2, <2>3 DEF OwnerInv, Follows
<1>11. ASSUME NEW k \in Sends, NEW ok \in BOOLEAN, ProviderEnds(k, ok) PROVE OwnerInv'
  <2>1. /\ Events' = Events /\ \A p \in Events : fromB'[p] = fromB[p]
        /\ UNCHANGED <<harness, turn>> /\ Follows
        /\ flight[k].state \in {"running", "stopped"} /\ flight'[k].state \in {"returned", "over"}
    BY <1>11, ProviderEndsEffect
  <2>2. ~CutBefore => k = turn.sent
    BY <1>1, <2>1, StillRunning
  <2>3. Paired' => Paired
    BY <2>1, PairedKept
  <2>4. QED
    BY <1>1, <2>1, <2>2, <2>3 DEF OwnerInv, Follows
<1>12. ASSUME NEW k \in Sends, WriteResult(k) PROVE OwnerInv'
  <2>1. /\ Events' = Events /\ \A p \in Events : fromB'[p] = fromB[p]
        /\ UNCHANGED <<harness, turn, handle>> /\ Follows
        /\ flight'[k].state = "over" /\ \A j \in Sends : j # k => flight'[j] = flight[j]
    BY <1>12, WriteResultEffect
  <2>2. Paired' => Paired
    BY <2>1, PairedKept
  <2>3. QED
    BY <1>1, <2>1, <2>2 DEF OwnerInv, Follows
<1>13. ASSUME Dispatch PROVE OwnerInv'
  <2>1. /\ UNCHANGED <<harness, flight, turn, handle>> /\ Follows
        /\ \A p \in Events' : p + 1 \in Events /\ fromB'[p] = fromB[p + 1]
    BY <1>13, DispatchEffect
  <2>2. Paired' => Paired
    BY <2>1, PairedKept
  <2>3. QED
    BY <1>1, <2>1, <2>2 DEF OwnerInv, Follows
<1>14. ASSUME ReaderEnds PROVE OwnerInv'
  BY <1>1, <1>14, ShutdownEffect, KeptUnread DEF ReaderEnds, bridgeVars, OwnerInv,
     Paired, OnTime, Kept
<1>15. ASSUME CloseClient PROVE OwnerInv'
  BY <1>1, <1>15, ShutdownEffect, GoneEffect DEF CloseClient, OwnerInv, Paired, Kept
<1>16. ASSUME Dies PROVE OwnerInv'
  <2>1. /\ UNCHANGED <<harness, turn, stopper>> /\ Kept
        /\ \A j \in Sends : flight'[j].state # "running"
    BY <1>16, GoneEffect DEF Dies, runtimeVars
  <2>2. Follows
    BY <1>16, <2>1, GoneEffect, CutKept
  <2>3. QED
    BY <1>1, <2>1, <2>2, PairedKept DEF OwnerInv, Follows, Kept
<1>17. CASE UNCHANGED <<harness, fromB, turn, stopper, flight, handle>>
  BY <1>1, <1>17, KeptUnread, CutKept, PairedKept DEF OwnerInv, Follows, Kept
<1>18. QED
  BY <1>2, <1>3, <1>4, <1>5, <1>6, <1>7, <1>8, <1>9, <1>10, <1>11, <1>13, <1>14,
     <1>15, <1>16, <1>17, <1>12, ZenonT(40) DEF Next, vars, bridgeVars, Start, Consume, Tick,
     OnIdle, CallerStops, runtimeVars

\* The events of the run stay one after the other.
LEMMA StreamStep == TypeOK /\ BridgeInv /\ [Next]_vars => StreamInv'
<1> SUFFICES ASSUME TypeOK, BridgeInv, [Next]_vars PROVE StreamInv'
  OBVIOUS
<1>1. /\ FreshInv /\ ResultInv /\ SettledInv /\ OwnerInv /\ StreamInv /\ DoneInv /\ TransportInv
      /\ turn.sent \in Nat /\ \A j \in Sends : j \in Nat
  BY Shape DEF BridgeInv
<1>2. ASSUME Start PROVE StreamInv'
  <2>1. /\ turn'.sent = turn.sent /\ (turn'.pc # "idle" => turn.pc # "idle")
        /\ UNCHANGED <<harness, got>> /\ Follows
        /\ Events' = Events /\ \A p \in Events : fromB'[p] = fromB[p]
    BY <1>1, <1>2, KeptUnread, CutKept DEF Start, Kept, TypeOK, Transports
  <2>2. turn'.pc # "idle" =>
          /\ stream'[turn.sent].events = stream[turn.sent].events
          /\ flight'[turn.sent].n = flight[turn.sent].n
          /\ turn.sent \in tr'.streams => turn.sent \in tr.streams
    BY <1>1, <1>2, KeptUnread, CutKept DEF Start, Kept, TypeOK, Transports
  <2>3. QED
    BY <1>1, <2>1, <2>2, StreamStill
<1>3. ASSUME NotReady PROVE StreamInv'
  <2>1. got' = <<>> /\ turn'.pc = "idle"
    BY <1>1, <1>3, NotReadyEffect DEF TransportInv
  <2>2. QED
    BY <2>1 DEF StreamInv, InOrder
<1>4. ASSUME Send PROVE StreamInv'
  <2> SUFFICES ASSUME Paired' PROVE InOrder'
    BY DEF StreamInv
  <2> DEFINE k == turn.sent + 1
  <2>1. InTime
    BY <1>1, <1>4, SentInTime
  <2>2. /\ turn.pc = "idle" /\ k \in Sends /\ turn'.sent = k /\ got' = <<>>
        /\ UNCHANGED stream /\ Kept
        /\ turn'.pc # "idle" => flight'[k].n = 0
    BY <1>4, SendEffect
  <2>3. stream[k].events = <<>> /\ \A p \in Events : fromB[p].ev.run # k
    BY <1>1, <2>2, <2>1, Shape DEF FreshInv, SettledInv, Drained
  <2>4. Len(got') = 0 /\ Waiting' = stream'[k] /\ Waiting'.events = <<>> /\ Taken' = 0
    BY <2>2, <2>3 DEF Waiting, Taken
  <2>5. InOrder'
    BY <2>2, <2>3, <2>4 DEF InOrder, Kept
  <2>6. QED
    BY <2>5
<1>5. ASSUME Consume PROVE StreamInv'
  <2> SUFFICES ASSUME Paired' PROVE InOrder'
    BY DEF StreamInv
  <2> DEFINE k == turn.sent  e == stream[k].events
  <2>1. /\ turn' = turn /\ turn.pc # "idle" /\ UNCHANGED <<harness, tr, flight>>
        /\ Kept /\ Follows
        /\ Len(e) \in Nat \ {0} /\ Len(got) \in Nat
        /\ Len(stream'[k].events) = Len(e) - 1 /\ Len(got') = Len(got) + 1
    BY <1>1, <1>5, ConsumeEffect, Shape
  <2>2. InOrder
    BY <1>1, <2>1, PairedKept DEF StreamInv
  <2>3. Len(got') + Len(stream'[k].events) = Len(got) + Len(e) /\ turn'.sent = k
    <3>1. \A a, b, c, d : a \in Nat /\ b \in Nat /\ c = a - 1 /\ d = b + 1 => d + c = b + a
      OBVIOUS
    <3>2. turn'.sent = k
      BY <2>1
    <3>3. QED
      BY <2>1, <3>1, <3>2
  <2>4. Waiting' = stream'[k] /\ Taken' = Taken
    BY <2>3 DEF Waiting, Taken
  <2>5. e[1] = [run |-> k, n |-> Len(got) + 1]
    BY <2>1, <2>2 DEF InOrder, Waiting
  <2>6. \A i \in 1 .. Len(got') : got'[i] = [run |-> k, n |-> i]
    <3>1. \A i \in 1 .. Len(got) : got'[i] = [run |-> k, n |-> i]
      BY <1>1, <1>5, <2>2, ConsumeEffect DEF InOrder
    <3>2. got'[Len(got) + 1] = [run |-> k, n |-> Len(got) + 1]
      BY <1>1, <1>5, <2>5, ConsumeEffect
    <3>3. \A i \in 1 .. Len(got') : i \in 1 .. Len(got) \/ i = Len(got) + 1
      BY <2>1
    <3>4. QED
      BY <3>1, <3>2, <3>3
  <2>7. \A i \in 1 .. Len(e) - 1 : stream'[k].events[i] = [run |-> k, n |-> Len(got') + i]
    <3>1. \A i \in 1 .. Len(e) - 1 : i + 1 \in 1 .. Len(e) /\ Len(got) + (i + 1) = Len(got') + i
      BY <2>1
    <3>2. \A i \in 1 .. Len(e) : e[i] = [run |-> k, n |-> Len(got) + i]
      BY <2>1, <2>2 DEF InOrder, Waiting
    <3>3. \A i \in 1 .. Len(e) - 1 : stream'[k].events[i] = e[i + 1]
      BY <1>1, <1>5, ConsumeEffect
    <3>4. QED
      BY <3>1, <3>2, <3>3
  <2>8. \A i \in 1 .. Len(Waiting'.events) :
          Waiting'.events[i] = [run |-> turn'.sent, n |-> Len(got') + i]
    BY <2>1, <2>3, <2>7, <2>4
  <2>9. \A i \in 1 .. Len(got') : got'[i] = [run |-> turn'.sent, n |-> i]
    BY <2>3, <2>6
  <2>10. Taken' <= flight'[turn'.sent].n /\ turn.sent \in Sends
    BY <1>1, <2>1, <2>2, <2>3, <2>4, Current DEF InOrder
  <2>11. ASSUME turn'.sent \in tr'.streams PROVE
          /\ \A p \in Events' : fromB'[p].ev.run = turn'.sent =>
               fromB'[p].ev.n \in Taken' + 1 .. flight'[turn'.sent].n
          /\ \A p, q \in Events' :
               p < q /\ fromB'[p].ev.run = turn'.sent /\ fromB'[q].ev.run = turn'.sent =>
                 fromB'[p].ev.n < fromB'[q].ev.n
          /\ \A n \in Taken' + 1 .. flight'[turn'.sent].n :
               \E p \in Events' : fromB'[p].ev.run = turn'.sent /\ fromB'[p].ev.n = n
    BY <2>1, <2>2, <2>3, <2>4, <2>11 DEF InOrder, Kept
  <2>12. QED
    BY <2>8, <2>9, <2>10, <2>11 DEF InOrder
<1>6. ASSUME Park PROVE StreamInv'
  <2>1. /\ turn'.sent = turn.sent /\ (turn'.pc # "idle" => turn.pc # "idle")
        /\ UNCHANGED <<harness, got>> /\ Follows
        /\ Events' = Events /\ \A p \in Events : fromB'[p] = fromB[p]
    BY <1>1, <1>6, ParkEffect DEF Kept
  <2>2. turn'.pc # "idle" =>
          /\ stream'[turn.sent].events = stream[turn.sent].events
          /\ flight'[turn.sent].n = flight[turn.sent].n
          /\ turn.sent \in tr'.streams => turn.sent \in tr.streams
    BY <1>1, <1>6, ParkEffect DEF Kept
  <2>3. QED
    BY <1>1, <2>1, <2>2, StreamStill
<1>7. ASSUME Wake PROVE StreamInv'
  <2>1. /\ turn'.sent = turn.sent /\ (turn'.pc # "idle" => turn.pc # "idle")
        /\ UNCHANGED <<harness, got>> /\ Follows
        /\ Events' = Events /\ \A p \in Events : fromB'[p] = fromB[p]
    BY <1>1, <1>7, WakeEffect, Current DEF Kept
  <2>2. turn'.pc # "idle" =>
          /\ stream'[turn.sent].events = stream[turn.sent].events
          /\ flight'[turn.sent].n = flight[turn.sent].n
          /\ turn.sent \in tr'.streams => turn.sent \in tr.streams
    BY <1>1, <1>7, WakeEffect, Current DEF Kept
  <2>3. QED
    BY <1>1, <2>1, <2>2, StreamStill
<1>8. ASSUME Answer PROVE StreamInv'
  <2>1. /\ turn'.sent = turn.sent /\ (turn'.pc # "idle" => turn.pc # "idle")
        /\ UNCHANGED <<harness, got>> /\ Follows
        /\ Events' = Events /\ \A p \in Events : fromB'[p] = fromB[p]
    BY <1>1, <1>8, ReturnEffect DEF Kept
  <2>2. turn'.pc # "idle" =>
          /\ stream'[turn.sent].events = stream[turn.sent].events
          /\ flight'[turn.sent].n = flight[turn.sent].n
          /\ turn.sent \in tr'.streams => turn.sent \in tr.streams
    BY <1>1, <1>8, ReturnEffect DEF Kept
  <2>3. QED
    BY <1>1, <2>1, <2>2, StreamStill
<1>9. ASSUME Cut PROVE StreamInv'
  <2>1. /\ turn'.sent = turn.sent /\ (turn'.pc # "idle" => turn.pc # "idle")
        /\ UNCHANGED <<harness, got>> /\ Follows
        /\ Events' = Events /\ \A p \in Events : fromB'[p] = fromB[p]
    BY <1>1, <1>9, ReturnEffect DEF Kept
  <2>2. turn'.pc # "idle" =>
          /\ stream'[turn.sent].events = stream[turn.sent].events
          /\ flight'[turn.sent].n = flight[turn.sent].n
          /\ turn.sent \in tr'.streams => turn.sent \in tr.streams
    BY <1>1, <1>9, ReturnEffect DEF Kept
  <2>3. QED
    BY <1>1, <2>1, <2>2, StreamStill
<1>10. ASSUME NEW k \in Sends, StopCall(k) PROVE StreamInv'
  <2>1. /\ turn'.sent = turn.sent /\ (turn'.pc # "idle" => turn.pc # "idle")
        /\ UNCHANGED <<harness, got>> /\ Follows
        /\ Events' = Events /\ \A p \in Events : fromB'[p] = fromB[p]
    BY <1>1, <1>10, StopCallEffect, Current DEF Kept
  <2>2. turn'.pc # "idle" =>
          /\ stream'[turn.sent].events = stream[turn.sent].events
          /\ flight'[turn.sent].n = flight[turn.sent].n
          /\ turn.sent \in tr'.streams => turn.sent \in tr.streams
    BY <1>1, <1>10, StopCallEffect, Current DEF Kept
  <2>3. QED
    BY <1>1, <2>1, <2>2, StreamStill
<1>11. ASSUME NEW k \in Sends, StopTimesOut(k) PROVE StreamInv'
  <2>1. /\ turn'.sent = turn.sent /\ (turn'.pc # "idle" => turn.pc # "idle")
        /\ UNCHANGED <<harness, got>> /\ Follows
        /\ Events' = Events /\ \A p \in Events : fromB'[p] = fromB[p]
    BY <1>1, <1>11, StopTimesOutEffect DEF Kept
  <2>2. turn'.pc # "idle" =>
          /\ stream'[turn.sent].events = stream[turn.sent].events
          /\ flight'[turn.sent].n = flight[turn.sent].n
          /\ turn.sent \in tr'.streams => turn.sent \in tr.streams
    BY <1>1, <1>11, StopTimesOutEffect DEF Kept
  <2>3. QED
    BY <1>1, <2>1, <2>2, StreamStill
<1>12. ASSUME NEW k \in Sends, ProviderEvent(k) PROVE StreamInv'
  BY <1>12, ProducedInOrder
<1>13. ASSUME NEW k \in Sends, NEW ok \in BOOLEAN, ProviderEnds(k, ok) PROVE StreamInv'
  <2>1. /\ turn'.sent = turn.sent /\ (turn'.pc # "idle" => turn.pc # "idle")
        /\ UNCHANGED <<harness, got>> /\ Follows
        /\ Events' = Events /\ \A p \in Events : fromB'[p] = fromB[p]
    BY <1>1, <1>13, ProviderEndsEffect, Current
  <2>2. turn'.pc # "idle" =>
          /\ stream'[turn.sent].events = stream[turn.sent].events
          /\ flight'[turn.sent].n = flight[turn.sent].n
          /\ turn.sent \in tr'.streams => turn.sent \in tr.streams
    BY <1>1, <1>13, ProviderEndsEffect, Current
  <2>3. QED
    BY <1>1, <2>1, <2>2, StreamStill
<1>14. ASSUME NEW k \in Sends, WriteResult(k) PROVE StreamInv'
  <2>1. /\ turn'.sent = turn.sent /\ (turn'.pc # "idle" => turn.pc # "idle")
        /\ UNCHANGED <<harness, got>> /\ Follows
        /\ Events' = Events /\ \A p \in Events : fromB'[p] = fromB[p]
    BY <1>1, <1>14, WriteResultEffect, Current
  <2>2. turn'.pc # "idle" =>
          /\ stream'[turn.sent].events = stream[turn.sent].events
          /\ flight'[turn.sent].n = flight[turn.sent].n
          /\ turn.sent \in tr'.streams => turn.sent \in tr.streams
    BY <1>1, <1>14, WriteResultEffect, Current
  <2>3. QED
    BY <1>1, <2>1, <2>2, StreamStill
<1>15. ASSUME Dispatch PROVE StreamInv'
  <2>1. CASE Drops \/ Finishes \/ Forgets \/ Releases
    BY <1>1, <1>15, <2>1, DroppedInOrder
  <2>2. CASE Buffers
    BY <1>1, <1>15, <2>2, BufferedInOrder
  <2>3. QED
    BY <1>15, <2>1, <2>2, DispatchEffect
<1>16. ASSUME ReaderEnds PROVE StreamInv'
  <2>1. /\ turn'.sent = turn.sent /\ (turn'.pc # "idle" => turn.pc # "idle")
        /\ UNCHANGED <<harness, got>> /\ Follows
        /\ Events' = Events /\ \A p \in Events : fromB'[p] = fromB[p]
    BY <1>1, <1>16, ShutdownEffect, KeptUnread, Current DEF ReaderEnds, bridgeVars, Kept, Follows, OnTime
  <2>2. turn'.pc # "idle" =>
          /\ stream'[turn.sent].events = stream[turn.sent].events
          /\ flight'[turn.sent].n = flight[turn.sent].n
          /\ turn.sent \in tr'.streams => turn.sent \in tr.streams
    BY <1>1, <1>16, ShutdownEffect, KeptUnread, Current DEF ReaderEnds, bridgeVars, Kept, Follows, OnTime
  <2>3. QED
    BY <1>1, <2>1, <2>2, StreamStill
<1>17. ASSUME CloseClient PROVE StreamInv'
  <2>1. /\ turn'.sent = turn.sent /\ (turn'.pc # "idle" => turn.pc # "idle")
        /\ UNCHANGED <<harness, got>> /\ Follows
        /\ Events' = Events /\ \A p \in Events : fromB'[p] = fromB[p]
    BY <1>1, <1>17, ShutdownEffect, GoneEffect, Current DEF CloseClient, Kept, Follows
  <2>2. turn'.pc # "idle" =>
          /\ stream'[turn.sent].events = stream[turn.sent].events
          /\ flight'[turn.sent].n = flight[turn.sent].n
          /\ turn.sent \in tr'.streams => turn.sent \in tr.streams
    <3>1. turn' = turn /\ tr'.streams = {} /\ \A j \in Sends : stream'[j].events = stream[j].events
      BY <1>17, ShutdownEffect DEF CloseClient
    <3>2. \A j \in Sends : flight'[j].n = flight[j].n
      BY <1>17, GoneEffect
    <3>3. QED
      BY <1>1, <3>1, <3>2, Current
  <2>3. QED
    BY <1>1, <2>1, <2>2, StreamStill
<1>18. ASSUME Dies PROVE StreamInv'
  <2>1. /\ turn'.sent = turn.sent /\ (turn'.pc # "idle" => turn.pc # "idle")
        /\ UNCHANGED <<harness, got>> /\ Follows
        /\ Events' = Events /\ \A p \in Events : fromB'[p] = fromB[p]
    BY <1>1, <1>18, GoneEffect, CutKept, Current DEF Dies, runtimeVars, Kept
  <2>2. turn'.pc # "idle" =>
          /\ stream'[turn.sent].events = stream[turn.sent].events
          /\ flight'[turn.sent].n = flight[turn.sent].n
          /\ turn.sent \in tr'.streams => turn.sent \in tr.streams
    BY <1>1, <1>18, GoneEffect, CutKept, Current DEF Dies, runtimeVars, Kept
  <2>3. QED
    BY <1>1, <2>1, <2>2, StreamStill
<1>19. CASE UNCHANGED <<harness, turn, stopper, got, stream, flight, tr, fromB>>
  <2>1. /\ turn'.sent = turn.sent /\ (turn'.pc # "idle" => turn.pc # "idle")
        /\ UNCHANGED <<harness, got>> /\ Follows
        /\ Events' = Events /\ \A p \in Events : fromB'[p] = fromB[p]
    BY <1>1, <1>19, KeptUnread, CutKept DEF Kept
  <2>2. turn'.pc # "idle" =>
          /\ stream'[turn.sent].events = stream[turn.sent].events
          /\ flight'[turn.sent].n = flight[turn.sent].n
          /\ turn.sent \in tr'.streams => turn.sent \in tr.streams
    BY <1>1, <1>19, KeptUnread, CutKept DEF Kept
  <2>3. QED
    BY <1>1, <2>1, <2>2, StreamStill
<1>20. QED
  BY <1>2, <1>3, <1>4, <1>5, <1>6, <1>7, <1>8, <1>9, <1>10, <1>11, <1>12, <1>13,
     <1>15, <1>16, <1>17, <1>18, <1>19, <1>14, ZenonT(40) DEF Next, vars, bridgeVars, Tick,
     OnIdle, CallerStops, runtimeVars

\* A done run has been read to its end.
LEMMA DoneStep == TypeOK /\ BridgeInv /\ [Next]_vars => DoneInv'
<1> SUFFICES ASSUME TypeOK, BridgeInv, [Next]_vars PROVE DoneInv'
  OBVIOUS
<1>1. /\ FreshInv /\ ResultInv /\ SettledInv /\ OwnerInv /\ StreamInv /\ DoneInv /\ TransportInv
      /\ turn.sent \in Nat /\ \A j \in Sends : j \in Nat
  BY Shape DEF BridgeInv
<1>2. ASSUME Start PROVE DoneInv'
  <2>1. /\ turn'.sent = turn.sent /\ (turn'.pc = "idle" <=> turn.pc = "idle")
        /\ UNCHANGED <<harness, got, outcome>> /\ Follows
    BY <1>1, <1>2, KeptUnread, CutKept DEF Start, Kept, TypeOK, Transports
  <2>2. /\ stream'[turn.sent].events = stream[turn.sent].events
        /\ stream'[turn.sent].done = stream[turn.sent].done
        /\ stream'[turn.sent].ok = stream[turn.sent].ok
        /\ turn.sent \in tr'.streams <=> turn.sent \in tr.streams
    BY <1>1, <1>2, KeptUnread, CutKept DEF Start, Kept, TypeOK, Transports
  <2>3. turn.sent \in Sends /\ flight[turn.sent].state = "over" =>
          /\ flight'[turn.sent].state = "over"
          /\ InTime' => flight'[turn.sent].n = flight[turn.sent].n
          /\ InTime' /\ (\A p \in Events : fromB[p].ev.run # turn.sent) =>
               \A p \in Events' : fromB'[p].ev.run # turn.sent
    BY <1>1, <1>2, KeptUnread, CutKept DEF Start, Kept, TypeOK, Transports
  <2>4. QED
    BY <1>1, <2>1, <2>2, <2>3, DoneStill
<1>3. ASSUME NotReady PROVE DoneInv'
  BY <1>1, <1>3, NotReadyEffect, SentInTime DEF DoneInv, Taken, Waiting, Kept
<1>4. ASSUME Send PROVE DoneInv'
  <2> DEFINE k == turn.sent + 1
  <2>1. /\ turn.pc = "idle" /\ k \in Sends /\ turn'.sent = k /\ UNCHANGED stream
        /\ outcome' # "answered"
    BY <1>4, SendEffect
  <2>2. turn'.pc # "idle" => k \in tr'.streams
    BY <1>4, <2>1, SendEffect
  <2>3. stream[k].done = FALSE
    BY <1>1, <2>1, Shape DEF FreshInv, Drained
  <2>4. QED
    BY <2>1, <2>2, <2>3 DEF DoneInv, Waiting
<1>5. ASSUME Consume PROVE DoneInv'
  <2> DEFINE k == turn.sent
  <2>1. /\ turn' = turn /\ turn.pc # "idle" /\ UNCHANGED <<harness, tr, flight, outcome>>
        /\ Kept /\ Follows
        /\ stream'[k].done = stream[k].done /\ stream'[k].ok = stream[k].ok
        /\ Len(stream[k].events) \in Nat /\ Len(got) \in Nat
        /\ Len(stream'[k].events) = Len(stream[k].events) - 1 /\ Len(got') = Len(got) + 1
    BY <1>1, <1>5, ConsumeEffect, Shape
  <2>2. Len(got') + Len(stream'[k].events) = Len(got) + Len(stream[k].events) /\ turn'.sent = k
    <3>1. \A a, b, c, d : a \in Nat /\ b \in Nat /\ c = a - 1 /\ d = b + 1 => d + c = b + a
      OBVIOUS
    <3>2. turn'.sent = k
      BY <2>1
    <3>3. /\ Len(stream[k].events) \in Nat /\ Len(got) \in Nat
          /\ Len(stream'[k].events) = Len(stream[k].events) - 1 /\ Len(got') = Len(got) + 1
      BY <2>1
    <3>4. QED
      BY <3>1, <3>2, <3>3
  <2>3. Taken' = Taken /\ (Paired' => Paired) /\ (InTime' => InTime) /\ Waiting' = stream'[k]
    BY <2>1, <2>2, PairedKept DEF Taken, Waiting
  <2>4. QED
    BY <1>1, <2>1, <2>3 DEF DoneInv, Waiting, Kept
<1>6. ASSUME Park PROVE DoneInv'
  BY <1>1, <1>6, ParkEffect, PairedKept DEF DoneInv, Taken, Waiting, Kept
<1>7. ASSUME Wake PROVE DoneInv'
  <2>1. /\ turn'.sent = turn.sent /\ (turn'.pc = "idle" <=> turn.pc = "idle")
        /\ UNCHANGED <<harness, got, outcome>> /\ Follows
    BY <1>1, <1>7, WakeEffect DEF Kept
  <2>2. /\ stream'[turn.sent].events = stream[turn.sent].events
        /\ stream'[turn.sent].done = stream[turn.sent].done
        /\ stream'[turn.sent].ok = stream[turn.sent].ok
        /\ turn.sent \in tr'.streams <=> turn.sent \in tr.streams
    BY <1>1, <1>7, WakeEffect DEF Kept
  <2>3. turn.sent \in Sends /\ flight[turn.sent].state = "over" =>
          /\ flight'[turn.sent].state = "over"
          /\ InTime' => flight'[turn.sent].n = flight[turn.sent].n
          /\ InTime' /\ (\A p \in Events : fromB[p].ev.run # turn.sent) =>
               \A p \in Events' : fromB'[p].ev.run # turn.sent
    BY <1>1, <1>7, WakeEffect DEF Kept
  <2>4. QED
    BY <1>1, <2>1, <2>2, <2>3, DoneStill
<1>8. ASSUME Answer PROVE DoneInv'
  BY <1>1, <1>8, ReturnEffect, PairedKept DEF DoneInv, Taken, Waiting, Kept
<1>9. ASSUME Cut PROVE DoneInv'
  BY <1>1, <1>9, ReturnEffect, PairedKept DEF DoneInv, Taken, Waiting, Kept
<1>10. ASSUME NEW k \in Sends, StopCall(k) PROVE DoneInv'
  <2>1. /\ turn'.sent = turn.sent /\ (turn'.pc = "idle" <=> turn.pc = "idle")
        /\ UNCHANGED <<harness, got, outcome>> /\ Follows
    BY <1>1, <1>10, StopCallEffect DEF Kept
  <2>2. /\ stream'[turn.sent].events = stream[turn.sent].events
        /\ stream'[turn.sent].done = stream[turn.sent].done
        /\ stream'[turn.sent].ok = stream[turn.sent].ok
        /\ turn.sent \in tr'.streams <=> turn.sent \in tr.streams
    BY <1>1, <1>10, StopCallEffect DEF Kept
  <2>3. turn.sent \in Sends /\ flight[turn.sent].state = "over" =>
          /\ flight'[turn.sent].state = "over"
          /\ InTime' => flight'[turn.sent].n = flight[turn.sent].n
          /\ InTime' /\ (\A p \in Events : fromB[p].ev.run # turn.sent) =>
               \A p \in Events' : fromB'[p].ev.run # turn.sent
    <3>1. \A j \in Sends : flight'[j].n = flight[j].n
      BY <1>10, StopCallEffect
    <3>2. \A j \in Sends : flight[j].state = "over" => flight'[j].state = "over"
      BY <1>10, StopCallEffect
    <3>3. Events' = Events /\ \A p \in Events : fromB'[p] = fromB[p]
      BY <1>10, StopCallEffect DEF Kept
    <3>4. QED
      BY <3>1, <3>2, <3>3
  <2>4. QED
    BY <1>1, <2>1, <2>2, <2>3, DoneStill
<1>11. ASSUME NEW k \in Sends, StopTimesOut(k) PROVE DoneInv'
  <2>1. /\ turn'.sent = turn.sent /\ (turn'.pc = "idle" <=> turn.pc = "idle")
        /\ UNCHANGED <<harness, got, outcome>> /\ Follows
    BY <1>1, <1>11, StopTimesOutEffect DEF Kept
  <2>2. /\ stream'[turn.sent].events = stream[turn.sent].events
        /\ stream'[turn.sent].done = stream[turn.sent].done
        /\ stream'[turn.sent].ok = stream[turn.sent].ok
        /\ turn.sent \in tr'.streams <=> turn.sent \in tr.streams
    BY <1>1, <1>11, StopTimesOutEffect DEF Kept
  <2>3. turn.sent \in Sends /\ flight[turn.sent].state = "over" =>
          /\ flight'[turn.sent].state = "over"
          /\ InTime' => flight'[turn.sent].n = flight[turn.sent].n
          /\ InTime' /\ (\A p \in Events : fromB[p].ev.run # turn.sent) =>
               \A p \in Events' : fromB'[p].ev.run # turn.sent
    BY <1>1, <1>11, StopTimesOutEffect DEF Kept
  <2>4. QED
    BY <1>1, <2>1, <2>2, <2>3, DoneStill
<1>12. ASSUME NEW k \in Sends, ProviderEvent(k) PROVE DoneInv'
  <2>1. /\ turn'.sent = turn.sent /\ (turn'.pc = "idle" <=> turn.pc = "idle")
        /\ UNCHANGED <<harness, got, outcome>> /\ Follows
    BY <1>1, <1>12, ProviderEventEffect
  <2>2. /\ stream'[turn.sent].events = stream[turn.sent].events
        /\ stream'[turn.sent].done = stream[turn.sent].done
        /\ stream'[turn.sent].ok = stream[turn.sent].ok
        /\ turn.sent \in tr'.streams <=> turn.sent \in tr.streams
    BY <1>1, <1>12, ProviderEventEffect
  <2>3. turn.sent \in Sends /\ flight[turn.sent].state = "over" =>
          /\ flight'[turn.sent].state = "over"
          /\ InTime' => flight'[turn.sent].n = flight[turn.sent].n
          /\ InTime' /\ (\A p \in Events : fromB[p].ev.run # turn.sent) =>
               \A p \in Events' : fromB'[p].ev.run # turn.sent
    BY <1>1, <1>12, ProviderEventEffect
  <2>4. QED
    BY <1>1, <2>1, <2>2, <2>3, DoneStill
<1>13. ASSUME NEW k \in Sends, NEW ok \in BOOLEAN, ProviderEnds(k, ok) PROVE DoneInv'
  <2>1. /\ turn'.sent = turn.sent /\ (turn'.pc = "idle" <=> turn.pc = "idle")
        /\ UNCHANGED <<harness, got, outcome>> /\ Follows
    BY <1>1, <1>13, ProviderEndsEffect
  <2>2. /\ stream'[turn.sent].events = stream[turn.sent].events
        /\ stream'[turn.sent].done = stream[turn.sent].done
        /\ stream'[turn.sent].ok = stream[turn.sent].ok
        /\ turn.sent \in tr'.streams <=> turn.sent \in tr.streams
    BY <1>1, <1>13, ProviderEndsEffect
  <2>3. turn.sent \in Sends /\ flight[turn.sent].state = "over" =>
          /\ flight'[turn.sent].state = "over"
          /\ InTime' => flight'[turn.sent].n = flight[turn.sent].n
          /\ InTime' /\ (\A p \in Events : fromB[p].ev.run # turn.sent) =>
               \A p \in Events' : fromB'[p].ev.run # turn.sent
    BY <1>1, <1>13, ProviderEndsEffect
  <2>4. QED
    BY <1>1, <2>1, <2>2, <2>3, DoneStill
<1>14. ASSUME NEW k \in Sends, WriteResult(k) PROVE DoneInv'
  <2>1. /\ turn'.sent = turn.sent /\ (turn'.pc = "idle" <=> turn.pc = "idle")
        /\ UNCHANGED <<harness, got, outcome>> /\ Follows
    BY <1>1, <1>14, WriteResultEffect
  <2>2. /\ stream'[turn.sent].events = stream[turn.sent].events
        /\ stream'[turn.sent].done = stream[turn.sent].done
        /\ stream'[turn.sent].ok = stream[turn.sent].ok
        /\ turn.sent \in tr'.streams <=> turn.sent \in tr.streams
    BY <1>1, <1>14, WriteResultEffect
  <2>3. turn.sent \in Sends /\ flight[turn.sent].state = "over" =>
          /\ flight'[turn.sent].state = "over"
          /\ InTime' => flight'[turn.sent].n = flight[turn.sent].n
          /\ InTime' /\ (\A p \in Events : fromB[p].ev.run # turn.sent) =>
               \A p \in Events' : fromB'[p].ev.run # turn.sent
    BY <1>1, <1>14, WriteResultEffect
  <2>4. QED
    BY <1>1, <2>1, <2>2, <2>3, DoneStill
<1>15. ASSUME Dispatch PROVE DoneInv'
  <2>1. CASE Buffers
    <3>1. /\ turn.pc # "idle" /\ turn.sent \in tr.streams /\ UNCHANGED tr
          /\ stream'[turn.sent].done = stream[turn.sent].done
      BY <2>1 DEF Buffers
    <3>2. UNCHANGED <<turn, outcome>>
      BY <1>15, DispatchEffect
    <3>3. QED
      BY <1>1, <3>1, <3>2 DEF DoneInv, Waiting
  <2>2. CASE Drops \/ Forgets \/ Releases
    <3>1. UNCHANGED <<harness, turn, got, outcome, flight>> /\ Follows
      BY <1>15, DispatchEffect
    <3>2. \A p \in Events' : p + 1 \in Events /\ fromB'[p] = fromB[p + 1]
      BY <1>15, DispatchEffect
    <3>3. UNCHANGED stream
      BY <2>2 DEF Drops, Forgets, Releases
    <3>4. turn.pc # "idle" => (turn.sent \in tr'.streams <=> turn.sent \in tr.streams)
      BY <2>2 DEF Drops, Forgets, Releases
    <3>5. Taken' = Taken /\ (Paired' => Paired) /\ (InTime' => InTime) /\ Waiting' = Waiting
      BY <3>1, <3>3, PairedKept DEF Taken, Waiting
    <3>6. QED
      BY <1>1, <3>1, <3>2, <3>4, <3>5 DEF DoneInv
  <2>3. CASE Finishes
    BY <1>1, <1>15, <2>3, FinishedDone
  <2>4. QED
    BY <1>15, <2>1, <2>2, <2>3, DispatchEffect
<1>16. ASSUME ReaderEnds PROVE DoneInv'
  <2>1. /\ UNCHANGED <<harness, turn, got, outcome>> /\ Follows
        /\ tr'.streams = {}
        /\ \A j \in Sends : /\ stream'[j].events = stream[j].events
                            /\ stream'[j] = stream[j] \/ ~stream'[j].ok
                            /\ Drained(j) => stream'[j].done
    BY <1>16, ShutdownEffect DEF ReaderEnds, bridgeVars, Follows, OnTime
  <2>2. /\ Events' = Events /\ \A p \in Events : fromB'[p] = fromB[p]
        /\ \A j \in Sends : flight[j].state = "over" =>
             flight'[j].state = "over" /\ flight'[j].n = flight[j].n
    BY <1>16, KeptUnread DEF Kept, ReaderEnds, bridgeVars
  <2>3. /\ (Paired' => Paired) /\ (InTime' => InTime) /\ Waiting' = stream'[turn.sent]
        /\ turn.sent \in Sends => Taken' = Taken
    BY <2>1, PairedKept DEF Taken, Waiting
  <2>4. turn.pc # "idle" =>
          /\ turn.sent \in Sends /\ Waiting'.done
          /\ Waiting'.ok => Waiting' = Waiting
    BY <1>1, <2>1, <2>3 DEF DoneInv, Drained, Waiting
  <2>5. QED
    BY <1>1, <2>1, <2>2, <2>3, <2>4 DEF DoneInv
<1>17. ASSUME CloseClient PROVE DoneInv'
  <2>1. /\ UNCHANGED <<harness, turn, got, outcome>> /\ Follows
        /\ tr'.streams = {}
        /\ \A j \in Sends : /\ stream'[j].events = stream[j].events
                            /\ stream'[j] = stream[j] \/ ~stream'[j].ok
                            /\ Drained(j) => stream'[j].done
    BY <1>17, ShutdownEffect, GoneEffect DEF CloseClient, Follows
  <2>2. /\ Events' = Events /\ \A p \in Events : fromB'[p] = fromB[p]
        /\ \A j \in Sends : flight[j].state = "over" =>
             flight'[j].state = "over" /\ flight'[j].n = flight[j].n
    BY <1>17, GoneEffect DEF Kept, CloseClient
  <2>3. /\ (Paired' => Paired) /\ (InTime' => InTime) /\ Waiting' = stream'[turn.sent]
        /\ turn.sent \in Sends => Taken' = Taken
    BY <2>1, PairedKept DEF Taken, Waiting
  <2>4. turn.pc # "idle" =>
          /\ turn.sent \in Sends /\ Waiting'.done
          /\ Waiting'.ok => Waiting' = Waiting
    BY <1>1, <2>1, <2>3 DEF DoneInv, Drained, Waiting
  <2>5. QED
    BY <1>1, <2>1, <2>2, <2>3, <2>4 DEF DoneInv
<1>18. ASSUME Dies PROVE DoneInv'
  <2>1. /\ turn'.sent = turn.sent /\ (turn'.pc = "idle" <=> turn.pc = "idle")
        /\ UNCHANGED <<harness, got, outcome>> /\ Follows
    BY <1>1, <1>18, GoneEffect, CutKept DEF Dies, runtimeVars, Kept
  <2>2. /\ stream'[turn.sent].events = stream[turn.sent].events
        /\ stream'[turn.sent].done = stream[turn.sent].done
        /\ stream'[turn.sent].ok = stream[turn.sent].ok
        /\ turn.sent \in tr'.streams <=> turn.sent \in tr.streams
    BY <1>1, <1>18, GoneEffect, CutKept DEF Dies, runtimeVars, Kept
  <2>3. turn.sent \in Sends /\ flight[turn.sent].state = "over" =>
          /\ flight'[turn.sent].state = "over"
          /\ InTime' => flight'[turn.sent].n = flight[turn.sent].n
          /\ InTime' /\ (\A p \in Events : fromB[p].ev.run # turn.sent) =>
               \A p \in Events' : fromB'[p].ev.run # turn.sent
    BY <1>1, <1>18, GoneEffect, CutKept DEF Dies, runtimeVars, Kept
  <2>4. QED
    BY <1>1, <2>1, <2>2, <2>3, DoneStill
<1>19. CASE UNCHANGED <<turn, stream, tr, flight, fromB, harness, stopper, got,
                         outcome>>
  <2>1. /\ turn'.sent = turn.sent /\ (turn'.pc = "idle" <=> turn.pc = "idle")
        /\ UNCHANGED <<harness, got, outcome>> /\ Follows
    BY <1>1, <1>19, KeptUnread, CutKept DEF Kept
  <2>2. /\ stream'[turn.sent].events = stream[turn.sent].events
        /\ stream'[turn.sent].done = stream[turn.sent].done
        /\ stream'[turn.sent].ok = stream[turn.sent].ok
        /\ turn.sent \in tr'.streams <=> turn.sent \in tr.streams
    BY <1>1, <1>19, KeptUnread, CutKept DEF Kept
  <2>3. turn.sent \in Sends /\ flight[turn.sent].state = "over" =>
          /\ flight'[turn.sent].state = "over"
          /\ InTime' => flight'[turn.sent].n = flight[turn.sent].n
          /\ InTime' /\ (\A p \in Events : fromB[p].ev.run # turn.sent) =>
               \A p \in Events' : fromB'[p].ev.run # turn.sent
    BY <1>1, <1>19, KeptUnread, CutKept DEF Kept
  <2>4. QED
    BY <1>1, <2>1, <2>2, <2>3, DoneStill
<1>20. QED
  BY <1>2, <1>3, <1>4, <1>5, <1>6, <1>7, <1>8, <1>9, <1>10, <1>11, <1>12, <1>13,
     <1>15, <1>16, <1>17, <1>18, <1>19, <1>14, ZenonT(40) DEF Next, vars, bridgeVars, Tick,
     OnIdle, CallerStops, runtimeVars

-----------------------------------------------------------------------------
\* Nothing has been sent.
LEMMA BridgeInit == Init => TypeOK /\ BridgeInv
<1> SUFFICES ASSUME Init PROVE TypeOK /\ BridgeInv
  OBVIOUS
<1>1. NewStream \in Streams /\ NewWatchdog \in Watchdogs /\ NoHandle \in Handles
  BY BridgeBounds, EmptySeq DEF NewStream, Streams, NewWatchdog, Watchdogs, NoHandle, Handles
<1>2. /\ tr \in Transports /\ turn \in Turns
      /\ NewFlight \in Flights
  BY BridgeBounds DEF Init, Transports, Turns, Flights, NewFlight, FlightStates
<1>3. TypeOK
  <2>1. harness \in Harnesses /\ alive \in BOOLEAN /\ ctx \in {"live", "idle", "stopped"}
    BY DEF Init
  <2>2. stream \in [Sends -> Streams] /\ handle \in Handles /\ wd \in Watchdogs
    BY <1>1 DEF Init
  <2>3. flight \in [Sends -> Flights] /\ stopper \in [Sends -> {"none", "begin", "called", "done"}]
    BY <1>2 DEF Init
  <2>4. /\ fromB \in Seq(Message) /\ got \in Seq(Event) /\ quiet \in 0 .. Idle
        /\ outcome \in {"none", "answered", "failed", "cut"}
    BY EmptySeq, BridgeBounds DEF Init
  <2>5. QED
    BY <1>2, <2>1, <2>2, <2>3, <2>4 DEF TypeOK
<1>4. /\ turn.pc = "idle" /\ turn.sent = 0 /\ tr.state = "none"
      /\ tr.pending = {} /\ tr.streams = {} /\ got = <<>> /\ fromB = <<>> /\ outcome = "none"
      /\ wd = NewWatchdog /\ ctx = "live" /\ quiet = 0
      /\ \A k \in Sends : /\ stopper[k] = "none" /\ stream[k] = NewStream
                          /\ flight[k].state = "none" /\ flight[k].n = 0 /\ ~flight[k].late
  BY DEF Init, NewFlight
<1>5. Events = {} /\ Results = {}
  BY <1>4 DEF Events, Results
<1>6. FreshInv /\ ResultInv /\ SettledInv /\ TransportInv /\ DoneInv
  BY <1>4, <1>5 DEF FreshInv, Drained, ResultInv, SettledInv, TransportInv, DoneInv
<1>7. OwnerInv
  BY <1>4, <1>5 DEF OwnerInv
<1>8. StreamInv
  BY <1>4 DEF StreamInv, InOrder
<1>9. WatchInv
  BY <1>4, BridgeBounds DEF WatchInv, NewWatchdog
<1>10. QED
  BY <1>3, <1>6, <1>7, <1>8, <1>9 DEF BridgeInv

\* Every reachable state is typed, and what the caller was handed, what its
\* stream buffers and what the child's pipe holds of the current run are, one
\* after the other, the events the run produced, whatever the caller, the
\* watchdog, the reader, the stopping goroutines and the child do, and in
\* whatever order.  In cline that is so until a wait on the handle ends without
\* a result or an event lands after its run's call was over (Paired); a result
\* is the last the child writes of its run only while events are in time.
THEOREM BridgeInvariant == Spec => [](TypeOK /\ BridgeInv)
<1>1. TypeOK /\ BridgeInv /\ [Next]_vars => (TypeOK /\ BridgeInv)'
  BY TypeStep, WatchStep, TransportStep, FreshStep, ResultStep, SettledStep, OwnerStep,
     StreamStep, DoneStep DEF BridgeInv
<1>2. QED
  BY BridgeInit, <1>1, PTL DEF Spec

\* Every variable of the session keeps its type (Bridge.TypeOK): the routing
\* table names prompts that exist and every message is one of the protocol's.
THEOREM BridgeTypes == Spec => []TypeOK
  BY BridgeInvariant, PTL

\* WaitStream hands its caller the events of its own run, in order and with none
\* missing by the time it answers: in codex always, in cline as long as no
\* earlier wait on the handle ended without a result and no event landed after
\* send() had resolved, when bridge.mjs drops it or writes it for the next prompt.
THEOREM OwnEventsHolds == Spec => []OwnEvents
<1>1. TypeOK /\ BridgeInv => OwnEvents
  <2> SUFFICES ASSUME TypeOK, BridgeInv, Paired
               PROVE  /\ \A i \in 1 .. Len(got) : got[i] = [run |-> turn.sent, n |-> i]
                      /\ outcome = "answered" => Len(got) = flight[turn.sent].n
    BY DEF OwnEvents, Paired
  <2>1. \A i \in 1 .. Len(got) : got[i] = [run |-> turn.sent, n |-> i]
    BY DEF BridgeInv, StreamInv, InOrder
  <2>2. outcome = "answered" => Len(got) = flight[turn.sent].n
    BY DEF BridgeInv, DoneInv
  <2>3. QED
    BY <2>1, <2>2
<1>2. QED
  BY <1>1, BridgeInvariant, PTL

\* Once transport.shutdown has run, whoever was waiting knows: the run being
\* drained is done and no stop call is outstanding.
THEOREM ClosedIsKnownHolds == Spec => []ClosedIsKnown
<1>1. TypeOK /\ BridgeInv => ClosedIsKnown
  BY DEF BridgeInv, TransportInv, DoneInv, ClosedIsKnown
<1>2. QED
  BY <1>1, BridgeInvariant, PTL

\* The watchdog cancels the turn's context only when the caller has seen nothing
\* for the whole idle time, even if its timer fires while an event is taken.
THEOREM CutOnlyWhenQuietHolds == Spec => CutOnlyWhenQuiet
<1>1. TypeOK /\ BridgeInv /\ [Next]_vars => [ctx = "live" /\ ctx' = "idle" => quiet = Idle]_vars
  <2> SUFFICES ASSUME TypeOK, BridgeInv, [Next]_vars, ctx = "live", ctx' = "idle"
               PROVE  quiet = Idle
    OBVIOUS
  <2>1. OnIdle
    <3>1. CASE Answer \/ Cut \/ CallerStops
      BY <3>1 DEF Answer, Cut, Return, CallerStops
    <3>2. CASE ~(Answer \/ Cut \/ CallerStops)
      <4>1. OnIdle \/ ctx' = ctx
        BY <3>2, ZenonT(40) DEF Next, vars, bridgeVars, runtimeVars, Start, NotReady, Send, Consume,
           Park, Wake, Tick, StopCall, StopTimesOut, ProviderEvent, ProviderEnds, WriteResult,
           Dispatch, ReaderEnds, CloseClient, Shutdown, Dies
      <4>2. QED
        BY <4>1
    <3>3. QED
      BY <3>1, <3>2
  <2>2. wd.left = 0
    BY <2>1 DEF OnIdle, GoneIdle
  <2>3. quiet >= Idle
    BY <2>2, BridgeBounds DEF BridgeInv, WatchInv, TypeOK
  <2>4. QED
    BY <2>3, BridgeBounds DEF TypeOK
<1>2. QED
  BY <1>1, BridgeInvariant, PTL DEF Spec, CutOnlyWhenQuiet

-----------------------------------------------------------------------------
(* A cursor prompt *)

\* What the wait knows of the provider's runs.
ActiveIsOwn ==
  /\ run.known => active \subseteq {run.id}
  /\ sendStream = "open" => active \subseteq {run.id}
  /\ sendStream = "refused" => ~run.known
  /\ pc \in {"waitLive", "release", "clear"} => ~run.terminal

\* The inductive invariant of a cursor prompt.
CursorInv == CursorTypeOK /\ ActiveIsOwn /\ ResultKept /\ NothingLeftActive

\* What a send leaves behind: its stream is open and the run is the agent's only
\* one, or it is refused, or the call failed and there is no stream.
LEMMA SendTyped ==
  ASSUME CursorTypeOK, NEW try \in 1 .. 2, NEW busy \in SUBSET Runs, SendOnce(try, busy)
  PROVE  /\ active' \subseteq Runs /\ unlisted' \subseteq Runs /\ attempt' = try
         /\ run' \in [id : 0 .. MaxRuns, known : BOOLEAN, terminal : BOOLEAN]
         /\ ~run'.known /\ ~run'.terminal
         /\ \/ /\ pc' = "consume" /\ result' = "none" /\ sendStream' \in {"open", "refused"}
               /\ sendStream' = "open" => active' = {run'.id}
            \/ sendStream' = "none" /\ pc' = "idle" /\ result' = "unsent"
            \/ sendStream' = "none" /\ pc' = "clear" /\ result' = "none"
            \/ sendStream' = "none" /\ pc' = "idle" /\ result' = "refused" /\ try = 2 /\ active' = busy
<1> DEFINE k == run.id + 1
<1>1. k \in Runs /\ k \in 0 .. MaxRuns /\ unlisted \subseteq Runs
  BY CursorAssumption DEF SendOnce, CursorTypeOK, Runs
<1>2. run' = [id |-> k, known |-> FALSE, terminal |-> FALSE] BY DEF SendOnce
<1>3. /\ run'.id = k /\ run' \in [id : 0 .. MaxRuns, known : BOOLEAN, terminal : BOOLEAN]
      /\ ~run'.known /\ ~run'.terminal
  BY <1>1, <1>2
<1>4. attempt' = try BY DEF SendOnce
<1>5. CASE StreamOpened(k, busy)
  <2>1. CASE busy = {}
    <3>1. active' = {k} /\ unlisted' = {k} /\ sendStream' = "open" BY <1>5, <2>1 DEF StreamOpened
    <3>2. QED BY <1>1, <1>3, <1>4, <1>5, <3>1 DEF StreamOpened, To
  <2>2. CASE busy # {}
    <3>1. active' = busy /\ unlisted' = unlisted /\ sendStream' = "refused"
      BY <1>5, <2>2 DEF StreamOpened
    <3>2. QED BY <1>1, <1>3, <1>4, <1>5, <3>1 DEF StreamOpened, To
  <2>3. QED BY <2>1, <2>2
<1>6. CASE SendFails(k, try, busy)
  <2>1. active' \subseteq Runs /\ unlisted' \subseteq Runs BY <1>1, <1>6 DEF SendFails
  <2>2. QED BY <1>3, <1>4, <1>6, <2>1 DEF SendFails, To
<1>7. StreamOpened(k, busy) \/ SendFails(k, try, busy) BY DEF SendOnce
<1>8. QED BY <1>5, <1>6, <1>7

\* Nothing is active before the first prompt.
LEMMA CursorInitially == CursorInit => CursorInv
<1> SUFFICES ASSUME CursorInit PROVE CursorInv OBVIOUS
<1> USE DEF CursorInit
<1>1. 0 \in 0 .. MaxRuns /\ 1 \in 1 .. 2 BY CursorAssumption
<1>2. run.id = 0 /\ ~run.known /\ ~run.terminal OBVIOUS
<1>3. CursorTypeOK BY <1>1 DEF CursorTypeOK
<1>4. ActiveIsOwn /\ ResultKept /\ NothingLeftActive
  BY <1>2 DEF ActiveIsOwn, ResultKept, NothingLeftActive
<1>5. QED BY <1>3, <1>4 DEF CursorInv

\* Every step keeps what the wait knows of the provider's runs.
LEMMA CursorStep == CursorInv /\ [CursorNext]_cursorVars => CursorInv'
<1> SUFFICES ASSUME CursorInv, [CursorNext]_cursorVars PROVE CursorInv' OBVIOUS
<1> USE CursorAssumption DEF CursorInv, CursorTypeOK, ActiveIsOwn, ResultKept, NothingLeftActive
<1>1. CASE Ensure BY <1>1 DEF Ensure, listing, cursorHistory
<1>2. CASE AttachAgent BY <1>2 DEF AttachAgent, listing, cursorHistory
<1>3. CASE Prompt
  <2>1. SendOnce(1, active) /\ 1 \in 1 .. 2 /\ active \in SUBSET Runs BY <1>3 DEF Prompt
  <2>2. /\ active' \subseteq Runs /\ unlisted' \subseteq Runs /\ attempt' = 1
        /\ run' \in [id : 0 .. MaxRuns, known : BOOLEAN, terminal : BOOLEAN]
        /\ ~run'.known /\ ~run'.terminal
        /\ \/ /\ pc' = "consume" /\ result' = "none" /\ sendStream' \in {"open", "refused"}
              /\ sendStream' = "open" => active' = {run'.id}
           \/ sendStream' = "none" /\ pc' = "idle" /\ result' = "unsent"
           \/ sendStream' = "none" /\ pc' = "clear" /\ result' = "none"
    BY <2>1, SendTyped
  <2>3. /\ live' \in BOOLEAN /\ missed' \in BOOLEAN /\ overlooked' \subseteq Runs
        /\ UNCHANGED <<ready, agent, ended>>
    BY <1>3 DEF Prompt
  <2>4. CursorTypeOK' BY <2>2, <2>3
  <2>5. ActiveIsOwn' BY <2>2
  <2>6. ResultKept' /\ NothingLeftActive' BY <2>2
  <2>7. QED BY <2>4, <2>5, <2>6
<1>4. CASE ProviderFinishes BY <1>4 DEF ProviderFinishes, cursorHistory
<1>5. CASE Receive BY <1>5 DEF Receive, listing, cursorHistory
<1>6. CASE StreamDrops BY <1>6 DEF StreamDrops, listing, cursorHistory
<1>7. CASE ContextEnds
  <2>1. pc # "idle" /\ live' = FALSE /\ UNCHANGED <<ready, agent, active, ended, run, sendStream>>
    BY <1>7 DEF ContextEnds
  <2>2. UNCHANGED <<pc, attempt, result, unlisted, missed, overlooked>>
    BY <1>7 DEF ContextEnds, listing, cursorHistory
  <2>3. run' \in [id : 0 .. MaxRuns, known : BOOLEAN, terminal : BOOLEAN] /\ live' \in BOOLEAN
    BY <2>1
  <2>4. CursorTypeOK' BY <2>1, <2>2, <2>3
  <2>5. ActiveIsOwn' /\ ResultKept' /\ NothingLeftActive' BY <2>1, <2>2
  <2>6. QED BY <2>4, <2>5
<1>8. CASE WaitStream BY <1>8 DEF WaitStream, To, HasResult, listing, cursorHistory
<1>9. CASE WaitLive
  <2>1. /\ pc = "waitLive" /\ UNCHANGED <<ready, agent, active, ended, sendStream, attempt>>
        /\ UNCHANGED <<live, unlisted, missed, overlooked>>
    BY <1>9 DEF WaitLive, listing, cursorHistory
  <2>2. \/ run' = [run EXCEPT !.terminal = TRUE] /\ pc' = "idle" /\ result' = "finished"
        \/ ~live /\ run' = run /\ pc' = "release" /\ result' = result
        \/ live /\ run' = run /\ pc' = "idle" /\ result' = "lost"
    BY <1>9 DEF WaitLive, To
  <2>3. /\ run' \in [id : 0 .. MaxRuns, known : BOOLEAN, terminal : BOOLEAN]
        /\ run'.id = run.id /\ (run'.known <=> run.known)
    BY <2>2
  <2>4. CursorTypeOK' BY <2>1, <2>2, <2>3
  <2>5. ActiveIsOwn' BY <2>1, <2>2, <2>3
  <2>6. ResultKept' /\ NothingLeftActive' BY <2>1, <2>2, <2>3
  <2>7. QED BY <2>4, <2>5, <2>6
<1>10. CASE ReleaseProviderRun
  <2>1. PICK ok \in BOOLEAN : /\ active' = IF ok THEN active \ Released ELSE active
                              /\ missed' = (missed \/ ~ok)
    BY <1>10 DEF ReleaseProviderRun
  <2>2. /\ pc = "release" /\ UNCHANGED <<ready, agent, ended, run, sendStream, attempt, live, unlisted>>
        /\ overlooked' = IF run.known THEN overlooked ELSE overlooked \cup (active \cap unlisted)
        /\ \/ pc' = "clear" /\ result' = result
           \/ pc' = "idle" /\ result' \in {"refused", "cancelled"}
    BY <1>10 DEF ReleaseProviderRun, To, Overlook
  <2>3. ok => active' \subseteq overlooked'
    BY <2>1, <2>2 DEF Released, ActiveRuns
  <2>4. active' \subseteq active /\ overlooked' \subseteq Runs /\ missed' \in BOOLEAN
    BY <2>1, <2>2
  <2>5. CursorTypeOK' BY <2>2, <2>4
  <2>6. ActiveIsOwn' /\ ResultKept' BY <2>2, <2>4
  <2>7. active' \subseteq overlooked' \/ missed' BY <2>1, <2>3
  <2>8. QED BY <2>5, <2>6, <2>7
<1>11. CASE RetryOnce
  <2>1. CASE SendOnce(2, active \ ActiveRuns) /\ Overlook /\ UNCHANGED missed
    <3>1. active \ ActiveRuns \in SUBSET Runs /\ 2 \in 1 .. 2
      OBVIOUS
    <3>2. /\ active' \subseteq Runs /\ unlisted' \subseteq Runs /\ attempt' = 2
          /\ run' \in [id : 0 .. MaxRuns, known : BOOLEAN, terminal : BOOLEAN]
          /\ ~run'.known /\ ~run'.terminal
          /\ \/ /\ pc' = "consume" /\ result' = "none" /\ sendStream' \in {"open", "refused"}
                /\ sendStream' = "open" => active' = {run'.id}
             \/ sendStream' = "none" /\ pc' = "idle" /\ result' = "unsent"
             \/ sendStream' = "none" /\ pc' = "clear" /\ result' = "none"
             \/ /\ sendStream' = "none" /\ pc' = "idle" /\ result' = "refused"
                /\ active' = active \ ActiveRuns
      BY <2>1, <3>1, SendTyped
    <3>3. /\ UNCHANGED <<ready, agent, ended, live, missed>>
          /\ overlooked' = overlooked \cup (active \cap unlisted)
      BY <1>11, <2>1 DEF RetryOnce, Overlook
    <3>4. active \ ActiveRuns \subseteq overlooked' BY <3>3 DEF ActiveRuns
    <3>5. CursorTypeOK' BY <3>2, <3>3
    <3>6. ActiveIsOwn' BY <3>2
    <3>7. ResultKept' /\ NothingLeftActive' BY <3>2, <3>4
    <3>8. QED BY <3>5, <3>6, <3>7
  <2>2. CASE /\ To("idle", "refused") /\ missed' = TRUE
             /\ UNCHANGED <<active, unlisted, overlooked, run, sendStream, attempt>>
    BY <1>11, <2>2 DEF RetryOnce, To
  <2>3. QED BY <1>11, <2>1, <2>2 DEF RetryOnce
<1>12. CASE DisposeAgent BY <1>12 DEF DisposeAgent, ActiveRuns, listing, cursorHistory
<1>13. CASE ProviderLists BY <1>13 DEF ProviderLists, cursorHistory
<1>14. CASE UNCHANGED cursorVars BY <1>14 DEF cursorVars, listing, cursorHistory
<1>15. QED
  BY <1>1, <1>2, <1>3, <1>4, <1>5, <1>6, <1>7, <1>8, <1>9, <1>10, <1>11, <1>12, <1>13, <1>14
     DEF CursorNext

\* A cursor prompt given up, by its context or to a refusal, leaves no run
\* active at the provider for the next one to be refused by, unless a cancel
\* failed or ListRuns, asked what to cancel, did not name the run yet; the
\* attempts of a prompt and the order in which stream, watchdog and provider
\* end do not matter.  Of a prompt whose Send call failed it says nothing: that
\* prompt releases no run.
THEOREM GivenUpLeavesNothing == CursorSpec => []NothingLeftActive
<1>1. CursorInv => NothingLeftActive BY DEF CursorInv
<1>2. QED BY <1>1, CursorInitially, CursorStep, PTL DEF CursorSpec

\* A result that reached WaitStream is what the prompt returns, although the
\* watchdog or a dropped stream races it.
THEOREM ResultIsKept == CursorSpec => []ResultKept
<1>1. CursorInv => ResultKept BY DEF CursorInv
<1>2. QED BY <1>1, CursorInitially, CursorStep, PTL DEF CursorSpec
=============================================================================
