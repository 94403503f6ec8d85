----------------------------- MODULE LLMTrace -----------------------------
(***************************************************************************)
(* The trace of an LLM run on the postgres engine: what a run says is      *)
(* folded into messages and written while it streams, the raw events too   *)
(* when they are kept, and the run is closed by a derivation from what the *)
(* store has. Every write is best effort.                                  *)
(***************************************************************************)
EXTENDS PostgresStore

CONSTANTS
  llmEventFlushSize,   \* events buffered before a flush
  MaxLost              \* writes that fail (a bound)

ASSUME TraceAssumption == llmEventFlushSize \in Nat \ {0} /\ MaxLost \in Nat

VARIABLES
  trace,    \* [client -> its trace]
  lost

traceVars == <<port, db, call, faults, seen, reader, replica, trace, lost>>

\* events: raw events are kept; said: the stream so far; buf: not flushed.
\* unsaid, unkept, behind, failed: what went wrong on the way.
Inert == [active |-> FALSE, events |-> FALSE, said |-> <<>>, buf |-> <<>>, aggregator |-> Empty, turn |-> 0,
          reply |-> 0, unsaid |-> FALSE, unkept |-> FALSE, behind |-> FALSE, failed |-> FALSE]

Fails(n) == lost' = lost + n /\ lost' <= MaxLost

BeginLLMTraceFrom(c) ==
  /\ BeginReasonTurn(c)
  /\ \E on \in BOOLEAN :
       trace' = [trace EXCEPT ![c] = [Inert EXCEPT !.active = TRUE, !.events = on, !.turn = call'[c].turn]]
  /\ UNCHANGED lost

flush(d, t, ok) ==
  IF t.buf = <<>> \/ ~ok THEN d ELSE AppendLLMEvents(d, t.turn, Len(t.said) - Len(t.buf), t.buf)

\* mutant: only the message an event belongs to is written
LastOnly(d, t, out, ok) ==
  IF ~ok \/ DOMAIN out = {} THEN d
  ELSE AppendLLMMessages(d, t.turn, [s \in {Max(DOMAIN out)} |-> out[s]])

emitMessages(d, t, out, ok) == IF ok THEN AppendLLMMessages(d, t.turn, out) ELSE d

\* The event is numbered and buffered when raw events are kept, a full
\* buffer is flushed, and what the event completes is written.
Step(c, t, agg, full) ==
  \E kept, told \in BOOLEAN :
    /\ kept \/ (full /\ t.buf # <<>>)
    /\ told \/ DOMAIN agg.out # {}
    /\ Fails((IF kept THEN 0 ELSE 1) + (IF told THEN 0 ELSE 1))
    /\ db' = emitMessages(IF full THEN flush(db, t, kept) ELSE db, t, agg.out, told)
    /\ trace' = [trace EXCEPT ![c] = [t EXCEPT !.buf = IF full THEN <<>> ELSE @, !.aggregator = agg,
                   !.unkept = @ \/ ~kept, !.unsaid = @ \/ ~told]]

EmitEvent(c, e) ==
  LET t == [trace[c] EXCEPT !.said = Append(@, e), !.buf = IF trace[c].events THEN Append(@, e) ELSE @]
  IN /\ Inside(c, "turn") /\ t.active /\ Len(t.said) <= MaxStream
     /\ Step(c, t, Add(t.aggregator, e), Len(t.buf) >= llmEventFlushSize)
     /\ Same(call)

\* Finish: the rest is flushed and what the stream left open is written;
\* the rows of a finished run are then derived again from its events.
Finish(c) ==
  /\ Inside(c, "turn") /\ trace[c].active
  /\ Step(c, trace[c], Flush(trace[c].aggregator), TRUE)
  /\ call' = [call EXCEPT ![c].op = "flushed"] /\ Same(<<>>)

FinishStored(c) ==
  /\ FinishDerive(c) /\ UNCHANGED lost
  /\ trace' = [trace EXCEPT ![c].behind = ListLLMEvents(readPool, call[c].turn) # ListLLMEvents(db, call[c].turn)]

\* A statement of FinishReasonTurn fails: the rest of it is not done.
FinishFails(c) ==
  /\ \E op \in {"flushed", "finish", "derive", "reply"} : Inside(c, op)
  /\ Fails(1) /\ trace' = [trace EXCEPT ![c].failed = TRUE]
  /\ call' = [call EXCEPT ![c].op = "runid"] /\ Same(db)

\* The reply is read back from the writer, and the trace is closed.
Origin(c) ==
  /\ FinishRunId(c) /\ UNCHANGED lost
  /\ trace' = [trace EXCEPT ![c].active = FALSE,
                 ![c].reply = AssistantMessageID(Reading("writer"), call[c].turn)]

ConversationStep(c) ==
  \/ BeginLLMTraceFrom(c)
  \/ \E e \in Events : EmitEvent(c, e)
  \/ Finish(c) \/ FinishStored(c) \/ FinishFails(c) \/ Origin(c)
  \/ UNCHANGED <<trace, lost>> /\ (FinishReasonTurn(c) \/ recordAggregatedMessages(c) \/ FinishSeq(c)
                                  \/ recordAssistantMessage(c))
  \/ /\ UNCHANGED <<trace, lost>> /\ Cardinality(DOMAIN db.turns) < MaxTurns
     /\ Does(c, "conversation", InsertReasonTurn(db, c))

TraceInit == PostgresInit /\ trace = [c \in Clients |-> Inert] /\ lost = 0

TraceNext ==
  \/ Replicate /\ UNCHANGED <<trace, lost>>
  \/ /\ UNCHANGED <<reader, replica>>
     /\ \/ UNCHANGED <<trace, lost>> /\ (Crash \/ \E c \in Clients : TableStep(c) \/ Poll(c))
        \/ \E c \in Clients : ConversationStep(c)

TraceSpec == TraceInit /\ [][TraceNext]_traceVars

-----------------------------------------------------------------------------
(* Properties *)

Closed(c) == ~trace[c].active /\ trace[c].turn # 0

Conversation(turn) ==
  [s \in {db.msgs[m].seq : m \in Rows(db, turn) \ Replies(db, turn)} \ {0} |->
     LET m == CHOOSE n \in At(db, turn, s) : TRUE IN [role |-> db.msgs[m].role, text |-> db.msgs[m].text]]

\* A closed run's rows are its stream, aggregated: written on the way when
\* no write was lost, and otherwise repaired from the raw events, when those
\* are kept and were all there to be read.
StreamKept ==
  \A c \in Clients :
    LET t == trace[c] IN
    /\ Closed(c) /\ ~t.failed
    /\ IF t.events THEN ~t.unkept /\ ~t.behind ELSE ~t.unsaid
    => Conversation(t.turn) = AggregateChatMessages(t.said)

\* The second derivation of a closed run is a no-op for the rows that are
\* already right: nothing a run wrote without a fault is written over.
FinishKeepsRows ==
  \A c \in Clients :
    Closed(c) /\ ~trace[c].failed /\ ~trace[c].unsaid /\ ~trace[c].unkept
      => Conversation(trace[c].turn) = AggregateChatMessages(trace[c].said)

\* The decision made from a run points at the run's reply: the row this
\* process has just written, which a follower may not have yet.
OriginNamesReply ==
  \A c \in Clients : Closed(c) /\ ~trace[c].failed => Replies(db, trace[c].turn) = {trace[c].reply}

\* What is read of the follower is one table state: the reads agree with
\* each other however far behind it is, and a poll's cursor passes nothing.
FollowerAgrees == Lite!Agree(readPool) /\ FollowerPages
=============================================================================
