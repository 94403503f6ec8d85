--------------------------- MODULE ChatMessages ---------------------------
(***************************************************************************)
(* The aggregation of a run's raw stream into conversation messages: the   *)
(* accumulator a live trace feeds event by event and a store folds over    *)
(* the events it has kept. A group's seq is its place in the sequence of   *)
(* groups (the user input is 0).                                           *)
(***************************************************************************)
EXTENDS Naturals, Sequences, SequencesExt

\* A thought carries a text delta, a tool event a call id and perhaps the
\* call's result; assistant deltas and status events carry nothing kept.
Event(Calls, Texts) ==
  [ch : {"thought"}, text : Texts] \cup [ch : {"other"}]
    \cup [ch : {"tool"}, call : Calls, result : {<<>>} \cup {<<t>> : t \in Texts}]

Thinking(text) == [role |-> "thinking", call |-> "", text |-> <<text>>, emitted |-> FALSE]

\* A later result of the same call replaces the first.
MergeTool(g, e) == [g EXCEPT !.text = IF e.result = <<>> THEN @ ELSE e.result]

NewTool(e) == MergeTool([role |-> "tool", call |-> e.call, text |-> <<>>, emitted |-> FALSE], e)

\* A tool call without its result stays open.
Emits(g) == g.role = "thinking" \/ g.text # <<>>

ChatMessage(g) == [role |-> g.role, text |-> g.text]

\* The accumulator and the messages the last event completed, by seq.
Empty == [groups |-> <<>>, out |-> [i \in {} |-> <<>>]]

\* mutant: a new tool call does not close the thinking block before it
ToolOnly(gs) == {Len(gs)}

\* Starting a tool message also closes the thinking block before it.
Completed(gs) ==
  {i \in {Len(gs) - 1, Len(gs)} \ {0} :
     IF i = Len(gs) THEN Emits(gs[i]) ELSE gs[i].role = "thinking" /\ ~gs[i].emitted}

Emit(gs, done) ==
  [groups |-> [i \in DOMAIN gs |-> IF i \in done THEN [gs[i] EXCEPT !.emitted = TRUE] ELSE gs[i]],
   out |-> [i \in done |-> ChatMessage(gs[i])]]

Add(a, e) ==
  LET gs == a.groups
      known == {i \in DOMAIN gs : e.ch = "tool" /\ e.call # "" /\ gs[i].call = e.call}
      merged == [i \in DOMAIN gs |-> IF i \in known THEN MergeTool(gs[i], e) ELSE gs[i]]
      tool == Append(gs, NewTool(e))
      n == Len(gs)
  IN CASE e.ch = "thought" /\ n > 0 /\ gs[n].role = "thinking" ->
            Emit([gs EXCEPT ![n].text = Append(@, e.text)], {})
       [] e.ch = "thought" /\ ~(n > 0 /\ gs[n].role = "thinking") ->
            Emit(Append(gs, Thinking(e.text)), {})
       [] e.ch = "tool" /\ known # {} -> Emit(merged, {i \in known : Emits(merged[i])})
       [] e.ch = "tool" /\ known = {} -> Emit(tool, Completed(tool))
       [] OTHER -> Emit(gs, {})

\* The groups still open when the stream ends.
Flush(a) == Emit(a.groups, {i \in DOMAIN a.groups : ~a.groups[i].emitted})

Over(rows, out) == [i \in DOMAIN rows \cup DOMAIN out |-> IF i \in DOMAIN out THEN out[i] ELSE rows[i]]

\* The whole stream at once: [seq -> message].
AggregateChatMessages(events) ==
  LET folded[n \in 0..Len(events)] ==
        IF n = 0 THEN [a |-> Empty, rows |-> Empty.out]
        ELSE LET a == Add(folded[n - 1].a, events[n])
             IN [a |-> a, rows |-> Over(folded[n - 1].rows, a.out)]
      end == folded[Len(events)]
  IN Over(end.rows, Flush(end.a).out)
=============================================================================
