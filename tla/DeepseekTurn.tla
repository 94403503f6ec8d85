---------------------------- MODULE DeepseekTurn ----------------------------
(***************************************************************************)
(* One agent on the native DeepSeek harness (src/src/llmbackend/deepseek). *)
(* The provider keeps nothing: the conversation is what a request carries, *)
(* so the harness keeps one history per (mode, workspace) in memory, runs  *)
(* the model's tool calls itself, takes a failed turn back and stores the  *)
(* history in a file after a successful one.  The agent row keeps the id   *)
(* of the planner's history.  The session's lock is held for a whole turn. *)
(* Text, usage and the fragments of a stream are left out.                 *)
(***************************************************************************)
EXTENDS Naturals, Sequences, SequencesExt

CONSTANTS
  Workspaces,
  Calls,                 \* the lists of tool calls a completion may make
  MaxIterations,         \* requests one turn may make
  ShellIdle,             \* the idle watchdog's gap; a shell call names its own limit
  MaxTurns, MaxAsides    \* bounds: turns; moves, disposals, crashes and failing saves

VARIABLES
  session,    \* [key, convs]: the attached (mode, workspace) and the histories by it
  row,        \* the session id on the agent row, 0 for none
  files,      \* the stored histories, by session id
  made,       \* ids minted
  turn,       \* the Prompt in flight
  place,      \* the workspace the agent's facts name
  ephemeral,  \* a one-shot worker
  turns, asides,
  acted       \* history: the modes whose tools changed a workspace

deepseekVars == <<session, row, files, made, turn, place, ephemeral, turns, asides, acted>>

Modes == {"plan", "agent"}
Tools == {"read_file", "write_file", "run_shell"}

\* What a completion may ask of the tools.
ASSUME DeepseekAssumption == Calls \subseteq Seq([tool : Tools, limit : Nat])

NoKey == <<"none", "none">>
Resting == [pc |-> "rest", sent |-> <<>>]
Disposed == [key |-> NoKey, convs |-> [k \in {} |-> NoKey]]
Message(role, calls, reason, at) == [role |-> role, calls |-> calls, reason |-> reason, at |-> at]
With(f, k, v) == [x \in DOMAIN f \cup {k} |-> IF x = k THEN v ELSE f[x]]

DeepseekTypeOK ==
  /\ session.key \in DOMAIN session.convs \cup {NoKey} /\ row \in 0 .. made
  /\ DOMAIN files \subseteq 1 .. made /\ place \in Workspaces /\ acted \subseteq Modes
  /\ turn.pc \in {"rest", "request", "stream", "tools", "answer"}
  /\ turn.pc # "rest" => turn.iteration \in 0 .. MaxIterations

DeepseekInit ==
  /\ session = Disposed /\ row = 0 /\ files = [i \in {} |-> <<>>] /\ made = 0
  /\ turn = Resting /\ place \in Workspaces /\ ephemeral \in BOOLEAN
  /\ turns = 0 /\ asides = 0 /\ acted = {}

-----------------------------------------------------------------------------
(* attach *)

\* A history this handle has not opened yet is read back from the store only by
\* the handle's first attach, in plan mode; else, or when the file is gone, it
\* starts empty under a new id.
Resumes(mode) ==
  /\ session.key = NoKey /\ mode = "plan" /\ ~ephemeral /\ row \in DOMAIN files

Opened(mode) ==
  LET k == <<mode, place>> IN
  IF k \in DOMAIN session.convs THEN session.convs[k]
  ELSE IF Resumes(mode) THEN [id |-> row, msgs |-> files[row]]
  ELSE [id |-> made + 1, msgs |-> <<>>]

\* The attached key changes; the row names the planner's history.
Attached(mode, conv) ==
  /\ session' = [key |-> <<mode, place>>, convs |-> With(session.convs, <<mode, place>>, conv)]
  /\ made' = IF conv.id > made THEN conv.id ELSE made
  /\ row' = IF mode = "plan" /\ ~ephemeral THEN conv.id ELSE row

AttachMode(mode) ==
  /\ turn = Resting /\ session.key # <<mode, place>>
  /\ Attached(mode, Opened(mode))
  /\ UNCHANGED <<files, turn, place, ephemeral, turns, asides, acted>>

-----------------------------------------------------------------------------
(* Prompt *)

Conv == session.convs[session.key]
Says(msgs) == session' = [session EXCEPT !.convs[session.key].msgs = @ \o msgs]

\* The user message, after the harness's preamble when it is the first.
PromptBegins(mode) ==
  /\ turn = Resting /\ turns < MaxTurns /\ turns' = turns + 1
  /\ LET conv == Opened(mode)
         preamble == IF conv.msgs = <<>> THEN <<Message("system", 0, FALSE, place)>> ELSE <<>>
     IN /\ Attached(mode, [conv EXCEPT !.msgs = @ \o preamble \o <<Message("user", 0, FALSE, place)>>])
        /\ turn' = [pc |-> "request", sent |-> <<>>, base |-> Len(conv.msgs), iteration |-> 0,
                    todo |-> <<>>, live |-> TRUE, idle |-> FALSE]
  /\ UNCHANGED <<files, place, ephemeral, asides, acted>>

\* mutant: only a request that failed is taken back, a cancelled tool loop stays
KeepsCancelled(conv) == IF turn.live THEN SubSeq(conv.msgs, 1, turn.base) ELSE conv.msgs

\* A failed turn leaves the history as it was.
TakenBack(conv) == SubSeq(conv.msgs, 1, turn.base)

TurnFails ==
  /\ session' = [session EXCEPT !.convs[session.key].msgs = TakenBack(Conv)]
  /\ turn' = Resting

\* mutant: the reasoning of every answer is sent back
SentWhole(history) == history

\* requestMessages: reasoning goes back only for the question still being
\* answered, the one after the last user message.
requestMessages(history) ==
  LET last == SelectLastInSubSeq(history, 1, Len(history), LAMBDA m : m.role = "user")
  IN [i \in DOMAIN history |-> IF i < last THEN [history[i] EXCEPT !.reason = FALSE] ELSE history[i]]

Request ==
  /\ turn.pc = "request"
  /\ \/ /\ turn.iteration >= MaxIterations /\ TurnFails
     \/ /\ turn.iteration < MaxIterations
        /\ turn' = [turn EXCEPT !.pc = "stream", !.iteration = @ + 1, !.sent = requestMessages(Conv.msgs)]
        /\ UNCHANGED session
  /\ UNCHANGED <<row, files, made, place, ephemeral, turns, asides, acted>>

\* A completion that was streamed to its finish: an answer, or tool calls.
Completes(calls, reason) ==
  /\ turn.pc = "stream" /\ turn.live
  /\ Says(<<Message("assistant", Len(calls), reason, "none")>>)
  /\ turn' = [turn EXCEPT !.sent = <<>>, !.todo = calls, !.pc = IF calls = <<>> THEN "answer" ELSE "tools"]
  /\ UNCHANGED <<row, files, made, place, ephemeral, turns, asides, acted>>

\* Refused, broken off or cancelled.
StreamBreaks ==
  /\ turn.pc = "stream" /\ TurnFails
  /\ UNCHANGED <<row, files, made, place, ephemeral, turns, asides, acted>>

\* The caller leaves.
Cancel ==
  /\ turn.pc \in {"stream", "tools"} /\ turn.live
  /\ turn' = [turn EXCEPT !.live = FALSE]
  /\ UNCHANGED <<session, row, files, made, place, ephemeral, turns, asides, acted>>

\* The idle watchdog, touched by every line of a stream and after every tool:
\* a silent provider, or a command that is allowed to run for longer.
GoesIdle ==
  /\ turn.pc \in {"stream", "tools"} /\ turn.live
  /\ turn.pc = "tools" => Head(turn.todo).limit > ShellIdle
  /\ turn' = [turn EXCEPT !.live = FALSE, !.idle = TRUE]
  /\ UNCHANGED <<session, row, files, made, place, ephemeral, turns, asides, acted>>

\* mutant: what the request did not offer is not refused when it is called
AnyTool(mode) == Tools

toolSpecs(mode) == IF mode = "plan" THEN {"read_file"} ELSE Tools

\* toolbox.run: whatever it did, a result goes into the history; a turn whose
\* caller left ends after it.
RunTool ==
  /\ turn.pc = "tools"
  /\ LET call == Head(turn.todo) runs == call.tool \in toolSpecs(session.key[1]) IN
     /\ acted' \in {acted} \cup {acted \cup {session.key[1]} : x \in
                                   IF runs /\ call.tool # "read_file" THEN {1} ELSE {}}
     /\ \/ ~turn.live /\ TurnFails
        \/ /\ turn.live
           /\ Says(<<Message("tool", 0, FALSE, "none")>>)
           /\ turn' = [turn EXCEPT !.todo = Tail(@), !.pc = IF Len(turn.todo) = 1 THEN "request" ELSE "tools"]
  /\ UNCHANGED <<row, files, made, place, ephemeral, turns, asides>>

\* mutant: what is stored is what the last request carried
WithoutTheAnswer(conv) == Front(conv.msgs)

Stored(conv) == conv.msgs

\* An answer ends the turn: empty it is an error, else a kept agent's history is
\* written, atomically, and a file that cannot be written takes the turn back.
TurnAnswers ==
  /\ turn.pc = "answer"
  /\ \/ TurnFails /\ UNCHANGED <<files, asides>>
     \/ /\ turn' = Resting /\ UNCHANGED <<session, asides>>
        /\ files' = IF ephemeral THEN files ELSE With(files, Conv.id, Stored(Conv))
     \/ /\ ~ephemeral /\ asides < MaxAsides /\ asides' = asides + 1
        /\ TurnFails /\ UNCHANGED files
  /\ UNCHANGED <<row, made, place, ephemeral, turns, acted>>

-----------------------------------------------------------------------------
\* The histories leave memory; a one-shot worker's files go too.
Dispose ==
  /\ turn = Resting /\ session # Disposed /\ asides < MaxAsides /\ asides' = asides + 1
  /\ session' = Disposed
  /\ files' = [i \in {i \in DOMAIN files :
                 ~ephemeral \/ \A k \in DOMAIN session.convs : session.convs[k].id # i} |-> files[i]]
  /\ UNCHANGED <<row, made, turn, place, ephemeral, turns, acted>>

\* The process dies; a one-shot worker is not brought back.
Dies ==
  /\ ~ephemeral /\ asides < MaxAsides /\ asides' = asides + 1
  /\ session' = Disposed /\ turn' = Resting
  /\ UNCHANGED <<row, files, made, place, ephemeral, turns, acted>>

\* The agent is given another directory.
Moves ==
  /\ turn = Resting /\ asides < MaxAsides /\ asides' = asides + 1
  /\ place' \in Workspaces \ {place}
  /\ UNCHANGED <<session, row, files, made, turn, ephemeral, turns, acted>>

DeepseekNext ==
  \/ \E mode \in Modes : AttachMode(mode) \/ PromptBegins(mode)
  \/ Request \/ StreamBreaks \/ Cancel \/ GoesIdle \/ RunTool \/ TurnAnswers
  \/ \E calls \in Calls, reason \in BOOLEAN : Completes(calls, reason)
  \/ Dispose \/ Dies \/ Moves

DeepseekSpec == DeepseekInit /\ [][DeepseekNext]_deepseekVars

-----------------------------------------------------------------------------
(* Properties *)

\* Every request is one the provider takes: one preamble, each call followed by
\* its results and by nothing else, each question but the last answered, and
\* reasoning only in the answer under way - whatever turns were cut short in
\* the middle of their tool calls before it.
RequestIsAnswerable ==
  LET h == turn.sent
      last == SelectLastInSubSeq(h, 1, Len(h), LAMBDA m : m.role = "user")
      Pending(i) == Len(SelectSeq(SubSeq(h, 1, i), LAMBDA m : m.role = "tool"))
      Asked(i) == FoldLeft(LAMBDA n, m : n + m.calls, 0, SubSeq(h, 1, i))
  IN turn.pc = "stream" =>
       /\ \A i \in DOMAIN h : h[i].role = "system" <=> i = 1
       /\ \A i \in DOMAIN h : h[i].role = "tool" => Pending(i) <= Asked(i)
       /\ \A i \in DOMAIN h : h[i].role \in {"user", "assistant"} => Pending(i - 1) = Asked(i - 1)
       /\ \A i \in 3 .. Len(h) : h[i].role = "user" => h[i - 1].role = "assistant"
       /\ Pending(Len(h)) = Asked(Len(h))
       /\ \A i \in DOMAIN h : h[i].reason => i > last

\* Between turns a kept agent's file holds what its memory holds, so that a
\* process that dies loses no answered turn and the next one resumes none that
\* failed.
DiskIsMemory ==
  turn = Resting /\ ~ephemeral =>
    \A k \in DOMAIN session.convs :
      LET c == session.convs[k] IN
      IF c.id \in DOMAIN files THEN files[c.id] = c.msgs ELSE c.msgs = <<>>

\* A planner changes nothing, whatever the model calls in its turns.
PlannerNeverActs == acted \subseteq {"agent"}

\* "conversations are kept per (mode, workspace)". [violated: the recorded
\* history is resumed in whatever directory the agent has now, and its preamble
\* still names the one its tools acted in before]
ToldWhereItActs ==
  turn.pc = "stream" => turn.sent[1].at = session.key[2]

\* "the runtime's idle watchdog only fires on silence". [violated: a command may
\* run for longer than the watchdog's gap and nothing touches it meanwhile]
IdleIsSilence == turn.pc = "tools" => ~turn.idle
=============================================================================
