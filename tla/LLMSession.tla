----------------------------- MODULE LLMSession -----------------------------
(***************************************************************************)
(* The provider session of one agent (llm_session.go, llm_turn_retry.go,   *)
(* llmbackend/*/session.go).  An agent is a record with, among others,     *)
(*   dir    its workspace             at     directory -> conversation     *)
(*   frame  the frame was delivered   role   "planner" or "worker"         *)
(*   words  the role prompt was built cur    the directory attached last   *)
(*   sid    the recorded session id   eph    a one-shot worker             *)
(* A conversation is a number; "told" is the set of those that hold the    *)
(* frame, "used" of those that hold any message.  A worker runs in agent   *)
(* mode and a planner in plan mode, so the (mode, cwd) key of a session is *)
(* the directory.                                                          *)
(***************************************************************************)
EXTENDS Naturals, FiniteSets

CONSTANTS Dirs, NoDir, MaxConvs

Harnesses == {"cline", "codex", "cursor", "claude", "deepseek"}

\* The harnesses whose error text says that a turn was cut off.
Truncates == {"cline", "codex", "cursor"}

\* turnRetryBudget: one more turn after a turn that was cut off.
Retries == 1

\* The conversation a turn of this agent would be on, 0 for none yet.
\* A Cursor agent has one, whatever its directory.
Handle(h, ag) ==
  IF h = "cursor" /\ \E d \in Dirs : ag.at[d] # 0
    THEN CHOOSE c \in {ag.at[d] : d \in Dirs} : c # 0
    ELSE ag.at[ag.dir]

\* The recorded session a new one continues.
Recorded(h, ag) ==
  CASE h = "cursor" -> IF ag.eph THEN 0 ELSE ag.sid
    [] h \in {"cline", "codex"} -> IF ag.role = "planner" THEN ag.sid ELSE 0
    [] OTHER -> IF ag.role = "planner" /\ ag.cur = NoDir /\ ~ag.eph
                  THEN ag.sid ELSE 0

\* Which of them record the session already when it is opened.
RecordsAtAttach(h, ag) ==
  h = "cursor" \/ (h = "deepseek" /\ ag.role = "planner" /\ ~ag.eph)

\* The session is opened on conversation c; "resumed" says it existed before.
OpenOn(h, ag, c, resumed) ==
  [ag EXCEPT !.at = [@ EXCEPT ![ag.dir] = c],
             !.cur = ag.dir,
             !.sid = IF RecordsAtAttach(h, ag) THEN c ELSE @,
             !.frame = CASE h = "cursor" -> resumed
                         [] h = "cline" -> FALSE
                         [] OTHER -> resumed /\ @]

\* ProviderSessionID: the conversation the session was last attached to.
ProviderSession(ag) == IF ag.cur = NoDir THEN 0 ELSE ag.at[ag.cur]

\* What opening the session may come to: the agent, the conversation, the
\* conversations that were told at their creation and the ones in existence.
\* Cline seeds a recorded transcript into a new session; the provider of a
\* Cursor or DeepSeek session may have lost it.
Attach(h, ag, told, used, n) ==
  LET c    == Handle(h, ag)
      prev == Recorded(h, ag)
      new  == n + 1
      born == IF h = "cline" /\ ag.words THEN told \union {new} ELSE told
      Fresh == [ag |-> OpenOn(h, ag, new, FALSE), conv |-> new, told |-> born, n |-> new]
      Again(d) == [ag |-> OpenOn(h, ag, d, TRUE), conv |-> d, told |-> told, n |-> n]
  IN IF c # 0
       THEN {[ag   |-> [ag EXCEPT !.cur = ag.dir,
                                  !.frame = @ /\ ~(h \in {"claude", "deepseek"}
                                                   /\ ag.cur # ag.dir /\ c \notin used)],
              conv |-> c, told |-> told, n |-> n]}
       ELSE (IF new <= MaxConvs /\ (prev = 0 \/ h \in {"cline", "cursor", "deepseek"})
               THEN {Fresh} ELSE {})
            \union (IF prev # 0 /\ h # "cline" THEN {Again(prev)} ELSE {})

\* record: the session the task's own conversation is on goes on the row.
Record(h, ag, c) ==
  IF ag.role = "planner" /\ ~ag.eph THEN [ag EXCEPT !.sid = c] ELSE ag

\* A one-shot Claude run keeps nothing: its next prompt opens a conversation anew.
Keeps(h, ag) == ~(h = "claude" /\ ag.eph)

\* mutant: the frame counts as delivered although its turn failed
MarkedWhenSent(ok, ag) == [ag EXCEPT !.frame = TRUE]

\* The frame is marked delivered by the injection that sent it, when it ended well.
markLLMFrameSent(ok, ag) == IF ok THEN [ag EXCEPT !.frame = TRUE] ELSE ag

\* beginTurn: every attempt of a prompt is a round of its own, and the first
\* prompt of a session is none.
beginTurn(round, first, tries) == IF first THEN round ELSE round + tries

\* How many attempts one prompt may take.
Tries(h) == 1 .. (IF h \in Truncates THEN 1 + Retries ELSE 1)

NewSession == [at |-> [d \in Dirs |-> 0], cur |-> NoDir, frame |-> FALSE, words |-> FALSE]
=============================================================================
