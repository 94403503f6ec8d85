---------------------------- MODULE WorkersProofs ----------------------------
(***************************************************************************)
(* What holds of the agents of a process on any harness, for any number of *)
(* agents, requests and loans (Inv, in three parts), and of a session on    *)
(* the harness that keeps its own conversation in files (DeepseekInv).      *)
(*   PairInv   the agent a task is paired with is a planner of its own row, *)
(*             and one of the planners it has                               *)
(*   LoanInv   a worker on loan speaks on the newest of its loans           *)
(*   FrameInv  a conversation that may be prompted was told who it is, or   *)
(*             the agent has been in two directories, or an earlier process *)
(*             opened it                                                    *)
(* DeepseekInv rests on Settled: the part of a history that a turn in      *)
(* progress does not take back is what the file of the conversation holds. *)
(***************************************************************************)
EXTENDS Workers, DeepseekTurn, FiniteSetTheorems, SequenceTheorems, WellFoundedInduction, TLAPS

-----------------------------------------------------------------------------
(* The agents, their loans and their sessions *)

\* What the records hold.
Agent == [on : BOOLEAN, role : {"none", "planner", "worker"}, eph : BOOLEAN, running : BOOLEAN,
          bound : BOOLEAN, acct : Accounts \union {NoAccount}, dir : Dirs, sid : Nat, round : Nat,
          session : Loans \union {"none", "own"}, at : [Dirs -> Nat], cur : Dirs \union {NoDir},
          frame : BOOLEAN, words : BOOLEAN]
AgentRow == [kept : {"none", "live", "deleted"}, acct : Accounts \union {NoAccount}, sid : Nat]
Account == [enabled : BOOLEAN, default : BOOLEAN, root : {"r1", "r2"}]
RequestState == [pc : {"new", "found", "queued", "running", "done"}, acct : Accounts \union {NoAccount},
            agent : Ids \union {0}]
Loan == [pc : {"new", "ephemeral", "register", "lend", "open", "asked", "answered", "done"},
         agent : Ids \union {0}, round : Nat]
Work == [for : Requests \union Loans \union {"none"}, sess : Loans \union {"none", "own"},
         step : {"none", "frame", "turn"}]
History == [rounds : [Ids -> SUBSET Nat], twice : SUBSET Ids, shared : SUBSET Ids,
            untold : SUBSET Ids, stray : SUBSET Ids, had : SUBSET Accounts, old : Nat]

Typed ==
  /\ harness \in Harnesses /\ pairing \in Ids \union {0} /\ convs \in Nat
  /\ agents \in [Ids -> Agent] /\ rows \in [Ids -> AgentRow] /\ pool \in [Accounts -> Account]
  /\ reqs \in [Requests -> RequestState] /\ loans \in [Loans -> Loan] /\ work \in [Ids -> Work]
  /\ told \in SUBSET Nat /\ hist \in History

Two(S) == \E x, y \in S : x # y

\* An id is handed out with its row, once.
RowOfEach ==
  /\ \A i \in Ids : agents[i].on => agents[i].role # "none"
  /\ \A i \in Ids : agents[i].role = "planner" => agents[i].on /\ rows[i].kept = "live"
  /\ \A i \in Ids : agents[i].role = "worker" => rows[i].kept # "none"

PairedRow == pairing # 0 => agents[pairing].role # "worker" /\ rows[pairing].kept = "live"

FoundRow ==
  \A q \in Requests : reqs[q].pc \in {"found", "queued"} /\ reqs[q].agent # 0 =>
    /\ agents[reqs[q].agent].role # "worker"
    /\ agents[reqs[q].agent].on \/ reqs[q].agent = pairing

QueuedOn == \A q \in Requests : reqs[q].pc = "queued" => reqs[q].agent \in ForTask

PairedHeld ==
  /\ ForTask # {} => pairing \in ForTask
  /\ \A q \in Requests : reqs[q].pc = "found" /\ pairing # 0 /\ reqs[q].agent # pairing
       => pairing \in ForTask

LoanedWorker ==
  \A l \in Loans : loans[l].pc \in {"lend", "open", "asked", "answered"} =>
    loans[l].agent # 0 /\ agents[loans[l].agent].role = "worker"

LoanSpeaks ==
  \A l \in Loans : loans[l].pc \in {"open", "asked", "answered"} =>
    agents[loans[l].agent].session = l \/ loans[l].agent \in hist.shared

AskedOnce ==
  \A i \in Ids : work[i].for \in Loans =>
    loans[work[i].for].pc = "asked" /\ loans[work[i].for].agent = i

LoanInv == LoanedWorker /\ LoanSpeaks /\ AskedOnce /\ SpokenOnItsLoan
PairInv == RowOfEach /\ PairedRow /\ FoundRow /\ QueuedOn /\ PairedHeld

\* The agent has no conversation; some is one an earlier process opened.
Empty(i) == \A d \in Dirs : agents[i].at[d] = 0
FromBefore(i) == harness = "cursor" /\ \E d \in Dirs : agents[i].at[d] \in 1 .. hist.old

\* A conversation of the agent holds the frame, or it is excused.
Excused(i) == Two(Places(i)) \/ FromBefore(i)
HoldsFrame(i) == Excused(i) \/ \E d \in Dirs : agents[i].at[d] # 0 /\ agents[i].at[d] \in told

OpenOf(i) ==
  /\ agents[i].cur = NoDir => Empty(i)
  /\ harness # "cursor" /\ agents[i].cur # NoDir => agents[i].at[agents[i].cur] # 0
  /\ agents[i].sid <= convs /\ rows[i].sid <= convs /\ \A d \in Dirs : agents[i].at[d] <= convs
  /\ agents[i].role = "none" => agents[i].sid = 0
  /\ harness = "cursor" =>
       /\ agents[i].on /\ Empty(i) => agents[i].sid <= hist.old
       /\ agents[i].role = "none" => rows[i].sid <= hist.old

FrameOf(i) ==
  /\ ~agents[i].eph /\ (agents[i].frame \/ work[i].step = "turn") => HoldsFrame(i)
  /\ i \in hist.untold => agents[i].role # "none" /\ (agents[i].eph \/ Excused(i))
  /\ work[i].step # "none" => agents[i].role # "none"
  /\ agents[i].role # "none" /\ ~agents[i].eph => agents[i].on

FrameInv == \A i \in Ids : OpenOf(i) /\ FrameOf(i)

Inv == Typed /\ PairInv /\ LoanInv /\ FrameInv

\* A least member, by well-founded induction.
LEMMA Least ==
  ASSUME NEW S \in SUBSET Nat, S # {}
  PROVE  \E x \in S : \A y \in S : x <= y
<1> DEFINE R == OpToRel(<, Nat)
<1>1. IsWellFoundedOn(R, Nat)
  BY NatLessThanWellFounded
<1>2. \A m, n \in Nat : <<m, n>> \in R <=> m < n
  BY DEF OpToRel
<1> HIDE DEF R
<1>3. PICK x \in S : \A y \in S : ~(<<y, x>> \in R)
  BY <1>1, WFMin
<1>4. \A y \in S : x \in Nat /\ y \in Nat /\ ~(y < x)
  BY <1>2, <1>3
<1> QED
  BY <1>4

\* What Min chooses.
LEMMA MinIsIn ==
  ASSUME NEW S \in SUBSET Nat, S # {}
  PROVE  Min(S) \in S
BY Least DEF Min

\* An agent bills an account there is, or none.
LEMMA BilledType ==
  ASSUME Typed, NEW acct \in Accounts \union {NoAccount}, NEW from \in Accounts \union {NoAccount}
  PROVE  accountForAgent(acct, from, pool) \in Accounts \union {NoAccount}
<1>1. \A S \in SUBSET Accounts : S # {} => Min(S) \in Accounts
  BY MinIsIn, WorkersAssumption
<1>2. DefaultAccount(pool) \in Accounts \union {NoAccount}
  BY <1>1 DEF DefaultAccount, Enabled
<1> QED
  BY <1>2 DEF accountForAgent

\* The id a new agent gets is unused.
LEMMA UnusedMin ==
  ASSUME Unused # {}
  PROVE  Min(Unused) \in Ids /\ rows[Min(Unused)].kept = "none"
<1>1. Unused \in SUBSET Nat
  BY WorkersAssumption DEF Unused, Ids
<1> QED
  BY <1>1, MinIsIn DEF Unused

\* What an update of an agent keeps of who it is.
SameSelf(r, s) ==
  s.on = r.on /\ s.role = r.role /\ s.eph = r.eph /\ s.bound = r.bound /\ s.session = r.session
\* What it keeps of what it has been told.
SameTalk(r, s) == s.at = r.at /\ s.cur = r.cur /\ s.frame = r.frame /\ s.sid = r.sid

\* Adopting an account changes neither who an agent is nor its conversations.
LEMMA Adopts ==
  ASSUME Typed, NEW ag \in Agent, NEW a \in Accounts
  PROVE  LET s == AdoptAccount(ag, a, pool)
         IN s \in Agent /\ SameSelf(ag, s) /\ SameTalk(ag, s)
<1>1. pool[a].root \in Dirs
  BY WorkersAssumption DEF Typed, Account
<1> QED
  BY <1>1 DEF AdoptAccount, Agent, SameSelf, SameTalk

\* What a new agent starts with.
LEMMA NewAgentType ==
  ASSUME NEW role \in {"planner", "worker"}, NEW eph \in BOOLEAN, NEW bound \in BOOLEAN
  PROVE  LET s == NewAgent(role, eph, bound) IN
           /\ s \in Agent
           /\ s.on /\ s.role = role /\ s.eph = eph /\ s.bound = bound /\ s.session = "none"
           /\ s.at = [d \in Dirs |-> 0] /\ s.cur = NoDir /\ ~s.frame /\ s.sid = 0
BY WorkersAssumption DEF NewAgent, NoAgent, NewSession, Agent

\* What an id nobody has stands for.
LEMMA NoAgentType ==
  /\ NoAgent \in Agent
  /\ ~NoAgent.on /\ NoAgent.role = "none" /\ ~NoAgent.eph /\ NoAgent.session = "none"
  /\ NoAgent.at = [d \in Dirs |-> 0] /\ NoAgent.cur = NoDir /\ ~NoAgent.frame /\ NoAgent.sid = 0
BY WorkersAssumption DEF NoAgent, NewSession, Agent

\* What an agent read back from its row starts with.
LEMMA RestoredType ==
  ASSUME NEW r \in AgentRow
  PROVE  LET s == RestoredAgent(r) IN
           /\ s \in Agent
           /\ s.on /\ s.role = "planner" /\ ~s.eph /\ s.bound /\ s.session = "none"
           /\ s.at = [d \in Dirs |-> 0] /\ s.cur = NoDir /\ ~s.frame /\ s.sid = r.sid
<1>1. r.sid \in Nat
  BY DEF AgentRow
<1> QED
  BY <1>1, WorkersAssumption DEF RestoredAgent, NewAgent, NoAgent, NewSession, Agent

\* What is written of an agent.
LEMMA RowType ==
  ASSUME NEW ag \in Agent
  PROVE  /\ Row(ag) \in AgentRow /\ Row(ag).kept = "live" /\ Row(ag).sid = ag.sid
         /\ Deleted(ag) \in AgentRow /\ Deleted(ag).kept = "deleted" /\ Deleted(ag).sid = ag.sid
BY DEF Row, Deleted, AgentRow, Agent

\* Which conversation a session id names.
LEMMA HandleType ==
  ASSUME NEW h, NEW ag \in Agent
  PROVE  /\ Handle(h, ag) \in Nat
         /\ h = "cursor" /\ (\E d \in Dirs : ag.at[d] # 0) => \E d \in Dirs : ag.at[d] = Handle(h, ag) /\ ag.at[d] # 0
         /\ h = "cursor" /\ (\A d \in Dirs : ag.at[d] = 0) => Handle(h, ag) = 0
         /\ h # "cursor" => Handle(h, ag) = ag.at[ag.dir]
<1>1. \A d \in Dirs : ag.at[d] \in Nat
  BY DEF Agent
<1>2. ag.dir \in Dirs
  BY DEF Agent
<1> QED
  BY <1>1, <1>2 DEF Handle

\* What attaching to a conversation changes of an agent.
LEMMA OpensOn ==
  ASSUME NEW h, NEW ag \in Agent, NEW c \in Nat, NEW resumed \in BOOLEAN
  PROVE  LET s == OpenOn(h, ag, c, resumed) IN
           /\ s \in Agent /\ SameSelf(ag, s)
           /\ s.at = [ag.at EXCEPT ![ag.dir] = c] /\ s.cur = ag.dir
           /\ s.sid = ag.sid \/ s.sid = c
           /\ s.frame => resumed /\ (h = "cursor" \/ ag.frame)
<1> DEFINE sid == IF RecordsAtAttach(h, ag) THEN c ELSE ag.sid
           fr == CASE h = "cursor" -> resumed
                   [] h = "cline" -> FALSE
                   [] OTHER -> resumed /\ ag.frame
<1>1. sid \in Nat /\ (sid = ag.sid \/ sid = c)
  BY DEF Agent
<1>2. fr \in BOOLEAN /\ (fr => resumed /\ (h = "cursor" \/ ag.frame))
  BY DEF Agent
<1>3. ag.dir \in Dirs /\ ag.at \in [Dirs -> Nat]
  BY DEF Agent
<1>4. OpenOn(h, ag, c, resumed) =
        [ag EXCEPT !.at = [ag.at EXCEPT ![ag.dir] = c], !.cur = ag.dir, !.sid = sid, !.frame = fr]
  BY DEF OpenOn
<1> HIDE DEF sid, fr
<1> DEFINE s == OpenOn(h, ag, c, resumed)
<1>5. s \in Agent
  <2> DEFINE at == [ag.at EXCEPT ![ag.dir] = c]
  <2>1. at \in [Dirs -> Nat]
    BY <1>3
  <2>2. fr \in BOOLEAN
    BY <1>2
  <2>3. s = [ag EXCEPT !.at = at, !.cur = ag.dir, !.sid = sid, !.frame = fr]
    BY <1>4
  <2> HIDE DEF at, s
  <2> QED
    BY <1>1, <2>2, <1>3, <2>1, <2>3 DEF Agent
<1>8. s.on = ag.on /\ s.role = ag.role /\ s.eph = ag.eph /\ s.bound = ag.bound /\ s.session = ag.session
  BY <1>4 DEF Agent
<1>6. s.at = [ag.at EXCEPT ![ag.dir] = c] /\ s.cur = ag.dir /\ s.sid = sid
  BY <1>3, <1>4 DEF Agent
<1>7. s.frame = fr
  BY <1>4 DEF Agent
<1> QED
  BY <1>1, <1>2, <1>5, <1>6, <1>7, <1>8 DEF SameSelf

\* What opening a session may come to, as the proofs read it.
AttachedOk(h, ag, heard, n, att) ==
  /\ att.ag \in Agent /\ SameSelf(ag, att.ag) /\ att.ag.cur = ag.dir
  /\ att.conv \in Nat \ {0} /\ att.n \in Nat /\ att.told \in SUBSET Nat
  /\ heard \subseteq att.told /\ n <= att.n
  /\ att.ag.sid = ag.sid \/ att.ag.sid = att.conv
  /\ \/ /\ Handle(h, ag) # 0 /\ att.conv = Handle(h, ag) /\ att.ag.at = ag.at
        /\ (att.ag.frame => ag.frame) /\ att.told = heard
     \/ /\ Handle(h, ag) = 0 /\ att.ag.at = [ag.at EXCEPT ![ag.dir] = att.conv]
        /\ \/ /\ att.conv = att.n /\ ~att.ag.frame
              /\ h = "cline" /\ ag.words => att.conv \in att.told
           \/ /\ att.conv = Recorded(h, ag) /\ h # "cline" /\ att.told = heard /\ att.n = n
              /\ att.ag.frame => h = "cursor" \/ ag.frame

\* The session id a row has recorded is the agent's own or none.
LEMMA RecordedType ==
  ASSUME NEW h, NEW ag \in Agent
  PROVE  Recorded(h, ag) \in {0, ag.sid} /\ Recorded(h, ag) \in Nat
BY DEF Recorded, Agent

\* What an attach may return.
LEMMA Attaches ==
  ASSUME NEW h, NEW ag \in Agent, NEW heard \in SUBSET Nat, NEW said, NEW n \in Nat,
         NEW att \in Attach(h, ag, heard, said, n)
  PROVE  AttachedOk(h, ag, heard, n, att)
<1>0. \A p \in Nat, yes \in BOOLEAN :
        LET s == OpenOn(h, ag, p, yes) IN
           /\ s \in Agent /\ SameSelf(ag, s)
           /\ s.at = [ag.at EXCEPT ![ag.dir] = p] /\ s.cur = ag.dir
           /\ s.sid = ag.sid \/ s.sid = p
           /\ s.frame => yes /\ (h = "cursor" \/ ag.frame)
  BY OpensOn
<1> DEFINE c == Handle(h, ag)
           prev == Recorded(h, ag)
           born == IF h = "cline" /\ ag.words THEN heard \union {n + 1} ELSE heard
           still == ag.frame /\ ~(h \in {"claude", "deepseek"} /\ ag.cur # ag.dir /\ c \notin said)
           Kept == [ag |-> [ag EXCEPT !.cur = ag.dir, !.frame = still],
                    conv |-> c, told |-> heard, n |-> n]
           Fresh == [ag |-> OpenOn(h, ag, n + 1, FALSE), conv |-> n + 1, told |-> born, n |-> n + 1]
           Again == [ag |-> OpenOn(h, ag, prev, TRUE), conv |-> prev, told |-> heard, n |-> n]
<1>1. c \in Nat /\ prev \in Nat /\ (prev = 0 \/ prev = ag.sid)
  BY HandleType, RecordedType
<1>2. \/ c # 0 /\ att = Kept
      \/ c = 0 /\ att = Fresh
      \/ c = 0 /\ prev # 0 /\ h # "cline" /\ att = Again
  BY DEF Attach
<1>3. ASSUME c # 0, att = Kept PROVE AttachedOk(h, ag, heard, n, att)
  <2>1. still \in BOOLEAN /\ (still => ag.frame) /\ ag.dir \in Dirs
    BY DEF Agent
  <2>2. att.ag = [ag EXCEPT !.cur = ag.dir, !.frame = still] /\ att.conv = c /\ att.told = heard /\ att.n = n
    BY <1>3
  <2> HIDE DEF still, Kept, c
  <2>3. att.ag \in Agent /\ SameSelf(ag, att.ag) /\ att.ag.cur = ag.dir /\ att.ag.sid = ag.sid
        /\ att.ag.at = ag.at /\ att.ag.frame = still
    BY <2>1, <2>2 DEF Agent, SameSelf
  <2> QED
    BY <1>1, <1>3, <2>1, <2>2, <2>3 DEF AttachedOk, c
<1>4. ASSUME c = 0, att = Fresh PROVE AttachedOk(h, ag, heard, n, att)
  <2>1. att.ag = OpenOn(h, ag, n + 1, FALSE) /\ att.conv = n + 1 /\ att.told = born /\ att.n = n + 1
    BY <1>4
  <2>2. born \in SUBSET Nat /\ heard \subseteq born /\ (h = "cline" /\ ag.words => n + 1 \in born)
    OBVIOUS
  <2>3. n + 1 \in Nat \ {0} /\ n <= n + 1
    OBVIOUS
  <2> HIDE DEF Fresh, born
  <2>4. /\ att.ag \in Agent /\ SameSelf(ag, att.ag)
        /\ att.ag.at = [ag.at EXCEPT ![ag.dir] = n + 1] /\ att.ag.cur = ag.dir
        /\ att.ag.sid = ag.sid \/ att.ag.sid = n + 1
        /\ ~att.ag.frame
    <3>1. n + 1 \in Nat
      BY <2>3
    <3>2. PICK no \in BOOLEAN : no = FALSE
      OBVIOUS
    <3> QED
      BY <1>0, <2>1, <3>1, <3>2
  <2> QED
    BY <1>4, <2>1, <2>2, <2>3, <2>4 DEF AttachedOk
<1>5. ASSUME c = 0, prev # 0, h # "cline", att = Again PROVE AttachedOk(h, ag, heard, n, att)
  <2>1. att.ag = OpenOn(h, ag, prev, TRUE) /\ att.conv = prev /\ att.told = heard /\ att.n = n
    BY <1>5
  <2> HIDE DEF Again
  <2>2. /\ att.ag \in Agent /\ SameSelf(ag, att.ag)
        /\ att.ag.at = [ag.at EXCEPT ![ag.dir] = prev] /\ att.ag.cur = ag.dir
        /\ att.ag.sid = ag.sid \/ att.ag.sid = prev
        /\ att.ag.frame => h = "cursor" \/ ag.frame
    <3>1. prev \in Nat
      BY <1>1
    <3> HIDE DEF prev, c
    <3>2. PICK p \in Nat : p = prev
      BY <3>1
    <3>3. PICK yes \in BOOLEAN : yes = TRUE
      OBVIOUS
    <3> QED
      BY <1>0, <2>1, <3>2, <3>3
  <2>3. h = "cursor" \/ h # "cursor"
    OBVIOUS
  <2> HIDE DEF c, prev
  <2>4. att.conv \in Nat \ {0} /\ att.n \in Nat /\ att.told \in SUBSET Nat /\ heard \subseteq att.told /\ n <= att.n
    BY <1>1, <1>5, <2>1
  <2> QED
    BY <1>1, <1>5, <2>1, <2>2, <2>4, Zenon DEF AttachedOk, c, prev
<1> QED
  BY <1>2, <1>3, <1>4, <1>5

\* Recording a session id changes nothing else.
LEMMA Records ==
  ASSUME NEW h, NEW ag \in Agent, NEW c \in Nat
  PROVE  LET s == Record(h, ag, c) IN
           /\ s \in Agent /\ SameSelf(ag, s)
           /\ s.at = ag.at /\ s.cur = ag.cur /\ s.frame = ag.frame
           /\ s.sid = ag.sid \/ s.sid = c
BY DEF Record, Agent, SameSelf

\* Marking the frame as sent changes nothing else, and only a turn that succeeded
\* marks it.
LEMMA Marks ==
  ASSUME NEW ok \in BOOLEAN, NEW ag \in Agent
  PROVE  LET s == markLLMFrameSent(ok, ag) IN
           /\ s \in Agent /\ SameSelf(ag, s)
           /\ s.at = ag.at /\ s.cur = ag.cur /\ s.sid = ag.sid
           /\ s.frame => ok \/ ag.frame
<1>1. CASE ok
  BY <1>1 DEF markLLMFrameSent, Agent, SameSelf
<1>2. CASE ~ok
  BY <1>2 DEF markLLMFrameSent, SameSelf
<1> QED
  BY <1>1, <1>2

\* An agent and its row are written together.
LEMMA Writes ==
  ASSUME Typed, NEW i \in Ids, NEW ag \in Agent, Write(i, ag)
  PROVE  /\ agents' \in [Ids -> Agent] /\ rows' \in [Ids -> AgentRow]
         /\ agents'[i] = ag /\ rows'[i] = Row(ag)
         /\ \A j \in Ids \ {i} : agents'[j] = agents[j] /\ rows'[j] = rows[j]
<1>1. Row(ag) \in AgentRow
  BY RowType
<1> QED
  BY <1>1 DEF Write, Typed

\* An answer frees its agent and moves at most the request it is for.
LEMMA Answers ==
  ASSUME Typed, NEW i \in Ids, NEW for, Answered(i, for)
  PROVE  /\ work' \in [Ids -> Work] /\ reqs' \in [Requests -> RequestState]
         /\ work'[i] = Nobody /\ \A j \in Ids \ {i} : work'[j] = work[j]
         /\ \A q \in Requests : /\ reqs'[q].agent = reqs[q].agent
                                /\ reqs'[q].pc = reqs[q].pc \/ reqs'[q].pc = "done"
<1>1. Nobody \in Work
  BY DEF Nobody, Work
<1>2. work' = [work EXCEPT ![i] = Nobody]
  BY DEF Answered
<1>3. reqs' = [q \in Requests |-> IF q = for THEN [reqs[q] EXCEPT !.pc = "done"] ELSE reqs[q]]
  BY DEF Answered
<1>4. \A q \in Requests : [reqs[q] EXCEPT !.pc = "done"] \in RequestState
  BY DEF Typed, RequestState
<1>5. reqs' \in [Requests -> RequestState]
  BY <1>3, <1>4 DEF Typed
<1>6. \A q \in Requests : /\ reqs'[q].agent = reqs[q].agent
                          /\ reqs'[q].pc = reqs[q].pc \/ reqs'[q].pc = "done"
  BY <1>3 DEF Typed, RequestState
<1> QED
  BY <1>1, <1>2, <1>5, <1>6 DEF Typed

\* An answer moves at most the loan it is for.
LEMMA Rounds ==
  ASSUME Typed, NEW s, NEW n \in Nat, NEW for, WithRound(s, n, for)
  PROVE  /\ loans' \in [Loans -> Loan]
         /\ \A l \in Loans : /\ loans'[l].agent = loans[l].agent
                             /\ loans'[l].pc = IF l = for THEN "answered" ELSE loans[l].pc
<1> DEFINE Step(l) == IF l = for THEN [loans[l] EXCEPT !.pc = "answered"] ELSE loans[l]
           Next1(l) == IF l = s THEN [Step(l) EXCEPT !.round = n] ELSE Step(l)
<1>1. loans' = [l \in Loans |-> Next1(l)]
  BY DEF WithRound
<1>2. ASSUME NEW l \in Loans
      PROVE  /\ Step(l) \in Loan /\ Step(l).agent = loans[l].agent
             /\ Step(l).pc = IF l = for THEN "answered" ELSE loans[l].pc
  BY DEF Typed, Loan
<1> HIDE DEF Step
<1>3. ASSUME NEW l \in Loans
      PROVE  Next1(l) \in Loan /\ Next1(l).agent = Step(l).agent /\ Next1(l).pc = Step(l).pc
  BY <1>2 DEF Loan
<1> HIDE DEF Next1
<1> QED
  BY <1>1, <1>2, <1>3

\* What a step leaves of who the agents are, and of the ids that were handed out.
SelvesKept ==
  /\ pairing' = pairing
  /\ \A i \in Ids : /\ agents'[i].on = agents[i].on /\ agents'[i].role = agents[i].role
                    /\ agents'[i].bound = agents[i].bound
                    /\ rows[i].kept # "none" => rows'[i].kept # "none"
                    /\ rows[i].kept = "live" => rows'[i].kept = "live"

\* One agent went on, with its row, and keeps who it is.
OneGoesOn(i) ==
  /\ SameSelf(agents[i], agents'[i]) /\ rows'[i].kept = "live" /\ rows'[i].sid = agents'[i].sid
  /\ \A j \in Ids \ {i} : agents'[j] = agents[j] /\ rows'[j] = rows[j]

\* An agent goes on as who it is.
LEMMA WritesOn ==
  ASSUME Typed, NEW i \in Ids, NEW ag \in Agent, Write(i, ag), SameSelf(agents[i], ag)
  PROVE  /\ agents' \in [Ids -> Agent] /\ rows' \in [Ids -> AgentRow]
         /\ agents'[i] = ag /\ OneGoesOn(i)
<1>1. Row(ag).kept = "live" /\ Row(ag).sid = ag.sid
  BY RowType
<1>2. /\ agents' \in [Ids -> Agent] /\ rows' \in [Ids -> AgentRow]
      /\ agents'[i] = ag /\ rows'[i] = Row(ag)
      /\ \A j \in Ids \ {i} : agents'[j] = agents[j] /\ rows'[j] = rows[j]
  BY Writes
<1> QED
  BY <1>1, <1>2 DEF OneGoesOn

\* When one agent goes on, every agent stays who it is.
LEMMA GoesOnKeeps ==
  ASSUME Typed, NEW i \in Ids, OneGoesOn(i), pairing' = pairing
  PROVE  SelvesKept
BY DEF OneGoesOn, SameSelf, SelvesKept

\* An unused id is nobody's.
LEMMA FreshId ==
  ASSUME Typed, RowOfEach, NEW i \in Ids, rows[i].kept = "none"
  PROVE  agents[i].role = "none" /\ ~agents[i].on
BY DEF RowOfEach, Typed, Agent

\* What the step changes, and that it keeps the types; likewise below, one lemma
\* per action.
LEMMA InitializeStep ==
  ASSUME Typed, Initialize
  PROVE  /\ Typed' /\ pairing = 0
         /\ \E i \in Ids : /\ rows[i].kept = "none" /\ agents'[i] = NewAgent("planner", FALSE, FALSE)
                           /\ rows'[i].kept = "live" /\ rows'[i].sid = 0
                           /\ \A j \in Ids \ {i} : agents'[j] = agents[j] /\ rows'[j] = rows[j]
<1> DEFINE i == Min(Unused)
           ag == NewAgent("planner", FALSE, FALSE)
<1>1. Unused # {} /\ pairing = 0 /\ Write(i, ag)
  BY DEF Initialize
<1>2. UNCHANGED <<pairing, pool, reqs, loans, work, told, convs, harness, hist>>
  BY DEF Initialize, provider, bounds
<1>3. i \in Ids /\ rows[i].kept = "none"
  BY <1>1, UnusedMin
<1>4. ag \in Agent /\ ag.sid = 0
  BY NewAgentType
<1> HIDE DEF i, ag
<1>5. /\ agents' \in [Ids -> Agent] /\ rows' \in [Ids -> AgentRow]
      /\ agents'[i] = ag /\ rows'[i] = Row(ag)
      /\ \A j \in Ids \ {i} : agents'[j] = agents[j] /\ rows'[j] = rows[j]
  BY <1>1, <1>3, <1>4, Writes
<1>6. Row(ag).kept = "live" /\ Row(ag).sid = 0
  BY <1>4, RowType
<1>7. Typed'
  BY <1>2, <1>5 DEF Typed
<1> QED
  BY <1>1, <1>3, <1>5, <1>6, <1>7 DEF ag

LEMMA RestartStep ==
  ASSUME Typed, Restart
  PROVE  /\ Typed' /\ pairing' = pairing /\ rows' = rows /\ convs' = convs /\ harness' = harness
         /\ agents' = [i \in Ids |-> NoAgent] /\ work' = [i \in Ids |-> Nobody]
         /\ \A q \in Requests : reqs'[q].pc \in {"new", "done"}
         /\ \A l \in Loans : loans'[l].pc \in {"new", "done"}
         /\ hist'.untold = {} /\ hist'.shared = {} /\ hist'.old = convs
<1>1. Nobody \in Work
  BY DEF Nobody, Work
<1>2. reqs' \in [Requests -> RequestState] /\ \A q \in Requests : reqs'[q].pc \in {"new", "done"}
  <2>1. \A q \in Requests : [reqs[q] EXCEPT !.pc = "done"] \in RequestState
                            /\ [reqs[q] EXCEPT !.pc = "done"].pc = "done"
    BY DEF Typed, RequestState
  <2> QED
    BY <2>1 DEF Restart, Typed
<1>3. loans' \in [Loans -> Loan] /\ \A l \in Loans : loans'[l].pc \in {"new", "done"}
  <2>1. [pc |-> "done", agent |-> 0, round |-> 0] \in Loan
    BY DEF Loan
  <2> QED
    BY <2>1 DEF Restart, Typed
<1>4. /\ hist' \in History /\ hist'.untold = {} /\ hist'.shared = {} /\ hist'.old = convs
  <2>1. hist' = [NoHist EXCEPT !.old = convs]
    BY DEF Restart
  <2>2. NoHist \in History /\ NoHist.untold = {} /\ NoHist.shared = {}
    BY DEF NoHist, History
  <2> QED
    BY <2>1, <2>2 DEF Typed, History
<1>5. agents' = [i \in Ids |-> NoAgent] /\ work' = [i \in Ids |-> Nobody]
      /\ UNCHANGED <<harness, rows, pairing, pool, told, convs>>
  BY DEF Restart, provider
<1>6. Typed'
  BY <1>1, <1>2, <1>3, <1>4, <1>5, NoAgentType DEF Typed
<1> QED
  BY <1>2, <1>3, <1>4, <1>5, <1>6

LEMMA LookupStep ==
  ASSUME Typed, NEW q \in Requests, NEW a, Lookup(q, a)
  PROVE  /\ Typed'
         /\ UNCHANGED <<agents, rows, pairing, loans, work, told, convs, harness, hist>>
         /\ \E i \in StoredOrHeld : reqs'[q].pc = "found" /\ reqs'[q].agent = i
         /\ \A p \in Requests \ {q} : reqs'[p] = reqs[p]
<1>1. a \in Accounts \union {NoAccount}
  BY DEF Lookup, Enabled
<1>2. PICK i \in StoredOrHeld : reqs' = [reqs EXCEPT ![q] = [pc |-> "found", acct |-> a, agent |-> i]]
  BY DEF Lookup
<1>3. i \in Ids \union {0}
  BY DEF StoredOrHeld, ForTask, ForInitialization, Planners, Typed
<1>4. [pc |-> "found", acct |-> a, agent |-> i] \in RequestState
  BY <1>1, <1>3 DEF RequestState
<1>5. UNCHANGED <<agents, rows, pairing, pool, loans, work, told, convs, harness, hist>>
  BY DEF Lookup, provider, bounds
<1>6. reqs' \in [Requests -> RequestState] /\ reqs'[q].pc = "found" /\ reqs'[q].agent = i
      /\ \A p \in Requests \ {q} : reqs'[p] = reqs[p]
  BY <1>2, <1>4 DEF Typed
<1>7. Typed'
  BY <1>5, <1>6 DEF Typed
<1> QED
  BY <1>5, <1>6, <1>7

\* Naming an account changes neither who an agent is nor its conversations.
LEMMA NamedAccount ==
  ASSUME Typed, NEW ag \in Agent, NEW a \in Accounts \union {NoAccount}
  PROVE  /\ Named(ag, a) \in Agent /\ SameSelf(ag, Named(ag, a)) /\ SameTalk(ag, Named(ag, a))
<1>1. CASE a = NoAccount \/ ag.acct = a
  BY <1>1 DEF Named, SameSelf, SameTalk
<1>2. CASE ~(a = NoAccount \/ ag.acct = a)
  BY <1>2, Adopts DEF Named
<1> QED
  BY <1>1, <1>2

\* An agent that has had no conversation yet.
Silent(ag) == (\A d \in Dirs : ag.at[d] = 0) /\ ag.cur = NoDir /\ ~ag.frame

\* What queueing an instruction does to the agent it is queued for.
PairedMade(q, i) ==
  /\ reqs[q].agent = 0 /\ rows[i].kept = "none" /\ pairing' = i
  /\ agents'[i].role = "planner" /\ ~agents'[i].eph /\ Silent(agents'[i]) /\ agents'[i].sid = 0
  /\ rows'[i].kept = "live" /\ rows'[i].sid = 0
PairedOn(q, i) ==
  /\ reqs[q].agent = i /\ agents[i].on /\ pairing' = IF agents[i].bound THEN pairing ELSE i
  /\ agents'[i].role = agents[i].role /\ agents'[i].eph = agents[i].eph
  /\ agents'[i].session = agents[i].session /\ SameTalk(agents[i], agents'[i])
  /\ rows'[i] = rows[i] \/ (rows'[i].kept = "live" /\ rows'[i].sid = agents[i].sid)
PairedBack(q, i) ==
  /\ reqs[q].agent = i /\ ~agents[i].on /\ pairing' = i
  /\ agents'[i].role = "planner" /\ ~agents'[i].eph /\ Silent(agents'[i])
  /\ agents'[i].sid = rows[i].sid /\ rows'[i].sid = rows[i].sid
  /\ rows'[i].kept = rows[i].kept \/ rows'[i].kept = "live"

LEMMA PairStep ==
  ASSUME Typed, NEW q \in Requests, Pair(q)
  PROVE  /\ Typed' /\ reqs[q].pc = "found"
         /\ UNCHANGED <<loans, work, told, convs, harness>>
         /\ hist'.shared = hist.shared /\ hist'.untold = hist.untold /\ hist'.old = hist.old
         /\ \E i \in Ids : /\ reqs'[q].pc = "queued" /\ reqs'[q].agent = i
                           /\ agents'[i].on /\ agents'[i].bound
                           /\ PairedMade(q, i) \/ PairedOn(q, i) \/ PairedBack(q, i)
                           /\ \A j \in Ids \ {i} : agents'[j] = agents[j] /\ rows'[j] = rows[j]
         /\ \A p \in Requests \ {q} : reqs'[p] = reqs[p]
<1> DEFINE r == reqs[q]
           i == IF r.agent = 0 THEN Min(Unused) ELSE r.agent
           ag == IF r.agent = 0 THEN NewAgent("planner", FALSE, TRUE)
                 ELSE IF agents[i].on THEN [agents[i] EXCEPT !.bound = TRUE]
                 ELSE RestoredAgent(rows[i])
           s == Named(ag, r.acct)
           new == IF r.agent = 0 \/ (agents[i].on /\ ~agents[i].bound) \/ s # ag THEN Row(s) ELSE rows[i]
<1>1. /\ r.pc = "found" /\ (r.agent = 0 => Unused # {})
      /\ agents' = [agents EXCEPT ![i] = s]
      /\ rows' = [rows EXCEPT ![i] = new]
      /\ pairing' = IF r.agent = 0 \/ ~agents[i].on \/ ~agents[i].bound THEN i ELSE pairing
      /\ reqs' = [reqs EXCEPT ![q].pc = "queued", ![q].agent = i]
      /\ hist' = [hist EXCEPT !.had = hist.had \union ({r.acct} \ {NoAccount})]
      /\ UNCHANGED <<pool, loans, work, told, convs, harness>>
  BY DEF Pair, provider, bounds
<1>2. r \in RequestState
  BY DEF Typed
<1>3. i \in Ids /\ (r.agent = 0 => rows[i].kept = "none") /\ (r.agent # 0 => r.agent = i)
  BY <1>1, <1>2, UnusedMin DEF RequestState
<1>4. ag \in Agent /\ ag.on /\ ag.bound
  <2>1. CASE r.agent = 0
    BY <2>1, NewAgentType
  <2>2. CASE r.agent # 0 /\ agents[i].on
    <3>1. ag = [agents[i] EXCEPT !.bound = TRUE] /\ agents[i] \in Agent
      BY <1>3, <2>2 DEF Typed
    <3> HIDE DEF ag, i
    <3> QED
      BY <2>2, <3>1 DEF Agent
  <2>3. CASE r.agent # 0 /\ ~agents[i].on
    <3>1. rows[i] \in AgentRow /\ ag = RestoredAgent(rows[i])
      BY <1>3, <2>3 DEF Typed
    <3> HIDE DEF ag, i
    <3> QED
      BY <3>1, RestoredType
  <2> QED
    BY <2>1, <2>2, <2>3
<1>5. r.acct \in Accounts \union {NoAccount}
  BY <1>2 DEF RequestState
<1>6. s \in Agent /\ SameSelf(ag, s) /\ SameTalk(ag, s)
  BY <1>4, <1>5, NamedAccount
<1>7. new \in AgentRow /\ (new = rows[i] \/ (new.kept = "live" /\ new.sid = s.sid))
      /\ (r.agent = 0 => new.kept = "live" /\ new.sid = s.sid)
  BY <1>3, <1>6, RowType DEF Typed
<1>8. hist' \in History /\ hist'.shared = hist.shared /\ hist'.untold = hist.untold /\ hist'.old = hist.old
  <2>1. hist.had \union ({r.acct} \ {NoAccount}) \in SUBSET Accounts
    BY <1>5 DEF Typed, History
  <2> HIDE DEF r
  <2> QED
    BY <1>1, <2>1 DEF Typed, History
<1>9. PairedMade(q, i) \/ PairedOn(q, i) \/ PairedBack(q, i)
  <2>1. agents'[i] = s /\ rows'[i] = new
    BY <1>1, <1>3 DEF Typed
  <2>2. CASE r.agent = 0
    <3>1. /\ ag.role = "planner" /\ ~ag.eph /\ ag.at = [d \in Dirs |-> 0] /\ ag.cur = NoDir
          /\ ~ag.frame /\ ag.sid = 0
      BY <2>2, NewAgentType
    <3>2. pairing' = i /\ rows[i].kept = "none" /\ new.kept = "live" /\ new.sid = s.sid
      BY <1>1, <1>3, <1>7, <2>2
    <3> HIDE DEF ag, s, new, i
    <3> QED
      BY <1>6, <2>1, <2>2, <3>1, <3>2 DEF PairedMade, Silent, SameSelf, SameTalk
  <2>3. CASE r.agent # 0 /\ agents[i].on
    <3>1. ag = [agents[i] EXCEPT !.bound = TRUE] /\ agents[i] \in Agent
      BY <1>3, <2>3 DEF Typed
    <3>2. pairing' = IF agents[i].bound THEN pairing ELSE i
      BY <1>1, <2>3
    <3>3. /\ ag.role = agents[i].role /\ ag.eph = agents[i].eph /\ ag.session = agents[i].session
          /\ SameTalk(agents[i], ag)
      <4> HIDE DEF ag, i
      <4> QED
        BY <3>1 DEF Agent, SameTalk
    <3>4. reqs[q].agent = i
      BY <1>3, <2>3
    <3> HIDE DEF ag, s, new, i
    <3> QED
      BY <1>6, <1>7, <2>1, <2>3, <3>2, <3>3, <3>4 DEF PairedOn, SameSelf, SameTalk
  <2>4. CASE r.agent # 0 /\ ~agents[i].on
    <3>1. rows[i] \in AgentRow /\ ag = RestoredAgent(rows[i])
      BY <1>3, <2>4 DEF Typed
    <3>2. /\ ag.role = "planner" /\ ~ag.eph /\ ag.at = [d \in Dirs |-> 0] /\ ag.cur = NoDir
          /\ ~ag.frame /\ ag.sid = rows[i].sid
      <4> HIDE DEF ag, s, new, i
      <4> QED
        BY <3>1, RestoredType
    <3>3. pairing' = i /\ reqs[q].agent = i
      BY <1>1, <1>3, <2>4
    <3> HIDE DEF ag, s, new, i
    <3> QED
      BY <1>6, <1>7, <2>1, <2>4, <3>2, <3>3 DEF PairedBack, Silent, SameSelf, SameTalk
  <2> QED
    BY <2>2, <2>3, <2>4
<1>10. reqs' \in [Requests -> RequestState] /\ reqs'[q].pc = "queued" /\ reqs'[q].agent = i
       /\ \A p \in Requests \ {q} : reqs'[p] = reqs[p]
  <2> HIDE DEF i
  <2> QED
    BY <1>1, <1>3 DEF Typed, RequestState
<1>11. agents'[i].on /\ agents'[i].bound
  <2>1. agents'[i] = s
    BY <1>1, <1>3 DEF Typed
  <2> HIDE DEF ag, s, i
  <2> QED
    BY <1>4, <1>6, <2>1 DEF SameSelf
<1>12. Typed' /\ \A j \in Ids \ {i} : agents'[j] = agents[j] /\ rows'[j] = rows[j]
  <2>1. pairing' \in Ids \union {0}
    BY <1>1, <1>3 DEF Typed
  <2> HIDE DEF ag, s, i, new
  <2> QED
    BY <1>1, <1>3, <1>6, <1>7, <1>8, <1>10, <2>1 DEF Typed
<1> HIDE DEF i
<1> QED
  BY <1>1, <1>3, <1>8, <1>9, <1>10, <1>11, <1>12

\* An agent begins to work for a request or a loan.
LEMMA Begins ==
  ASSUME Typed, NEW i \in Ids, NEW for \in Requests \union Loans, NEW sess \in Loans \union {"none", "own"},
         Busy(i, for, sess)
  PROVE  /\ work' \in [Ids -> Work] /\ work'[i].for = for /\ work'[i].sess = sess
         /\ work'[i].step = "turn" => agents[i].frame
         /\ \A j \in Ids \ {i} : work'[j] = work[j]
<1> DEFINE step == IF agents[i].frame THEN "turn" ELSE "frame"
<1>1. work' = [work EXCEPT ![i] = [for |-> for, sess |-> sess, step |-> step]]
  BY DEF Busy
<1>2. step \in {"frame", "turn"} /\ (step = "turn" => agents[i].frame)
  OBVIOUS
<1> HIDE DEF step
<1>3. [for |-> for, sess |-> sess, step |-> step] \in Work
  BY <1>2 DEF Work
<1> QED
  BY <1>1, <1>2, <1>3 DEF Typed

LEMMA InstructStep ==
  ASSUME Typed, QueuedOn, NEW q \in Requests, Instruct(q)
  PROVE  /\ Typed' /\ UNCHANGED <<loans, told, convs, harness, hist>>
         /\ reqs'[q].pc = "running" /\ \A p \in Requests \ {q} : reqs'[p] = reqs[p]
         /\ \E i \in ForTask :
              /\ reqs[q].pc = "queued" /\ reqs[q].agent = i /\ pairing' = i
              /\ agents'[i].on = agents[i].on /\ agents'[i].role = agents[i].role
              /\ agents'[i].eph = agents[i].eph /\ agents'[i].bound = agents[i].bound
              /\ SameTalk(agents[i], agents'[i])
              /\ rows'[i].kept = "live" /\ rows'[i].sid = agents[i].sid
              /\ work'[i].for = q /\ (work'[i].step = "turn" => agents[i].frame)
              /\ \A j \in Ids \ {i} : agents'[j] = agents[j] /\ rows'[j] = rows[j] /\ work'[j] = work[j]
<1> DEFINE i == reqs[q].agent
           ag == [agents[i] EXCEPT !.running = TRUE, !.session = "own"]
<1>1. /\ reqs[q].pc = "queued" /\ Busy(i, q, "own") /\ Write(i, ag) /\ pairing' = i
      /\ reqs' = [reqs EXCEPT ![q].pc = "running"]
      /\ UNCHANGED <<pool, loans, told, convs, harness, hist>>
  BY DEF Instruct, provider, bounds
<1>2. i \in ForTask /\ i \in Ids
  BY <1>1 DEF QueuedOn, ForTask, Planners
<1>3. agents[i] \in Agent
  BY <1>2 DEF Typed
<1>4. reqs' \in [Requests -> RequestState] /\ reqs'[q].pc = "running" /\ \A p \in Requests \ {q} : reqs'[p] = reqs[p]
  BY <1>1 DEF Typed, RequestState
<1> HIDE DEF i
<1>5. /\ ag \in Agent
      /\ ag.on = agents[i].on /\ ag.role = agents[i].role /\ ag.eph = agents[i].eph
      /\ ag.bound = agents[i].bound /\ SameTalk(agents[i], ag)
  BY <1>3 DEF Agent, SameTalk
<1>6. ag.sid = agents[i].sid /\ Row(ag).kept = "live" /\ Row(ag).sid = ag.sid
  BY <1>5, RowType DEF SameTalk
<1> HIDE DEF ag
<1>7. /\ agents' \in [Ids -> Agent] /\ rows' \in [Ids -> AgentRow]
      /\ agents'[i] = ag /\ rows'[i] = Row(ag)
      /\ \A j \in Ids \ {i} : agents'[j] = agents[j] /\ rows'[j] = rows[j]
  BY <1>1, <1>2, <1>5, Writes
<1>8. /\ work' \in [Ids -> Work] /\ work'[i].for = q /\ (work'[i].step = "turn" => agents[i].frame)
      /\ \A j \in Ids \ {i} : work'[j] = work[j]
  BY <1>1, <1>2, Begins
<1>9. Typed'
  BY <1>1, <1>2, <1>4, <1>7, <1>8 DEF Typed
<1> QED
  BY <1>1, <1>2, <1>4, <1>5, <1>6, <1>7, <1>8, <1>9 DEF i

\* What a turn that ends leaves, whoever asked for it.
WorkEnds(i) ==
  /\ work'[i] = Nobody /\ \A j \in Ids \ {i} : work'[j] = work[j]
  /\ \A q \in Requests : /\ reqs'[q].agent = reqs[q].agent
                         /\ reqs'[q].pc = reqs[q].pc \/ reqs'[q].pc = "done"
  /\ \A l \in Loans : /\ loans'[l].agent = loans[l].agent
                      /\ loans'[l].pc = IF l = work[i].for THEN "answered" ELSE loans[l].pc

\* Work ends with its answer.
LEMMA Ends ==
  ASSUME Typed, NEW i \in Ids, NEW s, NEW n \in Nat,
         Answered(i, work[i].for), WithRound(s, n, work[i].for)
  PROVE  /\ work' \in [Ids -> Work] /\ reqs' \in [Requests -> RequestState] /\ loans' \in [Loans -> Loan]
         /\ WorkEnds(i)
<1> DEFINE for == work[i].for
<1> HIDE DEF for
<1>1. Answered(i, for) /\ WithRound(s, n, for)
  BY DEF for
<1>2. /\ work' \in [Ids -> Work] /\ reqs' \in [Requests -> RequestState]
      /\ work'[i] = Nobody /\ \A j \in Ids \ {i} : work'[j] = work[j]
      /\ \A q \in Requests : /\ reqs'[q].agent = reqs[q].agent
                             /\ reqs'[q].pc = reqs[q].pc \/ reqs'[q].pc = "done"
  BY <1>1, Answers
<1>3. /\ loans' \in [Loans -> Loan]
      /\ \A l \in Loans : /\ loans'[l].agent = loans[l].agent
                          /\ loans'[l].pc = IF l = for THEN "answered" ELSE loans[l].pc
  BY <1>1, Rounds
<1> QED
  BY <1>2, <1>3 DEF WorkEnds, for

LEMMA RefusedStep ==
  ASSUME Typed, NEW i \in Ids, Refused(i)
  PROVE  /\ Typed' /\ work[i] # Nobody /\ WorkEnds(i)
         /\ UNCHANGED <<agents, rows, pairing, told, convs, harness, hist>>
<1>1. /\ work[i] # Nobody /\ Answered(i, work[i].for) /\ WithRound("none", 0, work[i].for)
      /\ UNCHANGED <<agents, rows, pairing, pool, told, convs, harness, hist>>
  BY DEF Refused, provider, bounds
<1>2. /\ work' \in [Ids -> Work] /\ reqs' \in [Requests -> RequestState] /\ loans' \in [Loans -> Loan]
      /\ WorkEnds(i)
  BY <1>1, Ends
<1>3. Typed'
  BY <1>1, <1>2 DEF Typed
<1> QED
  BY <1>1, <1>2, <1>3

LEMMA DrainedStep ==
  ASSUME Typed, NEW i \in Ids, Drained(i)
  PROVE  /\ Typed' /\ OneGoesOn(i) /\ SameTalk(agents[i], agents'[i])
         /\ UNCHANGED <<pairing, reqs, loans, work, told, convs, harness, hist>>
<1> DEFINE ag == [agents[i] EXCEPT !.running = FALSE]
<1>1. Write(i, ag) /\ UNCHANGED <<pairing, pool, reqs, loans, work, told, convs, harness, hist>>
  BY DEF Drained, provider, bounds
<1>2. ag \in Agent /\ SameSelf(agents[i], ag) /\ SameTalk(agents[i], ag)
  BY DEF Typed, Agent, SameSelf, SameTalk
<1> HIDE DEF ag
<1>3. agents' \in [Ids -> Agent] /\ rows' \in [Ids -> AgentRow] /\ agents'[i] = ag /\ OneGoesOn(i)
  BY <1>1, <1>2, WritesOn
<1>4. Typed'
  BY <1>1, <1>3 DEF Typed
<1> QED
  BY <1>1, <1>2, <1>3, <1>4

LEMMA AcquireStep ==
  ASSUME Typed, NEW l \in Loans, NEW eph \in BOOLEAN, Acquire(l, eph)
  PROVE  /\ Typed' /\ UNCHANGED <<agents, rows, pairing, reqs, work, told, convs, harness, hist>>
         /\ loans[l].pc = "new" /\ loans'[l].pc \in {"ephemeral", "register", "lend"}
         /\ loans'[l].pc = "lend" => loans'[l].agent \in IdleWorker
         /\ \A k \in Loans \ {l} : loans'[k] = loans[k]
<1> DEFINE pc == IF eph THEN "ephemeral" ELSE IF IdleWorker = {} THEN "register" ELSE "lend"
           i == IF eph \/ IdleWorker = {} THEN 0 ELSE Min(IdleWorker)
<1>1. /\ loans[l].pc = "new" /\ loans' = [loans EXCEPT ![l].pc = pc, ![l].agent = i]
      /\ UNCHANGED <<agents, rows, pairing, pool, reqs, work, told, convs, harness, hist>>
  BY DEF Acquire, provider, bounds
<1>2. IdleWorker \in SUBSET Nat /\ IdleWorker \subseteq Ids
  BY WorkersAssumption DEF IdleWorker, Ids
<1>3. /\ pc \in {"ephemeral", "register", "lend"} /\ i \in Ids \union {0}
      /\ pc = "lend" => i \in IdleWorker
  BY <1>2, MinIsIn
<1> HIDE DEF pc, i
<1>4. /\ loans' \in [Loans -> Loan] /\ loans'[l].pc = pc /\ loans'[l].agent = i
      /\ \A k \in Loans \ {l} : loans'[k] = loans[k]
  BY <1>1, <1>3 DEF Typed, Loan
<1>5. Typed'
  BY <1>1, <1>4 DEF Typed
<1> QED
  BY <1>1, <1>3, <1>4, <1>5

LEMMA EditStep ==
  ASSUME Typed, NEW a \in Editable, EditAccount(a)
  PROVE  /\ Typed'
         /\ UNCHANGED <<agents, rows, pairing, reqs, loans, work, told, convs, harness, hist>>
<1>1. UNCHANGED <<agents, rows, pairing, reqs, loans, work, told, convs, harness, hist>>
  BY DEF EditAccount, provider
<1>2. a \in Accounts
  BY WorkersAssumption
<1>3. pool' \in [Accounts -> Account]
  <2>1. CASE pool' = [pool EXCEPT ![a].root = IF @ = "r1" THEN "r2" ELSE "r1"]
    BY <1>2, <2>1 DEF Typed, Account
  <2>2. CASE pool' = [pool EXCEPT ![a].enabled = ~@]
    BY <1>2, <2>2 DEF Typed, Account
  <2> QED
    BY <2>1, <2>2 DEF EditAccount
<1>4. Typed'
  BY <1>1, <1>3 DEF Typed
<1> QED
  BY <1>1, <1>4

\* The agent as it is once its session was opened.
OpenedOn(i, att) ==
  agents'[i].at = att.ag.at /\ agents'[i].cur = att.ag.cur /\ agents'[i].sid \in {att.ag.sid, att.conv}

\* The ways the frame may end: with the session's creation, as a turn, or in an error.
Goes(i) == /\ work'[i].step = "turn" /\ work'[i].for = work[i].for /\ work'[i].sess = work[i].sess
           /\ \A j \in Ids \ {i} : work'[j] = work[j]
           /\ UNCHANGED <<reqs, loans>>
FrameAtBirth(i, ag, att) ==
  /\ harness = "cline" /\ att.conv # ProviderSession(agents[i]) /\ told' = att.told /\ Goes(i)
FrameTold(i, ag, att) ==
  /\ told' = IF Keeps(harness, ag) THEN att.told \union {att.conv} ELSE att.told
  /\ Goes(i)
FrameFailed(i, att) ==
  told' = att.told /\ (agents'[i].frame => att.ag.frame) /\ WorkEnds(i)

LEMMA GiveFirstPromptStep ==
  ASSUME Typed, NEW i \in Ids, GiveFirstPrompt(i)
  PROVE  /\ Typed' /\ OneGoesOn(i) /\ pairing' = pairing /\ harness' = harness
         /\ work[i].step = "frame"
         /\ hist'.shared = hist.shared /\ hist'.untold = hist.untold /\ hist'.old = hist.old
         /\ \E ag, att :
              /\ ag \in Agent
              /\ SameSelf(agents[i], ag) /\ SameTalk(agents[i], ag) /\ ag.words
              /\ AttachedOk(harness, ag, told, convs, att) /\ convs' = att.n /\ OpenedOn(i, att)
              /\ FrameAtBirth(i, ag, att) \/ FrameTold(i, ag, att) \/ FrameFailed(i, att)
<1> DEFINE w == work[i]
           a == BilledTo(i)
           had0 == [agents[i] EXCEPT !.words = TRUE]
           ag == AdoptAccount(had0, a, pool)
           prev == ProviderSession(agents[i])
           Born(att) == /\ harness = "cline" /\ att.conv # prev /\ told' = att.told
                        /\ Write(i, markLLMFrameSent(TRUE, att.ag))
                        /\ work' = [work EXCEPT ![i].step = "turn"] /\ UNCHANGED <<reqs, drain, loans>>
           Turned(att, ok) ==
             /\ told' = IF ok /\ Keeps(harness, ag) THEN att.told \union {att.conv} ELSE att.told
             /\ Write(i, markLLMFrameSent(ok, Record(harness, att.ag, att.conv)))
             /\ IF ok THEN work' = [work EXCEPT ![i].step = "turn"] /\ UNCHANGED <<reqs, drain, loans>>
                      ELSE Answered(i, w.for) /\ WithRound("none", 0, w.for)
<1>1. /\ w.step = "frame" /\ a # NoAccount
      /\ hist' = [hist EXCEPT !.had = IF ag.role = "planner" THEN hist.had \union {a} ELSE hist.had]
      /\ UNCHANGED <<pairing, pool, harness>>
  BY DEF GiveFirstPrompt, bounds
<1>2. PICK att \in Attach(harness, ag, told, used, convs) :
        convs' = att.n /\ (Born(att) \/ \E ok \in BOOLEAN : Turned(att, ok))
  BY DEF GiveFirstPrompt
<1>3. agents[i] \in Agent /\ a \in Accounts
  <2>1. agents[i] \in Agent /\ agents[i].acct \in Accounts \union {NoAccount}
    BY DEF Typed, Agent
  <2>2. a \in Accounts \union {NoAccount}
    BY <2>1, BilledType DEF BilledTo
  <2> QED
    BY <1>1, <2>1, <2>2
<1>4. had0 \in Agent /\ SameSelf(agents[i], had0) /\ SameTalk(agents[i], had0) /\ had0.words
  BY <1>3 DEF Agent, SameSelf, SameTalk
<1>5. ag \in Agent /\ SameSelf(had0, ag) /\ SameTalk(had0, ag)
  <2> HIDE DEF had0, a
  <2> QED
    BY <1>3, <1>4, Adopts
<1>6. ag.words
  <2> HIDE DEF had0, a
  <2> QED
    BY <1>4 DEF AdoptAccount, Agent
<1>7. SameSelf(agents[i], ag) /\ SameTalk(agents[i], ag)
  <2> HIDE DEF had0, ag
  <2> QED
    BY <1>4, <1>5 DEF SameSelf, SameTalk
<1> HIDE DEF ag, a, had0
<1>8. AttachedOk(harness, ag, told, convs, att)
  BY <1>2, <1>5, Attaches DEF Typed
<1>9. hist' \in History /\ hist'.shared = hist.shared /\ hist'.untold = hist.untold /\ hist'.old = hist.old
  <2> DEFINE had == IF ag.role = "planner" THEN hist.had \union {a} ELSE hist.had
  <2>1. had \in SUBSET Accounts
    BY <1>3 DEF Typed, History
  <2>2. hist' = [hist EXCEPT !.had = had]
    BY <1>1
  <2> HIDE DEF had
  <2> QED
    BY <2>1, <2>2 DEF Typed, History
<1>10. /\ att.ag \in Agent /\ SameSelf(ag, att.ag) /\ att.conv \in Nat /\ att.n \in Nat /\ att.told \in SUBSET Nat
  BY <1>8 DEF AttachedOk
<1>11. ASSUME work' = [work EXCEPT ![i].step = "turn"], UNCHANGED <<reqs, drain, loans>>
       PROVE  work' \in [Ids -> Work] /\ Goes(i)
  BY <1>11 DEF Goes, Typed, Work
<1>12. ASSUME Born(att)
       PROVE  /\ Typed' /\ OneGoesOn(i) /\ OpenedOn(i, att) /\ FrameAtBirth(i, ag, att)
  <2> DEFINE s == markLLMFrameSent(TRUE, att.ag)
  <2>0. PICK yes \in BOOLEAN : yes = TRUE
    OBVIOUS
  <2>1. s \in Agent /\ SameSelf(att.ag, s) /\ s.at = att.ag.at /\ s.cur = att.ag.cur /\ s.sid = att.ag.sid
    BY <1>10, <2>0, Marks
  <2>2. SameSelf(agents[i], s)
    <3> HIDE DEF s
    <3> QED
      BY <1>7, <1>10, <2>1 DEF SameSelf
  <2>3. Write(i, s)
    BY <1>12
  <2> HIDE DEF s
  <2>4. agents' \in [Ids -> Agent] /\ rows' \in [Ids -> AgentRow] /\ agents'[i] = s /\ OneGoesOn(i)
    BY <2>1, <2>2, <2>3, WritesOn
  <2>5. work' \in [Ids -> Work] /\ Goes(i)
    BY <1>11, <1>12
  <2>6. told' = att.told /\ UNCHANGED <<reqs, loans>> /\ harness = "cline" /\ att.conv # ProviderSession(agents[i])
    BY <1>12
  <2>7. Typed'
    BY <1>1, <1>2, <1>9, <1>10, <2>4, <2>5, <2>6 DEF Typed
  <2>8. OpenedOn(i, att)
    BY <2>1, <2>4 DEF OpenedOn
  <2> QED
    BY <2>4, <2>5, <2>6, <2>7, <2>8 DEF FrameAtBirth
<1>13. ASSUME NEW ok \in BOOLEAN, Turned(att, ok)
       PROVE  /\ Typed' /\ OneGoesOn(i) /\ OpenedOn(i, att)
              /\ FrameTold(i, ag, att) \/ FrameFailed(i, att)
  <2> DEFINE r == Record(harness, att.ag, att.conv)
             s == markLLMFrameSent(ok, r)
  <2>1. /\ r \in Agent /\ SameSelf(att.ag, r)
        /\ r.at = att.ag.at /\ r.cur = att.ag.cur /\ r.frame = att.ag.frame
        /\ r.sid = att.ag.sid \/ r.sid = att.conv
    BY <1>10, Records
  <2>2. Write(i, s)
    BY <1>13
  <2> HIDE DEF r
  <2>3. /\ s \in Agent /\ SameSelf(r, s)
        /\ s.at = r.at /\ s.cur = r.cur /\ s.sid = r.sid
        /\ s.frame => ok \/ r.frame
    BY <2>1, Marks
  <2>4. SameSelf(agents[i], s)
    <3> HIDE DEF s
    <3> QED
      BY <1>7, <1>10, <2>1, <2>3 DEF SameSelf
  <2> HIDE DEF s
  <2>5. agents' \in [Ids -> Agent] /\ rows' \in [Ids -> AgentRow] /\ agents'[i] = s /\ OneGoesOn(i)
    BY <2>2, <2>3, <2>4, WritesOn
  <2>6. OpenedOn(i, att)
    BY <2>1, <2>3, <2>5 DEF OpenedOn
  <2>7. told' \in SUBSET Nat
    BY <1>10, <1>13
  <2>8. CASE ok
    <3>1. work' \in [Ids -> Work] /\ Goes(i)
      BY <1>11, <1>13, <2>8
    <3>2. told' = IF Keeps(harness, ag) THEN att.told \union {att.conv} ELSE att.told
      BY <1>13, <2>8
    <3>3. Typed'
      BY <1>1, <1>2, <1>9, <1>10, <2>5, <2>7, <3>1 DEF Typed, Goes
    <3> QED
      BY <2>5, <2>6, <3>1, <3>2, <3>3 DEF FrameTold
  <2>9. CASE ~ok
    <3>1. Answered(i, work[i].for) /\ WithRound("none", 0, work[i].for) /\ told' = att.told
      BY <1>13, <2>9
    <3>2. /\ work' \in [Ids -> Work] /\ reqs' \in [Requests -> RequestState] /\ loans' \in [Loans -> Loan]
          /\ WorkEnds(i)
      BY <3>1, Ends
    <3>3. Typed'
      BY <1>1, <1>2, <1>9, <1>10, <2>5, <2>7, <3>2 DEF Typed
    <3>4. agents'[i].frame => att.ag.frame
      BY <2>1, <2>3, <2>5, <2>9
    <3> QED
      BY <2>5, <2>6, <3>1, <3>2, <3>3, <3>4 DEF FrameFailed
  <2> QED
    BY <2>8, <2>9
<1>14. Typed' /\ OneGoesOn(i) /\ OpenedOn(i, att)
       /\ (FrameAtBirth(i, ag, att) \/ FrameTold(i, ag, att) \/ FrameFailed(i, att))
  <2>1. CASE Born(att)
    BY <1>12, <2>1
  <2>2. CASE \E ok \in BOOLEAN : Turned(att, ok)
    BY <1>13, <2>2
  <2> QED
    BY <1>2, <2>1, <2>2
<1>15. convs' = att.n
  BY <1>2
<1> HIDE DEF Born, Turned
<1> QED
  BY <1>1, <1>5, <1>6, <1>7, <1>8, <1>9, <1>14, <1>15

LEMMA TurnStep ==
  ASSUME Typed, NEW i \in Ids, Turn(i)
  PROVE  /\ Typed' /\ OneGoesOn(i) /\ pairing' = pairing /\ harness' = harness
         /\ work[i].step = "turn" /\ WorkEnds(i)
         /\ hist'.shared = hist.shared /\ hist'.old = hist.old
         /\ \E ag, att :
              /\ ag \in Agent
              /\ SameSelf(agents[i], ag) /\ SameTalk(agents[i], ag)
              /\ AttachedOk(harness, ag, told, convs, att) /\ convs' = att.n /\ OpenedOn(i, att)
              /\ told' = att.told /\ (agents'[i].frame => att.ag.frame)
              /\ hist'.untold = IF att.conv \in att.told THEN hist.untold ELSE hist.untold \union {i}
<1> DEFINE w == work[i]
           a == BilledTo(i)
           ag == AdoptAccount(agents[i], a, pool)
           own == w.sess \in Loans
           from == IF own THEN loans[w.sess].round ELSE 0
<1>1. w.step = "turn" /\ a # NoAccount /\ UNCHANGED <<pairing, pool, harness>>
  BY DEF Turn, bounds
<1>2. PICK att \in Attach(harness, ag, told, used, convs), n \in Tries(harness) :
        LET to == beginTurn(from, FALSE, n)
            new == IF own THEN (from + 1) .. to ELSE {}
        IN /\ convs' = att.n /\ told' = att.told /\ used' = used \union {att.conv}
           /\ Write(i, Record(harness, att.ag, att.conv))
           /\ Answered(i, w.for) /\ WithRound(w.sess, to, w.for)
           /\ hist' = [hist EXCEPT
                !.rounds[i] = @ \union new,
                !.twice = IF new \intersect hist.rounds[i] # {} THEN @ \union {i} ELSE @,
                !.untold = IF att.conv \in att.told THEN @ ELSE @ \union {i},
                !.had = IF ag.role = "planner" THEN @ \union {a} ELSE @,
                !.stray = IF ag.role = "planner" /\ named # NoAccount /\ a # named THEN @ \union {i} ELSE @]
  BY Zenon DEF Turn
<1>3. agents[i] \in Agent /\ a \in Accounts
  <2>1. agents[i] \in Agent /\ agents[i].acct \in Accounts \union {NoAccount}
    BY DEF Typed, Agent
  <2>2. a \in Accounts \union {NoAccount}
    BY <2>1, BilledType DEF BilledTo
  <2> QED
    BY <1>1, <2>1, <2>2
<1>4. ag \in Agent /\ SameSelf(agents[i], ag) /\ SameTalk(agents[i], ag)
  <2> HIDE DEF a
  <2> QED
    BY <1>3, Adopts
<1> HIDE DEF ag, a
<1>5. AttachedOk(harness, ag, told, convs, att)
  BY <1>2, <1>4, Attaches DEF Typed
<1>6. /\ att.ag \in Agent /\ SameSelf(ag, att.ag) /\ att.conv \in Nat /\ att.n \in Nat /\ att.told \in SUBSET Nat
  BY <1>5 DEF AttachedOk
<1> DEFINE to == beginTurn(from, FALSE, n)
           new == IF own THEN (from + 1) .. to ELSE {}
           rounds == [hist.rounds EXCEPT ![i] = @ \union new]
           twice == IF new \intersect hist.rounds[i] # {} THEN hist.twice \union {i} ELSE hist.twice
           untold == IF att.conv \in att.told THEN hist.untold ELSE hist.untold \union {i}
           had == IF ag.role = "planner" THEN hist.had \union {a} ELSE hist.had
           stray == IF ag.role = "planner" /\ named # NoAccount /\ a # named
                      THEN hist.stray \union {i} ELSE hist.stray
<1>7. from \in Nat /\ n \in Nat
  <2>1. w.sess \in Loans => loans[w.sess].round \in Nat
    BY DEF Typed, Loan
  <2>2. n \in Nat
    BY <1>2 DEF Tries, Retries
  <2> QED
    BY <2>1, <2>2
<1>8. to \in Nat /\ new \in SUBSET Nat
  <2> HIDE DEF from, own
  <2>1. to = from + n
    BY DEF beginTurn
  <2> HIDE DEF to
  <2>2. to \in Nat
    BY <1>7, <2>1
  <2>3. (from + 1) .. to \in SUBSET Nat
    BY <1>7, <2>2
  <2> QED
    BY <2>2, <2>3
<1>9. hist' = [hist EXCEPT !.rounds = rounds, !.twice = twice, !.untold = untold, !.had = had, !.stray = stray]
  BY <1>2
<1>10. /\ convs' = att.n /\ told' = att.told /\ Write(i, Record(harness, att.ag, att.conv))
       /\ Answered(i, w.for) /\ WithRound(w.sess, to, w.for)
  BY <1>2
<1>11. /\ rounds \in [Ids -> SUBSET Nat] /\ twice \in SUBSET Ids /\ untold \in SUBSET Ids
       /\ had \in SUBSET Accounts /\ stray \in SUBSET Ids
  <2>1. /\ hist.rounds \in [Ids -> SUBSET Nat] /\ hist.twice \in SUBSET Ids /\ hist.untold \in SUBSET Ids
        /\ hist.had \in SUBSET Accounts /\ hist.stray \in SUBSET Ids
    BY DEF Typed, History
  <2> HIDE DEF new
  <2> QED
    BY <1>3, <1>8, <2>1
<1>12. hist' \in History /\ hist'.shared = hist.shared /\ hist'.old = hist.old /\ hist'.untold = untold
  <2> HIDE DEF rounds, twice, untold, had, stray
  <2> QED
    BY <1>9, <1>11 DEF Typed, History
<1> DEFINE r == Record(harness, att.ag, att.conv)
<1>13. /\ r \in Agent /\ SameSelf(att.ag, r)
       /\ r.at = att.ag.at /\ r.cur = att.ag.cur /\ r.frame = att.ag.frame
       /\ r.sid = att.ag.sid \/ r.sid = att.conv
  BY <1>6, Records
<1> HIDE DEF r, to
<1>14. SameSelf(agents[i], r)
  BY <1>4, <1>6, <1>13 DEF SameSelf
<1>15. agents' \in [Ids -> Agent] /\ rows' \in [Ids -> AgentRow] /\ agents'[i] = r /\ OneGoesOn(i)
  BY <1>10, <1>13, <1>14, WritesOn DEF r
<1>16. /\ work' \in [Ids -> Work] /\ reqs' \in [Requests -> RequestState] /\ loans' \in [Loans -> Loan]
       /\ WorkEnds(i)
  BY <1>8, <1>10, Ends
<1>17. Typed'
  BY <1>1, <1>6, <1>10, <1>12, <1>15, <1>16 DEF Typed
<1>18. OpenedOn(i, att) /\ (agents'[i].frame => att.ag.frame)
  BY <1>13, <1>15 DEF OpenedOn
<1> QED
  BY <1>1, <1>4, <1>5, <1>10, <1>12, <1>15, <1>16, <1>17, <1>18

LEMMA LendWorkerStep ==
  ASSUME Typed, LoanedWorker, NEW l \in Loans, LendWorker(l)
  PROVE  /\ Typed' /\ UNCHANGED <<pairing, reqs, work, told, convs, harness>>
         /\ hist'.untold = hist.untold /\ hist'.old = hist.old
         /\ loans[l].pc = "lend" /\ \A k \in Loans \ {l} : loans'[k] = loans[k]
         /\ \/ loans'[l].pc = "done" /\ UNCHANGED <<agents, rows, hist>>
            \/ \E i \in Ids :
                 /\ i = loans[l].agent /\ loans'[l].pc = "open" /\ loans'[l].agent = i
                 /\ agents'[i].session = l /\ agents'[i].on = agents[i].on
                 /\ agents'[i].role = agents[i].role /\ agents'[i].eph = agents[i].eph
                 /\ agents'[i].bound = agents[i].bound /\ SameTalk(agents[i], agents'[i])
                 /\ rows'[i].kept = "live" /\ rows'[i].sid = agents[i].sid
                 /\ \A j \in Ids \ {i} : agents'[j] = agents[j] /\ rows'[j] = rows[j]
                 /\ hist'.shared = IF \E k \in OnLoan(i) \ {l} : loans[k].pc # "lend"
                                     THEN hist.shared \union {i} ELSE hist.shared
<1> DEFINE i == loans[l].agent
           a == BilledTo(i)
           ad == AdoptAccount(agents[i], a, pool)
           ag == [ad EXCEPT !.running = TRUE, !.session = l]
           shared == IF \E k \in OnLoan(i) \ {l} : loans[k].pc # "lend"
                       THEN hist.shared \union {i} ELSE hist.shared
<1>1. loans[l].pc = "lend" /\ UNCHANGED <<pairing, pool, reqs, work, told, convs, harness>>
  BY DEF LendWorker, provider, bounds
<1>2. i \in Ids
  BY <1>1 DEF LoanedWorker, Typed, Loan
<1>3. agents[i] \in Agent /\ a \in Accounts \union {NoAccount}
  <2>1. agents[i] \in Agent /\ agents[i].acct \in Accounts \union {NoAccount}
    BY <1>2 DEF Typed, Agent
  <2>2. a \in Accounts \union {NoAccount}
    BY <2>1, BilledType DEF BilledTo
  <2> QED
    BY <2>1, <2>2
<1>4. CASE a = NoAccount /\ Fails(l) /\ UNCHANGED <<agents, rows, hist>>
  <2>1. loans' = [loans EXCEPT ![l] = [loans[l] EXCEPT !.pc = "done", !.agent = 0]]
    BY <1>4 DEF Fails
  <2>2. loans' \in [Loans -> Loan] /\ loans'[l].pc = "done" /\ \A k \in Loans \ {l} : loans'[k] = loans[k]
    BY <2>1 DEF Typed, Loan
  <2>3. Typed'
    BY <1>1, <1>4, <2>2 DEF Typed
  <2> QED
    BY <1>1, <1>4, <2>2, <2>3
<1>5. CASE /\ a # NoAccount
           /\ Write(i, [ad EXCEPT !.running = TRUE, !.session = SpeaksOn(l, i)])
           /\ loans' = [loans EXCEPT ![l] = Lent(l, ad)]
           /\ hist' = [hist EXCEPT !.shared = shared]
  <2>1. Write(i, ag)
    BY <1>5 DEF SpeaksOn
  <2>2. ad \in Agent /\ SameSelf(agents[i], ad) /\ SameTalk(agents[i], ad)
    <3> HIDE DEF a, i
    <3> QED
      BY <1>3, <1>5, Adopts
  <2> HIDE DEF ad
  <2>3. /\ ag \in Agent /\ ag.session = l /\ ag.on = ad.on /\ ag.role = ad.role /\ ag.eph = ad.eph
        /\ ag.bound = ad.bound /\ SameTalk(ad, ag)
    BY <2>2 DEF Agent, SameTalk
  <2>4. Row(ag).kept = "live" /\ Row(ag).sid = ag.sid
    BY <2>3, RowType
  <2> HIDE DEF ag, a
  <2>5. /\ agents' \in [Ids -> Agent] /\ rows' \in [Ids -> AgentRow]
        /\ agents'[i] = ag /\ rows'[i] = Row(ag)
        /\ \A j \in Ids \ {i} : agents'[j] = agents[j] /\ rows'[j] = rows[j]
    BY <1>2, <2>1, <2>3, Writes
  <2>6. Lent(l, ad) \in Loan /\ Lent(l, ad).pc = "open" /\ Lent(l, ad).agent = i
    BY <1>2, <2>2 DEF Lent, Loan, Agent
  <2>7. /\ loans' \in [Loans -> Loan] /\ loans'[l].pc = "open" /\ loans'[l].agent = i
        /\ \A k \in Loans \ {l} : loans'[k] = loans[k]
    <3> HIDE DEF i
    <3> QED
      BY <1>5, <2>6 DEF Typed
  <2>8. shared \in SUBSET Ids
    BY <1>2 DEF Typed, History
  <2>9. hist' \in History /\ hist'.shared = shared /\ hist'.untold = hist.untold /\ hist'.old = hist.old
    <3> HIDE DEF shared
    <3> QED
      BY <1>5, <2>8 DEF Typed, History
  <2>10. Typed'
    BY <1>1, <2>5, <2>7, <2>9 DEF Typed
  <2>11. /\ agents'[i].session = l /\ agents'[i].on = agents[i].on /\ agents'[i].role = agents[i].role
         /\ agents'[i].eph = agents[i].eph /\ agents'[i].bound = agents[i].bound
         /\ SameTalk(agents[i], agents'[i]) /\ rows'[i].kept = "live" /\ rows'[i].sid = agents[i].sid
    <3> HIDE DEF i
    <3> QED
      BY <2>2, <2>3, <2>4, <2>5 DEF SameSelf, SameTalk
  <2> QED
    BY <1>1, <1>2, <2>5, <2>7, <2>9, <2>10, <2>11
<1> QED
  BY <1>4, <1>5 DEF LendWorker

LEMMA RegisterWorkerStep ==
  ASSUME Typed, NEW l \in Loans, RegisterWorker(l)
  PROVE  /\ Typed' /\ UNCHANGED <<pairing, reqs, work, harness, hist>>
         /\ loans[l].pc \in {"register", "ephemeral"} /\ \A k \in Loans \ {l} : loans'[k] = loans[k]
         /\ told \subseteq told' /\ convs <= convs'
         /\ \E i \in Ids :
              /\ rows[i].kept = "none" /\ \A j \in Ids \ {i} : agents'[j] = agents[j] /\ rows'[j] = rows[j]
              /\ \/ /\ loans'[l].pc = "done" /\ agents' = agents /\ told' = told /\ convs' = convs
                    /\ rows'[i].kept = "deleted" /\ rows'[i].sid = 0
                 \/ /\ loans'[l].pc = "open" /\ loans'[l].agent = i
                    /\ agents'[i].on /\ agents'[i].role = "worker" /\ agents'[i].session = l
                    /\ rows'[i].kept = "live" /\ rows'[i].sid = agents'[i].sid
                    /\ agents'[i].sid <= convs' /\ (\A d \in Dirs : agents'[i].at[d] <= convs')
                    /\ ~agents'[i].frame /\ agents'[i].cur # NoDir /\ agents'[i].at[agents'[i].cur] # 0
<1> DEFINE i == Min(Unused)
           new == NewAgent("worker", loans[l].pc = "ephemeral", TRUE)
           Never == /\ rows' = [rows EXCEPT ![i] = Deleted(new)] /\ Fails(l)
                    /\ UNCHANGED <<agents, told, used, convs, hist>>
           Comes(p, att) ==
             /\ Write(i, [att.ag EXCEPT !.running = TRUE, !.session = l])
             /\ loans' = [loans EXCEPT ![l] = [pc |-> "open", agent |-> i, round |-> 0]]
             /\ told' = att.told /\ convs' = att.n /\ UNCHANGED <<used, hist>>
<1>1. /\ loans[l].pc \in {"register", "ephemeral"} /\ Unused # {}
      /\ UNCHANGED <<pairing, pool, reqs, work, harness>>
  BY DEF RegisterWorker, bounds
<1>2. PICK p \in Delegating :
        \/ Never
        \/ /\ Inherited(p) # NoAccount
           /\ \E att \in Attach(harness, AdoptAccount(new, Inherited(p), pool), told, used, convs) : Comes(p, att)
  BY DEF RegisterWorker, provider
<1>3. i \in Ids /\ rows[i].kept = "none"
  BY <1>1, UnusedMin
<1>4. /\ new \in Agent /\ new.on /\ new.role = "worker" /\ new.at = [d \in Dirs |-> 0]
      /\ new.cur = NoDir /\ ~new.frame /\ new.sid = 0
  <2>1. PICK eph \in BOOLEAN : eph = (loans[l].pc = "ephemeral")
    OBVIOUS
  <2>2. new = NewAgent("worker", eph, TRUE)
    BY <2>1
  <2> HIDE DEF new
  <2> QED
    BY <2>2, NewAgentType
<1> HIDE DEF i, new
<1>5. CASE Never
  <2>1. Deleted(new) \in AgentRow /\ Deleted(new).kept = "deleted" /\ Deleted(new).sid = 0
    BY <1>4, RowType
  <2>2. loans' = [loans EXCEPT ![l] = [loans[l] EXCEPT !.pc = "done", !.agent = 0]]
    BY <1>5 DEF Fails
  <2>3. loans' \in [Loans -> Loan] /\ loans'[l].pc = "done" /\ \A k \in Loans \ {l} : loans'[k] = loans[k]
    BY <2>2 DEF Typed, Loan
  <2>4. /\ rows' \in [Ids -> AgentRow] /\ rows'[i].kept = "deleted" /\ rows'[i].sid = 0
        /\ \A j \in Ids \ {i} : rows'[j] = rows[j]
    BY <1>3, <1>5, <2>1 DEF Typed
  <2>5. Typed'
    BY <1>1, <1>5, <2>3, <2>4 DEF Typed
  <2>6. told \subseteq told' /\ convs <= convs'
    BY <1>5 DEF Typed
  <2> QED
    BY <1>1, <1>3, <1>5, <2>3, <2>4, <2>5, <2>6
<1>6. ASSUME Inherited(p) # NoAccount,
             NEW att \in Attach(harness, AdoptAccount(new, Inherited(p), pool), told, used, convs), Comes(p, att)
      PROVE  /\ Typed' /\ hist' = hist /\ told \subseteq told' /\ convs <= convs'
             /\ \A k \in Loans \ {l} : loans'[k] = loans[k]
             /\ \A j \in Ids \ {i} : agents'[j] = agents[j] /\ rows'[j] = rows[j]
             /\ loans'[l].pc = "open" /\ loans'[l].agent = i
             /\ agents'[i].on /\ agents'[i].role = "worker" /\ agents'[i].session = l
             /\ rows'[i].kept = "live" /\ rows'[i].sid = agents'[i].sid
             /\ agents'[i].sid <= convs' /\ (\A d \in Dirs : agents'[i].at[d] <= convs')
             /\ ~agents'[i].frame /\ agents'[i].cur # NoDir /\ agents'[i].at[agents'[i].cur] # 0
  <2> DEFINE ag == AdoptAccount(new, Inherited(p), pool)
             s == [att.ag EXCEPT !.running = TRUE, !.session = l]
  <2>1. Inherited(p) \in Accounts
    <3>1. p \in Ids /\ agents[p] \in Agent
      BY DEF Delegating, ForTask, Planners, Typed
    <3>2. agents[p].acct \in Accounts \union {NoAccount}
      BY <3>1 DEF Agent
    <3>3. BilledTo(p) \in Accounts \union {NoAccount}
      BY <3>2, BilledType DEF BilledTo
    <3>4. Inherited(p) \in Accounts \union {NoAccount}
      BY <3>3, BilledType DEF Inherited
    <3> QED
      BY <1>6, <3>4
  <2>2. ag \in Agent /\ SameSelf(new, ag) /\ SameTalk(new, ag)
    BY <1>4, <2>1, Adopts
  <2> HIDE DEF ag
  <2>3. AttachedOk(harness, ag, told, convs, att)
    BY <2>2, Attaches DEF Typed, ag
  <2>4. Handle(harness, ag) = 0 /\ Recorded(harness, ag) = 0 /\ ag.dir \in Dirs
    <3>1. \A d \in Dirs : ag.at[d] = 0
      BY <1>4, <2>2 DEF SameTalk
    <3>2. ag.dir \in Dirs /\ ag.sid = 0
      BY <1>4, <2>2 DEF Agent, SameTalk
    <3> QED
      BY <2>2, <3>1, <3>2, HandleType, RecordedType
  <2>5. /\ att.ag \in Agent /\ SameSelf(ag, att.ag) /\ att.ag.cur = ag.dir
        /\ att.conv \in Nat \ {0} /\ att.n \in Nat /\ att.told \in SUBSET Nat
        /\ told \subseteq att.told /\ convs <= att.n
        /\ att.ag.sid = ag.sid \/ att.ag.sid = att.conv
        /\ att.ag.at = [ag.at EXCEPT ![ag.dir] = att.conv]
        /\ att.conv = att.n /\ ~att.ag.frame
    BY <2>3, <2>4 DEF AttachedOk
  <2>6. /\ s \in Agent /\ s.session = l /\ s.on = att.ag.on /\ s.role = att.ag.role /\ s.at = att.ag.at
        /\ s.cur = att.ag.cur /\ s.frame = att.ag.frame /\ s.sid = att.ag.sid
    BY <2>5 DEF Agent
  <2>7. Write(i, s)
    BY <1>6
  <2> HIDE DEF s
  <2>8. /\ agents' \in [Ids -> Agent] /\ rows' \in [Ids -> AgentRow]
        /\ agents'[i] = s /\ rows'[i] = Row(s)
        /\ \A j \in Ids \ {i} : agents'[j] = agents[j] /\ rows'[j] = rows[j]
    BY <1>3, <2>6, <2>7, Writes
  <2>9. Row(s).kept = "live" /\ Row(s).sid = s.sid
    BY <2>6, RowType
  <2>10. /\ loans' \in [Loans -> Loan] /\ loans'[l].pc = "open" /\ loans'[l].agent = i
         /\ \A k \in Loans \ {l} : loans'[k] = loans[k]
    <3>1. [pc |-> "open", agent |-> i, round |-> 0] \in Loan
      BY <1>3 DEF Loan
    <3> QED
      BY <1>6, <3>1 DEF Typed
  <2>11. told' = att.told /\ convs' = att.n /\ hist' = hist
    BY <1>6
  <2>12. Typed'
    BY <1>1, <2>5, <2>8, <2>10, <2>11 DEF Typed
  <2>13. ag.at = [d \in Dirs |-> 0] /\ ag.sid = 0 /\ ag.on /\ ag.role = "worker"
    BY <1>4, <2>2 DEF SameSelf, SameTalk
  <2>14. s.on /\ s.role = "worker"
    BY <2>5, <2>6, <2>13 DEF SameSelf
  <2>15. s.sid <= att.n /\ (\A d \in Dirs : s.at[d] <= att.n) /\ s.at[s.cur] # 0
    BY <2>4, <2>5, <2>6, <2>13
  <2>16. s.cur # NoDir
    BY <2>4, <2>5, <2>6, WorkersAssumption
  <2> QED
    BY <2>5, <2>6, <2>8, <2>9, <2>10, <2>11, <2>12, <2>14, <2>15, <2>16
<1>7. CASE \E att \in Attach(harness, AdoptAccount(new, Inherited(p), pool), told, used, convs) :
             Inherited(p) # NoAccount /\ Comes(p, att)
  <2> HIDE DEF Comes
  <2> QED
    BY <1>1, <1>3, <1>6, <1>7
<1> HIDE DEF Never, Comes
<1> QED
  BY <1>2, <1>5, <1>7

LEMMA PromptStep ==
  ASSUME Typed, LoanedWorker, NEW l \in Loans, Prompt(l)
  PROVE  /\ Typed' /\ UNCHANGED <<agents, rows, pairing, reqs, told, convs, harness, hist>>
         /\ loans[l].pc = "open" /\ loans'[l].pc = "asked" /\ loans'[l].agent = loans[l].agent
         /\ \A k \in Loans \ {l} : loans'[k] = loans[k]
         /\ \E i \in Ids : /\ i = loans[l].agent /\ work[i] = Nobody
                           /\ work'[i].for = l /\ work'[i].sess = agents[i].session
                           /\ work'[i].step = "turn" => agents[i].frame
                           /\ \A j \in Ids \ {i} : work'[j] = work[j]
<1> DEFINE i == loans[l].agent
<1>1. /\ loans[l].pc = "open" /\ work[i] = Nobody /\ loans' = [loans EXCEPT ![l].pc = "asked"]
      /\ Busy(i, l, agents[i].session)
      /\ UNCHANGED <<agents, rows, pairing, pool, reqs, told, convs, harness, hist>>
  BY DEF Prompt, provider, bounds
<1>2. i \in Ids
  BY <1>1 DEF LoanedWorker, Typed, Loan
<1>3. /\ loans' \in [Loans -> Loan] /\ loans'[l].pc = "asked" /\ loans'[l].agent = loans[l].agent
      /\ \A k \in Loans \ {l} : loans'[k] = loans[k]
  BY <1>1 DEF Typed, Loan
<1> HIDE DEF i
<1>4. agents[i].session \in Loans \union {"none", "own"}
  BY <1>2 DEF Typed, Agent
<1>5. /\ work' \in [Ids -> Work] /\ work'[i].for = l /\ work'[i].sess = agents[i].session
      /\ work'[i].step = "turn" => agents[i].frame
      /\ \A j \in Ids \ {i} : work'[j] = work[j]
  BY <1>1, <1>2, <1>4, Begins
<1>6. Typed'
  BY <1>1, <1>3, <1>5 DEF Typed
<1> QED
  BY <1>1, <1>2, <1>3, <1>5, <1>6 DEF i

LEMMA ReleaseStep ==
  ASSUME Typed, LoanedWorker, NEW l \in Loans, Release(l)
  PROVE  /\ Typed' /\ UNCHANGED <<pairing, reqs, work, told, convs, harness, hist>>
         /\ loans[l].pc = "answered" /\ loans'[l].pc = "done" /\ \A k \in Loans \ {l} : loans'[k] = loans[k]
         /\ \E i \in Ids :
              /\ i = loans[l].agent
              /\ \A j \in Ids \ {i} : agents'[j] = agents[j] /\ rows'[j] = rows[j]
              /\ agents'[i].role = agents[i].role /\ agents'[i].eph = agents[i].eph
              /\ agents'[i].session = agents[i].session /\ agents'[i].sid = agents[i].sid
              /\ rows'[i].kept # "none" /\ rows'[i].sid = agents[i].sid
              /\ \/ agents[i].eph /\ ~agents'[i].on /\ agents'[i].cur = NoDir /\ (\A d \in Dirs : agents'[i].at[d] = 0)
                 \/ ~agents[i].eph /\ agents'[i].on = agents[i].on /\ SameTalk(agents[i], agents'[i])
<1> DEFINE i == loans[l].agent
           ag == agents[i]
           closed == [ag EXCEPT !.on = FALSE, !.running = FALSE, !.at = NewSession.at, !.cur = NoDir]
           parked == Parked(ag, loans[l].round)
<1>1. /\ loans[l].pc = "answered"
      /\ IF ag.eph
           THEN /\ agents' = [agents EXCEPT ![i] = closed]
                /\ rows' = [rows EXCEPT ![i] = Deleted(ag)]
           ELSE Write(i, parked)
      /\ loans' = [loans EXCEPT ![l] = [loans[l] EXCEPT !.pc = "done", !.agent = 0]]
      /\ UNCHANGED <<pairing, pool, reqs, work, told, convs, harness, hist>>
  BY DEF Release, provider, bounds
<1>2. i \in Ids /\ loans[l].round \in Nat
  BY <1>1 DEF LoanedWorker, Typed, Loan
<1>3. ag \in Agent
  BY <1>2 DEF Typed
<1>4. loans' \in [Loans -> Loan] /\ loans'[l].pc = "done" /\ \A k \in Loans \ {l} : loans'[k] = loans[k]
  BY <1>1 DEF Typed, Loan
<1>5. /\ closed \in Agent /\ closed.role = ag.role /\ closed.eph = ag.eph /\ closed.session = ag.session
      /\ closed.sid = ag.sid /\ ~closed.on /\ closed.cur = NoDir /\ closed.at = [d \in Dirs |-> 0]
  <2> HIDE DEF ag
  <2> QED
    BY <1>3 DEF Agent, NewSession
<1>6. /\ parked \in Agent /\ parked.role = ag.role /\ parked.eph = ag.eph /\ parked.session = ag.session
      /\ parked.sid = ag.sid /\ parked.on = ag.on /\ SameTalk(ag, parked)
  <2> HIDE DEF ag
  <2> QED
    BY <1>2, <1>3 DEF Parked, Agent, SameTalk
<1>7. Row(parked).kept = "live" /\ Row(parked).sid = ag.sid /\ Deleted(ag) \in AgentRow
      /\ Deleted(ag).kept = "deleted" /\ Deleted(ag).sid = ag.sid
  <2> HIDE DEF parked, ag
  <2> QED
    BY <1>3, <1>6, RowType
<1>8. CASE ag.eph
  <2> HIDE DEF closed, i
  <2>1. /\ agents' \in [Ids -> Agent] /\ rows' \in [Ids -> AgentRow]
        /\ agents'[i] = closed /\ rows'[i] = Deleted(ag)
        /\ \A j \in Ids \ {i} : agents'[j] = agents[j] /\ rows'[j] = rows[j]
    BY <1>1, <1>2, <1>5, <1>7, <1>8 DEF Typed
  <2>2. Typed'
    BY <1>1, <1>4, <2>1 DEF Typed
  <2>3. /\ agents'[i].role = agents[i].role /\ agents'[i].eph = agents[i].eph
        /\ agents'[i].session = agents[i].session /\ agents'[i].sid = agents[i].sid
        /\ ~agents'[i].on /\ agents'[i].cur = NoDir /\ \A d \in Dirs : agents'[i].at[d] = 0
    BY <1>5, <2>1
  <2>4. rows'[i].kept # "none" /\ rows'[i].sid = agents[i].sid
    BY <1>7, <2>1
  <2> QED
    BY <1>1, <1>2, <1>4, <1>8, <2>1, <2>2, <2>3, <2>4 DEF i
<1>9. CASE ~ag.eph
  <2> HIDE DEF parked, i
  <2>1. /\ agents' \in [Ids -> Agent] /\ rows' \in [Ids -> AgentRow]
        /\ agents'[i] = parked /\ rows'[i] = Row(parked)
        /\ \A j \in Ids \ {i} : agents'[j] = agents[j] /\ rows'[j] = rows[j]
    BY <1>1, <1>2, <1>6, <1>9, Writes
  <2>2. Typed'
    BY <1>1, <1>4, <2>1 DEF Typed
  <2> QED
    BY <1>1, <1>2, <1>4, <1>6, <1>7, <1>9, <2>1, <2>2 DEF i
<1> QED
  BY <1>8, <1>9

\* Who is a planner of the task.
LEMMA ForTaskIs ==
  ASSUME NEW i
  PROVE  i \in ForTask <=> i \in Ids /\ agents[i].on /\ agents[i].role = "planner" /\ agents[i].bound
BY DEF ForTask, Planners

\* A step that moves no request and no agent's role keeps the pairing.
LEMMA PairQuiet ==
  ASSUME Typed, PairInv, SelvesKept,
         \A q \in Requests : reqs'[q].pc \in {"found", "queued"} =>
           reqs'[q].pc = reqs[q].pc /\ reqs'[q].agent = reqs[q].agent
  PROVE  PairInv'
<1>1. ForTask' = ForTask
  BY DEF SelvesKept, ForTask, Planners
<1>2. RowOfEach'
  BY DEF PairInv, RowOfEach, SelvesKept
<1>3. PairedRow'
  BY DEF PairInv, PairedRow, SelvesKept, Typed
<1>4. FoundRow'
  <2>1. \A q \in Requests : reqs[q].agent # 0 => reqs[q].agent \in Ids
    BY DEF Typed, RequestState
  <2> QED
    BY <2>1 DEF PairInv, FoundRow, SelvesKept
<1>5. QueuedOn' /\ PairedHeld'
  BY <1>1 DEF PairInv, QueuedOn, PairedHeld, SelvesKept
<1> QED
  BY <1>2, <1>3, <1>4, <1>5 DEF PairInv

\* A step after which the agents are the same, but for one that joins or leaves
\* them without being a planner of the task, and no planner is lost.
LEMMA PairGrows ==
  ASSUME Typed, PairInv, NEW i \in Ids, pairing' = pairing, reqs' = reqs,
         agents[i].role # "planner", agents[i].role = "worker" => agents'[i].role = "worker",
         pairing = i => rows[i].kept = "none" \/ agents[i].role = "worker",
         agents'[i].on => agents'[i].role # "none",
         agents'[i].role = "planner" => pairing = 0 /\ agents'[i].on /\ rows'[i].kept = "live" /\ ~agents'[i].bound,
         agents'[i].role = "worker" => rows'[i].kept # "none",
         rows[i].kept = "none" \/ agents'[i].role = agents[i].role,
         \A j \in Ids \ {i} : agents'[j] = agents[j] /\ rows'[j] = rows[j]
  PROVE  PairInv'
<1>1. ForTask' = ForTask
  BY DEF ForTask, Planners
<1>2. RowOfEach'
  BY DEF PairInv, RowOfEach
<1>3. pairing # i
  BY DEF PairInv, PairedRow, Ids
<1>4. PairedRow'
  BY <1>3 DEF PairInv, PairedRow, Typed
<1>5. FoundRow'
  <2>1. \A q \in Requests : reqs[q].agent # 0 => reqs[q].agent \in Ids
    BY DEF Typed, RequestState
  <2>2. ASSUME NEW q \in Requests, reqs[q].pc \in {"found", "queued"}, reqs[q].agent = i
        PROVE  FALSE
    <3>1. agents[i].role # "worker" /\ agents[i].on
      BY <1>3, <2>2 DEF PairInv, FoundRow, Ids
    <3>2. agents[i].role # "none"
      BY <3>1 DEF PairInv, RowOfEach
    <3> QED
      BY <3>1, <3>2 DEF Typed, Agent
  <2> QED
    BY <2>1, <2>2 DEF PairInv, FoundRow
<1>6. QueuedOn' /\ PairedHeld'
  BY <1>1 DEF PairInv, QueuedOn, PairedHeld
<1> QED
  BY <1>2, <1>4, <1>5, <1>6 DEF PairInv

\* The pairing, one lemma per action that can disturb it.
LEMMA PairLookup ==
  ASSUME Typed, PairInv, NEW q \in Requests, NEW a, Lookup(q, a)
  PROVE  PairInv'
<1>1. /\ UNCHANGED <<agents, rows, pairing>> /\ \A p \in Requests \ {q} : reqs'[p] = reqs[p]
  BY LookupStep
<1>2. PICK i \in StoredOrHeld : reqs'[q].pc = "found" /\ reqs'[q].agent = i
  BY LookupStep
<1>3. ForTask' = ForTask
  BY <1>1 DEF ForTask, Planners
<1>4. RowOfEach' /\ PairedRow' /\ QueuedOn'
  BY <1>1, <1>2, <1>3 DEF PairInv, RowOfEach, PairedRow, QueuedOn
<1>5. i # 0 => agents[i].role # "worker" /\ (agents[i].on \/ i = pairing)
  BY DEF StoredOrHeld, ForTask, ForInitialization, Planners, PairInv, PairedRow
<1>6. FoundRow'
  BY <1>1, <1>2, <1>5 DEF PairInv, FoundRow
<1>7. pairing # 0 /\ i # pairing => pairing \in ForTask
  BY DEF StoredOrHeld, PairInv, PairedHeld, PairedRow
<1>8. PairedHeld'
  BY <1>1, <1>2, <1>3, <1>7 DEF PairInv, PairedHeld
<1> QED
  BY <1>4, <1>6, <1>8 DEF PairInv

LEMMA PairPair ==
  ASSUME Typed, PairInv, NEW q \in Requests, Pair(q)
  PROVE  PairInv' /\ (pairing # 0 /\ pairing' # pairing => Two(ForTask'))
<1> USE DEF PairInv
<1>1. PICK i \in Ids : /\ reqs'[q].pc = "queued" /\ reqs'[q].agent = i
                       /\ agents'[i].on /\ agents'[i].bound
                       /\ PairedMade(q, i) \/ PairedOn(q, i) \/ PairedBack(q, i)
                       /\ \A j \in Ids \ {i} : agents'[j] = agents[j] /\ rows'[j] = rows[j]
  BY PairStep
<1>2. reqs[q].pc = "found" /\ \A p \in Requests \ {q} : reqs'[p] = reqs[p]
  BY PairStep
<1>3. i # 0 /\ pairing \in Ids \union {0} /\ \A p \in Requests : reqs[p].agent \in Ids \union {0}
  BY DEF Typed, RequestState, Ids
<1>4. agents'[i].role = "planner"
  <2>1. CASE PairedOn(q, i)
    <3>1. agents[i].role \in {"none", "planner", "worker"}
      BY DEF Typed, Agent
    <3> QED
      BY <1>2, <1>3, <2>1, <3>1 DEF PairedOn, RowOfEach, FoundRow
  <2> QED
    BY <1>1, <2>1 DEF PairedMade, PairedBack
<1>5. i \in ForTask' /\ ForTask \subseteq ForTask'
  BY <1>1, <1>4 DEF ForTask, Planners
<1>6. rows'[i].kept = "live"
  <2>1. CASE PairedOn(q, i)
    <3>1. agents[i].role = "planner"
      BY <1>4, <2>1 DEF PairedOn
    <3> QED
      BY <2>1, <3>1 DEF PairedOn, RowOfEach
  <2>2. CASE PairedBack(q, i)
    <3>1. i = pairing
      BY <1>2, <1>3, <2>2 DEF PairedBack, FoundRow
    <3> QED
      BY <1>3, <2>2, <3>1 DEF PairedBack, PairedRow
  <2> QED
    BY <1>1, <2>1, <2>2 DEF PairedMade
<1>7. RowOfEach'
  BY <1>1, <1>4, <1>6 DEF RowOfEach
<1>8. pairing' = i \/ (pairing' = pairing /\ pairing \in ForTask)
  <2>1. CASE PairedOn(q, i) /\ agents[i].bound
    <3>1. i \in ForTask
      BY <1>4, <2>1 DEF PairedOn, ForTask, Planners
    <3> QED
      BY <2>1, <3>1 DEF PairedOn, PairedHeld
  <2> QED
    BY <1>1, <2>1 DEF PairedMade, PairedOn, PairedBack
<1>9. pairing' \in ForTask'
  BY <1>5, <1>8
<1>10. PairedRow'
  <2>1. agents'[pairing'].role = "planner" /\ pairing' \in Ids
    BY <1>9 DEF ForTask, Planners
  <2> QED
    BY <1>7, <2>1 DEF PairedRow, RowOfEach
<1>11. ASSUME pairing # 0, pairing' # pairing
       PROVE  pairing \in ForTask
  <2>1. CASE PairedMade(q, i)
    BY <1>2, <1>11, <2>1 DEF PairedMade, PairedHeld
  <2>2. CASE PairedOn(q, i)
    BY <1>2, <1>8, <1>11, <2>2 DEF PairedOn, PairedHeld
  <2>3. CASE PairedBack(q, i)
    BY <1>2, <1>3, <1>11, <2>3 DEF PairedBack, FoundRow
  <2> QED
    BY <1>1, <2>1, <2>2, <2>3
<1>12. FoundRow'
  <2> SUFFICES ASSUME NEW p \in Requests, reqs'[p].pc \in {"found", "queued"}, reqs'[p].agent # 0
               PROVE  /\ agents'[reqs'[p].agent].role # "worker"
                      /\ agents'[reqs'[p].agent].on \/ reqs'[p].agent = pairing'
    BY DEF FoundRow
  <2>1. CASE reqs'[p].agent = i
    BY <1>1, <1>4, <2>1
  <2>2. CASE reqs'[p].agent # i
    <3>1. p # q /\ reqs'[p] = reqs[p] /\ reqs[p].agent \in Ids \ {i}
      BY <1>1, <1>2, <1>3, <2>2
    <3>2. agents'[reqs[p].agent] = agents[reqs[p].agent]
      BY <1>1, <3>1
    <3>3. agents[reqs[p].agent].role # "worker" /\ (agents[reqs[p].agent].on \/ reqs[p].agent = pairing)
      BY <3>1 DEF FoundRow
    <3>4. reqs[p].agent = pairing /\ pairing' # pairing => agents[reqs[p].agent].on
      BY <1>11, <3>1 DEF ForTask, Planners
    <3> QED
      BY <3>1, <3>2, <3>3, <3>4
  <2> QED
    BY <2>1, <2>2
<1>13. QueuedOn' /\ PairedHeld'
  BY <1>1, <1>2, <1>5, <1>9 DEF QueuedOn, PairedHeld
<1> QED
  BY <1>5, <1>7, <1>8, <1>10, <1>11, <1>12, <1>13 DEF Two

LEMMA PairInstruct ==
  ASSUME Typed, PairInv, NEW q \in Requests, Instruct(q)
  PROVE  PairInv' /\ (pairing # 0 /\ pairing' # pairing => Two(ForTask'))
<1> USE DEF PairInv
<1>1. PICK i \in ForTask :
        /\ pairing' = i /\ rows'[i].kept = "live"
        /\ agents'[i].on = agents[i].on /\ agents'[i].role = agents[i].role
        /\ agents'[i].bound = agents[i].bound
        /\ \A j \in Ids \ {i} : agents'[j] = agents[j] /\ rows'[j] = rows[j]
  BY InstructStep
<1>2. reqs'[q].pc = "running" /\ \A p \in Requests \ {q} : reqs'[p] = reqs[p]
  BY InstructStep
<1>3. i \in Ids /\ ForTask' = ForTask /\ pairing \in ForTask /\ agents[i].role = "planner"
  BY <1>1 DEF ForTask, Planners, PairedHeld
<1>4. RowOfEach' /\ PairedRow'
  BY <1>1, <1>3 DEF RowOfEach, PairedRow
<1>5. FoundRow'
  <2>1. pairing \in Ids /\ agents[pairing].on /\ \A p \in Requests : reqs[p].agent \in Ids \union {0}
    BY <1>3 DEF Typed, RequestState, ForTask, Planners
  <2> QED
    BY <1>1, <1>2, <1>3, <2>1 DEF FoundRow
<1>6. QueuedOn' /\ PairedHeld'
  BY <1>1, <1>2, <1>3 DEF QueuedOn, PairedHeld
<1> QED
  BY <1>1, <1>3, <1>4, <1>5, <1>6 DEF Two

LEMMA PairInitialize ==
  ASSUME Typed, PairInv, Initialize
  PROVE  PairInv'
<1>1. PICK i \in Ids : /\ rows[i].kept = "none" /\ agents'[i] = NewAgent("planner", FALSE, FALSE)
                       /\ rows'[i].kept = "live"
                       /\ \A j \in Ids \ {i} : agents'[j] = agents[j] /\ rows'[j] = rows[j]
  BY InitializeStep
<1>2. pairing = 0 /\ UNCHANGED <<pairing, reqs>>
  BY DEF Initialize
<1>3. agents[i].role = "none"
  BY <1>1, FreshId DEF PairInv
<1>4. agents'[i].on /\ agents'[i].role = "planner" /\ ~agents'[i].bound
  <2>1. PICK no \in BOOLEAN : no = FALSE
    OBVIOUS
  <2>2. LET s == NewAgent("planner", no, no) IN s.on /\ s.role = "planner" /\ s.bound = no
    BY NewAgentType
  <2> QED
    BY <1>1, <2>1, <2>2
<1> QED
  BY <1>1, <1>2, <1>3, <1>4, PairGrows

LEMMA PairRegister ==
  ASSUME Typed, PairInv, NEW l \in Loans, RegisterWorker(l)
  PROVE  PairInv'
<1>1. PICK i \in Ids :
        /\ rows[i].kept = "none" /\ \A j \in Ids \ {i} : agents'[j] = agents[j] /\ rows'[j] = rows[j]
        /\ \/ agents' = agents /\ rows'[i].kept = "deleted"
           \/ agents'[i].on /\ agents'[i].role = "worker" /\ rows'[i].kept = "live"
  BY RegisterWorkerStep
<1>2. pairing' = pairing /\ reqs' = reqs
  BY RegisterWorkerStep
<1>3. agents[i].role = "none" /\ ~agents[i].on
  BY <1>1, FreshId DEF PairInv
<1> QED
  BY <1>1, <1>2, <1>3, PairGrows

LEMMA PairRelease ==
  ASSUME Typed, PairInv, LoanedWorker, NEW l \in Loans, Release(l)
  PROVE  PairInv'
<1>1. PICK i \in Ids :
        /\ i = loans[l].agent /\ \A j \in Ids \ {i} : agents'[j] = agents[j] /\ rows'[j] = rows[j]
        /\ agents'[i].role = agents[i].role /\ rows'[i].kept # "none"
  BY ReleaseStep
<1>2. pairing' = pairing /\ reqs' = reqs
  BY ReleaseStep
<1>3. agents[i].role = "worker"
  BY <1>1, ReleaseStep DEF LoanedWorker
<1> QED
  BY <1>1, <1>2, <1>3, PairGrows

LEMMA PairRestart ==
  ASSUME Typed, PairInv, Restart
  PROVE  PairInv'
<1>1. /\ pairing' = pairing /\ rows' = rows /\ agents' = [i \in Ids |-> NoAgent]
      /\ \A q \in Requests : reqs'[q].pc \in {"new", "done"}
  BY RestartStep
<1>2. \A i \in Ids : ~agents'[i].on /\ agents'[i].role = "none"
  BY <1>1, NoAgentType
<1>3. ForTask' = {}
  BY <1>2 DEF ForTask, Planners
<1> QED
  BY <1>1, <1>2, <1>3 DEF PairInv, RowOfEach, PairedRow, FoundRow, QueuedOn, PairedHeld, Typed

\* Every step keeps the pairing, or the task has two planners.
LEMMA PairSteps ==
  ASSUME Typed, PairInv, LoanedWorker, Next
  PROVE  PairInv' /\ (pairing # 0 /\ pairing' # pairing => Two(ForTask'))
<1>1. CASE Initialize
  BY <1>1, PairInitialize, InitializeStep
<1>2. CASE Restart
  BY <1>2, PairRestart, RestartStep
<1>3. ASSUME NEW q \in Requests, NEW a, Lookup(q, a)
      PROVE  PairInv' /\ pairing' = pairing
  BY <1>3, PairLookup, LookupStep
<1>4. ASSUME NEW q \in Requests, Pair(q) \/ Instruct(q)
      PROVE  PairInv' /\ (pairing # 0 /\ pairing' # pairing => Two(ForTask'))
  BY <1>4, PairPair, PairInstruct
<1>5. ASSUME NEW i \in Ids, Refused(i)
      PROVE  PairInv' /\ pairing' = pairing
  <2>1. SelvesKept
    BY <1>5, RefusedStep DEF SelvesKept
  <2> QED
    BY <1>5, <2>1, RefusedStep, PairQuiet DEF WorkEnds
<1>6. ASSUME NEW i \in Ids, GiveFirstPrompt(i)
      PROVE  PairInv' /\ pairing' = pairing
  <2>1. OneGoesOn(i) /\ pairing' = pairing
    BY <1>6, GiveFirstPromptStep
  <2>2. SelvesKept
    BY <2>1, GoesOnKeeps
  <2>3. \E ag, att : FrameAtBirth(i, ag, att) \/ FrameTold(i, ag, att) \/ FrameFailed(i, att)
    BY <1>6, GiveFirstPromptStep
  <2>4. reqs' = reqs \/ WorkEnds(i)
    BY <2>3 DEF FrameAtBirth, FrameTold, FrameFailed, Goes
  <2> QED
    BY <2>1, <2>2, <2>4, PairQuiet DEF WorkEnds
<1>7. ASSUME NEW i \in Ids, Turn(i)
      PROVE  PairInv' /\ pairing' = pairing
  <2>1. OneGoesOn(i) /\ pairing' = pairing /\ WorkEnds(i)
    BY <1>7, TurnStep
  <2>2. SelvesKept
    BY <2>1, GoesOnKeeps
  <2> QED
    BY <2>1, <2>2, PairQuiet DEF WorkEnds
<1>8. ASSUME NEW i \in Ids, Drained(i)
      PROVE  PairInv' /\ pairing' = pairing
  <2>1. OneGoesOn(i) /\ pairing' = pairing /\ reqs' = reqs
    BY <1>8, DrainedStep
  <2>2. SelvesKept
    BY <2>1, GoesOnKeeps
  <2> QED
    BY <2>1, <2>2, PairQuiet
<1>9. ASSUME NEW l \in Loans, NEW eph \in OneShot, Acquire(l, eph)
      PROVE  PairInv' /\ pairing' = pairing
  <2>1. eph \in BOOLEAN
    BY WorkersAssumption
  <2>2. UNCHANGED <<agents, rows, pairing, reqs>>
    BY <1>9, <2>1, AcquireStep
  <2>3. SelvesKept
    BY <2>2 DEF SelvesKept
  <2> QED
    BY <2>2, <2>3, PairQuiet
<1>10. ASSUME NEW l \in Loans, LendWorker(l)
       PROVE  PairInv' /\ pairing' = pairing
  <2>1. UNCHANGED <<pairing, reqs>>
    BY <1>10, LendWorkerStep
  <2>2. \/ UNCHANGED <<agents, rows>>
        \/ \E i \in Ids :
             /\ agents'[i].on = agents[i].on /\ agents'[i].role = agents[i].role
             /\ agents'[i].bound = agents[i].bound /\ rows'[i].kept = "live"
             /\ \A j \in Ids \ {i} : agents'[j] = agents[j] /\ rows'[j] = rows[j]
    BY <1>10, LendWorkerStep
  <2>3. SelvesKept
    BY <2>1, <2>2 DEF SelvesKept
  <2> QED
    BY <2>1, <2>3, PairQuiet
<1>11. ASSUME NEW l \in Loans, RegisterWorker(l)
       PROVE  PairInv' /\ pairing' = pairing
  BY <1>11, PairRegister, RegisterWorkerStep
<1>12. ASSUME NEW l \in Loans, Prompt(l)
       PROVE  PairInv' /\ pairing' = pairing
  <2>1. UNCHANGED <<agents, rows, pairing, reqs>>
    BY <1>12, PromptStep
  <2>2. SelvesKept
    BY <2>1 DEF SelvesKept
  <2> QED
    BY <2>1, <2>2, PairQuiet
<1>13. ASSUME NEW l \in Loans, Release(l)
       PROVE  PairInv' /\ pairing' = pairing
  BY <1>13, PairRelease, ReleaseStep
<1>14. ASSUME NEW a \in Editable, EditAccount(a)
       PROVE  PairInv' /\ pairing' = pairing
  <2>1. UNCHANGED <<agents, rows, pairing, reqs>>
    BY <1>14, EditStep
  <2>2. SelvesKept
    BY <2>1 DEF SelvesKept
  <2> QED
    BY <2>1, <2>2, PairQuiet
<1> QED
  BY <1>1, <1>2, <1>3, <1>4, <1>5, <1>6, <1>7, <1>8, <1>9, <1>10, <1>11, <1>12, <1>13, <1>14, ZenonT(40) DEF Next

\* The workers of a step that neither lends nor asks.
WorkersStay == \A i \in Ids : agents[i].role = "worker" =>
                 agents'[i].role = "worker" /\ agents'[i].session = agents[i].session

\* A loan under way names a worker.
LEMMA LoanedAgent ==
  ASSUME Typed, LoanedWorker, NEW l \in Loans, loans[l].pc \in {"lend", "open", "asked", "answered"}
  PROVE  loans[l].agent \in Ids /\ agents[loans[l].agent].role = "worker"
BY DEF Typed, Loan, LoanedWorker

\* A step that moves no loan and begins no work for one keeps the loans.
LEMMA LoanQuiet ==
  ASSUME Typed, LoanInv, loans' = loans, WorkersStay, hist'.shared = hist.shared,
         \A i \in Ids : work'[i].for \in Loans =>
           work'[i].for = work[i].for /\ work'[i].sess = work[i].sess
  PROVE  LoanInv'
<1>1. LoanedWorker' /\ LoanSpeaks'
  BY LoanedAgent DEF LoanInv, LoanedWorker, LoanSpeaks, WorkersStay
<1>2. AskedOnce' /\ SpokenOnItsLoan'
  BY DEF LoanInv, AskedOnce, SpokenOnItsLoan
<1> QED
  BY <1>1, <1>2 DEF LoanInv

\* Work that ends leaves the loans as they should be.
LEMMA LoanEnds ==
  ASSUME Typed, LoanInv, NEW i \in Ids, WorkEnds(i), WorkersStay, hist'.shared = hist.shared
  PROVE  LoanInv'
<1>1. Nobody.for \notin Loans
  BY WorkersAssumption DEF Nobody
<1>2. work'[i].for \notin Loans /\ \A j \in Ids \ {i} : work'[j] = work[j]
  BY <1>1 DEF WorkEnds
<1>3. \A l \in Loans : /\ loans'[l].agent = loans[l].agent
                       /\ loans'[l].pc = IF l = work[i].for THEN "answered" ELSE loans[l].pc
  BY DEF WorkEnds
<1>4. work[i].for \in Loans => loans[work[i].for].pc = "asked" /\ loans[work[i].for].agent = i
  BY DEF LoanInv, AskedOnce
<1>5. LoanedWorker' /\ LoanSpeaks'
  BY <1>3, <1>4, LoanedAgent DEF LoanInv, LoanedWorker, LoanSpeaks, WorkersStay
<1>6. AskedOnce'
  BY <1>2, <1>3, <1>4 DEF LoanInv, AskedOnce
<1>7. SpokenOnItsLoan'
  BY <1>2 DEF LoanInv, SpokenOnItsLoan
<1> QED
  BY <1>5, <1>6, <1>7 DEF LoanInv

\* One loan went on, and no work changed but, maybe, on that loan.
LEMMA LoanGoesOn ==
  ASSUME Typed, LoanInv, NEW l \in Loans, loans[l].pc # "asked", WorkersStay,
         hist'.shared = hist.shared, work' = work, \A k \in Loans \ {l} : loans'[k] = loans[k],
         loans'[l].pc \in {"lend", "ephemeral", "register", "done"},
         loans'[l].pc = "lend" => loans'[l].agent \in Ids /\ agents'[loans'[l].agent].role = "worker"
  PROVE  LoanInv'
<1>1. LoanedWorker' /\ LoanSpeaks'
  BY LoanedAgent DEF LoanInv, LoanedWorker, LoanSpeaks, WorkersStay, Ids
<1>2. AskedOnce' /\ SpokenOnItsLoan'
  BY DEF LoanInv, AskedOnce, SpokenOnItsLoan
<1> QED
  BY <1>1, <1>2 DEF LoanInv

\* The loans, one lemma per action that can disturb them.
LEMMA LoanPair ==
  ASSUME Typed, PairInv, LoanInv, NEW q \in Requests, Pair(q)
  PROVE  LoanInv'
<1>1. loans' = loans /\ work' = work /\ hist'.shared = hist.shared /\ reqs[q].pc = "found"
  BY PairStep
<1>2. PICK i \in Ids : /\ PairedMade(q, i) \/ PairedOn(q, i) \/ PairedBack(q, i)
                       /\ \A j \in Ids \ {i} : agents'[j] = agents[j]
  BY PairStep
<1>3. agents[i].role # "worker" \/ (agents'[i].role = agents[i].role /\ agents'[i].session = agents[i].session)
  BY <1>1, <1>2, FreshId DEF PairedMade, PairedOn, PairedBack, PairInv, FoundRow, Ids
<1>4. WorkersStay
  BY <1>2, <1>3 DEF WorkersStay
<1> QED
  BY <1>1, <1>4, LoanQuiet

LEMMA LoanInstruct ==
  ASSUME Typed, PairInv, LoanInv, NEW q \in Requests, Instruct(q)
  PROVE  LoanInv'
<1>1. loans' = loans /\ hist' = hist
  BY InstructStep DEF PairInv
<1>2. PICK i \in ForTask : /\ work'[i].for = q
                           /\ \A j \in Ids \ {i} : agents'[j] = agents[j] /\ work'[j] = work[j]
  BY InstructStep DEF PairInv
<1>3. WorkersStay
  BY <1>2 DEF WorkersStay, ForTask, Planners
<1>4. q \notin Loans
  BY WorkersAssumption
<1> QED
  BY <1>1, <1>2, <1>3, <1>4, LoanQuiet

LEMMA LoanLend ==
  ASSUME Typed, LoanInv, NEW l \in Loans, LendWorker(l)
  PROVE  LoanInv'
<1>1. loans[l].pc = "lend" /\ work' = work /\ \A k \in Loans \ {l} : loans'[k] = loans[k]
  BY LendWorkerStep DEF LoanInv
<1>2. CASE loans'[l].pc = "done" /\ UNCHANGED <<agents, rows, hist>>
  <2>1. WorkersStay
    BY <1>2 DEF WorkersStay
  <2> QED
    BY <1>1, <1>2, <2>1, LoanGoesOn
<1>3. ASSUME NEW i \in Ids, i = loans[l].agent, loans'[l].pc = "open", loans'[l].agent = i,
             agents'[i].session = l, agents'[i].role = agents[i].role,
             \A j \in Ids \ {i} : agents'[j] = agents[j],
             hist'.shared = IF \E k \in OnLoan(i) \ {l} : loans[k].pc # "lend"
                              THEN hist.shared \union {i} ELSE hist.shared
      PROVE  LoanInv'
  <2>1. agents'[i].role = "worker" /\ i # 0
    BY <1>1, <1>3 DEF LoanInv, LoanedWorker
  <2>2. LoanedWorker'
    BY <1>1, <1>3, <2>1, LoanedAgent DEF LoanInv, LoanedWorker
  <2>3. LoanSpeaks'
    <3>1. ASSUME NEW k \in Loans \ {l}, loans[k].pc \in {"open", "asked", "answered"}, loans[k].agent = i
          PROVE  i \in hist'.shared
      BY <1>3, <3>1 DEF OnLoan
    <3> QED
      BY <1>1, <1>3, <3>1, LoanedAgent DEF LoanInv, LoanSpeaks
  <2>4. AskedOnce' /\ SpokenOnItsLoan'
    BY <1>1, <1>3 DEF LoanInv, AskedOnce, SpokenOnItsLoan
  <2> QED
    BY <2>2, <2>3, <2>4 DEF LoanInv
<1>4. LoanedWorker
  BY DEF LoanInv
<1>5. \/ loans'[l].pc = "done" /\ UNCHANGED <<agents, rows, hist>>
      \/ \E i \in Ids :
           /\ i = loans[l].agent /\ loans'[l].pc = "open" /\ loans'[l].agent = i
           /\ agents'[i].session = l /\ agents'[i].on = agents[i].on
           /\ agents'[i].role = agents[i].role /\ agents'[i].eph = agents[i].eph
           /\ agents'[i].bound = agents[i].bound /\ SameTalk(agents[i], agents'[i])
           /\ rows'[i].kept = "live" /\ rows'[i].sid = agents[i].sid
           /\ \A j \in Ids \ {i} : agents'[j] = agents[j] /\ rows'[j] = rows[j]
           /\ hist'.shared = IF \E k \in OnLoan(i) \ {l} : loans[k].pc # "lend"
                               THEN hist.shared \union {i} ELSE hist.shared
  BY <1>4, LendWorkerStep
<1> QED
  BY <1>2, <1>3, <1>5, Zenon

LEMMA LoanRegister ==
  ASSUME Typed, PairInv, LoanInv, NEW l \in Loans, RegisterWorker(l)
  PROVE  LoanInv'
<1>1. /\ loans[l].pc \in {"register", "ephemeral"} /\ \A k \in Loans \ {l} : loans'[k] = loans[k]
      /\ work' = work /\ hist' = hist
  BY RegisterWorkerStep
<1>2. PICK i \in Ids :
        /\ rows[i].kept = "none" /\ \A j \in Ids \ {i} : agents'[j] = agents[j]
        /\ \/ loans'[l].pc = "done" /\ agents' = agents
           \/ /\ loans'[l].pc = "open" /\ loans'[l].agent = i
              /\ agents'[i].role = "worker" /\ agents'[i].session = l
  BY RegisterWorkerStep
<1>3. agents[i].role = "none" /\ i # 0
  BY <1>2, FreshId DEF PairInv, Ids
<1>4. WorkersStay
  BY <1>2, <1>3 DEF WorkersStay
<1>5. CASE loans'[l].pc = "done"
  BY <1>1, <1>4, <1>5, LoanGoesOn
<1>6. CASE loans'[l].pc = "open"
  <2>1. LoanedWorker'
    BY <1>1, <1>2, <1>3, <1>4, <1>6, LoanedAgent DEF LoanInv, LoanedWorker, WorkersStay
  <2>2. LoanSpeaks'
    BY <1>1, <1>2, <1>3, <1>4, <1>6, LoanedAgent DEF LoanInv, LoanSpeaks, WorkersStay
  <2>3. AskedOnce' /\ SpokenOnItsLoan'
    BY <1>1 DEF LoanInv, AskedOnce, SpokenOnItsLoan
  <2> QED
    BY <2>1, <2>2, <2>3 DEF LoanInv
<1> QED
  BY <1>2, <1>5, <1>6

LEMMA LoanPrompt ==
  ASSUME Typed, LoanInv, NEW l \in Loans, Prompt(l)
  PROVE  LoanInv'
<1>1. /\ loans[l].pc = "open" /\ loans'[l].pc = "asked" /\ loans'[l].agent = loans[l].agent
      /\ \A k \in Loans \ {l} : loans'[k] = loans[k]
      /\ UNCHANGED <<agents, hist>>
  BY PromptStep DEF LoanInv
<1>2. PICK i \in Ids : /\ i = loans[l].agent /\ work'[i].for = l /\ work'[i].sess = agents[i].session
                       /\ \A j \in Ids \ {i} : work'[j] = work[j]
  BY PromptStep DEF LoanInv
<1>3. LoanedWorker' /\ LoanSpeaks'
  BY <1>1 DEF LoanInv, LoanedWorker, LoanSpeaks
<1>4. AskedOnce'
  BY <1>1, <1>2 DEF LoanInv, AskedOnce
<1>5. SpokenOnItsLoan'
  BY <1>1, <1>2 DEF LoanInv, LoanSpeaks, SpokenOnItsLoan
<1> QED
  BY <1>3, <1>4, <1>5 DEF LoanInv

LEMMA LoanRelease ==
  ASSUME Typed, LoanInv, NEW l \in Loans, Release(l)
  PROVE  LoanInv'
<1>1. /\ loans[l].pc = "answered" /\ loans'[l].pc = "done" /\ \A k \in Loans \ {l} : loans'[k] = loans[k]
      /\ UNCHANGED <<work, hist>>
  BY ReleaseStep DEF LoanInv
<1>2. PICK i \in Ids : /\ \A j \in Ids \ {i} : agents'[j] = agents[j]
                       /\ agents'[i].role = agents[i].role /\ agents'[i].session = agents[i].session
  BY ReleaseStep DEF LoanInv
<1>3. WorkersStay
  BY <1>2 DEF WorkersStay
<1> QED
  BY <1>1, <1>3, LoanGoesOn

LEMMA LoanRestart ==
  ASSUME Typed, Restart
  PROVE  LoanInv'
<1>1. /\ work' = [i \in Ids |-> Nobody] /\ \A l \in Loans : loans'[l].pc \in {"new", "done"}
  BY RestartStep
<1>2. \A i \in Ids : work'[i].for \notin Loans
  BY <1>1, WorkersAssumption DEF Nobody
<1> QED
  BY <1>1, <1>2 DEF LoanInv, LoanedWorker, LoanSpeaks, AskedOnce, SpokenOnItsLoan

\* Every step keeps the loans.
LEMMA LoanSteps ==
  ASSUME Typed, PairInv, LoanInv, Next
  PROVE  LoanInv'
<1>1. CASE Initialize
  <2>1. WorkersStay
    <3>1. \E i \in Ids : rows[i].kept = "none" /\ \A j \in Ids \ {i} : agents'[j] = agents[j]
      BY <1>1, InitializeStep
    <3> QED
      BY <3>1, FreshId DEF WorkersStay, PairInv
  <2>2. UNCHANGED <<loans, work, hist>>
    BY <1>1 DEF Initialize
  <2> QED
    BY <2>1, <2>2, LoanQuiet
<1>2. CASE Restart
  BY <1>2, LoanRestart
<1>3. ASSUME NEW q \in Requests, NEW a, Lookup(q, a)
      PROVE  LoanInv'
  <2>1. UNCHANGED <<agents, loans, work, hist>>
    BY <1>3, LookupStep
  <2> QED
    BY <2>1, LoanQuiet DEF WorkersStay
<1>4. ASSUME NEW q \in Requests, Pair(q) \/ Instruct(q)
      PROVE  LoanInv'
  BY <1>4, LoanPair, LoanInstruct
<1>5. ASSUME NEW i \in Ids, Refused(i)
      PROVE  LoanInv'
  <2>1. UNCHANGED <<agents, hist>> /\ WorkEnds(i)
    BY <1>5, RefusedStep
  <2> QED
    BY <2>1, LoanEnds DEF WorkersStay
<1>6. ASSUME NEW i \in Ids, GiveFirstPrompt(i)
      PROVE  LoanInv'
  <2>1. OneGoesOn(i) /\ hist'.shared = hist.shared
    BY <1>6, GiveFirstPromptStep
  <2>2. WorkersStay
    BY <2>1 DEF OneGoesOn, SameSelf, WorkersStay
  <2>3. \E ag, att : FrameAtBirth(i, ag, att) \/ FrameTold(i, ag, att) \/ FrameFailed(i, att)
    BY <1>6, GiveFirstPromptStep
  <2>4. Goes(i) \/ WorkEnds(i)
    BY <2>3 DEF FrameAtBirth, FrameTold, FrameFailed
  <2>5. CASE Goes(i)
    BY <2>1, <2>2, <2>5, LoanQuiet DEF Goes
  <2> QED
    BY <2>1, <2>2, <2>4, <2>5, LoanEnds
<1>7. ASSUME NEW i \in Ids, Turn(i)
      PROVE  LoanInv'
  <2>1. OneGoesOn(i) /\ hist'.shared = hist.shared /\ WorkEnds(i)
    BY <1>7, TurnStep
  <2>2. WorkersStay
    BY <2>1 DEF OneGoesOn, SameSelf, WorkersStay
  <2> QED
    BY <2>1, <2>2, LoanEnds
<1>8. ASSUME NEW i \in Ids, Drained(i)
      PROVE  LoanInv'
  <2>1. OneGoesOn(i) /\ UNCHANGED <<loans, work, hist>>
    BY <1>8, DrainedStep
  <2>2. WorkersStay
    BY <2>1 DEF OneGoesOn, SameSelf, WorkersStay
  <2> QED
    BY <2>1, <2>2, LoanQuiet
<1>9. ASSUME NEW l \in Loans, NEW eph \in OneShot, Acquire(l, eph)
      PROVE  LoanInv'
  <2>1. eph \in BOOLEAN
    BY WorkersAssumption
  <2>2. /\ UNCHANGED <<agents, work, hist>>
        /\ loans[l].pc = "new" /\ loans'[l].pc \in {"ephemeral", "register", "lend"}
        /\ loans'[l].pc = "lend" => loans'[l].agent \in IdleWorker
        /\ \A k \in Loans \ {l} : loans'[k] = loans[k]
    BY <1>9, <2>1, AcquireStep
  <2> QED
    BY <2>2, LoanGoesOn DEF WorkersStay, IdleWorker
<1>10. ASSUME NEW l \in Loans, LendWorker(l) \/ RegisterWorker(l) \/ Prompt(l) \/ Release(l)
       PROVE  LoanInv'
  BY <1>10, LoanLend, LoanRegister, LoanPrompt, LoanRelease
<1>11. ASSUME NEW a \in Editable, EditAccount(a)
       PROVE  LoanInv'
  <2>1. UNCHANGED <<agents, loans, work, hist>>
    BY <1>11, EditStep
  <2> QED
    BY <2>1, LoanQuiet DEF WorkersStay
<1> QED
  BY <1>1, <1>2, <1>3, <1>4, <1>5, <1>6, <1>7, <1>8, <1>9, <1>10, <1>11, ZenonT(40) DEF Next

\* The harness and the conversations of an earlier process are given, and a
\* conversation that was told stays told.
TalkGoesOn ==
  /\ harness' = harness /\ hist'.old = hist.old /\ hist'.old \in Nat
  /\ convs' \in Nat /\ convs <= convs' /\ told \subseteq told'

\* What was told stays told, and an excuse stands.
LEMMA HoldsOn ==
  ASSUME Typed, TalkGoesOn, NEW i \in Ids, agents'[i].at = agents[i].at
  PROVE  /\ Empty(i)' <=> Empty(i)
         /\ Excused(i) => Excused(i)'
         /\ HoldsFrame(i) => HoldsFrame(i)'
<1>1. Empty(i)' <=> Empty(i)
  BY DEF Empty
<1>2. Excused(i) => Excused(i)'
  BY DEF Excused, Two, Places, FromBefore, TalkGoesOn
<1>3. HoldsFrame(i) => HoldsFrame(i)'
  BY <1>2 DEF HoldsFrame, TalkGoesOn
<1> QED
  BY <1>1, <1>2, <1>3

\* An agent no conversation of which was opened or spoken on.
LEMMA FrameSame ==
  ASSUME Typed, TalkGoesOn, NEW i \in Ids, OpenOf(i), FrameOf(i),
         SameTalk(agents[i], agents'[i]),
         agents'[i].on = agents[i].on, agents'[i].role = agents[i].role, agents'[i].eph = agents[i].eph,
         rows'[i].sid \in {rows[i].sid, agents[i].sid, 0},
         agents[i].role = "none" => rows'[i].sid \in {rows[i].sid, 0},
         i \in hist'.untold => i \in hist.untold,
         work'[i].step = "turn" => agents[i].frame \/ work[i].step = "turn",
         work'[i].step # "none" => agents[i].role # "none"
  PROVE  OpenOf(i)' /\ FrameOf(i)'
<1>1. /\ agents'[i].at = agents[i].at /\ agents'[i].cur = agents[i].cur
      /\ agents'[i].frame = agents[i].frame /\ agents'[i].sid = agents[i].sid
  BY DEF SameTalk
<1>2. /\ Empty(i)' <=> Empty(i)
      /\ Excused(i) => Excused(i)'
      /\ HoldsFrame(i) => HoldsFrame(i)'
  BY <1>1, HoldsOn
<1>3. agents[i].sid \in Nat /\ rows[i].sid \in Nat /\ \A d \in Dirs : agents[i].at[d] \in Nat
  BY DEF Typed, Agent, AgentRow
<1>4. convs \in Nat /\ convs' \in Nat /\ convs <= convs' /\ harness' = harness
      /\ hist'.old = hist.old /\ hist'.old \in Nat
  BY DEF Typed, TalkGoesOn
<1>5. OpenOf(i)'
  BY <1>1, <1>2, <1>3, <1>4 DEF OpenOf
<1>6. FrameOf(i)'
  BY <1>1, <1>2 DEF FrameOf
<1> QED
  BY <1>5, <1>6

\* An agent that starts with no conversation.
LEMMA FrameSilent ==
  ASSUME NEW i \in Ids, Silent(agents'[i]), agents'[i].sid <= convs', rows'[i].sid <= convs',
         0 <= convs', harness' = "cursor" => agents'[i].sid <= hist'.old,
         agents'[i].role = "none" => agents'[i].sid = 0 /\ (harness' = "cursor" => rows'[i].sid <= hist'.old),
         agents'[i].role # "none" => agents'[i].on,
         i \notin hist'.untold, work'[i].step = "none"
  PROVE  OpenOf(i)' /\ FrameOf(i)'
<1>1. Empty(i)' /\ agents'[i].cur = NoDir /\ ~agents'[i].frame
  BY DEF Silent, Empty
<1>2. \A d \in Dirs : agents'[i].at[d] <= convs'
  BY <1>1 DEF Empty
<1>3. OpenOf(i)'
  BY <1>1, <1>2 DEF OpenOf
<1>4. FrameOf(i)'
  BY <1>1 DEF FrameOf
<1> QED
  BY <1>3, <1>4

\* The session of agent i is opened, or found open, for a turn.
Opens(i, ag, att) ==
  /\ SameSelf(agents[i], ag) /\ SameTalk(agents[i], ag) /\ AttachedOk(harness, ag, told, convs, att)
  /\ convs' = att.n /\ att.told \subseteq told' /\ OpenedOn(i, att) /\ OneGoesOn(i)
  /\ agents'[i] \in Agent /\ TalkGoesOn

\* A session just opened is attached where the turn is.
LEMMA OpenedWhere ==
  ASSUME Typed, NEW i \in Ids, NEW ag \in Agent, NEW att, Opens(i, ag, att), OpenOf(i)
  PROVE  /\ ag.dir \in Dirs /\ agents'[i].cur = ag.dir
         /\ att.conv \in Nat \ {0} /\ att.conv <= convs'
         /\ \E d \in Dirs : agents'[i].at[d] = att.conv
         /\ harness # "cursor" => agents'[i].at[ag.dir] # 0
         /\ \/ agents'[i].at = agents[i].at
            \/ /\ agents'[i].at = [agents[i].at EXCEPT ![ag.dir] = att.conv]
               /\ agents[i].at[ag.dir] = 0 /\ (harness = "cursor" => Empty(i))
<1>1. /\ ag.at = agents[i].at /\ ag.cur = agents[i].cur /\ ag.sid = agents[i].sid
      /\ agents'[i].at = att.ag.at /\ agents'[i].cur = ag.dir /\ convs' = att.n
      /\ att.conv \in Nat \ {0} /\ att.n \in Nat /\ convs \in Nat /\ convs <= convs'
  BY DEF Opens, SameTalk, AttachedOk, OpenedOn, Typed
<1>2. ag.dir \in Dirs /\ ag.at \in [Dirs -> Nat] /\ ag.sid \in Nat
  BY DEF Agent
<1>3. \A d \in Dirs : agents[i].at[d] <= convs
  BY DEF OpenOf
<1>4. agents[i].sid <= convs
  BY DEF OpenOf
<1>5. CASE Handle(harness, ag) # 0 /\ att.conv = Handle(harness, ag) /\ att.ag.at = ag.at
  <2>1. CASE harness = "cursor"
    <3>1. \E d \in Dirs : ag.at[d] # 0
      BY <1>5, <2>1, HandleType
    <3>2. \E d \in Dirs : ag.at[d] = att.conv
      BY <1>5, <2>1, <3>1, HandleType
    <3> QED
      BY <1>1, <1>2, <1>3, <1>5, <2>1, <3>2
  <2>2. CASE harness # "cursor"
    <3>1. att.conv = ag.at[ag.dir]
      BY <1>5, <2>2, HandleType
    <3> QED
      BY <1>1, <1>2, <1>3, <1>5, <2>2, <3>1
  <2> QED
    BY <2>1, <2>2
<1>6. CASE Handle(harness, ag) = 0 /\ att.ag.at = [ag.at EXCEPT ![ag.dir] = att.conv]
  <2>1. ag.at[ag.dir] = 0 /\ (harness = "cursor" => Empty(i))
    <3>1. harness = "cursor" => \A d \in Dirs : ag.at[d] = 0
      BY <1>6, HandleType
    <3>2. harness # "cursor" => ag.at[ag.dir] = 0
      BY <1>6, HandleType
    <3> QED
      BY <1>1, <1>2, <3>1, <3>2 DEF Empty
  <2>2. att.conv = att.n \/ att.conv = Recorded(harness, ag)
    BY <1>6 DEF Opens, AttachedOk
  <2>3. att.conv <= convs'
    BY <1>1, <1>2, <1>4, <2>2, RecordedType
  <2> QED
    BY <1>1, <1>2, <1>6, <2>1, <2>3
<1> QED
  BY <1>5, <1>6 DEF Opens, AttachedOk

\* Its conversation is the one the turn speaks on.
LEMMA OpenedAt ==
  ASSUME Typed, NEW i \in Ids, NEW ag \in Agent, NEW att, Opens(i, ag, att), OpenOf(i)
  PROVE  \E d \in Dirs : agents'[i].at[d] = att.conv
<1>1. /\ ag.dir \in Dirs /\ agents'[i].cur = ag.dir /\ att.conv \in Nat \ {0} /\ att.conv <= convs'
      /\ \E d \in Dirs : agents'[i].at[d] = att.conv
  BY OpenedWhere
<1> QED
  BY <1>1

\* Opening keeps what the agent held, and the conversation it opened is its own.
LEMMA OpenedHolds ==
  ASSUME Typed, NEW i \in Ids, NEW ag \in Agent, NEW att, Opens(i, ag, att), OpenOf(i)
  PROVE  /\ Excused(i) => Excused(i)'
         /\ HoldsFrame(i) => HoldsFrame(i)'
         /\ att.conv \in told' => HoldsFrame(i)'
         /\ HoldsFrame(i) /\ att.conv \notin told' => Excused(i)'
<1>1. /\ TalkGoesOn /\ told \subseteq told'
  BY DEF Opens, TalkGoesOn
<1>2. PICK e \in Dirs : agents'[i].at[e] = att.conv
  BY OpenedAt
<1>3. att.conv \in Nat \ {0} /\ ag.dir \in Dirs /\ agents[i].at \in [Dirs -> Nat]
  BY OpenedWhere DEF Typed, Agent
<1>4. \A d \in Dirs : agents[i].at[d] # 0 => agents'[i].at[d] = agents[i].at[d]
  BY <1>3, OpenedWhere
<1>5. Excused(i) => Excused(i)'
  <2>1. Two(Places(i)) => Two(Places(i)')
    BY <1>4 DEF Two, Places
  <2>2. FromBefore(i) => FromBefore(i)'
    <3>1. hist'.old = hist.old /\ hist.old \in Nat /\ harness' = harness
      BY <1>1 DEF TalkGoesOn
    <3>2. \A d \in Dirs : agents[i].at[d] \in 1 .. hist.old => agents'[i].at[d] \in 1 .. hist'.old
      BY <1>3, <1>4, <3>1
    <3> QED
      BY <3>1, <3>2 DEF FromBefore
  <2> QED
    BY <2>1, <2>2 DEF Excused, Two
<1>6. HoldsFrame(i) => HoldsFrame(i)'
  BY <1>1, <1>4, <1>5 DEF HoldsFrame
<1>7. att.conv \in told' => HoldsFrame(i)'
  BY <1>2, <1>3 DEF HoldsFrame
<1>8. ASSUME HoldsFrame(i), att.conv \notin told'
      PROVE  Excused(i)'
  <2>1. CASE Excused(i)
    BY <1>5, <2>1
  <2>2. CASE \E d \in Dirs : agents[i].at[d] # 0 /\ agents[i].at[d] \in told
    <3>1. PICK d \in Dirs : agents[i].at[d] # 0 /\ agents[i].at[d] \in told
      BY <2>2
    <3>2. d \in Places(i)' /\ e \in Places(i)' /\ d # e
      BY <1>1, <1>2, <1>3, <1>4, <1>8, <3>1 DEF Places
    <3> QED
      BY <3>2 DEF Excused, Two
  <2> QED
    BY <1>8, <2>1, <2>2 DEF HoldsFrame
<1> QED
  BY <1>5, <1>6, <1>7, <1>8

\* The session a turn opens is the one the next turn finds.
LEMMA OpenedOpen ==
  ASSUME Typed, NEW i \in Ids, NEW ag \in Agent, NEW att, Opens(i, ag, att), OpenOf(i),
         agents[i].role # "none"
  PROVE  OpenOf(i)'
<1>1. /\ ag.dir \in Dirs /\ agents'[i].cur = ag.dir /\ att.conv \in Nat \ {0} /\ att.conv <= convs'
      /\ \E d \in Dirs : agents'[i].at[d] = att.conv
      /\ harness # "cursor" => agents'[i].at[ag.dir] # 0
  BY OpenedWhere
<1>2. NoDir \notin Dirs /\ harness' = harness /\ convs \in Nat /\ convs' \in Nat /\ convs <= convs'
  BY WorkersAssumption DEF Opens, TalkGoesOn, Typed
<1>3. agents'[i].role # "none" /\ rows'[i].sid = agents'[i].sid
  BY DEF Opens, OneGoesOn, SameSelf
<1>4. ~Empty(i)'
  BY <1>1 DEF Empty
<1>5. \A d \in Dirs : agents'[i].at[d] <= convs'
  <2>1. agents[i].at \in [Dirs -> Nat] /\ \A d \in Dirs : agents[i].at[d] <= convs
    BY DEF OpenOf, Typed, Agent
  <2>2. agents'[i].at = agents[i].at \/ agents'[i].at = [agents[i].at EXCEPT ![ag.dir] = att.conv]
    BY OpenedWhere
  <2> QED
    BY <1>1, <1>2, <2>1, <2>2
<1>6. agents'[i].sid <= convs'
  <2>1. agents[i].sid \in Nat /\ agents[i].sid <= convs
    BY DEF OpenOf, Typed, Agent
  <2>2. agents'[i].sid \in {agents[i].sid, att.conv}
    BY DEF Opens, OpenedOn, AttachedOk, SameTalk
  <2> QED
    BY <1>1, <1>2, <2>1, <2>2
<1> QED
  BY <1>1, <1>2, <1>3, <1>4, <1>5, <1>6 DEF OpenOf

\* A session that says it was told has been, or was opened by an earlier process.
LEMMA OpenedFrame ==
  ASSUME Typed, NEW i \in Ids, NEW ag \in Agent, NEW att, Opens(i, ag, att), OpenOf(i), FrameOf(i),
         agents[i].role # "none", ~agents[i].eph, att.ag.frame
  PROVE  HoldsFrame(i)'
<1>1. CASE ag.frame
  <2>1. HoldsFrame(i)
    BY <1>1 DEF FrameOf, Opens, SameTalk
  <2> QED
    BY <2>1, OpenedHolds
<1>2. CASE ~ag.frame
  <2>1. /\ harness = "cursor" /\ Handle(harness, ag) = 0 /\ att.conv = Recorded(harness, ag)
    BY <1>2 DEF Opens, AttachedOk
  <2>2. \A d \in Dirs : ag.at[d] = 0
    BY <2>1, HandleType
  <2>3. Empty(i) /\ agents[i].on
    BY <2>2 DEF Empty, Opens, SameTalk, FrameOf
  <2>4. agents[i].sid <= hist.old /\ agents[i].sid \in Nat
    BY <2>1, <2>3 DEF OpenOf, Typed, Agent
  <2>5. att.conv = agents[i].sid /\ att.conv \in Nat \ {0}
    BY <2>1, RecordedType DEF Opens, AttachedOk, SameTalk
  <2>6. PICK d \in Dirs : agents'[i].at[d] = att.conv
    BY OpenedAt
  <2>7. harness' = "cursor" /\ hist'.old = hist.old /\ hist.old \in Nat
    BY <2>1 DEF Opens, TalkGoesOn
  <2>8. FromBefore(i)'
    BY <2>4, <2>5, <2>6, <2>7 DEF FromBefore
  <2> QED
    BY <2>8 DEF HoldsFrame, Excused
<1> QED
  BY <1>1, <1>2 DEF Agent

\* An agent that is not part of a step keeps its frame.
LEMMA FrameOther ==
  ASSUME Typed, TalkGoesOn, FrameInv, NEW j \in Ids,
         agents'[j] = agents[j], rows'[j] = rows[j], work'[j] = work[j],
         j \in hist'.untold => j \in hist.untold
  PROVE  OpenOf(j)' /\ FrameOf(j)'
<1>1. OpenOf(j) /\ FrameOf(j)
  BY DEF FrameInv
<1>2. work[j].step # "none" => agents[j].role # "none"
  BY <1>1 DEF FrameOf
<1> QED
  BY <1>1, <1>2, FrameSame DEF SameTalk

\* A step that tells nobody anything.
LEMMA NoTalk ==
  ASSUME Typed, UNCHANGED <<told, convs, harness>>, hist'.old = hist.old
  PROVE  TalkGoesOn
BY DEF TalkGoesOn, Typed, History

\* A step that touches no agent keeps every frame.
LEMMA FrameQuiet ==
  ASSUME Typed, FrameInv, UNCHANGED <<agents, rows, work, told, convs, harness, hist>>
  PROVE  FrameInv'
<1>1. TalkGoesOn
  BY NoTalk
<1>2. ASSUME NEW j \in Ids PROVE OpenOf(j)' /\ FrameOf(j)'
  BY <1>1, FrameOther
<1> QED
  BY <1>2 DEF FrameInv

\* A fresh id has done nothing.
LEMMA FreshQuiet ==
  ASSUME FrameInv, NEW i \in Ids, agents[i].role = "none"
  PROVE  i \notin hist.untold /\ work[i].step = "none"
BY DEF FrameInv, FrameOf

\* The frames, one lemma per action that can disturb them.
LEMMA FrameInitialize ==
  ASSUME Typed, PairInv, FrameInv, Initialize
  PROVE  FrameInv'
<1>1. UNCHANGED <<work, told, convs, harness, hist>>
  BY DEF Initialize, provider, bounds
<1>2. TalkGoesOn
  BY <1>1, NoTalk
<1>3. PICK i \in Ids : /\ rows[i].kept = "none" /\ agents'[i] = NewAgent("planner", FALSE, FALSE)
                       /\ rows'[i].sid = 0
                       /\ \A j \in Ids \ {i} : agents'[j] = agents[j] /\ rows'[j] = rows[j]
  BY InitializeStep
<1>4. agents[i].role = "none"
  BY <1>3, FreshId DEF PairInv
<1>5. i \notin hist'.untold /\ work'[i].step = "none"
  BY <1>1, <1>4, FreshQuiet
<1>6. Silent(agents'[i]) /\ agents'[i].sid = 0 /\ agents'[i].on /\ agents'[i].role = "planner"
  <2>1. PICK no \in BOOLEAN : no = FALSE
    OBVIOUS
  <2>2. LET s == NewAgent("planner", no, no) IN
          s.at = [d \in Dirs |-> 0] /\ s.cur = NoDir /\ ~s.frame /\ s.sid = 0 /\ s.on /\ s.role = "planner"
    BY NewAgentType
  <2> DEFINE s == NewAgent("planner", no, no)
  <2>3. agents'[i] = s
    BY <1>3, <2>1
  <2>4. s.at = [d \in Dirs |-> 0] /\ s.cur = NoDir /\ ~s.frame /\ s.sid = 0 /\ s.on /\ s.role = "planner"
    BY <2>2
  <2> HIDE DEF s
  <2> QED
    BY <2>3, <2>4 DEF Silent
<1>7. 0 <= convs' /\ 0 <= hist'.old
  BY <1>2 DEF TalkGoesOn
<1>8. OpenOf(i)' /\ FrameOf(i)'
  BY <1>3, <1>5, <1>6, <1>7, FrameSilent
<1>9. ASSUME NEW j \in Ids \ {i} PROVE OpenOf(j)' /\ FrameOf(j)'
  BY <1>1, <1>2, <1>3, FrameOther
<1> QED
  BY <1>8, <1>9 DEF FrameInv

LEMMA FrameRestart ==
  ASSUME Typed, FrameInv, Restart
  PROVE  FrameInv'
<1>1. /\ rows' = rows /\ convs' = convs /\ agents' = [i \in Ids |-> NoAgent] /\ work' = [i \in Ids |-> Nobody]
      /\ hist'.untold = {} /\ hist'.old = convs
  BY RestartStep
<1>2. ASSUME NEW i \in Ids PROVE OpenOf(i)' /\ FrameOf(i)'
  <2>1. agents'[i] = NoAgent /\ work'[i] = Nobody
    BY <1>1
  <2>2. Silent(agents'[i]) /\ agents'[i].sid = 0 /\ agents'[i].role = "none"
    BY <2>1, NoAgentType DEF Silent
  <2>3. work'[i].step = "none" /\ i \notin hist'.untold
    BY <1>1, <2>1 DEF Nobody
  <2>4. rows[i].sid <= convs /\ convs \in Nat
    BY DEF FrameInv, OpenOf, Typed
  <2>5. rows'[i].sid <= convs' /\ rows'[i].sid <= hist'.old /\ 0 <= convs' /\ 0 <= hist'.old
    BY <1>1, <2>4
  <2> QED
    BY <2>2, <2>3, <2>5, FrameSilent
<1> QED
  BY <1>2 DEF FrameInv

LEMMA FramePair ==
  ASSUME Typed, PairInv, FrameInv, NEW q \in Requests, Pair(q)
  PROVE  FrameInv'
<1>1. /\ UNCHANGED <<work, told, convs, harness>> /\ reqs[q].pc = "found"
      /\ hist'.untold = hist.untold /\ hist'.old = hist.old
  BY PairStep
<1>2. TalkGoesOn
  BY <1>1, NoTalk
<1>3. PICK i \in Ids : /\ agents'[i].on
                       /\ PairedMade(q, i) \/ PairedOn(q, i) \/ PairedBack(q, i)
                       /\ \A j \in Ids \ {i} : agents'[j] = agents[j] /\ rows'[j] = rows[j]
  BY PairStep
<1>4. 0 <= convs' /\ 0 <= hist'.old
  BY <1>2 DEF TalkGoesOn
<1>5. OpenOf(i) /\ FrameOf(i)
  BY DEF FrameInv
<1>6. ASSUME PairedMade(q, i)
      PROVE  OpenOf(i)' /\ FrameOf(i)'
  <2>1. agents[i].role = "none"
    BY <1>6, FreshId DEF PairedMade, PairInv
  <2>2. i \notin hist'.untold /\ work'[i].step = "none"
    BY <1>1, <2>1, FreshQuiet
  <2> QED
    BY <1>3, <1>4, <1>6, <2>2, FrameSilent DEF PairedMade
<1>7. ASSUME PairedOn(q, i)
      PROVE  OpenOf(i)' /\ FrameOf(i)'
  <2>1. agents[i].role # "none" /\ agents'[i].on = agents[i].on
    BY <1>3, <1>7 DEF PairedOn, PairInv, RowOfEach, Typed, Agent
  <2>2. /\ SameTalk(agents[i], agents'[i]) /\ agents'[i].role = agents[i].role
        /\ agents'[i].eph = agents[i].eph /\ rows'[i].sid \in {rows[i].sid, agents[i].sid}
    BY <1>7 DEF PairedOn
  <2>3. work'[i].step = work[i].step /\ hist'.untold = hist.untold
    BY <1>1
  <2> QED
    BY <1>2, <1>5, <2>1, <2>2, <2>3, FrameSame
<1>8. ASSUME PairedBack(q, i)
      PROVE  OpenOf(i)' /\ FrameOf(i)'
  <2>1. agents[i].role = "none"
    BY <1>1, <1>8 DEF PairedBack, PairInv, RowOfEach, FoundRow, Typed, Agent, Ids
  <2>2. i \notin hist'.untold /\ work'[i].step = "none"
    BY <1>1, <2>1, FreshQuiet
  <2>3. rows[i].sid <= convs /\ (harness = "cursor" => rows[i].sid <= hist.old)
    BY <1>5, <2>1 DEF OpenOf
  <2>4. /\ agents'[i].sid <= convs' /\ rows'[i].sid <= convs'
        /\ harness' = "cursor" => agents'[i].sid <= hist'.old
    BY <1>1, <1>8, <2>3 DEF PairedBack
  <2>5. agents'[i].role = "planner" /\ Silent(agents'[i])
    BY <1>8 DEF PairedBack
  <2> QED
    BY <1>3, <1>4, <2>2, <2>4, <2>5, FrameSilent
<1>9. OpenOf(i)' /\ FrameOf(i)'
  BY <1>3, <1>6, <1>7, <1>8
<1>10. ASSUME NEW j \in Ids \ {i} PROVE OpenOf(j)' /\ FrameOf(j)'
  BY <1>1, <1>2, <1>3, FrameOther
<1> QED
  BY <1>9, <1>10 DEF FrameInv

LEMMA FrameInstruct ==
  ASSUME Typed, PairInv, FrameInv, NEW q \in Requests, Instruct(q)
  PROVE  FrameInv'
<1>1. UNCHANGED <<told, convs, harness, hist>>
  BY InstructStep DEF PairInv
<1>2. TalkGoesOn
  BY <1>1, NoTalk
<1>3. PICK i \in ForTask :
        /\ agents'[i].on = agents[i].on /\ agents'[i].role = agents[i].role
        /\ agents'[i].eph = agents[i].eph
        /\ SameTalk(agents[i], agents'[i]) /\ rows'[i].sid = agents[i].sid
        /\ work'[i].step = "turn" => agents[i].frame
        /\ \A j \in Ids \ {i} : agents'[j] = agents[j] /\ rows'[j] = rows[j] /\ work'[j] = work[j]
  BY InstructStep DEF PairInv
<1>4. i \in Ids /\ agents[i].role # "none"
  BY <1>3 DEF ForTask, Planners
<1>5. OpenOf(i) /\ FrameOf(i)
  BY <1>4 DEF FrameInv
<1>6. OpenOf(i)' /\ FrameOf(i)'
  BY <1>1, <1>2, <1>3, <1>4, <1>5, FrameSame
<1>7. ASSUME NEW j \in Ids \ {i} PROVE OpenOf(j)' /\ FrameOf(j)'
  BY <1>1, <1>2, <1>3, FrameOther
<1> QED
  BY <1>6, <1>7 DEF FrameInv

LEMMA FrameRefused ==
  ASSUME Typed, FrameInv, NEW i \in Ids, Refused(i)
  PROVE  FrameInv'
<1>1. WorkEnds(i) /\ UNCHANGED <<agents, rows, told, convs, harness, hist>>
  BY RefusedStep
<1>2. TalkGoesOn
  BY <1>1, NoTalk
<1>3. work'[i].step = "none" /\ \A j \in Ids \ {i} : work'[j] = work[j]
  BY <1>1 DEF WorkEnds, Nobody
<1>4. OpenOf(i) /\ FrameOf(i)
  BY DEF FrameInv
<1>5. OpenOf(i)' /\ FrameOf(i)'
  BY <1>1, <1>2, <1>3, <1>4, FrameSame DEF SameTalk
<1>6. ASSUME NEW j \in Ids \ {i} PROVE OpenOf(j)' /\ FrameOf(j)'
  BY <1>1, <1>2, <1>3, FrameOther
<1> QED
  BY <1>5, <1>6 DEF FrameInv

LEMMA FrameDrained ==
  ASSUME Typed, FrameInv, NEW i \in Ids, Drained(i)
  PROVE  FrameInv'
<1>1. /\ OneGoesOn(i) /\ SameTalk(agents[i], agents'[i])
      /\ UNCHANGED <<work, told, convs, harness, hist>>
  BY DrainedStep
<1>2. TalkGoesOn
  BY <1>1, NoTalk
<1>3. OpenOf(i) /\ FrameOf(i)
  BY DEF FrameInv
<1>4. /\ rows'[i].sid = agents[i].sid /\ (agents[i].role = "none" => rows'[i].sid = 0)
      /\ agents'[i].on = agents[i].on /\ agents'[i].role = agents[i].role /\ agents'[i].eph = agents[i].eph
      /\ \A j \in Ids \ {i} : agents'[j] = agents[j] /\ rows'[j] = rows[j]
  BY <1>1, <1>3 DEF OneGoesOn, SameSelf, SameTalk, OpenOf
<1>5. work'[i].step # "none" => agents[i].role # "none"
  BY <1>1, <1>3 DEF FrameOf
<1>6. OpenOf(i)' /\ FrameOf(i)'
  BY <1>1, <1>2, <1>3, <1>4, <1>5, FrameSame
<1>7. ASSUME NEW j \in Ids \ {i} PROVE OpenOf(j)' /\ FrameOf(j)'
  BY <1>1, <1>2, <1>4, FrameOther
<1> QED
  BY <1>6, <1>7 DEF FrameInv

LEMMA FramePrompt ==
  ASSUME Typed, LoanInv, FrameInv, NEW l \in Loans, Prompt(l)
  PROVE  FrameInv'
<1>1. UNCHANGED <<agents, rows, told, convs, harness, hist>> /\ loans[l].pc = "open"
  BY PromptStep DEF LoanInv
<1>2. TalkGoesOn
  BY <1>1, NoTalk
<1>3. PICK i \in Ids : /\ i = loans[l].agent /\ (work'[i].step = "turn" => agents[i].frame)
                       /\ \A j \in Ids \ {i} : work'[j] = work[j]
  BY PromptStep DEF LoanInv
<1>4. OpenOf(i) /\ FrameOf(i) /\ agents[i].role = "worker"
  BY <1>1, <1>3 DEF FrameInv, LoanInv, LoanedWorker
<1>5. OpenOf(i)' /\ FrameOf(i)'
  BY <1>1, <1>2, <1>3, <1>4, FrameSame DEF SameTalk
<1>6. ASSUME NEW j \in Ids \ {i} PROVE OpenOf(j)' /\ FrameOf(j)'
  BY <1>1, <1>2, <1>3, FrameOther
<1> QED
  BY <1>5, <1>6 DEF FrameInv

LEMMA FrameLend ==
  ASSUME Typed, LoanInv, FrameInv, NEW l \in Loans, LendWorker(l)
  PROVE  FrameInv'
<1>1. /\ UNCHANGED <<work, told, convs, harness>> /\ loans[l].pc = "lend"
      /\ hist'.untold = hist.untold /\ hist'.old = hist.old
  BY LendWorkerStep DEF LoanInv
<1>2. TalkGoesOn
  BY <1>1, NoTalk
<1>3. CASE UNCHANGED <<agents, rows, hist>>
  BY <1>1, <1>3, FrameQuiet
<1>4. ASSUME NEW i \in Ids, i = loans[l].agent, agents'[i].on = agents[i].on,
             agents'[i].role = agents[i].role, agents'[i].eph = agents[i].eph,
             SameTalk(agents[i], agents'[i]), rows'[i].sid = agents[i].sid,
             \A j \in Ids \ {i} : agents'[j] = agents[j] /\ rows'[j] = rows[j]
      PROVE  FrameInv'
  <2>1. OpenOf(i) /\ FrameOf(i) /\ agents[i].role = "worker"
    BY <1>1, <1>4 DEF FrameInv, LoanInv, LoanedWorker
  <2>2. OpenOf(i)' /\ FrameOf(i)'
    BY <1>1, <1>2, <1>4, <2>1, FrameSame
  <2>3. ASSUME NEW j \in Ids \ {i} PROVE OpenOf(j)' /\ FrameOf(j)'
    BY <1>1, <1>2, <1>4, FrameOther
  <2> QED
    BY <2>2, <2>3 DEF FrameInv
<1>5. LoanedWorker
  BY DEF LoanInv
<1>6. \/ loans'[l].pc = "done" /\ UNCHANGED <<agents, rows, hist>>
      \/ \E i \in Ids :
           /\ i = loans[l].agent /\ loans'[l].pc = "open" /\ loans'[l].agent = i
           /\ agents'[i].session = l /\ agents'[i].on = agents[i].on
           /\ agents'[i].role = agents[i].role /\ agents'[i].eph = agents[i].eph
           /\ agents'[i].bound = agents[i].bound /\ SameTalk(agents[i], agents'[i])
           /\ rows'[i].kept = "live" /\ rows'[i].sid = agents[i].sid
           /\ \A j \in Ids \ {i} : agents'[j] = agents[j] /\ rows'[j] = rows[j]
           /\ hist'.shared = IF \E k \in OnLoan(i) \ {l} : loans[k].pc # "lend"
                               THEN hist.shared \union {i} ELSE hist.shared
  BY <1>5, LendWorkerStep
<1> QED
  BY <1>3, <1>4, <1>6, Zenon

LEMMA FrameRegister ==
  ASSUME Typed, PairInv, FrameInv, NEW l \in Loans, RegisterWorker(l)
  PROVE  FrameInv'
<1>1. Typed' /\ UNCHANGED <<work, harness, hist>> /\ told \subseteq told' /\ convs <= convs'
  BY RegisterWorkerStep
<1>2. TalkGoesOn
  BY <1>1 DEF TalkGoesOn, Typed, History
<1>3. PICK i \in Ids :
        /\ rows[i].kept = "none" /\ \A j \in Ids \ {i} : agents'[j] = agents[j] /\ rows'[j] = rows[j]
        /\ \/ /\ loans'[l].pc = "done" /\ agents' = agents /\ told' = told /\ convs' = convs
              /\ rows'[i].kept = "deleted" /\ rows'[i].sid = 0
           \/ /\ loans'[l].pc = "open" /\ loans'[l].agent = i
              /\ agents'[i].on /\ agents'[i].role = "worker" /\ agents'[i].session = l
              /\ rows'[i].kept = "live" /\ rows'[i].sid = agents'[i].sid
              /\ agents'[i].sid <= convs' /\ (\A d \in Dirs : agents'[i].at[d] <= convs')
              /\ ~agents'[i].frame /\ agents'[i].cur # NoDir /\ agents'[i].at[agents'[i].cur] # 0
  BY RegisterWorkerStep
<1>4. agents[i].role = "none" /\ OpenOf(i) /\ FrameOf(i)
  BY <1>3, FreshId DEF PairInv, FrameInv
<1>5. i \notin hist'.untold /\ work'[i].step = "none"
  BY <1>1, <1>4, FreshQuiet
<1>6. ASSUME agents' = agents /\ rows'[i].sid = 0
      PROVE  OpenOf(i)' /\ FrameOf(i)'
  BY <1>2, <1>4, <1>5, <1>6, FrameSame DEF SameTalk
<1>7. ASSUME agents'[i].on, agents'[i].role = "worker", rows'[i].sid = agents'[i].sid,
             agents'[i].sid <= convs', (\A d \in Dirs : agents'[i].at[d] <= convs'),
             ~agents'[i].frame, agents'[i].cur # NoDir, agents'[i].at[agents'[i].cur] # 0
      PROVE  OpenOf(i)' /\ FrameOf(i)'
  <2>1. agents'[i].cur \in Dirs
    BY <1>1, <1>7 DEF Typed, Agent
  <2>2. ~Empty(i)'
    BY <1>7, <2>1 DEF Empty
  <2> QED
    BY <1>5, <1>7, <2>2 DEF OpenOf, FrameOf
<1>8. OpenOf(i)' /\ FrameOf(i)'
  BY <1>3, <1>6, <1>7
<1>9. ASSUME NEW j \in Ids \ {i} PROVE OpenOf(j)' /\ FrameOf(j)'
  BY <1>1, <1>2, <1>3, FrameOther
<1> QED
  BY <1>8, <1>9 DEF FrameInv

LEMMA FrameRelease ==
  ASSUME Typed, LoanInv, FrameInv, NEW l \in Loans, Release(l)
  PROVE  FrameInv'
<1>1. Typed' /\ UNCHANGED <<work, told, convs, harness, hist>> /\ loans[l].pc = "answered"
  BY ReleaseStep DEF LoanInv
<1>2. TalkGoesOn
  BY <1>1, NoTalk
<1>3. PICK i \in Ids :
        /\ i = loans[l].agent
        /\ \A j \in Ids \ {i} : agents'[j] = agents[j] /\ rows'[j] = rows[j]
        /\ agents'[i].role = agents[i].role /\ agents'[i].eph = agents[i].eph
        /\ agents'[i].sid = agents[i].sid /\ rows'[i].sid = agents[i].sid
        /\ \/ agents[i].eph /\ ~agents'[i].on /\ agents'[i].cur = NoDir /\ (\A d \in Dirs : agents'[i].at[d] = 0)
           \/ ~agents[i].eph /\ agents'[i].on = agents[i].on /\ SameTalk(agents[i], agents'[i])
  BY ReleaseStep DEF LoanInv
<1>4. agents[i].role = "worker" /\ OpenOf(i) /\ FrameOf(i)
  BY <1>1, <1>3 DEF FrameInv, LoanInv, LoanedWorker
<1>5. ASSUME agents[i].eph
      PROVE  OpenOf(i)' /\ FrameOf(i)'
  <2>1. agents'[i].eph /\ agents'[i].role = "worker" /\ ~agents'[i].on /\ Empty(i)' /\ agents'[i].cur = NoDir
    BY <1>3, <1>4, <1>5 DEF Empty
  <2>2. agents'[i].sid <= convs' /\ rows'[i].sid <= convs' /\ 0 <= convs'
    BY <1>1, <1>3, <1>4 DEF OpenOf, Typed
  <2>3. OpenOf(i)'
    BY <2>1, <2>2 DEF OpenOf, Empty
  <2>4. FrameOf(i)'
    BY <2>1 DEF FrameOf
  <2> QED
    BY <2>3, <2>4
<1>6. ASSUME ~agents[i].eph
      PROVE  OpenOf(i)' /\ FrameOf(i)'
  <2>1. agents'[i].on = agents[i].on /\ SameTalk(agents[i], agents'[i]) /\ work'[i] = work[i] /\ hist' = hist
    BY <1>1, <1>3, <1>6
  <2> QED
    BY <1>2, <1>3, <1>4, <2>1, FrameSame
<1>7. OpenOf(i)' /\ FrameOf(i)'
  BY <1>5, <1>6 DEF Typed, Agent
<1>8. ASSUME NEW j \in Ids \ {i} PROVE OpenOf(j)' /\ FrameOf(j)'
  BY <1>1, <1>2, <1>3, FrameOther
<1> QED
  BY <1>7, <1>8 DEF FrameInv

LEMMA FrameTurn ==
  ASSUME Typed, FrameInv, NEW i \in Ids, Turn(i)
  PROVE  FrameInv'
<1>1. /\ Typed' /\ OneGoesOn(i) /\ harness' = harness /\ work[i].step = "turn" /\ WorkEnds(i)
      /\ hist'.old = hist.old
  BY TurnStep
<1>2. PICK ag, att :
        /\ ag \in Agent
        /\ SameSelf(agents[i], ag) /\ SameTalk(agents[i], ag)
        /\ AttachedOk(harness, ag, told, convs, att) /\ convs' = att.n /\ OpenedOn(i, att)
        /\ told' = att.told /\ (agents'[i].frame => att.ag.frame)
        /\ hist'.untold = IF att.conv \in att.told THEN hist.untold ELSE hist.untold \union {i}
  BY TurnStep
<1>3. TalkGoesOn
  BY <1>1, <1>2 DEF TalkGoesOn, AttachedOk, Typed, History
<1>4. Opens(i, ag, att)
  BY <1>1, <1>2, <1>3 DEF Opens, Typed
<1>5. OpenOf(i) /\ FrameOf(i)
  BY DEF FrameInv
<1>6. agents[i].role # "none"
  BY <1>1, <1>5 DEF FrameOf
<1>7. /\ agents'[i].on = agents[i].on /\ agents'[i].role = agents[i].role /\ agents'[i].eph = agents[i].eph
      /\ \A j \in Ids \ {i} : agents'[j] = agents[j] /\ rows'[j] = rows[j]
  BY <1>1 DEF OneGoesOn, SameSelf
<1>8. work'[i].step = "none" /\ \A j \in Ids \ {i} : work'[j] = work[j]
  BY <1>1 DEF WorkEnds, Nobody
<1>9. OpenOf(i)'
  BY <1>2, <1>4, <1>5, <1>6, OpenedOpen
<1>10. ASSUME ~agents[i].eph, agents'[i].frame
       PROVE  HoldsFrame(i)'
  BY <1>2, <1>4, <1>5, <1>6, <1>10, OpenedFrame
<1>11. ASSUME ~agents[i].eph, i \in hist'.untold
       PROVE  Excused(i)'
  <2>1. CASE i \in hist.untold
    <3>1. Excused(i)
      BY <1>5, <1>11, <2>1 DEF FrameOf
    <3> QED
      BY <1>2, <1>4, <1>5, <3>1, OpenedHolds
  <2>2. CASE i \notin hist.untold
    <3>1. att.conv \notin told'
      BY <1>2, <1>11, <2>2
    <3>2. HoldsFrame(i)
      BY <1>1, <1>5, <1>11 DEF FrameOf
    <3> QED
      BY <1>2, <1>4, <1>5, <3>1, <3>2, OpenedHolds
  <2> QED
    BY <2>1, <2>2
<1>12. agents[i].role # "none" /\ ~agents[i].eph => agents[i].on
  BY <1>5 DEF FrameOf
<1>13. FrameOf(i)'
  BY <1>6, <1>7, <1>8, <1>10, <1>11, <1>12 DEF FrameOf
<1>14. ASSUME NEW j \in Ids \ {i} PROVE OpenOf(j)' /\ FrameOf(j)'
  <2>1. j \in hist'.untold => j \in hist.untold
    BY <1>2, <1>14
  <2> QED
    BY <1>3, <1>7, <1>8, <2>1, FrameOther
<1> QED
  BY <1>9, <1>13, <1>14 DEF FrameInv

\* The frame is told to the session it opens, at its creation or as a turn, or
\* the session had been told.
LEMMA FirstHolds ==
  ASSUME Typed, NEW i \in Ids, NEW ag \in Agent, NEW att, Opens(i, ag, att), OpenOf(i), FrameOf(i),
         agents[i].role # "none", ~agents[i].eph, ag.words,
         FrameAtBirth(i, ag, att) \/ FrameTold(i, ag, att)
  PROVE  HoldsFrame(i)'
<1>1. CASE FrameTold(i, ag, att)
  <2>1. ~ag.eph
    BY DEF Opens, SameSelf
  <2>2. att.conv \in told'
    BY <1>1, <2>1 DEF FrameTold, Keeps
  <2> QED
    BY <2>2, OpenedHolds
<1>2. CASE FrameAtBirth(i, ag, att)
  <2>1. harness = "cline" /\ att.conv # ProviderSession(agents[i])
    BY <1>2 DEF FrameAtBirth
  <2>2. ag.at = agents[i].at /\ ag.dir \in Dirs /\ ag.at \in [Dirs -> Nat]
    BY DEF Opens, SameTalk, Agent
  <2>3. CASE Handle(harness, ag) = 0
    <3>1. att.conv \in att.told
      BY <2>1, <2>3 DEF Opens, AttachedOk
    <3>2. att.conv \in told'
      BY <1>2, <3>1 DEF FrameAtBirth
    <3> QED
      BY <3>2, OpenedHolds
  <2>4. CASE Handle(harness, ag) # 0
    <3>1. att.conv = agents[i].at[ag.dir] /\ att.conv # 0
      BY <2>1, <2>2, <2>4, HandleType DEF Opens, AttachedOk
    <3>2. agents[i].cur \in Dirs
      BY <2>2, <3>1 DEF OpenOf, Empty, Typed, Agent
    <3>3. agents[i].at[agents[i].cur] # 0 /\ NoDir \notin Dirs
      BY <2>1, <3>2, WorkersAssumption DEF OpenOf
    <3>4. att.conv # agents[i].at[agents[i].cur]
      BY <2>1, <3>2, <3>3 DEF ProviderSession
    <3>5. ag.dir \in Places(i) /\ agents[i].cur \in Places(i) /\ ag.dir # agents[i].cur
      BY <2>2, <3>1, <3>2, <3>3, <3>4 DEF Places
    <3>6. HoldsFrame(i)
      BY <3>5 DEF HoldsFrame, Excused, Two
    <3> QED
      BY <3>6, OpenedHolds
  <2> QED
    BY <2>3, <2>4
<1> QED
  BY <1>1, <1>2

LEMMA FrameFirstPrompt ==
  ASSUME Typed, FrameInv, NEW i \in Ids, GiveFirstPrompt(i)
  PROVE  FrameInv'
<1>1. /\ Typed' /\ OneGoesOn(i) /\ harness' = harness /\ work[i].step = "frame"
      /\ hist'.untold = hist.untold /\ hist'.old = hist.old
  BY GiveFirstPromptStep
<1>2. PICK ag, att :
        /\ ag \in Agent
        /\ SameSelf(agents[i], ag) /\ SameTalk(agents[i], ag) /\ ag.words
        /\ AttachedOk(harness, ag, told, convs, att) /\ convs' = att.n /\ OpenedOn(i, att)
        /\ FrameAtBirth(i, ag, att) \/ FrameTold(i, ag, att) \/ FrameFailed(i, att)
  BY GiveFirstPromptStep
<1>3. att.told \subseteq told' /\ told \subseteq att.told
  BY <1>2 DEF FrameAtBirth, FrameTold, FrameFailed, AttachedOk
<1>4. TalkGoesOn
  BY <1>1, <1>2, <1>3 DEF TalkGoesOn, AttachedOk, Typed, History
<1>5. Opens(i, ag, att)
  BY <1>1, <1>2, <1>3, <1>4 DEF Opens, Typed
<1>6. OpenOf(i) /\ FrameOf(i)
  BY DEF FrameInv
<1>7. agents[i].role # "none"
  BY <1>1, <1>6 DEF FrameOf
<1>8. /\ agents'[i].on = agents[i].on /\ agents'[i].role = agents[i].role /\ agents'[i].eph = agents[i].eph
      /\ \A j \in Ids \ {i} : agents'[j] = agents[j] /\ rows'[j] = rows[j]
  BY <1>1 DEF OneGoesOn, SameSelf
<1>9. \A j \in Ids \ {i} : work'[j] = work[j]
  BY <1>2 DEF FrameAtBirth, FrameTold, FrameFailed, Goes, WorkEnds
<1>10. OpenOf(i)'
  BY <1>2, <1>5, <1>6, <1>7, OpenedOpen
<1>11. ASSUME ~agents[i].eph, agents'[i].frame \/ work'[i].step = "turn"
       PROVE  HoldsFrame(i)'
  <2>1. CASE FrameAtBirth(i, ag, att) \/ FrameTold(i, ag, att)
    BY <1>2, <1>5, <1>6, <1>7, <1>11, <2>1, FirstHolds
  <2>2. CASE FrameFailed(i, att)
    <3>1. work'[i].step = "none"
      BY <2>2 DEF FrameFailed, WorkEnds, Nobody
    <3>2. att.ag.frame
      BY <1>11, <2>2, <3>1 DEF FrameFailed
    <3> QED
      BY <1>2, <1>5, <1>6, <1>7, <1>11, <3>2, OpenedFrame
  <2> QED
    BY <1>2, <2>1, <2>2
<1>12. Excused(i) => Excused(i)'
  BY <1>2, <1>5, <1>6, OpenedHolds
<1>13. /\ i \in hist.untold => agents[i].eph \/ Excused(i)
       /\ agents[i].role # "none" /\ ~agents[i].eph => agents[i].on
  BY <1>6 DEF FrameOf
<1>14. FrameOf(i)'
  BY <1>1, <1>7, <1>8, <1>11, <1>12, <1>13 DEF FrameOf
<1>15. ASSUME NEW j \in Ids \ {i} PROVE OpenOf(j)' /\ FrameOf(j)'
  BY <1>1, <1>4, <1>8, <1>9, FrameOther
<1> QED
  BY <1>10, <1>14, <1>15 DEF FrameInv

\* Every step keeps the frames.
LEMMA FrameSteps ==
  ASSUME Typed, PairInv, LoanInv, FrameInv, Next
  PROVE  FrameInv'
<1>1. ASSUME NEW q \in Requests, NEW a, Lookup(q, a)
      PROVE  FrameInv'
  BY <1>1, LookupStep, FrameQuiet
<1>2. ASSUME NEW l \in Loans, NEW eph \in OneShot, Acquire(l, eph)
      PROVE  FrameInv'
  <2>1. eph \in BOOLEAN
    BY WorkersAssumption
  <2> QED
    BY <1>2, <2>1, AcquireStep, FrameQuiet
<1>3. ASSUME NEW a \in Editable, EditAccount(a)
      PROVE  FrameInv'
  BY <1>3, EditStep, FrameQuiet
<1> QED
  BY <1>1, <1>2, <1>3, FrameInitialize, FrameRestart, FramePair, FrameInstruct, FrameRefused,
     FrameDrained, FramePrompt, FrameLend, FrameRegister, FrameRelease, FrameTurn, FrameFirstPrompt,
     ZenonT(60) DEF Next

\* Every step keeps the types.
LEMMA TypedSteps ==
  ASSUME Typed, PairInv, LoanInv, Next
  PROVE  Typed'
<1>1. QueuedOn /\ LoanedWorker
  BY DEF PairInv, LoanInv
<1>2. ASSUME NEW l \in Loans, NEW eph \in OneShot, Acquire(l, eph)
      PROVE  Typed'
  <2>1. eph \in BOOLEAN
    BY WorkersAssumption
  <2> QED
    BY <1>2, <2>1, AcquireStep
<1>3. ASSUME NEW q \in Requests, Instruct(q) PROVE Typed'
  BY <1>1, <1>3, InstructStep
<1>4. ASSUME NEW l \in Loans, LendWorker(l) \/ Prompt(l) \/ Release(l) PROVE Typed'
  BY <1>1, <1>4, LendWorkerStep, PromptStep, ReleaseStep
<1>5. ASSUME NEW q \in Requests, NEW a, Lookup(q, a) PROVE Typed'
  BY <1>5, LookupStep
<1>6. ASSUME NEW q \in Requests, Pair(q) PROVE Typed'
  BY <1>6, PairStep
<1>7. ASSUME NEW i \in Ids, Refused(i) \/ Drained(i) PROVE Typed'
  BY <1>7, RefusedStep, DrainedStep
<1>8. ASSUME NEW i \in Ids, GiveFirstPrompt(i) PROVE Typed'
  BY <1>8, GiveFirstPromptStep
<1>9. ASSUME NEW i \in Ids, Turn(i) PROVE Typed'
  BY <1>9, TurnStep
<1>10. ASSUME NEW l \in Loans, RegisterWorker(l) PROVE Typed'
  BY <1>10, RegisterWorkerStep
<1>11. ASSUME NEW a \in Editable, EditAccount(a) PROVE Typed'
  BY <1>11, EditStep
<1>12. Initialize \/ Restart => Typed'
  BY InitializeStep, RestartStep
<1> QED
  BY <1>2, <1>3, <1>4, <1>5, <1>6, <1>7, <1>8, <1>9, <1>10, <1>11, <1>12, ZenonT(60) DEF Next

\* A process begins with the invariant.
LEMMA InitInv ==
  ASSUME Init
  PROVE  Inv
<1>1. Typed
  <2>1. harness \in Harnesses /\ pairing = 0 /\ convs = 0 /\ told = {}
    BY WorkersAssumption DEF Init
  <2>2. agents \in [Ids -> Agent]
    BY NoAgentType DEF Init
  <2>3. rows \in [Ids -> AgentRow]
    BY DEF Init, AgentRow
  <2>4. pool \in [Accounts -> Account]
    <3>1. \A b \in BOOLEAN : [enabled |-> TRUE, default |-> b, root |-> "r1"] \in Account
      BY DEF Account
    <3>2. \A a \in Accounts : (a = Max(Accounts)) \in BOOLEAN
      OBVIOUS
    <3>3. pool = [a \in Accounts |-> [enabled |-> TRUE, default |-> a = Max(Accounts), root |-> "r1"]]
      BY DEF Init
    <3> QED
      BY <3>1, <3>2, <3>3
  <2>5. reqs \in [Requests -> RequestState] /\ loans \in [Loans -> Loan]
    BY DEF Init, RequestState, Loan
  <2>6. work \in [Ids -> Work]
    BY DEF Init, Work, Nobody
  <2>7. hist \in History
    BY DEF Init, NoHist, History
  <2> QED
    BY <2>1, <2>2, <2>3, <2>4, <2>5, <2>6, <2>7 DEF Typed
<1>2. \A i \in Ids : agents[i] = NoAgent /\ work[i] = Nobody /\ rows[i].kept = "none" /\ rows[i].sid = 0
  BY DEF Init
<1>3. \A i \in Ids : /\ ~agents[i].on /\ agents[i].role = "none" /\ Silent(agents[i]) /\ agents[i].sid = 0
                     /\ work[i].step = "none" /\ work[i].for = "none"
  BY <1>2, NoAgentType DEF Silent, Nobody
<1>4. PairInv
  <2>1. ForTask = {}
    BY <1>3 DEF ForTask, Planners
  <2>2. pairing = 0 /\ \A q \in Requests : reqs[q].pc = "new"
    BY DEF Init
  <2> QED
    BY <1>3, <2>1, <2>2 DEF PairInv, RowOfEach, PairedRow, FoundRow, QueuedOn, PairedHeld
<1>5. LoanInv
  <2>1. \A l \in Loans : loans[l].pc = "new"
    BY DEF Init
  <2> QED
    BY <1>3, <2>1, WorkersAssumption DEF LoanInv, LoanedWorker, LoanSpeaks, AskedOnce, SpokenOnItsLoan
<1>6. FrameInv
  <2>1. hist.untold = {} /\ hist.old = 0 /\ convs = 0
    BY DEF Init, NoHist
  <2>2. ASSUME NEW i \in Ids PROVE OpenOf(i) /\ FrameOf(i)
    <3>1. OpenOf(i)
      BY <1>2, <1>3, <2>1 DEF OpenOf, Silent, Empty
    <3>2. FrameOf(i)
      BY <1>3, <2>1 DEF FrameOf, Silent
    <3> QED
      BY <3>1, <3>2
  <2> QED
    BY <2>2 DEF FrameInv
<1> QED
  BY <1>1, <1>4, <1>5, <1>6 DEF Inv

\* The invariant is inductive.
LEMMA StepInv ==
  ASSUME Inv, [Next]_vars
  PROVE  Inv'
<1>1. CASE Next
  BY <1>1, TypedSteps, PairSteps, LoanSteps, FrameSteps DEF Inv, LoanInv
<1>2. CASE UNCHANGED vars
  <2>1. UNCHANGED <<harness, agents, rows, pairing, pool, reqs, loans, work, told, convs, hist>>
    BY <1>2 DEF vars
  <2>2. Typed'
    BY <2>1 DEF Inv, Typed
  <2>3. SelvesKept /\ WorkersStay
    BY <2>1 DEF SelvesKept, WorkersStay
  <2>4. PairInv'
    BY <2>1, <2>3, PairQuiet DEF Inv
  <2>5. LoanInv'
    BY <2>1, <2>3, LoanQuiet DEF Inv
  <2>6. FrameInv'
    BY <2>1, FrameQuiet DEF Inv
  <2> QED
    BY <2>2, <2>4, <2>5, <2>6 DEF Inv
<1> QED
  BY <1>1, <1>2

\* What holds of the agents in every state of every deployment.
THEOREM WorkersInvHolds == Spec => []Inv
<1> QED
  BY InitInv, StepInv, PTL DEF Spec

\* Two members make a cardinality above 1.
LEMMA TwoOf ==
  ASSUME NEW S, IsFiniteSet(S), Two(S)
  PROVE  Cardinality(S) > 1
<1>1. PICK x \in S, y \in S : x # y
  BY DEF Two
<1>2. IsFiniteSet(S \ {x}) /\ Cardinality(S \ {x}) = Cardinality(S) - 1
  BY <1>1, FS_RemoveElement
<1>3. S \ {x} # {}
  BY <1>1
<1>4. Cardinality(S) \in Nat /\ Cardinality(S \ {x}) \in Nat /\ Cardinality(S \ {x}) # 0
  BY <1>2, <1>3, FS_CardinalityType, FS_EmptySet
<1> QED
  BY <1>2, <1>4

\* What a capability asks is spoken on the session it was lent (runtime.go,
\* autonomy.go: processMessage), however its loan meets other loans, the turns
\* they ask for, releases and restarts, unless the worker was lent twice at once.
THEOREM SpokenOnItsLoanHolds == Spec => []SpokenOnItsLoan
<1>1. Inv => SpokenOnItsLoan
  BY DEF Inv, LoanInv
<1> QED
  BY <1>1, WorkersInvHolds, PTL

\* On every harness, a conversation that was never told who the agent is gets a
\* prompt only in the cases the property names (llm_session.go: GiveFirstPrompt,
\* ensureLLMSession), whatever accounts, directories and restarts come between.
THEOREM FrameBeforeWordsHolds == Spec => []FrameBeforeWords
<1>1. ASSUME Inv PROVE FrameBeforeWords
  <2> SUFFICES ASSUME NEW i \in hist.untold
               PROVE  \/ Cardinality(Places(i)) > 1 \/ agents[i].eph \/ FromBefore(i)
    BY DEF FrameBeforeWords, FromBefore
  <2>1. i \in Ids
    BY <1>1 DEF Inv, Typed, History
  <2>2. agents[i].eph \/ Excused(i)
    BY <1>1, <2>1 DEF Inv, FrameInv, FrameOf
  <2>3. IsFiniteSet(Places(i))
    <3>1. Places(i) \subseteq Dirs
      BY DEF Places
    <3> QED
      BY <3>1, WorkersAssumption, FS_Subset
  <2> QED
    BY <2>2, <2>3, TwoOf DEF Excused
<1> QED
  BY <1>1, WorkersInvHolds, PTL

\* No step gives a task that has an agent another one, unless two first requests
\* made two planners (agent_resume.go, api_service.go): not a later request, an
\* instruction still queued for the other one, or a restart.
THEOREM PairingKeptHolds == Spec => PairingKept
<1>1. ASSUME Inv, [Next]_vars
      PROVE  [pairing # 0 /\ pairing' # pairing => Cardinality(ForTask) > 1 \/ Cardinality(ForTask') > 1]_vars
  <2>1. CASE Next
    <3>1. pairing # 0 /\ pairing' # pairing => Two(ForTask')
      BY <1>1, <2>1, PairSteps DEF Inv, LoanInv
    <3>2. IsFiniteSet(ForTask')
      <4>1. ForTask' \subseteq Ids
        BY DEF ForTask, Planners
      <4>2. IsFiniteSet(Ids)
        <5>1. 1 \in Int /\ MaxAgents \in Int
          BY WorkersAssumption
        <5> QED
          BY <5>1, FS_Interval DEF Ids
      <4> QED
        BY <4>1, <4>2, FS_Subset
    <3>3. pairing # 0 /\ pairing' # pairing => Cardinality(ForTask') > 1
      BY <3>1, <3>2, TwoOf
    <3> QED
      BY <3>3
  <2> QED
    BY <1>1, <2>1
<1> QED
  BY <1>1, WorkersInvHolds, PTL DEF Spec, PairingKept

-----------------------------------------------------------------------------
(* A session on the harness that keeps its conversation in files *)

\* A conversation is kept for a mode and a workspace.
Keys == Modes \X Workspaces
Messages == [role : {"system", "user", "assistant", "tool"}, calls : Nat, reason : BOOLEAN,
             at : Workspaces \cup {"none"}]
Histories == [id : Nat, msgs : Seq(Messages)]

\* The session as the harness keeps it.
SessionShape(s) ==
  /\ s = [key |-> s.key, convs |-> s.convs]
  /\ s.convs = [k \in DOMAIN s.convs |-> s.convs[k]]
  /\ DOMAIN s.convs \subseteq Keys
  /\ \A k \in DOMAIN s.convs : s.convs[k] \in Histories /\ s.convs[k].id \in 1 .. made
  /\ \A k, l \in DOMAIN s.convs : s.convs[k].id = s.convs[l].id => k = l
  /\ IF s.key = NoKey THEN DOMAIN s.convs = {} ELSE s.key \in DOMAIN s.convs

\* The fields of a turn.
TurnFields == {"pc", "sent", "base", "iteration", "todo", "live", "idle"}

\* A turn in progress belongs to the session's current conversation and
\* remembers where it began.
TurnShape ==
  \/ turn = Resting
  \/ /\ turn = [f \in TurnFields |-> turn[f]]
     /\ turn.pc \in {"request", "stream", "tools", "answer"}
     /\ session.key # NoKey
     /\ turn.base \in 0 .. Len(session.convs[session.key].msgs)

\* The conversations on disk.
DiskShape ==
  /\ made \in Nat /\ row \in 0 .. made
  /\ files = [i \in DOMAIN files |-> files[i]]
  /\ DOMAIN files \subseteq 1 .. made
  /\ \A i \in DOMAIN files : files[i] \in Seq(Messages)

\* What a turn that fails now would leave.
Settled(k) ==
  LET msgs == session.convs[k].msgs
  IN IF turn # Resting /\ k = session.key THEN SubSeq(msgs, 1, turn.base) ELSE msgs

\* A history that was never saved is empty.
OnDisk(i, msgs) == IF i \in DOMAIN files THEN files[i] = msgs ELSE msgs = <<>>

\* What no turn takes back is on disk.
SettledIsOnDisk ==
  ~ephemeral => \A k \in DOMAIN session.convs : OnDisk(session.convs[k].id, Settled(k))

\* The inductive invariant of a deepseek session.
DeepseekInv ==
  /\ place \in Workspaces /\ ephemeral \in BOOLEAN
  /\ SessionShape(session) /\ TurnShape /\ DiskShape /\ SettledIsOnDisk

-----------------------------------------------------------------------------
\* What a turn appends leaves the earlier messages where they were.
LEMMA Prefix ==
  ASSUME NEW S, NEW s \in Seq(S), NEW t \in Seq(S), NEW n \in 0 .. Len(s)
  PROVE  /\ SubSeq(s, 1, n) \in Seq(S) /\ Len(SubSeq(s, 1, n)) = n
         /\ s \o t \in Seq(S) /\ Len(s \o t) >= Len(s)
         /\ SubSeq(s \o t, 1, n) = SubSeq(s, 1, n)
<1>1. Len(s) \in Nat /\ n \in Nat /\ n <= Len(s) BY LenProperties
<1>2. \A i \in 1 .. n : s[i] \in S BY <1>1, ElementOfSeq
<1>3. SubSeq(s, 1, n) \in Seq(S) /\ Len(SubSeq(s, 1, n)) = n
  BY <1>1, <1>2, SubSeqProperties, Z3
<1>4. s \o t \in Seq(S) /\ Len(s \o t) >= Len(s) BY <1>1, ConcatProperties, LenProperties
<1>5. SubSeq(s \o t, 1, n) = SubSeq(s, 1, n)
  <2>1. CASE n = 0 BY <2>1, SubSeqEmpty
  <2>2. CASE n # 0 BY <1>1, <2>2, SubSeqOfConcat1
  <2>3. QED BY <2>1, <2>2
<1>6. QED BY <1>3, <1>4, <1>5

\* A history is the beginning of what is appended to it.
LEMMA Whole ==
  ASSUME NEW S, NEW s \in Seq(S), NEW t \in Seq(S)
  PROVE  SubSeq(s \o t, 1, Len(s)) = s
<1>1. Len(s) \in 0 .. Len(s) BY LenProperties
<1>2. QED BY <1>1, Prefix, SubSeqFull

\* One message is a history.
LEMMA OneMessage == \A m \in Messages : <<m>> \in Seq(Messages)
OBVIOUS

\* A turn says something, or takes what it said back: one history changes.
LEMMA Rewritten ==
  ASSUME DeepseekInv, session.key # NoKey, NEW msgs \in Seq(Messages),
         session' = [session EXCEPT !.convs[session.key].msgs = msgs], UNCHANGED made
  PROVE  /\ SessionShape(session)'
         /\ session'.key = session.key /\ DOMAIN session'.convs = DOMAIN session.convs
         /\ \A k \in DOMAIN session.convs :
              /\ session'.convs[k].id = session.convs[k].id
              /\ session'.convs[k].msgs = IF k = session.key THEN msgs ELSE session.convs[k].msgs
<1> DEFINE key == session.key
           new == [id |-> session.convs[key].id, msgs |-> msgs]
           cs == [session.convs EXCEPT ![key] = new]
<1>1. key \in DOMAIN session.convs BY DEF DeepseekInv, SessionShape
<1>2. session.convs[key] \in Histories BY <1>1 DEF DeepseekInv, SessionShape
<1>3. [session.convs[key] EXCEPT !.msgs = msgs] = new BY <1>2 DEF Histories
<1>4. session' = [key |-> key, convs |-> cs]
  BY <1>3 DEF DeepseekInv, SessionShape
<1>5. session'.key = key /\ session'.convs = cs BY <1>4
<1>6. DOMAIN cs = DOMAIN session.convs BY DEF DeepseekInv, SessionShape
<1>7. \A k \in DOMAIN session.convs : cs[k] = IF k = key THEN new ELSE session.convs[k]
  BY <1>1 DEF DeepseekInv, SessionShape
<1>8. new \in Histories BY <1>2 DEF Histories
<1>9. \A k \in DOMAIN session.convs :
        /\ cs[k] \in Histories /\ cs[k].id = session.convs[k].id
        /\ cs[k].msgs = IF k = key THEN msgs ELSE session.convs[k].msgs
  <2> SUFFICES ASSUME NEW k \in DOMAIN session.convs
               PROVE  /\ cs[k] \in Histories /\ cs[k].id = session.convs[k].id
                      /\ cs[k].msgs = IF k = key THEN msgs ELSE session.convs[k].msgs
    OBVIOUS
  <2>1. cs[k] = IF k = key THEN new ELSE session.convs[k] BY <1>7
  <2>2. session.convs[k] \in Histories BY DEF DeepseekInv, SessionShape
  <2> HIDE DEF cs
  <2>3. QED BY <1>8, <2>1, <2>2
<1>10. SessionShape(session)'
  <2>1. cs = [k \in DOMAIN cs |-> cs[k]] OBVIOUS
  <2> HIDE DEF cs, new
  <2>2. session' = [key |-> session'.key, convs |-> session'.convs]
    BY <1>4, <1>5
  <2>3. session'.convs = [k \in DOMAIN session'.convs |-> session'.convs[k]] BY <1>5, <2>1
  <2>4. DOMAIN session'.convs \subseteq Keys BY <1>5, <1>6 DEF DeepseekInv, SessionShape
  <2>5. \A k \in DOMAIN session'.convs : session'.convs[k] \in Histories /\ session'.convs[k].id \in 1 .. made'
    BY <1>5, <1>6, <1>9 DEF DeepseekInv, SessionShape
  <2>6. \A k, l \in DOMAIN session'.convs : session'.convs[k].id = session'.convs[l].id => k = l
    BY <1>5, <1>6, <1>9 DEF DeepseekInv, SessionShape
  <2>7. session'.key # NoKey /\ session'.key \in DOMAIN session'.convs BY <1>1, <1>5, <1>6
  <2>8. QED BY <2>2, <2>3, <2>4, <2>5, <2>6, <2>7 DEF SessionShape
<1> HIDE DEF cs, new
<1>11. QED BY <1>5, <1>6, <1>9, <1>10


\* A turn that fails takes back what it said, so memory is what the file
\* holds.
LEMMA TakesBack ==
  ASSUME DeepseekInv, turn # Resting, TurnFails,
         UNCHANGED <<row, files, made, place, ephemeral>>
  PROVE  DeepseekInv'
<1> DEFINE key == session.key
           msgs == SubSeq(session.convs[key].msgs, 1, turn.base)
<1>1. key # NoKey /\ turn.base \in 0 .. Len(session.convs[key].msgs)
  BY DEF DeepseekInv, TurnShape
<1>2. key \in DOMAIN session.convs /\ session.convs[key].msgs \in Seq(Messages)
  BY <1>1 DEF DeepseekInv, SessionShape, Histories
<1>3. msgs \in Seq(Messages) BY <1>1, <1>2, Prefix
<1>4. session' = [session EXCEPT !.convs[session.key].msgs = msgs]
  BY DEF TurnFails, TakenBack, Conv
<1>5. turn' = Resting BY DEF TurnFails
<1> HIDE DEF msgs
<1>6. /\ SessionShape(session)'
      /\ session'.key = session.key /\ DOMAIN session'.convs = DOMAIN session.convs
      /\ \A k \in DOMAIN session.convs :
           /\ session'.convs[k].id = session.convs[k].id
           /\ session'.convs[k].msgs = IF k = session.key THEN msgs ELSE session.convs[k].msgs
  BY <1>1, <1>3, <1>4, Rewritten
<1>7. \A k \in DOMAIN session.convs : Settled(k)' = Settled(k)
  BY <1>5, <1>6 DEF Settled, msgs
<1>8. SettledIsOnDisk'
  BY <1>6, <1>7 DEF DeepseekInv, SettledIsOnDisk, OnDisk
<1>9. TurnShape' /\ DiskShape' BY <1>5 DEF TurnShape, DiskShape, DeepseekInv
<1>10. QED BY <1>6, <1>8, <1>9 DEF DeepseekInv

\* A turn that says something touches nothing that is settled.
LEMMA Speaks ==
  ASSUME DeepseekInv, turn # Resting, NEW said \in Seq(Messages), Says(said),
         turn' = [f \in TurnFields |-> turn'[f]], turn'.base = turn.base,
         turn'.pc \in {"request", "stream", "tools", "answer"},
         UNCHANGED <<row, files, made, place, ephemeral>>
  PROVE  DeepseekInv'
<1> DEFINE key == session.key
           msgs == session.convs[key].msgs \o said
<1>1. key # NoKey /\ turn.base \in 0 .. Len(session.convs[key].msgs)
  BY DEF DeepseekInv, TurnShape
<1>2. key \in DOMAIN session.convs /\ session.convs[key].msgs \in Seq(Messages)
  BY <1>1 DEF DeepseekInv, SessionShape, Histories
<1>3. msgs \in Seq(Messages) /\ SubSeq(msgs, 1, turn.base) = SubSeq(session.convs[key].msgs, 1, turn.base)
      /\ Len(msgs) >= Len(session.convs[key].msgs) /\ Len(msgs) \in Nat
  BY <1>1, <1>2, Prefix, LenProperties
<1>4. session' = [session EXCEPT !.convs[session.key].msgs = msgs]
  BY DEF Says
<1>5. turn' # Resting BY DEF Resting
<1> HIDE DEF msgs
<1>6. /\ SessionShape(session)'
      /\ session'.key = session.key /\ DOMAIN session'.convs = DOMAIN session.convs
      /\ \A k \in DOMAIN session.convs :
           /\ session'.convs[k].id = session.convs[k].id
           /\ session'.convs[k].msgs = IF k = session.key THEN msgs ELSE session.convs[k].msgs
  BY <1>1, <1>3, <1>4, Rewritten
<1>7. \A k \in DOMAIN session.convs : Settled(k)' = Settled(k)
  BY <1>3, <1>5, <1>6 DEF Settled
<1>8. SettledIsOnDisk'
  BY <1>6, <1>7 DEF DeepseekInv, SettledIsOnDisk, OnDisk
<1>9. session'.convs[session'.key].msgs = msgs BY <1>2, <1>6
<1>10. Len(session.convs[key].msgs) \in Nat BY <1>2, LenProperties
<1>11. turn'.base \in 0 .. Len(session'.convs[session'.key].msgs)
  BY <1>1, <1>3, <1>9, <1>10
<1>12. TurnShape' BY <1>1, <1>6, <1>11 DEF TurnShape
<1>13. DiskShape' BY DEF DiskShape, DeepseekInv
<1>14. QED BY <1>6, <1>8, <1>12, <1>13 DEF DeepseekInv

\* Steps of a turn that touch no history.
LEMMA TurnGoesOn ==
  ASSUME DeepseekInv, turn # Resting, 
         turn' = [f \in TurnFields |-> turn'[f]], turn'.base = turn.base,
         turn'.pc \in {"request", "stream", "tools", "answer"},
         UNCHANGED <<session, row, files, made, place, ephemeral>>
  PROVE  DeepseekInv'
<1>1. turn' # Resting BY DEF Resting
<1>2. \A k \in DOMAIN session.convs : Settled(k)' = Settled(k) BY <1>1 DEF Settled
<1>3. SettledIsOnDisk' BY <1>2 DEF DeepseekInv, SettledIsOnDisk, OnDisk
<1>4. TurnShape' BY DEF TurnShape, DeepseekInv
<1>5. SessionShape(session)' BY DEF DeepseekInv, SessionShape
<1>6. DiskShape' BY DEF DiskShape, DeepseekInv
<1>7. QED BY <1>3, <1>4, <1>5, <1>6 DEF DeepseekInv


\* The conversation a mode opens, from memory, from its file or new, is what
\* its file holds and nobody else's.
LEMMA OpenedIsSettled ==
  ASSUME DeepseekInv, turn = Resting, NEW mode \in Modes
  PROVE  /\ Opened(mode) \in Histories /\ Opened(mode).id \in 1 .. made + 1
         /\ \A l \in DOMAIN session.convs :
              session.convs[l].id = Opened(mode).id => l = <<mode, place>>
         /\ ~ephemeral => OnDisk(Opened(mode).id, Opened(mode).msgs)
<1> DEFINE key == <<mode, place>>
<1> USE DEF DeepseekInv, SessionShape, DiskShape
<1>1. CASE key \in DOMAIN session.convs
  <2>1. Opened(mode) = session.convs[key] BY <1>1 DEF Opened
  <2>2. ~ephemeral => OnDisk(session.convs[key].id, session.convs[key].msgs)
    BY <1>1 DEF SettledIsOnDisk, Settled
  <2>3. session.convs[key].id \in 1 .. made + 1 BY <1>1
  <2>4. QED BY <1>1, <2>1, <2>2, <2>3
<1>2. CASE key \notin DOMAIN session.convs /\ Resumes(mode)
  <2>1. Opened(mode) = [id |-> row, msgs |-> files[row]] BY <1>2 DEF Opened
  <2>2. row \in DOMAIN files /\ DOMAIN session.convs = {} BY <1>2 DEF Resumes
  <2>3. row \in 1 .. made + 1 /\ row \in Nat /\ files[row] \in Seq(Messages) BY <2>2
  <2>4. Opened(mode) \in Histories /\ Opened(mode).id = row /\ Opened(mode).msgs = files[row]
    BY <2>1, <2>3 DEF Histories
  <2>5. QED BY <2>2, <2>3, <2>4 DEF OnDisk
<1>3. CASE key \notin DOMAIN session.convs /\ ~Resumes(mode)
  <2>1. Opened(mode) = [id |-> made + 1, msgs |-> <<>>] BY <1>3 DEF Opened
  <2>2. <<>> \in Seq(Messages) /\ made + 1 \in Nat BY EmptySeq
  <2>3. Opened(mode) \in Histories /\ Opened(mode).id = made + 1 /\ Opened(mode).msgs = <<>>
    BY <2>1, <2>2 DEF Histories
  <2>4. made + 1 \notin DOMAIN files /\ \A l \in DOMAIN session.convs : session.convs[l].id # made + 1
    OBVIOUS
  <2>5. made + 1 \in 1 .. made + 1 OBVIOUS
  <2>6. QED BY <2>3, <2>4, <2>5 DEF OnDisk
<1>4. QED BY <1>1, <1>2, <1>3

\* Attaching a conversation keeps the session's conversations apart.
LEMMA AttachedShape ==
  ASSUME DeepseekInv, NEW mode \in Modes, NEW conv \in Histories, conv.id \in 1 .. made + 1,
         \A l \in DOMAIN session.convs : session.convs[l].id = conv.id => l = <<mode, place>>,
         Attached(mode, conv), UNCHANGED <<files, place, ephemeral>>
  PROVE  /\ SessionShape(session)' /\ DiskShape'
         /\ session'.key = <<mode, place>> /\ session'.key # NoKey
         /\ DOMAIN session'.convs = DOMAIN session.convs \cup {<<mode, place>>}
         /\ session'.convs[<<mode, place>>] = conv
         /\ \A l \in DOMAIN session.convs : l # <<mode, place>> => session'.convs[l] = session.convs[l]
<1> DEFINE key == <<mode, place>>
           cs == With(session.convs, key, conv)
           D == DOMAIN session.convs \cup {key}
<1>1. key # NoKey /\ key \in Keys BY DEF NoKey, Modes, Keys, DeepseekInv
<1>2. session' = [key |-> key, convs |-> cs] BY DEF Attached
<1>3. cs = [l \in D |-> IF l = key THEN conv ELSE session.convs[l]] BY DEF With
<1>4. DOMAIN cs = D /\ \A l \in D : cs[l] = IF l = key THEN conv ELSE session.convs[l]
  BY <1>3
<1>5. cs = [l \in DOMAIN cs |-> cs[l]] BY <1>3
<1> HIDE DEF cs
<1>6. session'.key = key /\ session'.convs = cs BY <1>2
<1>7. made' \in Nat /\ made <= made' /\ conv.id \in 1 .. made' /\ made \in Nat
  BY DEF Attached, DeepseekInv, DiskShape, Histories
<1>8. \A l \in D : cs[l] \in Histories /\ cs[l].id \in 1 .. made'
  BY <1>4, <1>7 DEF DeepseekInv, SessionShape
<1>9. \A k, l \in D : cs[k].id = cs[l].id => k = l
  <2> SUFFICES ASSUME NEW k \in D, NEW l \in D, cs[k].id = cs[l].id PROVE k = l OBVIOUS
  <2>1. cs[k] = (IF k = key THEN conv ELSE session.convs[k])
        /\ cs[l] = (IF l = key THEN conv ELSE session.convs[l]) BY <1>4
  <2>2. CASE k = key /\ l # key BY <2>1, <2>2
  <2>3. CASE l = key /\ k # key BY <2>1, <2>3
  <2>4. CASE k # key /\ l # key BY <2>1, <2>4 DEF DeepseekInv, SessionShape
  <2>5. QED BY <2>2, <2>3, <2>4
<1>10. SessionShape(session)'
  <2>1. session' = [key |-> session'.key, convs |-> session'.convs] BY <1>2, <1>6
  <2>2. D \subseteq Keys BY <1>1 DEF DeepseekInv, SessionShape
  <2>3. QED BY <1>1, <1>4, <1>5, <1>6, <1>8, <1>9, <2>1, <2>2 DEF SessionShape
<1>11. DiskShape'
  <2>1. row' \in 0 .. made' BY <1>7 DEF Attached, DeepseekInv, DiskShape
  <2>2. DOMAIN files \subseteq 1 .. made' BY <1>7 DEF DeepseekInv, DiskShape
  <2>3. QED BY <1>7, <2>1, <2>2 DEF DeepseekInv, DiskShape
<1>12. QED BY <1>1, <1>4, <1>6, <1>10, <1>11

\* AttachMode keeps memory and disk together.
LEMMA AttachKeeps ==
  ASSUME DeepseekInv, NEW mode \in Modes, AttachMode(mode) PROVE DeepseekInv'
<1> DEFINE key == <<mode, place>>
           conv == Opened(mode)
<1>1. turn = Resting /\ turn' = Resting /\ Attached(mode, conv)
      /\ UNCHANGED <<files, place, ephemeral>> BY DEF AttachMode
<1>2. /\ conv \in Histories /\ conv.id \in 1 .. made + 1
      /\ \A l \in DOMAIN session.convs : session.convs[l].id = conv.id => l = key
      /\ ~ephemeral => OnDisk(conv.id, conv.msgs)
  BY <1>1, OpenedIsSettled
<1> HIDE DEF conv
<1>3. /\ SessionShape(session)' /\ DiskShape'
      /\ session'.key = key /\ session'.key # NoKey
      /\ DOMAIN session'.convs = DOMAIN session.convs \cup {key}
      /\ session'.convs[key] = conv
      /\ \A l \in DOMAIN session.convs : l # key => session'.convs[l] = session.convs[l]
  BY <1>1, <1>2, AttachedShape
<1>4. TurnShape' BY <1>1 DEF TurnShape
<1>5. SettledIsOnDisk'
  <2> SUFFICES ASSUME ~ephemeral, NEW k \in DOMAIN session.convs \cup {key}
               PROVE  OnDisk(session.convs[k].id, session.convs[k].msgs)'
    BY <1>1, <1>3 DEF SettledIsOnDisk, Settled
  <2>1. CASE k = key BY <1>1, <1>2, <1>3, <2>1 DEF OnDisk
  <2>2. CASE k # key
    <3>1. OnDisk(session.convs[k].id, session.convs[k].msgs)
      BY <1>1, <2>2 DEF DeepseekInv, SettledIsOnDisk, Settled
    <3>2. QED BY <1>1, <1>3, <2>2, <3>1 DEF OnDisk
  <2>3. QED BY <2>1, <2>2
<1>6. QED BY <1>1, <1>3, <1>4, <1>5 DEF DeepseekInv

\* A prompt begins at the end of what is settled.
LEMMA PromptKeeps ==
  ASSUME DeepseekInv, NEW mode \in Modes, PromptBegins(mode) PROVE DeepseekInv'
<1> DEFINE key == <<mode, place>>
           old == Opened(mode)
           preamble == IF old.msgs = <<>> THEN <<Message("system", 0, FALSE, place)>> ELSE <<>>
           asks == <<Message("user", 0, FALSE, place)>>
           conv == [old EXCEPT !.msgs = @ \o preamble \o asks]
<1>1. turn = Resting /\ Attached(mode, conv) /\ UNCHANGED <<files, place, ephemeral>>
  BY DEF PromptBegins
<1>2. turn' = [pc |-> "request", sent |-> <<>>, base |-> Len(old.msgs), iteration |-> 0,
               todo |-> <<>>, live |-> TRUE, idle |-> FALSE]
  BY DEF PromptBegins
<1>3. /\ old \in Histories /\ old.id \in 1 .. made + 1
      /\ \A l \in DOMAIN session.convs : session.convs[l].id = old.id => l = key
      /\ ~ephemeral => OnDisk(old.id, old.msgs)
  BY <1>1, OpenedIsSettled
<1>4. turn'.base = Len(old.msgs) /\ turn'.pc = "request" /\ turn' # Resting
      /\ turn' = [f \in TurnFields |-> turn'[f]]
  BY <1>2 DEF Resting, TurnFields
<1> HIDE DEF old
<1>5. preamble \in Seq(Messages) /\ asks \in Seq(Messages)
  <2>1. Message("system", 0, FALSE, place) \in Messages /\ Message("user", 0, FALSE, place) \in Messages
    BY DEF Message, Messages, DeepseekInv
  <2>2. <<>> \in Seq(Messages) BY EmptySeq
  <2>3. QED BY <2>1, <2>2, OneMessage
<1> DEFINE msgs == old.msgs \o (preamble \o asks)
<1> HIDE DEF preamble, asks
<1>6. old.msgs \in Seq(Messages) /\ preamble \o asks \in Seq(Messages)
  BY <1>3, <1>5, ConcatProperties DEF Histories
<1>7. old.msgs \o preamble \o asks = msgs
  <2>1. \A s, t, u \in Seq(Messages) : (s \o t) \o u = s \o (t \o u) BY ConcatAssociative
  <2>2. QED BY <1>5, <1>6, <2>1
<1>8. msgs \in Seq(Messages) /\ SubSeq(msgs, 1, Len(old.msgs)) = old.msgs
      /\ Len(old.msgs) \in 0 .. Len(msgs)
  <2>1. Len(old.msgs) \in 0 .. Len(old.msgs) BY <1>6, LenProperties
  <2>2. msgs \in Seq(Messages) /\ Len(msgs) >= Len(old.msgs) BY <1>6, <2>1, Prefix
  <2>3. SubSeq(msgs, 1, Len(old.msgs)) = old.msgs BY <1>6, Whole
  <2>4. Len(msgs) \in Nat /\ Len(old.msgs) \in Nat BY <1>6, <2>2, LenProperties
  <2> HIDE DEF msgs
  <2>5. QED BY <2>2, <2>3, <2>4
<1> HIDE DEF msgs
<1>9. conv = [id |-> old.id, msgs |-> msgs] BY <1>3, <1>7 DEF Histories
<1> HIDE DEF conv
<1>10. conv \in Histories /\ conv.id = old.id /\ conv.msgs = msgs
  BY <1>3, <1>8, <1>9 DEF Histories
<1>11. /\ SessionShape(session)' /\ DiskShape'
       /\ session'.key = key /\ session'.key # NoKey
       /\ DOMAIN session'.convs = DOMAIN session.convs \cup {key}
       /\ session'.convs[key] = conv
       /\ \A l \in DOMAIN session.convs : l # key => session'.convs[l] = session.convs[l]
  BY <1>1, <1>3, <1>10, AttachedShape
<1>12. TurnShape' BY <1>4, <1>8, <1>10, <1>11 DEF TurnShape
<1>13. SettledIsOnDisk'
  <2> SUFFICES ASSUME ~ephemeral, NEW k \in DOMAIN session.convs \cup {key}
               PROVE  OnDisk(session.convs[k].id, Settled(k))'
    BY <1>1, <1>11 DEF SettledIsOnDisk
  <2>1. CASE k = key
    <3>1. Settled(k)' = old.msgs BY <1>4, <1>8, <1>10, <1>11, <2>1 DEF Settled
    <3>2. QED BY <1>1, <1>3, <1>10, <1>11, <2>1, <3>1 DEF OnDisk
  <2>2. CASE k # key
    <3>1. OnDisk(session.convs[k].id, session.convs[k].msgs)
      BY <1>1, <2>2 DEF DeepseekInv, SettledIsOnDisk, Settled
    <3>2. Settled(k)' = session.convs[k].msgs BY <1>11, <2>2 DEF Settled
    <3>3. QED BY <1>1, <1>11, <2>2, <3>1, <3>2 DEF OnDisk
  <2>3. QED BY <2>1, <2>2
<1>14. QED BY <1>1, <1>11, <1>12, <1>13 DEF DeepseekInv

\* An answered turn is settled by saving it, or taken back.
LEMMA AnsweredKeeps ==
  ASSUME DeepseekInv, TurnAnswers PROVE DeepseekInv'
<1>1. turn.pc = "answer" /\ UNCHANGED <<row, made, place, ephemeral>> BY DEF TurnAnswers
<1>2. turn # Resting BY <1>1 DEF Resting
<1>3. CASE TurnFails /\ UNCHANGED files BY <1>1, <1>2, <1>3, TakesBack
<1>4. CASE /\ turn' = Resting /\ UNCHANGED session
           /\ files' = IF ephemeral THEN files ELSE With(files, Conv.id, Stored(Conv))
  <2> DEFINE c == session.convs[session.key]
  <2>1. session.key # NoKey BY <1>2 DEF DeepseekInv, TurnShape
  <2>2. session.key \in DOMAIN session.convs /\ c \in Histories /\ c.id \in 1 .. made
    BY <2>1 DEF DeepseekInv, SessionShape
  <2>3. SessionShape(session)' BY <1>1, <1>4 DEF DeepseekInv, SessionShape
  <2>4. TurnShape' BY <1>4 DEF TurnShape
  <2>5. CASE ephemeral
    <3>1. DiskShape' /\ SettledIsOnDisk' BY <1>1, <1>4, <2>5 DEF DeepseekInv, DiskShape, SettledIsOnDisk
    <3>2. QED BY <1>1, <2>3, <2>4, <3>1 DEF DeepseekInv
  <2>6. CASE ~ephemeral
    <3>1. files' = [i \in DOMAIN files \cup {c.id} |-> IF i = c.id THEN c.msgs ELSE files[i]]
      BY <1>4, <2>6 DEF With, Conv, Stored
    <3>2. DOMAIN files' = DOMAIN files \cup {c.id} /\ files'[c.id] = c.msgs
          /\ \A i \in DOMAIN files : i # c.id => files'[i] = files[i]
      BY <3>1
    <3>3. files' = [i \in DOMAIN files' |-> files'[i]] BY <3>1
    <3>4. DiskShape' BY <1>1, <2>2, <3>2, <3>3 DEF DeepseekInv, DiskShape, Histories
    <3>5. SettledIsOnDisk'
      <4> SUFFICES ASSUME NEW k \in DOMAIN session.convs
                   PROVE  OnDisk(session.convs[k].id, session.convs[k].msgs)'
        BY <1>4 DEF SettledIsOnDisk, Settled
      <4>1. CASE k = session.key BY <1>4, <3>2, <4>1 DEF OnDisk
      <4>2. CASE k # session.key
        <5>1. session.convs[k].id # c.id BY <2>2, <4>2 DEF DeepseekInv, SessionShape
        <5>2. OnDisk(session.convs[k].id, session.convs[k].msgs)
          BY <2>6, <4>2 DEF DeepseekInv, SettledIsOnDisk, Settled
        <5>3. QED BY <1>4, <3>2, <5>1, <5>2 DEF OnDisk
      <4>3. QED BY <4>1, <4>2
    <3>6. QED BY <1>1, <2>3, <2>4, <3>4, <3>5 DEF DeepseekInv
  <2>7. QED BY <2>5, <2>6
<1>5. QED BY <1>3, <1>4 DEF TurnAnswers

\* The histories leave memory with no turn under way.
LEMMA ForgetsKeeps ==
  ASSUME DeepseekInv, session' = Disposed, turn' = Resting, UNCHANGED <<row, made, place, ephemeral>>,
         files' = [i \in DOMAIN files' |-> files'[i]], DOMAIN files' \subseteq DOMAIN files,
         \A i \in DOMAIN files' : files'[i] = files[i]
  PROVE  DeepseekInv'
<1>1. session'.key = NoKey /\ DOMAIN session'.convs = {} /\ SessionShape(session)'
  BY DEF Disposed, SessionShape
<1>2. TurnShape' BY DEF TurnShape
<1>3. DiskShape' BY DEF DiskShape, DeepseekInv
<1>4. SettledIsOnDisk' BY <1>1 DEF SettledIsOnDisk
<1>5. QED BY <1>1, <1>2, <1>3, <1>4 DEF DeepseekInv

\* A session that was never attached has nothing on disk.
LEMMA DeepseekInitially == DeepseekInit => DeepseekInv
<1> SUFFICES ASSUME DeepseekInit PROVE DeepseekInv OBVIOUS
<1>1. session.key = NoKey /\ DOMAIN session.convs = {} /\ SessionShape(session)
  BY DEF DeepseekInit, Disposed, SessionShape
<1>2. TurnShape BY DEF DeepseekInit, TurnShape
<1>3. DiskShape BY DEF DeepseekInit, DiskShape
<1>4. SettledIsOnDisk BY <1>1 DEF SettledIsOnDisk
<1>5. QED BY <1>1, <1>2, <1>3, <1>4 DEF DeepseekInv, DeepseekInit

\* Every step keeps memory and disk together.
LEMMA DeepseekStep == DeepseekInv /\ [DeepseekNext]_deepseekVars => DeepseekInv'
<1> SUFFICES ASSUME DeepseekInv, [DeepseekNext]_deepseekVars PROVE DeepseekInv' OBVIOUS
<1> DEFINE Quiet == UNCHANGED <<row, files, made, place, ephemeral>>
<1>0. turn # Resting => turn = [f \in TurnFields |-> turn[f]] BY DEF DeepseekInv, TurnShape
<1>1. ASSUME NEW mode \in Modes, AttachMode(mode) PROVE DeepseekInv' BY <1>1, AttachKeeps
<1>2. ASSUME NEW mode \in Modes, PromptBegins(mode) PROVE DeepseekInv' BY <1>2, PromptKeeps
<1>3. CASE Request
  <2>1. turn.pc = "request" /\ turn # Resting /\ Quiet BY <1>3 DEF Request, Resting
  <2>2. CASE TurnFails BY <2>1, <2>2, TakesBack
  <2>3. CASE ~TurnFails
    <3>1. UNCHANGED session
          /\ turn' = [turn EXCEPT !.pc = "stream", !.iteration = @ + 1, !.sent = requestMessages(Conv.msgs)]
      BY <1>3, <2>3 DEF Request
    <3>2. turn' = [f \in TurnFields |-> turn'[f]] /\ turn'.base = turn.base /\ turn'.pc = "stream"
      BY <1>0, <2>1, <3>1 DEF TurnFields
    <3>3. QED BY <2>1, <3>1, <3>2, TurnGoesOn
  <2>4. QED BY <2>2, <2>3
<1>4. CASE StreamBreaks
  <2>1. turn # Resting /\ TurnFails /\ Quiet BY <1>4 DEF StreamBreaks, Resting
  <2>2. QED BY <2>1, TakesBack
<1>5. CASE Cancel \/ GoesIdle
  <2>1. turn # Resting /\ Quiet /\ UNCHANGED session /\ turn.pc \in {"stream", "tools"}
    BY <1>5 DEF Cancel, GoesIdle, Resting
  <2>2. \/ turn' = [turn EXCEPT !.live = FALSE] \/ turn' = [turn EXCEPT !.live = FALSE, !.idle = TRUE]
    BY <1>5 DEF Cancel, GoesIdle
  <2>3. turn' = [f \in TurnFields |-> turn'[f]] /\ turn'.base = turn.base /\ turn'.pc = turn.pc
    BY <1>0, <2>1, <2>2 DEF TurnFields
  <2>4. QED BY <2>1, <2>3, TurnGoesOn
<1>6. CASE RunTool
  <2>1. turn.pc = "tools" /\ turn # Resting /\ Quiet BY <1>6 DEF RunTool, Resting
  <2>2. CASE TurnFails BY <2>1, <2>2, TakesBack
  <2>3. CASE ~TurnFails
    <3>1. Says(<<Message("tool", 0, FALSE, "none")>>)
          /\ turn' = [turn EXCEPT !.todo = Tail(@), !.pc = IF Len(turn.todo) = 1 THEN "request" ELSE "tools"]
      BY <1>6, <2>3 DEF RunTool
    <3>2. turn' = [f \in TurnFields |-> turn'[f]] /\ turn'.base = turn.base
          /\ turn'.pc \in {"request", "stream", "tools", "answer"}
      BY <1>0, <2>1, <3>1 DEF TurnFields
    <3>3. Message("tool", 0, FALSE, "none") \in Messages BY DEF Message, Messages
    <3>4. <<Message("tool", 0, FALSE, "none")>> \in Seq(Messages) BY <3>3, OneMessage
    <3>5. QED BY <2>1, <3>1, <3>2, <3>4, Speaks
  <2>4. QED BY <2>2, <2>3
<1>7. CASE TurnAnswers BY <1>7, AnsweredKeeps
<1>8. ASSUME NEW calls \in Calls, NEW reason \in BOOLEAN, Completes(calls, reason) PROVE DeepseekInv'
  <2>1. turn.pc = "stream" /\ turn # Resting /\ Quiet BY <1>8 DEF Completes, Resting
  <2>2. Says(<<Message("assistant", Len(calls), reason, "none")>>)
        /\ turn' = [turn EXCEPT !.sent = <<>>, !.todo = calls, !.pc = IF calls = <<>> THEN "answer" ELSE "tools"]
    BY <1>8 DEF Completes
  <2>3. turn' = [f \in TurnFields |-> turn'[f]] /\ turn'.base = turn.base
        /\ turn'.pc \in {"request", "stream", "tools", "answer"}
    BY <1>0, <2>1, <2>2 DEF TurnFields
  <2>4. Len(calls) \in Nat BY LenProperties, DeepseekAssumption
  <2>5. Message("assistant", Len(calls), reason, "none") \in Messages BY <2>4 DEF Message, Messages
  <2>6. <<Message("assistant", Len(calls), reason, "none")>> \in Seq(Messages) BY <2>5, OneMessage
  <2>7. QED BY <2>1, <2>2, <2>3, <2>6, Speaks
<1>9. CASE Dispose
  <2>1. session' = Disposed /\ turn' = Resting /\ UNCHANGED <<row, made, place, ephemeral>>
    BY <1>9 DEF Dispose
  <2>2. /\ files' = [i \in DOMAIN files' |-> files'[i]] /\ DOMAIN files' \subseteq DOMAIN files
        /\ \A i \in DOMAIN files' : files'[i] = files[i]
    BY <1>9 DEF Dispose
  <2>3. QED BY <2>1, <2>2, ForgetsKeeps
<1>10. CASE Dies
  <2>1. session' = Disposed /\ turn' = Resting /\ UNCHANGED <<row, files, made, place, ephemeral>>
    BY <1>10 DEF Dies
  <2>2. files = [i \in DOMAIN files |-> files[i]] BY DEF DeepseekInv, DiskShape
  <2>3. QED BY <2>1, <2>2, ForgetsKeeps
<1>11. CASE Moves
  BY <1>11 DEF Moves, DeepseekInv, SessionShape, TurnShape, DiskShape, SettledIsOnDisk, Settled, OnDisk
<1>12. CASE UNCHANGED deepseekVars
  BY <1>12 DEF deepseekVars, DeepseekInv, SessionShape, TurnShape, DiskShape, SettledIsOnDisk, Settled, OnDisk
<1>13. QED
  BY <1>1, <1>2, <1>3, <1>4, <1>5, <1>6, <1>7, <1>8, <1>9, <1>10, <1>11, <1>12 DEF DeepseekNext

\* Between turns what is settled is the whole history.
LEMMA SettledIsMemory == DeepseekInv => DiskIsMemory
BY DEF DeepseekInv, SettledIsOnDisk, DiskIsMemory, OnDisk, Settled

\* Between turns the history in memory is the history in the file, for every
\* conversation of a session that is not ephemeral: failed, cancelled and
\* idle turns are taken back, answered ones saved.
THEOREM DiskIsMemoryHolds == DeepseekSpec => []DiskIsMemory
BY DeepseekInitially, DeepseekStep, SettledIsMemory, PTL DEF DeepseekSpec

\* The tools of a planner's turn only read.
LEMMA ActedStep ==
  DeepseekInv /\ PlannerNeverActs /\ [DeepseekNext]_deepseekVars => PlannerNeverActs'
<1> SUFFICES ASSUME DeepseekInv, PlannerNeverActs, [DeepseekNext]_deepseekVars PROVE PlannerNeverActs'
  OBVIOUS
<1>1. CASE RunTool
  <2>1. turn.pc = "tools" BY <1>1 DEF RunTool
  <2>2. session.key \in Keys BY <2>1 DEF DeepseekInv, TurnShape, SessionShape, Resting
  <2>3. session.key[1] \in {"plan", "agent"} BY <2>2 DEF Keys, Modes
  <2>4. CASE session.key[1] = "plan"
    <3>1. acted' = acted BY <1>1, <2>4 DEF RunTool, toolSpecs
    <3>2. QED BY <3>1 DEF PlannerNeverActs
  <2>5. CASE session.key[1] = "agent"
    <3>1. acted' = acted \/ acted' = acted \cup {"agent"} BY <1>1, <2>5 DEF RunTool
    <3>2. QED BY <3>1 DEF PlannerNeverActs
  <2>6. QED BY <2>3, <2>4, <2>5
<1>2. CASE ~RunTool
  <2>1. acted' = acted
    BY <1>2 DEF DeepseekNext, AttachMode, PromptBegins, Request, StreamBreaks, Cancel, GoesIdle, TurnAnswers,
                Completes, Dispose, Dies, Moves, deepseekVars
  <2>2. QED BY <2>1 DEF PlannerNeverActs
<1>3. QED BY <1>1, <1>2

\* A turn in plan mode runs no tool that acts, whatever the model calls in
\* it.
THEOREM PlannerNeverActsHolds == DeepseekSpec => []PlannerNeverActs
<1>1. DeepseekInit => PlannerNeverActs BY DEF DeepseekInit, PlannerNeverActs
<1>2. QED BY <1>1, DeepseekInitially, DeepseekStep, ActedStep, PTL DEF DeepseekSpec
=============================================================================
