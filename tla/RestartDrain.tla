---------------------------- MODULE RestartDrain ----------------------------
(***************************************************************************)
(* RestartDrain (graceful.go) at the level of its two mutexes and its      *)
(* timers: the drain's own lock, the inbox lock holdStart asks the drain   *)
(* under, and the callback of time.AfterFunc, which runs on a goroutine of *)
(* its own once it has fired and which Timer.Stop can then no longer stop. *)
(***************************************************************************)
EXTENDS Naturals, FiniteSets

CONSTANTS
  Agents,
  NoAgent,
  MaxNotices,  \* restarts announced (a bound)
  HasTimeout   \* AUTONOMY_DRAIN_TIMEOUT is positive

ASSUME DrainAssumption ==
  NoAgent \notin Agents /\ MaxNotices \in Nat /\ HasTimeout \in BOOLEAN

Timers == 1..MaxNotices   \* a notice arms one timer, named by the notice

VARIABLES
  active,      \* RestartDrain.active
  notice,      \* the notice held, 0 when nothing was ever announced
  timer,       \* RestartDrain.timer, 0 for nil
  callback,    \* [Timers -> Callbacks]: where each AfterFunc is
  asking,      \* the agent inside holdStart that was told to wait, under Inbox.mu
  heldAgents,  \* Inbox.held
  working,     \* agents with a consumer
  shutting,    \* Shutdown has begun
  named,       \* the notice Shutdown's stops will name
  closed       \* Close has stopped the drain

drainVars == <<active, notice, timer, callback, asking, heldAgents, working, shutting,
               named, closed>>

Callbacks == {"unset", "armed", "fired", "resuming", "over"}

DrainInit ==
  /\ active = FALSE /\ notice = 0 /\ timer = 0
  /\ callback = [k \in Timers |-> "unset"]
  /\ asking = NoAgent /\ heldAgents = {} /\ working = {}
  /\ shutting = FALSE /\ named = 0 /\ closed = FALSE

-----------------------------------------------------------------------------
\* mutant: the timer that was armed is forgotten, not stopped
StopNothing(k) == callback[k]

\* Timer.Stop: a callback that has fired is past stopping.
Stopped(k) == IF k = timer /\ callback[k] = "armed" THEN "over" ELSE callback[k]

\* mutant: a notice that refreshes a drain arms no timer
ArmsFirstOnly(k) == HasTimeout /\ k = notice + 1 /\ ~active

Arms(k) == HasTimeout /\ k = notice + 1

\* RestartDrain.begin for a notice.
Begin ==
  /\ ~shutting /\ notice < MaxNotices
  /\ active' = TRUE
  /\ notice' = notice + 1
  /\ timer' = IF HasTimeout THEN notice + 1 ELSE 0
  /\ callback' = [k \in Timers |->
       IF Arms(k) THEN "armed" ELSE Stopped(k)]
  /\ UNCHANGED <<asking, heldAgents, working, shutting, named, closed>>

\* Shutdown: it reads the notice and begins a drain that waits for nobody.
Shutdown ==
  /\ ~shutting
  /\ shutting' = TRUE
  /\ named' = notice
  /\ active' = TRUE /\ timer' = 0
  /\ callback' = [k \in Timers |-> Stopped(k)]
  /\ UNCHANGED <<notice, asking, heldAgents, working, closed>>

\* RestartDrain.stop, the first thing Close does.
Close ==
  /\ shutting /\ ~closed
  /\ closed' = TRUE
  /\ active' = FALSE /\ timer' = 0
  /\ callback' = [k \in Timers |-> Stopped(k)]
  /\ UNCHANGED <<notice, asking, heldAgents, working, shutting, named>>

\* The safety timeout has passed: the callback is on its goroutine.
Fire(k) ==
  /\ callback[k] = "armed"
  /\ callback' = [callback EXCEPT ![k] = "fired"]
  /\ UNCHANGED <<active, notice, timer, asking, heldAgents, working, shutting, named, closed>>

\* expire, finish: under the lock, whatever drain is active now is over.
Expire(k) ==
  /\ callback[k] = "fired"
  /\ IF active
       THEN /\ active' = FALSE /\ timer' = 0
            /\ callback' = [j \in Timers |-> IF j = k THEN "resuming" ELSE Stopped(j)]
       ELSE /\ callback' = [callback EXCEPT ![k] = "over"]
            /\ UNCHANGED <<active, timer>>
  /\ UNCHANGED <<notice, asking, heldAgents, working, shutting, named, closed>>

\* mutant: the held agents are taken without Inbox.mu
NoLock == TRUE

InboxFree == asking = NoAgent

\* finish, the lock released: resumePaused hands every held agent back to start,
\* which asks the drain again.
Resume(k) ==
  /\ callback[k] = "resuming" /\ InboxFree
  /\ callback' = [callback EXCEPT ![k] = "over"]
  /\ heldAgents' = IF active THEN heldAgents ELSE {}
  /\ working' = IF active THEN working ELSE working \cup heldAgents
  /\ UNCHANGED <<active, notice, timer, asking, shutting, named, closed>>

\* A message arrives for an agent at rest: start, holdStart's question to the drain.
Start(a) ==
  /\ InboxFree /\ a \notin working
  /\ IF active THEN asking' = a /\ UNCHANGED working
               ELSE working' = working \cup {a} /\ UNCHANGED asking
  /\ UNCHANGED <<active, notice, timer, callback, heldAgents, shutting, named, closed>>

\* mutant: no agent is held too
HoldNobody ==
  /\ heldAgents' = heldAgents \cup {asking}
  /\ asking' = NoAgent
  /\ UNCHANGED <<active, notice, timer, callback, working, shutting, named, closed>>

\* holdStart's other half, still under Inbox.mu.
HoldStart ==
  /\ asking # NoAgent
  /\ heldAgents' = heldAgents \cup {asking}
  /\ asking' = NoAgent
  /\ UNCHANGED <<active, notice, timer, callback, working, shutting, named, closed>>

\* The consumer has emptied the queue.
ConsumerEnds(a) ==
  /\ a \in working
  /\ working' = working \ {a}
  /\ UNCHANGED <<active, notice, timer, callback, asking, heldAgents, shutting, named, closed>>

Callback(k) == Fire(k) \/ Expire(k) \/ Resume(k)
DrainNext ==
  \/ Begin \/ Shutdown \/ Close \/ HoldStart
  \/ \E k \in Timers : Callback(k)
  \/ \E a \in Agents : Start(a) \/ ConsumerEnds(a)

DrainSpec == DrainInit /\ [][DrainNext]_drainVars

\* Timers fire and callbacks run; a sync.Mutex starves no waiter, so resumePaused
\* gets Inbox.mu however often others do.  Nobody is made to send messages, to
\* announce a restart or to end the process.
DrainFairSpec ==
  /\ DrainSpec
  /\ WF_drainVars(HoldStart)
  /\ \A k \in Timers : WF_drainVars(Fire(k)) /\ WF_drainVars(Expire(k)) /\ SF_drainVars(Resume(k))

-----------------------------------------------------------------------------
(* Correctness.                                                            *)

\* The drain's fields keep their types.
DrainTypeOK ==
  /\ active \in BOOLEAN /\ shutting \in BOOLEAN /\ closed \in BOOLEAN
  /\ notice \in 0..MaxNotices /\ named \in 0..MaxNotices /\ timer \in 0..MaxNotices
  /\ callback \in [Timers -> Callbacks]
  /\ asking \in Agents \cup {NoAgent}
  /\ heldAgents \subseteq Agents /\ working \subseteq Agents

\* No timer but the one the active drain would stop is ever armed: a refreshed, an
\* ended and a shutdown's drain leave none behind that could still fire.
OnlyTimerArmed ==
  \A k \in Timers : callback[k] = "armed" => timer = k /\ active /\ ~shutting

\* Whoever the drain made wait is owed a start by somebody: the drain is still on,
\* a callback is about to hand it back, or the process is closing.
HeldIsHandedBack ==
  heldAgents # {} \/ asking # NoAgent =>
    active \/ closed \/ \E k \in Timers : callback[k] = "resuming"

\* With a safety timeout an announced restart nobody carries out is given up: the
\* drain ends, or the process has begun to.
AnnouncedDrainEnds == active ~> ~active \/ shutting

\* An agent the drain held is eventually started, or the process has begun to end.
HeldAgentStarts == \A a \in Agents : a \in heldAgents ~> a \in working \/ shutting

\* "a drain that never expires: nothing is going to restart us, we are the ones
\* leaving": from Shutdown to Close the drain is on.
ShutdownDrainNeverExpires == shutting /\ ~closed => active

\* "A drain that is still armed must not come back to life while teardown is closing
\* the store under it": no callback hands work back once Close has stopped it.
ResumesSomeone == \E k \in Timers : callback[k] = "resuming" /\ callback'[k] = "over"
DrainStaysDown == [][ResumesSomeone => ~closed]_drainVars

\* "The platform's notice names the deploy that is restarting us": the notice a
\* shutdown attributes its stops to is one whose drain it interrupts.
ShutdownNamesItsRestart == [][named' # named => active]_drainVars
=============================================================================
