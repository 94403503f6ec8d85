------------------------------- MODULE World -------------------------------
(***************************************************************************)
(* How a change outside the process reaches a task: the Watcher polls the  *)
(* objects a task asked to watch, the event-center feed tails a stream,    *)
(* both ingest facts through the gateway, and a fact wakes the task that   *)
(* watches the object. A poll works on a copy of the watches taken under   *)
(* Watcher.mu; observing, ingesting and the final delete happen later.     *)
(***************************************************************************)
EXTENDS EventGateway

CONSTANTS
  Objects,     \* what a task may watch
  Untils,      \* the "until" a caller may ask for
  PostTasks,   \* the tasks posted events name
  Loops,       \* goroutines running Watcher.loop
  Feed, Http,  \* the other two callers of the gateway
  None,
  Lookback,    \* eventcenter.DefaultLookback
  MaxMoves,
  MaxRequests, \* watch calls and posts
  MaxFaults    \* other producers' events, closes and crashes

States == {"", "open", "closed", "running", "succeeded", "failed"}

ASSUME WorldAssumption ==
  /\ None \notin Objects \cup [task : Tasks, until : Untils, fp : States \X BOOLEAN]
  /\ Objects \X {"updated", "closed", "merged", "succeeded", "failed"} \subseteq Keys
  /\ Callers = Loops \cup {Feed, Http}
  /\ Lookback \in Nat \ {0} /\ {MaxMoves, MaxRequests, MaxFaults} \subseteq Nat
  /\ PostTasks \subseteq Tasks \cup {NoTask}

VARIABLES
  pulls,       \* the objects that are pull requests; the others are deployments
  world,       \* [Objects -> observation]: the real object
  center,      \* event-center's stream: [object, observation], oldest first
  items,       \* Watcher.items
  loop,        \* [Loops -> where the goroutine is]
  stop,        \* Watcher.stop: the channel's number; smaller ones are closed
  running,     \* Watcher.running
  asking,      \* [Tasks -> the watch call in progress, after its snapshot]
  cursor,      \* eventCenterFeed.cursor of the stream, None before the first page
  feed,        \* the feed goroutine
  first,       \* where the feed of this process began to read
  fed,         \* stream positions offered to the gateway by this process
  held,        \* objects that ended, for the first time, under a watch
  used         \* the bounds' counters

watcherVars == <<items, loop, stop, running, asking>>
feedVars == <<cursor, feed, first, fed>>
vars == <<gatewayVars, pulls, world, center, watcherVars, feedVars, held, used>>

-----------------------------------------------------------------------------
(* The probes (pull_request.go, deployment.go). An observation is a state  *)
(* and a flag: merged, or healthy. Everything else a snapshot carries (title, *)
(* draft, phase, message) is outside the fingerprint and left out.            *)

Obs(s, f) == [state |-> s, flag |-> f]

Unobserved == Obs("", FALSE)

Fingerprint(obs) == <<obs.state, obs.flag>>

\* A closed pull request will not merge, so it ends the watch too.
PullRequestDone(obs, until) ==
  IF until = "closed" THEN obs.state = "closed" ELSE obs.flag \/ obs.state = "closed"

\* A failed deployment will not succeed; one that succeeded never fails.
DeploymentDone(obs, until) ==
  IF until = "failed" THEN obs.state = "failed" ELSE obs.state \in {"succeeded", "failed"}

Done(o, obs, until) == IF o \in pulls THEN PullRequestDone(obs, until) ELSE DeploymentDone(obs, until)

PullRequestKey(o, obs) ==
  <<o, IF obs.flag THEN "merged" ELSE IF obs.state = "closed" THEN "closed" ELSE "updated">>

DeploymentKey(o, obs) ==
  <<o, IF obs.state \in {"succeeded", "failed"} THEN obs.state ELSE "updated">>

\* The idempotency key of Probe.Change.
ChangeKey(o, obs) == IF o \in pulls THEN PullRequestKey(o, obs) ELSE DeploymentKey(o, obs)

EndKeys(o) == {<<o, s>> : s \in {"merged", "closed", "succeeded", "failed"}} \cap Keys

\* decodeGitHubPR: the observation a webhook carries; a merge is closed whatever it says.
Decoded(ev) == Obs(IF ev.merged THEN "closed" ELSE ev.state, ev.merged)

\* FactFrom: the key collapses with the one of a watcher's Change.
FactKey(ev) == IF ev.object = None THEN NoKey ELSE PullRequestKey(ev.object, Decoded(ev))

\* How the objects move (external: GitHub, the deployment control plane).
Moves(o, obs) ==
  IF o \in pulls
  THEN IF obs.flag THEN {}
       ELSE IF obs.state = "open" THEN {Obs("closed", FALSE), Obs("closed", TRUE)}
       ELSE {Obs("open", FALSE)}
  ELSE IF obs.state = "running"
       THEN {Obs("running", ~obs.flag), Obs("succeeded", TRUE), Obs("failed", FALSE)}
       ELSE {}

\* The last Lookback events of the stream (Client.Recent).
Recent == SubSeq(center, IF Len(center) > Lookback THEN Len(center) - Lookback + 1 ELSE 1, Len(center))

\* PullRequestObservation: the last recent event that names the pull request.
PullRequestSnapshot(o) ==
  LET last == {i \in DOMAIN Recent : /\ Recent[i].object = o
                                     /\ \A j \in DOMAIN Recent : j > i => Recent[j].object # o}
  IN IF last = {} THEN Unobserved ELSE Decoded(Recent[CHOOSE i \in last : TRUE])

\* defaultDeploymentSnapshot asks the control plane.
DeploymentSnapshot(o) == world[o]

Snapshot(o) == IF o \in pulls THEN PullRequestSnapshot(o) ELSE DeploymentSnapshot(o)

-----------------------------------------------------------------------------
Idle == [pc |-> "idle"]

Kinds == {"move", "request", "noise", "close", "crash"}

\* An event of kind b counts against its bound.
Use(b) ==
  /\ CASE b = "move" -> used[b] < MaxMoves
       [] b = "request" -> used[b] < MaxRequests
       [] OTHER -> used["noise"] + used["close"] + used["crash"] < MaxFaults
  /\ used' = [used EXCEPT ![b] = @ + 1]

Init ==
  /\ GatewayInit
  /\ pulls \in SUBSET Objects
  /\ world = [o \in Objects |-> IF o \in pulls THEN Obs("open", FALSE) ELSE Obs("running", FALSE)]
  /\ center = <<>>
  /\ items = [o \in Objects |-> None]
  /\ loop = [l \in Loops |-> Idle]
  /\ stop = 0 /\ running = FALSE
  /\ asking = [t \in Tasks |-> None]
  /\ cursor = None /\ feed = Idle /\ first = None /\ fed = {}
  /\ held = {}
  /\ used = [b \in Kinds |-> 0]

\* An object moves; a pull request's webhook reaches the event-center (external).
Move(o) ==
  /\ Use("move")
  /\ \E obs \in Moves(o, world[o]) :
       /\ world' = [world EXCEPT ![o] = obs]
       /\ center' = IF o \in pulls THEN Append(center, [object |-> o, state |-> obs.state, merged |-> obs.flag]) ELSE center
       /\ held' = IF items[o] # None /\ Done(o, obs, items[o].until) /\ \A k \in EndKeys(o) : entered[k] = 0
                  THEN held \cup {o} ELSE held
  /\ UNCHANGED <<gatewayVars, pulls, watcherVars, feedVars>>

\* Another producer's event, which may not validate (external).
Noise ==
  /\ Use("noise")
  /\ center' = Append(center, [object |-> None, state |-> "", merged |-> FALSE])
  /\ UNCHANGED <<gatewayVars, pulls, world, watcherVars, feedVars, held>>

-----------------------------------------------------------------------------
(* A task asks for a watch: StartWatch, or the watch capability. *)

\* The snapshot. An object already at until is answered and not watched.
WatchObserve(t) ==
  /\ asking[t] = None
  /\ Use("request")
  /\ \E o \in Objects, u \in Untils :
       asking' = [asking EXCEPT ![t] = IF Done(o, Snapshot(o), u) THEN None
                                       ELSE [object |-> o, until |-> u, obs |-> Snapshot(o)]]
  /\ UNCHANGED <<gatewayVars, pulls, world, center, items, loop, stop, running, feedVars, held>>

\* "watch": "true": the capability looks again before it registers.
WatchAgain(t) ==
  /\ asking[t] # None
  /\ LET a == asking[t] IN
     asking' = [asking EXCEPT ![t] = IF Done(a.object, Snapshot(a.object), a.until) THEN None
                                     ELSE [a EXCEPT !.obs = Snapshot(a.object)]]
  /\ UNCHANGED <<gatewayVars, pulls, world, center, items, loop, stop, running, feedVars, held, used>>

\* ensureLoopLocked
EnsureLoop ==
  \/ running /\ UNCHANGED <<loop, running>>
  \/ /\ ~running /\ running' = TRUE
     /\ \E l \in Loops : loop[l] = Idle /\ loop' = [loop EXCEPT ![l] = [pc |-> "select"]]

\* Watcher.Watch remembers the snapshot's fingerprint, so that the first poll
\* does not report the same state again.
Item(t) == [task |-> t, until |-> asking[t].until, fp |-> Fingerprint(asking[t].obs)]

\* A second watch of the object takes its slot over.
WatchRegister(t) ==
  /\ asking[t] # None
  /\ items' = [items EXCEPT ![asking[t].object] = Item(t)]
  /\ asking' = [asking EXCEPT ![t] = None]
  /\ EnsureLoop
  /\ UNCHANGED <<gatewayVars, pulls, world, center, stop, feedVars, held, used>>

-----------------------------------------------------------------------------
(* Watcher.loop and poll. *)

At(l, pc) == loop[l].pc = pc
Go(l, rec) == loop' = [loop EXCEPT ![l] = rec]

\* The select evaluates w.stop, without the lock.
Select(l) ==
  /\ At(l, "select")
  /\ Go(l, [pc |-> "wait", chan |-> stop])
  /\ UNCHANGED <<gatewayVars, pulls, world, center, items, stop, running, asking, feedVars, held, used>>

Exit(l) ==
  /\ At(l, "wait") /\ loop[l].chan < stop
  /\ Go(l, Idle)
  /\ UNCHANGED <<gatewayVars, pulls, world, center, items, stop, running, asking, feedVars, held, used>>

\* The ticker: poll copies the watches under the lock.
Tick(l) ==
  /\ At(l, "wait")
  /\ \E o \in Objects : items[o] # None
  /\ Go(l, [pc |-> "poll", batch |-> {[object |-> o, item |-> items[o]] : o \in {x \in Objects : items[x] # None}}])
  /\ UNCHANGED <<gatewayVars, pulls, world, center, items, stop, running, asking, feedVars, held, used>>

\* One row: nothing moved, or the observation goes on.
ObserveRow(l) ==
  /\ At(l, "poll")
  /\ IF loop[l].batch = {} THEN Go(l, [pc |-> "select"])
     ELSE \E r \in loop[l].batch :
       LET obs == Snapshot(r.object) rest == loop[l].batch \ {r} IN
       Go(l, IF Fingerprint(obs) = r.item.fp THEN [pc |-> "poll", batch |-> rest]
             ELSE [pc |-> "seen", batch |-> rest, row |-> r, obs |-> obs])
  /\ UNCHANGED <<gatewayVars, pulls, world, center, items, stop, running, asking, feedVars, held, used>>

\* The fingerprint of whatever item is in the slot by now moves.
ApplyRow(l) ==
  /\ At(l, "seen")
  /\ LET o == loop[l].row.object IN
     items' = IF items[o] = None THEN items
              ELSE [items EXCEPT ![o].fp = Fingerprint(loop[l].obs)]
  /\ Go(l, [loop[l] EXCEPT !.pc = "sink"])
  /\ UNCHANGED <<gatewayVars, pulls, world, center, stop, running, asking, feedVars, held, used>>

\* watchSink: the change goes to the task of the copied item.
Sink(l) ==
  /\ At(l, "sink")
  /\ LET r == loop[l].row IN
     Ingest(l, [key |-> ChangeKey(r.object, loop[l].obs), task |-> r.item.task, valid |-> TRUE])
  /\ Go(l, [loop[l] EXCEPT !.pc = "done"])
  /\ UNCHANGED <<pulls, world, center, items, stop, running, asking, feedVars, held, used>>

\* mutant: only the state named by until ends the watch
EndsAtUntil(l) == loop[l].obs.state = loop[l].row.item.until

\* mutant: any change ends the watch
EndsAnyhow(l) == TRUE

EndsRow(l) == Done(loop[l].row.object, loop[l].obs, loop[l].row.item.until)

\* The slot is deleted when the copied item is done, whoever holds it by now.
EndRow(l) ==
  /\ At(l, "done") /\ notifying[l] = NoEvent
  /\ items' = IF EndsRow(l) THEN [items EXCEPT ![loop[l].row.object] = None] ELSE items
  /\ Go(l, [pc |-> "poll", batch |-> loop[l].batch])
  /\ UNCHANGED <<gatewayVars, pulls, world, center, stop, running, asking, feedVars, held, used>>

\* Watcher.Close: the loop's channel is closed and a new one made.
CloseWatcher ==
  /\ running /\ Use("close")
  /\ running' = FALSE /\ stop' = stop + 1
  /\ UNCHANGED <<gatewayVars, pulls, world, center, items, loop, asking, feedVars, held>>

-----------------------------------------------------------------------------
(* The event-center feed: after, Pull, ingest each event, move the cursor. *)

Lowest(a, b) == IF a < b THEN a ELSE b

\* eventCenterFeed.after: the cursor, or Lookback events before the head.
FeedFrom ==
  IF cursor # None THEN cursor
  ELSE IF Len(center) > Lookback THEN Len(center) - Lookback ELSE 0

\* Pull answers a page. One that fails or times out is asked again.
FeedPull ==
  /\ feed = Idle
  /\ LET to == Lowest(FeedFrom + Lookback, Len(center)) IN
     /\ to > FeedFrom \/ cursor = None
     /\ feed' = [pc |-> "page", at |-> FeedFrom + 1, to |-> to]
  /\ first' = IF cursor = None THEN FeedFrom ELSE first
  /\ UNCHANGED <<gatewayVars, pulls, world, center, watcherVars, cursor, fed, held, used>>

\* mutant: a fact of the stream names no task
NamesNobody(o) == NoTask

\* taskIDForEventCenter: the task that watches the pull request now.
Watching(o) == IF o # None /\ items[o] # None THEN items[o].task ELSE NoTask

\* ingestEventCenter for one event of the page; a failed ingest is skipped.
FeedIngest ==
  /\ feed.pc = "page" /\ feed.at <= feed.to /\ notifying[Feed] = NoEvent
  /\ LET ev == center[feed.at] IN
     Ingest(Feed, [key |-> FactKey(ev), task |-> Watching(ev.object), valid |-> ev.object # None])
  /\ fed' = fed \cup {feed.at}
  /\ feed' = [feed EXCEPT !.at = @ + 1]
  /\ UNCHANGED <<pulls, world, center, watcherVars, cursor, first, held, used>>

\* mutant: the cursor moves to the head of the stream
PageEnd == Len(center)

NextCursor == feed.to

FeedMove ==
  /\ feed.pc = "page" /\ feed.at > feed.to /\ notifying[Feed] = NoEvent
  /\ cursor' = NextCursor
  /\ feed' = Idle
  /\ UNCHANGED <<gatewayVars, pulls, world, center, watcherVars, first, fed, held, used>>

-----------------------------------------------------------------------------
\* POST /api/events: a fact, of an object nobody watches, about some task.
Post ==
  /\ Use("request")
  /\ \E k \in {x \in Keys : x[1] \notin Objects}, t \in PostTasks :
       Ingest(Http, [key |-> k, task |-> t, valid |-> TRUE])
  /\ UNCHANGED <<pulls, world, center, watcherVars, feedVars, held>>

NotifyTask(c) ==
  /\ Notify(c)
  /\ UNCHANGED <<pulls, world, center, watcherVars, feedVars, held, used>>

\* The process dies: watches, log and cursor are all in its memory.
Crash ==
  /\ Use("crash")
  /\ GatewayLost
  /\ items' = [o \in Objects |-> None]
  /\ loop' = [l \in Loops |-> Idle] /\ stop' = 0 /\ running' = FALSE
  /\ asking' = [t \in Tasks |-> None]
  /\ cursor' = None /\ feed' = Idle /\ first' = None /\ fed' = {}
  /\ held' = {}
  /\ UNCHANGED <<pulls, world, center>>

Poll(l) == Select(l) \/ Exit(l) \/ Tick(l) \/ ObserveRow(l) \/ ApplyRow(l) \/ Sink(l) \/ EndRow(l)

TailStream == FeedPull \/ FeedIngest \/ FeedMove

Next ==
  \/ \E o \in Objects : Move(o)
  \/ Noise
  \/ \E t \in Agented : WatchObserve(t) \/ WatchAgain(t) \/ WatchRegister(t)
  \/ \E l \in Loops : Poll(l)
  \/ \E c \in Callers : NotifyTask(c)
  \/ CloseWatcher \/ TailStream \/ Post \/ Crash

Spec == Init /\ [][Next]_vars

\* A goroutine that polls keeps polling, and a caller of the gateway goes on to
\* notify; nothing is assumed of the outside world or of the tasks.
FairSpec == Spec /\ \A l \in Loops : WF_vars(Poll(l)) /\ WF_vars(NotifyTask(l))

-----------------------------------------------------------------------------
Observations == [state : States, flag : BOOLEAN]

TypeOK ==
  /\ GatewayTypeOK
  /\ world \in [Objects -> Observations]
  /\ \A o \in Objects : items[o] # None =>
       /\ items[o].task \in Tasks /\ items[o].until \in Untils
       /\ items[o].fp \in {Fingerprint(obs) : obs \in Observations}
  /\ \A l \in Loops : loop[l].pc \in {"idle", "select", "wait", "poll", "seen", "sink", "done"}
  /\ stop \in 0..MaxFaults /\ running \in BOOLEAN
  /\ feed.pc \in {"idle", "page"}
  /\ cursor \in {None} \cup 0..Len(center)

\* The feed leaves no gap: every event between where this process began to read
\* and the cursor was offered to the gateway, pages and failed pulls and failed
\* ingests included (consume moves the cursor once, after the page).
FeedLeavesNoGap == cursor # None => (first + 1)..cursor \subseteq fed

\* A watch only ends with a fact: when a poll deletes a slot, a fact that ends
\* the object has been taken by the gateway before, by this poll or by the feed.
EndedWatchIsAFact ==
  [][\A o \in Objects : items[o] # None /\ items'[o] = None /\ used'["crash"] = used["crash"]
       => \E k \in EndKeys(o) : entered[k] > 0]_vars

\* An object that ends for the first time while it is watched wakes a task that
\* watches it: polls with a stale copy, a slot taken over and the feed racing the
\* poll decide which of them is woken, not whether one is.
WatchedEndWakes ==
  \A o \in held :
    failures = 0
    /\ (\E k \in EndKeys(o) : entered[k] > 0)
    /\ (\A c \in Callers : notifying[c] # NoEvent => notifying[c].key \notin EndKeys(o))
    => \E k \in EndKeys(o), t \in Tasks : <<k, t>> \in woken

\* A watch of an object that is done does not stay: until Close, some poll sees
\* the object and deletes the slot (the poll looks at Done only when the
\* fingerprint has moved).
WatchEnds ==
  \A o \in Objects :
    <>[](items[o] # None /\ Done(o, Snapshot(o), items[o].until)) => <>(used["close"] > 0)

\* capability/watch.go: "Watch observes one world object until it reaches
\* `until`, then the runtime emits a world event so this task's agent can continue."
WatchedTaskWoken ==
  [][\A o \in Objects : items[o] # None /\ items'[o] = None /\ used'["crash"] = used["crash"]
       /\ failures = 0 /\ (\A c \in Callers : notifying[c] = NoEvent)
       => \E k \in EndKeys(o) : <<k, items[o].task>> \in woken]_vars

\* Watcher.Close ends the polling: no goroutine is left on an open channel.
CloseEndsLoops == \A l \in Loops : <>[](~running) => <>[](loop[l] = Idle)
=============================================================================
