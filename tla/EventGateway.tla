---------------------------- MODULE EventGateway ----------------------------
(***************************************************************************)
(* The event gateway: Gateway.Ingest normalizes an envelope and appends it *)
(* to the MemoryLog, which drops its oldest event at its cap; the runtime  *)
(* then wakes the agent of the task the event names. Appending is one      *)
(* critical section, waking is a later step of the same caller, so callers *)
(* interleave between the two.                                             *)
(***************************************************************************)
EXTENDS Naturals, Sequences, FiniteSets

CONSTANTS
  Keys,        \* idempotency keys (source and key)
  Tasks,
  Agented,     \* tasks that already have an agent
  Callers,     \* goroutines that ingest
  NoTask, NoKey, NoEvent,
  MemoryCap,   \* memoryCap
  MaxFail      \* wakes that may fail (a bound)

Event == [key : Keys \cup {NoKey}, task : Tasks \cup {NoTask}, valid : BOOLEAN]

ASSUME GatewayAssumption ==
  /\ NoEvent \notin Event /\ Agented \subseteq Tasks /\ NoTask \notin Tasks /\ NoKey \notin Keys
  /\ MemoryCap \in Nat \ {0} /\ MaxFail \in Nat /\ IsFiniteSet(Callers)

VARIABLES
  events,      \* MemoryLog.events, oldest first
  byKey,       \* MemoryLog.byKey: [key -> index into events]
  notifying,   \* [Callers -> the event appended and not yet notified]
  entered,     \* [Keys -> times the key was taken as new]
  dropped,     \* [Keys -> times the key left the log]
  wakes,       \* [Keys -> observations queued for the key]
  woken,       \* <<key, task>> of those observations
  failures

gatewayVars == <<events, byKey, notifying, entered, dropped, wakes, woken, failures>>

NoEntries == [k \in {} |-> 0]

GatewayInit ==
  /\ events = <<>> /\ byKey = NoEntries
  /\ notifying = [c \in Callers |-> NoEvent]
  /\ entered = [k \in Keys |-> 0] /\ dropped = [k \in Keys |-> 0]
  /\ wakes = [k \in Keys |-> 0] /\ woken = {}
  /\ failures = 0

-----------------------------------------------------------------------------
\* mutant: duplicates are told from the ids minted at ingest only
IsNew(e) == FALSE

\* An empty key never collides.
Duplicate(e) == e.key \in DOMAIN byKey

\* mutant: the log is not cut at its cap
KeepAll(s) == s

\* dropOldestLocked keeps the newest MemoryCap events of a log.
Kept(s) == IF Len(s) > MemoryCap THEN Tail(s) ELSE s

\* mutant: the keys that stay are not renumbered after a drop
StaleIndex(s) ==
  [k \in {s[i].key : i \in DOMAIN s} \ {NoKey} |->
     IF k \in DOMAIN byKey THEN byKey[k] ELSE Len(s)]

\* The byKey of a log, written again after a drop.
IndexOf(s) ==
  [k \in {s[i].key : i \in DOMAIN s} \ {NoKey} |->
     CHOOSE i \in DOMAIN s : s[i].key = k]

Count(f, k) == IF k \in Keys THEN [f EXCEPT ![k] = @ + 1] ELSE f

\* MemoryLog.Append of an event that is new.
AppendNew(e) ==
  LET s == Append(events, e) IN
  /\ events' = Kept(s)
  /\ byKey' = IndexOf(Kept(s))
  /\ entered' = Count(entered, e.key)
  /\ dropped' = IF Kept(s) = s THEN dropped ELSE Count(dropped, Head(s).key)

\* CanonicalAdapter.Normalize: an envelope without source or type is no event.
Normalizes(e) == e.valid

\* IngestWorldEvent by caller c: an envelope that does not validate is an
\* error, a duplicate answers the original and notifies nobody.
Ingest(c, e) ==
  /\ notifying[c] = NoEvent
  /\ \/ /\ ~Normalizes(e) \/ Duplicate(e)
        /\ UNCHANGED gatewayVars
     \/ /\ Normalizes(e) /\ ~Duplicate(e)
        /\ AppendNew(e)
        /\ notifying' = [notifying EXCEPT ![c] = e]
        /\ UNCHANGED <<wakes, woken, failures>>

\* The task an event wakes: one that exists and has an agent.
Woken(e) == {e.task} \cap Agented

\* notifyWorldEvent: the observation is queued, or resuming the agent or
\* queueing fails and only a line on stderr says so.
Notify(c) ==
  /\ notifying[c] # NoEvent
  /\ notifying' = [notifying EXCEPT ![c] = NoEvent]
  /\ LET e == notifying[c] IN
     \/ /\ wakes' = IF Woken(e) = {} THEN wakes ELSE Count(wakes, e.key)
        /\ woken' = woken \cup ({e.key} \X Woken(e))
        /\ UNCHANGED failures
     \/ /\ Woken(e) # {} /\ failures < MaxFail
        /\ failures' = failures + 1
        /\ UNCHANGED <<wakes, woken>>
  /\ UNCHANGED <<events, byKey, entered, dropped>>

\* A restart forgets the log.
GatewayLost ==
  /\ events' = <<>> /\ byKey' = NoEntries
  /\ notifying' = [c \in Callers |-> NoEvent]
  /\ dropped' = [k \in Keys |-> IF k \in DOMAIN byKey THEN dropped[k] + 1 ELSE dropped[k]]
  /\ UNCHANGED <<entered, wakes, woken, failures>>

-----------------------------------------------------------------------------
GatewayTypeOK ==
  /\ events \in Seq(Event) /\ Len(events) <= MemoryCap
  /\ DOMAIN byKey \subseteq Keys
  /\ notifying \in [Callers -> Event \cup {NoEvent}]
  /\ entered \in [Keys -> Nat] /\ dropped \in [Keys -> Nat]
  /\ wakes \in [Keys -> Nat] /\ woken \subseteq (Keys \cup {NoKey}) \X Tasks
  /\ failures \in 0..MaxFail

\* The index and the ring agree across drops: every key indexed sits at its
\* index, every key in the ring is indexed, and so no key is held twice
\* (Append answers a duplicate with events[byKey[key]]).
LogIndexed ==
  /\ \A k \in DOMAIN byKey : byKey[k] \in DOMAIN events /\ events[byKey[k]].key = k
  /\ \A i \in DOMAIN events : events[i].key # NoKey =>
       events[i].key \in DOMAIN byKey /\ byKey[events[i].key] = i

\* A fact wakes at most one task, at most once, for as long as the log
\* remembers its key: a second wake needs the key to have been dropped at the
\* cap or forgotten by a restart in between.
OneWakePerFact == \A k \in Keys : wakes[k] <= dropped[k] + 1
=============================================================================
