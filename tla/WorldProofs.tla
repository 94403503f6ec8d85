----------------------------- MODULE WorldProofs -----------------------------
(***************************************************************************)
(* What holds of the event gateway, the watcher and the event-center feed  *)
(* for every set of objects, tasks and goroutines, every log size and      *)
(* every look-back. WorldInv is inductive: GatewayInv ties the index to    *)
(* the ring and counts the keys let in against the ones dropped and the    *)
(* wakes done or still to come; WatcherInv, FeedInv and UsedInv say what a *)
(* goroutine carries in its hands between two of its steps; EndInv and     *)
(* WakeInv say what a poll and a held object still owe.                    *)
(***************************************************************************)
EXTENDS World, SequenceTheorems, FiniteSetTheorems, TLAPS

-----------------------------------------------------------------------------
(* The gateway. *)

Waiting(k) == {c \in Callers : notifying[c] # NoEvent /\ notifying[c].key = k}

GatewayTypes ==
  /\ events \in Seq(Event) /\ Len(events) <= MemoryCap
  /\ notifying \in [Callers -> Event \cup {NoEvent}]
  /\ entered \in [Keys -> Nat] /\ dropped \in [Keys -> Nat]
  /\ wakes \in [Keys -> Nat] /\ woken \subseteq (Keys \cup {NoKey}) \X Tasks
  /\ failures \in 0..MaxFail

\* The index is the one of the log, and a key is in the log once.
LogInv ==
  /\ byKey = IndexOf(events)
  /\ \A i, j \in DOMAIN events : events[i].key = events[j].key /\ events[i].key # NoKey => i = j

\* A key taken as new is in the log or has left it, and a wake, done or still to
\* come, needs the key to have been taken.
CountInv ==
  \A k \in Keys :
    /\ entered[k] <= dropped[k] + (IF k \in DOMAIN byKey THEN 1 ELSE 0)
    /\ k \in DOMAIN byKey => entered[k] > 0
    /\ wakes[k] + Cardinality(Waiting(k)) <= entered[k]

GatewayInv == GatewayTypes /\ LogInv /\ CountInv

\* The index of a log has exactly the keys of its events (MemoryLog.byKey).
LEMMA IndexDomain ==
  ASSUME NEW s PROVE DOMAIN IndexOf(s) = {s[i].key : i \in DOMAIN s} \ {NoKey}
BY DEF IndexOf

\* The callers that appended an event of a key and have not notified it are
\* finitely many.
LEMMA WaitingFinite ==
  ASSUME NEW k PROVE IsFiniteSet(Waiting(k)) /\ Cardinality(Waiting(k)) \in Nat
<1>1. IsFiniteSet(Callers) /\ Waiting(k) \in SUBSET Callers BY GatewayAssumption DEF Waiting
<1>2. IsFiniteSet(Waiting(k)) BY <1>1, FS_Subset
<1>3. QED BY <1>2, FS_CardinalityType

\* What Kept leaves of a log one longer, which may be past the cap.
LEMMA KeptLog ==
  ASSUME GatewayTypes, NEW e \in Event, NEW s, s = Append(events, e)
  PROVE  /\ Kept(s) \in Seq(Event) /\ Len(Kept(s)) <= MemoryCap
         /\ \E n \in Nat :
              /\ DOMAIN events = 1 .. n
              /\ \/ /\ Kept(s) = s /\ DOMAIN Kept(s) = 1 .. n + 1
                    /\ \A i \in 1 .. n : Kept(s)[i] = events[i]
                    /\ Kept(s)[n + 1] = e
                 \/ /\ Kept(s) # s /\ n # 0 /\ Head(s) = events[1] /\ DOMAIN Kept(s) = 1 .. n
                    /\ \A i \in 1 .. n - 1 : Kept(s)[i] = events[i + 1]
                    /\ Kept(s)[n] = e
<1>1. events \in Seq(Event) BY DEF GatewayTypes
<1>2. /\ s \in Seq(Event) /\ s # << >> /\ Len(s) = Len(events) + 1 /\ Len(events) \in Nat
      /\ \A i \in 1 .. Len(events) : s[i] = events[i]
      /\ s[Len(events) + 1] = e
  BY <1>1, AppendProperties, LenProperties
<1>3. DOMAIN events = 1 .. Len(events) /\ DOMAIN s = 1 .. Len(events) + 1
  BY <1>1, <1>2, LenProperties
<1>4. MemoryCap \in Nat \ {0} /\ Len(events) <= MemoryCap BY GatewayAssumption DEF GatewayTypes
<1>5. CASE Len(s) > MemoryCap
  <2>1. Kept(s) = Tail(s) BY <1>5 DEF Kept
  <2>2. /\ Tail(s) \in Seq(Event) /\ Len(Tail(s)) = Len(s) - 1
        /\ \A i \in 1 .. Len(Tail(s)) : Tail(s)[i] = s[i + 1]
    BY <1>2, HeadTailProperties
  <2>3. Len(events) # 0 BY <1>2, <1>4, <1>5
  <2>4. Head(s) = s[1] BY <1>2
  <2>5. Head(s) = events[1] BY <1>2, <2>3, <2>4
  <2>6. Len(Tail(s)) = Len(events) BY <1>2, <2>2
  <2>7. DOMAIN Tail(s) = 1 .. Len(events) BY <2>2, <2>6, LenProperties
  <2>8. Tail(s) # s BY <1>2, <2>6
  <2>9. \A i \in 1 .. Len(events) - 1 : Tail(s)[i] = events[i + 1]
    <3> SUFFICES ASSUME NEW i \in 1 .. Len(events) - 1 PROVE Tail(s)[i] = events[i + 1] OBVIOUS
    <3>1. i \in 1 .. Len(Tail(s)) /\ i + 1 \in 1 .. Len(events) BY <1>2, <2>6
    <3>2. QED BY <1>2, <2>2, <3>1
  <2>10. Tail(s)[Len(events)] = e
    <3>1. Len(events) \in 1 .. Len(Tail(s)) BY <1>2, <2>3, <2>6
    <3>2. QED BY <1>2, <2>2, <3>1
  <2>11. QED BY <1>2, <1>3, <1>4, <2>1, <2>2, <2>3, <2>5, <2>6, <2>7, <2>8, <2>9, <2>10
<1>6. CASE ~(Len(s) > MemoryCap)
  <2>1. Kept(s) = s BY <1>6 DEF Kept
  <2>2. Len(s) <= MemoryCap BY <1>2, <1>4, <1>6
  <2>3. QED BY <1>2, <1>3, <2>1, <2>2
<1>7. QED BY <1>5, <1>6

\* Counting one more.
LEMMA Counted ==
  ASSUME NEW f \in [Keys -> Nat], NEW k
  PROVE  /\ Count(f, k) \in [Keys -> Nat]
         /\ \A x \in Keys : Count(f, k)[x] = IF x = k THEN f[x] + 1 ELSE f[x]
BY DEF Count

\* One caller more, or one less, has a wake to come.
LEMMA WaitingMore ==
  ASSUME GatewayTypes, NEW c \in Callers, NEW e, notifying' = [notifying EXCEPT ![c] = e], NEW k
  PROVE  /\ notifying[c] = NoEvent /\ e.key # k => Cardinality(Waiting(k)') <= Cardinality(Waiting(k))
         /\ notifying[c] = NoEvent => Cardinality(Waiting(k)') <= Cardinality(Waiting(k)) + 1
<1> SUFFICES ASSUME notifying[c] = NoEvent
             PROVE  /\ e.key # k => Cardinality(Waiting(k)') <= Cardinality(Waiting(k))
                    /\ Cardinality(Waiting(k)') <= Cardinality(Waiting(k)) + 1
  OBVIOUS
<1>1. \A d \in Callers : notifying'[d] = IF d = c THEN e ELSE notifying[d] BY DEF GatewayTypes
<1>2. e.key # k => Waiting(k)' = Waiting(k) BY <1>1 DEF Waiting
<1>3. Waiting(k)' = Waiting(k) \/ Waiting(k)' = Waiting(k) \cup {c} BY <1>1 DEF Waiting
<1>4. IsFiniteSet(Waiting(k)) /\ Cardinality(Waiting(k)) \in Nat BY WaitingFinite
<1>5. Cardinality(Waiting(k) \cup {c}) = IF c \in Waiting(k) THEN Cardinality(Waiting(k)) ELSE Cardinality(Waiting(k)) + 1
  BY <1>4, FS_AddElement
<1>6. CASE Waiting(k)' = Waiting(k)
  <2>1. Cardinality(Waiting(k)') = Cardinality(Waiting(k)) BY <1>6
  <2>2. QED BY <1>4, <2>1
<1>7. CASE Waiting(k)' # Waiting(k)
  <2>1. e.key = k /\ Waiting(k)' = Waiting(k) \cup {c} BY <1>2, <1>3, <1>7
  <2>2. Cardinality(Waiting(k)') = Cardinality(Waiting(k) \cup {c}) BY <2>1
  <2>3. QED BY <1>4, <1>5, <2>1, <2>2
<1>8. QED BY <1>6, <1>7

\* A caller that notifies leaves the callers of its key, and of no other key.
LEMMA WaitingLess ==
  ASSUME GatewayTypes, NEW c \in Callers, notifying[c] # NoEvent,
         notifying' = [notifying EXCEPT ![c] = NoEvent], NEW k
  PROVE  /\ k # notifying[c].key => Cardinality(Waiting(k)') = Cardinality(Waiting(k))
         /\ k = notifying[c].key => Cardinality(Waiting(k)') = Cardinality(Waiting(k)) - 1
<1>1. \A d \in Callers : notifying'[d] = IF d = c THEN NoEvent ELSE notifying[d] BY DEF GatewayTypes
<1>2. k # notifying[c].key => Waiting(k)' = Waiting(k) BY <1>1 DEF Waiting
<1>3. k = notifying[c].key => Waiting(k)' = Waiting(k) \ {c} /\ c \in Waiting(k) BY <1>1 DEF Waiting
<1>4. IsFiniteSet(Waiting(k)) /\ Cardinality(Waiting(k)) \in Nat BY WaitingFinite
<1>5. c \in Waiting(k) => Cardinality(Waiting(k) \ {c}) = Cardinality(Waiting(k)) - 1
  BY <1>4, FS_RemoveElement
<1>6. QED BY <1>2, <1>3, <1>4, <1>5

\* The gateway invariant survives a step that leaves the gateway alone.
LEMMA GatewayStands == ASSUME GatewayInv, UNCHANGED gatewayVars PROVE GatewayInv'
<1>1. GatewayTypes' BY DEF GatewayInv, gatewayVars, GatewayTypes
<1>2. LogInv' BY DEF GatewayInv, gatewayVars, LogInv, IndexOf
<1>3. CountInv' BY DEF GatewayInv, gatewayVars, CountInv, Waiting
<1>4. QED BY <1>1, <1>2, <1>3 DEF GatewayInv

\* Gateway.Ingest keeps the index, the cap and the counts, duplicates and
\* drops included, and after it a valid event's key has been taken, by this
\* caller or before.
LEMMA IngestKeeps ==
  ASSUME GatewayInv, NEW c \in Callers, NEW e \in Event, Ingest(c, e)
  PROVE  /\ GatewayInv' /\ \A k \in Keys : entered'[k] >= entered[k]
         /\ Normalizes(e) /\ e.key \in Keys => entered'[e.key] > 0
<1> DEFINE s == Append(events, e)
<1>1. GatewayTypes /\ LogInv /\ CountInv BY DEF GatewayInv
<1>2. CASE UNCHANGED gatewayVars /\ (~Normalizes(e) \/ Duplicate(e))
  <2>1. GatewayInv' BY <1>2, GatewayStands
  <2>2. entered' = entered BY <1>2 DEF gatewayVars
  <2>3. \A k \in Keys : entered[k] \in Nat BY <1>1 DEF GatewayTypes
  <2>4. Normalizes(e) /\ e.key \in Keys => entered[e.key] > 0 BY <1>1, <1>2 DEF Duplicate, CountInv
  <2>5. QED BY <2>1, <2>2, <2>3, <2>4
<1>3. CASE /\ ~Duplicate(e) /\ AppendNew(e) /\ notifying[c] = NoEvent
           /\ notifying' = [notifying EXCEPT ![c] = e] /\ UNCHANGED <<wakes, woken, failures>>
  <2>1. /\ Kept(s) \in Seq(Event) /\ Len(Kept(s)) <= MemoryCap
        /\ \E n \in Nat :
             /\ DOMAIN events = 1 .. n
             /\ \/ /\ Kept(s) = s /\ DOMAIN Kept(s) = 1 .. n + 1
                   /\ \A i \in 1 .. n : Kept(s)[i] = events[i]
                   /\ Kept(s)[n + 1] = e
                \/ /\ Kept(s) # s /\ n # 0 /\ Head(s) = events[1] /\ DOMAIN Kept(s) = 1 .. n
                   /\ \A i \in 1 .. n - 1 : Kept(s)[i] = events[i + 1]
                   /\ Kept(s)[n] = e
    BY <1>1, KeptLog
  <2>2. /\ events' = Kept(s) /\ byKey' = IndexOf(Kept(s)) /\ entered' = Count(entered, e.key)
        /\ dropped' = IF Kept(s) = s THEN dropped ELSE Count(dropped, Head(s).key)
    BY <1>3 DEF AppendNew
  <2> HIDE DEF s
  <2>3. /\ entered \in [Keys -> Nat] /\ dropped \in [Keys -> Nat] /\ wakes \in [Keys -> Nat]
    BY <1>1 DEF GatewayTypes
  <2>4. /\ entered' \in [Keys -> Nat]
        /\ \A x \in Keys : entered'[x] = IF x = e.key THEN entered[x] + 1 ELSE entered[x]
    BY <2>2, <2>3, Counted
  <2>5. /\ dropped' \in [Keys -> Nat]
        /\ \A x \in Keys : dropped'[x] >= dropped[x]
        /\ Kept(s) # s => \A x \in Keys : x = Head(s).key => dropped'[x] = dropped[x] + 1
    BY <2>2, <2>3, Counted
  <2>6. GatewayTypes'
    BY <1>1, <1>3, <2>1, <2>2, <2>3, <2>4, <2>5 DEF GatewayTypes
  <2>7. DOMAIN byKey = {events[i].key : i \in DOMAIN events} \ {NoKey}
        /\ DOMAIN byKey' = {events'[i].key : i \in DOMAIN events'} \ {NoKey}
    <3>1. byKey = IndexOf(events) BY <1>1 DEF LogInv
    <3>2. DOMAIN IndexOf(events) = {events[i].key : i \in DOMAIN events} \ {NoKey} BY IndexDomain
    <3>3. byKey' = IndexOf(events') BY <2>2
    <3>4. DOMAIN IndexOf(events') = {events'[i].key : i \in DOMAIN events'} \ {NoKey} BY IndexDomain
    <3>5. QED BY <3>1, <3>2, <3>3, <3>4
  <2>8. e.key \notin DOMAIN byKey BY <1>3 DEF Duplicate
  <2>9. PICK n \in Nat :
          /\ DOMAIN events = 1 .. n
          /\ \/ /\ Kept(s) = s /\ DOMAIN events' = 1 .. n + 1
                /\ \A i \in 1 .. n : events'[i] = events[i]
                /\ events'[n + 1] = e
             \/ /\ Kept(s) # s /\ n # 0 /\ Head(s) = events[1] /\ DOMAIN events' = 1 .. n
                /\ \A i \in 1 .. n - 1 : events'[i] = events[i + 1]
                /\ events'[n] = e
    BY <2>1, <2>2
  <2>10. \A i \in DOMAIN events', j \in DOMAIN events' : events'[i].key = events'[j].key /\ events'[i].key # NoKey => i = j
    <3> SUFFICES ASSUME NEW i \in DOMAIN events', NEW j \in DOMAIN events',
                        events'[i].key = events'[j].key, events'[i].key # NoKey
                 PROVE  i = j
      OBVIOUS
    <3>1. \A x \in DOMAIN events : events[x].key # e.key \/ e.key = NoKey BY <2>7, <2>8
    <3>2. \A x, y \in DOMAIN events : events[x].key = events[y].key /\ events[x].key # NoKey => x = y
      BY <1>1 DEF LogInv
    <3>3. CASE Kept(s) = s
      <4>1. \A x \in DOMAIN events' : (x \in DOMAIN events /\ events'[x] = events[x]) \/ (x = n + 1 /\ events'[x] = e)
        BY <2>9, <3>3
      <4>2. QED BY <3>1, <3>2, <4>1
    <3>4. CASE Kept(s) # s
      <4>1. \A x \in DOMAIN events' : \/ x \in Nat /\ x + 1 \in DOMAIN events /\ events'[x] = events[x + 1]
                                      \/ x = n /\ events'[x] = e
        BY <2>9, <3>4
      <4>2. CASE events'[i] # e /\ events'[j] # e
        <5>1. i \in Nat /\ j \in Nat /\ i + 1 = j + 1 BY <3>2, <4>1, <4>2
        <5>2. QED BY <5>1
      <4>3. CASE events'[i] = e \/ events'[j] = e BY <3>1, <4>1, <4>3
      <4>4. QED BY <4>2, <4>3
    <3>5. QED BY <3>3, <3>4
  <2>11. LogInv' BY <2>2, <2>10 DEF LogInv, IndexOf
  <2>12. \A k \in DOMAIN byKey : k \in DOMAIN byKey' \/ (Kept(s) # s /\ k = Head(s).key)
    <3> SUFFICES ASSUME NEW k \in DOMAIN byKey PROVE k \in DOMAIN byKey' \/ (Kept(s) # s /\ k = Head(s).key)
      OBVIOUS
    <3>1. PICK i \in DOMAIN events : events[i].key = k /\ k # NoKey BY <2>7
    <3>2. \/ Kept(s) # s /\ i = 1 /\ Head(s) = events[1]
          \/ \E j \in DOMAIN events' : events'[j] = events[i]
      <4>1. CASE Kept(s) = s BY <2>9, <4>1
      <4>2. CASE Kept(s) # s /\ i # 1
        <5>1. i - 1 \in 1 .. n - 1 /\ i - 1 \in DOMAIN events' /\ (i - 1) + 1 = i BY <2>9, <4>2
        <5>2. QED BY <2>9, <4>2, <5>1
      <4>3. QED BY <2>9, <4>1, <4>2
    <3>3. QED BY <2>7, <3>1, <3>2
  <2>13. e.key \in DOMAIN byKey' \/ e.key = NoKey
    <3>1. \E j \in DOMAIN events' : events'[j] = e BY <2>9
    <3>2. QED BY <2>7, <3>1
  <2>14. \A k \in DOMAIN byKey' : k \in DOMAIN byKey \/ k = e.key
    <3> SUFFICES ASSUME NEW k \in DOMAIN byKey' PROVE k \in DOMAIN byKey \/ k = e.key OBVIOUS
    <3>1. PICK i \in DOMAIN events' : events'[i].key = k /\ k # NoKey BY <2>7
    <3>2. events'[i] = e \/ \E j \in DOMAIN events : events'[i] = events[j]
      <4>1. CASE Kept(s) = s BY <2>9, <4>1
      <4>2. CASE Kept(s) # s /\ i # n
        <5>1. i \in 1 .. n - 1 /\ i + 1 \in DOMAIN events BY <2>9, <4>2
        <5>2. QED BY <2>9, <4>2, <5>1
      <4>3. QED BY <2>9, <4>1, <4>2
    <3>3. QED BY <2>7, <3>1, <3>2
  <2>15. CountInv'
    <3> SUFFICES ASSUME NEW k \in Keys
                 PROVE  /\ entered'[k] <= dropped'[k] + (IF k \in DOMAIN byKey' THEN 1 ELSE 0)
                        /\ k \in DOMAIN byKey' => entered'[k] > 0
                        /\ wakes'[k] + Cardinality(Waiting(k)') <= entered'[k]
      BY DEF CountInv
    <3>1. /\ entered[k] \in Nat /\ dropped[k] \in Nat /\ dropped'[k] \in Nat /\ wakes[k] \in Nat /\ k # NoKey
      BY <2>3, <2>5, GatewayAssumption
    <3>2. /\ entered[k] <= dropped[k] + (IF k \in DOMAIN byKey THEN 1 ELSE 0)
          /\ k \in DOMAIN byKey => entered[k] > 0
          /\ wakes[k] + Cardinality(Waiting(k)) <= entered[k]
      BY <1>1 DEF CountInv
    <3>3. Cardinality(Waiting(k)) \in Nat /\ Cardinality(Waiting(k)') \in Nat
      <4>1. Waiting(k)' \in SUBSET Callers BY DEF Waiting
      <4>2. IsFiniteSet(Waiting(k)') BY <4>1, GatewayAssumption, FS_Subset
      <4>3. Cardinality(Waiting(k)') \in Nat BY <4>2, FS_CardinalityType
      <4>4. QED BY <4>3, WaitingFinite
    <3>4. /\ e.key # k => Cardinality(Waiting(k)') <= Cardinality(Waiting(k))
          /\ Cardinality(Waiting(k)') <= Cardinality(Waiting(k)) + 1
      BY <1>1, <1>3, WaitingMore
    <3>5. CASE k = e.key
      BY <1>3, <2>4, <2>5, <2>8, <2>13, <3>1, <3>2, <3>3, <3>4, <3>5
    <3>6. CASE k # e.key
      <4>1. entered'[k] = entered[k] /\ wakes'[k] = wakes[k] BY <1>3, <2>4, <3>6
      <4>2. Cardinality(Waiting(k)') <= Cardinality(Waiting(k)) BY <3>4, <3>6
      <4>3. k \in DOMAIN byKey' => k \in DOMAIN byKey BY <2>14, <3>6
      <4>4. k \in DOMAIN byKey /\ k \notin DOMAIN byKey' => dropped'[k] = dropped[k] + 1 BY <2>5, <2>12
      <4>5. dropped'[k] >= dropped[k] BY <2>5
      <4>6. QED BY <3>1, <3>2, <3>3, <4>1, <4>2, <4>3, <4>4, <4>5
    <3>7. QED BY <3>5, <3>6
  <2>16. \A k \in Keys : entered'[k] >= entered[k] BY <2>3, <2>4
  <2>17. e.key \in Keys => entered'[e.key] > 0 BY <2>3, <2>4
  <2>18. QED BY <2>6, <2>11, <2>15, <2>16, <2>17 DEF GatewayInv
<1>4. QED BY <1>2, <1>3 DEF Ingest

\* notifyWorldEvent spends one of the wakes its append allowed, or fails.
LEMMA NotifyKeeps ==
  ASSUME GatewayInv, NEW c \in Callers, Notify(c) PROVE GatewayInv' /\ UNCHANGED entered
<1> DEFINE e == notifying[c]
<1>1. GatewayTypes /\ LogInv /\ CountInv BY DEF GatewayInv
<1>2. /\ e # NoEvent /\ notifying' = [notifying EXCEPT ![c] = NoEvent]
      /\ UNCHANGED <<events, byKey, entered, dropped>>
  BY DEF Notify
<1>3. e \in Event BY <1>1, <1>2 DEF GatewayTypes
<1>4. wakes \in [Keys -> Nat] /\ failures \in 0 .. MaxFail /\ MaxFail \in Nat BY <1>1, GatewayAssumption DEF GatewayTypes
<1>5. Woken(e) \subseteq Tasks BY GatewayAssumption DEF Woken
<1>6. /\ wakes' \in [Keys -> Nat] /\ \A k \in Keys : wakes'[k] = wakes[k] \/ (k = e.key /\ wakes'[k] = wakes[k] + 1)
  BY <1>4, Counted DEF Notify
<1>7. woken' \subseteq (Keys \cup {NoKey}) \X Tasks BY <1>1, <1>3, <1>5 DEF Notify, GatewayTypes, Event
<1>8. failures' \in 0 .. MaxFail BY <1>4 DEF Notify
<1>9. notifying' \in [Callers -> Event \cup {NoEvent}] BY <1>1, <1>2 DEF GatewayTypes
<1>10. GatewayTypes' BY <1>1, <1>2, <1>6, <1>7, <1>8, <1>9 DEF GatewayTypes
<1>11. LogInv' BY <1>1, <1>2 DEF LogInv, IndexOf
<1>12. CountInv'
  <2> SUFFICES ASSUME NEW k \in Keys
               PROVE  /\ entered'[k] <= dropped'[k] + (IF k \in DOMAIN byKey' THEN 1 ELSE 0)
                      /\ k \in DOMAIN byKey' => entered'[k] > 0
                      /\ wakes'[k] + Cardinality(Waiting(k)') <= entered'[k]
    BY DEF CountInv
  <2>1. /\ k # e.key => Cardinality(Waiting(k)') = Cardinality(Waiting(k))
        /\ k = e.key => Cardinality(Waiting(k)') = Cardinality(Waiting(k)) - 1
    BY <1>1, <1>2, WaitingLess
  <2>2. Cardinality(Waiting(k)) \in Nat /\ wakes[k] \in Nat /\ entered[k] \in Nat
    BY <1>1, WaitingFinite DEF GatewayTypes
  <2>3. wakes'[k] = wakes[k] \/ (k = e.key /\ wakes'[k] = wakes[k] + 1) BY <1>6
  <2>4. wakes[k] + Cardinality(Waiting(k)) <= entered[k] BY <1>1 DEF CountInv
  <2> HIDE DEF e
  <2>5. wakes'[k] + Cardinality(Waiting(k)') <= entered[k]
    <3>1. CASE k = e.key BY <2>1, <2>2, <2>3, <2>4, <3>1
    <3>2. CASE k # e.key BY <2>1, <2>2, <2>3, <2>4, <3>2
    <3>3. QED BY <3>1, <3>2
  <2>6. QED BY <1>1, <1>2, <2>5 DEF CountInv
<1>13. QED BY <1>2, <1>10, <1>11, <1>12 DEF GatewayInv

\* A log that is forgotten counts as dropped.
LEMMA LostKeeps == ASSUME GatewayInv, GatewayLost PROVE GatewayInv' /\ UNCHANGED entered
<1>1. GatewayTypes /\ LogInv /\ CountInv BY DEF GatewayInv
<1>2. /\ events' = <<>> /\ byKey' = NoEntries /\ notifying' = [c \in Callers |-> NoEvent]
      /\ dropped' = [k \in Keys |-> IF k \in DOMAIN byKey THEN dropped[k] + 1 ELSE dropped[k]]
      /\ UNCHANGED <<entered, wakes, woken, failures>>
  BY DEF GatewayLost
<1>3. <<>> \in Seq(Event) /\ Len(<<>>) = 0 /\ DOMAIN <<>> = {} BY EmptySeq
<1>4. GatewayTypes' BY <1>1, <1>2, <1>3, GatewayAssumption DEF GatewayTypes
<1>5. DOMAIN byKey' = {} /\ byKey' = IndexOf(<<>>) BY <1>2, <1>3 DEF NoEntries, IndexOf
<1>6. LogInv' BY <1>2, <1>3, <1>5 DEF LogInv, IndexOf
<1>7. \A k : Waiting(k)' = {} BY <1>2 DEF Waiting
<1>8. CountInv'
  <2> SUFFICES ASSUME NEW k \in Keys
               PROVE  /\ entered'[k] <= dropped'[k] + (IF k \in DOMAIN byKey' THEN 1 ELSE 0)
                      /\ k \in DOMAIN byKey' => entered'[k] > 0
                      /\ wakes'[k] + Cardinality(Waiting(k)') <= entered'[k]
    BY DEF CountInv
  <2>1. /\ entered[k] \in Nat /\ dropped[k] \in Nat /\ wakes[k] \in Nat BY <1>1 DEF GatewayTypes
  <2>2. Cardinality(Waiting(k)') = 0 BY <1>7, FS_EmptySet
  <2>3. Cardinality(Waiting(k)) \in Nat BY WaitingFinite
  <2>4. /\ entered[k] <= dropped[k] + (IF k \in DOMAIN byKey THEN 1 ELSE 0)
        /\ wakes[k] + Cardinality(Waiting(k)) <= entered[k]
    BY <1>1 DEF CountInv
  <2>5. wakes[k] <= entered[k] BY <2>1, <2>3, <2>4
  <2>6. dropped'[k] = IF k \in DOMAIN byKey THEN dropped[k] + 1 ELSE dropped[k] BY <1>2
  <2>7. QED BY <1>2, <1>5, <2>1, <2>2, <2>4, <2>5, <2>6
<1>9. QED BY <1>2, <1>4, <1>6, <1>8 DEF GatewayInv

\* An empty log is indexed and counts nothing.
LEMMA GatewayInitially == GatewayInit => GatewayInv
<1> SUFFICES ASSUME GatewayInit PROVE GatewayInv OBVIOUS
<1> USE DEF GatewayInit
<1>1. <<>> \in Seq(Event) /\ Len(<<>>) = 0 /\ DOMAIN <<>> = {} BY EmptySeq
<1>2. GatewayTypes BY <1>1, GatewayAssumption DEF GatewayTypes
<1>3. DOMAIN byKey = {} BY DEF NoEntries
<1>4. LogInv BY <1>1 DEF LogInv, IndexOf, NoEntries
<1>5. \A k : Waiting(k) = {} BY DEF Waiting
<1>6. \A k : Cardinality(Waiting(k)) = 0 BY <1>5, FS_EmptySet
<1>7. CountInv BY <1>3, <1>6 DEF CountInv
<1>8. QED BY <1>2, <1>4, <1>7 DEF GatewayInv
-----------------------------------------------------------------------------
(* The watcher, the feed and what they hand to the gateway. *)

Watches == [task : Agented, until : Untils, fp : States \X BOOLEAN]
WatchRows == [object : Objects, item : Watches]
Asks == [object : Objects, until : Untils, obs : Observations]
Streamed == [object : Objects \cup {None}, state : States, merged : BOOLEAN]
Polling == [pc : {"seen", "sink", "done"}, batch : SUBSET WatchRows, row : WatchRows, obs : Observations]

LoopStates ==
  {Idle, [pc |-> "select"]} \cup [pc : {"wait"}, chan : Nat]
    \cup [pc : {"poll"}, batch : SUBSET WatchRows] \cup Polling

ObjectsInv == center \in Seq(Streamed) /\ world \in [Objects -> Observations]

WatcherInv ==
  /\ items \in [Objects -> Watches \cup {None}]
  /\ asking \in [Tasks -> Asks \cup {None}]
  /\ loop \in [Loops -> LoopStates]

\* The page a pull answered is offered from its first event on, so what was
\* offered reaches from where the process began to read.
FeedInv ==
  /\ cursor # None => cursor \in 0 .. Len(center) /\ first \in Nat /\ (first + 1)..cursor \subseteq fed
  /\ \/ feed = Idle
     \/ /\ feed \in [pc : {"page"}, at : Nat \ {0}, to : 0 .. Len(center)]
        /\ first \in Nat /\ (first + 1)..(feed.at - 1) \subseteq fed

UsedInv ==
  /\ used \in [Kinds -> Nat] /\ used["noise"] + used["close"] + used["crash"] <= MaxFaults
  /\ stop \in Nat /\ stop <= used["close"] /\ running \in BOOLEAN

\* A poll that is about to end a watch has handed the end to the gateway.
EndInv ==
  \A l \in Loops : loop[l].pc = "done" /\ EndsRow(l) =>
    \E k \in EndKeys(loop[l].row.object) : entered[k] > 0

Wakes(o) ==
  \/ failures > 0
  \/ \E k \in EndKeys(o), t \in Tasks : <<k, t>> \in woken
  \/ \E c \in Callers : notifying[c] # NoEvent /\ notifying[c].key \in EndKeys(o) /\ notifying[c].task \in Agented

\* An object that ended under a watch is watched until its end is taken, and
\* the one who hands it in names a task that has an agent.
WakeInv ==
  \A o \in held :
    /\ o \in Objects
    /\ (\A k \in EndKeys(o) : entered[k] = 0) => items[o] # None
    /\ (\E k \in EndKeys(o) : entered[k] > 0) => Wakes(o)

WorldInv == GatewayInv /\ ObjectsInv /\ WatcherInv /\ FeedInv /\ UsedInv /\ EndInv /\ WakeInv

-----------------------------------------------------------------------------
(* Observations and keys. *)

\* An observation of a state and a flag.
LEMMA ObsTyped == ASSUME NEW s \in States, NEW f \in BOOLEAN
                  PROVE Obs(s, f) \in Observations /\ Obs(s, f).state = s /\ Obs(s, f).flag = f
BY DEF Obs, Observations

\* What decodeGitHubPR makes of a streamed event is an observation.
LEMMA DecodedTyped == ASSUME NEW ev \in Streamed PROVE Decoded(ev) \in Observations
<1>1. ev.merged \in BOOLEAN /\ ev.state \in States /\ "closed" \in States BY DEF Streamed, States
<1>2. (IF ev.merged THEN "closed" ELSE ev.state) \in States BY <1>1
<1>3. QED BY <1>1, <1>2, ObsTyped DEF Decoded

\* Client.Recent answers events of the stream.
LEMMA RecentTyped == ASSUME ObjectsInv PROVE \A i \in DOMAIN Recent : Recent[i] \in Streamed
<1> DEFINE m == IF Len(center) > Lookback THEN Len(center) - Lookback + 1 ELSE 1
<1>1. center \in Seq(Streamed) /\ Len(center) \in Nat BY LenProperties DEF ObjectsInv
<1>2. m \in Int /\ Len(center) \in Int /\ m >= 1 BY <1>1, WorldAssumption
<1>3. \A i \in m .. Len(center) : center[i] \in Streamed
  <2>1. \A i \in m .. Len(center) : i \in 1 .. Len(center) BY <1>1, <1>2
  <2>2. QED BY <1>1, <2>1, ElementOfSeq
<1>4. Recent = SubSeq(center, m, Len(center)) BY DEF Recent
<1> HIDE DEF m
<1>5. Recent \in Seq(Streamed) BY <1>2, <1>3, <1>4, SubSeqProperties
<1>6. QED BY <1>5, LenProperties, ElementOfSeq

\* Either probe's snapshot is an observation, the empty one included.
LEMMA SnapshotTyped == ASSUME ObjectsInv, NEW o \in Objects PROVE Snapshot(o) \in Observations
<1>1. Unobserved \in Observations BY ObsTyped DEF Unobserved, States
<1>2. PullRequestSnapshot(o) \in Observations
  <2> DEFINE last == {i \in DOMAIN Recent : /\ Recent[i].object = o
                                            /\ \A j \in DOMAIN Recent : j > i => Recent[j].object # o}
             i == CHOOSE i \in last : TRUE
  <2>1. PullRequestSnapshot(o) = IF last = {} THEN Unobserved ELSE Decoded(Recent[i])
    BY DEF PullRequestSnapshot
  <2>2. last # {} => i \in last OBVIOUS
  <2>3. last # {} => Recent[i] \in Streamed BY <2>2, RecentTyped
  <2> HIDE DEF last, i
  <2>4. QED BY <1>1, <2>1, <2>3, DecodedTyped
<1>3. DeploymentSnapshot(o) \in Observations BY DEF DeploymentSnapshot, ObjectsInv
<1>4. QED BY <1>2, <1>3 DEF Snapshot

\* A fingerprint is a state and a flag.
LEMMA PrintTyped == ASSUME NEW obs \in Observations PROVE Fingerprint(obs) \in States \X BOOLEAN
BY DEF Fingerprint, Observations

\* An object moves to an observation.
LEMMA MovesTyped ==
  ASSUME NEW o, NEW old \in Observations, NEW obs \in Moves(o, old)
  PROVE  obs \in Observations /\ obs.state \in States /\ obs.flag \in BOOLEAN
<1>1. "closed" \in States /\ "open" \in States /\ "running" \in States /\ "succeeded" \in States /\ "failed" \in States
  BY DEF States
<1>2. (~old.flag) \in BOOLEAN OBVIOUS
<1>3. obs \in Observations BY <1>1, <1>2, ObsTyped DEF Moves
<1>4. QED BY <1>3 DEF Observations

Ends == {"closed", "merged", "succeeded", "failed"}

\* The keys that end an object are keys of the gateway.
LEMMA KeysOf ==
  ASSUME NEW o \in Objects
  PROVE  /\ EndKeys(o) = {<<o, s>> : s \in Ends} /\ EndKeys(o) \subseteq Keys
         /\ \A s \in Ends \cup {"updated"} : <<o, s>> \in Keys
<1>1. \A s \in Ends \cup {"updated"} : <<o, s>> \in Keys BY WorldAssumption DEF Ends
<1>2. {<<o, s>> : s \in Ends} \subseteq Keys BY <1>1
<1>3. EndKeys(o) = {<<o, s>> : s \in Ends} \cap Keys BY DEF EndKeys, Ends
<1>4. QED BY <1>1, <1>2, <1>3

\* The key of Probe.Change is a key of the object, and it is one that ends
\* the object whenever the probe says the watch is done, whatever its until.
LEMMA ChangeKeys ==
  ASSUME NEW o \in Objects, NEW obs
  PROVE  /\ ChangeKey(o, obs) \in Keys /\ PullRequestKey(o, obs) \in Keys
         /\ PullRequestKey(o, obs)[1] = o
         /\ \A u : Done(o, obs, u) => ChangeKey(o, obs) \in EndKeys(o)
<1>1. PICK s \in Ends \cup {"updated"} :
        PullRequestKey(o, obs) = <<o, s>> /\ (obs.flag \/ obs.state = "closed" => s \in Ends)
  BY DEF PullRequestKey, Ends
<1>2. PICK d \in Ends \cup {"updated"} :
        DeploymentKey(o, obs) = <<o, d>> /\ (obs.state \in {"succeeded", "failed"} => d \in Ends)
  BY DEF DeploymentKey, Ends
<1>3. \A x \in Ends : <<o, x>> \in EndKeys(o) BY KeysOf
<1>4. \A u : Done(o, obs, u) => ChangeKey(o, obs) \in EndKeys(o)
  BY <1>1, <1>2, <1>3 DEF Done, ChangeKey, PullRequestDone, DeploymentDone
<1>5. <<o, s>> \in Keys /\ <<o, d>> \in Keys BY KeysOf
<1>6. QED BY <1>1, <1>2, <1>4, <1>5 DEF ChangeKey

\* A watch is never the empty slot.
LEMMA WatchIsThere == \A w \in Watches : w # None
<1>1. Watches \subseteq [task : Tasks, until : Untils, fp : States \X BOOLEAN]
  BY GatewayAssumption DEF Watches
<1>2. QED BY <1>1, WorldAssumption

\* A goroutine in the middle of a row.
LEMMA RowTyped ==
  ASSUME WatcherInv, NEW l \in Loops, loop[l].pc \in {"seen", "sink", "done"}
  PROVE  /\ loop[l] \in Polling /\ loop[l].row.object \in Objects /\ loop[l].row.item \in Watches
         /\ loop[l].obs \in Observations /\ loop[l].batch \subseteq WatchRows
<1>1. loop[l] \in Polling BY DEF WatcherInv, LoopStates, Idle
<1>2. QED BY <1>1 DEF Polling, WatchRows

-----------------------------------------------------------------------------
(* What each caller hands to the gateway. *)

\* watchSink hands in an event for a task that has an agent.
LEMMA SinkEvent ==
  ASSUME WatcherInv, NEW l \in Loops, loop[l].pc = "sink"
  PROVE  LET e == [key |-> ChangeKey(loop[l].row.object, loop[l].obs), task |-> loop[l].row.item.task, valid |-> TRUE]
         IN e \in Event /\ e.task \in Agented /\ e.key \in Keys /\ e.valid
<1>1. loop[l].row.object \in Objects /\ loop[l].row.item \in Watches BY RowTyped
<1>2. loop[l].row.item.task \in Agented BY <1>1 DEF Watches
<1>3. ChangeKey(loop[l].row.object, loop[l].obs) \in Keys BY <1>1, ChangeKeys
<1>4. QED BY <1>2, <1>3, GatewayAssumption DEF Event

\* ingestEventCenter hands in an event, and one that ends a watched object
\* names the task that watches it.
LEMMA FeedEvent ==
  ASSUME ObjectsInv, WatcherInv, FeedInv, FeedIngest
  PROVE  LET ev == center[feed.at]
             e == [key |-> FactKey(ev), task |-> Watching(ev.object), valid |-> ev.object # None]
         IN /\ e \in Event
            /\ \A o \in Objects : e.key \in EndKeys(o) /\ items[o] # None => e.task \in Agented
<1> DEFINE ev == center[feed.at]
<1>1. feed \in [pc : {"page"}, at : Nat \ {0}, to : 0 .. Len(center)] /\ feed.at <= feed.to
  BY DEF FeedInv, FeedIngest, Idle
<1>2. center \in Seq(Streamed) /\ Len(center) \in Nat BY LenProperties DEF ObjectsInv
<1>3. feed.at \in 1 .. Len(center) BY <1>1, <1>2
<1>4. ev \in Streamed BY <1>2, <1>3, ElementOfSeq
<1>5. ev.object \in Objects \cup {None} BY <1>4 DEF Streamed
<1>6. CASE ev.object = None
  <2>1. FactKey(ev) = NoKey /\ Watching(ev.object) = NoTask BY <1>6 DEF FactKey, Watching
  <2>2. \A o \in Objects : NoKey \notin EndKeys(o) BY KeysOf, GatewayAssumption
  <2>3. QED BY <2>1, <2>2 DEF Event
<1>7. CASE ev.object # None
  <2>1. ev.object \in Objects BY <1>5, <1>7
  <2>2. FactKey(ev) = PullRequestKey(ev.object, Decoded(ev)) BY <1>7 DEF FactKey
  <2>3. FactKey(ev) \in Keys /\ FactKey(ev)[1] = ev.object BY <2>1, <2>2, ChangeKeys
  <2>4. items[ev.object] # None => items[ev.object].task \in Agented /\ Watching(ev.object) = items[ev.object].task
    BY <1>7, <2>1 DEF WatcherInv, Watches, Watching
  <2>5. Watching(ev.object) \in Tasks \cup {NoTask} BY <2>4, GatewayAssumption DEF Watching
  <2>6. \A o \in Objects : FactKey(ev) \in EndKeys(o) => o = ev.object BY <2>3, KeysOf
  <2> HIDE DEF ev
  <2>7. (ev.object # None) \in BOOLEAN OBVIOUS
  <2>8. QED BY <2>3, <2>4, <2>5, <2>6, <2>7 DEF Event, ev
<1>8. QED BY <1>6, <1>7

\* A posted fact ends no object that can be watched.
LEMMA PostEvent ==
  ASSUME NEW k \in Keys, k[1] \notin Objects, NEW t \in PostTasks
  PROVE  LET e == [key |-> k, task |-> t, valid |-> TRUE]
         IN e \in Event /\ \A o \in Objects : e.key \notin EndKeys(o)
<1>1. t \in Tasks \cup {NoTask} BY WorldAssumption
<1>2. \A o \in Objects : k \notin EndKeys(o) BY KeysOf
<1>3. QED BY <1>1, <1>2 DEF Event

-----------------------------------------------------------------------------
(* The steps, part by part of the invariant. *)

\* The stream only grows and what is in it, and in the world, stays an
\* observation.
LEMMA ObjectsStep == ASSUME ObjectsInv, Next PROVE ObjectsInv' /\ pulls' = pulls /\ Len(center') >= Len(center)
<1>1. center \in Seq(Streamed) /\ Len(center) \in Nat BY LenProperties DEF ObjectsInv
<1>2. CASE UNCHANGED <<pulls, world, center>> BY <1>1, <1>2 DEF ObjectsInv
<1>3. ASSUME NEW ev \in Streamed, center' = Append(center, ev)
      PROVE  center' \in Seq(Streamed) /\ Len(center') >= Len(center)
  BY <1>1, <1>3, AppendProperties
<1>4. ASSUME NEW o \in Objects, Move(o) PROVE ObjectsInv' /\ pulls' = pulls /\ Len(center') >= Len(center)
  <2>1. PICK obs \in Moves(o, world[o]) :
          /\ world' = [world EXCEPT ![o] = obs]
          /\ center' = IF o \in pulls THEN Append(center, [object |-> o, state |-> obs.state, merged |-> obs.flag]) ELSE center
    BY <1>4 DEF Move
  <2>2. world[o] \in Observations BY DEF ObjectsInv
  <2>3. obs \in Observations /\ obs.state \in States /\ obs.flag \in BOOLEAN BY <2>2, MovesTyped
  <2>4. [object |-> o, state |-> obs.state, merged |-> obs.flag] \in Streamed BY <2>3 DEF Streamed
  <2>5. center' \in Seq(Streamed) /\ Len(center') >= Len(center) BY <1>1, <1>3, <2>1, <2>4
  <2>6. world' \in [Objects -> Observations] BY <2>1, <2>3 DEF ObjectsInv
  <2>7. QED BY <1>4, <2>5, <2>6 DEF Move, ObjectsInv
<1>5. CASE Noise
  <2>1. [object |-> None, state |-> "", merged |-> FALSE] \in Streamed BY DEF Streamed, States
  <2>2. QED BY <1>3, <1>5, <2>1 DEF Noise, ObjectsInv
<1>6. CASE \E t \in Agented : WatchObserve(t) \/ WatchAgain(t) \/ WatchRegister(t)
  BY <1>2, <1>6 DEF WatchObserve, WatchAgain, WatchRegister
<1>7. CASE \E l \in Loops : Poll(l)
  BY <1>2, <1>7 DEF Poll, Select, Exit, Tick, ObserveRow, ApplyRow, Sink, EndRow
<1>8. CASE CloseWatcher \/ TailStream \/ Post \/ Crash \/ \E c \in Callers : NotifyTask(c)
  BY <1>2, <1>8 DEF CloseWatcher, TailStream, FeedPull, FeedIngest, FeedMove, Post, Crash, NotifyTask
<1>9. QED BY <1>4, <1>5, <1>6, <1>7, <1>8 DEF Next

\* No step takes back that a key was taken.
LEMMA GatewayStep ==
  ASSUME GatewayInv, ObjectsInv, WatcherInv, FeedInv, Next
  PROVE  GatewayInv' /\ \A k \in Keys : entered[k] \in Nat /\ entered'[k] \in Nat /\ entered'[k] >= entered[k]
<1>1. \A k \in Keys : entered[k] \in Nat BY DEF GatewayInv, GatewayTypes
<1>2. GatewayInv' => \A k \in Keys : entered'[k] \in Nat BY DEF GatewayInv, GatewayTypes
<1>3. CASE UNCHANGED gatewayVars
  <2>1. GatewayInv' BY <1>3, GatewayStands
  <2>2. QED BY <1>1, <1>2, <1>3, <2>1 DEF gatewayVars
<1>4. CASE GatewayInv' /\ UNCHANGED entered BY <1>1, <1>2, <1>4
<1>5. ASSUME NEW c \in Callers, NEW e \in Event, Ingest(c, e)
      PROVE  GatewayInv' /\ \A k \in Keys : entered'[k] >= entered[k]
  BY <1>5, IngestKeeps
<1>6. Feed \in Callers /\ Http \in Callers /\ Loops \subseteq Callers BY WorldAssumption
<1>7. ASSUME NEW l \in Loops, Sink(l) PROVE GatewayInv' /\ \A k \in Keys : entered'[k] >= entered[k]
  BY <1>5, <1>6, <1>7, SinkEvent DEF Sink, At
<1>8. CASE FeedIngest
  <2>1. GatewayInv' /\ \A k \in Keys : entered'[k] >= entered[k] BY <1>5, <1>6, <1>8, FeedEvent DEF FeedIngest
  <2>2. QED BY <1>1, <1>2, <2>1
<1>9. CASE Post
  <2>1. GatewayInv' /\ \A k \in Keys : entered'[k] >= entered[k] BY <1>5, <1>6, <1>9, PostEvent DEF Post
  <2>2. QED BY <1>1, <1>2, <2>1
<1>10. CASE Crash BY <1>4, <1>10, LostKeeps DEF Crash
<1>11. CASE \E c \in Callers : NotifyTask(c) BY <1>4, <1>11, NotifyKeeps DEF NotifyTask
<1>12. CASE \E l \in Loops : Poll(l)
  <2>1. CASE \E l \in Loops : Sink(l) BY <1>1, <1>2, <1>7, <2>1
  <2>2. CASE ~ \E l \in Loops : Sink(l)
    BY <1>3, <1>12, <2>2 DEF Poll, Select, Exit, Tick, ObserveRow, ApplyRow, EndRow
  <2>3. QED BY <2>1, <2>2
<1>13. CASE \/ (\E o \in Objects : Move(o)) \/ Noise \/ CloseWatcher \/ FeedPull \/ FeedMove
           \/ \E t \in Agented : WatchObserve(t) \/ WatchAgain(t) \/ WatchRegister(t)
  BY <1>3, <1>13 DEF Move, Noise, WatchObserve, WatchAgain, WatchRegister, CloseWatcher, FeedPull, FeedMove
<1>14. QED BY <1>8, <1>9, <1>10, <1>11, <1>12, <1>13 DEF Next, TailStream

\* Watcher.items, the watch calls in progress and the goroutines' copies stay
\* well formed: a row a poll carries is a row of a watch, whatever became of
\* its slot.
LEMMA WatcherStep ==
  ASSUME ObjectsInv, WatcherInv, stop \in Nat, Next PROVE WatcherInv'
<1>1. CASE UNCHANGED watcherVars BY <1>1 DEF WatcherInv, watcherVars
<1>2. ASSUME NEW l \in Loops, NEW rec \in LoopStates, loop' = [loop EXCEPT ![l] = rec]
      PROVE  loop' \in [Loops -> LoopStates]
  BY <1>2 DEF WatcherInv
<1>3. ASSUME NEW t \in Agented, WatchObserve(t) \/ WatchAgain(t) \/ WatchRegister(t) PROVE WatcherInv'
  <2>0. t \in Tasks BY GatewayAssumption
  <2>1. ASSUME NEW a \in Asks \cup {None}, asking' = [asking EXCEPT ![t] = a]
        PROVE  asking' \in [Tasks -> Asks \cup {None}]
    BY <2>0, <2>1 DEF WatcherInv
  <2>2. CASE WatchObserve(t)
    <3>1. PICK o \in Objects, u \in Untils :
            asking' = [asking EXCEPT ![t] = IF Done(o, Snapshot(o), u) THEN None
                                            ELSE [object |-> o, until |-> u, obs |-> Snapshot(o)]]
      BY <2>2 DEF WatchObserve
    <3>2. Snapshot(o) \in Observations BY SnapshotTyped
    <3>3. [object |-> o, until |-> u, obs |-> Snapshot(o)] \in Asks BY <3>2 DEF Asks
    <3>4. asking' \in [Tasks -> Asks \cup {None}] BY <2>1, <3>1, <3>3
    <3>5. QED BY <2>2, <3>4 DEF WatchObserve, WatcherInv
  <2>3. CASE WatchAgain(t)
    <3>1. PICK a : a = asking[t] OBVIOUS
    <3>2. a \in Asks BY <2>0, <2>3, <3>1 DEF WatchAgain, WatcherInv
    <3>3. asking' = [asking EXCEPT ![t] = IF Done(a.object, Snapshot(a.object), a.until) THEN None
                                          ELSE [a EXCEPT !.obs = Snapshot(a.object)]]
      BY <2>3, <3>1 DEF WatchAgain
    <3>4. a.object \in Objects BY <3>2 DEF Asks
    <3>5. Snapshot(a.object) \in Observations BY <3>4, SnapshotTyped
    <3>6. [a EXCEPT !.obs = Snapshot(a.object)] \in Asks BY <3>2, <3>5 DEF Asks
    <3>7. asking' \in [Tasks -> Asks \cup {None}] BY <2>1, <3>3, <3>6
    <3>8. QED BY <2>3, <3>7 DEF WatchAgain, WatcherInv
  <2>4. CASE WatchRegister(t)
    <3>1. asking[t] \in Asks BY <2>0, <2>4 DEF WatchRegister, WatcherInv
    <3>2. asking[t].object \in Objects /\ asking[t].until \in Untils /\ asking[t].obs \in Observations BY <3>1 DEF Asks
    <3>3. Fingerprint(asking[t].obs) \in States \X BOOLEAN BY <3>2, PrintTyped
    <3>4. Item(t) \in Watches BY <3>2, <3>3 DEF Item, Watches
    <3>5. items' \in [Objects -> Watches \cup {None}] BY <2>4, <3>2, <3>4 DEF WatchRegister, WatcherInv
    <3>6. asking' \in [Tasks -> Asks \cup {None}] BY <2>1, <2>4 DEF WatchRegister
    <3>7. [pc |-> "select"] \in LoopStates BY DEF LoopStates
    <3>8. loop' \in [Loops -> LoopStates] BY <1>2, <2>4, <3>7 DEF WatchRegister, EnsureLoop, WatcherInv
    <3>9. QED BY <3>5, <3>6, <3>8 DEF WatcherInv
  <2>5. QED BY <1>3, <2>2, <2>3, <2>4
<1>4. ASSUME NEW l \in Loops, Poll(l) PROVE WatcherInv'
  <2>1. CASE Select(l)
    <3>1. [pc |-> "wait", chan |-> stop] \in LoopStates BY DEF LoopStates
    <3>2. QED BY <1>2, <2>1, <3>1 DEF Select, Go, WatcherInv
  <2>2. CASE Exit(l)
    <3>1. Idle \in LoopStates BY DEF LoopStates
    <3>2. QED BY <1>2, <2>2, <3>1 DEF Exit, Go, WatcherInv
  <2>3. CASE Tick(l)
    <3>1. PICK b : b = {[object |-> o, item |-> items[o]] : o \in {x \in Objects : items[x] # None}} OBVIOUS
    <3>2. b \subseteq WatchRows BY <3>1 DEF WatchRows, WatcherInv
    <3>3. [pc |-> "poll", batch |-> b] \in LoopStates BY <3>2 DEF LoopStates
    <3>4. QED BY <1>2, <2>3, <3>1, <3>3 DEF Tick, Go, WatcherInv
  <2>4. CASE ObserveRow(l)
    <3>1. loop[l] \in [pc : {"poll"}, batch : SUBSET WatchRows]
      BY <2>4 DEF ObserveRow, At, WatcherInv, LoopStates, Idle, Polling
    <3>2. CASE loop[l].batch = {}
      <4>1. [pc |-> "select"] \in LoopStates BY DEF LoopStates
      <4>2. QED BY <1>2, <2>4, <3>2, <4>1 DEF ObserveRow, Go, WatcherInv
    <3>3. CASE loop[l].batch # {}
      <4>1. PICK r \in loop[l].batch :
              loop' = [loop EXCEPT ![l] =
                IF Fingerprint(Snapshot(r.object)) = r.item.fp THEN [pc |-> "poll", batch |-> loop[l].batch \ {r}]
                ELSE [pc |-> "seen", batch |-> loop[l].batch \ {r}, row |-> r, obs |-> Snapshot(r.object)]]
        BY <2>4, <3>3 DEF ObserveRow, Go
      <4>2. PICK rest : rest = loop[l].batch \ {r} OBVIOUS
      <4>3. rest \subseteq WatchRows /\ r \in WatchRows BY <3>1, <4>2
      <4>4. Snapshot(r.object) \in Observations BY <4>3, SnapshotTyped DEF WatchRows
      <4>5. [pc |-> "poll", batch |-> rest] \in LoopStates BY <4>3 DEF LoopStates
      <4>6. [pc |-> "seen", batch |-> rest, row |-> r, obs |-> Snapshot(r.object)] \in LoopStates
        BY <4>3, <4>4 DEF LoopStates, Polling
      <4>7. loop' \in [Loops -> LoopStates] BY <1>2, <4>1, <4>2, <4>5, <4>6
      <4>8. QED BY <2>4, <4>7 DEF ObserveRow, WatcherInv
    <3>4. QED BY <3>2, <3>3
  <2>5. CASE ApplyRow(l)
    <3>1. loop[l] \in Polling /\ loop[l].row.object \in Objects /\ loop[l].obs \in Observations
      BY <2>5, RowTyped DEF ApplyRow, At
    <3>2. Fingerprint(loop[l].obs) \in States \X BOOLEAN BY <3>1, PrintTyped
    <3>3. PICK o : o = loop[l].row.object OBVIOUS
    <3>4. PICK p : p = Fingerprint(loop[l].obs) OBVIOUS
    <3>5. items' = IF items[o] = None THEN items ELSE [items EXCEPT ![o].fp = p] BY <2>5, <3>3, <3>4 DEF ApplyRow
    <3>6. items[o] # None => items[o] \in Watches BY <3>1, <3>3 DEF WatcherInv
    <3>7. items[o] # None => [items[o] EXCEPT !.fp = p] \in Watches BY <3>2, <3>4, <3>6 DEF Watches
    <3>8. items' \in [Objects -> Watches \cup {None}] BY <3>1, <3>3, <3>5, <3>7 DEF WatcherInv
    <3>9. [loop[l] EXCEPT !.pc = "sink"] \in LoopStates BY <3>1 DEF LoopStates, Polling
    <3>10. loop' \in [Loops -> LoopStates] BY <1>2, <2>5, <3>9 DEF ApplyRow, Go
    <3>11. QED BY <2>5, <3>8, <3>10 DEF ApplyRow, WatcherInv
  <2>6. CASE Sink(l)
    <3>1. loop[l] \in Polling BY <2>6, RowTyped DEF Sink, At
    <3>2. [loop[l] EXCEPT !.pc = "done"] \in LoopStates BY <3>1 DEF LoopStates, Polling
    <3>3. QED BY <1>2, <2>6, <3>2 DEF Sink, Go, WatcherInv
  <2>7. CASE EndRow(l)
    <3>1. loop[l].row.object \in Objects /\ loop[l].batch \subseteq WatchRows BY <2>7, RowTyped DEF EndRow, At
    <3>2. [pc |-> "poll", batch |-> loop[l].batch] \in LoopStates BY <3>1 DEF LoopStates
    <3>3. loop' \in [Loops -> LoopStates] BY <1>2, <2>7, <3>2 DEF EndRow, Go
    <3>4. items' \in [Objects -> Watches \cup {None}] BY <2>7, <3>1 DEF EndRow, WatcherInv
    <3>5. QED BY <2>7, <3>3, <3>4 DEF EndRow, WatcherInv
  <2>8. QED BY <1>4, <2>1, <2>2, <2>3, <2>4, <2>5, <2>6, <2>7 DEF Poll
<1>5. CASE Crash BY <1>5 DEF Crash, WatcherInv, LoopStates
<1>6. CASE CloseWatcher BY <1>6 DEF CloseWatcher, WatcherInv
<1>7. CASE \/ (\E o \in Objects : Move(o)) \/ Noise \/ TailStream \/ Post \/ \E c \in Callers : NotifyTask(c)
  BY <1>1, <1>7 DEF Move, Noise, TailStream, FeedPull, FeedIngest, FeedMove, Post, NotifyTask
<1>8. QED BY <1>3, <1>4, <1>5, <1>6, <1>7 DEF Next

\* The feed's page starts where the cursor was, so what has been offered
\* reaches from the first event read up to the page's position.
LEMMA FeedStep ==
  ASSUME ObjectsInv, FeedInv, Next, Len(center') >= Len(center) PROVE FeedInv'
<1>1. Len(center) \in Nat /\ Len(center') \in Nat
  <2>1. ObjectsInv' BY ObjectsStep
  <2>2. QED BY <2>1, LenProperties DEF ObjectsInv
<1>2. CASE UNCHANGED feedVars
  <2>1. cursor # None => cursor \in 0 .. Len(center') BY <1>1 DEF FeedInv
  <2>2. feed # Idle => feed \in [pc : {"page"}, at : Nat \ {0}, to : 0 .. Len(center')] BY <1>1 DEF FeedInv
  <2>3. QED BY <1>2, <2>1, <2>2 DEF FeedInv, feedVars
<1>3. CASE Crash BY <1>3 DEF Crash, FeedInv
<1>4. CASE FeedPull
  <2>1. PICK from : from = FeedFrom OBVIOUS
  <2>2. Lookback \in Nat \ {0} BY WorldAssumption
  <2>3. /\ cursor # None => from = cursor /\ cursor \in 0 .. Len(center) /\ first \in Nat /\ (first + 1)..cursor \subseteq fed
        /\ from \in 0 .. Len(center)
    BY <1>1, <2>1, <2>2 DEF FeedFrom, FeedInv
  <2>4. PICK to : to = Lowest(from + Lookback, Len(center)) OBVIOUS
  <2>5. to \in 0 .. Len(center) BY <1>1, <2>2, <2>3, <2>4 DEF Lowest
  <2>6. /\ feed' = [pc |-> "page", at |-> from + 1, to |-> to] /\ center' = center /\ cursor' = cursor /\ fed' = fed
        /\ first' = IF cursor = None THEN from ELSE first
    BY <1>4, <2>1, <2>4 DEF FeedPull
  <2>7. feed' \in [pc : {"page"}, at : Nat \ {0}, to : 0 .. Len(center')] /\ feed'.at - 1 = from
    BY <2>3, <2>5, <2>6
  <2>8. first' \in Nat /\ (first' + 1)..from \subseteq fed'
    <3>1. CASE cursor = None
      <4>1. first' = from BY <2>6, <3>1
      <4>2. (from + 1)..from = {} BY <2>3
      <4>3. QED BY <2>3, <4>1, <4>2
    <3>2. CASE cursor # None BY <2>3, <2>6, <3>2
    <3>3. QED BY <3>1, <3>2
  <2>9. cursor' # None => cursor' \in 0 .. Len(center') /\ first' \in Nat /\ (first' + 1)..cursor' \subseteq fed'
    BY <2>3, <2>6
  <2>10. QED BY <2>7, <2>8, <2>9 DEF FeedInv
<1>5. CASE FeedIngest
  <2>1. /\ feed \in [pc : {"page"}, at : Nat \ {0}, to : 0 .. Len(center)] /\ feed.at <= feed.to
        /\ first \in Nat /\ (first + 1)..(feed.at - 1) \subseteq fed
    BY <1>5 DEF FeedIngest, FeedInv, Idle
  <2>2. /\ fed' = fed \cup {feed.at} /\ feed' = [feed EXCEPT !.at = @ + 1]
        /\ center' = center /\ cursor' = cursor /\ first' = first
    BY <1>5 DEF FeedIngest
  <2>3. feed' \in [pc : {"page"}, at : Nat \ {0}, to : 0 .. Len(center')] /\ feed'.at - 1 = feed.at BY <2>1, <2>2
  <2>4. (first + 1)..feed.at \subseteq ((first + 1)..(feed.at - 1)) \cup {feed.at} BY <2>1
  <2>5. (first' + 1)..(feed'.at - 1) \subseteq fed' BY <2>1, <2>2, <2>3, <2>4
  <2>6. QED BY <2>1, <2>2, <2>3, <2>5 DEF FeedInv
<1>6. CASE FeedMove
  <2>1. /\ feed \in [pc : {"page"}, at : Nat \ {0}, to : 0 .. Len(center)] /\ feed.at > feed.to
        /\ first \in Nat /\ (first + 1)..(feed.at - 1) \subseteq fed
    BY <1>6 DEF FeedMove, FeedInv, Idle
  <2>2. cursor' = feed.to /\ feed' = Idle /\ center' = center /\ first' = first /\ fed' = fed
    BY <1>6 DEF FeedMove, NextCursor
  <2>3. (first + 1)..feed.to \subseteq (first + 1)..(feed.at - 1) BY <1>1, <2>1
  <2>4. QED BY <2>1, <2>2, <2>3 DEF FeedInv
<1>7. CASE \/ (\E o \in Objects : Move(o)) \/ Noise \/ CloseWatcher \/ Post
          \/ (\E c \in Callers : NotifyTask(c)) \/ (\E l \in Loops : Poll(l))
          \/ \E t \in Agented : WatchObserve(t) \/ WatchAgain(t) \/ WatchRegister(t)
  BY <1>2, <1>7 DEF Move, Noise, CloseWatcher, Post, NotifyTask, Poll, Select, Exit, Tick, ObserveRow, ApplyRow,
                    Sink, EndRow, WatchObserve, WatchAgain, WatchRegister
<1>8. QED BY <1>3, <1>4, <1>5, <1>6, <1>7 DEF Next, TailStream

\* A bounded event raises its own counter and no other.
LEMMA Using ==
  ASSUME UsedInv, NEW b \in Kinds, Use(b)
  PROVE  /\ used' \in [Kinds -> Nat] /\ used'["noise"] + used'["close"] + used'["crash"] <= MaxFaults
         /\ used'[b] = used[b] + 1 /\ \A x \in Kinds \ {b} : used'[x] = used[x]
<1>1. used \in [Kinds -> Nat] /\ used["noise"] + used["close"] + used["crash"] <= MaxFaults BY DEF UsedInv
<1>2. used' = [used EXCEPT ![b] = @ + 1] BY DEF Use
<1>3. MaxFaults \in Nat BY WorldAssumption
<1>4. b \in {"move", "request", "noise", "close", "crash"} BY DEF Kinds
<1>5. b \notin {"move", "request"} => used["noise"] + used["close"] + used["crash"] < MaxFaults BY DEF Use
<1>6. "noise" \in Kinds /\ "close" \in Kinds /\ "crash" \in Kinds BY DEF Kinds
<1>7. used["noise"] \in Nat /\ used["close"] \in Nat /\ used["crash"] \in Nat BY <1>1, <1>6
<1>8. used' \in [Kinds -> Nat] /\ used'[b] = used[b] + 1 /\ \A x \in Kinds \ {b} : used'[x] = used[x] BY <1>1, <1>2
<1>9. used'["noise"] + used'["close"] + used'["crash"] <= MaxFaults
  BY <1>1, <1>3, <1>4, <1>5, <1>6, <1>7, <1>8
<1>10. QED BY <1>8, <1>9

\* The counters stay within their bounds; Watcher.stop is renewed once per
\* Close.
LEMMA UsedStep == ASSUME UsedInv, Next PROVE UsedInv'
<1>1. CASE UNCHANGED <<used, stop, running>> BY <1>1 DEF UsedInv
<1>2. /\ stop \in Nat /\ stop <= used["close"] /\ running \in BOOLEAN BY DEF UsedInv
<1>3. used["close"] \in Nat /\ {"move", "request", "noise", "close", "crash"} = Kinds BY DEF UsedInv, Kinds
<1>4. ASSUME NEW b \in Kinds \ {"close"}, Use(b), UNCHANGED <<stop, running>> PROVE UsedInv'
  <2>1. used'["close"] = used["close"] BY <1>3, <1>4, Using
  <2>2. QED BY <1>2, <1>4, <2>1, Using DEF UsedInv
<1>5. CASE CloseWatcher
  <2>1. Use("close") /\ running' = FALSE /\ stop' = stop + 1 BY <1>5 DEF CloseWatcher
  <2>2. used'["close"] = used["close"] + 1 BY <1>3, <2>1, Using
  <2>3. stop' \in Nat /\ stop' <= used'["close"] BY <1>2, <1>3, <2>1, <2>2
  <2>4. QED BY <1>3, <2>1, <2>3, Using DEF UsedInv
<1>6. CASE Crash
  <2>1. Use("crash") /\ running' = FALSE /\ stop' = 0 BY <1>6 DEF Crash
  <2>2. used' \in [Kinds -> Nat] BY <1>3, <2>1, Using
  <2>3. stop' \in Nat /\ stop' <= used'["close"] BY <1>3, <2>1, <2>2
  <2>4. QED BY <1>3, <2>1, <2>3, Using DEF UsedInv
<1>7. CASE (\E o \in Objects : Move(o)) BY <1>3, <1>4, <1>7 DEF Move, watcherVars
<1>8. CASE Noise BY <1>3, <1>4, <1>8 DEF Noise, watcherVars
<1>9. CASE Post BY <1>3, <1>4, <1>9 DEF Post, watcherVars
<1>10. CASE \E t \in Agented : WatchObserve(t) BY <1>3, <1>4, <1>10 DEF WatchObserve
<1>11. CASE \E t \in Agented : WatchAgain(t) BY <1>1, <1>11 DEF WatchAgain
<1>12. CASE \E t \in Agented : WatchRegister(t)
  <2>1. UNCHANGED <<used, stop>> /\ running' \in BOOLEAN BY <1>2, <1>12 DEF WatchRegister, EnsureLoop
  <2>2. QED BY <2>1 DEF UsedInv
<1>13. CASE TailStream \/ (\E c \in Callers : NotifyTask(c)) \/ (\E l \in Loops : Poll(l))
  BY <1>1, <1>13 DEF TailStream, FeedPull, FeedIngest, FeedMove, NotifyTask, Poll, Select, Exit, Tick, ObserveRow,
                     ApplyRow, Sink, EndRow, watcherVars
<1>14. QED BY <1>5, <1>6, <1>7, <1>8, <1>9, <1>10, <1>11, <1>12, <1>13 DEF Next

\* Only Sink brings a goroutine to the end of a row, and it hands the change in.
LEMMA EndStep ==
  ASSUME WorldInv, Next, pulls' = pulls, WatcherInv',
         \A k \in Keys : entered[k] \in Nat /\ entered'[k] \in Nat /\ entered'[k] >= entered[k]
  PROVE  EndInv'
<1>1. GatewayInv /\ WatcherInv /\ EndInv BY DEF WorldInv
<1>2. ASSUME NEW l \in Loops, loop'[l] = loop[l] \/ loop'[l].pc # "done"
      PROVE  loop'[l].pc = "done" /\ EndsRow(l)' => \E k \in EndKeys(loop'[l].row.object) : entered'[k] > 0
  <2> SUFFICES ASSUME loop'[l].pc = "done", EndsRow(l)'
               PROVE  \E k \in EndKeys(loop'[l].row.object) : entered'[k] > 0
    OBVIOUS
  <2>1. loop'[l] = loop[l] BY <1>2
  <2>2. EndsRow(l) BY <2>1 DEF EndsRow, Done
  <2>3. loop[l].row.object \in Objects BY <1>1, <2>1, RowTyped
  <2>4. PICK k \in EndKeys(loop[l].row.object) : entered[k] > 0 BY <1>1, <2>1, <2>2 DEF EndInv
  <2>5. k \in Keys BY <2>3, <2>4, KeysOf
  <2>6. entered'[k] > 0 BY <2>4, <2>5
  <2>7. QED BY <2>1, <2>6
<1>3. CASE \A l \in Loops : loop'[l] = loop[l] \/ loop'[l].pc # "done" BY <1>2, <1>3 DEF EndInv, EndKeys
<1>4. ASSUME NEW l \in Loops, Sink(l) PROVE EndInv'
  <2>1. PICK r : r = loop[l].row OBVIOUS
  <2>2. PICK obs : obs = loop[l].obs OBVIOUS
  <2>3. PICK e : e = [key |-> ChangeKey(r.object, obs), task |-> r.item.task, valid |-> TRUE] OBVIOUS
  <2>4. loop[l].pc = "sink" /\ Ingest(l, e) /\ loop' = [loop EXCEPT ![l] = [loop[l] EXCEPT !.pc = "done"]]
    BY <1>4, <2>1, <2>2, <2>3 DEF Sink, At, Go
  <2>5. e \in Event /\ e.key \in Keys /\ e.valid BY <1>1, <2>1, <2>2, <2>3, <2>4, SinkEvent
  <2>6. l \in Callers BY WorldAssumption
  <2>7. entered'[e.key] > 0 BY <1>1, <2>4, <2>5, <2>6, IngestKeeps DEF Normalizes
  <2>8. loop[l] \in Polling /\ r.object \in Objects BY <1>1, <2>1, <2>4, RowTyped
  <2>9. \A m \in Loops \ {l} : loop'[m] = loop[m] BY <2>4
  <2>10. loop'[l].row = r /\ loop'[l].obs = obs
    BY <1>1, <2>1, <2>2, <2>4, <2>8 DEF WatcherInv, Polling
  <2>11. EndsRow(l)' => Done(r.object, obs, r.item.until) BY <2>10 DEF EndsRow, Done
  <2>12. EndsRow(l)' => e.key \in EndKeys(r.object) BY <2>3, <2>8, <2>11, ChangeKeys
  <2>13. EndsRow(l)' => \E k \in EndKeys(loop'[l].row.object) : entered'[k] > 0 BY <2>7, <2>10, <2>12
  <2>14. \A m \in Loops : loop'[m].pc = "done" /\ EndsRow(m)' => \E k \in EndKeys(loop'[m].row.object) : entered'[k] > 0
    BY <1>2, <2>9, <2>13
  <2>15. QED BY <2>14 DEF EndInv, EndKeys
<1>5. ASSUME NEW l \in Loops, NEW rec, rec.pc # "done", loop' = [loop EXCEPT ![l] = rec] PROVE EndInv'
  BY <1>1, <1>3, <1>5 DEF WatcherInv
<1>6. ASSUME NEW l \in Loops, Poll(l) PROVE EndInv'
  <2>1. CASE Select(l)
    <3>1. PICK n : n = stop OBVIOUS
    <3>2. [pc |-> "wait", chan |-> n].pc # "done" OBVIOUS
    <3>3. QED BY <1>5, <2>1, <3>1, <3>2 DEF Select, Go
  <2>2. CASE Exit(l) BY <1>5, <2>2 DEF Exit, Go, Idle
  <2>3. CASE Tick(l)
    <3>1. PICK b : b = {[object |-> o, item |-> items[o]] : o \in {x \in Objects : items[x] # None}} OBVIOUS
    <3>2. [pc |-> "poll", batch |-> b].pc # "done" OBVIOUS
    <3>3. QED BY <1>5, <2>3, <3>1, <3>2 DEF Tick, Go
  <2>4. CASE ObserveRow(l)
    <3>1. PICK rec : loop' = [loop EXCEPT ![l] = rec] /\ rec.pc # "done"
      <4>1. CASE loop[l].batch = {}
        <5>1. loop' = [loop EXCEPT ![l] = [pc |-> "select"]] BY <2>4, <4>1 DEF ObserveRow, Go
        <5>2. [pc |-> "select"].pc # "done" OBVIOUS
        <5>3. QED BY <5>1, <5>2
      <4>2. CASE loop[l].batch # {}
        <5>1. PICK r \in loop[l].batch :
                loop' = [loop EXCEPT ![l] =
                  IF Fingerprint(Snapshot(r.object)) = r.item.fp THEN [pc |-> "poll", batch |-> loop[l].batch \ {r}]
                  ELSE [pc |-> "seen", batch |-> loop[l].batch \ {r}, row |-> r, obs |-> Snapshot(r.object)]]
          BY <2>4, <4>2 DEF ObserveRow, Go
        <5>2. PICK rec : rec = IF Fingerprint(Snapshot(r.object)) = r.item.fp
                               THEN [pc |-> "poll", batch |-> loop[l].batch \ {r}]
                               ELSE [pc |-> "seen", batch |-> loop[l].batch \ {r}, row |-> r, obs |-> Snapshot(r.object)]
          OBVIOUS
        <5>3. rec.pc # "done" BY <5>2
        <5>4. QED BY <5>1, <5>2, <5>3
      <4>3. QED BY <4>1, <4>2
    <3>2. QED BY <1>5, <3>1
  <2>5. CASE ApplyRow(l)
    <3>1. loop[l] \in Polling BY <1>1, <2>5, RowTyped DEF ApplyRow, At
    <3>2. PICK rec : rec = [loop[l] EXCEPT !.pc = "sink"] OBVIOUS
    <3>3. rec.pc # "done" BY <3>1, <3>2 DEF Polling
    <3>4. QED BY <1>5, <2>5, <3>2, <3>3 DEF ApplyRow, Go
  <2>6. CASE Sink(l) BY <1>4, <2>6
  <2>7. CASE EndRow(l)
    <3>1. PICK rec : rec = [pc |-> "poll", batch |-> loop[l].batch] OBVIOUS
    <3>2. rec.pc # "done" BY <3>1
    <3>3. QED BY <1>5, <2>7, <3>1, <3>2 DEF EndRow, Go
  <2>8. QED BY <1>6, <2>1, <2>2, <2>3, <2>4, <2>5, <2>6, <2>7 DEF Poll
<1>7. CASE \E t \in Agented : WatchRegister(t)
  <2>1. CASE loop' = loop BY <1>3, <2>1
  <2>2. CASE \E l \in Loops : loop' = [loop EXCEPT ![l] = [pc |-> "select"]]
    <3>1. [pc |-> "select"].pc # "done" OBVIOUS
    <3>2. QED BY <1>5, <2>2, <3>1
  <2>3. QED BY <1>7, <2>1, <2>2 DEF WatchRegister, EnsureLoop
<1>8. CASE Crash BY <1>3, <1>8 DEF Crash, Idle
<1>9. CASE \/ (\E o \in Objects : Move(o)) \/ Noise \/ TailStream \/ Post \/ (\E c \in Callers : NotifyTask(c))
          \/ CloseWatcher \/ \E t \in Agented : WatchObserve(t) \/ WatchAgain(t)
  BY <1>3, <1>9 DEF Move, Noise, TailStream, FeedPull, FeedIngest, FeedMove, Post, NotifyTask, CloseWatcher,
                    WatchObserve, WatchAgain, watcherVars
<1>10. QED BY <1>6, <1>7, <1>8, <1>9 DEF Next

-----------------------------------------------------------------------------
(* An end under a watch wakes someone. *)

\* What is owed to the objects that ended stands when no watch goes and the
\* gateway is left alone.
LEMMA WakeStands ==
  ASSUME WakeInv, UNCHANGED <<gatewayVars, held>>, \A o \in Objects : items[o] # None => items'[o] # None
  PROVE  WakeInv'
<1> SUFFICES ASSUME NEW o \in held
             PROVE  /\ o \in Objects
                    /\ (\A k \in EndKeys(o) : entered'[k] = 0) => items'[o] # None
                    /\ (\E k \in EndKeys(o) : entered'[k] > 0) => Wakes(o)'
  BY DEF WakeInv, EndKeys
<1>1. /\ o \in Objects
      /\ (\A k \in EndKeys(o) : entered[k] = 0) => items[o] # None
      /\ (\E k \in EndKeys(o) : entered[k] > 0) => Wakes(o)
  BY DEF WakeInv
<1>2. Wakes(o) => Wakes(o)' BY DEF Wakes, gatewayVars, EndKeys
<1>3. entered' = entered BY DEF gatewayVars
<1>4. QED BY <1>1, <1>2, <1>3

\* A fact handed in for an object that ended names a task that has an agent, as
\* long as its end was not taken before.
LEMMA WakeIngest ==
  ASSUME WakeInv, GatewayInv, NEW c \in Callers, NEW e \in Event, Ingest(c, e),
         UNCHANGED <<items, held>>,
         \A o \in Objects : e.key \in EndKeys(o) /\ items[o] # None => e.task \in Agented
  PROVE  WakeInv'
<1>1. CASE UNCHANGED gatewayVars BY <1>1, WakeStands
<1>2. CASE /\ AppendNew(e) /\ notifying[c] = NoEvent
           /\ notifying' = [notifying EXCEPT ![c] = e] /\ UNCHANGED <<wakes, woken, failures>>
  <2> SUFFICES ASSUME NEW o \in held
               PROVE  /\ o \in Objects
                      /\ (\A k \in EndKeys(o) : entered'[k] = 0) => items'[o] # None
                      /\ (\E k \in EndKeys(o) : entered'[k] > 0) => Wakes(o)'
    BY DEF WakeInv, EndKeys
  <2>1. /\ o \in Objects
        /\ (\A k \in EndKeys(o) : entered[k] = 0) => items[o] # None
        /\ (\E k \in EndKeys(o) : entered[k] > 0) => Wakes(o)
    BY DEF WakeInv
  <2>2. EndKeys(o) \subseteq Keys BY <2>1, KeysOf
  <2>3. entered \in [Keys -> Nat] /\ notifying \in [Callers -> Event \cup {NoEvent}]
    BY DEF GatewayInv, GatewayTypes
  <2>4. \A k \in Keys : entered[k] \in Nat /\ entered'[k] = IF k = e.key THEN entered[k] + 1 ELSE entered[k]
    BY <1>2, <2>3, Counted DEF AppendNew
  <2>5. \A d \in Callers : notifying'[d] = IF d = c THEN e ELSE notifying[d] BY <1>2, <2>3
  <2>6. (\A k \in EndKeys(o) : entered'[k] = 0) => \A k \in EndKeys(o) : entered[k] = 0 BY <2>2, <2>4
  <2>7. ASSUME NEW k \in EndKeys(o), entered'[k] > 0 PROVE Wakes(o)'
    <3>1. CASE \E x \in EndKeys(o) : entered[x] > 0
      <4>1. Wakes(o) BY <2>1, <3>1
      <4>2. CASE failures > 0 BY <1>2, <4>2 DEF Wakes
      <4>3. CASE \E x \in EndKeys(o), t \in Tasks : <<x, t>> \in woken BY <1>2, <4>3 DEF Wakes, EndKeys
      <4>4. CASE \E d \in Callers : notifying[d] # NoEvent /\ notifying[d].key \in EndKeys(o) /\ notifying[d].task \in Agented
        <5>1. \E d \in Callers : notifying'[d] # NoEvent /\ notifying'[d].key \in EndKeys(o) /\ notifying'[d].task \in Agented
          BY <1>2, <2>5, <4>4
        <5>2. QED BY <5>1 DEF Wakes, EndKeys
      <4>5. QED BY <4>1, <4>2, <4>3, <4>4 DEF Wakes
    <3>2. CASE ~ \E x \in EndKeys(o) : entered[x] > 0
      <4>1. \A x \in EndKeys(o) : entered[x] = 0 BY <2>2, <2>4, <3>2
      <4>2. items[o] # None BY <2>1, <4>1
      <4>3. k = e.key BY <2>2, <2>4, <2>7, <4>1
      <4>4. e.task \in Agented BY <2>1, <2>7, <4>2, <4>3
      <4>5. e # NoEvent BY GatewayAssumption
      <4>6. notifying'[c] = e BY <2>5
      <4>7. \E d \in Callers : notifying'[d] # NoEvent /\ notifying'[d].key \in EndKeys(o) /\ notifying'[d].task \in Agented
        BY <2>7, <4>3, <4>4, <4>5, <4>6
      <4>8. QED BY <4>7 DEF Wakes, EndKeys
    <3>3. QED BY <3>1, <3>2
  <2>8. QED BY <2>1, <2>6, <2>7
<1>3. QED BY <1>1, <1>2 DEF Ingest

\* notifyWorldEvent turns a wake to come into a wake, or into a failure.
LEMMA WakeNotify ==
  ASSUME WakeInv, GatewayInv, NEW c \in Callers, Notify(c), UNCHANGED <<items, held>> PROVE WakeInv'
<1>1. PICK e : e = notifying[c] OBVIOUS
<1>2. /\ notifying' = [notifying EXCEPT ![c] = NoEvent] /\ entered' = entered
      /\ \/ woken' = woken \cup ({e.key} \X Woken(e)) /\ failures' = failures
         \/ woken' = woken /\ failures' = failures + 1
  BY <1>1 DEF Notify
<1>3. notifying \in [Callers -> Event \cup {NoEvent}] /\ failures \in Nat BY GatewayAssumption DEF GatewayInv, GatewayTypes
<1> SUFFICES ASSUME NEW o \in held
             PROVE  /\ o \in Objects
                    /\ (\A k \in EndKeys(o) : entered'[k] = 0) => items'[o] # None
                    /\ (\E k \in EndKeys(o) : entered'[k] > 0) => Wakes(o)'
  BY DEF WakeInv, EndKeys
<1>4. /\ o \in Objects
      /\ (\A k \in EndKeys(o) : entered[k] = 0) => items[o] # None
      /\ (\E k \in EndKeys(o) : entered[k] > 0) => Wakes(o)
  BY DEF WakeInv
<1>5. woken \subseteq woken' /\ failures' \in Nat /\ failures' >= failures BY <1>2, <1>3
<1>6. ASSUME Wakes(o) PROVE Wakes(o)'
  <2>1. CASE failures > 0 BY <1>3, <1>5, <2>1 DEF Wakes
  <2>2. CASE \E k \in EndKeys(o), t \in Tasks : <<k, t>> \in woken BY <1>5, <2>2 DEF Wakes, EndKeys
  <2>3. ASSUME NEW d \in Callers, notifying[d] # NoEvent, notifying[d].key \in EndKeys(o), notifying[d].task \in Agented
        PROVE  Wakes(o)'
    <3>1. CASE d # c
      <4>1. notifying'[d] = notifying[d] BY <1>2, <1>3, <3>1
      <4>2. QED BY <2>3, <4>1 DEF Wakes, EndKeys
    <3>2. CASE d = c /\ failures' = failures + 1
      <4>1. failures' > 0 BY <1>3, <3>2
      <4>2. QED BY <4>1 DEF Wakes
    <3>3. CASE d = c /\ woken' = woken \cup ({e.key} \X Woken(e))
      <4>1. e.key \in EndKeys(o) /\ e.task \in Agented /\ e.task \in Tasks BY <1>1, <2>3, <3>3, GatewayAssumption
      <4>2. <<e.key, e.task>> \in woken' BY <3>3, <4>1 DEF Woken
      <4>3. \E k \in EndKeys(o), t \in Tasks : <<k, t>> \in woken' BY <4>1, <4>2
      <4>4. QED BY <4>3 DEF Wakes, EndKeys
    <3>4. QED BY <1>2, <3>1, <3>2, <3>3
  <2>4. QED BY <1>6, <2>1, <2>2, <2>3 DEF Wakes
<1>7. QED BY <1>2, <1>4, <1>6

\* Watcher.Watch clears no slot.
LEMMA RegisterKeepsSlots ==
  ASSUME WatcherInv, NEW t \in Agented, WatchRegister(t)
  PROVE  \A o \in Objects : items[o] # None => items'[o] # None
<1>1. t \in Tasks BY GatewayAssumption
<1>2. asking[t] \in Asks BY <1>1 DEF WatchRegister, WatcherInv
<1>3. asking[t].object \in Objects /\ asking[t].until \in Untils /\ asking[t].obs \in Observations BY <1>2 DEF Asks
<1>4. Item(t) \in Watches BY <1>3, PrintTyped DEF Item, Watches
<1>5. Item(t) # None BY <1>4, WatchIsThere
<1>6. items' = [items EXCEPT ![asking[t].object] = Item(t)] BY DEF WatchRegister
<1>7. QED BY <1>3, <1>5, <1>6 DEF WatcherInv

\* Moving a fingerprint clears no slot.
LEMMA ApplyKeepsSlots ==
  ASSUME WatcherInv, NEW l \in Loops, ApplyRow(l)
  PROVE  \A o \in Objects : items[o] # None => items'[o] # None
<1>1. PICK o \in Objects : o = loop[l].row.object BY RowTyped DEF ApplyRow, At
<1>2. CASE items[o] = None BY <1>1, <1>2 DEF ApplyRow
<1>3. CASE items[o] # None
  <2>1. items[o] \in Watches BY <1>3 DEF WatcherInv
  <2>2. Fingerprint(loop[l].obs) \in States \X BOOLEAN BY RowTyped, PrintTyped DEF ApplyRow, At
  <2>3. PICK p \in States \X BOOLEAN : p = Fingerprint(loop[l].obs) BY <2>2
  <2>4. items' = [items EXCEPT ![o].fp = p] BY <1>1, <1>3, <2>3 DEF ApplyRow
  <2>5. items'[o] = [items[o] EXCEPT !.fp = p] BY <2>4 DEF WatcherInv
  <2>6. [items[o] EXCEPT !.fp = p] \in Watches BY <2>1 DEF Watches
  <2>7. items'[o] # None BY <2>5, <2>6, WatchIsThere
  <2>8. QED BY <2>4, <2>7 DEF WatcherInv
<1>4. QED BY <1>2, <1>3

\* Every step keeps what is owed to the objects that ended under a watch.
LEMMA WakeStep == ASSUME WorldInv, Next, WatcherInv' PROVE WakeInv'
<1>1. GatewayInv /\ ObjectsInv /\ WatcherInv /\ FeedInv /\ EndInv /\ WakeInv BY DEF WorldInv
<1>2. CASE UNCHANGED <<gatewayVars, held, items>> BY <1>1, <1>2, WakeStands
<1>3. Feed \in Callers /\ Http \in Callers /\ Loops \subseteq Callers BY WorldAssumption
<1>4. ASSUME NEW o \in Objects, Move(o) PROVE WakeInv'
  <2>1. /\ UNCHANGED gatewayVars /\ items' = items
        /\ held' = held \/ (held' = held \cup {o} /\ items[o] # None /\ \A k \in EndKeys(o) : entered[k] = 0)
    BY <1>4 DEF Move, watcherVars
  <2>2. CASE held' = held BY <1>2, <2>1, <2>2
  <2>3. CASE held' = held \cup {o} /\ items[o] # None /\ \A k \in EndKeys(o) : entered[k] = 0
    <3>1. entered' = entered /\ \A x : Wakes(x)' = Wakes(x) BY <2>1 DEF gatewayVars, Wakes, EndKeys
    <3>2. QED BY <1>1, <2>1, <2>3, <3>1 DEF WakeInv, EndKeys
  <2>4. QED BY <2>1, <2>2, <2>3
<1>5. ASSUME NEW t \in Agented, WatchRegister(t) PROVE WakeInv'
  <2>1. UNCHANGED <<gatewayVars, held>> BY <1>5 DEF WatchRegister
  <2>2. QED BY <1>1, <1>5, <2>1, RegisterKeepsSlots, WakeStands
<1>6. ASSUME NEW l \in Loops, ApplyRow(l) PROVE WakeInv'
  <2>1. UNCHANGED <<gatewayVars, held>> BY <1>6 DEF ApplyRow
  <2>2. QED BY <1>1, <1>6, <2>1, ApplyKeepsSlots, WakeStands
<1>7. ASSUME NEW l \in Loops, Sink(l) PROVE WakeInv'
  <2>1. PICK e : e = [key |-> ChangeKey(loop[l].row.object, loop[l].obs), task |-> loop[l].row.item.task, valid |-> TRUE]
    OBVIOUS
  <2>2. Ingest(l, e) /\ UNCHANGED <<items, held>> /\ loop[l].pc = "sink" BY <1>7, <2>1 DEF Sink, At
  <2>3. e \in Event /\ e.task \in Agented BY <1>1, <2>1, <2>2, SinkEvent
  <2>4. QED BY <1>1, <1>3, <2>2, <2>3, WakeIngest
<1>8. ASSUME NEW l \in Loops, EndRow(l) PROVE WakeInv'
  <2>1. PICK o \in Objects : o = loop[l].row.object BY <1>1, <1>8, RowTyped DEF EndRow, At
  <2>2. UNCHANGED <<gatewayVars, held>> /\ loop[l].pc = "done" BY <1>8 DEF EndRow, At
  <2>3. CASE ~EndsRow(l) BY <1>2, <1>8, <2>2, <2>3 DEF EndRow
  <2>4. CASE EndsRow(l)
    <3>1. PICK k \in EndKeys(o) : entered[k] > 0 BY <1>1, <2>1, <2>2, <2>4 DEF EndInv
    <3>2. \A x \in Objects \ {o} : items'[x] = items[x] BY <1>1, <1>8, <2>1, <2>4 DEF EndRow, WatcherInv
    <3>3. entered' = entered /\ \A x : Wakes(x)' = Wakes(x) BY <2>2 DEF gatewayVars, Wakes, EndKeys
    <3>4. ~ \A x \in EndKeys(o) : entered[x] = 0 BY <3>1
    <3>5. QED BY <1>1, <2>2, <3>2, <3>3, <3>4 DEF WakeInv, EndKeys
  <2>5. QED BY <2>3, <2>4
<1>9. CASE FeedIngest
  <2>1. PICK e : e = [key |-> FactKey(center[feed.at]), task |-> Watching(center[feed.at].object), valid |-> center[feed.at].object # None]
    OBVIOUS
  <2>2. Ingest(Feed, e) /\ UNCHANGED <<items, held>> BY <1>9, <2>1 DEF FeedIngest, watcherVars
  <2>3. e \in Event /\ \A o \in Objects : e.key \in EndKeys(o) /\ items[o] # None => e.task \in Agented
    BY <1>1, <1>9, <2>1, FeedEvent
  <2>4. QED BY <1>1, <1>3, <2>2, <2>3, WakeIngest
<1>10. CASE Post
  <2>1. PICK k \in Keys, t \in PostTasks : k[1] \notin Objects /\ Ingest(Http, [key |-> k, task |-> t, valid |-> TRUE])
    BY <1>10 DEF Post
  <2>2. PICK e : e = [key |-> k, task |-> t, valid |-> TRUE] OBVIOUS
  <2>3. e \in Event /\ \A o \in Objects : e.key \notin EndKeys(o) BY <2>1, <2>2, PostEvent
  <2>4. UNCHANGED <<items, held>> BY <1>10 DEF Post, watcherVars
  <2>5. QED BY <1>1, <1>3, <2>1, <2>2, <2>3, <2>4, WakeIngest
<1>11. CASE \E c \in Callers : NotifyTask(c) BY <1>1, <1>11, WakeNotify DEF NotifyTask, watcherVars
<1>12. CASE Crash BY <1>12 DEF Crash, WakeInv
<1>13. CASE \E l \in Loops : Poll(l)
  BY <1>2, <1>6, <1>7, <1>8, <1>13 DEF Poll, Select, Exit, Tick, ObserveRow
<1>14. CASE Noise \/ CloseWatcher \/ FeedPull \/ FeedMove \/ \E t \in Agented : WatchObserve(t) \/ WatchAgain(t)
  BY <1>2, <1>14 DEF Noise, CloseWatcher, FeedPull, FeedMove, WatchObserve, WatchAgain, watcherVars
<1>15. QED BY <1>4, <1>5, <1>9, <1>10, <1>11, <1>12, <1>13, <1>14 DEF Next, TailStream

-----------------------------------------------------------------------------
(* The invariant, and what follows from it. *)

\* The invariant holds when the process starts.
LEMMA WorldInitially == Init => WorldInv
<1> SUFFICES ASSUME Init PROVE WorldInv OBVIOUS
<1>1. GatewayInv BY GatewayInitially DEF Init
<1>2. ObjectsInv
  <2>1. Obs("open", FALSE) \in Observations /\ Obs("running", FALSE) \in Observations BY ObsTyped DEF States
  <2>2. center \in Seq(Streamed) BY EmptySeq DEF Init
  <2>3. QED BY <2>1, <2>2 DEF Init, ObjectsInv
<1>3. WatcherInv BY DEF Init, WatcherInv, LoopStates
<1>4. FeedInv BY DEF Init, FeedInv
<1>5. UsedInv
  <2>1. used \in [Kinds -> Nat] /\ used["noise"] = 0 /\ used["close"] = 0 /\ used["crash"] = 0 BY DEF Init, Kinds
  <2>2. MaxFaults \in Nat BY WorldAssumption
  <2>3. used["noise"] + used["close"] + used["crash"] <= MaxFaults BY <2>1, <2>2
  <2>4. stop \in Nat /\ stop <= used["close"] BY <2>1 DEF Init
  <2>5. running \in BOOLEAN BY DEF Init
  <2>6. QED BY <2>1, <2>3, <2>4, <2>5 DEF UsedInv
<1>6. EndInv BY DEF Init, EndInv, Idle
<1>7. WakeInv BY DEF Init, WakeInv
<1>8. QED BY <1>1, <1>2, <1>3, <1>4, <1>5, <1>6, <1>7 DEF WorldInv

\* Every step keeps the invariant.
LEMMA WorldStep == WorldInv /\ [Next]_vars => WorldInv'
<1> SUFFICES ASSUME WorldInv, [Next]_vars PROVE WorldInv' OBVIOUS
<1>1. CASE Next
  <2>1. GatewayInv /\ ObjectsInv /\ WatcherInv /\ FeedInv /\ UsedInv /\ EndInv /\ WakeInv BY DEF WorldInv
  <2>2. ObjectsInv' /\ pulls' = pulls /\ Len(center') >= Len(center) BY <1>1, <2>1, ObjectsStep
  <2>3. GatewayInv' /\ \A k \in Keys : entered[k] \in Nat /\ entered'[k] \in Nat /\ entered'[k] >= entered[k]
    BY <1>1, <2>1, GatewayStep
  <2>4. stop \in Nat BY <2>1 DEF UsedInv
  <2>5. WatcherInv' BY <1>1, <2>1, <2>4, WatcherStep
  <2>6. FeedInv' BY <1>1, <2>1, <2>2, FeedStep
  <2>7. UsedInv' BY <1>1, <2>1, UsedStep
  <2>8. EndInv' BY <1>1, <2>2, <2>3, <2>5, EndStep
  <2>9. WakeInv' BY <1>1, <2>5, WakeStep
  <2>10. QED BY <2>2, <2>3, <2>5, <2>6, <2>7, <2>8, <2>9 DEF WorldInv
<1>2. CASE UNCHANGED vars
  <2>1. GatewayInv' BY <1>2, GatewayStands DEF WorldInv, vars
  <2>2. ObjectsInv' /\ WatcherInv' /\ FeedInv' /\ UsedInv'
    BY <1>2 DEF WorldInv, vars, watcherVars, feedVars, ObjectsInv, WatcherInv, FeedInv, UsedInv
  <2>3. EndInv' BY <1>2 DEF WorldInv, vars, watcherVars, gatewayVars, EndInv, EndsRow, EndKeys, Done
  <2>4. WakeInv'
    <3>1. WakeInv /\ UNCHANGED <<gatewayVars, held>> /\ items' = items BY <1>2 DEF WorldInv, vars, watcherVars
    <3>2. QED BY <3>1, WakeStands
  <2>5. QED BY <2>1, <2>2, <2>3, <2>4 DEF WorldInv
<1>3. QED BY <1>1, <1>2

\* The inductive invariant of the gateway, the watcher and the feed together.
THEOREM WorldInvariant == Spec => []WorldInv
<1>1. QED BY WorldInitially, WorldStep, PTL DEF Spec

\* Across drops at the cap and restarts MemoryLog.byKey and MemoryLog.events
\* agree: Append answers a duplicate with the event of its key, and no key is
\* held twice.
THEOREM LogStaysIndexed == Spec => []LogIndexed
<1>1. WorldInv => LogIndexed
  <2> SUFFICES ASSUME WorldInv PROVE LogIndexed OBVIOUS
  <2>1. byKey = IndexOf(events) /\ \A i, j \in DOMAIN events : events[i].key = events[j].key /\ events[i].key # NoKey => i = j
    BY DEF WorldInv, GatewayInv, LogInv
  <2>2. DOMAIN byKey = {events[i].key : i \in DOMAIN events} \ {NoKey} BY <2>1, IndexDomain
  <2>3. \A k \in DOMAIN byKey : byKey[k] \in DOMAIN events /\ events[byKey[k]].key = k
    <3> SUFFICES ASSUME NEW k \in DOMAIN byKey PROVE byKey[k] \in DOMAIN events /\ events[byKey[k]].key = k OBVIOUS
    <3>1. \E i \in DOMAIN events : events[i].key = k BY <2>2
    <3>2. byKey[k] = CHOOSE i \in DOMAIN events : events[i].key = k BY <2>1, <2>2 DEF IndexOf
    <3>3. QED BY <3>1, <3>2
  <2>4. QED BY <2>1, <2>2, <2>3 DEF LogIndexed
<1>2. QED BY <1>1, WorldInvariant, PTL

\* A fact wakes at most one task, once for each time the log has let its key
\* in, whoever ingests it: the poll, the feed and POST /api/events.
THEOREM OneWakePerFactHolds == Spec => []OneWakePerFact
<1>1. WorldInv => OneWakePerFact
  <2> SUFFICES ASSUME WorldInv, NEW k \in Keys PROVE wakes[k] <= dropped[k] + 1 BY DEF OneWakePerFact
  <2>1. /\ entered[k] <= dropped[k] + (IF k \in DOMAIN byKey THEN 1 ELSE 0)
        /\ wakes[k] + Cardinality(Waiting(k)) <= entered[k]
    BY DEF WorldInv, GatewayInv, CountInv
  <2>2. entered[k] \in Nat /\ dropped[k] \in Nat /\ wakes[k] \in Nat BY DEF WorldInv, GatewayInv, GatewayTypes
  <2>3. Cardinality(Waiting(k)) \in Nat BY WaitingFinite
  <2>4. QED BY <2>1, <2>2, <2>3
<1>2. QED BY <1>1, WorldInvariant, PTL

\* consume moves the feed's cursor over no event it has not offered to the
\* gateway, whatever page sizes, failed pulls and refused events there are.
THEOREM FeedLeavesNoGapHolds == Spec => []FeedLeavesNoGap
<1>1. WorldInv => FeedLeavesNoGap BY DEF WorldInv, FeedInv, FeedLeavesNoGap
<1>2. QED BY <1>1, WorldInvariant, PTL

\* An object that ends for the first time under a watch wakes a task that
\* watches it, as long as no wake failed: stale copies, slots taken over and
\* the race of the feed with the poll do not lose it.
THEOREM WatchedEndWakesHolds == Spec => []WatchedEndWakes
<1>1. WorldInv => WatchedEndWakes
  <2> SUFFICES ASSUME WorldInv, NEW o \in held, failures = 0, \E k \in EndKeys(o) : entered[k] > 0,
                      \A c \in Callers : notifying[c] # NoEvent => notifying[c].key \notin EndKeys(o)
               PROVE  \E k \in EndKeys(o), t \in Tasks : <<k, t>> \in woken
    BY DEF WatchedEndWakes
  <2>1. Wakes(o) BY DEF WorldInv, WakeInv
  <2>2. QED BY <2>1 DEF Wakes
<1>2. QED BY <1>1, WorldInvariant, PTL

\* Only a poll at the end of a row clears a slot.
LEMMA SlotCleared ==
  ASSUME WorldInv, [Next]_vars, NEW o \in Objects,
         items[o] # None, items'[o] = None, used'["crash"] = used["crash"]
  PROVE  \E k \in EndKeys(o) : entered[k] > 0
<1>1. WatcherInv /\ EndInv /\ UsedInv BY DEF WorldInv
<1>2. items' # items OBVIOUS
<1>3. Next BY <1>2 DEF vars, watcherVars
<1>4. ~Crash
  <2>1. SUFFICES ASSUME Crash PROVE FALSE OBVIOUS
  <2>2. used'["crash"] = used["crash"] + 1 /\ used["crash"] \in Nat BY <1>1, <2>1, Using DEF Crash, Kinds, UsedInv
  <2>3. QED BY <2>2
<1>5. \/ \E l \in Loops : ApplyRow(l) \/ EndRow(l)
      \/ \E t \in Agented : WatchRegister(t)
  BY <1>2, <1>3, <1>4 DEF Next, Move, Noise, WatchObserve, WatchAgain, Poll, Select, Exit, Tick, ObserveRow, Sink,
     NotifyTask, CloseWatcher, TailStream, FeedPull, FeedIngest, FeedMove, Post, watcherVars
<1>6. PICK l \in Loops : EndRow(l) BY <1>1, <1>5, ApplyKeepsSlots, RegisterKeepsSlots
<1>7. loop[l].pc = "done" /\ loop[l].row.object \in Objects BY <1>1, <1>6, RowTyped DEF EndRow, At
<1>8. EndsRow(l) /\ loop[l].row.object = o BY <1>1, <1>6, <1>7 DEF EndRow, WatcherInv
<1>9. QED BY <1>1, <1>7, <1>8 DEF EndInv

\* Watcher.poll deletes a slot only after a fact that ends its object has
\* been taken by the gateway; nothing else but the death of the process
\* clears a slot.
THEOREM EndedWatchIsAFactHolds == Spec => EndedWatchIsAFact
<1>1. WorldInv /\ [Next]_vars =>
        [\A o \in Objects : items[o] # None /\ items'[o] = None /\ used'["crash"] = used["crash"]
           => \E k \in EndKeys(o) : entered[k] > 0]_vars
  BY SlotCleared
<1>2. QED BY <1>1, WorldInvariant, PTL DEF Spec, EndedWatchIsAFact

\* The types of the gateway, the watcher and the feed, with the cap of the
\* log and the cursor within the stream.
THEOREM WorldTypes == Spec => []TypeOK
<1>1. WorldInv => TypeOK
  <2> SUFFICES ASSUME WorldInv PROVE TypeOK OBVIOUS
  <2>1. GatewayInv /\ ObjectsInv /\ WatcherInv /\ FeedInv /\ UsedInv BY DEF WorldInv
  <2>2. GatewayTypeOK
    <3>1. GatewayTypes /\ byKey = IndexOf(events) BY <2>1 DEF GatewayInv, LogInv
    <3>2. DOMAIN byKey = {events[i].key : i \in DOMAIN events} \ {NoKey} BY <3>1, IndexDomain
    <3>3. \A i \in DOMAIN events : events[i] \in Event
      <4>1. events \in Seq(Event) BY <3>1 DEF GatewayTypes
      <4>2. QED BY <4>1, LenProperties, ElementOfSeq
    <3>4. DOMAIN byKey \subseteq Keys BY <3>2, <3>3 DEF Event
    <3>5. QED BY <3>1, <3>4 DEF GatewayTypes, GatewayTypeOK
  <2>3. \A o \in Objects : items[o] # None =>
          /\ items[o].task \in Tasks /\ items[o].until \in Untils
          /\ items[o].fp \in {Fingerprint(obs) : obs \in Observations}
    <3> SUFFICES ASSUME NEW o \in Objects, items[o] # None
                 PROVE  /\ items[o].task \in Tasks /\ items[o].until \in Untils
                        /\ items[o].fp \in {Fingerprint(obs) : obs \in Observations}
      OBVIOUS
    <3>1. items[o] \in Watches BY <2>1 DEF WatcherInv
    <3>2. items[o].task \in Agented /\ items[o].until \in Untils /\ items[o].fp \in States \X BOOLEAN BY <3>1 DEF Watches
    <3>3. PICK s \in States, f \in BOOLEAN : items[o].fp = <<s, f>> BY <3>2
    <3>4. Obs(s, f) \in Observations /\ Fingerprint(Obs(s, f)) = <<s, f>> BY ObsTyped DEF Fingerprint
    <3>5. QED BY <3>2, <3>3, <3>4, GatewayAssumption
  <2>4. \A l \in Loops : loop[l].pc \in {"idle", "select", "wait", "poll", "seen", "sink", "done"}
    BY <2>1 DEF WatcherInv, LoopStates, Polling, Idle
  <2>5. stop \in 0 .. MaxFaults
    <3>1. used["noise"] \in Nat /\ used["close"] \in Nat /\ used["crash"] \in Nat BY <2>1 DEF UsedInv, Kinds
    <3>2. QED BY <2>1, <3>1, WorldAssumption DEF UsedInv
  <2>6. running \in BOOLEAN BY <2>1 DEF UsedInv
  <2>7. feed.pc \in {"idle", "page"} BY <2>1 DEF FeedInv, Idle
  <2>8. cursor \in {None} \cup 0 .. Len(center) BY <2>1 DEF FeedInv
  <2>9. QED BY <2>1, <2>2, <2>3, <2>4, <2>5, <2>6, <2>7, <2>8 DEF TypeOK, ObjectsInv
<1>2. QED BY <1>1, WorldInvariant, PTL
=============================================================================
