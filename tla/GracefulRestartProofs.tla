----------------------- MODULE GracefulRestartProofs -----------------------
(***************************************************************************)
(* Proofs about GracefulRestart, for any number of tasks, messages,        *)
(* restarts, signals and stops.                                            *)
(***************************************************************************)
EXTENDS GracefulRestart, RestartDrain, FiniteSetTheorems, TLAPS

USE DEF store, consumer, bounds, wake

\* There is room for a message that was promised.
LEMMA RoomForOne ==
  ASSUME TypeOK, RoomInv
  PROVE  /\ door # {} => last < MaxMsg
         /\ Owing # {} => last < MaxMsg
         /\ Room => last < MaxMsg
         /\ Cardinality(door) \in Nat /\ Cardinality(Owing) \in Nat /\ IsFiniteSet(Owing)
         /\ Cardinality({s \in Stoppers : stop[s].at # "no"}) \in Nat
         /\ Cardinality(Owing) <= Cardinality({s \in Stoppers : stop[s].at # "no"})
<1> DEFINE P == {s \in Stoppers : stop[s].at # "no"}
<1>1. IsFiniteSet({"user", "runtime"})
  <2>1. IsFiniteSet({"user"} \cup {"runtime"})
    BY FS_AddElement, FS_Singleton
  <2>2. {"user"} \cup {"runtime"} = {"user", "runtime"}
    OBVIOUS
  <2>3. QED
    BY <2>1, <2>2
<1>2. Owing \subseteq P /\ P \subseteq {"user", "runtime"}
  BY DEF Owing, Stoppers
<1>3. IsFiniteSet(P) /\ IsFiniteSet(Owing) /\ Cardinality(Owing) <= Cardinality(P)
  BY <1>1, <1>2, FS_Subset
<1>4. /\ Cardinality(door) \in Nat /\ Cardinality(Owing) \in Nat /\ Cardinality(P) \in Nat
      /\ door # {} => Cardinality(door) # 0
      /\ Owing # {} => Cardinality(Owing) # 0
  BY <1>3, FS_CardinalityType, FS_EmptySet DEF RoomInv
<1>5. last \in Nat
  BY RestartAssumption DEF TypeOK, TypeStore
<1>6. Room => last + Cardinality(door) + Cardinality(P) < MaxMsg
  BY DEF Room
<1> HIDE DEF P
<1>7. last + Cardinality(door) + Cardinality(Owing) <= MaxMsg
  BY DEF RoomInv
<1>8. QED
  BY <1>3, <1>4, <1>5, <1>6, <1>7, RestartAssumption DEF P

\* What Inbox.enqueue does to the rows, and the start it owes.
LEMMA Enqueued ==
  ASSUME TypeOK, RowsInv, NEW t \in Tasks, NEW k \in Kinds, last < MaxMsg, EnqueueFor(t, k)
  PROVE  /\ last + 1 \in Ids /\ status[last + 1] = "absent" /\ task[last + 1] = NoTask
         /\ status'[last + 1] = "queued" /\ task'[last + 1] = t
         /\ \A i \in Ids : i # last + 1 => status'[i] = status[i] /\ task'[i] = task[i]
         /\ UNCHANGED <<pc, held, resuming, missed>>
         /\ t \in starting' /\ starting \subseteq starting' /\ starting' \subseteq Tasks
         /\ \A b \in Tasks : b # t => (b \in starting' <=> b \in starting)
         /\ arrived \subseteq arrived' /\ arrived' \subseteq Tasks
         /\ \A b \in Tasks : b # t => (b \in arrived' <=> b \in arrived)
         /\ pc[t] # "none" => t \in arrived'
         /\ \A i \in Ids : i # last + 1 /\ task[i] \in Tasks /\ Sole(i)' => Sole(i) /\ task[i] # t
         /\ \A n \in Ids : n = last + 1 /\ Sole(n)' => \A i \in Ids : task[i] # t
<1>1. last + 1 \in Ids
  BY RestartAssumption DEF TypeOK, TypeStore, Ids
<1>2. status[last + 1] = "absent" /\ task[last + 1] = NoTask
  BY <1>1 DEF RowsInv, TypeOK, TypeStore
<1>3. /\ status'[last + 1] = "queued" /\ task'[last + 1] = t
      /\ \A i \in Ids : i # last + 1 => status'[i] = status[i] /\ task'[i] = task[i]
  BY <1>1 DEF EnqueueFor, TypeOK, TypeStore
<1>4. /\ UNCHANGED <<pc, held, resuming, missed>>
      /\ t \in starting' /\ starting \subseteq starting' /\ starting' \subseteq Tasks
      /\ \A b \in Tasks : b # t => (b \in starting' <=> b \in starting)
      /\ arrived \subseteq arrived' /\ arrived' \subseteq Tasks
      /\ \A b \in Tasks : b # t => (b \in arrived' <=> b \in arrived)
      /\ pc[t] # "none" => t \in arrived'
  BY DEF EnqueueFor, TypeOK, TypeMemory, TypeConsumer
<1>5. \A i \in Ids : i # last + 1 /\ task[i] \in Tasks /\ Sole(i)' => Sole(i) /\ task[i] # t
  <2> SUFFICES ASSUME NEW i \in Ids, i # last + 1, task[i] \in Tasks, Sole(i)'
               PROVE  Sole(i) /\ task[i] # t
    OBVIOUS
  <2>1. task[i] # t
    BY <1>1, <1>3 DEF Sole
  <2>2. ASSUME NEW j \in Ids, j # i, task[j] = task[i] PROVE FALSE
    <3>1. j # last + 1
      BY <1>2, <2>2, RestartAssumption
    <3>2. QED
      BY <1>3, <2>2, <3>1 DEF Sole
  <2>3. QED
    BY <2>1, <2>2 DEF Sole
<1>6. ASSUME NEW n \in Ids, n = last + 1, Sole(n)', NEW i \in Ids PROVE task[i] # t
  <2>1. CASE i = n
    BY <1>2, <1>6, <2>1, RestartAssumption
  <2>2. CASE i # n
    BY <1>3, <1>6, <2>2 DEF Sole
  <2>3. QED
    BY <2>1, <2>2
<1>7. QED
  BY <1>1, <1>2, <1>3, <1>4, <1>5, <1>6

\* What a call of Inbox.start does to the task's consumer and to the held.
LEMMA Started ==
  ASSUME TypeOK, NEW t \in Tasks, InboxStart(t)
  PROVE  /\ pc' \in [Tasks -> Stages] /\ held' \subseteq Tasks /\ missed' \subseteq Tasks
         /\ \A b \in Tasks : b # t =>
              /\ pc'[b] = pc[b] /\ (b \in held' <=> b \in held)
              /\ (b \in missed' <=> b \in missed)
         /\ held \subseteq held' /\ (~draining => held' = held)
         /\ pc[t] # "none" => pc'[t] = pc[t] /\ missed \subseteq missed'
         /\ pc'[t] \in {pc[t], "reclaim"}
         /\ pc'[t] = "none" => t \in missed' \/ t \in held'
         /\ t \in held' \/ t \in missed' \/ pc'[t] = "reclaim" \/ Coming(t)
         /\ ~draining => t \in missed' \/ pc'[t] = "reclaim" \/ (Coming(t) /\ pc'[t] = pc[t])
<1> USE DEF TypeOK, TypeMemory, TypeConsumer
<1>1. CASE draining
  BY <1>1 DEF InboxStart, HoldBack
<1>2. CASE ~draining /\ pc[t] = "none"
  BY <1>2 DEF InboxStart, Stages
<1>3. CASE ~draining /\ pc[t] # "none"
  BY <1>3 DEF InboxStart
<1>4. QED
  BY <1>1, <1>2, <1>3

\* The types are kept by every step.
LEMMA TypeStep == TypeOK /\ RestartInv /\ [Next]_vars => TypeOK'
<1> SUFFICES ASSUME TypeOK, RestartInv, [Next]_vars PROVE TypeOK'
  OBVIOUS
<1> USE RestartAssumption DEF TypeOK, TypeStore, TypeMemory, TypeConsumer, TypeStop,
        RestartInv
<1>1. ASSUME NEW t \in Tasks, Reclaim(t) PROVE TypeOK'
  BY <1>1 DEF Reclaim, Goto, RunningOf, Mine, Stages, InRun, Statuses, Rows, Phases,
     StopStages, NoStop, Stoppers, Kinds, Ids
<1>2. ASSUME NEW t \in Tasks, Claim(t) PROVE TypeOK'
  BY <1>2 DEF Claim, Goto, QueuedOf, Mine, Stages, InRun, Statuses, Rows, Phases,
     StopStages, NoStop, Stoppers, Kinds, Ids
<1>3. ASSUME NEW t \in Tasks, Idle(t) PROVE TypeOK'
  BY <1>3 DEF Idle, Goto, QueuedOf, Mine, Stages, InRun, Statuses, Rows, Phases,
     StopStages, NoStop, Stoppers, Kinds, Ids
<1>4. ASSUME NEW t \in Tasks, HoldCheck(t) PROVE TypeOK'
  <2>1. TypeStore' /\ TypeStop'
    BY <1>4 DEF HoldCheck
  <2>2. TypeMemory'
    BY <1>4 DEF HoldCheck, HoldBack
  <2>3. TypeConsumer'
    BY <1>4 DEF HoldCheck, Goto, Stages, InRun
  <2>4. QED
    BY <2>1, <2>2, <2>3
<1>5. ASSUME NEW t \in Tasks, Mark(t) PROVE TypeOK'
  BY <1>5 DEF Mark, Goto, Stages, InRun, Statuses, Rows, Phases, StopStages, NoStop,
     Stoppers, Kinds, Ids
<1>6. ASSUME NEW t \in Tasks, Register(t) PROVE TypeOK'
  BY <1>6 DEF Register, Goto, Stages, InRun, Statuses, Rows, Phases, StopStages,
     NoStop, Stoppers, Kinds, Ids
<1>7. ASSUME NEW t \in Tasks, Conclude(t) PROVE TypeOK'
  BY <1>7 DEF Conclude, Goto, Stages, InRun, Statuses, Rows, Phases, StopStages,
     NoStop, Stoppers, Kinds, Ids
<1>8. ASSUME NEW t \in Tasks, Unwind(t) PROVE TypeOK'
  <2>1. TypeStore'
    BY <1>8 DEF Unwind, Blamed, Goto, Statuses, Rows, Stoppers, Kinds
  <2>2. TypeMemory'
    BY <1>8 DEF Unwind, Blamed, Goto, Phases, Stoppers
  <2>3. TypeConsumer'
    BY <1>8 DEF Unwind, Blamed, Goto, Stages, InRun
  <2>4. TypeStop'
    BY <1>8 DEF Unwind, Blamed, Goto, StopStages, Rows, Stoppers
  <2>5. QED
    BY <2>1, <2>2, <2>3, <2>4
<1>9. ASSUME NEW t \in Tasks, ClearReason(t) PROVE TypeOK'
  BY <1>9 DEF ClearReason, Goto, Stages, InRun, Statuses, Rows, Phases, StopStages,
     NoStop, Stoppers, Kinds, Ids
<1>10. ASSUME NEW t \in Tasks, Leave(t) PROVE TypeOK'
  BY <1>10 DEF Leave, Left, Goto, Stages, InRun, Statuses, Rows, Phases, StopStages,
     NoStop, Stoppers, Kinds, Ids
<1>11. ASSUME NEW t \in Tasks, Finish(t) PROVE TypeOK'
  BY <1>11 DEF Finish, Goto, Stages, InRun, Statuses, Rows, Phases, StopStages,
     NoStop, Stoppers, Kinds, Ids
<1>12. ASSUME NEW t \in Tasks, AcceptRow(t) PROVE TypeOK'
  BY <1>12 DEF AcceptRow, Serving, Stages, InRun, Statuses, Rows, Phases, StopStages,
     NoStop, Stoppers, Kinds, Ids
<1>13. ASSUME NEW t \in Tasks, AcceptMessage(t) PROVE TypeOK'
  <2>1. last < MaxMsg /\ EnqueueFor(t, "instruction")
    BY <1>13, RoomForOne DEF AcceptMessage
  <2>2. TypeStore'
    BY <1>13, <2>1, Enqueued DEF AcceptMessage, EnqueueFor, Statuses, Kinds, Ids
  <2>3. TypeMemory'
    BY <1>13, <2>1, Enqueued DEF AcceptMessage, Kinds
  <2>4. TypeConsumer'
    <3>1. arrived' \subseteq Tasks /\ UNCHANGED <<pc, missed>>
      BY <2>1, Enqueued DEF Kinds
    <3>2. QED
      BY <1>13, <3>1 DEF AcceptMessage
  <2>5. TypeStop'
    BY <1>13 DEF AcceptMessage, StopStages, Rows, Stoppers
  <2>6. QED
    BY <2>2, <2>3, <2>4, <2>5
<1>14. ASSUME NEW t \in Tasks, AcceptFails(t) PROVE TypeOK'
  BY <1>14 DEF AcceptFails, Stages, InRun, Statuses, Rows, Phases, StopStages, NoStop,
     Stoppers, Kinds, Ids
<1>15. ASSUME NEW t \in Tasks, Observe(t) PROVE TypeOK'
  <2>1. last < MaxMsg /\ EnqueueFor(t, "observation")
    BY <1>15, RoomForOne DEF Observe
  <2>2. TypeStore'
    BY <1>15, <2>1, Enqueued DEF Observe, EnqueueFor, Statuses, Kinds, Ids
  <2>3. TypeMemory'
    BY <1>15, <2>1, Enqueued DEF Observe, Kinds
  <2>4. TypeConsumer'
    <3>1. arrived' \subseteq Tasks /\ UNCHANGED <<pc, missed>>
      BY <2>1, Enqueued DEF Kinds
    <3>2. QED
      BY <1>15, <3>1 DEF Observe
  <2>5. TypeStop'
    BY <1>15 DEF Observe, StopStages, Rows, Stoppers
  <2>6. QED
    BY <2>2, <2>3, <2>4, <2>5
<1>16. ASSUME NEW t \in Tasks, StopTask(t) PROVE TypeOK'
  <2>1. TypeStore'
    BY <1>16 DEF StopTask, StopRead, Statuses, Rows, Stoppers, Kinds
  <2>2. TypeMemory'
    BY <1>16 DEF StopTask, StopRead, Phases, Stoppers
  <2>3. TypeConsumer'
    BY <1>16 DEF StopTask, StopRead, Stages, InRun
  <2>4. TypeStop'
    BY <1>16 DEF StopTask, StopRead, StopStages, Rows, Stoppers
  <2>5. QED
    BY <2>1, <2>2, <2>3, <2>4
<1>17. ASSUME NEW s \in Stoppers, StopLoad(s) PROVE TypeOK'
  <2>1. TypeStore'
    BY <1>17 DEF StopLoad, Statuses, Rows, Stoppers, Kinds
  <2>2. TypeMemory'
    BY <1>17 DEF StopLoad, Phases, Stoppers
  <2>3. TypeConsumer'
    BY <1>17 DEF StopLoad, Stages, InRun
  <2>4. TypeStop'
    <3>1. stop[s].task \in Tasks /\ inFlight[stop[s].task] \in Ids \cup {0}
      BY <1>17 DEF StopLoad
    <3>2. CASE inFlight[stop[s].task] = 0
      BY <1>17, <3>2 DEF StopLoad, NoStop, StopStages, Rows, Stoppers
    <3>3. CASE inFlight[stop[s].task] # 0
      <4>1. stop' = [stop EXCEPT ![s] = [stop[s] EXCEPT !.at = "cancel",
                                          !.target = inFlight[stop[s].task]]]
        BY <1>17, <3>3 DEF StopLoad
      <4>2. stop'[s] = [at |-> "cancel", task |-> stop[s].task, copy |-> stop[s].copy,
                        target |-> inFlight[stop[s].task]]
        <5>1. stop[s] \in [at : StopStages, task : Tasks \cup {NoTask}, copy : Rows,
                          target : Ids \cup {0}]
          OBVIOUS
        <5>2. stop'[s] = [stop[s] EXCEPT !.at = "cancel", !.target = inFlight[stop[s].task]]
          BY <4>1
        <5> HIDE DEF TypeOK, RestartInv
        <5>3. QED
          BY <5>1, <5>2
      <4>3. \A r \in Stoppers : r # s => stop'[r] = stop[r]
        BY <4>1
      <4>4. stop' = [r \in Stoppers |-> stop'[r]]
        BY <4>1
      <4>5. \A r \in Stoppers : stop'[r] \in [at : StopStages, task : Tasks \cup {NoTask},
                                                copy : Rows, target : Ids \cup {0}]
        BY <3>1, <4>2, <4>3 DEF StopStages
      <4>6. QED
        BY <3>1, <4>2, <4>3, <4>4, <4>5
    <3>4. QED
      BY <3>2, <3>3
  <2>5. QED
    BY <2>1, <2>2, <2>3, <2>4
<1>18. ASSUME NEW s \in Stoppers, StopCancel(s) PROVE TypeOK'
  <2>1. TypeStore'
    BY <1>18 DEF StopCancel, Statuses, Rows, Stoppers, Kinds
  <2>2. TypeMemory'
    BY <1>18 DEF StopCancel, StopInv, StopKept
  <2>3. TypeConsumer'
    BY <1>18 DEF StopCancel, Stages, InRun
  <2>4. TypeStop'
    BY <1>18 DEF StopCancel, StopStages, Rows, Stoppers
  <2>5. QED
    BY <2>1, <2>2, <2>3, <2>4
<1>19. ASSUME NEW s \in Stoppers, StopRecord(s) PROVE TypeOK'
  <2>1. last < MaxMsg /\ EnqueueFor(stop[s].task, "stop") /\ stop[s].task \in Tasks
    BY <1>19, RoomForOne DEF StopRecord, Owing
  <2>2. TypeStore'
    BY <1>19, <2>1, Enqueued DEF StopRecord, EnqueueFor, Statuses, Kinds, Ids
  <2>3. TypeMemory'
    BY <1>19, <2>1, Enqueued DEF StopRecord, Kinds
  <2>4. TypeConsumer'
    <3>1. arrived' \subseteq Tasks /\ UNCHANGED <<pc, missed>>
      BY <2>1, Enqueued DEF Kinds
    <3>2. QED
      BY <1>19, <3>1 DEF StopRecord
  <2>5. TypeStop'
    BY <1>19 DEF StopRecord, StopStages, Rows, Stoppers
  <2>6. QED
    BY <2>2, <2>3, <2>4, <2>5
<1>20. ASSUME NEW s \in Stoppers, StopMark(s) PROVE TypeOK'
  <2>1. TypeStore'
    <3>1. stop[s].task \in Tasks
      BY <1>20 DEF StopMark
    <3>2. QED
      BY <1>20, <3>1 DEF StopMark, Blamed, Rows, Stoppers
  <2>2. TypeMemory'
    <3>1. stop[s].task \in Tasks
      BY <1>20 DEF StopMark
    <3>2. QED
      BY <1>20, <3>1 DEF StopMark
  <2>3. TypeConsumer'
    BY <1>20 DEF StopMark, Blamed, NoStop, Stages, InRun
  <2>4. TypeStop'
    BY <1>20 DEF StopMark, Blamed, NoStop, StopStages, Rows, Stoppers
  <2>5. QED
    BY <2>1, <2>2, <2>3, <2>4
<1>21. ASSUME RestartNotify PROVE TypeOK'
  <2>1. notifies' \in 0..MaxNotify
    BY <1>21 DEF RestartNotify
  <2>2. TypeStore'
    BY <1>21 DEF RestartNotify, Statuses, Rows, Stoppers, Kinds
  <2>3. TypeMemory'
    BY <1>21, <2>1 DEF RestartNotify
  <2>4. TypeConsumer'
    BY <1>21 DEF RestartNotify, Stages, InRun
  <2>5. TypeStop'
    BY <1>21 DEF RestartNotify, StopStages, Rows, Stoppers
  <2>6. QED
    BY <2>2, <2>3, <2>4, <2>5
<1>22. ASSUME DrainTimeout PROVE TypeOK'
  BY <1>22 DEF DrainTimeout, Stages, InRun, Statuses, Rows, Phases, StopStages,
     NoStop, Stoppers, Kinds, Ids
<1>23. ASSUME Poll PROVE TypeOK'
  BY <1>23 DEF Poll, CanRestart, Stages, InRun, Statuses, Rows, Phases, StopStages,
     NoStop, Stoppers, Kinds, Ids
<1>24. ASSUME Term PROVE TypeOK'
  BY <1>24 DEF Term, Stages, InRun, Statuses, Rows, Phases, StopStages, NoStop,
     Stoppers, Kinds, Ids
<1>25. ASSUME Kill PROVE TypeOK'
  <2>1. kills' \in 0..MaxKill
    BY <1>25 DEF Kill
  <2>2. TypeStore'
    BY <1>25 DEF Kill, Gone, NoStop, Statuses, Rows, Stoppers, Kinds
  <2>3. TypeMemory'
    BY <1>25, <2>1 DEF Kill, Gone, Phases, Stoppers
  <2>4. TypeConsumer'
    BY <1>25 DEF Kill, Gone, NoStop, Stages, InRun
  <2>5. TypeStop'
    BY <1>25 DEF Kill, Gone, NoStop, StopStages, Rows, Stoppers
  <2>6. QED
    BY <2>2, <2>3, <2>4, <2>5
<1>26. ASSUME IdleSeen PROVE TypeOK'
  BY <1>26 DEF IdleSeen, Stages, InRun, Statuses, Rows, Phases, StopStages, NoStop,
     Stoppers, Kinds, Ids
<1>27. ASSUME GraceOver PROVE TypeOK'
  BY <1>27 DEF GraceOver, Stages, InRun, Statuses, Rows, Phases, StopStages, NoStop,
     Stoppers, Kinds, Ids
<1>28. ASSUME StopsDone PROVE TypeOK'
  BY <1>28 DEF StopsDone, Stages, InRun, Statuses, Rows, Phases, StopStages, NoStop,
     Stoppers, Kinds, Ids
<1>29. ASSUME Exit PROVE TypeOK'
  BY <1>29 DEF Exit, Gone, Stages, InRun, Statuses, Rows, Phases, StopStages, NoStop,
     Stoppers, Kinds, Ids
<1>30. ASSUME Boot PROVE TypeOK'
  BY <1>30 DEF Boot, Stages, InRun, Statuses, Rows, Phases, StopStages, NoStop,
     Stoppers, Kinds, Ids
<1>31. ASSUME NextScan PROVE TypeOK'
  BY <1>31 DEF NextScan, ListsOpen, ResumableAfterCut, Open, Stages, InRun, Statuses,
     Rows, Phases, StopStages, NoStop, Stoppers, Kinds, Ids
<1>32. ASSUME NEW t \in Tasks, ShutdownStops(t) PROVE TypeOK'
  BY <1>32 DEF ShutdownStops, StopRead, Stages, InRun, Statuses, Rows, Phases,
     StopStages, NoStop, Stoppers, Kinds, Ids
<1>33. ASSUME NEW t \in Tasks, ScanAccepted(t) PROVE TypeOK'
  <2>1. TypeStore' /\ TypeStop'
    BY <1>33 DEF ScanAccepted, Visit
  <2>2. /\ pc' \in [Tasks -> Stages] /\ held' \subseteq Tasks /\ missed' \subseteq Tasks
        /\ \A b \in Tasks : pc'[b] # pc[b] => pc'[b] = "reclaim"
    BY <1>33, Started DEF ScanAccepted, Visit
  <2>3. TypeMemory'
    BY <1>33, <2>2 DEF ScanAccepted, Visit
  <2>4. TypeConsumer'
    BY <1>33, <2>2 DEF ScanAccepted, Visit, InRun
  <2>5. QED
    BY <2>1, <2>3, <2>4
<1>34. ASSUME NEW t \in Tasks, ScanInterrupted(t) PROVE TypeOK'
  <2>1. TypeStore' /\ TypeStop'
    BY <1>34 DEF ScanInterrupted, Visit
  <2>2. /\ pc' \in [Tasks -> Stages] /\ held' \subseteq Tasks /\ missed' \subseteq Tasks
        /\ \A b \in Tasks : pc'[b] # pc[b] => pc'[b] = "reclaim"
    BY <1>34, Started DEF ScanInterrupted, Visit
  <2>3. TypeMemory'
    BY <1>34, <2>2 DEF ScanInterrupted, Visit
  <2>4. TypeConsumer'
    BY <1>34, <2>2 DEF ScanInterrupted, Visit, InRun
  <2>5. QED
    BY <2>1, <2>3, <2>4
<1>35. ASSUME NEW t \in Tasks, Requeue(t) PROVE TypeOK'
  <2>1. TypeStore' /\ TypeMemory' /\ TypeStop'
    BY <1>35 DEF Requeue, Statuses
  <2>2. TypeConsumer'
    BY <1>35 DEF Requeue, Goto, Stages, InRun
  <2>3. QED
    BY <2>1, <2>2
<1>36. ASSUME NEW t \in Tasks, EndDrain(t) PROVE TypeOK'
  <2>1. TypeStore' /\ TypeMemory' /\ TypeStop'
    BY <1>36 DEF EndDrain
  <2>2. TypeConsumer'
    BY <1>36 DEF EndDrain, Goto, Stages, InRun
  <2>3. QED
    BY <2>1, <2>2
<1>37. ASSUME NEW t \in Tasks, StartCall(t) PROVE TypeOK'
  <2>1. TypeStore' /\ TypeStop'
    BY <1>37 DEF StartCall
  <2>2. TypeMemory'
    BY <1>37, Started DEF StartCall
  <2>3. TypeConsumer'
    <3>1. /\ pc' \in [Tasks -> Stages] /\ missed' \subseteq Tasks
          /\ \A b \in Tasks : pc'[b] # pc[b] => pc'[b] = "reclaim"
      BY <1>37, Started DEF StartCall
    <3>2. QED
      BY <1>37, <3>1 DEF StartCall, InRun
  <2>4. QED
    BY <2>1, <2>2, <2>3
<1>38. ASSUME ResumePaused PROVE TypeOK'
  <2>1. TypeStore' /\ TypeStop' /\ TypeConsumer'
    BY <1>38 DEF ResumePaused
  <2>2. TypeMemory'
    <3>1. resuming' \in BOOLEAN
      BY <1>38, Zenon DEF ResumePaused
    <3>2. QED
      BY <1>38, <3>1 DEF ResumePaused
  <2>3. QED
    BY <2>1, <2>2
<1>39. CASE UNCHANGED <<row, by, status, task, kind, last, phase, todo, resumed,
                         draining, held, inFlight, reason, cancelled, pc, cur,
                         reclaimed, ending, door, stop, ready, person, notifies,
                         terms, kills, stops, resuming, starting, arrived, missed>>
  BY <1>39 DEF Stages, InRun, Statuses, Rows, Phases, StopStages, NoStop, Stoppers,
     Kinds, Ids
<1> HIDE DEF TypeOK, RestartInv, TypeOK
<1>40. QED
  BY <1>1, <1>2, <1>3, <1>4, <1>5, <1>6, <1>7, <1>8, <1>9, <1>10, <1>11, <1>12, <1>13,
     <1>14, <1>15, <1>16, <1>17, <1>18, <1>19, <1>20, <1>21, <1>22, <1>23, <1>24,
     <1>25, <1>26, <1>27, <1>28, <1>29, <1>30, <1>31, <1>32, <1>33, <1>34, <1>39,
     <1>35, <1>36, <1>37, <1>38, ZenonT(40)
     DEF Next, Consumer, StopCall, Process, vars, store, consumer, bounds

\* The row that is enqueued takes the next number.
LEMMA RowsEnqueued ==
  ASSUME TypeOK, RowsInv, NEW t \in Tasks, NEW k \in Kinds, last < MaxMsg, EnqueueFor(t, k)
  PROVE  RowsInv'
<1>1. last' = last + 1 /\ last \in Nat
  BY RestartAssumption DEF EnqueueFor, TypeOK, TypeStore
<1>2. /\ status'[last + 1] = "queued" /\ task'[last + 1] = t
      /\ \A i \in Ids : i # last + 1 => status'[i] = status[i] /\ task'[i] = task[i]
  BY Enqueued
<1>3. ASSUME NEW i \in Ids
      PROVE  /\ status'[i] = "absent" <=> last' < i
             /\ IF status'[i] = "absent" THEN task'[i] = NoTask ELSE task'[i] \in Tasks
  <2>1. CASE i = last + 1
    BY <1>1, <1>2, <2>1
  <2>2. CASE i # last + 1
    <3>1. last < i <=> last + 1 < i
      BY <1>1, <2>2, RestartAssumption DEF Ids
    <3>2. QED
      BY <1>1, <1>2, <2>2, <3>1 DEF RowsInv
  <2>3. QED
    BY <2>1, <2>2
<1>4. QED
  BY <1>3 DEF RowsInv

\* Rows stay numbered: the one enqueued is the next, and no step removes one.
LEMMA RowsStep == TypeOK /\ RestartInv /\ [Next]_vars => RowsInv'
<1> SUFFICES ASSUME TypeOK, RestartInv, [Next]_vars PROVE RowsInv'
  OBVIOUS
<1> USE RestartAssumption DEF TypeOK, TypeStore, TypeMemory, TypeConsumer, TypeStop,
        RestartInv, Ids
<1>1. ASSUME NEW t \in Tasks, Reclaim(t) PROVE RowsInv'
  BY <1>1 DEF Reclaim, Goto, RunningOf, Mine, RowsInv, ConsumerInv, Working, InRun
<1>2. ASSUME NEW t \in Tasks, Claim(t) PROVE RowsInv'
  BY <1>2 DEF Claim, Goto, QueuedOf, Mine, RowsInv, ConsumerInv, Working, InRun
<1>3. ASSUME NEW t \in Tasks, Requeue(t) PROVE RowsInv'
  BY <1>3 DEF Requeue, Goto, RowsInv, ConsumerInv, Working, InRun
<1>4. ASSUME NEW t \in Tasks, Finish(t) PROVE RowsInv'
  <2>1. cur[t] \in Ids /\ status[cur[t]] = "running" /\ ending[t] # "absent"
    BY <1>4 DEF Finish, ConsumerInv, Working
  <2>2. QED
    BY <1>4, <2>1 DEF Finish, RowsInv
<1>5. ASSUME NEW t \in Tasks, AcceptMessage(t) PROVE RowsInv'
  <2>1. last < MaxMsg /\ EnqueueFor(t, "instruction")
    BY <1>5, RoomForOne DEF AcceptMessage
  <2>2. QED
    BY <2>1, RowsEnqueued DEF Kinds
<1>6. ASSUME NEW t \in Tasks, Observe(t) PROVE RowsInv'
  <2>1. last < MaxMsg /\ EnqueueFor(t, "observation")
    BY <1>6, RoomForOne DEF Observe
  <2>2. QED
    BY <2>1, RowsEnqueued DEF Kinds
<1>7. ASSUME NEW s \in Stoppers, StopRecord(s) PROVE RowsInv'
  <2>1. last < MaxMsg /\ EnqueueFor(stop[s].task, "stop") /\ stop[s].task \in Tasks
    BY <1>7, RoomForOne DEF StopRecord, Owing
  <2>2. QED
    BY <2>1, RowsEnqueued DEF Kinds
<1>8. CASE UNCHANGED <<status, task, last>>
  BY <1>8 DEF RowsInv, ConsumerInv, Working, InRun
<1> HIDE DEF TypeOK, RestartInv, RowsInv
<1>9. QED
  BY <1>1, <1>2, <1>3, <1>4, <1>5, <1>6, <1>7, <1>8, ZenonT(40) DEF Next, Consumer,
     StopCall, Process, vars, store, consumer, bounds, Idle, HoldCheck, EndDrain, Mark,
     Register, Conclude, Unwind, ClearReason, Leave, AcceptRow, AcceptFails, StopTask,
     StopLoad, StopCancel, StopMark, StartCall, RestartNotify, DrainTimeout,
     ResumePaused, Poll, Term, Kill, IdleSeen, GraceOver, StopsDone, Exit, Boot,
     NextScan, ShutdownStops, ScanAccepted, ScanInterrupted, Gone, Visit

\* A consumer keeps its row, and the registry names it: another task takes no
\* row of this one, and a reclaim comes before the first claim.
LEMMA ConsumerStep == TypeOK /\ RestartInv /\ [Next]_vars => ConsumerInv'
<1> SUFFICES ASSUME TypeOK, RestartInv, [Next]_vars PROVE ConsumerInv'
  OBVIOUS
<1> USE RestartAssumption DEF TypeOK, TypeStore, TypeMemory, TypeConsumer, TypeStop,
        RestartInv, Ids
<1>1. ASSUME NEW t \in Tasks, Reclaim(t) PROVE ConsumerInv'
  BY <1>1 DEF Reclaim, Goto, RunningOf, Mine, ConsumerInv, RowsInv, Working, InRun
<1>2. ASSUME NEW t \in Tasks, Claim(t) PROVE ConsumerInv'
  BY <1>2 DEF Claim, Goto, QueuedOf, Mine, ConsumerInv, RowsInv, Working, InRun
<1>3. ASSUME NEW t \in Tasks, Idle(t) PROVE ConsumerInv'
  BY <1>3 DEF Idle, Goto, QueuedOf, Mine, ConsumerInv, RowsInv, Working, InRun
<1>4. ASSUME NEW t \in Tasks, HoldCheck(t) PROVE ConsumerInv'
  BY <1>4 DEF HoldCheck, Goto, ConsumerInv, RowsInv, Working, InRun
<1>5. ASSUME NEW t \in Tasks, Mark(t) PROVE ConsumerInv'
  BY <1>5 DEF Mark, Goto, ConsumerInv, RowsInv, Working, InRun
<1>6. ASSUME NEW t \in Tasks, Register(t) PROVE ConsumerInv'
  BY <1>6 DEF Register, Goto, ConsumerInv, RowsInv, Working, InRun
<1>7. ASSUME NEW t \in Tasks, Conclude(t) PROVE ConsumerInv'
  BY <1>7 DEF Conclude, Goto, ConsumerInv, RowsInv, Working, InRun
<1>8. ASSUME NEW t \in Tasks, Unwind(t) PROVE ConsumerInv'
  BY <1>8 DEF Unwind, Blamed, Goto, ConsumerInv, RowsInv, Working, InRun
<1>9. ASSUME NEW t \in Tasks, ClearReason(t) PROVE ConsumerInv'
  BY <1>9 DEF ClearReason, Goto, ConsumerInv, RowsInv, Working, InRun
<1>10. ASSUME NEW t \in Tasks, Leave(t) PROVE ConsumerInv'
  BY <1>10 DEF Leave, Left, Goto, ConsumerInv, RowsInv, Working, InRun
<1>11. ASSUME NEW t \in Tasks, Finish(t) PROVE ConsumerInv'
  BY <1>11 DEF Finish, Goto, ConsumerInv, RowsInv, Working, InRun
<1>12. ASSUME NEW t \in Tasks, AcceptMessage(t) PROVE ConsumerInv'
  <2>1. last < MaxMsg /\ EnqueueFor(t, "instruction")
    BY <1>12, RoomForOne DEF AcceptMessage
  <2>2. \A b \in Tasks : pc[b] # "none" => pc'[b] = pc[b]
    BY <2>1, Enqueued DEF Kinds
  <2>3. \A b \in Tasks : pc[b] = "none" => pc'[b] \in {"none", "reclaim"}
    BY <2>1, Enqueued DEF Kinds
  <2>4. \A i \in Ids : status[i] = "running" => status'[i] = "running" /\ task'[i] = task[i]
    BY <2>1, Enqueued DEF Kinds
  <2>5. QED
    BY <1>12, <2>2, <2>3, <2>4 DEF AcceptMessage, ConsumerInv, Working, InRun
<1>13. ASSUME NEW t \in Tasks, Observe(t) PROVE ConsumerInv'
  <2>1. last < MaxMsg /\ EnqueueFor(t, "observation")
    BY <1>13, RoomForOne DEF Observe
  <2>2. \A b \in Tasks : pc[b] # "none" => pc'[b] = pc[b]
    BY <2>1, Enqueued DEF Kinds
  <2>3. \A b \in Tasks : pc[b] = "none" => pc'[b] \in {"none", "reclaim"}
    BY <2>1, Enqueued DEF Kinds
  <2>4. \A i \in Ids : status[i] = "running" => status'[i] = "running" /\ task'[i] = task[i]
    BY <2>1, Enqueued DEF Kinds
  <2>5. QED
    BY <1>13, <2>2, <2>3, <2>4 DEF Observe, ConsumerInv, Working, InRun
<1>14. ASSUME NEW s \in Stoppers, StopRecord(s) PROVE ConsumerInv'
  <2>1. last < MaxMsg /\ EnqueueFor(stop[s].task, "stop") /\ stop[s].task \in Tasks
    BY <1>14, RoomForOne DEF StopRecord, Owing
  <2>2. \A b \in Tasks : pc[b] # "none" => pc'[b] = pc[b]
    BY <2>1, Enqueued DEF Kinds
  <2>3. \A b \in Tasks : pc[b] = "none" => pc'[b] \in {"none", "reclaim"}
    BY <2>1, Enqueued DEF Kinds
  <2>4. \A i \in Ids : status[i] = "running" => status'[i] = "running" /\ task'[i] = task[i]
    BY <2>1, Enqueued DEF Kinds
  <2>5. QED
    BY <1>14, <2>2, <2>3, <2>4 DEF StopRecord, ConsumerInv, Working, InRun
<1>15. ASSUME DrainTimeout PROVE ConsumerInv'
  BY <1>15 DEF DrainTimeout, ConsumerInv, RowsInv, Working, InRun
<1>16. ASSUME Kill PROVE ConsumerInv'
  BY <1>16 DEF Kill, Gone, ConsumerInv, RowsInv, Working, InRun
<1>17. ASSUME Exit PROVE ConsumerInv'
  BY <1>17 DEF Exit, Gone, ConsumerInv, RowsInv, Working, InRun
<1>18. ASSUME NEW t \in Tasks, ScanAccepted(t) PROVE ConsumerInv'
  <2>1. /\ \A b \in Tasks : pc'[b] # pc[b] => pc[b] = "none" /\ pc'[b] = "reclaim"
        /\ UNCHANGED <<status, task, cur, inFlight, reclaimed>>
    BY <1>18, Started DEF ScanAccepted, Visit
  <2>2. QED
    BY <2>1 DEF ConsumerInv, ConsumerInv, RowsInv, Held, Working, InRun
<1>19. ASSUME NEW t \in Tasks, ScanInterrupted(t) PROVE ConsumerInv'
  <2>1. /\ \A b \in Tasks : pc'[b] # pc[b] => pc[b] = "none" /\ pc'[b] = "reclaim"
        /\ UNCHANGED <<status, task, cur, inFlight, reclaimed>>
    BY <1>19, Started DEF ScanInterrupted, Visit
  <2>2. QED
    BY <2>1 DEF ConsumerInv, ConsumerInv, RowsInv, Held, Working, InRun
<1>20. ASSUME NEW t \in Tasks, Requeue(t) PROVE ConsumerInv'
  BY <1>20 DEF Requeue, Goto, ConsumerInv, RowsInv, Working, InRun
<1>21. ASSUME NEW t \in Tasks, EndDrain(t) PROVE ConsumerInv'
  BY <1>21 DEF EndDrain, Goto, ConsumerInv, RowsInv, Working, InRun
<1>22. ASSUME NEW t \in Tasks, StartCall(t) PROVE ConsumerInv'
  <2>1. /\ \A b \in Tasks : pc'[b] # pc[b] => pc[b] = "none" /\ pc'[b] = "reclaim"
        /\ UNCHANGED <<status, task, cur, inFlight, reclaimed>>
    BY <1>22, Started DEF StartCall
  <2>2. QED
    BY <2>1 DEF ConsumerInv, ConsumerInv, RowsInv, Held, Working, InRun
<1>23. CASE UNCHANGED <<pc, status, cur, task, inFlight, reclaimed>>
  BY <1>23 DEF ConsumerInv, RowsInv, Working, InRun
<1> HIDE DEF TypeOK, RestartInv, ConsumerInv
<1>24. QED
  BY <1>1, <1>2, <1>3, <1>4, <1>5, <1>6, <1>7, <1>8, <1>9, <1>10, <1>11, <1>12, <1>13,
     <1>14, <1>15, <1>16, <1>17, <1>18, <1>19, <1>23, <1>20, <1>21, <1>22, ZenonT(40) DEF Next, Consumer,
     StopCall, Process, vars, store, consumer, bounds, ResumePaused, AcceptRow, AcceptFails,
     StopTask, StopLoad, StopCancel, StopMark, RestartNotify, Poll, Term, IdleSeen,
     GraceOver, StopsDone, Boot, NextScan, ShutdownStops

\* A live consumer leaves no running row behind.
LEMMA OrphanStep == TypeOK /\ RestartInv /\ [Next]_vars => OrphanInv'
<1> SUFFICES ASSUME TypeOK, RestartInv, [Next]_vars PROVE OrphanInv'
  OBVIOUS
<1> USE RestartAssumption DEF TypeOK, TypeStore, TypeMemory, TypeConsumer, TypeStop,
        RestartInv, Ids
<1>1. ASSUME NEW t \in Tasks, Reclaim(t) PROVE OrphanInv'
  BY <1>1 DEF Reclaim, Goto, RunningOf, Mine, OrphanInv, ConsumerInv, RowsInv, Held,
     Working, InRun
<1>2. ASSUME NEW t \in Tasks, Claim(t) PROVE OrphanInv'
  BY <1>2 DEF Claim, Goto, QueuedOf, Mine, OrphanInv, ConsumerInv, RowsInv, Held,
     Working, InRun
<1>3. ASSUME NEW t \in Tasks, Idle(t) PROVE OrphanInv'
  BY <1>3 DEF Idle, Goto, QueuedOf, Mine, OrphanInv, ConsumerInv, RowsInv, Held,
     Working, InRun
<1>4. ASSUME NEW t \in Tasks, HoldCheck(t) PROVE OrphanInv'
  <2>1. /\ pc[t] = "hold" /\ pc'[t] \in {"mark", "requeue"}
        /\ \A b \in Tasks : b # t => pc'[b] = pc[b]
        /\ UNCHANGED <<status, task, reclaimed, cur>>
    BY <1>4 DEF HoldCheck, Goto
  <2>2. QED
    BY <2>1 DEF OrphanInv, RowsInv, Held, Working, InRun
<1>5. ASSUME NEW t \in Tasks, Mark(t) PROVE OrphanInv'
  BY <1>5 DEF Mark, Goto, OrphanInv, ConsumerInv, RowsInv, Held, Working, InRun
<1>6. ASSUME NEW t \in Tasks, Register(t) PROVE OrphanInv'
  BY <1>6 DEF Register, Goto, OrphanInv, ConsumerInv, RowsInv, Held, Working, InRun
<1>7. ASSUME NEW t \in Tasks, Conclude(t) PROVE OrphanInv'
  BY <1>7 DEF Conclude, Goto, OrphanInv, ConsumerInv, RowsInv, Held, Working, InRun
<1>8. ASSUME NEW t \in Tasks, Unwind(t) PROVE OrphanInv'
  BY <1>8 DEF Unwind, Blamed, Goto, OrphanInv, ConsumerInv, RowsInv, Held, Working,
     InRun
<1>9. ASSUME NEW t \in Tasks, ClearReason(t) PROVE OrphanInv'
  BY <1>9 DEF ClearReason, Goto, OrphanInv, ConsumerInv, RowsInv, Held, Working, InRun
<1>10. ASSUME NEW t \in Tasks, Leave(t) PROVE OrphanInv'
  BY <1>10 DEF Leave, Left, Goto, OrphanInv, ConsumerInv, RowsInv, Held, Working,
     InRun
<1>11. ASSUME NEW t \in Tasks, Finish(t) PROVE OrphanInv'
  BY <1>11, SMTT(20) DEF Finish, Goto, OrphanInv, ConsumerInv, RowsInv, Held, Working,
     InRun
<1>12. ASSUME NEW t \in Tasks, AcceptMessage(t) PROVE OrphanInv'
  <2>1. last < MaxMsg /\ EnqueueFor(t, "instruction")
    BY <1>12, RoomForOne DEF AcceptMessage
  <2>2. \A b \in Tasks : pc[b] # "none" => pc'[b] = pc[b]
    BY <2>1, Enqueued DEF Kinds
  <2>3. \A i \in Ids : status'[i] = "running" => status[i] = "running" /\ task'[i] = task[i]
    BY <2>1, Enqueued DEF Kinds
  <2>4. ASSUME NEW i \in Ids, status'[i] = "running", task'[i] \in reclaimed'
        PROVE  Held(i)'
    <3>1. Held(i) /\ task[i] \in Tasks /\ task'[i] = task[i] /\ UNCHANGED cur
      BY <1>12, <2>3, <2>4 DEF AcceptMessage, OrphanInv, RowsInv
    <3>2. pc'[task[i]] = pc[task[i]]
      BY <2>2, <3>1 DEF Held, Working, InRun
    <3>3. QED
      BY <3>1, <3>2 DEF Held
  <2>5. QED
    BY <2>4 DEF OrphanInv
<1>13. ASSUME NEW t \in Tasks, Observe(t) PROVE OrphanInv'
  <2>1. last < MaxMsg /\ EnqueueFor(t, "observation")
    BY <1>13, RoomForOne DEF Observe
  <2>2. \A b \in Tasks : pc[b] # "none" => pc'[b] = pc[b]
    BY <2>1, Enqueued DEF Kinds
  <2>3. \A i \in Ids : status'[i] = "running" => status[i] = "running" /\ task'[i] = task[i]
    BY <2>1, Enqueued DEF Kinds
  <2>4. ASSUME NEW i \in Ids, status'[i] = "running", task'[i] \in reclaimed'
        PROVE  Held(i)'
    <3>1. Held(i) /\ task[i] \in Tasks /\ task'[i] = task[i] /\ UNCHANGED cur
      BY <1>13, <2>3, <2>4 DEF Observe, OrphanInv, RowsInv
    <3>2. pc'[task[i]] = pc[task[i]]
      BY <2>2, <3>1 DEF Held, Working, InRun
    <3>3. QED
      BY <3>1, <3>2 DEF Held
  <2>5. QED
    BY <2>4 DEF OrphanInv
<1>14. ASSUME NEW s \in Stoppers, StopRecord(s) PROVE OrphanInv'
  <2>1. last < MaxMsg /\ EnqueueFor(stop[s].task, "stop") /\ stop[s].task \in Tasks
    BY <1>14, RoomForOne DEF StopRecord, Owing
  <2>2. \A b \in Tasks : pc[b] # "none" => pc'[b] = pc[b]
    BY <2>1, Enqueued DEF Kinds
  <2>3. \A i \in Ids : status'[i] = "running" => status[i] = "running" /\ task'[i] = task[i]
    BY <2>1, Enqueued DEF Kinds
  <2>4. ASSUME NEW i \in Ids, status'[i] = "running", task'[i] \in reclaimed'
        PROVE  Held(i)'
    <3>1. Held(i) /\ task[i] \in Tasks /\ task'[i] = task[i] /\ UNCHANGED cur
      BY <1>14, <2>3, <2>4 DEF StopRecord, OrphanInv, RowsInv
    <3>2. pc'[task[i]] = pc[task[i]]
      BY <2>2, <3>1 DEF Held, Working, InRun
    <3>3. QED
      BY <3>1, <3>2 DEF Held
  <2>5. QED
    BY <2>4 DEF OrphanInv
<1>15. ASSUME DrainTimeout PROVE OrphanInv'
  BY <1>15 DEF DrainTimeout, OrphanInv, ConsumerInv, RowsInv, Held, Working, InRun
<1>16. ASSUME Kill PROVE OrphanInv'
  BY <1>16 DEF Kill, Gone, OrphanInv, ConsumerInv, RowsInv, Held, Working, InRun
<1>17. ASSUME Exit PROVE OrphanInv'
  BY <1>17 DEF Exit, Gone, OrphanInv, ConsumerInv, RowsInv, Held, Working, InRun
<1>18. ASSUME NEW t \in Tasks, ScanAccepted(t) PROVE OrphanInv'
  <2>1. /\ \A b \in Tasks : pc'[b] # pc[b] => pc[b] = "none" /\ pc'[b] = "reclaim"
        /\ UNCHANGED <<status, task, cur, inFlight, reclaimed>>
    BY <1>18, Started DEF ScanAccepted, Visit
  <2>2. QED
    BY <2>1 DEF OrphanInv, ConsumerInv, RowsInv, Held, Working, InRun
<1>19. ASSUME NEW t \in Tasks, ScanInterrupted(t) PROVE OrphanInv'
  <2>1. /\ \A b \in Tasks : pc'[b] # pc[b] => pc[b] = "none" /\ pc'[b] = "reclaim"
        /\ UNCHANGED <<status, task, cur, inFlight, reclaimed>>
    BY <1>19, Started DEF ScanInterrupted, Visit
  <2>2. QED
    BY <2>1 DEF OrphanInv, ConsumerInv, RowsInv, Held, Working, InRun
<1>20. ASSUME NEW t \in Tasks, Requeue(t) PROVE OrphanInv'
  <2>1. /\ pc[t] = "requeue" /\ cur[t] \in Ids /\ status[cur[t]] = "running"
        /\ status' = [status EXCEPT ![cur[t]] = "queued"]
        /\ \A b \in Tasks : b # t => pc'[b] = pc[b] /\ cur'[b] = cur[b]
        /\ UNCHANGED <<task, reclaimed>>
    BY <1>20 DEF Requeue, Goto, ConsumerInv, Working
  <2>2. ASSUME NEW i \in Ids, status'[i] = "running", task[i] \in reclaimed
        PROVE  Held(i)'
    <3>1. i # cur[t] /\ status[i] = "running" /\ Held(i) /\ task[i] \in Tasks
      BY <2>1, <2>2 DEF OrphanInv
    <3>2. task[i] # t
      BY <3>1 DEF Held
    <3>3. QED
      BY <2>1, <3>1, <3>2 DEF Held
  <2>3. QED
    BY <2>1, <2>2 DEF OrphanInv
<1>21. ASSUME NEW t \in Tasks, EndDrain(t) PROVE OrphanInv'
  BY <1>21 DEF EndDrain, Goto, OrphanInv, RowsInv, Held, Working, InRun
<1>22. ASSUME NEW t \in Tasks, StartCall(t) PROVE OrphanInv'
  <2>1. /\ \A b \in Tasks : pc'[b] # pc[b] => pc[b] = "none" /\ pc'[b] = "reclaim"
        /\ UNCHANGED <<status, task, cur, inFlight, reclaimed>>
    BY <1>22, Started DEF StartCall
  <2>2. QED
    BY <2>1 DEF OrphanInv, ConsumerInv, RowsInv, Held, Working, InRun
<1>23. CASE UNCHANGED <<status, task, reclaimed, pc, cur>>
  BY <1>23 DEF OrphanInv, ConsumerInv, RowsInv, Held, Working, InRun
<1> HIDE DEF TypeOK, RestartInv, OrphanInv
<1>24. QED
  BY <1>1, <1>2, <1>3, <1>4, <1>5, <1>6, <1>7, <1>8, <1>9, <1>10, <1>11, <1>12, <1>13,
     <1>14, <1>15, <1>16, <1>17, <1>18, <1>19, <1>23, <1>20, <1>21, <1>22, ZenonT(40) DEF Next, Consumer,
     StopCall, Process, vars, store, consumer, bounds, ResumePaused, AcceptRow, AcceptFails,
     StopTask, StopLoad, StopCancel, StopMark, RestartNotify, Poll, Term, IdleSeen,
     GraceOver, StopsDone, Boot, NextScan, ShutdownStops

\* The drain is down from the end of a process to the end of the next boot.
LEMMA DrainStep == TypeOK /\ RestartInv /\ [Next]_vars => DrainInv'
<1> SUFFICES ASSUME TypeOK, RestartInv, [Next]_vars PROVE DrainInv'
  OBVIOUS
<1> USE RestartAssumption DEF TypeOK, TypeStore, TypeMemory, TypeConsumer, TypeStop,
        RestartInv, Leaving
<1>1. ASSUME NEW t \in Tasks, Reclaim(t) PROVE DrainInv'
  BY <1>1 DEF Reclaim, Goto, Alive, DrainInv
<1>2. ASSUME NEW t \in Tasks, Claim(t) PROVE DrainInv'
  BY <1>2 DEF Claim, Goto, Alive, DrainInv
<1>3. ASSUME NEW t \in Tasks, Idle(t) PROVE DrainInv'
  BY <1>3 DEF Idle, Goto, Alive, DrainInv
<1>4. ASSUME NEW t \in Tasks, HoldCheck(t) PROVE DrainInv'
  BY <1>4 DEF HoldCheck, Goto, HoldBack, Alive, DrainInv
<1>5. ASSUME NEW t \in Tasks, Requeue(t) PROVE DrainInv'
  BY <1>5 DEF Requeue, Goto, Alive, DrainInv
<1>6. ASSUME NEW t \in Tasks, EndDrain(t) PROVE DrainInv'
  BY <1>6 DEF EndDrain, Goto, Alive, DrainInv
<1>7. ASSUME NEW t \in Tasks, Mark(t) PROVE DrainInv'
  BY <1>7 DEF Mark, Goto, Alive, DrainInv
<1>8. ASSUME NEW t \in Tasks, Register(t) PROVE DrainInv'
  BY <1>8 DEF Register, Goto, Alive, DrainInv
<1>9. ASSUME NEW t \in Tasks, Conclude(t) PROVE DrainInv'
  BY <1>9 DEF Conclude, Goto, Alive, DrainInv
<1>10. ASSUME NEW t \in Tasks, Unwind(t) PROVE DrainInv'
  BY <1>10 DEF Unwind, Goto, Alive, DrainInv
<1>11. ASSUME NEW t \in Tasks, ClearReason(t) PROVE DrainInv'
  BY <1>11 DEF ClearReason, Goto, Alive, DrainInv
<1>12. ASSUME NEW t \in Tasks, Leave(t) PROVE DrainInv'
  BY <1>12 DEF Leave, Goto, Alive, DrainInv
<1>13. ASSUME NEW t \in Tasks, Finish(t) PROVE DrainInv'
  BY <1>13 DEF Finish, Goto, Alive, DrainInv
<1>14. ASSUME NEW t \in Tasks, AcceptMessage(t) PROVE DrainInv'
  <2>1. last < MaxMsg /\ EnqueueFor(t, "instruction") /\ t \in Tasks /\ phase # "down"
    BY <1>14, RoomForOne DEF AcceptMessage, Alive, Owing
  <2>2. UNCHANGED <<phase, draining, pc, held, resuming>>
    BY <1>14, <2>1, Enqueued DEF AcceptMessage, Kinds
  <2>3. QED
    BY <2>1, <2>2 DEF DrainInv
<1>15. ASSUME NEW t \in Tasks, Observe(t) PROVE DrainInv'
  <2>1. last < MaxMsg /\ EnqueueFor(t, "observation") /\ t \in Tasks /\ phase # "down"
    BY <1>15, RoomForOne DEF Observe, Alive, Owing
  <2>2. UNCHANGED <<phase, draining, pc, held, resuming>>
    BY <1>15, <2>1, Enqueued DEF Observe, Kinds
  <2>3. QED
    BY <2>1, <2>2 DEF DrainInv
<1>16. ASSUME NEW s \in Stoppers, StopRecord(s) PROVE DrainInv'
  <2>1. last < MaxMsg /\ EnqueueFor(stop[s].task, "stop") /\ stop[s].task \in Tasks /\ phase # "down"
    BY <1>16, RoomForOne DEF StopRecord, Alive, Owing
  <2>2. UNCHANGED <<phase, draining, pc, held, resuming>>
    BY <1>16, <2>1, Enqueued DEF StopRecord, Kinds
  <2>3. QED
    BY <2>1, <2>2 DEF DrainInv
<1>17. ASSUME NEW t \in Tasks, StartCall(t) PROVE DrainInv'
  <2>1. /\ phase # "down" /\ UNCHANGED <<phase, draining, resuming>>
        /\ ~draining => held' = held
        /\ \A b \in Tasks : pc'[b] # pc[b] => pc'[b] = "reclaim"
    BY <1>17, Started DEF StartCall, Alive
  <2>2. QED
    BY <2>1 DEF DrainInv
<1>18. ASSUME NEW t \in Tasks, ScanAccepted(t) PROVE DrainInv'
  <2>1. /\ phase # "down" /\ UNCHANGED <<phase, draining, resuming>>
        /\ ~draining => held' = held
        /\ \A b \in Tasks : pc'[b] # pc[b] => pc'[b] = "reclaim"
    BY <1>18, Started DEF ScanAccepted, Visit
  <2>2. QED
    BY <2>1 DEF DrainInv
<1>19. ASSUME NEW t \in Tasks, ScanInterrupted(t) PROVE DrainInv'
  <2>1. /\ phase # "down" /\ UNCHANGED <<phase, draining, resuming>>
        /\ ~draining => held' = held
        /\ \A b \in Tasks : pc'[b] # pc[b] => pc'[b] = "reclaim"
    BY <1>19, Started DEF ScanInterrupted, Visit
  <2>2. QED
    BY <2>1 DEF DrainInv
<1>20. ASSUME RestartNotify PROVE DrainInv'
  BY <1>20 DEF RestartNotify, DrainInv
<1>21. ASSUME DrainTimeout PROVE DrainInv'
  BY <1>21 DEF DrainTimeout, DrainInv
<1>22. ASSUME ResumePaused PROVE DrainInv'
  BY <1>22 DEF ResumePaused, Alive, DrainInv
<1>23. ASSUME Term PROVE DrainInv'
  BY <1>23 DEF Term, DrainInv
<1>24. ASSUME IdleSeen PROVE DrainInv'
  BY <1>24 DEF IdleSeen, DrainInv
<1>25. ASSUME GraceOver PROVE DrainInv'
  BY <1>25 DEF GraceOver, DrainInv
<1>26. ASSUME StopsDone PROVE DrainInv'
  BY <1>26 DEF StopsDone, DrainInv
<1>27. ASSUME Boot PROVE DrainInv'
  BY <1>27 DEF Boot, DrainInv
<1>28. ASSUME NextScan PROVE DrainInv'
  BY <1>28 DEF NextScan, DrainInv
<1>29. ASSUME Kill PROVE DrainInv'
  BY <1>29 DEF Kill, Gone, DrainInv
<1>30. ASSUME Exit PROVE DrainInv'
  BY <1>30 DEF Exit, Gone, DrainInv
<1>31. CASE UNCHANGED <<draining, phase, held, resuming, starting, pc>>
  BY <1>31 DEF DrainInv
<1> HIDE DEF TypeOK, RestartInv, DrainInv
<1>32. QED
  BY <1>1, <1>2, <1>3, <1>4, <1>5, <1>6, <1>7, <1>8, <1>9, <1>10, <1>11, <1>12, <1>13,
     <1>14, <1>15, <1>16, <1>17, <1>18, <1>19, <1>20, <1>21, <1>22, <1>23, <1>24,
     <1>25, <1>26, <1>27, <1>28, <1>29, <1>30, <1>31, ZenonT(40) DEF Next, Consumer,
     StopCall, Process, vars, store, consumer, bounds, wake, AcceptRow, AcceptFails,
     StopTask, StopLoad, StopCancel, StopMark, Poll, ShutdownStops

\* Whoever leaves a message behind is owed a start, or was missed: a start is
\* spent on a consumer, on the held, or is missed.
LEMMA WakeStep == TypeOK /\ RestartInv /\ [Next]_vars => WakeInv'
<1> SUFFICES ASSUME TypeOK, RestartInv, [Next]_vars PROVE WakeInv'
  OBVIOUS
<1> USE RestartAssumption DEF TypeOK, TypeStore, TypeMemory, TypeConsumer, TypeStop,
        RestartInv
<1>1. ASSUME NEW t \in Tasks, Reclaim(t) PROVE WakeInv'
  <2>1. /\ pc[t] = "reclaim" /\ pc'[t] = "claim" /\ UNCHANGED <<task, held, wake>>
        /\ \A b \in Tasks : b # t => pc'[b] = pc[b]
        /\ \A i \in Ids : task[i] # t => status'[i] = status[i]
    BY <1>1 DEF Reclaim, Goto, RunningOf, Mine
  <2>2. QED
    BY <2>1 DEF WakeInv, OwedOrMissed, QueuedOf, Mine
<1>2. ASSUME NEW t \in Tasks, Claim(t) PROVE WakeInv'
  BY <1>2 DEF Claim, Goto, WakeInv, OwedOrMissed, QueuedOf, Mine
<1>3. ASSUME NEW t \in Tasks, Idle(t) PROVE WakeInv'
  BY <1>3 DEF Idle, Goto, WakeInv, OwedOrMissed, QueuedOf, Mine
<1>4. ASSUME NEW t \in Tasks, HoldCheck(t) PROVE WakeInv'
  <2>1. /\ \A b \in Tasks : b # t => pc'[b] = pc[b]
        /\ pc'[t] \in {"mark", "requeue"} /\ (pc'[t] = "requeue" => t \in held')
        /\ held \subseteq held' /\ UNCHANGED <<task, status, wake>>
    BY <1>4 DEF HoldCheck, Goto, HoldBack
  <2>2. QED
    BY <2>1 DEF WakeInv, OwedOrMissed, QueuedOf, Mine
<1>5. ASSUME NEW t \in Tasks, Requeue(t) PROVE WakeInv'
  <2>1. /\ pc[t] = "requeue" /\ pc'[t] = "end" /\ task[cur[t]] = t /\ cur[t] \in Ids
        /\ \A b \in Tasks : b # t => pc'[b] = pc[b]
        /\ \A i \in Ids : i # cur[t] => status'[i] = status[i]
        /\ UNCHANGED <<task, held, wake>>
    BY <1>5 DEF Requeue, Goto, ConsumerInv, Working
  <2>2. QED
    BY <2>1 DEF WakeInv, OwedOrMissed, QueuedOf, Mine
<1>6. ASSUME NEW t \in Tasks, EndDrain(t) PROVE WakeInv'
  <2>1. /\ pc'[t] = "none" /\ \A b \in Tasks : b # t => pc'[b] = pc[b] /\ (b \in arrived' <=> b \in arrived)
        /\ starting \subseteq starting' /\ UNCHANGED <<task, status, held, missed>>
    BY <1>6 DEF EndDrain, Goto
  <2>2. QED
    BY <2>1 DEF WakeInv, OwedOrMissed, QueuedOf, Mine
<1>7. ASSUME NEW t \in Tasks, Mark(t) PROVE WakeInv'
  BY <1>7 DEF Mark, Goto, WakeInv, OwedOrMissed, QueuedOf, Mine
<1>8. ASSUME NEW t \in Tasks, Register(t) PROVE WakeInv'
  BY <1>8 DEF Register, Goto, WakeInv, OwedOrMissed, QueuedOf, Mine
<1>9. ASSUME NEW t \in Tasks, Conclude(t) PROVE WakeInv'
  BY <1>9 DEF Conclude, Goto, WakeInv, OwedOrMissed, QueuedOf, Mine
<1>10. ASSUME NEW t \in Tasks, Unwind(t) PROVE WakeInv'
  BY <1>10 DEF Unwind, Goto, WakeInv, OwedOrMissed, QueuedOf, Mine
<1>11. ASSUME NEW t \in Tasks, ClearReason(t) PROVE WakeInv'
  BY <1>11 DEF ClearReason, Goto, WakeInv, OwedOrMissed, QueuedOf, Mine
<1>12. ASSUME NEW t \in Tasks, Leave(t) PROVE WakeInv'
  BY <1>12 DEF Leave, Goto, WakeInv, OwedOrMissed, QueuedOf, Mine
<1>13. ASSUME NEW t \in Tasks, Finish(t) PROVE WakeInv'
  <2>1. /\ pc'[t] = "claim" /\ cur[t] \in Ids /\ UNCHANGED <<task, held, wake>>
        /\ \A b \in Tasks : b # t => pc'[b] = pc[b]
        /\ \A i \in Ids : status'[i] = "queued" => status[i] = "queued"
    BY <1>13 DEF Finish, Goto, ConsumerInv, Working
  <2>2. QED
    BY <2>1 DEF WakeInv, OwedOrMissed, QueuedOf, Mine
<1>14. ASSUME NEW t \in Tasks, AcceptMessage(t) PROVE WakeInv'
  <2>1. last < MaxMsg /\ EnqueueFor(t, "instruction") /\ t \in Tasks
    BY <1>14, RoomForOne DEF AcceptMessage, Owing
  <2>2. /\ UNCHANGED <<pc, held, missed>>
        /\ starting \subseteq starting' /\ arrived \subseteq arrived'
        /\ pc[t] # "none" => t \in arrived'
        /\ \A i \in Ids : task'[i] # t => task'[i] = task[i] /\ status'[i] = status[i]
    BY <2>1, Enqueued DEF Kinds
  <2>3. QED
    BY <2>1, <2>2 DEF WakeInv, OwedOrMissed, QueuedOf, Mine
<1>15. ASSUME NEW t \in Tasks, Observe(t) PROVE WakeInv'
  <2>1. last < MaxMsg /\ EnqueueFor(t, "observation") /\ t \in Tasks
    BY <1>15, RoomForOne DEF Observe, Owing
  <2>2. /\ UNCHANGED <<pc, held, missed>>
        /\ starting \subseteq starting' /\ arrived \subseteq arrived'
        /\ pc[t] # "none" => t \in arrived'
        /\ \A i \in Ids : task'[i] # t => task'[i] = task[i] /\ status'[i] = status[i]
    BY <2>1, Enqueued DEF Kinds
  <2>3. QED
    BY <2>1, <2>2 DEF WakeInv, OwedOrMissed, QueuedOf, Mine
<1>16. ASSUME NEW s \in Stoppers, StopRecord(s) PROVE WakeInv'
  <2>1. last < MaxMsg /\ EnqueueFor(stop[s].task, "stop") /\ stop[s].task \in Tasks
    BY <1>16, RoomForOne DEF StopRecord, Owing
  <2>2. /\ UNCHANGED <<pc, held, missed>>
        /\ starting \subseteq starting' /\ arrived \subseteq arrived'
        /\ pc[stop[s].task] # "none" => stop[s].task \in arrived'
        /\ \A i \in Ids : task'[i] # stop[s].task => task'[i] = task[i] /\ status'[i] = status[i]
    BY <2>1, Enqueued DEF Kinds
  <2>3. QED
    BY <2>1, <2>2 DEF WakeInv, OwedOrMissed, QueuedOf, Mine
<1>17. ASSUME NEW t \in Tasks, StartCall(t) PROVE WakeInv'
  <2>1. /\ \A b \in Tasks : b # t =>
              /\ pc'[b] = pc[b] /\ (b \in held' <=> b \in held)
              /\ (b \in missed' <=> b \in missed) /\ (b \in starting' <=> b \in starting)
        /\ t \in held' \/ t \in missed' \/ pc'[t] = "reclaim" \/ Coming(t)
        /\ pc'[t] \in {pc[t], "reclaim"}
        /\ UNCHANGED <<task, status, arrived>>
    BY <1>17, Started DEF StartCall
  <2>2. QED
    BY <2>1 DEF Coming, WakeInv, OwedOrMissed, QueuedOf, Mine
<1>18. ASSUME NEW t \in Tasks, ScanAccepted(t) PROVE WakeInv'
  <2>1. /\ \A b \in Tasks : b # t =>
              /\ pc'[b] = pc[b] /\ (b \in held' <=> b \in held)
              /\ (b \in missed' <=> b \in missed)
        /\ pc'[t] \in {pc[t], "reclaim"}
        /\ held \subseteq held' /\ (pc'[t] = pc[t] /\ pc[t] # "none" => missed \subseteq missed')
        /\ UNCHANGED <<task, status, arrived, starting>>
    BY <1>18, Started DEF ScanAccepted, Visit
  <2>2. QED
    BY <2>1 DEF WakeInv, OwedOrMissed, QueuedOf, Mine
<1>19. ASSUME NEW t \in Tasks, ScanInterrupted(t) PROVE WakeInv'
  <2>1. /\ \A b \in Tasks : b # t =>
              /\ pc'[b] = pc[b] /\ (b \in held' <=> b \in held)
              /\ (b \in missed' <=> b \in missed)
        /\ pc'[t] \in {pc[t], "reclaim"}
        /\ held \subseteq held' /\ (pc'[t] = pc[t] /\ pc[t] # "none" => missed \subseteq missed')
        /\ UNCHANGED <<task, status, arrived, starting>>
    BY <1>19, Started DEF ScanInterrupted, Visit
  <2>2. QED
    BY <2>1 DEF WakeInv, OwedOrMissed, QueuedOf, Mine
<1>20. ASSUME ResumePaused PROVE WakeInv'
  BY <1>20 DEF ResumePaused, WakeInv, OwedOrMissed, QueuedOf, Mine
<1>21. ASSUME DrainTimeout PROVE WakeInv'
  BY <1>21 DEF DrainTimeout, WakeInv, OwedOrMissed, QueuedOf, Mine
<1>22. ASSUME Kill PROVE WakeInv'
  BY <1>22 DEF Kill, Gone, WakeInv, OwedOrMissed, QueuedOf, Mine
<1>23. ASSUME Exit PROVE WakeInv'
  BY <1>23 DEF Exit, Gone, WakeInv, OwedOrMissed, QueuedOf, Mine
<1>24. CASE UNCHANGED <<task, status, held, wake, pc>>
  BY <1>24 DEF WakeInv, OwedOrMissed, QueuedOf, Mine
<1> HIDE DEF TypeOK, RestartInv, WakeInv
<1>25. QED
  BY <1>1, <1>2, <1>3, <1>4, <1>5, <1>6, <1>7, <1>8, <1>9, <1>10, <1>11, <1>12, <1>13,
     <1>14, <1>15, <1>16, <1>17, <1>18, <1>19, <1>20, <1>21, <1>22, <1>23, <1>24,
     ZenonT(40) DEF Next, Consumer, StopCall, Process, vars, store, consumer, bounds,
     wake, AcceptRow, AcceptFails, StopTask, StopLoad, StopCancel, StopMark,
     RestartNotify, Poll, Term, IdleSeen, GraceOver, StopsDone, Boot, NextScan,
     ShutdownStops

\* A finite set with one more element at the most is at most one larger.
LEMMA AtMostOneMore ==
  ASSUME NEW S, IsFiniteSet(S), NEW x, NEW U, U \subseteq S \cup {x}
  PROVE  IsFiniteSet(U) /\ Cardinality(U) <= Cardinality(S) + 1 /\ Cardinality(U) \in Nat
<1>1. /\ IsFiniteSet(S \cup {x}) /\ Cardinality(S) \in Nat
      /\ Cardinality(S \cup {x}) = IF x \in S THEN Cardinality(S) ELSE Cardinality(S) + 1
  BY FS_AddElement, FS_CardinalityType
<1>2. Cardinality(S \cup {x}) \in Nat /\ Cardinality(S \cup {x}) <= Cardinality(S) + 1
  BY <1>1
<1>3. IsFiniteSet(U) /\ Cardinality(U) <= Cardinality(S \cup {x})
  BY <1>1, FS_Subset
<1>4. Cardinality(U) \in Nat
  BY <1>3, FS_CardinalityType
<1>5. QED
  BY <1>1, <1>2, <1>3, <1>4

\* A stop that has nothing to write any more gives its room back.
LEMMA OwingShrinks ==
  ASSUME TypeOK, RoomInv, Owing' \subseteq Owing, UNCHANGED <<last, door>>
  PROVE  RoomInv'
<1>1. Cardinality(Owing') <= Cardinality(Owing) /\ Cardinality(Owing') \in Nat
  BY RoomForOne, FS_Subset, FS_CardinalityType
<1>2. QED
  BY <1>1, RoomForOne, RestartAssumption DEF RoomInv, TypeOK, TypeStore

\* Every promise was made when there was room for it.
LEMMA RoomStep == TypeOK /\ RestartInv /\ [Next]_vars => RoomInv'
<1> SUFFICES ASSUME TypeOK, RestartInv, [Next]_vars PROVE RoomInv'
  OBVIOUS
<1> USE RestartAssumption DEF TypeOK, TypeStore, TypeMemory, TypeConsumer, TypeStop,
        RestartInv
<1>1. ASSUME NEW t \in Tasks, AcceptRow(t) PROVE RoomInv'
  <2>1. last + Cardinality(door) + Cardinality({s \in Stoppers : stop[s].at # "no"}) < MaxMsg
    BY <1>1 DEF AcceptRow, Room
  <2>2. /\ IsFiniteSet(door') /\ Cardinality(door') \in Nat
        /\ Cardinality(door') <= Cardinality(door) + 1
    BY <1>1, AtMostOneMore DEF AcceptRow, RoomInv
  <2>3. Owing' = Owing /\ last' = last
    BY <1>1 DEF AcceptRow, Owing
  <2>4. QED
    BY <2>1, <2>2, <2>3, RoomForOne DEF RoomInv
<1>2. ASSUME NEW t \in Tasks, AcceptMessage(t) PROVE RoomInv'
  <2>1. IsFiniteSet(door') /\ Cardinality(door') = Cardinality(door) - 1
    BY <1>2, FS_RemoveElement DEF AcceptMessage, RoomInv
  <2>2. Owing' = Owing /\ last' = last + 1
    BY <1>2 DEF AcceptMessage, EnqueueFor, Owing
  <2>3. QED
    BY <2>1, <2>2, RoomForOne DEF RoomInv
<1>3. ASSUME NEW t \in Tasks, AcceptFails(t) PROVE RoomInv'
  <2>1. IsFiniteSet(door') /\ Cardinality(door') = Cardinality(door) - 1
    BY <1>3, FS_RemoveElement DEF AcceptFails, RoomInv
  <2>2. Owing' = Owing /\ last' = last
    BY <1>3 DEF AcceptFails, Owing
  <2>3. QED
    BY <2>1, <2>2, RoomForOne DEF RoomInv
<1>4. ASSUME NEW t \in Tasks, Observe(t) PROVE RoomInv'
  <2>1. last + Cardinality(door) + Cardinality({s \in Stoppers : stop[s].at # "no"}) < MaxMsg
    BY <1>4 DEF Observe, Room
  <2>2. Owing' = Owing /\ last' = last + 1 /\ door' = door
    BY <1>4 DEF Observe, EnqueueFor, Owing
  <2>3. QED
    BY <2>1, <2>2, RoomForOne DEF RoomInv
<1>5. ASSUME NEW t \in Tasks, StopTask(t) PROVE RoomInv'
  <2>1. last + Cardinality(door) + Cardinality({s \in Stoppers : stop[s].at # "no"}) < MaxMsg
    BY <1>5 DEF StopTask, Room
  <2>2. Owing' \subseteq Owing \cup {"user"} /\ last' = last /\ door' = door
    BY <1>5 DEF StopTask, StopRead, Owing
  <2>3. Cardinality(Owing') <= Cardinality(Owing) + 1 /\ Cardinality(Owing') \in Nat
    BY <2>2, RoomForOne, AtMostOneMore
  <2>4. QED
    BY <2>1, <2>2, <2>3, RoomForOne DEF RoomInv
<1>6. ASSUME NEW s \in Stoppers, StopLoad(s) PROVE RoomInv'
  <2>1. Owing' \subseteq Owing
    BY <1>6 DEF StopLoad, NoStop, Owing
  <2>2. QED
    BY <1>6, <2>1, OwingShrinks DEF StopLoad
<1>7. ASSUME NEW s \in Stoppers, StopCancel(s) PROVE RoomInv'
  <2>1. Owing' \subseteq Owing
    BY <1>7 DEF StopCancel, Owing
  <2>2. QED
    BY <1>7, <2>1, OwingShrinks DEF StopCancel
<1>8. ASSUME NEW s \in Stoppers, StopRecord(s) PROVE RoomInv'
  <2>1. Owing' = Owing \ {s} /\ s \in Owing /\ last' = last + 1 /\ door' = door
    BY <1>8 DEF StopRecord, EnqueueFor, Owing
  <2>2. Cardinality(Owing') = Cardinality(Owing) - 1
    BY <2>1, RoomForOne, FS_RemoveElement
  <2>3. QED
    BY <2>1, <2>2, RoomForOne DEF RoomInv
<1>9. ASSUME NEW s \in Stoppers, StopMark(s) PROVE RoomInv'
  <2>1. Owing' \subseteq Owing
    BY <1>9 DEF StopMark, NoStop, Owing
  <2>2. QED
    BY <1>9, <2>1, OwingShrinks DEF StopMark
<1>10. ASSUME Kill PROVE RoomInv'
  <2>1. Owing' = {} /\ door' = {} /\ last' = last
    BY <1>10 DEF Kill, Gone, NoStop, Owing, store
  <2>2. QED
    BY <2>1, FS_EmptySet DEF RoomInv
<1>11. ASSUME Exit PROVE RoomInv'
  <2>1. Owing' = {} /\ door' = {} /\ last' = last
    BY <1>11 DEF Exit, Gone, NoStop, Owing, store
  <2>2. QED
    BY <2>1, FS_EmptySet DEF RoomInv
<1>12. ASSUME NEW t \in Tasks, ShutdownStops(t) PROVE RoomInv'
  <2>1. last + Cardinality(door) + Cardinality({s \in Stoppers : stop[s].at # "no"}) < MaxMsg
    BY <1>12 DEF ShutdownStops, Room
  <2>2. Owing' \subseteq Owing \cup {"runtime"} /\ last' = last /\ door' = door
    BY <1>12 DEF ShutdownStops, StopRead, Owing
  <2>3. Cardinality(Owing') <= Cardinality(Owing) + 1 /\ Cardinality(Owing') \in Nat
    BY <2>2, RoomForOne, AtMostOneMore
  <2>4. QED
    BY <2>1, <2>2, <2>3, RoomForOne DEF RoomInv
<1>13. CASE UNCHANGED <<last, door, stop>>
  BY <1>13 DEF RoomInv, Owing
<1> HIDE DEF TypeOK, RestartInv, RoomInv
<1>14. QED
  BY <1>1, <1>2, <1>3, <1>4, <1>5, <1>6, <1>7, <1>8, <1>9, <1>10, <1>11, <1>12, <1>13,
     ZenonT(40) DEF Next, Consumer, StopCall, Process, vars, store, consumer, bounds,
     Reclaim, Claim, Idle, HoldCheck, Requeue, EndDrain, StartCall, Mark, Register,
     Conclude, Unwind, ClearReason, Leave, Finish, RestartNotify, DrainTimeout,
     ResumePaused, Poll, Term, IdleSeen, GraceOver, StopsDone, Boot, NextScan,
     ScanAccepted, ScanInterrupted, Visit

\* A stop under way keeps its target: a message this process ran does not go
\* back to the queue.
LEMMA StopStep == TypeOK /\ RestartInv /\ [Next]_vars => StopInv'
<1> SUFFICES ASSUME TypeOK, RestartInv, [Next]_vars PROVE StopInv'
  OBVIOUS
<1> USE RestartAssumption DEF TypeOK, TypeStore, TypeMemory, TypeConsumer, TypeStop,
        RestartInv, Stoppers
<1>1. ASSUME NEW t \in Tasks, Reclaim(t) PROVE StopInv'
  BY <1>1 DEF Reclaim, Goto, RunningOf, Mine, StopInv, StopKept, ConsumerInv, RowsInv,
     Held, Working, InRun, Leaving, NoStop
<1>2. ASSUME NEW t \in Tasks, Claim(t) PROVE StopInv'
  BY <1>2 DEF Claim, Goto, QueuedOf, Mine, StopInv, StopKept, ConsumerInv, RowsInv,
     Held, Working, InRun, Leaving, NoStop
<1>3. ASSUME NEW t \in Tasks, Idle(t) PROVE StopInv'
  BY <1>3 DEF Idle, Goto, QueuedOf, Mine, StopInv, StopKept, ConsumerInv, RowsInv,
     Held, Working, InRun, Leaving, NoStop
<1>4. ASSUME NEW t \in Tasks, HoldCheck(t) PROVE StopInv'
  BY <1>4 DEF HoldCheck, Goto, StopInv, StopKept, ConsumerInv, RowsInv, Held,
     Working, InRun, Leaving, NoStop
<1>5. ASSUME NEW t \in Tasks, Mark(t) PROVE StopInv'
  BY <1>5 DEF Mark, Goto, StopInv, StopKept, ConsumerInv, RowsInv, Held, Working,
     InRun, Leaving, NoStop
<1>6. ASSUME NEW t \in Tasks, Register(t) PROVE StopInv'
  BY <1>6 DEF Register, Goto, StopInv, StopKept, ConsumerInv, RowsInv, Held, Working,
     InRun, Leaving, NoStop
<1>7. ASSUME NEW t \in Tasks, Conclude(t) PROVE StopInv'
  BY <1>7 DEF Conclude, Goto, StopInv, StopKept, ConsumerInv, RowsInv, Held, Working,
     InRun, Leaving, NoStop
<1>8. ASSUME NEW t \in Tasks, Unwind(t) PROVE StopInv'
  BY <1>8 DEF Unwind, Blamed, Goto, StopInv, StopKept, ConsumerInv, RowsInv, Held,
     Working, InRun, Leaving, NoStop
<1>9. ASSUME NEW t \in Tasks, ClearReason(t) PROVE StopInv'
  BY <1>9 DEF ClearReason, Goto, StopInv, StopKept, ConsumerInv, RowsInv, Held,
     Working, InRun, Leaving, NoStop
<1>10. ASSUME NEW t \in Tasks, Leave(t) PROVE StopInv'
  BY <1>10 DEF Leave, Left, Goto, StopInv, StopKept, ConsumerInv, RowsInv, Held,
     Working, InRun, Leaving, NoStop
<1>11. ASSUME NEW t \in Tasks, Finish(t) PROVE StopInv'
  BY <1>11 DEF Finish, Goto, StopInv, StopKept, ConsumerInv, RowsInv, Held, Working,
     InRun, Leaving, NoStop
<1>12. ASSUME NEW t \in Tasks, AcceptMessage(t) PROVE StopInv'
  <2>1. last < MaxMsg /\ EnqueueFor(t, "instruction")
    BY <1>12, RoomForOne DEF AcceptMessage
  <2>2. \A b \in Tasks : pc[b] # "none" => pc'[b] = pc[b]
    BY <2>1, Enqueued DEF Kinds
  <2>3. \A i \in Ids : task[i] \in Tasks => status'[i] = status[i] /\ task'[i] = task[i]
    BY <2>1, Enqueued, RestartAssumption DEF Kinds
  <2>4. UNCHANGED <<stop, phase, cur>>
    BY <1>12 DEF AcceptMessage
  <2>5. QED
    BY <2>2, <2>3, <2>4 DEF StopInv, StopKept, Held, Working, InRun
<1>13. ASSUME NEW t \in Tasks, Observe(t) PROVE StopInv'
  <2>1. last < MaxMsg /\ EnqueueFor(t, "observation")
    BY <1>13, RoomForOne DEF Observe
  <2>2. \A b \in Tasks : pc[b] # "none" => pc'[b] = pc[b]
    BY <2>1, Enqueued DEF Kinds
  <2>3. \A i \in Ids : task[i] \in Tasks => status'[i] = status[i] /\ task'[i] = task[i]
    BY <2>1, Enqueued, RestartAssumption DEF Kinds
  <2>4. UNCHANGED <<stop, phase, cur>>
    BY <1>13 DEF Observe
  <2>5. QED
    BY <2>2, <2>3, <2>4 DEF StopInv, StopKept, Held, Working, InRun
<1>14. ASSUME NEW t \in Tasks, StopTask(t) PROVE StopInv'
  BY <1>14 DEF StopTask, StopRead, Serving, StopInv, StopKept, ConsumerInv, RowsInv,
     Held, Working, InRun, Leaving, NoStop
<1>15. ASSUME NEW s \in Stoppers, StopLoad(s) PROVE StopInv'
  <2>1. /\ stop[s].at = "load" /\ stop[s].task \in Tasks
        /\ UNCHANGED <<phase, task, status, pc, cur>>
    BY <1>15 DEF StopLoad
  <2>2. CASE inFlight[stop[s].task] = 0
    BY <1>15, <2>1, <2>2 DEF StopLoad, StopInv, StopKept, NoStop, Held
  <2>3. CASE inFlight[stop[s].task] # 0
    <3>1. /\ stop'[s].at = "cancel" /\ stop'[s].task = stop[s].task
          /\ stop'[s].target = inFlight[stop[s].task]
          /\ \A r \in Stoppers : r # s => stop'[r] = stop[r]
      BY <1>15, <2>3 DEF StopLoad
    <3>2. /\ pc[stop[s].task] \in {"run", "clear", "leave"}
          /\ inFlight[stop[s].task] = cur[stop[s].task]
      BY <2>1, <2>3 DEF ConsumerInv
    <3>3. /\ cur[stop[s].task] \in Ids /\ status[cur[stop[s].task]] = "running"
          /\ task[cur[stop[s].task]] = stop[s].task
      BY <2>1, <3>2 DEF ConsumerInv, Working, InRun
    <3>4. QED
      BY <2>1, <3>1, <3>2, <3>3 DEF StopInv, StopKept, Held, Working, InRun
  <2>4. QED
    BY <2>2, <2>3
<1>16. ASSUME NEW s \in Stoppers, StopCancel(s) PROVE StopInv'
  <2>1. /\ stop[s].at = "cancel" /\ stop' = [stop EXCEPT ![s].at = "record"]
        /\ UNCHANGED <<phase, task, status, pc, cur>>
    BY <1>16 DEF StopCancel, store, consumer
  <2>2. /\ stop'[s].at = "record" /\ stop'[s].task = stop[s].task
        /\ stop'[s].target = stop[s].target
        /\ \A r \in Stoppers : r # s => stop'[r] = stop[r]
    BY <2>1
  <2>3. StopKept(s)'
    BY <2>1, <2>2 DEF StopInv, StopKept, Held
  <2>4. ASSUME NEW r \in Stoppers, r # s PROVE StopKept(r)'
    BY <2>1, <2>2, <2>4 DEF StopInv, StopKept, Held
  <2>5. QED
    BY <2>3, <2>4 DEF StopInv
<1>17. ASSUME NEW s \in Stoppers, StopRecord(s) PROVE StopInv'
  <2>1. last < MaxMsg /\ EnqueueFor(stop[s].task, "stop") /\ stop[s].task \in Tasks
    BY <1>17, RoomForOne DEF StopRecord, Owing
  <2>2. \A b \in Tasks : pc[b] # "none" => pc'[b] = pc[b]
    BY <2>1, Enqueued DEF Kinds
  <2>3. \A i \in Ids : task[i] \in Tasks => status'[i] = status[i] /\ task'[i] = task[i]
    BY <2>1, Enqueued, RestartAssumption DEF Kinds
  <2>4. /\ UNCHANGED <<phase, cur>> /\ \A r \in Stoppers : r # s => stop'[r] = stop[r]
        /\ stop[s].at = "record" /\ stop'[s].at = "mark" /\ stop'[s].task = stop[s].task
    BY <1>17 DEF StopRecord
  <2>5. \E i, j \in Ids : i # j /\ task'[i] = stop[s].task /\ task'[j] = stop[s].task
    <3>1. stop[s].target \in Ids /\ task[stop[s].target] = stop[s].task
      BY <2>4 DEF StopInv, StopKept
    <3>2. last + 1 \in Ids /\ task'[last + 1] = stop[s].task /\ task[last + 1] = NoTask
      BY <2>1, Enqueued DEF Kinds
    <3>3. stop[s].target # last + 1 /\ task'[stop[s].target] = stop[s].task
      BY <2>1, <2>3, <3>1, <3>2, RestartAssumption
    <3>4. QED
      BY <3>1, <3>2, <3>3
  <2>6. ASSUME NEW r \in Stoppers, r # s PROVE StopKept(r)'
    <3>1. StopKept(r) /\ stop'[r] = stop[r] /\ (stop[r].at # "no" => stop[r].task \in Tasks)
      BY <2>4, <2>6 DEF StopInv
    <3>2. CASE stop[r].at \in {"cancel", "record"}
      BY <2>2, <2>3, <2>4, <3>1, <3>2 DEF StopKept, Held, Working, InRun
    <3>3. CASE stop[r].at \notin {"cancel", "record"}
      BY <2>3, <2>4, <3>1, <3>3 DEF StopKept
    <3>4. QED
      BY <3>2, <3>3
  <2>7. StopKept(s)'
    BY <2>4, <2>5 DEF StopInv, StopKept
  <2>8. QED
    BY <2>6, <2>7 DEF StopInv
<1>18. ASSUME NEW s \in Stoppers, StopMark(s) PROVE StopInv'
  BY <1>18 DEF StopMark, Blamed, StopInv, StopKept, ConsumerInv, RowsInv, Held,
     Working, InRun, Leaving, NoStop
<1>19. ASSUME DrainTimeout PROVE StopInv'
  BY <1>19 DEF DrainTimeout, StopInv, StopKept, ConsumerInv, RowsInv, Held, Working,
     InRun, Leaving, NoStop
<1>20. ASSUME Term PROVE StopInv'
  BY <1>20 DEF Term, StopInv, StopKept, ConsumerInv, RowsInv, Held, Working, InRun,
     Leaving, NoStop
<1>21. ASSUME Kill PROVE StopInv'
  BY <1>21 DEF Kill, Gone, StopInv, StopKept, ConsumerInv, RowsInv, Held, Working,
     InRun, Leaving, NoStop
<1>22. ASSUME IdleSeen PROVE StopInv'
  BY <1>22 DEF IdleSeen, StopInv, StopKept, ConsumerInv, RowsInv, Held, Working,
     InRun, Leaving, NoStop
<1>23. ASSUME GraceOver PROVE StopInv'
  BY <1>23 DEF GraceOver, StopInv, StopKept, ConsumerInv, RowsInv, Held, Working,
     InRun, Leaving, NoStop
<1>24. ASSUME StopsDone PROVE StopInv'
  BY <1>24 DEF StopsDone, StopInv, StopKept, ConsumerInv, RowsInv, Held, Working,
     InRun, Leaving, NoStop
<1>25. ASSUME Exit PROVE StopInv'
  BY <1>25 DEF Exit, Gone, StopInv, StopKept, ConsumerInv, RowsInv, Held, Working,
     InRun, Leaving, NoStop
<1>26. ASSUME Boot PROVE StopInv'
  BY <1>26 DEF Boot, StopInv, StopKept, ConsumerInv, RowsInv, Held, Working, InRun,
     Leaving, NoStop
<1>27. ASSUME NextScan PROVE StopInv'
  BY <1>27 DEF NextScan, ListsOpen, ResumableAfterCut, Open, StopInv, StopKept,
     ConsumerInv, RowsInv, Held, Working, InRun, Leaving, NoStop
<1>28. ASSUME NEW t \in Tasks, ShutdownStops(t) PROVE StopInv'
  BY <1>28 DEF ShutdownStops, StopRead, StopInv, StopKept, ConsumerInv, RowsInv, Held,
     Working, InRun, Leaving, NoStop
<1>29. ASSUME NEW t \in Tasks, ScanAccepted(t) PROVE StopInv'
  <2>1. /\ \A b \in Tasks : pc'[b] # pc[b] => pc[b] = "none" /\ pc'[b] = "reclaim"
        /\ UNCHANGED <<status, task, cur, stop, phase>>
    BY <1>29, Started DEF ScanAccepted, Visit
  <2>2. QED
    BY <2>1 DEF StopInv, StopKept, Held, Working, InRun
<1>30. ASSUME NEW t \in Tasks, ScanInterrupted(t) PROVE StopInv'
  <2>1. /\ \A b \in Tasks : pc'[b] # pc[b] => pc[b] = "none" /\ pc'[b] = "reclaim"
        /\ UNCHANGED <<status, task, cur, stop, phase>>
    BY <1>30, Started DEF ScanInterrupted, Visit
  <2>2. QED
    BY <2>1 DEF StopInv, StopKept, Held, Working, InRun
<1>31. ASSUME NEW t \in Tasks, Requeue(t) PROVE StopInv'
  BY <1>31 DEF Requeue, Goto, StopInv, StopKept, ConsumerInv, RowsInv, Held, Working,
     InRun, Leaving, NoStop
<1>32. ASSUME NEW t \in Tasks, EndDrain(t) PROVE StopInv'
  BY <1>32 DEF EndDrain, Goto, StopInv, StopKept, Held, Working, InRun
<1>33. ASSUME NEW t \in Tasks, StartCall(t) PROVE StopInv'
  <2>1. /\ \A b \in Tasks : pc'[b] # pc[b] => pc[b] = "none" /\ pc'[b] = "reclaim"
        /\ UNCHANGED <<status, task, cur, stop, phase>>
    BY <1>33, Started DEF StartCall
  <2>2. QED
    BY <2>1 DEF StopInv, StopKept, Held, Working, InRun
<1>34. CASE UNCHANGED <<stop, phase, task, status, pc, cur>>
  BY <1>34 DEF StopInv, StopKept, ConsumerInv, RowsInv, Held, Working, InRun, Leaving,
     NoStop
<1> HIDE DEF TypeOK, RestartInv, StopInv
<1>35. QED
  BY <1>1, <1>2, <1>3, <1>4, <1>5, <1>6, <1>7, <1>8, <1>9, <1>10, <1>11, <1>12, <1>13,
     <1>14, <1>15, <1>16, <1>17, <1>18, <1>19, <1>20, <1>21, <1>22, <1>23, <1>24,
     <1>25, <1>26, <1>27, <1>28, <1>29, <1>30, <1>34, <1>31, <1>32, <1>33, ZenonT(40) DEF Next, Consumer,
     StopCall, Process, vars, store, consumer, bounds, ResumePaused, AcceptRow, AcceptFails,
     RestartNotify, Poll

\* A message that is enqueued is not the first one of a task that was cut.
LEMMA CutEnqueued ==
  ASSUME TypeOK, RestartInv, NEW t \in Tasks, NEW k \in Kinds, last < MaxMsg, EnqueueFor(t, k),
         UNCHANGED <<phase, terms, kills, reason, row, by>>,
         \A r \in Stoppers :
           stop'[r] = stop[r] \/ (stop[r].at = "record" /\ stop[r].task = t)
  PROVE  /\ \A b \in Tasks : reason'[b] = "runtime" => \E i \in Ids : task'[i] = b
         /\ \A i \in Ids : Sole(i)' /\ task'[i] \in Tasks =>
              /\ reason'[task'[i]] = "runtime" =>
                   stop'["runtime"].at = "record" /\ stop'["runtime"].target = i
              /\ CutByRestart(task[i])' =>
                   \/ stop'["runtime"].at = "record" /\ stop'["runtime"].target = i
                   \/ terms' > 0 /\ kills' > 0 /\ (phase' \in Leaving => terms' > 1)
<1> USE DEF RestartInv
<1>1. \A i \in Ids : task[i] \in Tasks => task'[i] = task[i]
  BY Enqueued, RestartAssumption
<1>2. \A b \in Tasks : reason'[b] = "runtime" => \E i \in Ids : task'[i] = b
  BY <1>1 DEF CutInv
<1>3. ASSUME NEW i \in Ids, Sole(i)', task'[i] \in Tasks
      PROVE  /\ reason'[task'[i]] = "runtime" =>
                  stop'["runtime"].at = "record" /\ stop'["runtime"].target = i
             /\ CutByRestart(task[i])' =>
                  \/ stop'["runtime"].at = "record" /\ stop'["runtime"].target = i
                  \/ terms' > 0 /\ kills' > 0 /\ (phase' \in Leaving => terms' > 1)
  <2>1. CASE i = last + 1
    <3>1. \A j \in Ids : task[j] # task'[i]
      BY <1>3, <2>1, Enqueued
    <3>2. reason[task'[i]] # "runtime" /\ row[task'[i]] \in {"none", "pending"}
      BY <1>3, <3>1 DEF CutInv, FirstInv
    <3>3. QED
      BY <3>2 DEF CutByRestart
  <2>2. CASE i # last + 1
    <3>1. task'[i] = task[i] /\ Sole(i) /\ task[i] # t
      BY <1>3, <2>2, Enqueued
    <3>2. stop["runtime"].at = "record" /\ stop["runtime"].target = i =>
            stop'["runtime"] = stop["runtime"]
      BY <3>1 DEF StopInv, StopKept, Stoppers
    <3>3. QED
      BY <1>3, <3>1, <3>2 DEF CutInv, CutByRestart
  <2>3. QED
    BY <2>1, <2>2
<1>4. QED
  BY <1>2, <1>3

\* A task the runtime stopped has the record of that stop, or the process was
\* killed before it was written.
LEMMA CutStep == TypeOK /\ RestartInv /\ [Next]_vars => CutInv'
<1> SUFFICES ASSUME TypeOK, RestartInv, [Next]_vars PROVE CutInv'
  OBVIOUS
<1> USE RestartAssumption DEF TypeOK, TypeStore, TypeMemory, TypeConsumer, TypeStop,
        RestartInv, Stoppers
<1>1. ASSUME NEW t \in Tasks, Mark(t) PROVE CutInv'
  BY <1>1 DEF Mark, Goto, CutInv, StopInv, StopKept, CutByRestart, Leaving, NoStop,
     Sole
<1>2. ASSUME NEW t \in Tasks, Conclude(t) PROVE CutInv'
  BY <1>2 DEF Conclude, Goto, CutInv, StopInv, StopKept, CutByRestart, Leaving,
     NoStop, Sole
<1>3. ASSUME NEW t \in Tasks, Unwind(t) PROVE CutInv'
  BY <1>3 DEF Unwind, Blamed, Goto, CutInv, StopInv, StopKept, CutByRestart, Leaving,
     NoStop, Sole
<1>4. ASSUME NEW t \in Tasks, ClearReason(t) PROVE CutInv'
  BY <1>4 DEF ClearReason, Goto, CutInv, StopInv, StopKept, CutByRestart, Leaving,
     NoStop, Sole
<1>5. ASSUME NEW t \in Tasks, AcceptRow(t) PROVE CutInv'
  BY <1>5 DEF AcceptRow, Serving, CutInv, StopInv, StopKept, CutByRestart, Leaving,
     NoStop, Sole
<1>6. ASSUME NEW t \in Tasks, AcceptMessage(t) PROVE CutInv'
  <2>1. last < MaxMsg /\ EnqueueFor(t, "instruction")
    BY <1>6, RoomForOne DEF AcceptMessage
  <2>2. /\ UNCHANGED <<phase, terms, kills, reason, row, by>>
        /\ \A r \in Stoppers :
             stop'[r] = stop[r] \/ (stop[r].at = "record" /\ stop[r].task = t)
        /\ \A r \in Stoppers : stop'[r].at # "no" => stop[r].at # "no"
    BY <1>6 DEF AcceptMessage
  <2>3. (\A i \in Ids : Sole(i) /\ task[i] \in Tasks =>
           /\ reason[task[i]] = "runtime" =>
                stop["runtime"].at = "record" /\ stop["runtime"].target = i
           /\ CutByRestart(task[i]) =>
                \/ stop["runtime"].at = "record" /\ stop["runtime"].target = i
                \/ terms > 0 /\ kills > 0 /\ (phase \in Leaving => terms > 1))'
    BY <2>1, <2>2, CutEnqueued DEF Kinds
  <2>4. (\A b \in Tasks : reason[b] = "runtime" => \E i \in Ids : task[i] = b)'
    BY <2>1, <2>2, CutEnqueued DEF Kinds
  <2>5. QED
    BY <2>2, <2>3, <2>4 DEF CutInv
<1>7. ASSUME NEW t \in Tasks, Observe(t) PROVE CutInv'
  <2>1. last < MaxMsg /\ EnqueueFor(t, "observation")
    BY <1>7, RoomForOne DEF Observe
  <2>2. /\ UNCHANGED <<phase, terms, kills, reason, row, by>>
        /\ \A r \in Stoppers :
             stop'[r] = stop[r] \/ (stop[r].at = "record" /\ stop[r].task = t)
        /\ \A r \in Stoppers : stop'[r].at # "no" => stop[r].at # "no"
    BY <1>7 DEF Observe
  <2>3. (\A i \in Ids : Sole(i) /\ task[i] \in Tasks =>
           /\ reason[task[i]] = "runtime" =>
                stop["runtime"].at = "record" /\ stop["runtime"].target = i
           /\ CutByRestart(task[i]) =>
                \/ stop["runtime"].at = "record" /\ stop["runtime"].target = i
                \/ terms > 0 /\ kills > 0 /\ (phase \in Leaving => terms > 1))'
    BY <2>1, <2>2, CutEnqueued DEF Kinds
  <2>4. (\A b \in Tasks : reason[b] = "runtime" => \E i \in Ids : task[i] = b)'
    BY <2>1, <2>2, CutEnqueued DEF Kinds
  <2>5. QED
    BY <2>2, <2>3, <2>4 DEF CutInv
<1>8. ASSUME NEW t \in Tasks, StopTask(t) PROVE CutInv'
  BY <1>8 DEF StopTask, StopRead, Serving, CutInv, StopInv, StopKept, CutByRestart,
     Leaving, NoStop, Sole
<1>9. ASSUME NEW s \in Stoppers, StopLoad(s) PROVE CutInv'
  BY <1>9 DEF StopLoad, CutInv, StopInv, StopKept, CutByRestart, Leaving, NoStop, Sole
<1>10. ASSUME NEW s \in Stoppers, StopCancel(s) PROVE CutInv'
  BY <1>10 DEF StopCancel, CutInv, StopInv, StopKept, CutByRestart, Leaving, NoStop,
     Sole
<1>11. ASSUME NEW s \in Stoppers, StopRecord(s) PROVE CutInv'
  <2>1. last < MaxMsg /\ EnqueueFor(stop[s].task, "stop") /\ stop[s].task \in Tasks
    BY <1>11, RoomForOne DEF StopRecord, Owing
  <2>2. /\ UNCHANGED <<phase, terms, kills, reason, row, by>>
        /\ \A r \in Stoppers :
             stop'[r] = stop[r] \/ (stop[r].at = "record" /\ stop[r].task = stop[s].task)
        /\ \A r \in Stoppers : stop'[r].at # "no" => stop[r].at # "no"
    BY <1>11 DEF StopRecord
  <2>3. (\A i \in Ids : Sole(i) /\ task[i] \in Tasks =>
           /\ reason[task[i]] = "runtime" =>
                stop["runtime"].at = "record" /\ stop["runtime"].target = i
           /\ CutByRestart(task[i]) =>
                \/ stop["runtime"].at = "record" /\ stop["runtime"].target = i
                \/ terms > 0 /\ kills > 0 /\ (phase \in Leaving => terms > 1))'
    BY <2>1, <2>2, CutEnqueued DEF Kinds
  <2>4. (\A b \in Tasks : reason[b] = "runtime" => \E i \in Ids : task[i] = b)'
    BY <2>1, <2>2, CutEnqueued DEF Kinds
  <2>5. QED
    BY <2>2, <2>3, <2>4 DEF CutInv
<1>12. ASSUME NEW s \in Stoppers, StopMark(s) PROVE CutInv'
  BY <1>12 DEF StopMark, Blamed, CutInv, StopInv, StopKept, CutByRestart, Leaving,
     NoStop, Sole
<1>13. ASSUME Term PROVE CutInv'
  BY <1>13 DEF Term, CutInv, StopInv, StopKept, CutByRestart, Leaving, NoStop, Sole
<1>14. ASSUME Kill PROVE CutInv'
  BY <1>14 DEF Kill, Gone, CutInv, StopInv, StopKept, CutByRestart, Leaving, NoStop,
     Sole
<1>15. ASSUME IdleSeen PROVE CutInv'
  BY <1>15 DEF IdleSeen, CutInv, StopInv, StopKept, CutByRestart, Leaving, NoStop,
     Sole
<1>16. ASSUME GraceOver PROVE CutInv'
  BY <1>16 DEF GraceOver, CutInv, StopInv, StopKept, CutByRestart, Leaving, NoStop,
     Sole
<1>17. ASSUME StopsDone PROVE CutInv'
  BY <1>17 DEF StopsDone, CutInv, StopInv, StopKept, CutByRestart, Leaving, NoStop,
     Sole
<1>18. ASSUME Exit PROVE CutInv'
  BY <1>18 DEF Exit, Gone, CutInv, StopInv, StopKept, CutByRestart, Leaving, NoStop,
     Sole
<1>19. ASSUME Boot PROVE CutInv'
  BY <1>19 DEF Boot, CutInv, StopInv, StopKept, CutByRestart, Leaving, NoStop, Sole
<1>20. ASSUME NextScan PROVE CutInv'
  BY <1>20 DEF NextScan, ListsOpen, ResumableAfterCut, Open, CutInv, StopInv,
     StopKept, CutByRestart, Leaving, NoStop, Sole
<1>21. ASSUME NEW t \in Tasks, ShutdownStops(t) PROVE CutInv'
  BY <1>21 DEF ShutdownStops, StopRead, CutInv, StopInv, StopKept, CutByRestart,
     Leaving, NoStop, Sole
<1>22. CASE UNCHANGED <<phase, terms, kills, stop, task, reason, row, by>>
  BY <1>22 DEF CutInv, StopInv, StopKept, CutByRestart, Leaving, NoStop, Sole
<1> HIDE DEF TypeOK, RestartInv, CutInv
<1>23. QED
  BY <1>1, <1>2, <1>3, <1>4, <1>5, <1>6, <1>7, <1>8, <1>9, <1>10, <1>11, <1>12, <1>13,
     <1>14, <1>15, <1>16, <1>17, <1>18, <1>19, <1>20, <1>21, <1>22, ZenonT(40) DEF
     Next, Consumer, StopCall, Process, vars, store, consumer, bounds, Reclaim, Claim,
     Idle, HoldCheck, Requeue, EndDrain, StartCall, Register, Leave, Finish, AcceptFails, RestartNotify,
     DrainTimeout, ResumePaused, Poll, ScanAccepted, ScanInterrupted, Visit

\* A message that is enqueued is attended at once; another task's is not
\* disturbed.
LEMMA FirstEnqueued ==
  ASSUME TypeOK, RestartInv, NEW t \in Tasks, NEW k \in Kinds, last < MaxMsg, EnqueueFor(t, k),
         UNCHANGED <<phase, todo, terms, kills, row, by, cur>>,
         door' \subseteq door, phase # "down",
         row[t] # "none" \/ \E i \in Ids : task[i] = t
  PROVE  FirstInv'
<1> USE DEF RestartInv
<1>1. \A i \in Ids : task[i] \in Tasks => task'[i] = task[i]
  BY Enqueued, RestartAssumption
<1>2. \A b \in Tasks : (\A i \in Ids : task'[i] # b) => row'[b] \in {"none", "pending"}
  BY <1>1 DEF FirstInv
<1>3. ASSUME NEW i \in Ids, Sole(i)', task'[i] \in Tasks
      PROVE  FirstFound(i)'
  <2>1. CASE i = last + 1
    <3>1. task'[i] = t /\ status'[i] = "queued" /\ t \in starting'
      BY <2>1, Enqueued
    <3>2. \A j \in Ids : task[j] # t
      BY <1>3, <2>1, Enqueued
    <3>3. row[t] = "pending"
      BY <3>2 DEF FirstInv
    <3>4. QED
      BY <3>1, <3>3 DEF FirstFound, Findable, Open, Attended, Coming
  <2>2. CASE i # last + 1
    <3>1. task'[i] = task[i] /\ Sole(i) /\ task[i] # t /\ status'[i] = status[i]
      BY <1>3, <2>2, Enqueued
    <3>2. /\ UNCHANGED <<pc, held, missed>>
          /\ task[i] \in starting' <=> task[i] \in starting
          /\ task[i] \in arrived' <=> task[i] \in arrived
      BY <1>3, <3>1, Enqueued
    <3>3. FirstFound(i)
      BY <1>3, <3>1 DEF FirstInv
    <3>4. QED
      BY <3>1, <3>2, <3>3
         DEF FirstFound, Findable, CutByRestart, Open, CutsHealed, Attended, Coming, Held
  <2>3. QED
    BY <2>1, <2>2
<1>4. QED
  BY <1>2, <1>3 DEF FirstInv

\* The first instruction of a task can be found by one of the two scans,
\* whenever the process ends.
LEMMA FirstStep == TypeOK /\ RestartInv /\ [Next]_vars => FirstInv'
<1> SUFFICES ASSUME TypeOK, RestartInv, [Next]_vars PROVE FirstInv'
  OBVIOUS
<1> USE RestartAssumption DEF TypeOK, TypeStore, TypeMemory, TypeConsumer, TypeStop,
        RestartInv, wake
<1>1. ASSUME NEW t \in Tasks, Reclaim(t) PROVE FirstInv'
  <2>1. /\ pc[t] = "reclaim" /\ pc'[t] = "claim" /\ phase # "down"
        /\ \A b \in Tasks : b # t => pc'[b] = pc[b]
        /\ UNCHANGED <<task, row, by, held, wake, cur, terms, kills, phase, todo, door>>
    BY <1>1 DEF Reclaim, Goto, Alive
  <2>2. /\ \A i \in Ids : task[i] # t => status'[i] = status[i]
        /\ \A i \in Ids : status'[i] # status[i] =>
             status[i] = "running" /\ status'[i] = "queued" /\ t \notin reclaimed
    BY <1>1 DEF Reclaim, RunningOf, Mine
  <2>3. ASSUME NEW i \in Ids, Sole(i), task[i] \in Tasks PROVE FirstFound(i)'
    <3>1. FirstFound(i)
      BY <2>3 DEF FirstInv
    <3>2. CASE task[i] # t
      BY <2>1, <2>2, <2>3, <3>1, <3>2
         DEF FirstFound, Findable, CutByRestart, Open, CutsHealed, Attended, Coming, Held
    <3>3. CASE task[i] = t
      <4>1. ~Held(i) /\ ~Held(i)' /\ Attended(t)'
        BY <2>1, <3>3 DEF Held, Attended, Coming, Working, InRun
      <4>2. status'[i] = "queued" => Findable(t)
        BY <2>1, <2>2, <3>1, <3>3, <4>1 DEF FirstFound, Attended, Coming
      <4>3. status'[i] = "queued" /\ CutsHealed /\ phase = "booting" => Open(t)
        BY <2>1, <2>2, <3>1, <3>3, <4>1 DEF FirstFound, Attended, Coming
      <4>4. status'[i] # "running" \/ (Findable(t) /\ phase # "booting")
        BY <2>1, <2>2, <3>1, <3>3, <4>1 DEF FirstFound, Attended, Coming
      <4>5. QED
        BY <2>1, <3>3, <4>1, <4>2, <4>3, <4>4
           DEF FirstFound, Findable, CutByRestart, Open, CutsHealed
    <3>4. QED
      BY <3>2, <3>3
  <2>4. QED
    BY <2>1, <2>3 DEF FirstInv, Sole
<1>2. ASSUME NEW t \in Tasks, Claim(t) PROVE FirstInv'
  BY <1>2 DEF Claim, Goto, QueuedOf, Mine, FirstInv, FirstFound, Findable,
     ConsumerInv, OrphanInv, CutInv, CutByRestart, Open, CutsHealed, Attended, Coming, Held,
     Working, InRun, Leaving, Sole
<1>3. ASSUME NEW t \in Tasks, Idle(t) PROVE FirstInv'
  BY <1>3 DEF Idle, Goto, QueuedOf, Mine, FirstInv, FirstFound, Findable, ConsumerInv,
     OrphanInv, CutInv, CutByRestart, Open, CutsHealed, Attended, Coming, Held, Working,
     InRun, Leaving, Sole
<1>4. ASSUME NEW t \in Tasks, HoldCheck(t) PROVE FirstInv'
  <2>1. /\ pc[t] = "hold" /\ pc'[t] \in {"mark", "requeue"}
        /\ pc'[t] = "requeue" => t \in held'
        /\ held \subseteq held' /\ \A b \in Tasks : b # t => pc'[b] = pc[b] /\ (b \in held' <=> b \in held)
        /\ UNCHANGED <<task, row, by, status, cur, wake, terms, kills, phase, todo, door>>
    BY <1>4 DEF HoldCheck, Goto, HoldBack
  <2>2. ASSUME NEW i \in Ids, Sole(i), task[i] \in Tasks PROVE FirstFound(i)'
    <3>1. FirstFound(i)
      BY <2>2 DEF FirstInv
    <3>2. CASE task[i] # t
      BY <2>1, <2>2, <3>1, <3>2 DEF FirstFound, Findable, CutByRestart, Open,
         CutsHealed, Attended, Coming, Held
    <3>3. CASE task[i] = t
      <4>1. (Held(i)' <=> Held(i)) /\ Attended(t) /\ Attended(t)'
        BY <2>1, <3>3 DEF Held, Attended, Coming, Working, InRun
      <4>2. QED
        BY <2>1, <3>1, <3>3, <4>1 DEF FirstFound, Findable, CutByRestart, Open, CutsHealed
    <3>4. QED
      BY <3>2, <3>3
  <2>3. QED
    BY <2>1, <2>2 DEF FirstInv, Sole
<1>5. ASSUME NEW t \in Tasks, Requeue(t) PROVE FirstInv'
  <2>1. /\ pc[t] = "requeue" /\ pc'[t] = "end" /\ cur'[t] = 0
        /\ cur[t] \in Ids /\ status[cur[t]] = "running" /\ task[cur[t]] = t
        /\ \A b \in Tasks : b # t => pc'[b] = pc[b] /\ cur'[b] = cur[b]
        /\ OwedOrMissed(t) /\ phase \notin {"down", "booting"}
        /\ UNCHANGED <<task, row, by, held, wake, terms, kills, phase, todo, door>>
        /\ status' = [status EXCEPT ![cur[t]] = "queued"]
    BY <1>5 DEF Requeue, Goto, ConsumerInv, Working, DrainInv, WakeInv, Leaving
  <2>2. ASSUME NEW i \in Ids, Sole(i), task[i] \in Tasks PROVE FirstFound(i)'
    <3>1. FirstFound(i)
      BY <2>2 DEF FirstInv
    <3>2. CASE i = cur[t]
      <4>1. Findable(t) /\ status'[i] = "queued" /\ ~Held(i)' /\ task'[i] = t
        BY <2>1, <3>1, <3>2 DEF FirstFound, Held, Working, InRun
      <4>2. t \in held' \cup starting' \cup missed'
        BY <2>1 DEF OwedOrMissed, wake
      <4>3. QED
        BY <2>1, <4>1, <4>2 DEF FirstFound, Findable, CutByRestart, Open, Attended
    <3>3. CASE i # cur[t]
      <4>1. task[i] # t /\ status'[i] = status[i]
        BY <2>1, <2>2, <3>3 DEF Sole
      <4>2. QED
        BY <2>1, <2>2, <3>1, <4>1
           DEF FirstFound, Findable, CutByRestart, Open, CutsHealed, Attended, Coming, Held
    <3>4. QED
      BY <3>2, <3>3
  <2>3. QED
    BY <2>1, <2>2 DEF FirstInv, Sole
<1>6. ASSUME NEW t \in Tasks, EndDrain(t) PROVE FirstInv'
  <2>1. /\ pc[t] = "end" /\ pc'[t] = "none" /\ phase # "down"
        /\ \A b \in Tasks : b # t => /\ pc'[b] = pc[b] /\ (b \in arrived' <=> b \in arrived)
                                    /\ (b \in starting' <=> b \in starting)
        /\ t \in starting' <=> t \in starting \/ t \in arrived
        /\ UNCHANGED <<task, row, by, status, held, missed, cur, terms, kills, phase, todo, door>>
    BY <1>6 DEF EndDrain, Goto, Alive
  <2>2. ASSUME NEW i \in Ids, Sole(i), task[i] \in Tasks PROVE FirstFound(i)'
    <3>1. FirstFound(i)
      BY <2>2 DEF FirstInv
    <3>2. CASE task[i] # t
      BY <2>1, <2>2, <3>1, <3>2 DEF FirstFound, Findable, CutByRestart, Open,
         CutsHealed, Attended, Coming, Held
    <3>3. CASE task[i] = t
      <4>1. ~Held(i) /\ ~Held(i)' /\ (Attended(t)' => Attended(t))
        BY <2>1, <3>3 DEF Held, Attended, Coming, Working, InRun
      <4>2. status[i] = "queued" => Attended(t)' \/ t \in missed
        <5> SUFFICES ASSUME status[i] = "queued" PROVE Attended(t)' \/ t \in missed
          OBVIOUS
        <5>1. i \in QueuedOf(t)
          BY <3>3 DEF QueuedOf, Mine
        <5>2. t \in arrived \/ OwedOrMissed(t)
          BY <2>1, <5>1 DEF WakeInv
        <5>3. QED
          BY <2>1, <5>2 DEF OwedOrMissed, Attended
      <4>3. QED
        BY <2>1, <3>1, <3>3, <4>1, <4>2 DEF FirstFound, Findable, CutByRestart, Open,
           CutsHealed
    <3>4. QED
      BY <3>2, <3>3
  <2>3. QED
    BY <2>1, <2>2 DEF FirstInv, Sole
<1>7. ASSUME NEW t \in Tasks, StartCall(t) PROVE FirstInv'
  <2>1. /\ t \in starting /\ phase # "down"
        /\ \A b \in Tasks : b # t => /\ pc'[b] = pc[b] /\ (b \in held' <=> b \in held)
                                    /\ (b \in starting' <=> b \in starting)
                                    /\ (b \in missed' <=> b \in missed)
        /\ t \in held' \/ t \in missed' \/ pc'[t] = "reclaim" \/ Coming(t)
        /\ pc[t] # "none" => pc'[t] = pc[t]
        /\ pc'[t] \in {pc[t], "reclaim"}
        /\ UNCHANGED <<task, row, by, status, arrived, cur, terms, kills, phase, todo, door>>
    BY <1>7, Started DEF StartCall, Alive
  <2>2. ASSUME NEW i \in Ids, Sole(i), task[i] \in Tasks PROVE FirstFound(i)'
    <3>1. FirstFound(i)
      BY <2>2 DEF FirstInv
    <3>2. CASE task[i] # t
      BY <2>1, <2>2, <3>1, <3>2 DEF FirstFound, Findable, CutByRestart, Open,
         CutsHealed, Attended, Coming, Held
    <3>3. CASE task[i] = t
      <4>1. (Held(i)' <=> Held(i)) /\ Attended(t) /\ (Attended(t)' \/ t \in missed')
        BY <2>1, <3>3 DEF Held, Attended, Coming, Working, InRun
      <4>2. pc'[t] \in {"hold", "requeue"} => pc'[t] = pc[t]
        BY <2>1
      <4>3. QED
        BY <2>1, <3>1, <3>3, <4>1, <4>2 DEF FirstFound, Findable, CutByRestart, Open,
           CutsHealed
    <3>4. QED
      BY <3>2, <3>3
  <2>3. QED
    BY <2>1, <2>2 DEF FirstInv, Sole
<1>8. ASSUME ResumePaused PROVE FirstInv'
  <2>1. /\ \A b \in Tasks : b \in held' \cup starting' <=> b \in held \cup starting
        /\ UNCHANGED <<task, row, by, status, pc, arrived, missed, cur, terms, kills, phase, todo, door>>
    BY <1>8 DEF ResumePaused, consumer, store, bounds
  <2>2. QED
    BY <2>1 DEF FirstInv, FirstFound, Findable, CutByRestart, Open, CutsHealed,
       Attended, Coming, Held, Sole
<1>9. ASSUME NEW t \in Tasks, Mark(t) PROVE FirstInv'
  BY <1>9 DEF Mark, Goto, FirstInv, FirstFound, Findable, ConsumerInv, OrphanInv,
     CutInv, CutByRestart, Open, CutsHealed, Attended, Coming, Held, Working, InRun,
     Leaving, Sole
<1>10. ASSUME NEW t \in Tasks, Register(t) PROVE FirstInv'
  BY <1>10 DEF Register, Goto, FirstInv, FirstFound, Findable, ConsumerInv, OrphanInv,
     CutInv, CutByRestart, Open, CutsHealed, Attended, Coming, Held, Working, InRun,
     Leaving, Sole
<1>11. ASSUME NEW t \in Tasks, Conclude(t) PROVE FirstInv'
  BY <1>11 DEF Conclude, Goto, FirstInv, FirstFound, Findable, ConsumerInv, OrphanInv,
     CutInv, CutByRestart, Open, CutsHealed, Attended, Coming, Held, Working, InRun,
     Leaving, Sole
<1>12. ASSUME NEW t \in Tasks, Unwind(t) PROVE FirstInv'
  BY <1>12 DEF Unwind, Blamed, Goto, FirstInv, FirstFound, Findable, ConsumerInv,
     OrphanInv, CutInv, CutByRestart, Open, CutsHealed, Attended, Coming, Held, Working,
     InRun, Leaving, Sole
<1>13. ASSUME NEW t \in Tasks, ClearReason(t) PROVE FirstInv'
  BY <1>13 DEF ClearReason, Goto, FirstInv, FirstFound, Findable, ConsumerInv,
     OrphanInv, CutInv, CutByRestart, Open, CutsHealed, Attended, Coming, Held, Working,
     InRun, Leaving, Sole
<1>14. ASSUME NEW t \in Tasks, Leave(t) PROVE FirstInv'
  BY <1>14 DEF Leave, Left, Goto, FirstInv, FirstFound, Findable, ConsumerInv,
     OrphanInv, CutInv, CutByRestart, Open, CutsHealed, Attended, Coming, Held, Working,
     InRun, Leaving, Sole
<1>15. ASSUME NEW t \in Tasks, Finish(t) PROVE FirstInv'
  BY <1>15 DEF Finish, Goto, FirstInv, FirstFound, Findable, ConsumerInv, OrphanInv,
     CutInv, CutByRestart, Open, CutsHealed, Attended, Coming, Held, Working, InRun,
     Leaving, Sole
<1>16. ASSUME NEW t \in Tasks, AcceptRow(t) PROVE FirstInv'
  BY <1>16 DEF AcceptRow, Serving, FirstInv, FirstFound, Findable, ConsumerInv,
     OrphanInv, CutInv, CutByRestart, Open, CutsHealed, Attended, Coming, Held, Working,
     InRun, Leaving, Sole
<1>17. ASSUME NEW t \in Tasks, AcceptMessage(t) PROVE FirstInv'
  <2>1. last < MaxMsg /\ EnqueueFor(t, "instruction")
    BY <1>17, RoomForOne DEF AcceptMessage
  <2>2. /\ UNCHANGED <<phase, todo, terms, kills, row, by, cur>>
        /\ door' \subseteq door /\ phase # "down"
        /\ row[t] # "none" \/ \E i \in Ids : task[i] = t
    BY <1>17 DEF AcceptMessage, Alive, FirstInv
  <2>3. QED
    BY <2>1, <2>2, FirstEnqueued DEF Kinds
<1>18. ASSUME NEW t \in Tasks, AcceptFails(t) PROVE FirstInv'
  BY <1>18 DEF AcceptFails, FirstInv, FirstFound, Findable, ConsumerInv, OrphanInv,
     CutInv, CutByRestart, Open, CutsHealed, Attended, Coming, Held, Working, InRun,
     Leaving, Sole
<1>19. ASSUME NEW t \in Tasks, Observe(t) PROVE FirstInv'
  <2>1. last < MaxMsg /\ EnqueueFor(t, "observation")
    BY <1>19, RoomForOne DEF Observe
  <2>2. /\ UNCHANGED <<phase, todo, terms, kills, row, by, cur>>
        /\ door' \subseteq door /\ phase # "down"
        /\ row[t] # "none" \/ \E i \in Ids : task[i] = t
    BY <1>19 DEF Observe, Alive, FirstInv
  <2>3. QED
    BY <2>1, <2>2, FirstEnqueued DEF Kinds
<1>20. ASSUME NEW s \in Stoppers, StopRecord(s) PROVE FirstInv'
  <2>1. last < MaxMsg /\ EnqueueFor(stop[s].task, "stop") /\ stop[s].task \in Tasks
    BY <1>20, RoomForOne DEF StopRecord, Owing
  <2>2. /\ UNCHANGED <<phase, todo, terms, kills, row, by, cur>>
        /\ door' \subseteq door /\ phase # "down"
        /\ row[stop[s].task] # "none" \/ \E i \in Ids : task[i] = stop[s].task
    BY <1>20 DEF StopRecord, Alive, StopInv, StopKept
  <2>3. QED
    BY <2>1, <2>2, FirstEnqueued DEF Kinds
<1>21. ASSUME NEW s \in Stoppers, StopMark(s) PROVE FirstInv'
  <2>1. PICK j \in Ids, l \in Ids : j # l /\ task[j] = stop[s].task /\ task[l] = stop[s].task
    BY <1>21 DEF StopMark, StopInv, StopKept
  <2>2. /\ \A b \in Tasks : b # stop[s].task => row'[b] = row[b] /\ by'[b] = by[b]
        /\ \A b \in Tasks : row'[b] = row[b] \/ row'[b] = "stopped"
        /\ UNCHANGED <<task, held, wake, pc, status, cur, terms, kills, phase, todo, door>>
    BY <1>21 DEF StopMark
  <2>3. ASSUME NEW i \in Ids, Sole(i), task[i] \in Tasks PROVE FirstFound(i)'
    <3>1. FirstFound(i) /\ task[i] # stop[s].task
      BY <2>1, <2>3 DEF FirstInv, Sole
    <3>2. QED
      BY <2>2, <2>3, <3>1
         DEF FirstFound, Findable, CutByRestart, Open, CutsHealed, Attended, Coming, Held
  <2>4. QED
    BY <2>1, <2>2, <2>3 DEF FirstInv, Sole
<1>22. ASSUME DrainTimeout PROVE FirstInv'
  BY <1>22 DEF DrainTimeout, FirstInv, FirstFound, Findable, ConsumerInv, OrphanInv,
     CutInv, CutByRestart, Open, CutsHealed, Attended, Coming, Held, Working, InRun,
     Leaving, Sole
<1>23. ASSUME Term PROVE FirstInv'
  BY <1>23 DEF Term, FirstInv, FirstFound, Findable, ConsumerInv, OrphanInv, CutInv,
     CutByRestart, Open, CutsHealed, Attended, Coming, Held, Working, InRun, Leaving, Sole
<1>24. ASSUME Kill PROVE FirstInv'
  <2>1. /\ pc' = [b \in Tasks |-> "none"] /\ held' = {} /\ starting' = {} /\ door' = {} /\ phase' = "down"
        /\ UNCHANGED <<task, row, by, status, terms>> /\ kills' = kills + 1
    BY <1>24 DEF Kill, Gone, store
  <2>2. ASSUME NEW i \in Ids, Sole(i), task[i] \in Tasks PROVE FirstFound(i)'
    <3>1. ~Held(i)' /\ ~Attended(task[i])'
      BY <2>1, <2>2 DEF Held, Attended, Coming, Working, InRun
    <3>2. status[i] = "queued" => Findable(task[i])
      BY <2>2 DEF FirstInv, FirstFound
    <3>3. status[i] = "queued" /\ CutByRestart(task[i]) => terms > 0 /\ kills > 0
      BY <2>2 DEF CutInv, StopInv, StopKept, Stoppers
    <3>4. status[i] = "queued" /\ CutsHealed' => Open(task[i])
      BY <2>1, <3>2, <3>3 DEF Findable, CutsHealed
    <3>5. QED
      BY <2>1, <3>1, <3>2, <3>4 DEF FirstFound, Findable, CutByRestart, Open
  <2>3. QED
    BY <2>1, <2>2 DEF FirstInv, Sole
<1>25. ASSUME IdleSeen PROVE FirstInv'
  BY <1>25 DEF IdleSeen, FirstInv, FirstFound, Findable, ConsumerInv, OrphanInv, CutInv,
     CutByRestart, Open, CutsHealed, Attended, Coming, Held, Working, InRun, Leaving,
     Sole
<1>26. ASSUME GraceOver PROVE FirstInv'
  BY <1>26 DEF GraceOver, FirstInv, FirstFound, Findable, ConsumerInv, OrphanInv,
     CutInv, CutByRestart, Open, CutsHealed, Attended, Coming, Held, Working, InRun,
     Leaving, Sole
<1>27. ASSUME StopsDone PROVE FirstInv'
  BY <1>27 DEF StopsDone, FirstInv, FirstFound, Findable, ConsumerInv, OrphanInv,
     CutInv, CutByRestart, Open, CutsHealed, Attended, Coming, Held, Working, InRun,
     Leaving, Sole
<1>28. ASSUME Exit PROVE FirstInv'
  BY <1>28 DEF Exit, Gone, FirstInv, FirstFound, Findable, ConsumerInv, OrphanInv,
     CutInv, CutByRestart, Open, CutsHealed, Attended, Coming, Held, Working, InRun,
     Leaving, Sole
<1>29. ASSUME Boot PROVE FirstInv'
  BY <1>29 DEF Boot, FirstInv, FirstFound, Findable, ConsumerInv, OrphanInv, CutInv,
     CutByRestart, Open, CutsHealed, Attended, Coming, Held, Working, InRun, Leaving, Sole
<1>30. ASSUME NextScan PROVE FirstInv'
  BY <1>30 DEF NextScan, ListsOpen, ResumableAfterCut, Open, FirstInv, FirstFound,
     Findable, ConsumerInv, OrphanInv, CutInv, CutByRestart, Open, CutsHealed,
     Attended, Coming, Held, Working, InRun, Leaving, Sole
<1>31. ASSUME NEW t \in Tasks, ShutdownStops(t) PROVE FirstInv'
  BY <1>31 DEF ShutdownStops, StopRead, FirstInv, FirstFound, Findable, ConsumerInv,
     OrphanInv, CutInv, CutByRestart, Open, CutsHealed, Attended, Coming, Held, Working,
     InRun, Leaving, Sole
<1>32. ASSUME NEW t \in Tasks, ScanAccepted(t) PROVE FirstInv'
  <2>1. /\ t \in todo /\ todo' = todo \ {t} /\ ~draining
        /\ UNCHANGED <<task, row, by, status, cur, arrived, starting, terms, kills, phase, door>>
        /\ phase = "scanAccepted"
    BY <1>32 DEF ScanAccepted, Visit, DrainInv
  <2>2. /\ UNCHANGED held
        /\ \A b \in Tasks : b # t => pc'[b] = pc[b] /\ (b \in missed' <=> b \in missed)
        /\ NeverStarted(t) => t \in missed' \/ pc'[t] = "reclaim" \/ (Coming(t) /\ pc'[t] = pc[t])
    BY <1>32, <2>1, Started DEF ScanAccepted, Visit
  <2>3. ~NeverStarted(t) => UNCHANGED <<pc, missed>>
    BY <1>32 DEF ScanAccepted, Visit
  <2>4. ASSUME NEW i \in Ids, Sole(i), task[i] \in Tasks PROVE FirstFound(i)'
    <3>1. FirstFound(i)
      BY <2>4 DEF FirstInv
    <3>2. CASE task[i] # t
      BY <2>1, <2>2, <2>4, <3>1, <3>2
         DEF FirstFound, Findable, CutByRestart, Open, CutsHealed, Attended, Coming, Held
    <3>3. CASE task[i] = t /\ status[i] = "queued"
      <4>1. NeverStarted(t)
        BY <2>4, <3>3 DEF NeverStarted, QueuedOf, RunningOf, Mine, Sole
      <4>2. (Attended(t)' \/ t \in missed') /\ Findable(t)
        BY <2>1, <2>2, <3>1, <3>3, <4>1 DEF FirstFound, Attended, Coming
      <4>3. QED
        BY <2>1, <3>3, <4>2 DEF FirstFound, Findable, CutByRestart, Open
    <3>4. CASE task[i] = t /\ status[i] # "queued"
      <4>1. ~NeverStarted(t)
        BY <2>4, <3>4 DEF NeverStarted, QueuedOf, Mine, Sole
      <4>2. QED
        BY <2>1, <2>2, <2>3, <3>1, <3>4, <4>1
           DEF FirstFound, Findable, CutByRestart, Open, CutsHealed, Attended, Coming, Held
    <3>5. QED
      BY <3>2, <3>3, <3>4
  <2>5. QED
    BY <2>1, <2>4 DEF FirstInv, Sole
<1>33. ASSUME NEW t \in Tasks, ScanInterrupted(t) PROVE FirstInv'
  <2>1. /\ t \in todo /\ todo' = todo \ {t} /\ ~draining
        /\ UNCHANGED <<task, row, by, status, cur, arrived, starting, terms, kills, phase, door>>
        /\ phase = "scanInterrupted"
    BY <1>33 DEF ScanInterrupted, Visit, DrainInv
  <2>2. /\ UNCHANGED held
        /\ \A b \in Tasks : b # t => pc'[b] = pc[b] /\ (b \in missed' <=> b \in missed)
        /\ pc[t] # "none" => pc'[t] = pc[t]
        /\ pc'[t] \in {pc[t], "reclaim"}
        /\ t \in missed => t \in missed' \/ pc'[t] = "reclaim"
    BY <1>33, <2>1 DEF ScanInterrupted, Visit, InboxStart
  <2>3. ASSUME NEW i \in Ids, Sole(i), task[i] \in Tasks PROVE FirstFound(i)'
    <3>1. FirstFound(i)
      BY <2>3 DEF FirstInv
    <3>2. Attended(task[i]) => Attended(task[i])'
      BY <2>1, <2>2, <2>3 DEF Attended, Coming
    <3>3. Held(i)' <=> Held(i)
      BY <2>1, <2>2, <2>3 DEF Held, Working, InRun
    <3>4. pc'[task[i]] \in {"hold", "requeue"} => pc[task[i]] = pc'[task[i]]
      BY <2>2, <2>3
    <3>5. task[i] \in missed => task[i] \in missed' \/ Attended(task[i])'
      BY <2>1, <2>2, <2>3 DEF Attended, Coming
    <3>6. status[i] = "running" /\ ~Held(i) /\ Attended(task[i])' => Findable(task[i])
      <4>1. CASE Attended(task[i])
        BY <3>1, <4>1 DEF FirstFound
      <4>2. CASE ~Attended(task[i]) /\ Attended(task[i])'
        <5>1. task[i] = t
          BY <2>1, <2>2, <2>3, <4>2 DEF Attended, Coming
        <5>2. QED
          BY <2>1, <5>1 DEF ScanInv, OrphanInv
      <4>3. QED
        BY <4>1, <4>2
    <3>7. QED
      BY <2>1, <3>1, <3>2, <3>3, <3>4, <3>5, <3>6
         DEF FirstFound, Findable, CutByRestart, Open, CutsHealed
  <2>4. QED
    BY <2>1, <2>3 DEF FirstInv, Sole
<1>34. CASE UNCHANGED <<task, row, by, status, pc, held, wake, cur, terms, kills,
                         phase, todo, door>>
  BY <1>34 DEF FirstInv, FirstFound, Findable, ConsumerInv, OrphanInv, CutInv,
     CutByRestart, Open, CutsHealed, Attended, Coming, Held, Working, InRun, Leaving, Sole
<1> HIDE DEF TypeOK, RestartInv, FirstInv
<1>35. QED
  BY <1>1, <1>2, <1>3, <1>4, <1>9, <1>10, <1>11, <1>12, <1>13, <1>14, <1>15, <1>16, <1>17,
     <1>18, <1>19, <1>20, <1>21, <1>22, <1>23, <1>24, <1>25, <1>26, <1>27, <1>28,
     <1>29, <1>30, <1>31, <1>32, <1>33, <1>34, <1>5, <1>6, <1>7, <1>8, ZenonT(40)
     DEF Next, Consumer, StopCall, Process, vars, store, consumer, bounds, wake, StopTask, StopLoad, StopCancel,
     RestartNotify, Poll

\* While the second scan goes on nobody who has a running message is leaving.
LEMMA ScanComing ==
  ASSUME TypeOK, RestartInv, phase = "scanInterrupted",
         NEW i \in Ids, status[i] = "running"
  PROVE  pc[task[i]] = "none" \/ Coming(task[i])
<1>1. task[i] \in Tasks
  BY DEF RestartInv, RowsInv
<1>2. pc[task[i]] \notin {"none", "reclaim"} => pc[task[i]] \in Working
  BY <1>1 DEF RestartInv, ConsumerInv, OrphanInv, Held
<1>3. QED
  BY <1>1, <1>2 DEF RestartInv, DrainInv, Leaving, Coming, Working, InRun

\* The second scan reaches every open task with a running message: no consumer
\* leaves one behind while it goes on.
LEMMA ScanStep == TypeOK /\ RestartInv /\ [Next]_vars => ScanInv'
<1> SUFFICES ASSUME TypeOK, RestartInv, [Next]_vars PROVE ScanInv'
  OBVIOUS
<1> USE RestartAssumption DEF TypeOK, TypeStore, TypeMemory, TypeConsumer, TypeStop,
        RestartInv, wake
<1>1. ASSUME NEW t \in Tasks, Reclaim(t) PROVE ScanInv'
  BY <1>1 DEF Reclaim, Goto, RunningOf, Mine, ScanInv, ConsumerInv, OrphanInv, RowsInv,
     DrainInv, Findable, CutByRestart, Open, Attended, Coming, Held, Working, InRun,
     Leaving
<1>2. ASSUME NEW t \in Tasks, Claim(t) PROVE ScanInv'
  BY <1>2 DEF Claim, Goto, QueuedOf, Mine, ScanInv, ConsumerInv, OrphanInv, RowsInv,
     DrainInv, Findable, CutByRestart, Open, Attended, Coming, Held, Working, InRun, Leaving
<1>3. ASSUME NEW t \in Tasks, Idle(t) PROVE ScanInv'
  BY <1>3 DEF Idle, Goto, QueuedOf, Mine, ScanInv, ConsumerInv, OrphanInv, RowsInv,
     DrainInv, Findable, CutByRestart, Open, Attended, Coming, Held, Working, InRun, Leaving
<1>4. ASSUME NEW t \in Tasks, HoldCheck(t) PROVE ScanInv'
  BY <1>4 DEF HoldCheck, HoldBack, Goto, ScanInv, ConsumerInv, OrphanInv, RowsInv,
     DrainInv, Findable, CutByRestart, Open, Attended, Coming, Held, Working, InRun, Leaving
<1>5. ASSUME NEW t \in Tasks, Requeue(t) PROVE ScanInv'
  BY <1>5 DEF Requeue, Goto, ScanInv, ConsumerInv, OrphanInv, RowsInv,
     DrainInv, Findable, CutByRestart, Open, Attended, Coming, Held, Working, InRun,
     Leaving
<1>6. ASSUME NEW t \in Tasks, EndDrain(t) PROVE ScanInv'
  BY <1>6 DEF EndDrain, Goto, ScanInv, ConsumerInv, OrphanInv, RowsInv,
     DrainInv, Findable, CutByRestart, Open, Attended, Coming, Held, Working, InRun,
     Leaving
<1>7. ASSUME NEW t \in Tasks, StartCall(t) PROVE ScanInv'
  <2>1. /\ t \in starting /\ UNCHANGED <<phase, status, row, by, task, todo, reclaimed, arrived>>
        /\ \A b \in Tasks : b # t => /\ pc'[b] = pc[b] /\ (b \in held' <=> b \in held)
                                    /\ (b \in starting' <=> b \in starting)
        /\ phase = "scanInterrupted" => (pc[t] = "none" \/ Coming(t) => Coming(t)')
    BY <1>7, Started DEF StartCall, InboxStart, Coming, DrainInv
  <2>2. ASSUME NEW i \in Ids, phase = "scanInterrupted", status[i] = "running", Open(task[i])
        PROVE  Attended(task[i])' \/ task[i] \in todo
    <3>1. task[i] \in Tasks /\ (pc[task[i]] = "none" \/ Coming(task[i]))
      BY <2>2, ScanComing DEF RowsInv
    <3>2. QED
      BY <2>1, <2>2, <3>1 DEF ScanInv, Attended, Coming
  <2>3. QED
    BY <2>1, <2>2 DEF ScanInv, Findable, CutByRestart, Open, Attended, Coming
<1>8. ASSUME ResumePaused PROVE ScanInv'
  BY <1>8 DEF ResumePaused, ScanInv, ConsumerInv, OrphanInv, RowsInv,
     DrainInv, Findable, CutByRestart, Open, Attended, Coming, Held, Working, InRun,
     Leaving
<1>9. ASSUME NEW t \in Tasks, Mark(t) PROVE ScanInv'
  BY <1>9 DEF Mark, Goto, ScanInv, ConsumerInv, OrphanInv, RowsInv, DrainInv,
     Findable, CutByRestart, Open, Attended, Coming, Held, Working, InRun, Leaving
<1>10. ASSUME NEW t \in Tasks, Register(t) PROVE ScanInv'
  BY <1>10 DEF Register, Goto, ScanInv, ConsumerInv, OrphanInv, RowsInv, DrainInv,
     Findable, CutByRestart, Open, Attended, Coming, Held, Working, InRun, Leaving
<1>11. ASSUME NEW t \in Tasks, Conclude(t) PROVE ScanInv'
  BY <1>11 DEF Conclude, Goto, ScanInv, ConsumerInv, OrphanInv, RowsInv, DrainInv,
     Findable, CutByRestart, Open, Attended, Coming, Held, Working, InRun, Leaving
<1>12. ASSUME NEW t \in Tasks, Unwind(t) PROVE ScanInv'
  BY <1>12 DEF Unwind, Blamed, Goto, ScanInv, ConsumerInv, OrphanInv, RowsInv,
     DrainInv, Findable, CutByRestart, Open, Attended, Coming, Held, Working, InRun, Leaving
<1>13. ASSUME NEW t \in Tasks, ClearReason(t) PROVE ScanInv'
  BY <1>13 DEF ClearReason, Goto, ScanInv, ConsumerInv, OrphanInv, RowsInv, DrainInv,
     Findable, CutByRestart, Open, Attended, Coming, Held, Working, InRun, Leaving
<1>14. ASSUME NEW t \in Tasks, Leave(t) PROVE ScanInv'
  BY <1>14 DEF Leave, Left, Goto, ScanInv, ConsumerInv, OrphanInv, RowsInv, DrainInv,
     Findable, CutByRestart, Open, Attended, Coming, Held, Working, InRun, Leaving
<1>15. ASSUME NEW t \in Tasks, Finish(t) PROVE ScanInv'
  BY <1>15 DEF Finish, Goto, ScanInv, ConsumerInv, OrphanInv, RowsInv, DrainInv,
     Findable, CutByRestart, Open, Attended, Coming, Held, Working, InRun, Leaving
<1>16. ASSUME NEW t \in Tasks, AcceptRow(t) PROVE ScanInv'
  BY <1>16 DEF AcceptRow, Serving, ScanInv, ConsumerInv, OrphanInv, RowsInv, DrainInv,
     Findable, CutByRestart, Open, Attended, Coming, Held, Working, InRun, Leaving
<1>17. ASSUME NEW t \in Tasks, AcceptMessage(t) PROVE ScanInv'
  <2>1. last < MaxMsg /\ EnqueueFor(t, "instruction")
    BY <1>17, RoomForOne DEF AcceptMessage
  <2>2. /\ UNCHANGED <<phase, todo, row, by, reclaimed>>
        /\ phase = "scanInterrupted" => phase # "down"
    BY <1>17 DEF AcceptMessage
  <2>3. \A i \in Ids : status'[i] = "running" =>
          status[i] = "running" /\ task'[i] = task[i] /\ task[i] \in Tasks
    BY <2>1, Enqueued DEF Kinds, RowsInv
  <2>4. \A b \in Tasks : Attended(b) => Attended(b)'
    BY <2>1, Enqueued DEF Kinds, Attended, Coming
  <2>5. QED
    BY <2>2, <2>3, <2>4 DEF ScanInv, Findable, CutByRestart, Open
<1>18. ASSUME NEW t \in Tasks, Observe(t) PROVE ScanInv'
  <2>1. last < MaxMsg /\ EnqueueFor(t, "observation")
    BY <1>18, RoomForOne DEF Observe
  <2>2. /\ UNCHANGED <<phase, todo, row, by, reclaimed>>
        /\ phase = "scanInterrupted" => phase # "down"
    BY <1>18 DEF Observe
  <2>3. \A i \in Ids : status'[i] = "running" =>
          status[i] = "running" /\ task'[i] = task[i] /\ task[i] \in Tasks
    BY <2>1, Enqueued DEF Kinds, RowsInv
  <2>4. \A b \in Tasks : Attended(b) => Attended(b)'
    BY <2>1, Enqueued DEF Kinds, Attended, Coming
  <2>5. QED
    BY <2>2, <2>3, <2>4 DEF ScanInv, Findable, CutByRestart, Open
<1>19. ASSUME NEW s \in Stoppers, StopRecord(s) PROVE ScanInv'
  <2>1. last < MaxMsg /\ EnqueueFor(stop[s].task, "stop") /\ stop[s].task \in Tasks
    BY <1>19, RoomForOne DEF StopRecord, Owing
  <2>2. /\ UNCHANGED <<phase, todo, row, by, reclaimed>>
        /\ phase = "scanInterrupted" => phase # "down"
    BY <1>19 DEF StopRecord
  <2>3. \A i \in Ids : status'[i] = "running" =>
          status[i] = "running" /\ task'[i] = task[i] /\ task[i] \in Tasks
    BY <2>1, Enqueued DEF Kinds, RowsInv
  <2>4. \A b \in Tasks : Attended(b) => Attended(b)'
    BY <2>1, Enqueued DEF Kinds, Attended, Coming
  <2>5. QED
    BY <2>2, <2>3, <2>4 DEF ScanInv, Findable, CutByRestart, Open
<1>20. ASSUME NEW s \in Stoppers, StopMark(s) PROVE ScanInv'
  BY <1>20 DEF StopMark, StopInv, StopKept, Leaving, ScanInv
<1>21. ASSUME DrainTimeout PROVE ScanInv'
  BY <1>21 DEF DrainTimeout, ScanInv, ConsumerInv, OrphanInv, RowsInv, DrainInv,
     Findable, CutByRestart, Open, Attended, Coming, Held, Working, InRun, Leaving
<1>22. ASSUME Term PROVE ScanInv'
  BY <1>22 DEF Term, ScanInv, ConsumerInv, OrphanInv, RowsInv, DrainInv, Findable,
     CutByRestart, Open, Attended, Coming, Held, Working, InRun, Leaving
<1>23. ASSUME Kill PROVE ScanInv'
  BY <1>23 DEF Kill, Gone, ScanInv, ConsumerInv, OrphanInv, RowsInv, DrainInv,
     Findable, CutByRestart, Open, Attended, Coming, Held, Working, InRun, Leaving
<1>24. ASSUME IdleSeen PROVE ScanInv'
  BY <1>24 DEF IdleSeen, ScanInv, ConsumerInv, OrphanInv, RowsInv, DrainInv, Findable,
     CutByRestart, Open, Attended, Coming, Held, Working, InRun, Leaving
<1>25. ASSUME GraceOver PROVE ScanInv'
  BY <1>25 DEF GraceOver, ScanInv, ConsumerInv, OrphanInv, RowsInv, DrainInv,
     Findable, CutByRestart, Open, Attended, Coming, Held, Working, InRun, Leaving
<1>26. ASSUME StopsDone PROVE ScanInv'
  BY <1>26 DEF StopsDone, ScanInv, ConsumerInv, OrphanInv, RowsInv, DrainInv,
     Findable, CutByRestart, Open, Attended, Coming, Held, Working, InRun, Leaving
<1>27. ASSUME Exit PROVE ScanInv'
  BY <1>27 DEF Exit, Gone, ScanInv, ConsumerInv, OrphanInv, RowsInv, DrainInv,
     Findable, CutByRestart, Open, Attended, Coming, Held, Working, InRun, Leaving
<1>28. ASSUME Boot PROVE ScanInv'
  BY <1>28 DEF Boot, ScanInv, ConsumerInv, OrphanInv, RowsInv, DrainInv, Findable,
     CutByRestart, Open, Attended, Coming, Held, Working, InRun, Leaving
<1>29. ASSUME NextScan PROVE ScanInv'
  BY <1>29 DEF NextScan, ListsOpen, ResumableAfterCut, Open, ScanInv, ConsumerInv,
     OrphanInv, RowsInv, DrainInv, Findable, CutByRestart, Open, Attended, Coming, Held,
     Working, InRun, Leaving
<1>30. ASSUME NEW t \in Tasks, ShutdownStops(t) PROVE ScanInv'
  BY <1>30 DEF ShutdownStops, StopRead, ScanInv, ConsumerInv, OrphanInv, RowsInv,
     DrainInv, Findable, CutByRestart, Open, Attended, Coming, Held, Working, InRun, Leaving
<1>31. ASSUME NEW t \in Tasks, ScanAccepted(t) PROVE ScanInv'
  BY <1>31 DEF ScanAccepted, Visit, InboxStart, ScanInv, ConsumerInv, OrphanInv,
     RowsInv, DrainInv, Findable, CutByRestart, Open, Attended, Coming, Held, Working,
     InRun, Leaving
<1>32. ASSUME NEW t \in Tasks, ScanInterrupted(t) PROVE ScanInv'
  <2>1. /\ t \in todo /\ todo' = todo \ {t} /\ ~draining
        /\ UNCHANGED <<task, row, by, status, cur, arrived, starting, phase, door>>
        /\ phase = "scanInterrupted"
    BY <1>32 DEF ScanInterrupted, Visit, DrainInv
  <2>2. /\ UNCHANGED held /\ \A b \in Tasks : b # t => pc'[b] = pc[b]
    BY <1>32, <2>1, Started DEF ScanInterrupted, Visit
  <2>3. RunningOf(t) # {} /\ (pc[t] = "none" \/ Coming(t)) => Coming(t)'
    BY <1>32, <2>1 DEF ScanInterrupted, Visit, InboxStart, Coming
  <2>4. ASSUME NEW i \in Ids, status[i] = "running", Open(task[i])
        PROVE  Attended(task[i])' \/ task[i] \in todo'
    <3>1. task[i] \in Tasks
      BY <2>4 DEF RowsInv
    <3>2. CASE task[i] = t
      <4>1. i \in RunningOf(t)
        BY <2>4, <3>2 DEF RunningOf, Mine
      <4>2. QED
        BY <2>1, <2>3, <2>4, <3>2, <4>1, ScanComing DEF Attended
    <3>3. CASE task[i] # t
      BY <2>1, <2>2, <2>4, <3>1, <3>3 DEF ScanInv, Attended, Coming
    <3>4. QED
      BY <3>2, <3>3
  <2>5. \A b \in todo' \ reclaimed' : Findable(b)'
    BY <1>32, <2>1 DEF ScanInterrupted, Visit, ScanInv, Findable, CutByRestart, Open
  <2>6. QED
    BY <2>1, <2>4, <2>5 DEF ScanInv, Open, Attended, Coming
<1>33. CASE UNCHANGED <<phase, status, row, by, task, pc, held, wake, todo, reclaimed>>
  BY <1>33 DEF ScanInv, ConsumerInv, OrphanInv, RowsInv, DrainInv, Findable,
     CutByRestart, Open, Attended, Coming, Held, Working, InRun, Leaving
<1> HIDE DEF TypeOK, RestartInv, ScanInv
<1>34. QED
  BY <1>1, <1>2, <1>3, <1>4, <1>9, <1>10, <1>11, <1>12, <1>13, <1>14, <1>15, <1>16, <1>17,
     <1>18, <1>19, <1>20, <1>21, <1>22, <1>23, <1>24, <1>25, <1>26, <1>27, <1>28,
     <1>29, <1>30, <1>31, <1>32, <1>33, <1>5, <1>6, <1>7, <1>8, ZenonT(40)
     DEF Next, Consumer, StopCall, Process, vars, store, consumer, bounds, wake, AcceptFails, StopTask, StopLoad,
     StopCancel, RestartNotify, Poll

\* A fresh runtime over an empty store satisfies the invariant.
LEMMA RestartInit == Init => TypeOK /\ RestartInv
<1> SUFFICES ASSUME Init PROVE TypeOK /\ RestartInv
  OBVIOUS
<1> USE RestartAssumption DEF Init
<1>1. TypeOK
  <2>1. TypeStore
    BY DEF TypeStore, Rows, Statuses, Kinds
  <2>2. TypeMemory
    <3>1. resuming \in BOOLEAN /\ starting \subseteq Tasks
      BY Zenon
    <3>2. /\ inFlight \in [Tasks -> Ids \cup {0}]
          /\ reason \in [Tasks -> Stoppers \cup {"none"}]
      OBVIOUS
    <3>3. /\ notifies \in 0..MaxNotify /\ terms \in 0..MaxTerm
          /\ kills \in 0..MaxKill /\ stops \in 0..MaxStop
      OBVIOUS
    <3>4. draining \in BOOLEAN /\ ready \in BOOLEAN
      BY Zenon
    <3>5. QED
      BY <3>1, <3>2, <3>3, <3>4 DEF TypeMemory, Phases
  <2>3. TypeConsumer
    BY DEF TypeConsumer, Stages, InRun
  <2>4. TypeStop
    BY DEF TypeStop, StopStages, NoStop, Rows
  <2>5. QED
    BY <2>1, <2>2, <2>3, <2>4 DEF TypeOK
<1>2. RowsInv
  BY DEF RowsInv, Ids
<1>3. RoomInv
  <2>1. Owing = {}
    BY DEF Owing, NoStop
  <2>2. QED
    BY <2>1, FS_EmptySet DEF RoomInv
<1>4. ConsumerInv /\ OrphanInv /\ DrainInv /\ WakeInv
  BY DEF ConsumerInv, OrphanInv, DrainInv, WakeInv, Working, InRun
<1>5. StopInv
  BY DEF StopInv, StopKept, NoStop
<1>6. CutInv
  BY DEF CutInv, Leaving, NoStop, Stoppers
<1>7. FirstInv
  BY DEF FirstInv
<1>8. ScanInv
  BY DEF ScanInv
<1>9. QED
  BY <1>1, <1>2, <1>3, <1>4, <1>5, <1>6, <1>7, <1>8 DEF RestartInv

\* Every step keeps the invariant.
LEMMA RestartStep == TypeOK /\ RestartInv /\ [Next]_vars => (TypeOK /\ RestartInv)'
  BY TypeStep, RowsStep, RoomStep, ConsumerStep, OrphanStep, DrainStep, WakeStep, StopStep,
     CutStep, FirstStep, ScanStep
     DEF RestartInv

\* The rows, the registry, the drain, the stop calls and the boot scans keep their
\* types: in particular a consumer inside a run has a message, and a stop under
\* way names a task.
THEOREM GracefulRestartTypes == Spec => []TypeOK
  BY RestartInit, RestartStep, PTL DEF Spec

\* What a stop would cancel (api_service.go stopTask, Runtime.inFlightTasks) is the
\* message its task's consumer is working on, still running in the store: never
\* the message behind it, never a run that has ended, however stops, SIGTERM,
\* SIGKILL and boots interleave.
THEOREM RegistryNamesTheRunHolds == Spec => []RegistryNamesTheRun
<1>1. RestartInv => RegistryNamesTheRun
  BY DEF RestartInv, ConsumerInv, RegistryNamesTheRun, Working, InRun
<1>2. QED
  BY <1>1, RestartInit, RestartStep, PTL DEF Spec

\* Restarts lose no task's first instruction: after the two boot scans (graceful.go
\* resumeAcceptedInstructions, resumeInterruptedRuns) the only message of a task,
\* if it is queued, has a consumer that will claim it, or a start is owed to it by
\* the drain, resumePaused or its enqueuer. Two exceptions are named: a third signal
\* that ends the process which came up behind a run cut by Shutdown, and a start
\* that met a consumer between its hold decision and endDrain (inbox.go drain, the
\* lost wake-up), which starts nothing.
THEOREM FirstInstructionSurvivesHolds == Spec => []FirstInstructionSurvives
<1>1. TypeOK /\ RestartInv => FirstInstructionSurvives
  BY DEF RestartInv, RowsInv, FirstInv, FirstFound, FirstInstructionSurvives
<1>2. QED
  BY <1>1, RestartInit, RestartStep, PTL DEF Spec

\* A run the process died in is re-entered at boot: the step that ends
\* resumeInterruptedRuns leaves no running message of an open task without a
\* consumer, whatever the event feed enqueued while the scans went on.
THEOREM CutRunsHealedHolds == Spec => CutRunsHealed
<1> DEFINE Healed == \A i \in Ids :
                       status[i] = "running" /\ Open(task[i]) => Attended(task[i])
<1>1. ASSUME TypeOK, RestartInv, [Next]_vars, phase = "scanInterrupted", phase' = "up"
      PROVE  todo = {}
  BY <1>1 DEF Next, Consumer, StopCall, Process, vars, Reclaim, Claim, Idle, HoldCheck,
     Requeue, EndDrain, StartCall, ResumePaused, Mark, Register, Conclude, Unwind,
     ClearReason, Leave, Finish, AcceptRow, AcceptMessage, AcceptFails, Observe,
     StopTask, StopLoad, StopCancel, StopRecord, StopMark, RestartNotify, DrainTimeout,
     Poll, Term, Kill, IdleSeen, GraceOver, StopsDone, Exit, Gone, Boot, NextScan,
     ShutdownStops, ScanAccepted, ScanInterrupted, Visit
<1>2. TypeOK /\ RestartInv /\ [Next]_vars =>
        (phase = "scanInterrupted" /\ phase' = "up" => Healed)
  BY <1>1 DEF RestartInv, ScanInv
<1>3. TypeOK /\ RestartInv /\ [Next]_vars =>
        [phase = "scanInterrupted" /\ phase' = "up" => Healed]_vars
  BY <1>2
<1>4. QED
  BY <1>3, RestartInit, RestartStep, PTL DEF Spec, CutRunsHealed

-----------------------------------------------------------------------------
(* The drain of module RestartDrain, for any number of agents and of       *)
(* announcements, with and without a safety timeout.  Its two invariants   *)
(* are inductive beside its types.                                         *)

USE DEF Timers, Callbacks

\* Every step of the drain, of its callbacks and of the inbox keeps the types.
LEMMA DrainTypeStep == DrainTypeOK /\ [DrainNext]_drainVars => DrainTypeOK'
<1> SUFFICES ASSUME DrainTypeOK, [DrainNext]_drainVars
             PROVE  DrainTypeOK'
  OBVIOUS
<1> USE DrainAssumption
<1>1. 0 \in 0..MaxNotices /\ \A k \in Timers : Stopped(k) \in Callbacks
  BY DEF DrainTypeOK, Stopped
<1>2. CASE Begin
  BY <1>1, <1>2 DEF DrainTypeOK, Begin, Arms
<1>3. CASE Shutdown
  BY <1>1, <1>3 DEF DrainTypeOK, Shutdown
<1>4. CASE Close
  BY <1>1, <1>4 DEF DrainTypeOK, Close
<1>5. CASE HoldStart
  BY <1>5 DEF DrainTypeOK, HoldStart
<1>6. ASSUME NEW k \in Timers, Callback(k)
      PROVE  DrainTypeOK'
  <2>1. CASE Fire(k)
    BY <2>1 DEF DrainTypeOK, Fire
  <2>2. CASE Expire(k)
    <3>1. CASE active
      BY <1>1, <2>2, <3>1 DEF DrainTypeOK, Expire
    <3>2. CASE ~active
      BY <2>2, <3>2 DEF DrainTypeOK, Expire
    <3> QED BY <3>1, <3>2
  <2>3. CASE Resume(k)
    BY <2>3 DEF DrainTypeOK, Resume
  <2> QED BY <1>6, <2>1, <2>2, <2>3 DEF Callback
<1>7. ASSUME NEW a \in Agents, Start(a) \/ ConsumerEnds(a)
      PROVE  DrainTypeOK'
  BY <1>7 DEF DrainTypeOK, Start, ConsumerEnds
<1>8. CASE UNCHANGED drainVars
  BY <1>8 DEF DrainTypeOK, drainVars
<1> QED BY <1>2, <1>3, <1>4, <1>5, <1>6, <1>7, <1>8 DEF DrainNext

\* The types hold from the start.
LEMMA DrainTypeInit == DrainInit => DrainTypeOK
<1>1. 0 \in 0..MaxNotices
  BY DrainAssumption
<1> QED BY <1>1 DEF DrainInit, DrainTypeOK

\* The drain's fields keep their types, whatever is announced and whoever waits.
THEOREM DrainTypes == DrainSpec => []DrainTypeOK
BY DrainTypeInit, DrainTypeStep, PTL DEF DrainSpec

\* Every step leaves at most the active drain's own timer armed.
LEMMA TimerStep == DrainTypeOK /\ OnlyTimerArmed /\ [DrainNext]_drainVars => OnlyTimerArmed'
<1> SUFFICES ASSUME DrainTypeOK, OnlyTimerArmed, [DrainNext]_drainVars,
                    NEW j \in Timers, callback'[j] = "armed"
             PROVE  (timer = j /\ active /\ ~shutting)'
  BY DEF OnlyTimerArmed
<1> USE DrainAssumption DEF DrainTypeOK, OnlyTimerArmed
<1>1. CASE Begin
  BY <1>1 DEF Begin, Stopped, Arms
<1>2. CASE Shutdown
  BY <1>2 DEF Shutdown, Stopped
<1>3. CASE Close
  BY <1>3 DEF Close, Stopped
<1>4. CASE HoldStart
  BY <1>4 DEF HoldStart
<1>5. ASSUME NEW k \in Timers, Callback(k)
      PROVE  (timer = j /\ active /\ ~shutting)'
  <2>1. CASE Fire(k)
    BY <2>1 DEF Fire
  <2>2. CASE Expire(k)
    BY <2>2 DEF Expire, Stopped
  <2>3. CASE Resume(k)
    BY <2>3 DEF Resume
  <2> QED BY <1>5, <2>1, <2>2, <2>3 DEF Callback
<1>6. ASSUME NEW a \in Agents, Start(a) \/ ConsumerEnds(a)
      PROVE  (timer = j /\ active /\ ~shutting)'
  BY <1>6 DEF Start, ConsumerEnds
<1>7. CASE UNCHANGED drainVars
  BY <1>7 DEF drainVars
<1> QED BY <1>1, <1>2, <1>3, <1>4, <1>5, <1>6, <1>7 DEF DrainNext

\* No drain ever leaves an armed timer behind it: begin, finish and stop each stop
\* the one timer that can still be armed.
THEOREM OnlyTimerArmedHolds == DrainSpec => []OnlyTimerArmed
<1>1. DrainInit => OnlyTimerArmed
  BY DEF DrainInit, OnlyTimerArmed
<1> QED BY <1>1, TimerStep, DrainTypes, PTL DEF DrainSpec

\* Somebody owes the agents that wait a start.
Owed == active \/ closed \/ \E k \in Timers : callback[k] = "resuming"

\* Every step leaves whoever waits with somebody who owes it a start.
LEMMA HeldStep == DrainTypeOK /\ HeldIsHandedBack /\ [DrainNext]_drainVars => HeldIsHandedBack'
<1> SUFFICES ASSUME DrainTypeOK, HeldIsHandedBack, [DrainNext]_drainVars,
                    (heldAgents # {} \/ asking # NoAgent)'
             PROVE  Owed'
  BY DEF HeldIsHandedBack, Owed
<1> USE DrainAssumption DEF DrainTypeOK
<1>1. heldAgents # {} \/ asking # NoAgent => Owed
  BY DEF HeldIsHandedBack, Owed
<1>2. CASE Begin
  BY <1>2 DEF Begin, Owed
<1>3. CASE Shutdown
  BY <1>3 DEF Shutdown, Owed
<1>4. CASE Close
  BY <1>4 DEF Close, Owed
<1>5. CASE HoldStart
  BY <1>1, <1>5 DEF HoldStart, Owed
<1>6. ASSUME NEW k \in Timers, Callback(k)
      PROVE  Owed'
  <2>1. CASE Fire(k)
    BY <1>1, <2>1 DEF Fire, Owed
  <2>2. CASE Expire(k)
    <3>1. CASE active
      <4>1. callback'[k] = "resuming"
        BY <2>2, <3>1 DEF Expire
      <4> QED BY <4>1 DEF Owed
    <3>2. CASE ~active
      BY <1>1, <2>2, <3>2 DEF Expire, Owed
    <3> QED BY <3>1, <3>2
  \* The held are taken under Inbox.mu, so nobody is between the question and held.
  <2>3. CASE Resume(k)
    BY <2>3 DEF Resume, InboxFree, Owed
  <2> QED BY <1>6, <2>1, <2>2, <2>3 DEF Callback
<1>7. ASSUME NEW a \in Agents, Start(a) \/ ConsumerEnds(a)
      PROVE  Owed'
  BY <1>1, <1>7 DEF Start, ConsumerEnds, InboxFree, Owed
<1>8. CASE UNCHANGED drainVars
  BY <1>1, <1>8 DEF drainVars, Owed
<1> QED BY <1>2, <1>3, <1>4, <1>5, <1>6, <1>7, <1>8 DEF DrainNext

\* The drain strands nobody it made wait: asking it under the inbox's lock is enough,
\* although begin, the callback and the inbox run under different locks.
THEOREM HeldIsHandedBackHolds == DrainSpec => []HeldIsHandedBack
<1>1. DrainInit => HeldIsHandedBack
  BY DEF DrainInit, HeldIsHandedBack
<1> QED BY <1>1, HeldStep, DrainTypes, PTL DEF DrainSpec
=============================================================================
