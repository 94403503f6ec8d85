---------------------------- MODULE InboxProofs ----------------------------
(***************************************************************************)
(* Proofs about Inbox, for every set of agents and goroutines and every    *)
(* bound: one consumer, messages processed once and in order, callers      *)
(* answered, no wakeup lost, and the refinement of AgentQueue.             *)
(***************************************************************************)
EXTENDS InboxRefinement, TLAPS

USE DEF At, Goto, store, memory, drain, procs, callers, env

\* An empty store and an empty Inbox struct have the types.
LEMMA TypeInit == Init => TypeOK
<1> SUFFICES ASSUME Init PROVE TypeOK
  OBVIOUS
<1> USE ConstantsAssumption DEF Init, MsgOrNone, Ids
<1>1. TypeStore
  BY DEF TypeStore, Statuses, Kinds
<1>2. TypeMemory
  BY DEF TypeMemory
<1>3. TypeProcs
  BY DEF TypeProcs, Stages, Finished
<1>4. TypeCallers
  BY DEF TypeCallers, Callers
<1>5. QED
  BY <1>1, <1>2, <1>3, <1>4 DEF TypeOK

\* The types are kept by every step.
LEMMA TypeStep == TypeOK /\ [Next]_vars => TypeOK'
<1> SUFFICES ASSUME TypeOK, [Next]_vars PROVE TypeOK'
  OBVIOUS
<1> USE ConstantsAssumption DEF TypeOK, Ids
<1>1. ASSUME NEW p \in Procs, NEW a \in Agents, NEW k \in UserKinds,
             NEW w \in UserWaits, Enqueue(p, a, k, w)
      PROVE  TypeOK'
  BY <1>1 DEF Enqueue, WriteRow, CallStart, TypeStore, TypeMemory, TypeProcs,
     TypeCallers, Statuses, Stages, Callers, MsgOrNone
<1>2. ASSUME NEW p \in Procs, NEW a \in Agents, BootStart(p, a)
      PROVE  TypeOK'
  BY <1>2 DEF BootStart, CallStart, TypeStore, TypeMemory, TypeProcs, TypeCallers,
     Statuses, Stages, Callers, MsgOrNone
<1>3. ASSUME NEW p \in Procs, NEW q \in Procs, NEW w \in Workers, Delegate(p, q, w)
      PROVE  TypeOK'
  BY <1>3 DEF Delegate, WriteRow, TypeStore, TypeMemory, TypeProcs, TypeCallers,
     Kinds, Statuses, Stages, Callers, MsgOrNone
<1>4. ASSUME NEW i \in Ids, CancelCaller(i)
      PROVE  TypeOK'
  <2>1. ctxDone' \subseteq Ids
    <3>1. \A q \in Procs : asks[q] # 0 => asks[q] \in Ids
      BY DEF TypeProcs, MsgOrNone
    <3>2. QED
      BY <1>4, <3>1 DEF CancelCaller, TypeCallers
  <2>2. QED
    BY <1>4, <2>1 DEF CancelCaller, TypeStore, TypeMemory, TypeProcs, TypeCallers,
       Statuses, Stages, Callers, MsgOrNone
<1>5. ASSUME NEW a \in Agents, Stop(a)
      PROVE  TypeOK'
  <2>1. PICK p \in Procs :
          /\ cancelled' = [cancelled EXCEPT ![p] = TRUE]
          /\ ctxDone' = IF asks[p] # 0 THEN ctxDone \cup {asks[p]} ELSE ctxDone
    BY <1>5 DEF Stop
  <2>2. TypeProcs'
    BY <1>5, <2>1 DEF Stop, TypeProcs
  <2>3. TypeCallers'
    <3>1. ctxDone' \subseteq Ids
      BY <2>1 DEF TypeProcs, TypeCallers, MsgOrNone
    <3>2. QED
      BY <1>5, <3>1 DEF Stop, TypeCallers
  <2>4. QED
    BY <1>5, <2>2, <2>3 DEF Stop, TypeStore, TypeMemory
<1>6. ASSUME BeginDrain
      PROVE  TypeOK'
  BY <1>6 DEF BeginDrain, TypeStore, TypeMemory, TypeProcs, TypeCallers, Statuses,
     Stages, Callers, MsgOrNone
<1>7. ASSUME FinishDrain
      PROVE  TypeOK'
  BY <1>7 DEF FinishDrain, TypeStore, TypeMemory, TypeProcs, TypeCallers, Statuses,
     Stages, Callers, MsgOrNone
<1>8. ASSUME Crash
      PROVE  TypeOK'
  <2>1. TypeStore'
    BY <1>8 DEF Crash, TypeStore, Statuses
  <2>2. TypeMemory'
    BY <1>8 DEF Crash, TypeMemory, TypeProcs
  <2>3. TypeProcs'
    BY <1>8 DEF Crash, TypeProcs, Stages, MsgOrNone, Finished
  <2>4. TypeCallers'
    BY <1>8 DEF Crash, TypeCallers, Callers
  <2>5. QED
    BY <2>1, <2>2, <2>3, <2>4
<1>9. ASSUME NEW i \in Ids, GiveUp(i)
      PROVE  TypeOK'
  BY <1>9 DEF GiveUp, TypeStore, TypeMemory, TypeProcs, TypeCallers, Statuses,
     Stages, Callers, MsgOrNone
<1>10. ASSUME ResumePaused
      PROVE  TypeOK'
  BY <1>10 DEF ResumePaused, TypeStore, TypeMemory, TypeProcs, TypeCallers, Statuses,
     Stages, Callers, MsgOrNone
<1>11. ASSUME NEW p \in Procs, NEW a \in Agents, StartHeld(p, a)
      PROVE  TypeOK'
  BY <1>11 DEF StartHeld, CallStart, TypeStore, TypeMemory, TypeProcs, TypeCallers,
     Statuses, Stages, Callers, MsgOrNone
<1>12. ASSUME NEW p \in Procs, StartHold(p)
      PROVE  TypeOK'
  <2>1. CASE paused
    <3>1. TypeStore'
      BY <1>12, <2>1 DEF StartHold, HoldStart, Leave, Deliver, TypeStore, Statuses
    <3>2. TypeMemory'
      BY <1>12, <2>1 DEF StartHold, HoldStart, Leave, Deliver, TypeMemory, TypeProcs
    <3>3. TypeProcs'
      <4>1. /\ pc' = [pc EXCEPT ![p] = "free"] /\ who' = [who EXCEPT ![p] = NoAgent]
            /\ owed' = [owed EXCEPT ![p] = 0]
            /\ UNCHANGED <<myGen, msg, cancelled, asks, result>>
        BY <1>12, <2>1 DEF StartHold, Leave
      <4>2. QED
        BY <4>1 DEF TypeProcs, Stages, MsgOrNone
    <3>4. TypeCallers'
      BY <1>12, <2>1 DEF StartHold, HoldStart, Leave, Deliver, TypeCallers, Callers
    <3>5. QED
      BY <3>1, <3>2, <3>3, <3>4
  <2>2. CASE ~paused
    <3>1. TypeStore'
      BY <1>12, <2>2 DEF StartHold, HoldStart, Leave, Deliver, TypeStore, Statuses
    <3>2. TypeMemory'
      BY <1>12, <2>2 DEF StartHold, HoldStart, Leave, Deliver, TypeMemory, TypeProcs
    <3>3. TypeProcs'
      BY <1>12, <2>2 DEF StartHold, HoldStart, Leave, Deliver, TypeProcs, Stages,
         MsgOrNone
    <3>4. TypeCallers'
      BY <1>12, <2>2 DEF StartHold, HoldStart, Leave, Deliver, TypeCallers, Callers
    <3>5. QED
      BY <3>1, <3>2, <3>3, <3>4
  <2>3. QED
    BY <1>12, <2>1, <2>2 DEF StartHold
<1>13. ASSUME NEW p \in Procs, Launch(p)
      PROVE  TypeOK'
  <2>1. CASE MayLaunch(p)
    <3>1. TypeStore'
      BY <1>13, <2>1 DEF Launch, MayLaunch, Leave, Deliver, TypeStore, Statuses
    <3>2. TypeMemory'
      BY <1>13, <2>1 DEF Launch, MayLaunch, Leave, Deliver, TypeMemory, TypeProcs
    <3>3. TypeProcs'
      <4>1. gen[who[p]] \in Nat /\ who[p] \in Agents
        BY <1>13 DEF Launch, TypeProcs, TypeMemory
      <4>2. QED
        BY <1>13, <2>1, <4>1 DEF Launch, TypeProcs, Stages, MsgOrNone
    <3>4. TypeCallers'
      BY <1>13, <2>1 DEF Launch, MayLaunch, Leave, Deliver, TypeCallers, Callers
    <3>5. QED
      BY <3>1, <3>2, <3>3, <3>4
  <2>2. CASE ~MayLaunch(p)
    <3>1. TypeStore'
      BY <1>13, <2>2 DEF Launch, MayLaunch, Leave, Deliver, TypeStore, Statuses
    <3>2. TypeMemory'
      BY <1>13, <2>2 DEF Launch, MayLaunch, Leave, Deliver, TypeMemory, TypeProcs
    <3>3. TypeProcs'
      BY <1>13, <2>2 DEF Launch, Leave, TypeProcs, Stages, MsgOrNone
    <3>4. TypeCallers'
      BY <1>13, <2>2 DEF Launch, MayLaunch, Leave, Deliver, TypeCallers, Callers
    <3>5. QED
      BY <3>1, <3>2, <3>3, <3>4
  <2>3. QED
    BY <1>13, <2>1, <2>2 DEF Launch
<1>14. ASSUME NEW p \in Procs, AnswerToHandler(p)
      PROVE  TypeOK'
  BY <1>14 DEF AnswerToHandler, TypeStore, TypeMemory, TypeProcs, TypeCallers,
     Statuses, Stages, Callers, MsgOrNone
<1>15. ASSUME NEW p \in Procs, Reclaim(p)
      PROVE  TypeOK'
  <2>1. TypeStore'
    BY <1>15 DEF Reclaim, TakeBack, Fault, NoFault, TypeStore, Statuses
  <2>2. TypeMemory'
    BY <1>15 DEF Reclaim, TakeBack, Fault, NoFault, TypeMemory, TypeProcs
  <2>3. TypeProcs'
    BY <1>15 DEF Reclaim, TakeBack, Fault, NoFault, TypeProcs, Stages, MsgOrNone
  <2>4. TypeCallers'
    BY <1>15 DEF Reclaim, TakeBack, Fault, NoFault, TypeCallers, Callers
  <2>5. QED
    BY <2>1, <2>2, <2>3, <2>4
<1>16. ASSUME NEW p \in Procs, Claim(p)
      PROVE  TypeOK'
  BY <1>16 DEF Claim, Marked, NextInLine, TypeStore, TypeMemory, TypeProcs, TypeCallers,
     Statuses, Stages, Callers, MsgOrNone
<1>17. ASSUME NEW p \in Procs, ClaimNothing(p)
      PROVE  TypeOK'
  BY <1>17 DEF ClaimNothing, TypeStore, TypeMemory, TypeProcs, TypeCallers, Statuses,
     Stages, Callers, MsgOrNone
<1>18. ASSUME NEW p \in Procs, ClaimFails(p)
      PROVE  TypeOK'
  BY <1>18 DEF ClaimFails, Marked, Fault, TypeStore, TypeMemory, TypeProcs, TypeCallers,
     Statuses, Stages, Callers, MsgOrNone
<1>19. ASSUME NEW p \in Procs, HoldCheck(p)
      PROVE  TypeOK'
  <2>1. TypeStore'
    BY <1>19 DEF HoldCheck, HoldStart, TypeStore, Statuses
  <2>2. TypeMemory'
    BY <1>19 DEF HoldCheck, HoldStart, TypeMemory, TypeProcs
  <2>3. TypeProcs'
    BY <1>19 DEF HoldCheck, HoldStart, TypeProcs, Stages, MsgOrNone
  <2>4. TypeCallers'
    BY <1>19 DEF HoldCheck, HoldStart, TypeCallers, Callers
  <2>5. QED
    BY <2>1, <2>2, <2>3, <2>4
<1>20. ASSUME NEW p \in Procs, Requeue(p)
      PROVE  TypeOK'
  <2>1. TypeStore'
    BY <1>20 DEF Requeue, Fault, NoFault, TypeStore, Statuses
  <2>2. TypeMemory'
    BY <1>20 DEF Requeue, Fault, NoFault, TypeMemory, TypeProcs
  <2>3. TypeProcs'
    BY <1>20 DEF Requeue, Fault, NoFault, TypeProcs, Stages, MsgOrNone
  <2>4. TypeCallers'
    BY <1>20 DEF Requeue, Fault, NoFault, TypeCallers, Callers
  <2>5. QED
    BY <2>1, <2>2, <2>3, <2>4
<1>21. ASSUME NEW p \in Procs, Take(p)
      PROVE  TypeOK'
  BY <1>21 DEF Take, TakeWaiter, TypeStore, TypeMemory, TypeProcs, TypeCallers, Statuses, Stages,
     Callers, MsgOrNone
<1>22. ASSUME NEW p \in Procs, NEW err \in BOOLEAN, HandlerReturns(p, err)
      PROVE  TypeOK'
  <2>1. TypeStore'
    BY <1>22 DEF HandlerReturns, Outcome, TypeStore, Statuses
  <2>2. TypeMemory'
    BY <1>22 DEF HandlerReturns, Outcome, TypeMemory, TypeProcs
  <2>3. TypeProcs'
    BY <1>22 DEF HandlerReturns, Outcome, TypeProcs, Stages, MsgOrNone, Finished
  <2>4. TypeCallers'
    BY <1>22 DEF HandlerReturns, Outcome, TypeCallers, Callers
  <2>5. QED
    BY <2>1, <2>2, <2>3, <2>4
<1>23. ASSUME NEW p \in Procs, Finish(p)
      PROVE  TypeOK'
  <2> result[p] \in Statuses
    BY DEF TypeProcs, Statuses
  <2>1. TypeStore'
    BY <1>23 DEF Finish, Fault, NoFault, TypeStore
  <2>2. TypeMemory'
    BY <1>23 DEF Finish, Fault, NoFault, TypeMemory, TypeProcs
  <2>3. TypeProcs'
    BY <1>23 DEF Finish, Fault, NoFault, TypeProcs, Stages, MsgOrNone, Finished
  <2>4. TypeCallers'
    BY <1>23 DEF Finish, Fault, NoFault, TypeCallers, Callers
  <2>5. QED
    BY <2>1, <2>2, <2>3, <2>4
<1>24. ASSUME NEW p \in Procs, DryCheck(p)
      PROVE  TypeOK'
  <2>1. CASE pc' = [pc EXCEPT ![p] = "end"]
    <3>1. TypeStore'
      BY <1>24, <2>1 DEF DryCheck, Deliver, Fault, NoFault, TypeStore, Statuses
    <3>2. TypeMemory'
      BY <1>24, <2>1 DEF DryCheck, Deliver, Fault, NoFault, TypeMemory, TypeProcs
    <3>3. TypeProcs'
      BY <1>24, <2>1 DEF DryCheck, Deliver, Fault, NoFault, TypeProcs, Stages,
         MsgOrNone
    <3>4. TypeCallers'
      BY <1>24, <2>1 DEF DryCheck, Deliver, Fault, NoFault, TypeCallers, Callers
    <3>5. QED
      BY <3>1, <3>2, <3>3, <3>4
  <2>2. CASE pc' = [pc EXCEPT ![p] = "claim"]
    <3>1. TypeStore'
      BY <1>24, <2>2 DEF DryCheck, Deliver, Fault, NoFault, TypeStore, Statuses
    <3>2. TypeMemory'
      BY <1>24, <2>2 DEF DryCheck, Deliver, Fault, NoFault, TypeMemory, TypeProcs
    <3>3. TypeProcs'
      BY <1>24, <2>2 DEF DryCheck, Deliver, Fault, NoFault, TypeProcs, Stages,
         MsgOrNone
    <3>4. TypeCallers'
      BY <1>24, <2>2 DEF DryCheck, Deliver, Fault, NoFault, TypeCallers, Callers
    <3>5. QED
      BY <3>1, <3>2, <3>3, <3>4
  <2>3. QED
    BY <1>24, <2>1, <2>2 DEF DryCheck
<1>25. ASSUME NEW p \in Procs, EndDrain(p)
      PROVE  TypeOK'
  BY <1>25 DEF EndDrain, TypeStore, TypeMemory, TypeProcs, TypeCallers, Statuses,
     Stages, Callers, MsgOrNone
<1>26. ASSUME NEW p \in Procs, Drained(p)
      PROVE  TypeOK'
  BY <1>26 DEF Drained, Leave, Deliver, TypeStore, TypeMemory, TypeProcs,
     TypeCallers, Statuses, Stages, Callers, MsgOrNone
<1>27. CASE UNCHANGED vars
  BY <1>27 DEF vars, TypeStore, TypeMemory, TypeProcs, TypeCallers
<1> HIDE DEF TypeOK
<1>28. QED
  BY <1>1, <1>2, <1>3, <1>4, <1>5, <1>6, <1>7, <1>8, <1>9, <1>10, <1>11, <1>12,
     <1>13, <1>14, <1>15, <1>16, <1>17, <1>18, <1>19, <1>20, <1>21, <1>22, <1>23,
     <1>24, <1>25, <1>26, <1>27
     DEF Next, Environment, Goroutine, Consumer

\* Rows, the Inbox struct's maps and the goroutines keep their types, for any number
\* of agents, goroutines and messages, store failures and crashes included.
THEOREM TypeCorrect == Spec => []TypeOK
BY TypeInit, TypeStep, PTL DEF Spec

-----------------------------------------------------------------------------
\* Nobody drains an inbox at the start.
LEMMA ConsumerInit == Init => ConsumerInv
BY ConstantsAssumption DEF Init, ConsumerInv, RowsNumbered, RunningFlag, OneConsumer,
   HoldsClaim, Reclaimed, Draining, Holding, Ids

\* One consumer per agent, holding what it claimed, is kept by every step.
LEMMA ConsumerStep == TypeOK /\ ConsumerInv /\ [Next]_vars => ConsumerInv'
<1> SUFFICES ASSUME TypeOK, ConsumerInv, [Next]_vars PROVE ConsumerInv'
  OBVIOUS
<1> USE ConstantsAssumption DEF ConsumerInv, Ids, TypeOK, TypeStore, TypeMemory,
   TypeProcs, Draining, Holding
<1>1. ASSUME NEW p \in Procs, NEW a \in Agents, NEW k \in UserKinds,
             NEW w \in UserWaits, Enqueue(p, a, k, w)
      PROVE  ConsumerInv'
  BY <1>1 DEF Enqueue, WriteRow, CallStart, RowsNumbered, RunningFlag, OneConsumer,
     HoldsClaim, Reclaimed
<1>2. ASSUME NEW p \in Procs, NEW a \in Agents, BootStart(p, a)
      PROVE  ConsumerInv'
  BY <1>2 DEF BootStart, CallStart, RowsNumbered, RunningFlag, OneConsumer,
     HoldsClaim, Reclaimed
<1>3. ASSUME NEW p \in Procs, NEW q \in Procs, NEW w \in Workers, Delegate(p, q, w)
      PROVE  ConsumerInv'
  BY <1>3 DEF Delegate, WriteRow, RowsNumbered, RunningFlag, OneConsumer, HoldsClaim,
     Reclaimed
<1>4. ASSUME NEW i \in Ids, CancelCaller(i)
      PROVE  ConsumerInv'
  BY <1>4 DEF CancelCaller, RowsNumbered, RunningFlag, OneConsumer, HoldsClaim,
     Reclaimed
<1>5. ASSUME NEW a \in Agents, Stop(a)
      PROVE  ConsumerInv'
  BY <1>5 DEF Stop, RowsNumbered, RunningFlag, OneConsumer, HoldsClaim, Reclaimed
<1>6. ASSUME BeginDrain
      PROVE  ConsumerInv'
  BY <1>6 DEF BeginDrain, RowsNumbered, RunningFlag, OneConsumer, HoldsClaim,
     Reclaimed
<1>7. ASSUME FinishDrain
      PROVE  ConsumerInv'
  BY <1>7 DEF FinishDrain, RowsNumbered, RunningFlag, OneConsumer, HoldsClaim,
     Reclaimed
<1>8. ASSUME Crash
      PROVE  ConsumerInv'
  BY <1>8 DEF Crash, RowsNumbered, RunningFlag, OneConsumer, HoldsClaim, Reclaimed
<1>9. ASSUME NEW i \in Ids, GiveUp(i)
      PROVE  ConsumerInv'
  BY <1>9 DEF GiveUp, RowsNumbered, RunningFlag, OneConsumer, HoldsClaim, Reclaimed
<1>10. ASSUME ResumePaused
      PROVE  ConsumerInv'
  BY <1>10 DEF ResumePaused, RowsNumbered, RunningFlag, OneConsumer, HoldsClaim,
     Reclaimed
<1>11. ASSUME NEW p \in Procs, NEW a \in Agents, StartHeld(p, a)
      PROVE  ConsumerInv'
  BY <1>11 DEF StartHeld, CallStart, RowsNumbered, RunningFlag, OneConsumer,
     HoldsClaim, Reclaimed
<1>12. ASSUME NEW p \in Procs, StartHold(p)
      PROVE  ConsumerInv'
  <2>1. CASE paused
    <3>1. /\ pc[p] = "start" /\ pc' = [pc EXCEPT ![p] = "free"]
          /\ who' = [who EXCEPT ![p] = NoAgent]
          /\ UNCHANGED <<status, to, last, reclaim, msg>> /\ UNCHANGED running
      BY <1>12, <2>1 DEF StartHold, Leave, store
    <3>2. RowsNumbered'
      BY <3>1, <2>1 DEF RowsNumbered, MayLaunch
    <3>3. RunningFlag'
      BY <3>1, <2>1 DEF RunningFlag, OneConsumer, MayLaunch
    <3>4. OneConsumer'
      BY <3>1, <2>1 DEF OneConsumer, RunningFlag, MayLaunch
    <3>5. HoldsClaim'
      BY <3>1, <2>1 DEF HoldsClaim, OneConsumer, RowsNumbered, MayLaunch
    <3>6. Reclaimed'
      BY <3>1, <2>1 DEF Reclaimed, MayLaunch
    <3>7. QED
      BY <3>2, <3>3, <3>4, <3>5, <3>6
  <2>2. CASE ~paused
    <3>1. /\ pc[p] = "start" /\ pc' = [pc EXCEPT ![p] = "launch"]
          /\ UNCHANGED who
          /\ UNCHANGED <<status, to, last, reclaim, msg>> /\ UNCHANGED running
      BY <1>12, <2>2 DEF StartHold, store
    <3>2. RowsNumbered'
      BY <3>1, <2>2 DEF RowsNumbered, MayLaunch
    <3>3. RunningFlag'
      BY <3>1, <2>2 DEF RunningFlag, OneConsumer, MayLaunch
    <3>4. OneConsumer'
      BY <3>1, <2>2 DEF OneConsumer, RunningFlag, MayLaunch
    <3>5. HoldsClaim'
      BY <3>1, <2>2 DEF HoldsClaim, OneConsumer, RowsNumbered, MayLaunch
    <3>6. Reclaimed'
      BY <3>1, <2>2 DEF Reclaimed, MayLaunch
    <3>7. QED
      BY <3>2, <3>3, <3>4, <3>5, <3>6
  <2>3. QED
    BY <2>1, <2>2
<1>13. ASSUME NEW p \in Procs, Launch(p)
      PROVE  ConsumerInv'
  <2>1. CASE MayLaunch(p)
    <3>1. /\ pc[p] = "launch" /\ pc' = [pc EXCEPT ![p] = "reclaim"]
          /\ running' = [running EXCEPT ![who[p]] = TRUE]
          /\ UNCHANGED who
          /\ UNCHANGED <<status, to, last, reclaim, msg>>
      BY <1>13, <2>1 DEF Launch, store
    <3>2. RowsNumbered'
      BY <3>1, <2>1 DEF RowsNumbered, MayLaunch
    <3>3. RunningFlag'
      BY <3>1, <2>1 DEF RunningFlag, OneConsumer, MayLaunch
    <3>4. OneConsumer'
      BY <3>1, <2>1 DEF OneConsumer, RunningFlag, MayLaunch
    <3>5. HoldsClaim'
      BY <3>1, <2>1 DEF HoldsClaim, OneConsumer, RowsNumbered, MayLaunch
    <3>6. Reclaimed'
      BY <3>1, <2>1 DEF Reclaimed, MayLaunch
    <3>7. QED
      BY <3>2, <3>3, <3>4, <3>5, <3>6
  <2>2. CASE ~MayLaunch(p)
    <3>1. /\ pc[p] = "launch" /\ pc' = [pc EXCEPT ![p] = "free"]
          /\ who' = [who EXCEPT ![p] = NoAgent]
          /\ UNCHANGED <<status, to, last, reclaim, msg>> /\ UNCHANGED running
      BY <1>13, <2>2 DEF Launch, Leave, store
    <3>2. RowsNumbered'
      BY <3>1, <2>2 DEF RowsNumbered, MayLaunch
    <3>3. RunningFlag'
      BY <3>1, <2>2 DEF RunningFlag, OneConsumer, MayLaunch
    <3>4. OneConsumer'
      BY <3>1, <2>2 DEF OneConsumer, RunningFlag, MayLaunch
    <3>5. HoldsClaim'
      BY <3>1, <2>2 DEF HoldsClaim, OneConsumer, RowsNumbered, MayLaunch
    <3>6. Reclaimed'
      BY <3>1, <2>2 DEF Reclaimed, MayLaunch
    <3>7. QED
      BY <3>2, <3>3, <3>4, <3>5, <3>6
  <2>3. QED
    BY <2>1, <2>2
<1>14. ASSUME NEW p \in Procs, AnswerToHandler(p)
      PROVE  ConsumerInv'
  BY <1>14 DEF AnswerToHandler, RowsNumbered, RunningFlag, OneConsumer, HoldsClaim,
     Reclaimed
<1>15. ASSUME NEW p \in Procs, Reclaim(p)
      PROVE  ConsumerInv'
  BY <1>15 DEF Reclaim, TakeBack, Fault, NoFault, RowsNumbered, RunningFlag,
     OneConsumer, HoldsClaim, Reclaimed
<1>16. ASSUME NEW p \in Procs, Claim(p)
      PROVE  ConsumerInv'
  <2>0. PICK i \in Queued(who[p]) :
          /\ status' = [status EXCEPT ![i] = "running"]
          /\ msg' = [msg EXCEPT ![p] = i]
          /\ pc' = [pc EXCEPT ![p] = IF isNewRunKind(kind[i]) THEN "hold" ELSE "take"]
    BY <1>16 DEF Claim, Marked, NextInLine, Queued
  <2> USE <2>0
  <2>1. RowsNumbered'
    BY <1>16 DEF Claim, Marked, Queued, RowsNumbered
  <2>2. RunningFlag'
    BY <1>16 DEF Claim, Marked, Queued, RunningFlag, OneConsumer
  <2>3. OneConsumer'
    BY <1>16 DEF Claim, Marked, Queued, OneConsumer, RunningFlag
  <2>4. HoldsClaim'
    BY <1>16 DEF Claim, Marked, Queued, HoldsClaim, OneConsumer, RowsNumbered
  <2>5. Reclaimed'
    BY <1>16 DEF Claim, Marked, Queued, Reclaimed
  <2>6. QED
    BY <2>1, <2>2, <2>3, <2>4, <2>5
<1>17. ASSUME NEW p \in Procs, ClaimNothing(p)
      PROVE  ConsumerInv'
  BY <1>17 DEF ClaimNothing, RowsNumbered, RunningFlag, OneConsumer, HoldsClaim,
     Reclaimed
<1>18. ASSUME NEW p \in Procs, ClaimFails(p)
      PROVE  ConsumerInv'
  <2>1. CASE UNCHANGED status
    <3>1. RowsNumbered'
      BY <1>18, <2>1 DEF ClaimFails, Marked, Queued, RowsNumbered
    <3>2. RunningFlag'
      BY <1>18, <2>1 DEF ClaimFails, Marked, Queued, RunningFlag, OneConsumer
    <3>3. OneConsumer'
      BY <1>18, <2>1 DEF ClaimFails, Marked, Queued, OneConsumer, RunningFlag
    <3>4. HoldsClaim'
      BY <1>18, <2>1 DEF ClaimFails, Marked, Queued, HoldsClaim, OneConsumer, RowsNumbered
    <3>5. Reclaimed'
      BY <1>18, <2>1 DEF ClaimFails, Marked, Queued, Reclaimed
    <3>6. QED
      BY <3>1, <3>2, <3>3, <3>4, <3>5
  <2>2. CASE \E i \in Queued(who[p]) : status' = [status EXCEPT ![i] = "running"]
    <3>1. RowsNumbered'
      BY <1>18, <2>2 DEF ClaimFails, Marked, Queued, RowsNumbered
    <3>2. RunningFlag'
      BY <1>18, <2>2 DEF ClaimFails, Marked, Queued, RunningFlag, OneConsumer
    <3>3. OneConsumer'
      BY <1>18, <2>2 DEF ClaimFails, Marked, Queued, OneConsumer, RunningFlag
    <3>4. HoldsClaim'
      BY <1>18, <2>2 DEF ClaimFails, Marked, Queued, HoldsClaim, OneConsumer, RowsNumbered
    <3>5. Reclaimed'
      BY <1>18, <2>2 DEF ClaimFails, Marked, Queued, Reclaimed
    <3>6. QED
      BY <3>1, <3>2, <3>3, <3>4, <3>5
  <2>3. QED
    BY <1>18, <2>1, <2>2 DEF ClaimFails, Marked, NextInLine
<1>19. ASSUME NEW p \in Procs, HoldCheck(p)
      PROVE  ConsumerInv'
  BY <1>19 DEF HoldCheck, HoldStart, RowsNumbered, RunningFlag, OneConsumer,
     HoldsClaim, Reclaimed
<1>20. ASSUME NEW p \in Procs, Requeue(p)
      PROVE  ConsumerInv'
  BY <1>20 DEF Requeue, Fault, NoFault, RowsNumbered, RunningFlag, OneConsumer,
     HoldsClaim, Reclaimed
<1>21. ASSUME NEW p \in Procs, Take(p)
      PROVE  ConsumerInv'
  BY <1>21 DEF Take, TakeWaiter, RowsNumbered, RunningFlag, OneConsumer, HoldsClaim, Reclaimed
<1>22. ASSUME NEW p \in Procs, NEW err \in BOOLEAN, HandlerReturns(p, err)
      PROVE  ConsumerInv'
  BY <1>22 DEF HandlerReturns, Outcome, RowsNumbered, RunningFlag, OneConsumer, HoldsClaim,
     Reclaimed
<1>23. ASSUME NEW p \in Procs, Finish(p)
      PROVE  ConsumerInv'
  <2>1. CASE status' = status
    <3>1. RowsNumbered'
      BY <1>23, <2>1 DEF Finish, Fault, NoFault, RowsNumbered
    <3>2. RunningFlag'
      BY <1>23, <2>1 DEF Finish, Fault, NoFault, RunningFlag, OneConsumer
    <3>3. OneConsumer'
      BY <1>23, <2>1 DEF Finish, Fault, NoFault, OneConsumer, RunningFlag
    <3>4. HoldsClaim'
      BY <1>23, <2>1 DEF Finish, Fault, NoFault, HoldsClaim, OneConsumer, RowsNumbered
    <3>5. Reclaimed'
      BY <1>23, <2>1 DEF Finish, Fault, NoFault, Reclaimed
    <3>6. QED
      BY <3>1, <3>2, <3>3, <3>4, <3>5
  <2>2. CASE status' = [status EXCEPT ![msg[p]] = result[p]]
    <3>1. RowsNumbered'
      <4>1. msg[p] \in Ids /\ status[msg[p]] = "running"
        BY <1>23 DEF Finish, HoldsClaim
      <4>2. result[p] # "absent"
        BY DEF Finished
      <4>3. QED
        BY <1>23, <2>2, <4>1, <4>2 DEF Finish, RowsNumbered
    <3>2. RunningFlag'
      BY <1>23, <2>2 DEF Finish, Fault, NoFault, RunningFlag, OneConsumer
    <3>3. OneConsumer'
      BY <1>23, <2>2 DEF Finish, Fault, NoFault, OneConsumer, RunningFlag
    <3>4. HoldsClaim'
      BY <1>23, <2>2 DEF Finish, Fault, NoFault, HoldsClaim, OneConsumer, RowsNumbered
    <3>5. Reclaimed'
      BY <1>23, <2>2 DEF Finish, Fault, NoFault, Reclaimed
    <3>6. QED
      BY <3>1, <3>2, <3>3, <3>4, <3>5
  <2>3. QED
    BY <1>23, <2>1, <2>2 DEF Finish, Fault, NoFault
<1>24. ASSUME NEW p \in Procs, DryCheck(p)
      PROVE  ConsumerInv'
  <2>1. CASE pc' = [pc EXCEPT ![p] = "end"]
    <3>1. RowsNumbered'
      BY <1>24, <2>1 DEF DryCheck, Deliver, Fault, NoFault, RowsNumbered
    <3>2. RunningFlag'
      BY <1>24, <2>1 DEF DryCheck, Deliver, Fault, NoFault, RunningFlag, OneConsumer
    <3>3. OneConsumer'
      BY <1>24, <2>1 DEF DryCheck, Deliver, Fault, NoFault, OneConsumer, RunningFlag
    <3>4. HoldsClaim'
      BY <1>24, <2>1 DEF DryCheck, Deliver, Fault, NoFault, HoldsClaim, OneConsumer,
         RowsNumbered
    <3>5. Reclaimed'
      BY <1>24, <2>1 DEF DryCheck, Deliver, Fault, NoFault, Reclaimed
    <3>6. QED
      BY <3>1, <3>2, <3>3, <3>4, <3>5
  <2>2. CASE pc' = [pc EXCEPT ![p] = "claim"]
    <3>1. RowsNumbered'
      BY <1>24, <2>2 DEF DryCheck, Deliver, Fault, NoFault, RowsNumbered
    <3>2. RunningFlag'
      BY <1>24, <2>2 DEF DryCheck, Deliver, Fault, NoFault, RunningFlag, OneConsumer
    <3>3. OneConsumer'
      BY <1>24, <2>2 DEF DryCheck, Deliver, Fault, NoFault, OneConsumer, RunningFlag
    <3>4. HoldsClaim'
      BY <1>24, <2>2 DEF DryCheck, Deliver, Fault, NoFault, HoldsClaim, OneConsumer,
         RowsNumbered
    <3>5. Reclaimed'
      BY <1>24, <2>2 DEF DryCheck, Deliver, Fault, NoFault, Reclaimed
    <3>6. QED
      BY <3>1, <3>2, <3>3, <3>4, <3>5
  <2>3. QED
    BY <1>24, <2>1, <2>2 DEF DryCheck, Deliver, Fault, NoFault
<1>25. ASSUME NEW p \in Procs, EndDrain(p)
      PROVE  ConsumerInv'
  BY <1>25 DEF EndDrain, RowsNumbered, RunningFlag, OneConsumer, HoldsClaim, Reclaimed
<1>26. ASSUME NEW p \in Procs, Drained(p)
      PROVE  ConsumerInv'
  BY <1>26 DEF Drained, Leave, Deliver, RowsNumbered, RunningFlag, OneConsumer,
     HoldsClaim, Reclaimed
<1>27. CASE UNCHANGED vars
  BY <1>27 DEF vars, RowsNumbered, RunningFlag, OneConsumer, HoldsClaim, Reclaimed
<1> HIDE DEF ConsumerInv, TypeOK
<1>28. QED
  BY <1>1, <1>2, <1>3, <1>4, <1>5, <1>6, <1>7, <1>8, <1>9, <1>10, <1>11, <1>12,
     <1>13, <1>14, <1>15, <1>16, <1>17, <1>18, <1>19, <1>20, <1>21, <1>22, <1>23,
     <1>24, <1>25, <1>26, <1>27
     DEF Next, Environment, Goroutine, Consumer

\* OneConsumer for every instance: the running flag is tested and set under one
\* lock, and cleared by the goroutine that set it.
THEOREM OneConsumerHolds == Spec => []OneConsumer
<1>1. TypeOK /\ ConsumerInv => OneConsumer
  BY DEF ConsumerInv
<1>2. QED
  BY <1>1, TypeInit, TypeStep, ConsumerInit, ConsumerStep, PTL DEF Spec

\* ClaimedOnce for every instance, store failures, crashes and drains included.
THEOREM ClaimedOnceHolds == Spec => []ClaimedOnce
<1>1. TypeOK /\ ConsumerInv => ClaimedOnce
  <2> SUFFICES ASSUME ConsumerInv, NEW p \in Procs, pc[p] \in Holding
               PROVE  /\ msg[p] \in Ids /\ status[msg[p]] = "running"
                      /\ to[msg[p]] = who[p]
                      /\ \A q \in Procs : pc[q] \in Holding /\ msg[q] = msg[p] => p = q
    BY DEF ClaimedOnce
  <2>1. \A q \in Procs : pc[q] \in Holding =>
          msg[q] \in Ids /\ status[msg[q]] = "running" /\ to[msg[q]] = who[q]
    BY DEF ConsumerInv, HoldsClaim
  <2>2. QED
    BY <2>1 DEF ConsumerInv, OneConsumer, Holding, Draining
<1>2. QED
  BY <1>1, TypeInit, TypeStep, ConsumerInit, ConsumerStep, PTL DEF Spec

-----------------------------------------------------------------------------
\* Nothing is claimed at the start.
LEMMA OrderInit == Init => OrderInv
BY DEF Init, OrderInv, NoOrphanClaim, InOrder, Later

\* Arrival order is kept: what a consumer claims has only finished rows before
\* it, because a row still running is held by this agent's one consumer or was
\* taken back before that consumer's first claim.
LEMMA OrderStep ==
  TypeOK /\ ConsumerInv /\ OrderInv /\ [Next]_vars => OrderInv'
<1> SUFFICES ASSUME MaxFault = 0, TypeOK, ConsumerInv, NoOrphanClaim, InOrder,
                    [Next]_vars
             PROVE  NoOrphanClaim' /\ InOrder'
  BY DEF OrderInv
<1> USE ConstantsAssumption DEF TypeOK, TypeStore, TypeMemory, TypeProcs, Ids,
   ConsumerInv, RowsNumbered, HoldsClaim, Holding, Finished
<1>1. ASSUME NEW p \in Procs, NEW a \in Agents, NEW k \in UserKinds,
             NEW w \in UserWaits, Enqueue(p, a, k, w)
      PROVE  NoOrphanClaim' /\ InOrder'
  <2>1. /\ last + 1 \in Ids /\ status[last + 1] = "absent"
        /\ \A i \in Ids : status[i] # "absent" => i <= last
        /\ status' = [status EXCEPT ![last + 1] = "queued"]
        /\ to' = [to EXCEPT ![last + 1] = a]
        /\ pc[p] = "free" /\ pc' = [pc EXCEPT ![p] = "start"]
        /\ UNCHANGED <<reclaim, msg, faults>>
    BY <1>1 DEF Enqueue, WriteRow, CallStart
  <2>2. NoOrphanClaim'
    <3>1. ASSUME NEW j \in Ids, status'[j] = "running"
          PROVE  \/ ~reclaim'[to'[j]]
                 \/ \E r \in Procs : pc'[r] \in Holding /\ msg'[r] = j
      <4>1. status[j] = "running" /\ to'[j] = to[j]
        BY <2>1, <3>1
      <4>2. CASE \E r \in Procs : pc[r] \in Holding /\ msg[r] = j
        <5>1. PICK r \in Procs : pc[r] \in Holding /\ msg[r] = j
          BY <4>2
        <5>2. r # p /\ pc'[r] = pc[r] /\ msg'[r] = msg[r]
          BY <2>1, <5>1
        <5>3. QED
          BY <5>1, <5>2
      <4>3. QED
        BY <2>1, <4>1, <4>2 DEF NoOrphanClaim
    <3>2. QED
      BY <3>1, <2>1 DEF NoOrphanClaim
  <2>3. InOrder'
    BY <2>1 DEF InOrder, Later
  <2>4. QED
    BY <2>2, <2>3
<1>2. ASSUME NEW p \in Procs, NEW a \in Agents, BootStart(p, a)
      PROVE  NoOrphanClaim' /\ InOrder'
  BY <1>2 DEF BootStart, CallStart, NoOrphanClaim, InOrder, Later
<1>3. ASSUME NEW p \in Procs, NEW q \in Procs, NEW w \in Workers, Delegate(p, q, w)
      PROVE  NoOrphanClaim' /\ InOrder'
  <2>1. /\ last + 1 \in Ids /\ status[last + 1] = "absent"
        /\ \A i \in Ids : status[i] # "absent" => i <= last
        /\ status' = [status EXCEPT ![last + 1] = "queued"]
        /\ to' = [to EXCEPT ![last + 1] = w]
        /\ pc[q] = "free" /\ pc' = [pc EXCEPT ![q] = "start"]
        /\ UNCHANGED <<reclaim, msg, faults>>
    BY <1>3 DEF Delegate, WriteRow
  <2>2. NoOrphanClaim'
    <3>1. ASSUME NEW j \in Ids, status'[j] = "running"
          PROVE  \/ ~reclaim'[to'[j]]
                 \/ \E r \in Procs : pc'[r] \in Holding /\ msg'[r] = j
      <4>1. status[j] = "running" /\ to'[j] = to[j]
        BY <2>1, <3>1
      <4>2. CASE \E r \in Procs : pc[r] \in Holding /\ msg[r] = j
        <5>1. PICK r \in Procs : pc[r] \in Holding /\ msg[r] = j
          BY <4>2
        <5>2. r # q /\ pc'[r] = pc[r] /\ msg'[r] = msg[r]
          BY <2>1, <5>1
        <5>3. QED
          BY <5>1, <5>2
      <4>3. QED
        BY <2>1, <4>1, <4>2 DEF NoOrphanClaim
    <3>2. QED
      BY <3>1, <2>1 DEF NoOrphanClaim
  <2>3. InOrder'
    BY <2>1 DEF InOrder, Later
  <2>4. QED
    BY <2>2, <2>3
<1>4. ASSUME NEW i \in Ids, CancelCaller(i)
      PROVE  NoOrphanClaim' /\ InOrder'
  BY <1>4 DEF CancelCaller, NoOrphanClaim, InOrder, Later
<1>5. ASSUME NEW a \in Agents, Stop(a)
      PROVE  NoOrphanClaim' /\ InOrder'
  BY <1>5 DEF Stop, NoOrphanClaim, InOrder, Later
<1>6. ASSUME BeginDrain
      PROVE  NoOrphanClaim' /\ InOrder'
  BY <1>6 DEF BeginDrain, NoOrphanClaim, InOrder, Later
<1>7. ASSUME FinishDrain
      PROVE  NoOrphanClaim' /\ InOrder'
  BY <1>7 DEF FinishDrain, NoOrphanClaim, InOrder, Later
<1>8. ASSUME Crash
      PROVE  NoOrphanClaim' /\ InOrder'
  BY <1>8 DEF Crash, NoOrphanClaim, InOrder, Later
<1>9. ASSUME NEW i \in Ids, GiveUp(i)
      PROVE  NoOrphanClaim' /\ InOrder'
  BY <1>9 DEF GiveUp, NoOrphanClaim, InOrder, Later
<1>10. ASSUME ResumePaused
      PROVE  NoOrphanClaim' /\ InOrder'
  BY <1>10 DEF ResumePaused, NoOrphanClaim, InOrder, Later
<1>11. ASSUME NEW p \in Procs, NEW a \in Agents, StartHeld(p, a)
      PROVE  NoOrphanClaim' /\ InOrder'
  BY <1>11 DEF StartHeld, CallStart, NoOrphanClaim, InOrder, Later
<1>12. ASSUME NEW p \in Procs, StartHold(p)
      PROVE  NoOrphanClaim' /\ InOrder'
  <2>1. CASE paused
    <3>1. /\ pc[p] = "start" /\ pc' = [pc EXCEPT ![p] = "free"]
          /\ UNCHANGED <<status, to, reclaim, msg, faults>>
      BY <1>12, <2>1 DEF StartHold, Leave, store, env
    <3>2. NoOrphanClaim'
      BY <3>1 DEF NoOrphanClaim
    <3>3. InOrder'
      BY <3>1 DEF InOrder, Later
    <3>4. QED
      BY <3>2, <3>3
  <2>2. CASE ~paused
    <3>1. /\ pc[p] = "start" /\ pc' = [pc EXCEPT ![p] = "launch"]
          /\ UNCHANGED <<status, to, reclaim, msg, faults>>
      BY <1>12, <2>2 DEF StartHold, store, env
    <3>2. NoOrphanClaim'
      BY <3>1 DEF NoOrphanClaim
    <3>3. InOrder'
      BY <3>1 DEF InOrder, Later
    <3>4. QED
      BY <3>2, <3>3
  <2>3. QED
    BY <1>12, <2>1, <2>2 DEF StartHold
<1>13. ASSUME NEW p \in Procs, Launch(p)
      PROVE  NoOrphanClaim' /\ InOrder'
  <2>1. CASE MayLaunch(p)
    <3>1. /\ pc[p] = "launch" /\ pc' = [pc EXCEPT ![p] = "reclaim"]
          /\ UNCHANGED <<status, to, reclaim, msg, faults>>
      BY <1>13, <2>1 DEF Launch, store, env
    <3>2. NoOrphanClaim'
      BY <3>1 DEF NoOrphanClaim
    <3>3. InOrder'
      BY <3>1 DEF InOrder, Later
    <3>4. QED
      BY <3>2, <3>3
  <2>2. CASE ~MayLaunch(p)
    <3>1. /\ pc[p] = "launch" /\ pc' = [pc EXCEPT ![p] = "free"]
          /\ UNCHANGED <<status, to, reclaim, msg, faults>>
      BY <1>13, <2>2 DEF Launch, Leave, store, env
    <3>2. NoOrphanClaim'
      BY <3>1 DEF NoOrphanClaim
    <3>3. InOrder'
      BY <3>1 DEF InOrder, Later
    <3>4. QED
      BY <3>2, <3>3
  <2>3. QED
    BY <1>13, <2>1, <2>2 DEF Launch
<1>14. ASSUME NEW p \in Procs, AnswerToHandler(p)
      PROVE  NoOrphanClaim' /\ InOrder'
  BY <1>14 DEF AnswerToHandler, NoOrphanClaim, InOrder, Later
<1>15. ASSUME NEW p \in Procs, Reclaim(p)
      PROVE  NoOrphanClaim' /\ InOrder'
  <2>1. /\ pc[p] = "reclaim" /\ pc' = [pc EXCEPT ![p] = "claim"]
        /\ reclaim' = [reclaim EXCEPT ![who[p]] = TRUE]
        /\ status' = IF reclaim[who[p]] THEN status ELSE TakeBack(who[p])
        /\ UNCHANGED <<to, msg, faults>>
    BY <1>15 DEF Reclaim, Fault, NoFault, NoOrphanClaim
  <2>2. \A i \in Ids : /\ status'[i] = "running" => status[i] = "running"
                       /\ status'[i] # status[i] => status'[i] = "queued" /\ status[i] = "running"
                       /\ status'[i] = "running" /\ to[i] = who[p] => reclaim[who[p]]
    BY <2>1 DEF TakeBack
  <2>3. NoOrphanClaim'
    BY <2>1, <2>2 DEF NoOrphanClaim
  <2>4. InOrder'
    BY <2>1, <2>2 DEF InOrder, Later
  <2>5. QED
    BY <2>3, <2>4
<1>16. ASSUME NEW p \in Procs, Claim(p)
      PROVE  NoOrphanClaim' /\ InOrder'
  <2>1. PICK i \in Ids :
          /\ NextInLine(who[p], i)
          /\ status' = [status EXCEPT ![i] = "running"]
          /\ msg' = [msg EXCEPT ![p] = i]
          /\ pc' = [pc EXCEPT ![p] = IF isNewRunKind(kind[i]) THEN "hold" ELSE "take"]
    BY <1>16 DEF Claim, Marked
  <2>2. /\ pc[p] = "claim" /\ reclaim[who[p]] /\ who[p] \in Agents
        /\ status[i] = "queued" /\ to[i] = who[p]
        /\ UNCHANGED <<to, reclaim, faults>>
    BY <1>16, <2>1 DEF Claim, Marked, NextInLine, Queued, Reclaimed, Draining, memory, env
  <2>3. ASSUME NEW k \in Ids, k < i, to[k] = who[p] PROVE status[k] \in Finished
    <3>1. status[k] # "absent" /\ status[k] # "queued"
      BY <2>1, <2>2, <2>3 DEF NextInLine, Queued
    <3>2. status[k] # "running"
      <4> SUFFICES ASSUME status[k] = "running" PROVE FALSE
        OBVIOUS
      <4>1. PICK r \in Procs : pc[r] \in {"hold", "requeue", "take", "handle", "finish"}
                               /\ msg[r] = k
        BY <2>2, <2>3 DEF NoOrphanClaim
      <4>2. who[r] = who[p]
        BY <4>1, <2>3
      <4>3. QED
        BY <4>1, <4>2, <2>2 DEF OneConsumer, Draining
    <3>3. QED
      BY <3>1, <3>2 DEF Statuses
  <2>4. NoOrphanClaim'
    <3>1. ASSUME NEW j \in Ids, status'[j] = "running", j # i
          PROVE  \/ ~reclaim'[to'[j]]
                 \/ \E r \in Procs : pc'[r] \in Holding /\ msg'[r] = j
      <4>1. status[j] = "running" /\ to'[j] = to[j]
        BY <2>1, <2>2, <3>1
      <4>2. CASE \E r \in Procs : pc[r] \in Holding /\ msg[r] = j
        <5>1. PICK r \in Procs : pc[r] \in Holding /\ msg[r] = j
          BY <4>2
        <5>2. r # p /\ pc'[r] = pc[r] /\ msg'[r] = msg[r]
          BY <2>1, <2>2, <5>1
        <5>3. QED
          BY <5>1, <5>2
      <4>3. QED
        BY <2>1, <2>2, <4>1, <4>2 DEF NoOrphanClaim
    <3>2. pc'[p] \in Holding /\ msg'[p] = i
      BY <2>1, <2>2
    <3>3. QED
      BY <3>1, <3>2, <2>1, <2>2 DEF NoOrphanClaim
  <2>5. InOrder'
    BY <2>1, <2>2, <2>3 DEF InOrder, Later
  <2>6. QED
    BY <2>4, <2>5
<1>17. ASSUME NEW p \in Procs, ClaimNothing(p)
      PROVE  NoOrphanClaim' /\ InOrder'
  BY <1>17 DEF ClaimNothing, NoOrphanClaim, InOrder, Later
<1>18. ASSUME NEW p \in Procs, ClaimFails(p)
      PROVE  NoOrphanClaim' /\ InOrder'
  BY <1>18 DEF ClaimFails, Marked, Fault, NoOrphanClaim, InOrder, Later
<1>19. ASSUME NEW p \in Procs, HoldCheck(p)
      PROVE  NoOrphanClaim' /\ InOrder'
  BY <1>19 DEF HoldCheck, HoldStart, NoOrphanClaim, InOrder, Later
<1>20. ASSUME NEW p \in Procs, Requeue(p)
      PROVE  NoOrphanClaim' /\ InOrder'
  <2>1. /\ pc[p] \in {"requeue", "finish"} /\ who[p] \in Agents
        /\ msg[p] \in Ids /\ status[msg[p]] = "running"
        /\ status' = [status EXCEPT ![msg[p]] = "queued"]
        /\ msg' = [msg EXCEPT ![p] = 0]
        /\ UNCHANGED <<to, reclaim, faults>>
        /\ pc' = [pc EXCEPT ![p] = "end"]
    BY <1>20 DEF Requeue, Fault, NoFault, NoOrphanClaim, memory
  <2>2. NoOrphanClaim'
    BY <2>1 DEF NoOrphanClaim
  <2>3. InOrder'
    BY <2>1 DEF InOrder, Later
  <2>4. QED
    BY <2>2, <2>3
<1>21. ASSUME NEW p \in Procs, Take(p)
      PROVE  NoOrphanClaim' /\ InOrder'
  BY <1>21 DEF Take, TakeWaiter, NoOrphanClaim, InOrder, Later
<1>22. ASSUME NEW p \in Procs, NEW err \in BOOLEAN, HandlerReturns(p, err)
      PROVE  NoOrphanClaim' /\ InOrder'
  BY <1>22 DEF HandlerReturns, Outcome, NoOrphanClaim, InOrder, Later
<1>23. ASSUME NEW p \in Procs, Finish(p)
      PROVE  NoOrphanClaim' /\ InOrder'
  <2>1. /\ pc[p] \in {"requeue", "finish"} /\ who[p] \in Agents
        /\ msg[p] \in Ids /\ status[msg[p]] = "running"
        /\ status' = [status EXCEPT ![msg[p]] = result[p]]
        /\ msg' = [msg EXCEPT ![p] = 0]
        /\ UNCHANGED <<to, reclaim, faults>>
        /\ pc' = [pc EXCEPT ![p] = IF owed[p] = 0 THEN "claim" ELSE "dry"]
    BY <1>23 DEF Finish, Fault, NoFault, NoOrphanClaim, memory
  <2>2. result[p] \in Finished
    OBVIOUS
  <2>3. NoOrphanClaim'
    BY <2>1, <2>2 DEF NoOrphanClaim
  <2>4. InOrder'
    BY <2>1, <2>2 DEF InOrder, Later
  <2>5. QED
    BY <2>3, <2>4
<1>24. ASSUME NEW p \in Procs, DryCheck(p)
      PROVE  NoOrphanClaim' /\ InOrder'
  <2>1. CASE Queued(who[p]) = {}
    <3>1. /\ pc[p] = "dry" /\ pc' = [pc EXCEPT ![p] = "end"]
          /\ UNCHANGED <<status, to, reclaim, msg, faults>>
      BY <1>24, <2>1 DEF NoOrphanClaim, DryCheck, Fault, NoFault, store, memory
    <3>2. NoOrphanClaim'
      BY <3>1 DEF NoOrphanClaim
    <3>3. InOrder'
      BY <3>1 DEF InOrder, Later
    <3>4. QED
      BY <3>2, <3>3
  <2>2. CASE Queued(who[p]) # {}
    <3>1. /\ pc[p] = "dry" /\ pc' = [pc EXCEPT ![p] = "claim"]
          /\ UNCHANGED <<status, to, reclaim, msg, faults>>
      BY <1>24, <2>2 DEF NoOrphanClaim, DryCheck, Fault, NoFault, store, memory
    <3>2. NoOrphanClaim'
      BY <3>1 DEF NoOrphanClaim
    <3>3. InOrder'
      BY <3>1 DEF InOrder, Later
    <3>4. QED
      BY <3>2, <3>3
  <2>3. QED
    BY <1>24, <2>1, <2>2 DEF DryCheck
<1>25. ASSUME NEW p \in Procs, EndDrain(p)
      PROVE  NoOrphanClaim' /\ InOrder'
  BY <1>25 DEF EndDrain, NoOrphanClaim, InOrder, Later
<1>26. ASSUME NEW p \in Procs, Drained(p)
      PROVE  NoOrphanClaim' /\ InOrder'
  BY <1>26 DEF Drained, Leave, Deliver, NoOrphanClaim, InOrder, Later
<1>27. CASE UNCHANGED vars
  BY <1>27 DEF vars, NoOrphanClaim, InOrder, Later
<1> HIDE DEF NoOrphanClaim, InOrder, ConsumerInv, TypeOK
<1>28. QED
  BY <1>1, <1>2, <1>3, <1>4, <1>5, <1>6, <1>7, <1>8, <1>9, <1>10, <1>11, <1>12,
     <1>13, <1>14, <1>15, <1>16, <1>17, <1>18, <1>19, <1>20, <1>21, <1>22, <1>23,
     <1>24, <1>25, <1>26, <1>27
     DEF Next, Environment, Goroutine, Consumer

\* InOrder for every instance whose store statements succeed.
THEOREM InOrderHolds == Spec => []InOrder
<1>1. TypeOK /\ ConsumerInv /\ OrderInv => InOrder
  BY DEF OrderInv, InOrder
<1>2. QED
  BY <1>1, TypeInit, TypeStep, ConsumerInit, ConsumerStep, OrderInit, OrderStep, PTL
     DEF Spec

\* Nobody owes anything and nobody waits in the initial state.
LEMMA CallerInit == Init => CallerInv
<1> SUFFICES ASSUME Init PROVE CallerInv
  OBVIOUS
<1>1. OwesItsOwn
  BY DEF Init, OwesItsOwn
<1>2. WaiterNotStranded
  BY DEF Init, WaiterNotStranded
<1>3. AnsweredAfterTheEnd
  BY DEF Init, AnsweredAfterTheEnd
<1>4. QED
  BY <1>1, <1>2, <1>3 DEF CallerInv

\* A goroutine that sends the outcome it owes and owes nothing more (the return
\* of start and drained, the spawn of a consumer, a caller released mid-queue)
\* keeps the callers' invariant.
LEMMA OutcomeSent ==
  ASSUME TypeOK, CallerInv, NEW p \in Procs, NEW stage \in {"free", "reclaim", "claim"},
         pc[p] \notin {"handle", "finish"},
         pc' = [pc EXCEPT ![p] = stage],
         owed' = [owed EXCEPT ![p] = 0],
         Deliver(owed[p]),
         UNCHANGED <<status, msg, waiters>>
  PROVE  CallerInv'
<1> USE DEF TypeOK, TypeStore, TypeProcs, TypeCallers, CallerInv
<1>1. /\ owed[p] \in MsgOrNone
      /\ \A q \in Procs : q # p => pc'[q] = pc[q] /\ owed'[q] = owed[q]
      /\ pc'[p] = stage /\ owed'[p] = 0
  OBVIOUS
<1>2. OwesItsOwn'
  BY <1>1 DEF OwesItsOwn
<1>3. \A i \in Ids : caller'[i] = IF i = owed[p] /\ caller[i] = "waiting"
                                     THEN "answered" ELSE caller[i]
  BY DEF Deliver
<1>4. WaiterNotStranded'
  <2> SUFFICES ASSUME NEW i \in Ids, caller'[i] = "waiting"
               PROVE  \/ i \in waiters /\ status[i] \in {"queued", "running"}
                      \/ \E q \in Procs : owed'[q] = i /\ pc'[q] # "free"
    BY DEF WaiterNotStranded
  <2>1. i # owed[p] /\ caller[i] = "waiting"
    BY <1>3
  <2>2. CASE i \in waiters /\ status[i] \in {"queued", "running"}
    BY <2>2
  <2>3. CASE \E q \in Procs : owed[q] = i /\ pc[q] # "free"
    BY <2>3, <2>1, <1>1
  <2>4. QED
    BY <2>1, <2>2, <2>3 DEF WaiterNotStranded
<1>5. AnsweredAfterTheEnd'
  <2> SUFFICES ASSUME MaxFault = 0, NEW i \in Ids, caller'[i] = "answered"
               PROVE  status[i] \in Finished
    BY DEF AnsweredAfterTheEnd
  <2>1. CASE i = owed[p]
    <3>1. owed[p] # 0
      BY <2>1, ConstantsAssumption DEF Ids
    <3>2. QED
      BY <2>1, <3>1 DEF OwesItsOwn
  <2>2. CASE i # owed[p]
    BY <2>2, <1>3 DEF AnsweredAfterTheEnd
  <2>3. QED
    BY <2>1, <2>2
<1>6. QED
  BY <1>2, <1>4, <1>5

\* A goroutine past its message that goes on without touching what it owes keeps
\* the callers' invariant.
LEMMA OutcomeKept ==
  ASSUME TypeOK, CallerInv, NEW p \in Procs, NEW stage \in {"launch", "end"},
         pc[p] \in {"start", "dry"},
         pc' = [pc EXCEPT ![p] = stage],
         UNCHANGED <<status, msg, waiters, owed, caller>>
  PROVE  CallerInv'
<1> USE DEF TypeOK, TypeProcs, CallerInv
<1>1. \A q \in Procs : pc'[q] = IF q = p THEN stage ELSE pc[q]
  OBVIOUS
<1>2. OwesItsOwn'
  BY <1>1 DEF OwesItsOwn
<1>3. WaiterNotStranded'
  BY <1>1 DEF WaiterNotStranded
<1>4. AnsweredAfterTheEnd'
  BY DEF AnsweredAfterTheEnd
<1>5. QED
  BY <1>2, <1>3, <1>4

\* The callers' invariant is kept by every step.
LEMMA CallerStep == TypeOK /\ ConsumerInv /\ CallerInv /\ [Next]_vars => CallerInv'
<1> SUFFICES ASSUME TypeOK, ConsumerInv, CallerInv, [Next]_vars PROVE CallerInv'
  OBVIOUS
<1> USE ConstantsAssumption DEF TypeOK, TypeStore, TypeMemory, TypeProcs, TypeCallers,
    ConsumerInv, CallerInv, Holding, Ids, MsgOrNone, Finished
<1>1. ASSUME NEW p \in Procs, NEW a \in Agents, NEW k \in UserKinds, NEW w \in UserWaits, Enqueue(p, a, k, w)
      PROVE  CallerInv'
  <2>1. OwesItsOwn'
    BY <1>1 DEF Enqueue, WriteRow, CallStart, OwesItsOwn, HoldsClaim, RowsNumbered,
       Statuses
  <2>2. WaiterNotStranded'
    BY <1>1 DEF Enqueue, WriteRow, CallStart, OwesItsOwn, WaiterNotStranded,
       HoldsClaim, RowsNumbered
  <2>3. AnsweredAfterTheEnd'
    BY <1>1 DEF Enqueue, WriteRow, CallStart, OwesItsOwn, AnsweredAfterTheEnd,
       HoldsClaim, RowsNumbered
  <2>4. QED
    BY <2>1, <2>2, <2>3
<1>2. ASSUME NEW p \in Procs, NEW a \in Agents, BootStart(p, a)
      PROVE  CallerInv'
  <2>1. OwesItsOwn'
    BY <1>2 DEF BootStart, CallStart, OwesItsOwn, HoldsClaim, RowsNumbered, Statuses
  <2>2. WaiterNotStranded'
    BY <1>2 DEF BootStart, CallStart, OwesItsOwn, WaiterNotStranded, HoldsClaim,
       RowsNumbered
  <2>3. AnsweredAfterTheEnd'
    BY <1>2 DEF BootStart, CallStart, OwesItsOwn, AnsweredAfterTheEnd, HoldsClaim,
       RowsNumbered
  <2>4. QED
    BY <2>1, <2>2, <2>3
<1>3. ASSUME NEW p \in Procs, NEW q \in Procs, NEW w \in Workers, Delegate(p, q, w)
      PROVE  CallerInv'
  <2>1. OwesItsOwn'
    BY <1>3 DEF Delegate, WriteRow, OwesItsOwn, HoldsClaim, RowsNumbered, Statuses
  <2>2. WaiterNotStranded'
    BY <1>3 DEF Delegate, WriteRow, OwesItsOwn, WaiterNotStranded, HoldsClaim,
       RowsNumbered
  <2>3. AnsweredAfterTheEnd'
    BY <1>3 DEF Delegate, WriteRow, OwesItsOwn, AnsweredAfterTheEnd, HoldsClaim,
       RowsNumbered
  <2>4. QED
    BY <2>1, <2>2, <2>3
<1>4. ASSUME NEW i \in Ids, CancelCaller(i)
      PROVE  CallerInv'
  <2>1. OwesItsOwn'
    BY <1>4 DEF CancelCaller, OwesItsOwn, HoldsClaim, RowsNumbered, Statuses
  <2>2. WaiterNotStranded'
    BY <1>4 DEF CancelCaller, OwesItsOwn, WaiterNotStranded, HoldsClaim,
       RowsNumbered
  <2>3. AnsweredAfterTheEnd'
    BY <1>4 DEF CancelCaller, OwesItsOwn, AnsweredAfterTheEnd, HoldsClaim,
       RowsNumbered
  <2>4. QED
    BY <2>1, <2>2, <2>3
<1>5. ASSUME NEW a \in Agents, Stop(a)
      PROVE  CallerInv'
  <2>1. OwesItsOwn'
    BY <1>5 DEF Stop, OwesItsOwn, HoldsClaim, RowsNumbered, Statuses
  <2>2. WaiterNotStranded'
    BY <1>5 DEF Stop, OwesItsOwn, WaiterNotStranded, HoldsClaim, RowsNumbered
  <2>3. AnsweredAfterTheEnd'
    BY <1>5 DEF Stop, OwesItsOwn, AnsweredAfterTheEnd, HoldsClaim, RowsNumbered
  <2>4. QED
    BY <2>1, <2>2, <2>3
<1>6. ASSUME BeginDrain
      PROVE  CallerInv'
  <2>1. OwesItsOwn'
    BY <1>6 DEF BeginDrain, OwesItsOwn, HoldsClaim, RowsNumbered, Statuses
  <2>2. WaiterNotStranded'
    BY <1>6 DEF BeginDrain, OwesItsOwn, WaiterNotStranded, HoldsClaim, RowsNumbered
  <2>3. AnsweredAfterTheEnd'
    BY <1>6 DEF BeginDrain, OwesItsOwn, AnsweredAfterTheEnd, HoldsClaim,
       RowsNumbered
  <2>4. QED
    BY <2>1, <2>2, <2>3
<1>7. ASSUME FinishDrain
      PROVE  CallerInv'
  <2>1. OwesItsOwn'
    BY <1>7 DEF FinishDrain, OwesItsOwn, HoldsClaim, RowsNumbered, Statuses
  <2>2. WaiterNotStranded'
    BY <1>7 DEF FinishDrain, OwesItsOwn, WaiterNotStranded, HoldsClaim, RowsNumbered
  <2>3. AnsweredAfterTheEnd'
    BY <1>7 DEF FinishDrain, OwesItsOwn, AnsweredAfterTheEnd, HoldsClaim,
       RowsNumbered
  <2>4. QED
    BY <2>1, <2>2, <2>3
<1>8. ASSUME Crash
      PROVE  CallerInv'
  <2>1. OwesItsOwn'
    BY <1>8 DEF Crash, OwesItsOwn, HoldsClaim, RowsNumbered, Statuses
  <2>2. WaiterNotStranded'
    BY <1>8 DEF Crash, OwesItsOwn, WaiterNotStranded, HoldsClaim, RowsNumbered
  <2>3. AnsweredAfterTheEnd'
    BY <1>8 DEF Crash, OwesItsOwn, AnsweredAfterTheEnd, HoldsClaim, RowsNumbered
  <2>4. QED
    BY <2>1, <2>2, <2>3
<1>9. ASSUME NEW i \in Ids, GiveUp(i)
      PROVE  CallerInv'
  <2>1. OwesItsOwn'
    BY <1>9 DEF GiveUp, OwesItsOwn, HoldsClaim, RowsNumbered, Statuses
  <2>2. WaiterNotStranded'
    BY <1>9 DEF GiveUp, OwesItsOwn, WaiterNotStranded, HoldsClaim, RowsNumbered
  <2>3. AnsweredAfterTheEnd'
    BY <1>9 DEF GiveUp, OwesItsOwn, AnsweredAfterTheEnd, HoldsClaim, RowsNumbered
  <2>4. QED
    BY <2>1, <2>2, <2>3
<1>10. ASSUME ResumePaused
      PROVE  CallerInv'
  <2>1. OwesItsOwn'
    BY <1>10 DEF ResumePaused, OwesItsOwn, HoldsClaim, RowsNumbered, Statuses
  <2>2. WaiterNotStranded'
    BY <1>10 DEF ResumePaused, OwesItsOwn, WaiterNotStranded, HoldsClaim,
       RowsNumbered
  <2>3. AnsweredAfterTheEnd'
    BY <1>10 DEF ResumePaused, OwesItsOwn, AnsweredAfterTheEnd, HoldsClaim,
       RowsNumbered
  <2>4. QED
    BY <2>1, <2>2, <2>3
<1>11. ASSUME NEW p \in Procs, NEW a \in Agents, StartHeld(p, a)
      PROVE  CallerInv'
  <2>1. OwesItsOwn'
    BY <1>11 DEF StartHeld, CallStart, OwesItsOwn, HoldsClaim, RowsNumbered,
       Statuses
  <2>2. WaiterNotStranded'
    BY <1>11 DEF StartHeld, CallStart, OwesItsOwn, WaiterNotStranded, HoldsClaim,
       RowsNumbered
  <2>3. AnsweredAfterTheEnd'
    BY <1>11 DEF StartHeld, CallStart, OwesItsOwn, AnsweredAfterTheEnd, HoldsClaim,
       RowsNumbered
  <2>4. QED
    BY <2>1, <2>2, <2>3
<1>12. ASSUME NEW p \in Procs, StartHold(p)
      PROVE  CallerInv'
  <2> HIDE DEF TypeOK, CallerInv
  <2>1. CASE paused
    BY <1>12, <2>1, OutcomeSent DEF StartHold, Leave
  <2>2. CASE ~paused
    BY <1>12, <2>2, OutcomeKept DEF StartHold
  <2>3. QED
    BY <2>1, <2>2
<1>13. ASSUME NEW p \in Procs, Launch(p)
      PROVE  CallerInv'
  <2> HIDE DEF TypeOK, CallerInv
  <2>1. CASE MayLaunch(p)
    BY <1>13, <2>1, OutcomeSent DEF Launch
  <2>2. CASE ~MayLaunch(p)
    BY <1>13, <2>2, OutcomeSent DEF Launch, Leave
  <2>3. QED
    BY <2>1, <2>2
<1>14. ASSUME NEW p \in Procs, AnswerToHandler(p)
      PROVE  CallerInv'
  <2>1. OwesItsOwn'
    BY <1>14 DEF AnswerToHandler, OwesItsOwn, HoldsClaim, RowsNumbered, Statuses
  <2>2. WaiterNotStranded'
    BY <1>14 DEF AnswerToHandler, OwesItsOwn, WaiterNotStranded, HoldsClaim,
       RowsNumbered
  <2>3. AnsweredAfterTheEnd'
    BY <1>14 DEF AnswerToHandler, OwesItsOwn, AnsweredAfterTheEnd, HoldsClaim,
       RowsNumbered
  <2>4. QED
    BY <2>1, <2>2, <2>3
<1>15. ASSUME NEW p \in Procs, Reclaim(p)
      PROVE  CallerInv'
  <2>1. OwesItsOwn'
    BY <1>15 DEF Reclaim, TakeBack, Fault, NoFault, OwesItsOwn, HoldsClaim,
       RowsNumbered, Statuses
  <2>2. WaiterNotStranded'
    BY <1>15 DEF Reclaim, TakeBack, Fault, NoFault, OwesItsOwn, WaiterNotStranded,
       HoldsClaim, RowsNumbered
  <2>3. AnsweredAfterTheEnd'
    BY <1>15 DEF Reclaim, TakeBack, Fault, NoFault, OwesItsOwn, AnsweredAfterTheEnd,
       HoldsClaim, RowsNumbered
  <2>4. QED
    BY <2>1, <2>2, <2>3
<1>16. ASSUME NEW p \in Procs, Claim(p)
      PROVE  CallerInv'
  <2>1. OwesItsOwn'
    BY <1>16 DEF Claim, Marked, NextInLine, Queued, OwesItsOwn, HoldsClaim,
       RowsNumbered, Statuses
  <2>2. WaiterNotStranded'
    BY <1>16 DEF Claim, Marked, NextInLine, Queued, OwesItsOwn, WaiterNotStranded,
       HoldsClaim, RowsNumbered
  <2>3. AnsweredAfterTheEnd'
    BY <1>16 DEF Claim, Marked, NextInLine, Queued, OwesItsOwn, AnsweredAfterTheEnd,
       HoldsClaim, RowsNumbered
  <2>4. QED
    BY <2>1, <2>2, <2>3
<1>17. ASSUME NEW p \in Procs, ClaimNothing(p)
      PROVE  CallerInv'
  <2>1. OwesItsOwn'
    BY <1>17 DEF ClaimNothing, OwesItsOwn, HoldsClaim, RowsNumbered, Statuses
  <2>2. WaiterNotStranded'
    BY <1>17 DEF ClaimNothing, OwesItsOwn, WaiterNotStranded, HoldsClaim,
       RowsNumbered
  <2>3. AnsweredAfterTheEnd'
    BY <1>17 DEF ClaimNothing, OwesItsOwn, AnsweredAfterTheEnd, HoldsClaim,
       RowsNumbered
  <2>4. QED
    BY <2>1, <2>2, <2>3
<1>18. ASSUME NEW p \in Procs, ClaimFails(p)
      PROVE  CallerInv'
  <2>1. OwesItsOwn'
    BY <1>18 DEF ClaimFails, Marked, NextInLine, Queued, Fault, OwesItsOwn,
       HoldsClaim, RowsNumbered, Statuses
  <2>2. WaiterNotStranded'
    BY <1>18 DEF ClaimFails, Marked, NextInLine, Queued, Fault, OwesItsOwn,
       WaiterNotStranded, HoldsClaim, RowsNumbered
  <2>3. AnsweredAfterTheEnd'
    BY <1>18 DEF ClaimFails, Marked, NextInLine, Queued, Fault, OwesItsOwn,
       AnsweredAfterTheEnd, HoldsClaim, RowsNumbered
  <2>4. QED
    BY <2>1, <2>2, <2>3
<1>19. ASSUME NEW p \in Procs, HoldCheck(p)
      PROVE  CallerInv'
  <2>1. OwesItsOwn'
    BY <1>19 DEF HoldCheck, HoldStart, OwesItsOwn, HoldsClaim, RowsNumbered,
       Statuses
  <2>2. WaiterNotStranded'
    BY <1>19 DEF HoldCheck, HoldStart, OwesItsOwn, WaiterNotStranded, HoldsClaim,
       RowsNumbered
  <2>3. AnsweredAfterTheEnd'
    BY <1>19 DEF HoldCheck, HoldStart, OwesItsOwn, AnsweredAfterTheEnd, HoldsClaim,
       RowsNumbered
  <2>4. QED
    BY <2>1, <2>2, <2>3
<1>20. ASSUME NEW p \in Procs, Requeue(p)
      PROVE  CallerInv'
  <2>1. /\ pc[p] = "requeue" /\ msg[p] \in Ids /\ status[msg[p]] = "running"
        /\ \A q \in Procs : pc'[q] = IF q = p THEN "end" ELSE pc[q]
        /\ \A q \in Procs : q # p => msg'[q] = msg[q]
        /\ UNCHANGED <<waiters, owed, caller>>
    BY <1>20 DEF Requeue, HoldsClaim
  <2>2. \A i \in Ids : i # msg[p] => status'[i] = status[i]
    BY <1>20 DEF Requeue
  <2>3. status'[msg[p]] \in {"queued", "running"}
    BY <1>20, <2>1 DEF Requeue
  <2>4. owed[p] = 0
    BY <2>1 DEF OwesItsOwn
  <2>5. OwesItsOwn'
    <3> SUFFICES ASSUME NEW q \in Procs
                 PROVE
        /\ owed'[q] # 0 => pc'[q] \in {"handle", "finish", "dry", "end", "start", "launch", "drained"}
        /\ pc'[q] \in {"handle", "finish"} => msg'[q] \notin waiters' /\ owed'[q] \in {0, msg'[q]}
        /\ MaxFault = 0 /\ owed'[q] # 0 /\ pc'[q] \notin {"handle", "finish"}
             => status'[owed'[q]] \in Finished
      BY DEF OwesItsOwn
    <3>1. CASE q = p
      BY <3>1, <2>1, <2>4
    <3>2. CASE q # p
      <4>1. owed[q] \in MsgOrNone
        OBVIOUS
      <4>2. MaxFault = 0 /\ owed[q] # 0 /\ pc[q] \notin {"handle", "finish"} =>
              owed[q] \in Ids /\ owed[q] # msg[p]
        BY <2>1, <4>1 DEF OwesItsOwn
      <4>3. QED
        BY <3>2, <2>1, <2>2, <4>1, <4>2 DEF OwesItsOwn
    <3>3. QED
      BY <3>1, <3>2
  <2>6. WaiterNotStranded'
    <3> SUFFICES ASSUME NEW i \in Ids, caller[i] = "waiting"
                 PROVE  \/ i \in waiters /\ status'[i] \in {"queued", "running"}
                        \/ \E q \in Procs : owed[q] = i /\ pc'[q] # "free"
      BY <2>1 DEF WaiterNotStranded
    <3>1. CASE i \in waiters /\ status[i] \in {"queued", "running"}
      BY <3>1, <2>2, <2>3
    <3>2. CASE \E q \in Procs : owed[q] = i /\ pc[q] # "free"
      BY <3>2, <2>1
    <3>3. QED
      BY <3>1, <3>2 DEF WaiterNotStranded
  <2>7. AnsweredAfterTheEnd'
    BY <2>1, <2>2 DEF AnsweredAfterTheEnd
  <2>8. QED
    BY <2>5, <2>6, <2>7
<1>21. ASSUME NEW p \in Procs, Take(p)
      PROVE  CallerInv'
  <2>1. /\ pc[p] = "take" /\ owed[p] = 0
        /\ msg[p] \in Ids /\ status[msg[p]] = "running"
    BY <1>21 DEF Take, HoldsClaim, OwesItsOwn
  <2>2. /\ \A q \in Procs : pc'[q] = IF q = p THEN "handle" ELSE pc[q]
        /\ \A q \in Procs : q # p => owed'[q] = owed[q]
        /\ owed'[p] = IF msg[p] \in waiters THEN msg[p] ELSE 0
        /\ waiters' = waiters \ {msg[p]}
        /\ UNCHANGED <<status, msg, caller>>
    BY <1>21 DEF Take, TakeWaiter
  <2>3. OwesItsOwn'
    BY <2>1, <2>2 DEF OwesItsOwn
  <2>4. WaiterNotStranded'
    <3> SUFFICES ASSUME NEW i \in Ids, caller[i] = "waiting"
                 PROVE  \/ i \in waiters' /\ status[i] \in {"queued", "running"}
                        \/ \E q \in Procs : owed'[q] = i /\ pc'[q] # "free"
      BY <2>2 DEF WaiterNotStranded
    <3>1. CASE i \in waiters /\ i = msg[p]
      BY <3>1, <2>2
    <3>2. CASE i \in waiters /\ i # msg[p] /\ status[i] \in {"queued", "running"}
      BY <3>2, <2>2
    <3>3. ASSUME NEW q \in Procs, owed[q] = i, pc[q] # "free"
          PROVE  \E r \in Procs : owed'[r] = i /\ pc'[r] # "free"
      <4>1. q # p
        BY <3>3, <2>1
      <4>2. QED
        BY <3>3, <4>1, <2>2
    <3>4. QED
      BY <3>1, <3>2, <3>3 DEF WaiterNotStranded
  <2>5. AnsweredAfterTheEnd'
    BY <2>2 DEF AnsweredAfterTheEnd
  <2>6. QED
    BY <2>3, <2>4, <2>5
<1>22. ASSUME NEW p \in Procs, NEW err \in BOOLEAN, HandlerReturns(p, err)
      PROVE  CallerInv'
  <2>1. OwesItsOwn'
    BY <1>22 DEF HandlerReturns, Outcome, OwesItsOwn, HoldsClaim, RowsNumbered,
       Statuses
  <2>2. WaiterNotStranded'
    BY <1>22 DEF HandlerReturns, Outcome, OwesItsOwn, WaiterNotStranded, HoldsClaim,
       RowsNumbered
  <2>3. AnsweredAfterTheEnd'
    BY <1>22 DEF HandlerReturns, Outcome, OwesItsOwn, AnsweredAfterTheEnd,
       HoldsClaim, RowsNumbered
  <2>4. QED
    BY <2>1, <2>2, <2>3
<1>23. ASSUME NEW p \in Procs, Finish(p)
      PROVE  CallerInv'
  <2>1. OwesItsOwn'
    BY <1>23 DEF Finish, Fault, NoFault, OwesItsOwn, HoldsClaim, RowsNumbered, Statuses
  <2>2. WaiterNotStranded'
    BY <1>23 DEF Finish, Fault, NoFault, OwesItsOwn, WaiterNotStranded, HoldsClaim,
       RowsNumbered
  <2>3. AnsweredAfterTheEnd'
    <3> SUFFICES ASSUME MaxFault = 0
                 PROVE  \A i \in Ids : caller'[i] = "answered" => status'[i] \in Finished
      BY DEF AnsweredAfterTheEnd
    <3>1. status' = [status EXCEPT ![msg[p]] = result[p]] /\ UNCHANGED caller
      BY <1>23 DEF Finish, Fault, NoFault
    <3>2. result[p] \in Finished
      OBVIOUS
    <3>3. QED
      BY <3>1, <3>2 DEF AnsweredAfterTheEnd
  <2>4. QED
    BY <2>1, <2>2, <2>3
<1>24. ASSUME NEW p \in Procs, DryCheck(p)
      PROVE  CallerInv'
  <2> HIDE DEF TypeOK, CallerInv
  <2>1. CASE pc' = [pc EXCEPT ![p] = "end"] /\ UNCHANGED <<owed, caller>>
    BY <1>24, <2>1, OutcomeKept DEF DryCheck
  <2>2. CASE /\ pc' = [pc EXCEPT ![p] = "claim"]
             /\ owed' = [owed EXCEPT ![p] = 0]
             /\ Deliver(owed[p])
    BY <1>24, <2>2, OutcomeSent DEF DryCheck
  <2>3. QED
    BY <1>24, <2>1, <2>2 DEF DryCheck
<1>25. ASSUME NEW p \in Procs, EndDrain(p)
      PROVE  CallerInv'
  <2>1. OwesItsOwn'
    BY <1>25 DEF EndDrain, Arrived, OwesItsOwn, HoldsClaim, RowsNumbered, Statuses
  <2>2. WaiterNotStranded'
    BY <1>25 DEF EndDrain, Arrived, OwesItsOwn, WaiterNotStranded, HoldsClaim,
       RowsNumbered
  <2>3. AnsweredAfterTheEnd'
    BY <1>25 DEF EndDrain, Arrived, OwesItsOwn, AnsweredAfterTheEnd, HoldsClaim,
       RowsNumbered
  <2>4. QED
    BY <2>1, <2>2, <2>3
<1>26. ASSUME NEW p \in Procs, Drained(p)
      PROVE  CallerInv'
  <2> HIDE DEF TypeOK, CallerInv
  <2>1. QED
    BY <1>26, OutcomeSent DEF Drained, Leave
<1>27. CASE UNCHANGED vars
  BY <1>27 DEF vars, OwesItsOwn, WaiterNotStranded, AnsweredAfterTheEnd
<1> HIDE DEF CallerInv, ConsumerInv, TypeOK
<1>28. QED
  BY <1>1, <1>2, <1>3, <1>4, <1>5, <1>6, <1>7, <1>8, <1>9, <1>10, <1>11, <1>12,
       <1>13, <1>14, <1>15, <1>16, <1>17, <1>18, <1>19, <1>20, <1>21, <1>22, <1>23,
       <1>24, <1>25, <1>26, <1>27 DEF Next, Environment, Goroutine, Consumer

\* A caller that waits is never forgotten: not by process taking its waiter, not
\* by a consumer that ends, nor by a start that is held (every instance, store
\* failures, crashes and cancelled callers included).
THEOREM WaiterNotStrandedHolds == Spec => []WaiterNotStranded
<1>1. CallerInv => WaiterNotStranded
  BY DEF CallerInv
<1>2. QED
  BY <1>1, TypeInit, TypeStep, ConsumerInit, ConsumerStep, CallerInit, CallerStep, PTL
     DEF Spec

\* A caller that was released finds its message's row ended, for every instance
\* whose store statements succeed.
THEOREM AnsweredAfterTheEndHolds == Spec => []AnsweredAfterTheEnd
<1>1. CallerInv => AnsweredAfterTheEnd
  BY DEF CallerInv
<1>2. QED
  BY <1>1, TypeInit, TypeStep, ConsumerInit, ConsumerStep, CallerInit, CallerStep, PTL
     DEF Spec

-----------------------------------------------------------------------------
(* No message loses its wakeup while the store answers, until an announced *)
(* restart is called off.  Once it is called off a message can be left     *)
(* alone: see the run MCInbox_lostwakeup.                                  *)

\* A step that leaves every other goroutine where it is, and the one it moves no
\* less attentive to b, leaves b attended.
LEMMA AttendedFrame ==
  ASSUME NEW p \in Procs, NEW b \in Agents, Attended(b),
         \A r \in Procs \ {p} :
           pc'[r] = pc[r] /\ who'[r] = who[r] /\ myGen'[r] = myGen[r],
         gen'[b] = gen[b],
         b \in held \cup toStart \cup boot => b \in (held \cup toStart \cup boot)',
         Coming(p, b) => Coming(p, b)'
  PROVE  Attended(b)'
<1>1. CASE b \in held \cup toStart \cup boot
  BY <1>1 DEF Attended
<1>2. CASE \E r \in Procs : Coming(r, b)
  <2>1. PICK r \in Procs : Coming(r, b)
    BY <1>2
  <2>2. Coming(r, b)'
    BY <2>1 DEF Coming
  <2>3. QED
    BY <2>2 DEF Attended
<1>3. QED
  BY <1>1, <1>2 DEF Attended

\* A step that moves no row, no goroutine and nobody held leaves every message attended.
LEMMA UnattendedSame ==
  ASSUME NoMessageUnattended,
         UNCHANGED <<status, to, pc, who, myGen, gen, held, toStart, boot>>
  PROVE  NoMessageUnattended'
<1>1. \A b \in Agents : Queued(b)' = Queued(b)
  BY DEF Queued
<1>2. \A b \in Agents : Attended(b) => Attended(b)'
  BY DEF Attended, Coming
<1>3. QED
  BY <1>1, <1>2 DEF NoMessageUnattended

\* Nothing is queued and nobody is held at the start.
LEMMA WakeupInit == Init => WakeupInv
BY DEF Init, WakeupInv, WakeupParts, HoldRemembered, FlagHasConsumer, GenSeen, NoMessageUnattended,
   Queued, Draining

\* A restart that was called off stays called off: another announcement counts
\* anew.
LEMMA CalledOffForGood == TypeOK /\ [Next]_vars /\ NotCalledOff' => NotCalledOff
<1> SUFFICES ASSUME TypeOK, [Next]_vars, NotCalledOff' PROVE NotCalledOff
  OBVIOUS
<1>1. CASE BeginDrain
  BY <1>1, ConstantsAssumption DEF BeginDrain, NotCalledOff, TypeOK, TypeCallers
<1>2. CASE FinishDrain
  BY <1>2 DEF FinishDrain, NotCalledOff
<1>3. CASE Crash
  BY <1>3 DEF Crash, NotCalledOff
<1>4. CASE UNCHANGED <<drains, paused>>
  BY <1>4 DEF NotCalledOff
<1>5. Next => BeginDrain \/ FinishDrain \/ Crash \/ UNCHANGED <<drains, paused>>
  <2>1. ASSUME NEW p \in Procs, Goroutine(p) PROVE UNCHANGED <<drains, paused>>
    BY <2>1 DEF Goroutine, Consumer, StartHold, Launch, AnswerToHandler, Reclaim, Claim,
       ClaimNothing, ClaimFails, HoldCheck, Requeue, Take, HandlerReturns, Finish,
       DryCheck, EndDrain, Drained
  <2>2. ASSUME Environment
        PROVE  BeginDrain \/ FinishDrain \/ Crash \/ UNCHANGED <<drains, paused>>
    BY <2>2 DEF Environment, Enqueue, BootStart, Delegate, CancelCaller, Stop
  <2>3. QED
    BY <2>1, <2>2 DEF Next, GiveUp, ResumePaused, StartHeld
<1>6. QED
  BY <1>1, <1>2, <1>3, <1>4, <1>5 DEF vars

\* No wakeup is lost: a message lands while the consumer will still claim, or the
\* generation it bumps is seen by endDrain, or its own start call launches.
LEMMA WakeupStep ==
  TypeOK /\ ConsumerInv /\ WakeupInv /\ [Next]_vars => WakeupInv'
<1> SUFFICES ASSUME MaxFault = 0, TypeOK, ConsumerInv, NotCalledOff, NotCalledOff',
                    HoldRemembered, FlagHasConsumer, GenSeen, NoMessageUnattended,
                    [Next]_vars
             PROVE  WakeupParts'
  BY CalledOffForGood DEF WakeupInv, WakeupParts
<1> USE ConstantsAssumption DEF TypeOK, TypeStore, TypeMemory, TypeProcs, TypeCallers,
   Ids, ConsumerInv, Draining
<1>1. ASSUME NEW p \in Procs, NEW a \in Agents, NEW k \in UserKinds,
             NEW w \in UserWaits, Enqueue(p, a, k, w)
      PROVE  WakeupParts'
  <2>1. HoldRemembered'
    BY <1>1 DEF Enqueue, WriteRow, CallStart, HoldRemembered
  <2>2. FlagHasConsumer'
    BY <1>1 DEF Enqueue, WriteRow, CallStart, FlagHasConsumer, OneConsumer,
       RunningFlag, HoldRemembered
  <2>3. GenSeen'
    BY <1>1 DEF Enqueue, WriteRow, CallStart, GenSeen, Queued, HoldRemembered
  <2>4. NoMessageUnattended'
    <3> SUFFICES ASSUME NEW b \in Agents, Queued(b)' # {} PROVE Attended(b)'
      BY DEF NoMessageUnattended
    <3>1. CASE b = a
      BY <1>1, <3>1 DEF Enqueue, WriteRow, CallStart, Attended, Coming, HoldRemembered
    <3>2. CASE b # a
      <4>1. Queued(b)' = Queued(b)
        BY <1>1, <3>2 DEF Enqueue, WriteRow, CallStart, Queued, RowsNumbered
      <4>2. Attended(b)
        BY <4>1 DEF NoMessageUnattended
      <4>3. QED
        BY <1>1, <3>2, <4>2, AttendedFrame DEF Enqueue, WriteRow, CallStart, Coming,
           HoldRemembered
    <3>3. QED
      BY <3>1, <3>2
  <2>5. QED
    BY <2>1, <2>2, <2>3, <2>4 DEF WakeupParts
<1>2. ASSUME NEW p \in Procs, NEW a \in Agents, BootStart(p, a)
      PROVE  WakeupParts'
  <2>1. HoldRemembered'
    BY <1>2 DEF BootStart, CallStart, HoldRemembered
  <2>2. FlagHasConsumer'
    BY <1>2 DEF BootStart, CallStart, FlagHasConsumer, OneConsumer, RunningFlag,
       HoldRemembered
  <2>3. GenSeen'
    BY <1>2 DEF BootStart, CallStart, GenSeen, Queued, HoldRemembered
  <2>4. NoMessageUnattended'
    <3> SUFFICES ASSUME NEW b \in Agents, Queued(b)' # {} PROVE Attended(b)'
      BY DEF NoMessageUnattended
    <3>1. CASE b = a
      BY <1>2, <3>1 DEF BootStart, CallStart, Attended, Coming, HoldRemembered
    <3>2. CASE b # a
      <4>1. Queued(b)' = Queued(b)
        BY <1>2, <3>2 DEF BootStart, CallStart, Queued
      <4>2. Attended(b)
        BY <4>1 DEF NoMessageUnattended
      <4>3. QED
        BY <1>2, <3>2, <4>2, AttendedFrame DEF BootStart, CallStart, Coming,
           HoldRemembered
    <3>3. QED
      BY <3>1, <3>2
  <2>5. QED
    BY <2>1, <2>2, <2>3, <2>4 DEF WakeupParts
<1>3. ASSUME NEW p \in Procs, NEW q \in Procs, NEW w \in Workers, Delegate(p, q, w)
      PROVE  WakeupParts'
  <2>1. HoldRemembered'
    BY <1>3 DEF Delegate, WriteRow, HoldRemembered
  <2>2. FlagHasConsumer'
    BY <1>3 DEF Delegate, WriteRow, FlagHasConsumer, OneConsumer, RunningFlag,
       HoldRemembered
  <2>3. GenSeen'
    BY <1>3 DEF Delegate, WriteRow, GenSeen, Queued, HoldRemembered
  <2>4. NoMessageUnattended'
    <3> SUFFICES ASSUME NEW b \in Agents, Queued(b)' # {} PROVE Attended(b)'
      BY DEF NoMessageUnattended
    <3>1. CASE b = w
      BY <1>3, <3>1 DEF Delegate, WriteRow, Attended, Coming, HoldRemembered
    <3>2. CASE b # w
      <4>1. Queued(b)' = Queued(b)
        BY <1>3, <3>2 DEF Delegate, WriteRow, Queued, RowsNumbered
      <4>2. Attended(b)
        BY <4>1 DEF NoMessageUnattended
      <4>3. QED
        BY <1>3, <3>2, <4>2, AttendedFrame DEF Delegate, WriteRow, Coming, HoldRemembered
    <3>3. QED
      BY <3>1, <3>2
  <2>5. QED
    BY <2>1, <2>2, <2>3, <2>4 DEF WakeupParts
<1>4. ASSUME NEW i \in Ids, CancelCaller(i)
      PROVE  WakeupParts'
  <2>1. HoldRemembered'
    BY <1>4 DEF CancelCaller, HoldRemembered
  <2>2. FlagHasConsumer'
    BY <1>4 DEF CancelCaller, FlagHasConsumer, OneConsumer, RunningFlag, HoldRemembered
  <2>3. GenSeen'
    BY <1>4 DEF CancelCaller, GenSeen, Queued, HoldRemembered
  <2>4. NoMessageUnattended'
    BY <1>4, UnattendedSame DEF CancelCaller
  <2>5. QED
    BY <2>1, <2>2, <2>3, <2>4 DEF WakeupParts
<1>5. ASSUME NEW a \in Agents, Stop(a)
      PROVE  WakeupParts'
  <2>1. HoldRemembered'
    BY <1>5 DEF Stop, HoldRemembered
  <2>2. FlagHasConsumer'
    BY <1>5 DEF Stop, FlagHasConsumer, OneConsumer, RunningFlag, HoldRemembered
  <2>3. GenSeen'
    BY <1>5 DEF Stop, GenSeen, Queued, HoldRemembered
  <2>4. NoMessageUnattended'
    BY <1>5, UnattendedSame DEF Stop
  <2>5. QED
    BY <2>1, <2>2, <2>3, <2>4 DEF WakeupParts
<1>6. ASSUME BeginDrain
      PROVE  WakeupParts'
  <2>1. HoldRemembered'
    BY <1>6 DEF BeginDrain, HoldRemembered
  <2>2. FlagHasConsumer'
    BY <1>6 DEF BeginDrain, FlagHasConsumer, OneConsumer, RunningFlag, HoldRemembered
  <2>3. GenSeen'
    BY <1>6 DEF BeginDrain, GenSeen, Queued, HoldRemembered
  <2>4. NoMessageUnattended'
    BY <1>6, UnattendedSame DEF BeginDrain
  <2>5. QED
    BY <2>1, <2>2, <2>3, <2>4 DEF WakeupParts
<1>7. ASSUME FinishDrain
      PROVE  WakeupParts'
  BY <1>7 DEF FinishDrain, NotCalledOff, HoldRemembered
<1>8. ASSUME Crash
      PROVE  WakeupParts'
  <2>1. HoldRemembered'
    BY <1>8 DEF Crash, HoldRemembered
  <2>2. FlagHasConsumer'
    BY <1>8 DEF Crash, FlagHasConsumer, OneConsumer, RunningFlag, HoldRemembered
  <2>3. GenSeen'
    BY <1>8 DEF Crash, GenSeen, Queued, HoldRemembered
  <2>4. NoMessageUnattended'
    <3> SUFFICES ASSUME NEW b \in Agents, Queued(b)' # {} PROVE Attended(b)'
      BY DEF NoMessageUnattended
    <3>1. QED
      BY <1>8 DEF Crash, Attended
  <2>5. QED
    BY <2>1, <2>2, <2>3, <2>4 DEF WakeupParts
<1>9. ASSUME NEW i \in Ids, GiveUp(i)
      PROVE  WakeupParts'
  <2>1. HoldRemembered'
    BY <1>9 DEF GiveUp, HoldRemembered
  <2>2. FlagHasConsumer'
    BY <1>9 DEF GiveUp, FlagHasConsumer, OneConsumer, RunningFlag, HoldRemembered
  <2>3. GenSeen'
    BY <1>9 DEF GiveUp, GenSeen, Queued, HoldRemembered
  <2>4. NoMessageUnattended'
    BY <1>9, UnattendedSame DEF GiveUp
  <2>5. QED
    BY <2>1, <2>2, <2>3, <2>4 DEF WakeupParts
<1>10. ASSUME ResumePaused
      PROVE  WakeupParts'
  <2>1. HoldRemembered'
    BY <1>10 DEF ResumePaused, HoldRemembered
  <2>2. FlagHasConsumer'
    BY <1>10 DEF ResumePaused, FlagHasConsumer, OneConsumer, RunningFlag, HoldRemembered
  <2>3. GenSeen'
    BY <1>10 DEF ResumePaused, GenSeen, Queued, HoldRemembered
  <2>4. NoMessageUnattended'
    BY <1>10 DEF ResumePaused, NoMessageUnattended, HoldRemembered
  <2>5. QED
    BY <2>1, <2>2, <2>3, <2>4 DEF WakeupParts
<1>11. ASSUME NEW p \in Procs, NEW a \in Agents, StartHeld(p, a)
      PROVE  WakeupParts'
  <2>1. HoldRemembered'
    BY <1>11 DEF StartHeld, CallStart, HoldRemembered
  <2>2. FlagHasConsumer'
    BY <1>11 DEF StartHeld, CallStart, FlagHasConsumer, OneConsumer, RunningFlag,
       HoldRemembered
  <2>3. GenSeen'
    BY <1>11 DEF StartHeld, CallStart, GenSeen, Queued, HoldRemembered
  <2>4. NoMessageUnattended'
    BY <1>11 DEF StartHeld, CallStart, NoMessageUnattended, HoldRemembered
  <2>5. QED
    BY <2>1, <2>2, <2>3, <2>4 DEF WakeupParts
<1>12. ASSUME NEW p \in Procs, StartHold(p)
      PROVE  WakeupParts'
  <2>1. HoldRemembered'
    <3>1. /\ held \subseteq held' /\ pc[p] = "start" /\ pc'[p] \in {"launch", "free"}
          /\ \A r \in Procs \ {p} : pc'[r] = pc[r] /\ who'[r] = who[r]
          /\ UNCHANGED <<paused, resuming, toStart, drains>>
      BY <1>12 DEF StartHold, HoldStart, Leave
    <3>2. QED
      BY <3>1 DEF HoldRemembered
  <2>0. /\ pc[p] = "start" /\ pc'[p] \in {"launch", "free"}
        /\ \A r \in Procs \ {p} : pc'[r] = pc[r] /\ who'[r] = who[r]
        /\ held \subseteq held'
        /\ UNCHANGED <<status, to, running, gen, myGen>>
    <3>1. CASE paused
      BY <1>12, <3>1 DEF StartHold, HoldStart, Leave
    <3>2. CASE ~paused
      BY <1>12, <3>2 DEF StartHold, HoldStart
    <3>3. QED
      BY <3>1, <3>2
  <2>2. FlagHasConsumer'
    <3> SUFFICES ASSUME NEW a \in Agents, running[a]
                 PROVE  \E r \in Procs : pc'[r] \in Draining /\ who'[r] = a
      BY <2>0 DEF FlagHasConsumer
    <3>1. PICK r \in Procs : pc[r] \in Draining /\ who[r] = a
      BY DEF FlagHasConsumer
    <3>2. QED
      BY <3>1, <2>0
  <2>3. GenSeen'
    <3> SUFFICES ASSUME NEW r \in Procs, pc'[r] \in Draining
          PROVE  /\ myGen'[r] <= gen'[who'[r]]
                 /\ pc'[r] = "end" /\ Queued(who[r])' # {} => gen'[who'[r]] # myGen'[r] \/ who'[r] \in held'
      BY <2>0 DEF GenSeen, Queued
    <3>1. r # p
      BY <2>0
    <3>2. Queued(who[r])' = Queued(who[r])
      BY <2>0, <3>1 DEF Queued
    <3>3. QED
      BY <2>0, <3>1, <3>2 DEF GenSeen
  <2>4. NoMessageUnattended'
    <3> SUFFICES ASSUME NEW b \in Agents, Queued(b)' # {} PROVE Attended(b)'
      BY DEF NoMessageUnattended
    <3>1. CASE b = who[p]
      BY <1>12, <3>1 DEF StartHold, HoldStart, Leave, Deliver, Attended, Coming,
         HoldRemembered
    <3>2. CASE b # who[p]
      <4>1. Queued(b)' = Queued(b)
        BY <1>12, <3>2 DEF StartHold, HoldStart, Leave, Deliver, Queued
      <4>2. Attended(b)
        BY <4>1 DEF NoMessageUnattended
      <4>3. QED
        BY <1>12, <3>2, <4>2, AttendedFrame DEF StartHold, HoldStart, Leave, Deliver,
           Coming, HoldRemembered
    <3>3. QED
      BY <3>1, <3>2
  <2>5. QED
    BY <2>1, <2>2, <2>3, <2>4 DEF WakeupParts
<1>13. ASSUME NEW p \in Procs, Launch(p)
      PROVE  WakeupParts'
  <2>1. HoldRemembered'
    BY <1>13 DEF Launch, MayLaunch, Leave, Deliver, HoldRemembered
  <2>2. FlagHasConsumer'
    <3>1. CASE MayLaunch(p)
      <4>1. /\ pc' = [pc EXCEPT ![p] = "reclaim"] /\ UNCHANGED who
            /\ running' = [running EXCEPT ![who[p]] = TRUE] /\ who[p] \in Agents
        BY <1>13, <3>1 DEF Launch
      <4>2. QED
        BY <4>1 DEF FlagHasConsumer
    <3>2. CASE ~MayLaunch(p)
      <4>1. /\ pc[p] = "launch" /\ pc' = [pc EXCEPT ![p] = "free"] /\ UNCHANGED running
            /\ who' = [who EXCEPT ![p] = NoAgent]
        BY <1>13, <3>2 DEF Launch, Leave
      <4>2. QED
        BY <4>1 DEF FlagHasConsumer
    <3>3. QED
      BY <3>1, <3>2
  <2>3. GenSeen'
    <3>2. CASE MayLaunch(p)
      <4>1. /\ pc' = [pc EXCEPT ![p] = "reclaim"] /\ UNCHANGED <<status, to, gen, who, held>>
            /\ myGen' = [myGen EXCEPT ![p] = gen[who[p]]] /\ who[p] \in Agents
        BY <1>13, <3>2 DEF Launch, store
      <4>2. QED
        BY <4>1 DEF GenSeen, Queued
    <3>3. CASE ~MayLaunch(p)
      <4>1. /\ pc' = [pc EXCEPT ![p] = "free"] /\ UNCHANGED <<status, to, gen, myGen, held>>
            /\ who' = [who EXCEPT ![p] = NoAgent]
        BY <1>13, <3>3 DEF Launch, Leave, store
      <4>2. QED
        BY <4>1 DEF GenSeen, Queued
    <3>4. QED
      BY <3>2, <3>3
  <2>4. NoMessageUnattended'
    <3> SUFFICES ASSUME NEW b \in Agents, Queued(b)' # {} PROVE Attended(b)'
      BY DEF NoMessageUnattended
    <3>1. CASE b = who[p]
      <4>1. CASE MayLaunch(p)
        <5>1. pc'[p] = "reclaim" /\ who'[p] = b
          BY <1>13, <3>1, <4>1 DEF Launch
        <5>2. QED
          BY <5>1 DEF Attended, Coming
      <4>2. CASE ~MayLaunch(p)
        <5>1. PICK r \in Procs : pc[r] \in Draining /\ who[r] = b
          BY <1>13, <3>1, <4>2 DEF MayLaunch, FlagHasConsumer
        <5>2. Queued(b)' = Queued(b)
          BY <1>13 DEF Launch, MayLaunch, Leave, Deliver, Queued
        <5>0. CASE b \in held
          BY <1>13, <5>0 DEF Launch, Attended
        <5> SUFFICES ASSUME b \notin held PROVE Attended(b)'
          BY <5>0
        <5>3. pc[r] # "requeue" /\ (pc[r] = "end" => gen[b] # myGen[r])
          BY <5>1, <5>2 DEF HoldRemembered, GenSeen
        <5>4. Coming(r, b)
          BY <5>1, <5>3 DEF Coming
        <5>5. r # p
          BY <1>13, <5>1 DEF Launch
        <5>6. pc'[r] = pc[r] /\ who'[r] = who[r] /\ myGen'[r] = myGen[r] /\ gen' = gen
          BY <1>13, <4>2, <5>5 DEF Launch, Leave, memory
        <5>7. Coming(r, b)'
          BY <5>4, <5>6 DEF Coming
        <5>8. QED
          BY <5>7 DEF Attended
      <4>3. QED
        BY <4>1, <4>2
    <3>2. CASE b # who[p]
      <4>1. Queued(b)' = Queued(b)
        BY <1>13, <3>2 DEF Launch, MayLaunch, Leave, Deliver, Queued
      <4>2. Attended(b)
        BY <4>1 DEF NoMessageUnattended
      <4>3. QED
        BY <1>13, <3>2, <4>2, AttendedFrame DEF Launch, MayLaunch, Leave, Deliver,
           Coming, HoldRemembered
    <3>3. QED
      BY <3>1, <3>2
  <2>5. QED
    BY <2>1, <2>2, <2>3, <2>4 DEF WakeupParts
<1>14. ASSUME NEW p \in Procs, AnswerToHandler(p)
      PROVE  WakeupParts'
  <2>1. HoldRemembered'
    BY <1>14 DEF AnswerToHandler, HoldRemembered
  <2>2. FlagHasConsumer'
    BY <1>14 DEF AnswerToHandler, FlagHasConsumer, OneConsumer, RunningFlag,
       HoldRemembered
  <2>3. GenSeen'
    BY <1>14 DEF AnswerToHandler, GenSeen, Queued, HoldRemembered
  <2>4. NoMessageUnattended'
    BY <1>14, UnattendedSame DEF AnswerToHandler
  <2>5. QED
    BY <2>1, <2>2, <2>3, <2>4 DEF WakeupParts
<1>15. ASSUME NEW p \in Procs, Reclaim(p)
      PROVE  WakeupParts'
  <2>1. HoldRemembered'
    BY <1>15 DEF Reclaim, TakeBack, Fault, NoFault, HoldRemembered
  <2>2. FlagHasConsumer'
    BY <1>15 DEF Reclaim, TakeBack, Fault, NoFault, FlagHasConsumer, OneConsumer,
       RunningFlag, HoldRemembered
  <2>3. GenSeen'
    <3>1. /\ pc' = [pc EXCEPT ![p] = "claim"] /\ pc[p] = "reclaim"
          /\ UNCHANGED <<who, myGen, gen, to, held>>
      BY <1>15 DEF Reclaim
    <3>2. \A i \in Ids : to[i] # who[p] => status'[i] = status[i]
      BY <1>15 DEF Reclaim, TakeBack
    <3>3. SUFFICES ASSUME NEW r \in Procs, pc'[r] \in Draining
          PROVE  /\ myGen'[r] <= gen'[who'[r]]
                 /\ pc'[r] = "end" /\ Queued(who[r])' # {} => gen'[who'[r]] # myGen'[r] \/ who'[r] \in held'
      BY DEF GenSeen, Queued
    <3>4. pc[r] \in Draining
      BY <3>1, <3>3
    <3>5. myGen[r] <= gen[who[r]] /\ (pc[r] = "end" /\ Queued(who[r]) # {} => gen[who[r]] # myGen[r] \/ who[r] \in held)
      BY <3>4 DEF GenSeen
    <3>6. CASE r = p
      BY <3>1, <3>5, <3>6
    <3>7. CASE r # p
      <4>1. who[r] # who[p]
        BY <3>1, <3>4, <3>7 DEF OneConsumer
      <4>2. Queued(who[r])' = Queued(who[r])
        BY <3>1, <3>2, <4>1 DEF Queued
      <4>3. QED
        BY <3>1, <3>5, <3>7, <4>2
    <3>8. QED
      BY <3>6, <3>7
  <2>4. NoMessageUnattended'
    <3> SUFFICES ASSUME NEW b \in Agents, Queued(b)' # {} PROVE Attended(b)'
      BY DEF NoMessageUnattended
    <3>1. CASE b = who[p]
      BY <1>15, <3>1 DEF Reclaim, TakeBack, Fault, NoFault, Attended, Coming,
         HoldRemembered
    <3>2. CASE b # who[p]
      <4>1. Queued(b)' = Queued(b)
        BY <1>15, <3>2 DEF Reclaim, TakeBack, Fault, NoFault, Queued
      <4>2. Attended(b)
        BY <4>1 DEF NoMessageUnattended
      <4>3. QED
        BY <1>15, <3>2, <4>2, AttendedFrame DEF Reclaim, TakeBack, Fault, NoFault,
           Coming, HoldRemembered
    <3>3. QED
      BY <3>1, <3>2
  <2>5. QED
    BY <2>1, <2>2, <2>3, <2>4 DEF WakeupParts
<1>16. ASSUME NEW p \in Procs, Claim(p)
      PROVE  WakeupParts'
  <2>1. HoldRemembered'
    BY <1>16 DEF Claim, Marked, NextInLine, HoldRemembered
  <2>2. FlagHasConsumer'
    BY <1>16 DEF Claim, Marked, NextInLine, FlagHasConsumer, OneConsumer, RunningFlag,
       HoldRemembered
  <2>3. GenSeen'
    BY <1>16 DEF Claim, Marked, NextInLine, GenSeen, Queued, HoldRemembered
  <2>4. NoMessageUnattended'
    <3> SUFFICES ASSUME NEW b \in Agents, Queued(b)' # {} PROVE Attended(b)'
      BY DEF NoMessageUnattended
    <3>1. CASE b = who[p]
      BY <1>16, <3>1 DEF Claim, Marked, NextInLine, Attended, Coming, HoldRemembered
    <3>2. CASE b # who[p]
      <4>1. Queued(b)' = Queued(b)
        BY <1>16, <3>2 DEF Claim, Marked, NextInLine, Queued
      <4>2. Attended(b)
        BY <4>1 DEF NoMessageUnattended
      <4>3. QED
        BY <1>16, <3>2, <4>2, AttendedFrame DEF Claim, Marked, NextInLine, Coming, HoldRemembered
    <3>3. QED
      BY <3>1, <3>2
  <2>5. QED
    BY <2>1, <2>2, <2>3, <2>4 DEF WakeupParts
<1>17. ASSUME NEW p \in Procs, ClaimNothing(p)
      PROVE  WakeupParts'
  <2>1. HoldRemembered'
    BY <1>17 DEF ClaimNothing, HoldRemembered
  <2>2. FlagHasConsumer'
    BY <1>17 DEF ClaimNothing, FlagHasConsumer, OneConsumer, RunningFlag, HoldRemembered
  <2>3. GenSeen'
    BY <1>17 DEF ClaimNothing, GenSeen, Queued, HoldRemembered
  <2>4. NoMessageUnattended'
    <3> SUFFICES ASSUME NEW b \in Agents, Queued(b)' # {} PROVE Attended(b)'
      BY DEF NoMessageUnattended
    <3>1. CASE b = who[p]
      <4>1. Queued(b)' = Queued(b)
        BY <1>17 DEF ClaimNothing, Queued
      <4>2. QED
        BY <1>17, <3>1, <4>1 DEF ClaimNothing
    <3>2. CASE b # who[p]
      <4>1. Queued(b)' = Queued(b)
        BY <1>17, <3>2 DEF ClaimNothing, Queued
      <4>2. Attended(b)
        BY <4>1 DEF NoMessageUnattended
      <4>3. QED
        BY <1>17, <3>2, <4>2, AttendedFrame DEF ClaimNothing, Coming, HoldRemembered
    <3>3. QED
      BY <3>1, <3>2
  <2>5. QED
    BY <2>1, <2>2, <2>3, <2>4 DEF WakeupParts
<1>18. ASSUME NEW p \in Procs, ClaimFails(p)
      PROVE  WakeupParts'
  <2>1. HoldRemembered'
    BY <1>18 DEF ClaimFails, Marked, Fault, HoldRemembered
  <2>2. FlagHasConsumer'
    BY <1>18 DEF ClaimFails, Marked, Fault, FlagHasConsumer, OneConsumer, RunningFlag,
       HoldRemembered
  <2>3. GenSeen'
    BY <1>18 DEF ClaimFails, Marked, Fault, GenSeen, Queued, HoldRemembered
  <2>4. NoMessageUnattended'
    BY <1>18 DEF ClaimFails, Marked, Fault, NoMessageUnattended, HoldRemembered
  <2>5. QED
    BY <2>1, <2>2, <2>3, <2>4 DEF WakeupParts
<1>19. ASSUME NEW p \in Procs, HoldCheck(p)
      PROVE  WakeupParts'
  <2>1. HoldRemembered'
    BY <1>19 DEF HoldCheck, HoldStart, HoldRemembered
  <2>2. FlagHasConsumer'
    BY <1>19 DEF HoldCheck, HoldStart, FlagHasConsumer, OneConsumer, RunningFlag,
       HoldRemembered
  <2>3. GenSeen'
    BY <1>19 DEF HoldCheck, HoldStart, GenSeen, Queued, HoldRemembered
  <2>4. NoMessageUnattended'
    <3> SUFFICES ASSUME NEW b \in Agents, Queued(b)' # {} PROVE Attended(b)'
      BY DEF NoMessageUnattended
    <3>1. CASE b = who[p]
      BY <1>19, <3>1 DEF HoldCheck, HoldStart, Attended, Coming, HoldRemembered
    <3>2. CASE b # who[p]
      <4>1. Queued(b)' = Queued(b)
        BY <1>19, <3>2 DEF HoldCheck, HoldStart, Queued
      <4>2. Attended(b)
        BY <4>1 DEF NoMessageUnattended
      <4>3. QED
        BY <1>19, <3>2, <4>2, AttendedFrame DEF HoldCheck, HoldStart, Coming,
           HoldRemembered
    <3>3. QED
      BY <3>1, <3>2
  <2>5. QED
    BY <2>1, <2>2, <2>3, <2>4 DEF WakeupParts
<1>20. ASSUME NEW p \in Procs, Requeue(p)
      PROVE  WakeupParts'
  <2>1. HoldRemembered'
    BY <1>20 DEF Requeue, Fault, NoFault, HoldRemembered
  <2>2. FlagHasConsumer'
    BY <1>20 DEF Requeue, Fault, NoFault, FlagHasConsumer, OneConsumer, RunningFlag,
       HoldRemembered
  <2>0. /\ pc[p] = "requeue" /\ pc' = [pc EXCEPT ![p] = "end"]
        /\ who[p] \in held /\ msg[p] \in Ids /\ to[msg[p]] = who[p]
        /\ UNCHANGED <<to, who, myGen, gen, held, toStart, boot>>
    BY <1>20 DEF Requeue, HoldRemembered, HoldsClaim, Holding
  <2>6. \A i \in Ids : to[i] # who[p] => status'[i] = status[i]
    BY <1>20, <2>0 DEF Requeue
  <2>7. \A b : b # who[p] => Queued(b)' = Queued(b)
    BY <2>0, <2>6 DEF Queued
  <2>3. GenSeen'
    <3> SUFFICES ASSUME NEW r \in Procs, pc'[r] \in Draining
          PROVE  /\ myGen'[r] <= gen'[who'[r]]
                 /\ pc'[r] = "end" /\ Queued(who[r])' # {} => gen'[who'[r]] # myGen'[r] \/ who'[r] \in held'
      BY <2>0 DEF GenSeen, Queued
    <3>1. pc[r] \in Draining
      BY <2>0
    <3>2. CASE who[r] = who[p]
      BY <2>0, <3>1, <3>2 DEF GenSeen
    <3>3. CASE who[r] # who[p]
      BY <2>0, <2>7, <3>1, <3>3 DEF GenSeen
    <3>4. QED
      BY <3>2, <3>3
  <2>4. NoMessageUnattended'
    <3> SUFFICES ASSUME NEW b \in Agents, Queued(b)' # {} PROVE Attended(b)'
      BY DEF NoMessageUnattended
    <3>1. CASE b = who[p]
      BY <3>1, <2>0 DEF Attended
    <3>2. CASE b # who[p]
      <4>1. Attended(b)
        BY <3>2, <2>7 DEF NoMessageUnattended
      <4>2. QED
        BY <3>2, <4>1, <2>0, AttendedFrame DEF Coming
    <3>3. QED
      BY <3>1, <3>2
  <2>5. QED
    BY <2>1, <2>2, <2>3, <2>4 DEF WakeupParts
<1>21. ASSUME NEW p \in Procs, Take(p)
      PROVE  WakeupParts'
  <2>1. HoldRemembered'
    BY <1>21 DEF Take, TakeWaiter, HoldRemembered
  <2>2. FlagHasConsumer'
    BY <1>21 DEF Take, TakeWaiter, FlagHasConsumer, OneConsumer, RunningFlag, HoldRemembered
  <2>3. GenSeen'
    BY <1>21 DEF Take, TakeWaiter, GenSeen, Queued, HoldRemembered
  <2>4. NoMessageUnattended'
    <3> SUFFICES ASSUME NEW b \in Agents, Queued(b)' # {} PROVE Attended(b)'
      BY DEF NoMessageUnattended
    <3>1. CASE b = who[p]
      BY <1>21, <3>1 DEF Take, TakeWaiter, Attended, Coming, HoldRemembered
    <3>2. CASE b # who[p]
      <4>1. Queued(b)' = Queued(b)
        BY <1>21, <3>2 DEF Take, TakeWaiter, Queued
      <4>2. Attended(b)
        BY <4>1 DEF NoMessageUnattended
      <4>3. QED
        BY <1>21, <3>2, <4>2, AttendedFrame DEF Take, TakeWaiter, Coming, HoldRemembered
    <3>3. QED
      BY <3>1, <3>2
  <2>5. QED
    BY <2>1, <2>2, <2>3, <2>4 DEF WakeupParts
<1>22. ASSUME NEW p \in Procs, NEW err \in BOOLEAN, HandlerReturns(p, err)
      PROVE  WakeupParts'
  <2>1. HoldRemembered'
    BY <1>22 DEF HandlerReturns, Outcome, HoldRemembered
  <2>2. FlagHasConsumer'
    BY <1>22 DEF HandlerReturns, Outcome, FlagHasConsumer, OneConsumer, RunningFlag,
       HoldRemembered
  <2>3. GenSeen'
    BY <1>22 DEF HandlerReturns, Outcome, GenSeen, Queued, HoldRemembered
  <2>4. NoMessageUnattended'
    <3> SUFFICES ASSUME NEW b \in Agents, Queued(b)' # {} PROVE Attended(b)'
      BY DEF NoMessageUnattended
    <3>1. CASE b = who[p]
      BY <1>22, <3>1 DEF HandlerReturns, Outcome, Attended, Coming, HoldRemembered
    <3>2. CASE b # who[p]
      <4>1. Queued(b)' = Queued(b)
        BY <1>22, <3>2 DEF HandlerReturns, Outcome, Queued
      <4>2. Attended(b)
        BY <4>1 DEF NoMessageUnattended
      <4>3. QED
        BY <1>22, <3>2, <4>2, AttendedFrame DEF HandlerReturns, Outcome, Coming, HoldRemembered
    <3>3. QED
      BY <3>1, <3>2
  <2>5. QED
    BY <2>1, <2>2, <2>3, <2>4 DEF WakeupParts
<1>23. ASSUME NEW p \in Procs, Finish(p)
      PROVE  WakeupParts'
  <2>1. HoldRemembered'
    BY <1>23 DEF Finish, Fault, NoFault, HoldRemembered
  <2>2. FlagHasConsumer'
    BY <1>23 DEF Finish, Fault, NoFault, FlagHasConsumer, OneConsumer, RunningFlag,
       HoldRemembered
  <2>3. GenSeen'
    <3>1. pc[p] \in Holding /\ result[p] # "queued"
      BY <1>23 DEF Finish, Holding, Finished
    <3>2. \A b \in Agents : Queued(b)' \subseteq Queued(b)
      BY <1>23, <3>1 DEF Finish, Fault, NoFault, Queued, HoldsClaim
    <3>3. /\ pc' = [pc EXCEPT ![p] = IF owed[p] = 0 THEN "claim" ELSE "dry"]
          /\ UNCHANGED <<who, myGen, gen, held>> /\ pc[p] = "finish"
      BY <1>23 DEF Finish, memory
    <3>4. SUFFICES ASSUME NEW r \in Procs, pc'[r] \in Draining
          PROVE  /\ myGen'[r] <= gen'[who'[r]]
                 /\ pc'[r] = "end" /\ Queued(who[r])' # {} => gen'[who'[r]] # myGen'[r] \/ who'[r] \in held'
      BY DEF GenSeen, Queued
    <3>5. pc[r] \in Draining /\ who[r] \in Agents
      BY <3>3, <3>4
    <3>6. pc'[r] = "end" => pc[r] = "end"
      BY <3>3
    <3>7. myGen[r] <= gen[who[r]] /\ (pc[r] = "end" /\ Queued(who[r]) # {} => gen[who[r]] # myGen[r] \/ who[r] \in held)
      BY <3>5 DEF GenSeen
    <3>8. Queued(who[r])' \subseteq Queued(who[r])
      BY <3>2, <3>3, <3>5 DEF Queued
    <3>9. QED
      BY <3>3, <3>6, <3>7, <3>8
  <2>4. NoMessageUnattended'
    <3> SUFFICES ASSUME NEW b \in Agents, Queued(b)' # {} PROVE Attended(b)'
      BY DEF NoMessageUnattended
    <3>1. CASE b = who[p]
      BY <1>23, <3>1 DEF Finish, Fault, NoFault, Attended, Coming, HoldRemembered
    <3>2. CASE b # who[p]
      <4>0. pc[p] \in Holding /\ result[p] # "queued"
        BY <1>23 DEF Finish, Holding, Finished
      <4>1. Queued(b)' = Queued(b)
        BY <1>23, <3>2, <4>0 DEF Finish, Fault, NoFault, Queued, HoldsClaim
      <4>2. Attended(b)
        BY <4>1 DEF NoMessageUnattended
      <4>3. QED
        BY <1>23, <3>2, <4>2, AttendedFrame DEF Finish, Fault, NoFault, Coming,
           HoldRemembered
    <3>3. QED
      BY <3>1, <3>2
  <2>5. QED
    BY <2>1, <2>2, <2>3, <2>4 DEF WakeupParts
<1>24. ASSUME NEW p \in Procs, DryCheck(p)
      PROVE  WakeupParts'
  <2>1. HoldRemembered'
    BY <1>24 DEF DryCheck, Deliver, Fault, NoFault, HoldRemembered
  <2>2. FlagHasConsumer'
    <3>1. /\ pc[p] = "dry" /\ pc'[p] \in {"end", "claim"} /\ UNCHANGED <<running, who>>
          /\ \A r \in Procs \ {p} : pc'[r] = pc[r]
      BY <1>24 DEF DryCheck
    <3>2. \A r \in Procs : pc[r] \in Draining => pc'[r] \in Draining /\ who'[r] = who[r]
      BY <3>1
    <3>3. QED
      BY <3>1, <3>2 DEF FlagHasConsumer
  <2>3. GenSeen'
    BY <1>24 DEF DryCheck, Deliver, Fault, NoFault, GenSeen, Queued, HoldRemembered
  <2>4. NoMessageUnattended'
    <3> SUFFICES ASSUME NEW b \in Agents, Queued(b)' # {} PROVE Attended(b)'
      BY DEF NoMessageUnattended
    <3>1. CASE b = who[p]
      <4>1. Queued(b)' = Queued(b)
        BY <1>24 DEF DryCheck, Deliver, Fault, NoFault, Queued
      <4>2. pc'[p] = "claim" /\ who'[p] = b
        BY <1>24, <3>1, <4>1 DEF DryCheck, Fault
      <4>3. QED
        BY <4>2 DEF Attended, Coming
    <3>2. CASE b # who[p]
      <4>1. Queued(b)' = Queued(b)
        BY <1>24, <3>2 DEF DryCheck, Deliver, Fault, NoFault, Queued
      <4>2. Attended(b)
        BY <4>1 DEF NoMessageUnattended
      <4>3. QED
        BY <1>24, <3>2, <4>2, AttendedFrame DEF DryCheck, Deliver, Fault, NoFault,
           Coming, HoldRemembered
    <3>3. QED
      BY <3>1, <3>2
  <2>5. QED
    BY <2>1, <2>2, <2>3, <2>4 DEF WakeupParts
<1>25. ASSUME NEW p \in Procs, EndDrain(p)
      PROVE  WakeupParts'
  <2>1. HoldRemembered'
    BY <1>25 DEF EndDrain, HoldRemembered
  <2>2. FlagHasConsumer'
    BY <1>25 DEF EndDrain, FlagHasConsumer, OneConsumer, RunningFlag, HoldRemembered
  <2>3. GenSeen'
    BY <1>25 DEF EndDrain, GenSeen, Queued, HoldRemembered
  <2>4. NoMessageUnattended'
    <3> SUFFICES ASSUME NEW b \in Agents, Queued(b)' # {} PROVE Attended(b)'
      BY DEF NoMessageUnattended
    <3>1. CASE b = who[p]
      <4>1. Queued(b)' = Queued(b) /\ pc[p] = "end"
        BY <1>25 DEF EndDrain, Queued
      <4>0. CASE b \in held
        BY <1>25, <4>0 DEF EndDrain, Attended
      <4> SUFFICES ASSUME b \notin held PROVE Attended(b)'
        BY <4>0
      <4>2. gen[b] # myGen[p]
        BY <3>1, <4>1 DEF GenSeen
      <4>3. pc'[p] = "start" /\ who'[p] = b
        BY <1>25, <3>1, <4>2 DEF EndDrain, Arrived
      <4>4. QED
        BY <4>3 DEF Attended, Coming
    <3>2. CASE b # who[p]
      <4>1. Queued(b)' = Queued(b)
        BY <1>25, <3>2 DEF EndDrain, Queued
      <4>2. Attended(b)
        BY <4>1 DEF NoMessageUnattended
      <4>3. QED
        BY <1>25, <3>2, <4>2, AttendedFrame DEF EndDrain, Coming, HoldRemembered
    <3>3. QED
      BY <3>1, <3>2
  <2>5. QED
    BY <2>1, <2>2, <2>3, <2>4 DEF WakeupParts
<1>26. ASSUME NEW p \in Procs, Drained(p)
      PROVE  WakeupParts'
  <2>1. HoldRemembered'
    BY <1>26 DEF Drained, Leave, Deliver, HoldRemembered
  <2>2. FlagHasConsumer'
    BY <1>26 DEF Drained, Leave, Deliver, FlagHasConsumer, OneConsumer, RunningFlag,
       HoldRemembered
  <2>3. GenSeen'
    BY <1>26 DEF Drained, Leave, Deliver, GenSeen, Queued, HoldRemembered
  <2>4. NoMessageUnattended'
    <3> SUFFICES ASSUME NEW b \in Agents, Queued(b)' # {} PROVE Attended(b)'
      BY DEF NoMessageUnattended
    <3>1. Queued(b)' = Queued(b)
      BY <1>26 DEF Drained, Leave, Deliver, Queued
    <3>2. Attended(b)
      BY <3>1 DEF NoMessageUnattended
    <3>3. ~Coming(p, b)
      BY <1>26 DEF Drained, Coming
    <3>4. QED
      BY <1>26, <3>2, <3>3, AttendedFrame DEF Drained, Leave, Deliver
  <2>5. QED
    BY <2>1, <2>2, <2>3, <2>4 DEF WakeupParts
<1>27. CASE UNCHANGED vars
  BY <1>27, UnattendedSame DEF WakeupParts, vars, HoldRemembered, FlagHasConsumer, GenSeen, Queued
<1> HIDE DEF HoldRemembered, FlagHasConsumer, GenSeen, NoMessageUnattended, ConsumerInv,
   TypeOK
<1>28. QED
  BY <1>1, <1>2, <1>3, <1>4, <1>5, <1>6, <1>7, <1>8, <1>9, <1>10, <1>11, <1>12,
     <1>13, <1>14, <1>15, <1>16, <1>17, <1>18, <1>19, <1>20, <1>21, <1>22, <1>23,
     <1>24, <1>25, <1>26, <1>27
     DEF Next, Environment, Goroutine, Consumer

\* As long as no restart is announced and no store statement fails, a queued
\* message always has somebody coming for it: drain's generation check
\* (inbox.go endDrain) closes the window between "the queue is empty" and
\* "no consumer is running", for any number of goroutines, crashes and agents.
THEOREM NoLostWakeup ==
  MaxDrain = 0 /\ MaxFault = 0 => (Spec => []NoMessageUnattended)
<1> SUFFICES ASSUME MaxDrain = 0 /\ MaxFault = 0 PROVE Spec => []NoMessageUnattended
  OBVIOUS
<1>1. TypeOK /\ WakeupInv => NoMessageUnattended
  BY DEF WakeupInv, WakeupParts, NotCalledOff, TypeOK, TypeCallers
<1>2. QED
  BY <1>1, TypeInit, TypeStep, ConsumerInit, ConsumerStep, WakeupInit, WakeupStep,
     PTL
     DEF Spec

\* While an announced restart has not been called off, what it holds back is owed
\* a start: a start call and a claimed message that meet the drain (inbox.go
\* start, holdStart, drain) leave their agent among the held, or a consumer that
\* will claim again, for any number of agents, goroutines and messages whose
\* store statements succeed.
THEOREM HeldIsOwedHolds == MaxFault = 0 => (Spec => []HeldIsOwed)
<1> SUFFICES ASSUME MaxFault = 0 PROVE Spec => []HeldIsOwed
  OBVIOUS
<1>1. WakeupInv => HeldIsOwed
  BY DEF WakeupInv, WakeupParts, HeldIsOwed
<1>2. QED
  BY <1>1, TypeInit, TypeStep, ConsumerInit, ConsumerStep, WakeupInit, WakeupStep,
     PTL
     DEF Spec

-----------------------------------------------------------------------------
(* Inbox implements AgentQueue, for any number of agents, goroutines,      *)
(* messages, announced restarts and crashes, as long as no store statement *)
(* fails.  Six actions write a row; of those only a claim and the reclaim  *)
(* of a dead process's messages need the invariants above.                 *)

USE DEF Ids, Queue!Ids

\* No row of the agent a claiming consumer works for is running: its claims of an
\* earlier process were taken back, and it is the only consumer.
LEMMA NothingRunningAtClaim ==
  ASSUME TypeOK, ConsumerInv, NoOrphanClaim,
         NEW p \in Procs, pc[p] = "claim", NEW j \in Ids, to[j] = who[p]
  PROVE  status[j] # "running"
<1> SUFFICES ASSUME status[j] = "running"
             PROVE  FALSE
  OBVIOUS
<1>1. reclaim[to[j]]
  BY DEF ConsumerInv, Reclaimed, Draining
<1>2. PICK q \in Procs : pc[q] \in Holding /\ msg[q] = j
  BY <1>1 DEF NoOrphanClaim
<1>3. who[q] = who[p]
  BY <1>2 DEF ConsumerInv, HoldsClaim
<1>4. pc[q] \in Draining /\ pc[p] \in Draining
  BY <1>2 DEF Holding, Draining
<1>5. q = p
  BY <1>3, <1>4 DEF ConsumerInv, OneConsumer
<1> QED BY <1>2, <1>5 DEF Holding

\* A claim begins the agent's oldest message that has not ended.
LEMMA ClaimBegins ==
  ASSUME TypeOK, ConsumerInv, NoOrphanClaim,
         NEW p \in Procs, Claim(p)
  PROVE  Queue!Next
<1>1. PICK i \in Ids : NextInLine(who[p], i) /\ status' = Marked(i)
  BY DEF Claim
<1>2. pc[p] = "claim" /\ UNCHANGED to
  BY DEF Claim, At
<1>3. status[i] = "queued" /\ to[i] = who[p]
  BY <1>1 DEF NextInLine, Queued
<1>4. ASSUME NEW j \in Ids, to[j] = to[i]
      PROVE  status[j] # "running"
  BY <1>2, <1>3, <1>4, NothingRunningAtClaim
<1>5. ASSUME NEW j \in Ids, j < i, to[j] = to[i]
      PROVE  status[j] \in Queue!Ends
  <2>1. status[j] # "queued"
    BY <1>1, <1>3, <1>5 DEF NextInLine, Queued
  <2>2. status[j] # "absent"
    <3>1. ~(last < i)
      BY <1>3 DEF ConsumerInv, RowsNumbered
    <3>2. ~(last < j)
      BY <3>1, <1>5 DEF TypeOK, TypeStore
    <3> QED BY <3>2 DEF ConsumerInv, RowsNumbered
  <2> QED BY <2>1, <2>2, <1>4, <1>5
          DEF TypeOK, TypeStore, Statuses, Finished, Queue!Ends
<1>6. Queue!Begin(i)
  BY <1>1, <1>2, <1>3, <1>4, <1>5 DEF Queue!Begin, Marked
<1> QED BY <1>6 DEF Queue!Next

\* At most one row of an agent is running, so taking back a dead process's claims
\* returns one message or none.
LEMMA ReclaimReturns ==
  ASSUME MaxFault = 0, TypeOK, ConsumerInv, NoOrphanClaim, InOrder,
         NEW p \in Procs, Reclaim(p)
  PROVE  Queue!Next \/ UNCHANGED <<status, to>>
<1>1. UNCHANGED to
  BY DEF Reclaim
<1>2. status' = TakeBack(who[p]) \/ status' = status
  BY DEF Reclaim
<1>3. CASE status' = TakeBack(who[p])
  <2>1. CASE \E i \in Ids : to[i] = who[p] /\ status[i] = "running"
    <3>1. PICK i \in Ids : to[i] = who[p] /\ status[i] = "running"
      BY <2>1
    <3>2. ASSUME NEW j \in Ids, to[j] = who[p], status[j] = "running"
          PROVE  j = i
      <4>1. ~(i < j)
        BY <3>1, <3>2 DEF InOrder, Later, Finished
      <4>2. ~(j < i)
        BY <3>1, <3>2 DEF InOrder, Later, Finished
      <4> QED BY <4>1, <4>2 DEF TypeOK, TypeStore
    <3>3. status' = [status EXCEPT ![i] = "queued"]
      BY <1>3, <3>1, <3>2 DEF TakeBack, TypeOK, TypeStore
    <3>4. Queue!Return(i)
      BY <1>1, <3>1, <3>3 DEF Queue!Return
    <3> QED BY <3>4 DEF Queue!Next
  <2>2. CASE ~ \E i \in Ids : to[i] = who[p] /\ status[i] = "running"
    <3>1. status' = status
      BY <1>3, <2>2 DEF TakeBack, TypeOK, TypeStore
    <3> QED BY <1>1, <3>1
  <2> QED BY <2>1, <2>2
<1> QED BY <1>1, <1>2, <1>3

\* A new row is the next id, behind every other.
LEMMA WriteArrives ==
  ASSUME TypeOK, ConsumerInv, NEW a \in Agents, NEW k, NEW waits, WriteRow(a, k, waits)
  PROVE  Queue!Next
<1>1. last + 1 \in Ids
  BY ConstantsAssumption DEF WriteRow, TypeOK, TypeStore
<1>2. status[last + 1] = "absent"
  BY <1>1 DEF ConsumerInv, RowsNumbered, TypeOK, TypeStore
<1>3. \A j \in Ids : j < last + 1 => status[j] # "absent"
  BY DEF ConsumerInv, RowsNumbered, TypeOK, TypeStore
<1>4. Queue!Arrive(last + 1, a)
  BY <1>2, <1>3 DEF WriteRow, Queue!Arrive
<1> QED BY <1>1, <1>4 DEF Queue!Next

\* Every step of a consumer is a step of the queue or leaves it alone.
LEMMA ConsumerRefines ==
  ASSUME MaxFault = 0, TypeOK, ConsumerInv, NoOrphanClaim, InOrder,
         NEW p \in Procs, Consumer(p)
  PROVE  Queue!Next \/ UNCHANGED <<status, to>>
<1>0. ~Fault
  BY DEF NoOrphanClaim, Fault
<1>1. CASE Reclaim(p)
  BY <1>1, ReclaimReturns
<1>2. CASE Claim(p)
  BY <1>2, ClaimBegins
<1>3. CASE ClaimFails(p)
  BY <1>0, <1>3 DEF ClaimFails
<1>4. CASE Requeue(p)
  <2>1. pc[p] \in Holding /\ UNCHANGED to
    BY <1>4 DEF Requeue, At, Holding
  <2>2. status' = [status EXCEPT ![msg[p]] = "queued"]
    BY <1>0, <1>4 DEF Requeue
  <2>3. msg[p] \in Ids /\ Queue!Return(msg[p])
    BY <2>1, <2>2 DEF ConsumerInv, HoldsClaim, Queue!Return
  <2> QED BY <2>3 DEF Queue!Next
<1>5. CASE Finish(p)
  <2>1. pc[p] \in Holding /\ UNCHANGED to
    BY <1>5 DEF Finish, At, Holding
  <2>2. status' = [status EXCEPT ![msg[p]] = result[p]]
    BY <1>0, <1>5 DEF Finish
  <2>3. result[p] \in Queue!Ends
    BY DEF TypeOK, TypeProcs, Finished, Queue!Ends
  <2>4. msg[p] \in Ids /\ Queue!End(msg[p], result[p])
    BY <2>1, <2>2 DEF ConsumerInv, HoldsClaim, Queue!End
  <2> QED BY <2>3, <2>4 DEF Queue!Next
<1>6. CASE ClaimNothing(p) \/ HoldCheck(p) \/ Take(p)
  BY <1>6 DEF ClaimNothing, HoldCheck, Take, store
<1>7. CASE \E err \in BOOLEAN : HandlerReturns(p, err)
  BY <1>7 DEF HandlerReturns, store
<1>8. CASE DryCheck(p) \/ EndDrain(p) \/ Drained(p)
  BY <1>8 DEF DryCheck, EndDrain, Drained, store
<1> QED BY <1>1, <1>2, <1>3, <1>4, <1>5, <1>6, <1>7, <1>8 DEF Consumer

\* Every step of the inbox is a step of the queue or leaves it alone.
LEMMA RefinementStep ==
  ASSUME MaxFault = 0, TypeOK, ConsumerInv, OrderInv, [Next]_vars
  PROVE  [Queue!Next]_(Queue!vars)
<1> SUFFICES Queue!Next \/ UNCHANGED <<status, to>>
  BY DEF Queue!vars
<1>0. NoOrphanClaim /\ InOrder
  BY DEF OrderInv
<1>1. ASSUME NEW p \in Procs, Goroutine(p)
      PROVE  Queue!Next \/ UNCHANGED <<status, to>>
  <2>1. CASE Consumer(p)
    BY <1>0, <2>1, ConsumerRefines
  <2>2. CASE StartHold(p) \/ Launch(p) \/ AnswerToHandler(p)
    BY <2>2 DEF StartHold, Launch, AnswerToHandler, store
  <2> QED BY <1>1, <2>1, <2>2 DEF Goroutine
<1>2. ASSUME NEW i \in Ids, GiveUp(i) \/ CancelCaller(i)
      PROVE  UNCHANGED <<status, to>>
  BY <1>2 DEF GiveUp, CancelCaller, store
<1>3. CASE ResumePaused \/ BeginDrain \/ FinishDrain \/ Crash
  BY <1>3 DEF ResumePaused, BeginDrain, FinishDrain, Crash, store
<1>4. ASSUME NEW p \in Procs, NEW a \in Agents, StartHeld(p, a) \/ BootStart(p, a)
      PROVE  UNCHANGED <<status, to>>
  BY <1>4 DEF StartHeld, BootStart, store
<1>5. ASSUME NEW p \in Procs, NEW a \in Agents, NEW k \in UserKinds,
             NEW waits \in UserWaits, Enqueue(p, a, k, waits)
      PROVE  Queue!Next
  BY <1>5, WriteArrives DEF Enqueue
<1>6. ASSUME NEW p \in Procs, NEW q \in Procs, NEW w \in Workers, Delegate(p, q, w)
      PROVE  Queue!Next
  <2>1. w \in Agents
    BY ConstantsAssumption
  <2> QED BY <1>6, <2>1, WriteArrives DEF Delegate
<1>7. ASSUME NEW a \in Agents, Stop(a)
      PROVE  UNCHANGED <<status, to>>
  BY <1>7 DEF Stop, store
<1>8. CASE UNCHANGED vars
  BY <1>8 DEF vars, store
<1> QED BY <1>1, <1>2, <1>3, <1>4, <1>5, <1>6, <1>7, <1>8 DEF Next, Environment

\* The inbox implements the queue its callers are promised.
THEOREM InboxImplementsQueue == MaxFault = 0 => (Spec => ImplementsQueue)
<1>1. Init => Queue!Init
  BY DEF Init, Queue!Init
<1>2. ASSUME MaxFault = 0
      PROVE  TypeOK /\ ConsumerInv /\ OrderInv /\ [Next]_vars => [Queue!Next]_(Queue!vars)
  BY <1>2, RefinementStep
<1>3. Spec => [](TypeOK /\ ConsumerInv /\ OrderInv)
  BY TypeInit, TypeStep, ConsumerInit, ConsumerStep, OrderInit, OrderStep, PTL DEF Spec
<1>4. ASSUME MaxFault = 0
      PROVE  Spec => Queue!Spec
  BY <1>1, <1>2, <1>3, <1>4, PTL DEF Spec, Queue!Spec
<1> QED BY <1>4 DEF ImplementsQueue
=============================================================================
