-------------------------- MODULE RpcServerProofs --------------------------
(***************************************************************************)
(* Theorems about RpcServer and their proofs.                              *)
(*                                                                         *)
(* TypeOK is inductive on its own.  The safety invariants follow from Inv, *)
(* whose conjuncts are proved one lemma each.  Most actions touch none of  *)
(* the state a conjunct speaks about: Quiet collects them, and every lemma *)
(* has one step for Quiet and one for each of the others.  DrainInv is the *)
(* part a drain needs: what was accepted is still there until it is done.  *)
(* RefInv is what the refinement needs: RpcServer implements CallContract, *)
(* step by step.                                                           *)
(***************************************************************************)
EXTENDS RpcServerContract, TLAPS, FiniteSetTheorems, SequenceTheorems

USE DEF Ids

\* No step of serve() takes a variable out of its domain.
LEMMA TypeStep == TypeOK /\ [Next]_vars => TypeOK'
<1> SUFFICES ASSUME TypeOK, [Next]_vars PROVE TypeOK'
  OBVIOUS
<1> USE BoundsAssumption DEF TypeOK, loopVars, callVars, writerVars, vars
<1>1. CASE UNCHANGED vars
  BY <1>1
<1>2. CASE CommitSend
  BY SMTT(30), <1>2 DEF CommitSend, Enqueue, HasRoom, Frame, Frames, Replies, Kinds, LoopStates
<1>3. CASE CommitDone
  BY SMTT(30), <1>3 DEF CommitDone, Continue, Replies, Continuations, LoopStates, Acks
<1>4. CASE CommitFails
  <2>1. queue' \in Seq(Frames)
    <3>1. \A f \in Frames : Disown(f) \in Frames
      BY DEF Disown, Frames
    <3>2. DOMAIN queue = 1 .. Len(queue) /\ Len(queue) \in Nat
          /\ \A i \in 1 .. Len(queue) : queue[i] \in Frames
      OBVIOUS
    <3> HIDE DEF TypeOK
    <3> QED
      BY <1>4, <3>1, <3>2, SeqDef DEF CommitFails
  <2>2. current' \in Frames \cup {NoFrame}
    <3>1. current \in Frames \cup {NoFrame}
      OBVIOUS
    <3>2. current' = Disown(current)
      BY <1>4 DEF CommitFails
    <3> HIDE DEF TypeOK
    <3> QED
      BY <3>1, <3>2 DEF Disown, Frames, NoFrame
  <2> QED
    BY SMTT(30), <1>4, <2>1, <2>2 DEF CommitFails, Continue, Replies, Continuations, LoopStates, Acks
<1>5. CASE LoopPolls
  BY <1>5 DEF LoopPolls, LoopStates
<1>6. CASE LoopWakes
  BY <1>6 DEF LoopWakes, LoopStates
<1>7. CASE LoopDisconnected
  BY <1>7 DEF LoopDisconnected, LeaveLoop, LoopStates
<1>8. CASE LoopDeadline
  BY <1>8 DEF LoopDeadline, LeaveLoop, LoopStates
<1>9. CASE LoopDrained
  BY <1>9 DEF LoopDrained, LeaveLoop, LoopStates
<1>10. CASE LoopJoinFails
  BY <1>10 DEF LoopJoinFails, LeaveLoop, LoopStates
<1>11. CASE ReadEnds
  BY <1>11 DEF ReadEnds, LeaveLoop, LoopStates
<1>12. CASE ReadViolation
  <2>1. reply' \in Replies /\ loop' = "sending" /\ lastSeen' \in 0 .. MaxId
    BY <1>12 DEF ReadViolation, StartCommit, Replies, Continuations
  <2> QED
    BY <1>12, <2>1 DEF ReadViolation, LoopStates
<1>13. CASE ReadDiscover
  BY SMTT(30), <1>13 DEF ReadDiscover, FreshRequest, StartCommit, LoopStates, Replies, Continuations
<1>14. CASE ReadInitialize
  BY SMTT(30), <1>14 DEF ReadInitialize, FreshRequest, LoopStates, Replies, Continuations
<1>15. CASE ReadReject
  BY SMTT(30), <1>15 DEF ReadReject, FreshRequest, StartCommit, LoopStates, Replies, Continuations
<1>16. CASE ReadCall
  BY SMTT(30), <1>16 DEF ReadCall, FreshRequest, LoopStates, TaskStates, HandlerRunning
<1>17. CASE ReadCancel
  BY <1>17 DEF ReadCancel, LoopStates
<1>18. CASE ReadShutdown
  BY <1>18 DEF ReadShutdown, FreshRequest, LoopStates
<1>19. CASE InitializeSucceeds
  BY <1>19 DEF InitializeSucceeds, LoopStates
<1>20. CASE InitializeFails
  BY SMTT(30), <1>20 DEF InitializeFails, StartCommit, LoopStates, Replies, Continuations
<1>21. CASE CancelAll
  BY <1>21 DEF CancelAll, LoopStates
<1>22. CASE JoinAll
  BY <1>22 DEF JoinAll, LoopStates
<1>23. CASE Release
  BY SMTT(30), <1>23 DEF Release, StartCommit, LoopStates, Replies, Continuations
<1>24. CASE ServeReturns
  BY <1>24 DEF ServeReturns, LoopStates
<1>25. CASE WriterTake
  <2>1. Head(queue) \in Frames /\ Tail(queue) \in Seq(Frames)
    BY <1>25, HeadTailProperties DEF WriterTake
  <2> QED
    BY <1>25, <2>1 DEF WriterTake
<1>26. CASE WriterWrites
  BY <1>26 DEF WriterWrites, Acknowledge, Acks, Frames
<1>27. CASE WriterFails
  BY <1>27 DEF WriterFails, Acknowledge, Acks
<1>28. CASE WriterDrained
  BY <1>28 DEF WriterDrained
<1>29. CASE WriterCloses
  <2>1. queue' \in Seq(Frames) /\ slots' \subseteq 1 .. MaxId
    BY <1>29, EmptySeq DEF WriterCloses
  <2>2. acks' \in [1 .. MaxId -> Acks] /\ replyAck' \in Acks
    BY <1>29 DEF WriterCloses, Acknowledge, Acks
  <2> QED
    BY <1>29, <2>1, <2>2 DEF WriterCloses
<1>30. CASE SessionOver
  BY <1>30 DEF SessionOver
<1>31. ASSUME NEW id \in Ids, AbortTask(id) PROVE TypeOK'
  BY ZenonT(60), <1>31 DEF AbortTask, Goto, TaskStates, Ended
<1>32. ASSUME NEW id \in Ids, Expire(id) PROVE TypeOK'
  BY <1>32 DEF Expire
<1>33. ASSUME NEW id \in Ids, HandlerReturns(id) PROVE TypeOK'
  BY SMTT(30), <1>33 DEF HandlerReturns, Goto, TaskStates, CallKinds, AppKinds
<1>34. ASSUME NEW id \in Ids, HandlerPanics(id) PROVE TypeOK'
  BY <1>34 DEF HandlerPanics, Goto, TaskStates, Ended
<1>35. ASSUME NEW id \in Ids, LateReturn(id) PROVE TypeOK'
  BY <1>35 DEF LateReturn, Goto, TaskStates
<1>36. ASSUME NEW id \in Ids, HandlerInterrupted(id) PROVE TypeOK'
  BY <1>36 DEF HandlerInterrupted, Goto, TaskStates, HandlerRunning, CallKinds
<1>37. ASSUME NEW id \in Ids, SendTerminal(id) PROVE TypeOK'
  <2>1. Frame(id, resp[id], "none", FALSE) \in Frames
    BY <1>37 DEF SendTerminal, Frame, Frames, Kinds
  <2>2. task' \in [1 .. MaxId -> TaskStates]
    BY <1>37 DEF SendTerminal, Goto, TaskStates, HandlerRunning
  <2>3. \A c \in 1 .. MaxId : task'[c] \in {"respond", "send", "terminal", "override"}
                              => resp'[c] \in CallKinds
    BY <1>37 DEF SendTerminal, Goto
  <2>4. CASE writer = "closed" /\ UNCHANGED <<queue, terminals>>
    BY ZenonT(60), <1>37, <2>2, <2>3, <2>4 DEF SendTerminal
  <2>5. CASE /\ queue' = Append(queue, Frame(id, resp[id], "none", FALSE))
             /\ terminals' = [terminals EXCEPT ![id] = @ + 1]
    <3>1. queue' \in Seq(Frames)
      BY <2>1, <2>5, AppendProperties
    <3>2. terminals' \in [1 .. MaxId -> Nat]
      BY <2>5
    <3> QED
      BY ZenonT(60), <1>37, <2>2, <2>3, <3>1, <3>2 DEF SendTerminal
  <2> QED
    BY <1>37, <2>4, <2>5 DEF SendTerminal, Enqueue
<1>38. ASSUME NEW id \in Ids, RespondPoll(id) PROVE TypeOK'
  <2>1. task' \in [1 .. MaxId -> TaskStates]
    BY <1>38 DEF RespondPoll, Goto, TaskStates
  <2>2. resp' \in [1 .. MaxId -> CallKinds \cup {"none"}]
    BY <1>38 DEF RespondPoll, CallKinds
  <2>3. cancelled' \subseteq 1 .. MaxId /\ slots' \subseteq 1 .. MaxId
    BY <1>38 DEF RespondPoll
  <2>4. \A c \in 1 .. MaxId : task'[c] \in {"respond", "send", "terminal", "override"}
                              => resp'[c] \in CallKinds
    BY <1>38 DEF RespondPoll, Goto, CallKinds
  <2> QED
    BY SMTT(30), <1>38, <2>1, <2>2, <2>3, <2>4 DEF RespondPoll
<1>39. ASSUME NEW id \in Ids, RespondSend(id) PROVE TypeOK'
  <2>1. Frame(id, resp[id], "call", TRUE) \in Frames
    BY <1>39 DEF RespondSend, Frame, Frames, Kinds
  <2>2. task' \in [1 .. MaxId -> TaskStates]
    BY ZenonT(60), <1>39 DEF RespondSend, Goto, TaskStates
  <2>3. \A c \in 1 .. MaxId : task'[c] \in {"respond", "send", "terminal", "override"}
                              => resp'[c] \in CallKinds
    BY <1>39 DEF RespondSend, Goto
  <2>4. cancelled' \subseteq 1 .. MaxId /\ slots' \subseteq 1 .. MaxId
    BY <1>39 DEF RespondSend
  <2>5. CASE UNCHANGED <<queue, terminals>>
    BY SMTT(30), <1>39, <2>2, <2>3, <2>4, <2>5 DEF RespondSend
  <2>6. CASE /\ queue' = Append(queue, Frame(id, resp[id], "call", TRUE))
             /\ terminals' = [terminals EXCEPT ![id] = @ + 1]
    <3>1. queue' \in Seq(Frames)
      BY <2>1, <2>6, AppendProperties
    <3>2. terminals' \in [1 .. MaxId -> Nat]
      BY <2>6
    <3> QED
      BY ZenonT(60), <1>39, <2>2, <2>3, <2>4, <3>1, <3>2 DEF RespondSend
  <2> QED
    BY <1>39, <2>5, <2>6 DEF RespondSend, Enqueue
<1>40. ASSUME NEW id \in Ids, CommitAcked(id) PROVE TypeOK'
  BY <1>40 DEF CommitAcked, Goto, TaskStates
<1>41. ASSUME NEW id \in Ids, CommitLost(id) PROVE TypeOK'
  BY <1>41 DEF CommitLost, Goto, TaskStates
<1>42. ASSUME NEW id \in Ids, Finish(id) PROVE TypeOK'
  <2>1. finished' \in [1 .. MaxId -> {"none", "committed", "uncommitted"}]
    BY <1>42 DEF Finish
  <2>2. task' \in [1 .. MaxId -> TaskStates]
    BY <1>42 DEF Finish, Goto, TaskStates, Ended
  <2>3. \A c \in 1 .. MaxId : task'[c] \in {"respond", "send", "terminal", "override"}
                              => resp'[c] \in CallKinds
    BY <1>42 DEF Finish, Goto
  <2>4. inflight' \subseteq 1 .. MaxId /\ slots' \subseteq 1 .. MaxId
    BY <1>42 DEF Finish
  <2>5. UNCHANGED <<loopVars, resp, cancelled, terminals, writerVars, replyAck, expired,
                    acks, disconnected>>
    BY <1>42 DEF Finish
  <2> QED
    BY <2>1, <2>2, <2>3, <2>4, <2>5
<1> QED BY <1>1, <1>2, <1>3, <1>4, <1>5, <1>6, <1>7, <1>8, <1>9, <1>10, <1>11,
    <1>12, <1>13, <1>14, <1>15, <1>16, <1>17, <1>18, <1>19, <1>20, <1>21,
    <1>22, <1>23, <1>24, <1>25, <1>26, <1>27, <1>28, <1>29, <1>30, <1>31,
    <1>32, <1>33, <1>34, <1>35, <1>36, <1>37, <1>38, <1>39, <1>40, <1>41,
    <1>42 DEF Next, Commit, LoopSelect, ReadFrame, Initialize, Teardown,
    Writer, HandlerSteps, CallSteps


----------------------------------------------------------------------------
\* The part of the state that Inv, apart from ReleaseInv and SeenInv, is about.
coreVars == <<task, resp, finished, terminals, slots, acks, queue, current, written>>

Quiet ==
  \/ CommitDone \/ LoopSelect \/ Initialize
  \/ ReadEnds \/ ReadViolation \/ ReadDiscover \/ ReadInitialize \/ ReadReject
  \/ ReadCancel \/ ReadShutdown
  \/ CancelAll \/ JoinAll \/ Release \/ ServeReturns \/ WriterDrained
  \/ (\E id \in Ids : Expire(id)) \/ SessionOver \/ UNCHANGED vars

CallMoves(id) ==
  \/ AbortTask(id) \/ HandlerReturns(id) \/ HandlerPanics(id) \/ LateReturn(id)
  \/ HandlerInterrupted(id) \/ SendTerminal(id) \/ RespondPoll(id) \/ RespondSend(id)
  \/ CommitAcked(id) \/ CommitLost(id) \/ Finish(id)

\* The steps of serve() in three groups: quiet ones, the moves of one call, and
\* the rest; the invariants are preserved group by group.
LEMMA NextCases ==
  [Next]_vars => \/ Quiet \/ CommitSend \/ CommitFails \/ ReadCall
                 \/ WriterTake \/ WriterWrites \/ WriterFails \/ WriterCloses
                 \/ \E id \in Ids : CallMoves(id)
  BY DEF Next, Quiet, CallMoves, Commit, LoopSelect, ReadFrame, Teardown, Writer,
         HandlerSteps, CallSteps

\* A quiet step changes nothing that the core invariants speak about.
LEMMA QuietStep == Quiet => UNCHANGED coreVars
<1> USE DEF coreVars, callVars, writerVars, vars
<1>1. CommitDone => UNCHANGED coreVars
  BY DEF CommitDone, Continue
<1>2. LoopSelect => UNCHANGED coreVars
  BY DEF LoopSelect, LoopPolls, LoopWakes, LoopDisconnected, LoopDeadline, LoopDrained,
         LoopJoinFails, LeaveLoop
<1>3. Initialize => UNCHANGED coreVars
  BY DEF Initialize, InitializeSucceeds, InitializeFails
<1>4. ReadEnds \/ ReadViolation \/ ReadDiscover \/ ReadInitialize => UNCHANGED coreVars
  BY DEF ReadEnds, ReadViolation, ReadDiscover, ReadInitialize, LeaveLoop
<1>5. ReadReject \/ ReadCancel \/ ReadShutdown => UNCHANGED coreVars
  BY DEF ReadReject, ReadCancel, ReadShutdown
<1>6. CancelAll \/ JoinAll \/ Release \/ ServeReturns => UNCHANGED coreVars
  BY DEF CancelAll, JoinAll, Release, ServeReturns
<1>7. WriterDrained \/ (\E id \in Ids : Expire(id)) \/ SessionOver \/ UNCHANGED vars
        => UNCHANGED coreVars
  BY DEF WriterDrained, Expire, SessionOver
<1> QED BY <1>1, <1>2, <1>3, <1>4, <1>5, <1>6, <1>7 DEF Quiet

\* Request IDs are seen in increasing order.
LEMMA SeenGrows == TypeOK /\ [Next]_vars => lastSeen' >= lastSeen
<1> SUFFICES ASSUME TypeOK, [Next]_vars PROVE lastSeen' >= lastSeen
  OBVIOUS
<1>1. lastSeen \in Nat
  BY BoundsAssumption DEF TypeOK
<1>2. ReadFrame => lastSeen' >= lastSeen
  BY <1>1, BoundsAssumption DEF ReadFrame, ReadEnds, ReadViolation, ReadDiscover, ReadInitialize,
     ReadReject, ReadCall, ReadCancel, ReadShutdown, LeaveLoop, FreshRequest
<1>3. Commit \/ LoopSelect \/ Initialize \/ Teardown => lastSeen' = lastSeen
  BY DEF Commit, CommitSend, CommitDone, CommitFails, Continue, LoopSelect, LoopPolls,
     LoopWakes, LoopDisconnected, LoopDeadline, LoopDrained, LoopJoinFails, LeaveLoop,
     Initialize, InitializeSucceeds, InitializeFails, Teardown, CancelAll, AbortTask,
     JoinAll, Release, ServeReturns, loopVars
<1>4. Writer => lastSeen' = lastSeen
  BY DEF Writer, WriterTake, WriterWrites, WriterFails, WriterDrained, WriterCloses, loopVars
<1>5. ASSUME NEW id \in Ids, Expire(id) \/ HandlerSteps(id) \/ CallSteps(id)
      PROVE  lastSeen' = lastSeen
  BY <1>5 DEF Expire, HandlerSteps, HandlerReturns, HandlerPanics, LateReturn, CallSteps,
     HandlerInterrupted, SendTerminal, RespondPoll, RespondSend, CommitAcked, CommitLost,
     Finish, loopVars
<1>6. SessionOver \/ UNCHANGED vars => lastSeen' = lastSeen
  BY DEF SessionOver, vars, loopVars
<1> QED
  BY <1>1, <1>2, <1>3, <1>4, <1>5, <1>6 DEF Next


\* Every set of request IDs is finite, so permits can be counted.
LEMMA FiniteIds == ASSUME NEW S, S \subseteq Ids
                   PROVE  IsFiniteSet(S) /\ Cardinality(S) \in Nat
<1>0. 1 \in Int /\ MaxId \in Int
  BY BoundsAssumption
<1>1. IsFiniteSet(1 .. MaxId)
  BY <1>0, FS_Interval
<1>2. IsFiniteSet(S)
  BY <1>1, FS_Subset
<1> QED BY <1>2, FS_CardinalityType

\* Releasing permits never raises their number.
LEMMA FewerSlots == ASSUME NEW T, T \subseteq Ids, NEW S, S \subseteq T
                    PROVE  /\ Cardinality(S) \in Nat /\ Cardinality(T) \in Nat
                           /\ Cardinality(S) <= Cardinality(T)
  BY FiniteIds, FS_Subset

\* No call is accepted under an ID that was seen before.
LEMMA SeenStep == TypeOK /\ SeenInv /\ [Next]_vars => SeenInv'
<1> SUFFICES ASSUME TypeOK, SeenInv, [Next]_vars PROVE SeenInv'
  OBVIOUS
<1>a. TypeOK' /\ lastSeen' >= lastSeen
  BY TypeStep, SeenGrows
<1>0. /\ lastSeen \in Nat /\ lastSeen' \in Nat /\ lastSeen' >= lastSeen
      /\ task \in [Ids -> TaskStates] /\ Ids \subseteq Nat
  BY <1>a, BoundsAssumption DEF TypeOK
<1> USE <1>0 DEF SeenInv
<1>1. CASE Quiet
  BY <1>1, QuietStep DEF coreVars
<1>2. CASE CommitSend
  BY <1>2 DEF CommitSend, callVars, writerVars
<1>3. CASE CommitFails
  BY <1>3 DEF CommitFails, Continue, callVars
<1>4. CASE ReadCall
  BY <1>4 DEF ReadCall, FreshRequest
<1>5. CASE WriterTake
  BY <1>5 DEF WriterTake, callVars, writerVars
<1>6. CASE WriterWrites
  BY <1>6 DEF WriterWrites, callVars, writerVars
<1>7. CASE WriterFails
  BY <1>7 DEF WriterFails, callVars, writerVars
<1>8. CASE WriterCloses
  BY <1>8 DEF WriterCloses, callVars, writerVars
<1>9. ASSUME NEW id \in Ids, CallMoves(id) PROVE SeenInv'
  <2>1. CASE AbortTask(id)
    BY <2>1 DEF AbortTask, Goto, Live, Ended
  <2>2. CASE HandlerReturns(id)
    BY <2>2 DEF HandlerReturns, Goto, writerVars
  <2>3. CASE HandlerPanics(id)
    BY <2>3 DEF HandlerPanics, Goto, writerVars
  <2>4. CASE LateReturn(id)
    BY <2>4 DEF LateReturn, Goto, writerVars
  <2>5. CASE HandlerInterrupted(id)
    BY <2>5 DEF HandlerInterrupted, Goto, writerVars
  <2>6. CASE SendTerminal(id)
    BY <2>6 DEF SendTerminal, Goto, writerVars
  <2>7. CASE RespondPoll(id)
    <3>1. task[id] = "respond" /\ lastSeen' = lastSeen /\ \E s : Goto(id, s)
      BY <2>7 DEF RespondPoll, loopVars
    <3> QED BY <3>1 DEF Goto
  <2>8. CASE RespondSend(id)
    <3>1. task[id] = "send" /\ lastSeen' = lastSeen /\ \E s : Goto(id, s)
      BY <2>8 DEF RespondSend, loopVars
    <3> QED BY <3>1 DEF Goto
  <2>9. CASE CommitAcked(id)
    BY <2>9 DEF CommitAcked, Goto, writerVars
  <2>10. CASE CommitLost(id)
    BY <2>10 DEF CommitLost, Goto, writerVars
  <2>11. CASE Finish(id)
    BY <2>11 DEF Finish, Goto, writerVars
  <2> QED
    BY <1>9, <2>1, <2>2, <2>3, <2>4, <2>5, <2>6, <2>7, <2>8, <2>9, <2>10,
       <2>11 DEF CallMoves
<1> QED
  BY <1>1, <1>2, <1>3, <1>4, <1>5, <1>6, <1>7, <1>8, <1>9, NextCases

\* Each call hands over its response in the step that leaves Unanswered.
LEMMA TerminalStep == TypeOK /\ SeenInv /\ TerminalInv /\ [Next]_vars => TerminalInv'
<1> SUFFICES ASSUME TypeOK, SeenInv, TerminalInv, [Next]_vars PROVE TerminalInv'
  OBVIOUS
<1>0. /\ lastSeen \in Nat /\ Ids \subseteq Nat
      /\ task \in [Ids -> TaskStates] /\ terminals \in [Ids -> Nat]
  BY BoundsAssumption DEF TypeOK
<1> USE <1>0 DEF TerminalInv, Unanswered
<1>1. CASE Quiet
  BY <1>1, QuietStep DEF coreVars
<1>2. CASE CommitSend
  BY <1>2 DEF CommitSend, callVars, writerVars
<1>3. CASE CommitFails
  BY <1>3 DEF CommitFails, Continue, callVars
<1>4. CASE ReadCall
  BY <1>4 DEF ReadCall, FreshRequest, SeenInv
<1>5. CASE WriterTake
  BY <1>5 DEF WriterTake, callVars, writerVars
<1>6. CASE WriterWrites
  BY <1>6 DEF WriterWrites, callVars, writerVars
<1>7. CASE WriterFails
  BY <1>7 DEF WriterFails, callVars, writerVars
<1>8. CASE WriterCloses
  BY <1>8 DEF WriterCloses, callVars, writerVars
<1>9. ASSUME NEW id \in Ids, CallMoves(id) PROVE TerminalInv'
  <2>1. CASE AbortTask(id)
    BY <2>1 DEF AbortTask, Goto, writerVars
  <2>2. CASE HandlerReturns(id)
    BY <2>2 DEF HandlerReturns, Goto, writerVars
  <2>3. CASE HandlerPanics(id)
    BY <2>3 DEF HandlerPanics, Goto, writerVars
  <2>4. CASE LateReturn(id)
    BY <2>4 DEF LateReturn, Goto, writerVars
  <2>5. CASE HandlerInterrupted(id)
    BY <2>5 DEF HandlerInterrupted, Goto, writerVars
  <2>6. CASE SendTerminal(id)
    <3>1. /\ task' = [task EXCEPT ![id] = IF task[id] = "terminal" THEN "late" ELSE "uncommitted"]
          /\ terminals[id] = 0
          /\ terminals' = terminals \/ terminals' = [terminals EXCEPT ![id] = @ + 1]
      BY <2>6 DEF SendTerminal, Goto
    <3>2. CASE terminals' = terminals
      BY <3>1, <3>2
    <3>3. CASE terminals' = [terminals EXCEPT ![id] = @ + 1]
      BY <3>1, <3>3
    <3> QED BY <3>1, <3>2, <3>3
  <2>7. CASE RespondPoll(id)
    BY <2>7 DEF RespondPoll, Goto, writerVars
  <2>8. CASE RespondSend(id)
    <3>1. /\ task[id] = "send" /\ terminals[id] = 0
          /\ \/ Goto(id, "committing") /\ terminals' = [terminals EXCEPT ![id] = @ + 1]
             \/ Goto(id, "respond") /\ terminals' = terminals
             \/ Goto(id, "uncommitted") /\ terminals' = terminals
      BY <2>8 DEF RespondSend
    <3>2. CASE Goto(id, "committing") /\ terminals' = [terminals EXCEPT ![id] = @ + 1]
      BY <3>1, <3>2 DEF Goto
    <3> QED BY <3>1, <3>2 DEF Goto
  <2>9. CASE CommitAcked(id)
    BY <2>9 DEF CommitAcked, Goto, writerVars
  <2>10. CASE CommitLost(id)
    BY <2>10 DEF CommitLost, Goto, writerVars
  <2>11. CASE Finish(id)
    BY <2>11 DEF Finish, Goto, writerVars
  <2> QED
    BY <1>9, <2>1, <2>2, <2>3, <2>4, <2>5, <2>6, <2>7, <2>8, <2>9, <2>10,
       <2>11 DEF CallMoves
<1> QED
  BY <1>1, <1>2, <1>3, <1>4, <1>5, <1>6, <1>7, <1>8, <1>9, NextCases

\* A permit is released once, and only by a call whose handler has returned.
LEMMA SlotStep == TypeOK /\ SeenInv /\ SlotInv /\ [Next]_vars => SlotInv'
<1> SUFFICES ASSUME TypeOK, SeenInv, SlotInv, [Next]_vars PROVE SlotInv'
  OBVIOUS
<1>0. /\ lastSeen \in Nat /\ Ids \subseteq Nat /\ MaxInFlight \in Nat
      /\ task \in [Ids -> TaskStates] /\ slots \subseteq Ids /\ queue \in Seq(Frames)
  BY BoundsAssumption DEF TypeOK
<1>a. \A S : S \subseteq slots => Cardinality(S) \in Nat
             /\ Cardinality(S) <= Cardinality(slots) /\ Cardinality(slots) \in Nat
  BY <1>0, FewerSlots
<1> USE <1>0 DEF SlotInv, OwnsPermit, HandlerRunning
<1>1. CASE Quiet
  BY <1>1, QuietStep DEF coreVars
<1>2. CASE CommitSend
  <2>1. \A i \in DOMAIN queue' : queue'[i].slot => i \in DOMAIN queue /\ queue'[i] = queue[i]
    BY <1>2, AppendProperties DEF CommitSend, Enqueue, Frame
  <2> QED BY <1>2, <2>1 DEF CommitSend, callVars
<1>3. CASE CommitFails
  <2>1. DOMAIN queue' = DOMAIN queue
        /\ \A i \in DOMAIN queue : queue'[i].slot = queue[i].slot /\ queue'[i].id = queue[i].id
    BY <1>3 DEF CommitFails, Disown, Frames
  <2> QED BY <1>3, <2>1 DEF CommitFails, Continue, callVars
<1>4. CASE ReadCall
  <2> PICK id \in Ids : /\ id > lastSeen
                        /\ task' = [task EXCEPT ![id] = "running"]
                        /\ slots' = slots \cup {id}
    BY <1>4 DEF ReadCall, FreshRequest
  <2>1. Cardinality(slots') <= MaxInFlight
    <3>1. IsFiniteSet(slots) /\ Cardinality(slots) \in Nat
      BY FiniteIds
    <3>2. Cardinality(slots \cup {id}) =
            IF id \in slots THEN Cardinality(slots) ELSE Cardinality(slots) + 1
      BY <3>1, FS_AddElement, Zenon
    <3>3. Cardinality(slots) < MaxInFlight
      BY <1>4 DEF ReadCall
    <3>4. Cardinality(slots \cup {id}) \in Nat
      BY FiniteIds
    <3> QED BY <3>1, <3>2, <3>3, <3>4
  <2>2. \A i \in DOMAIN queue : queue[i].slot => queue[i].id # id
    BY DEF SeenInv
  <2> QED BY <1>4, <2>1, <2>2 DEF ReadCall, writerVars
<1>5. CASE WriterTake
  <2>1. Cardinality(slots') <= Cardinality(slots)
    BY <1>5, FewerSlots DEF WriterTake
  <2>2. \A i \in DOMAIN queue' : i + 1 \in DOMAIN queue /\ queue'[i] = queue[i + 1]
    BY <1>5, HeadTailProperties DEF WriterTake
  <2>3. Head(queue) = queue[1] /\ 1 \in DOMAIN queue
    BY <1>5, EmptySeq DEF WriterTake
  <2> QED BY <1>5, <1>a, <2>1, <2>2, <2>3 DEF WriterTake, callVars
<1>6. CASE WriterWrites
  BY <1>6 DEF WriterWrites, callVars
<1>7. CASE WriterFails
  BY <1>7 DEF WriterFails, callVars
<1>8. CASE WriterCloses
  <2>1. Cardinality(slots') <= Cardinality(slots)
    BY <1>8, FewerSlots DEF WriterCloses
  <2>2. \A c \in Ids : task[c] \in OwnsPermit => c \notin SlotsIn(queue)
    BY DEF SlotsIn
  <2> QED BY <1>8, <1>a, <2>1, <2>2 DEF WriterCloses, callVars
<1>9. ASSUME NEW id \in Ids, CallMoves(id) PROVE SlotInv'
  <2>1. CASE AbortTask(id)
    <3>1. Cardinality(slots') <= Cardinality(slots)
      BY <2>1, FewerSlots DEF AbortTask
    <3> QED BY <2>1, <1>a, <3>1 DEF AbortTask, Goto, OwnSlot, Live, Ended, writerVars
  <2>2. CASE HandlerReturns(id)
    BY <2>2 DEF HandlerReturns, Goto, writerVars
  <2>3. CASE HandlerPanics(id)
    <3>1. Cardinality(slots') <= Cardinality(slots)
      BY <2>3, FewerSlots DEF HandlerPanics
    <3> QED BY <2>3, <1>a, <3>1 DEF HandlerPanics, Goto, writerVars
  <2>4. CASE LateReturn(id)
    BY <2>4 DEF LateReturn, Goto, writerVars
  <2>5. CASE HandlerInterrupted(id)
    BY <2>5 DEF HandlerInterrupted, Goto, writerVars
  <2>6. CASE SendTerminal(id)
    <3>1. \A i \in DOMAIN queue' : queue'[i].slot => i \in DOMAIN queue /\ queue'[i] = queue[i]
      BY <2>6, AppendProperties DEF SendTerminal, Enqueue, Frame
    <3> QED BY <2>6, <3>1 DEF SendTerminal, Goto
  <2>7. CASE RespondPoll(id)
    <3>1. Cardinality(slots') <= Cardinality(slots)
      BY <2>7, FewerSlots DEF RespondPoll
    <3>2. /\ UNCHANGED queue /\ task[id] = "respond"
          /\ \/ Goto(id, "override") /\ slots' = slots \ {id}
             \/ Goto(id, "send") /\ slots' = slots
      BY <2>7 DEF RespondPoll, writerVars
    <3>3. CASE Goto(id, "override") /\ slots' = slots \ {id}
      BY <1>a, <3>1, <3>2, <3>3 DEF Goto
    <3>4. CASE Goto(id, "send") /\ slots' = slots
      BY <3>2, <3>4 DEF Goto
    <3> QED BY <3>2, <3>3, <3>4
  <2>8. CASE RespondSend(id)
    <3>1. CASE /\ Enqueue(Frame(id, resp[id], "call", TRUE)) /\ Goto(id, "committing")
               /\ UNCHANGED slots
      <4>1. \A i \in DOMAIN queue' : \/ i \in DOMAIN queue /\ queue'[i] = queue[i]
                                     \/ queue'[i].id = id
        BY <3>1, AppendProperties DEF Enqueue, Frame
      <4> QED BY <2>8, <3>1, <4>1 DEF RespondSend, Goto
    <3>2. CASE Goto(id, "respond") /\ UNCHANGED <<queue, slots>>
      BY <2>8, <3>2 DEF RespondSend, Goto
    <3>3. CASE Goto(id, "uncommitted") /\ slots' = slots \ {id} /\ UNCHANGED queue
      <4>1. Cardinality(slots') <= Cardinality(slots)
        BY <3>3, FewerSlots
      <4> QED BY <2>8, <1>a, <3>3, <4>1 DEF RespondSend, Goto
    <3> QED BY <2>8, <3>1, <3>2, <3>3 DEF RespondSend
  <2>9. CASE CommitAcked(id)
    BY <2>9 DEF CommitAcked, Goto, writerVars
  <2>10. CASE CommitLost(id)
    BY <2>10 DEF CommitLost, Goto, writerVars
  <2>11. CASE Finish(id)
    <3>1. Cardinality(slots') <= Cardinality(slots)
      BY <2>11, FewerSlots DEF Finish
    <3> QED BY <2>11, <1>a, <3>1 DEF Finish, Goto, OwnSlot, writerVars
  <2> QED
    BY <1>9, <2>1, <2>2, <2>3, <2>4, <2>5, <2>6, <2>7, <2>8, <2>9, <2>10,
       <2>11 DEF CallMoves
<1> QED
  BY <1>1, <1>2, <1>3, <1>4, <1>5, <1>6, <1>7, <1>8, <1>9, NextCases

\* What a step of one call may do to what CommitInv says: a call that has been
\* answered stays answered and keeps its response, and no frame or
\* acknowledgement is added.
LEMMA CommitKept ==
  ASSUME CommitInv, NEW id \in Ids, task \in [Ids -> TaskStates],
         task' = [task EXCEPT ![id] = task'[id]],
         task[id] \notin Unanswered => task'[id] \notin Unanswered /\ resp'[id] = resp[id],
         \A c \in Ids \ {id} : resp'[c] = resp[c],
         UNCHANGED <<acks, current, written>>,
         \A i \in DOMAIN queue' : queue'[i].ack = "call" =>
            i \in DOMAIN queue /\ queue'[i] = queue[i],
         task'[id] = "committed" => Wrote(id, {"app"}),
         \A c \in Ids : finished'[c] = "committed" =>
            finished[c] = "committed" \/ task[c] = "committed"
  PROVE  CommitInv'
<1>1. \A c \in Ids : task[c] \notin Unanswered =>
         task'[c] \notin Unanswered /\ resp'[c] = resp[c]
  OBVIOUS
<1>2. (\A i \in DOMAIN queue : FrameInv(queue[i]))'
  BY <1>1 DEF CommitInv, FrameInv
<1>3. FrameInv(current)'
  BY <1>1 DEF CommitInv, FrameInv
<1>4. \A c \in Ids : (acks[c] = "ok")' => (task[c] \notin Unanswered /\ Wrote(c, {resp[c]}))'
  BY <1>1 DEF CommitInv, Wrote
<1>5. \A c \in Ids : (task[c] = "committed")' => Wrote(c, {"app"})'
  BY DEF CommitInv, Wrote
<1>6. CommittedWasWritten'
  BY DEF CommitInv, CommittedWasWritten, Wrote
<1> QED BY <1>2, <1>3, <1>4, <1>5, <1>6 DEF CommitInv


\* A call learns that its response was written only after it was.
LEMMA CommitStep == TypeOK /\ SeenInv /\ CommitInv /\ [Next]_vars => CommitInv'
<1> SUFFICES ASSUME TypeOK, SeenInv, CommitInv, [Next]_vars PROVE CommitInv'
  OBVIOUS
<1>0. /\ lastSeen \in Nat /\ Ids \subseteq Nat
      /\ task \in [Ids -> TaskStates] /\ resp \in [Ids -> CallKinds \cup {"none"}]
      /\ acks \in [Ids -> Acks] /\ finished \in [Ids -> {"none", "committed", "uncommitted"}]
      /\ queue \in Seq(Frames) /\ current \in Frames \cup {NoFrame}
  BY BoundsAssumption DEF TypeOK
<1> USE <1>0
<1>1. CASE Quiet
  BY <1>1, QuietStep DEF coreVars, CommitInv, FrameInv, CommittedWasWritten, Wrote
<1>2. CASE CommitSend
  <2>1. \A i \in DOMAIN queue' : queue'[i].ack = "call" => i \in DOMAIN queue /\ queue'[i] = queue[i]
    BY <1>2, AppendProperties DEF CommitSend, Enqueue, Frame
  <2> QED
    BY <1>2, <2>1 DEF CommitSend, callVars, CommitInv, FrameInv, CommittedWasWritten, Wrote
<1>3. CASE CommitFails
  <2>1. DOMAIN queue' = DOMAIN queue
        /\ \A i \in DOMAIN queue : queue'[i].ack = "call" => queue'[i] = queue[i]
    BY <1>3 DEF CommitFails, Disown, Frames
  <2>2. current'.ack = "call" => current' = current
    BY <1>3 DEF CommitFails, Disown, Frames, NoFrame
  <2> QED
    BY <1>3, <2>1, <2>2
    DEF CommitFails, Continue, callVars, CommitInv, FrameInv, CommittedWasWritten, Wrote
<1>4. CASE ReadCall
  <2> PICK id \in Ids : /\ id > lastSeen
                        /\ task' = [task EXCEPT ![id] = "running"]
    BY <1>4 DEF ReadCall, FreshRequest
  <2>1. task[id] = "none" /\ UNCHANGED <<resp, acks, current, written, queue, finished>>
    BY <1>4 DEF SeenInv, ReadCall, writerVars
  <2> QED BY <2>1, CommitKept DEF Unanswered
<1>5. CASE WriterTake
  <2>1. \A i \in DOMAIN queue' : i + 1 \in DOMAIN queue /\ queue'[i] = queue[i + 1]
    BY <1>5, HeadTailProperties DEF WriterTake
  <2>2. current' = queue[1] /\ 1 \in DOMAIN queue
    BY <1>5, EmptySeq DEF WriterTake
  <2>3. UNCHANGED <<task, resp, finished, acks, written>>
    BY <1>5 DEF WriterTake, callVars
  <2> QED BY <2>1, <2>2, <2>3 DEF CommitInv, FrameInv, CommittedWasWritten, Wrote
<1>6. CASE WriterWrites
  <2>1. UNCHANGED <<task, resp, finished, queue>> /\ current'.ack = "none"
    BY <1>6 DEF WriterWrites, callVars, NoFrame
  <2>2. \A c \in Ids : acks'[c] = "ok" =>
           acks[c] = "ok" \/ (current.ack = "call" /\ current.id = c)
    BY <1>6 DEF WriterWrites, Acknowledge, CallAcksIn
  <2>3. \A c \in Ids, k \in CallKinds \cup {"none"} : Wrote(c, {k}) => Wrote(c, {k})'
    BY <1>6 DEF WriterWrites, Wrote
  <2>4. [id |-> current.id, kind |-> current.kind] \in written'
    BY <1>6 DEF WriterWrites
  <2>5. \A c \in Ids : acks'[c] = "ok" => task[c] \notin Unanswered /\ Wrote(c, {resp[c]})'
    <3> SUFFICES ASSUME NEW c \in Ids, acks'[c] = "ok"
                 PROVE  task[c] \notin Unanswered /\ Wrote(c, {resp[c]})'
      OBVIOUS
    <3>1. CASE acks[c] = "ok"
      BY <2>1, <2>3, <3>1 DEF CommitInv, Wrote
    <3>2. CASE current.ack = "call" /\ current.id = c
      BY <2>1, <2>4, <3>2 DEF CommitInv, FrameInv, Wrote
    <3> QED BY <2>2, <3>1, <3>2
  <2>6. \A c \in Ids : Wrote(c, {"app"}) => Wrote(c, {"app"})'
    BY <2>3 DEF CallKinds, AppKinds
  <2> QED BY <2>1, <2>5, <2>6 DEF CommitInv, FrameInv, CommittedWasWritten, Wrote
<1>7. CASE WriterFails
  <2>1. \A c \in Ids : acks'[c] = "ok" => acks[c] = "ok"
    BY <1>7 DEF WriterFails, Acknowledge
  <2> QED
    BY <1>7, <2>1 DEF WriterFails, callVars, NoFrame, CommitInv, FrameInv, CommittedWasWritten, Wrote
<1>8. CASE WriterCloses
  <2>1. \A c \in Ids : acks'[c] = "ok" => acks[c] = "ok"
    BY <1>8 DEF WriterCloses, Acknowledge
  <2> QED
    BY <1>8, <2>1 DEF WriterCloses, callVars, NoFrame, CommitInv, FrameInv, CommittedWasWritten, Wrote
<1>9. ASSUME NEW id \in Ids, CallMoves(id) PROVE CommitInv'
  <2>1. CASE AbortTask(id)
    <3>1. task[id] # "none" /\ \E s \in TaskStates : Goto(id, s)
      BY <2>1 DEF AbortTask, TaskStates, HandlerRunning, Ended, Live
    <3> QED BY <2>1, <3>1, CommitKept DEF AbortTask, Goto, Unanswered, writerVars, Ended
  <2>2. CASE HandlerReturns(id)
    <3>1. task[id] = "running" /\ \E s \in TaskStates : Goto(id, s)
      BY <2>2 DEF HandlerReturns, TaskStates, HandlerRunning, Ended
    <3> QED BY <2>2, <3>1, CommitKept DEF HandlerReturns, Goto, Unanswered, writerVars
  <2>3. CASE HandlerPanics(id)
    <3>1. task[id] \in {"running", "late"} /\ \E s \in TaskStates : Goto(id, s)
      BY <2>3 DEF HandlerPanics, TaskStates, HandlerRunning, Ended
    <3> QED BY <2>3, <3>1, CommitKept DEF HandlerPanics, Goto, Unanswered, writerVars
  <2>4. CASE LateReturn(id)
    <3>1. task[id] = "late" /\ \E s \in TaskStates : Goto(id, s)
      BY <2>4 DEF LateReturn, TaskStates, HandlerRunning, Ended
    <3> QED BY <2>4, <3>1, CommitKept DEF LateReturn, Goto, Unanswered, writerVars
  <2>5. CASE HandlerInterrupted(id)
    <3>1. task[id] = "running" /\ \E s \in TaskStates : Goto(id, s)
      BY <2>5 DEF HandlerInterrupted, TaskStates, HandlerRunning, Ended
    <3> QED BY <2>5, <3>1, CommitKept DEF HandlerInterrupted, Goto, Unanswered, writerVars
  <2>6. CASE SendTerminal(id)
    <3>1. task[id] \in {"terminal", "override"} /\ UNCHANGED <<resp, acks, current, written, finished>>
          /\ \E s \in {"late", "uncommitted"} : Goto(id, s)
      BY <2>6 DEF SendTerminal
    <3>2. \A i \in DOMAIN queue' : queue'[i].ack = "call" => i \in DOMAIN queue /\ queue'[i] = queue[i]
      BY <2>6, AppendProperties DEF SendTerminal, Enqueue, Frame
    <3> QED BY <3>1, <3>2, CommitKept DEF Goto, Unanswered
  <2>7. CASE RespondPoll(id)
    <3>1. task[id] = "respond" /\ \E s \in TaskStates : Goto(id, s)
      BY <2>7 DEF RespondPoll, TaskStates, HandlerRunning, Ended
    <3> QED BY <2>7, <3>1, CommitKept DEF RespondPoll, Goto, Unanswered, writerVars
  <2>8. CASE RespondSend(id)
    <3>1. task[id] = "send" /\ UNCHANGED <<resp, acks, current, written, finished>>
      BY <2>8 DEF RespondSend
    <3>2. CASE Enqueue(Frame(id, resp[id], "call", TRUE)) /\ Goto(id, "committing")
      <4>0. queue' = Append(queue, Frame(id, resp[id], "call", TRUE))
        BY <3>2 DEF Enqueue
      <4>1. \A i \in DOMAIN queue' :
               \/ i \in DOMAIN queue /\ queue'[i] = queue[i]
               \/ queue'[i] = Frame(id, resp[id], "call", TRUE)
        BY <4>0 DEF Frame
      <4>2. (\A i \in DOMAIN queue : FrameInv(queue[i]))'
        BY <3>1, <3>2, <4>1 DEF CommitInv, FrameInv, Goto, Unanswered, Frame
      <4>3. FrameInv(current)'
        BY <3>1, <3>2 DEF CommitInv, FrameInv, Goto, Unanswered
      <4>4. (\A c \in Ids : acks[c] = "ok" => task[c] \notin Unanswered /\ Wrote(c, {resp[c]}))'
        BY <3>1, <3>2 DEF CommitInv, Wrote, Goto, Unanswered
      <4>5. (\A c \in Ids : task[c] = "committed" => Wrote(c, {"app"}))'
        BY <3>1, <3>2 DEF CommitInv, Wrote, Goto
      <4>6. CommittedWasWritten'
        BY <3>1 DEF CommitInv, CommittedWasWritten, Wrote
      <4> QED
        BY <4>2, <4>3, <4>4, <4>5, <4>6 DEF CommitInv
    <3>3. CASE UNCHANGED queue /\ (Goto(id, "respond") \/ Goto(id, "uncommitted"))
      BY <3>1, <3>3, CommitKept DEF Goto, Unanswered
    <3> QED BY <2>8, <3>2, <3>3 DEF RespondSend
  <2>9. CASE CommitAcked(id)
    <3>1. task[id] = "committing" /\ UNCHANGED <<resp, acks, current, written, queue, finished>>
          /\ Goto(id, IF resp[id] = "app" THEN "committed" ELSE "uncommitted")
      BY <2>9 DEF CommitAcked, writerVars
    <3>2. Wrote(id, {resp[id]})
      BY <2>9 DEF CommitAcked, CommitInv
    <3> QED BY <3>1, <3>2, CommitKept DEF Goto, Unanswered
  <2>10. CASE CommitLost(id)
    <3>1. task[id] = "committing" /\ \E s \in TaskStates : Goto(id, s)
      BY <2>10 DEF CommitLost, TaskStates, HandlerRunning, Ended
    <3> QED BY <2>10, <3>1, CommitKept DEF CommitLost, Goto, Unanswered, writerVars
  <2>11. CASE Finish(id)
    <3>1. task[id] \in {"committed", "uncommitted"} /\ Goto(id, "done")
          /\ finished' = [finished EXCEPT ![id] = task[id]]
          /\ UNCHANGED <<resp, acks, current, written, queue>>
      BY <2>11 DEF Finish, writerVars
    <3> QED BY <3>1, CommitKept DEF Goto, Unanswered
  <2> QED
    BY <1>9, <2>1, <2>2, <2>3, <2>4, <2>5, <2>6, <2>7, <2>8, <2>9, <2>10,
       <2>11 DEF CallMoves
<1> QED
  BY <1>1, <1>2, <1>3, <1>4, <1>5, <1>6, <1>7, <1>8, <1>9, NextCases

\* Once the tasks have been joined none runs again, and serve() ends.
LEMMA ReleaseStep == TypeOK /\ ReleaseInv /\ [Next]_vars => ReleaseInv'
<1> SUFFICES ASSUME TypeOK, ReleaseInv, [Next]_vars PROVE ReleaseInv'
  OBVIOUS
<1>0. /\ task \in [Ids -> TaskStates] /\ reply \in Replies \cup {NoReply}
      /\ loop \in {"initializing", "sending", "awaiting"} => reply \in Replies
      /\ loop \in LoopStates
  BY DEF TypeOK
<1>1. CASE UNCHANGED <<loopVars, task>>
  BY <1>1 DEF ReleaseInv, loopVars, Live
<1>2. ASSUME NEW id \in Ids, Live(id), NEW s \in TaskStates, Goto(id, s), UNCHANGED loopVars
      PROVE  ReleaseInv'
  BY <1>2 DEF ReleaseInv, loopVars
<1>3. CASE Writer \/ \E id \in Ids : Expire(id)
  <2>1. UNCHANGED <<loopVars, task>>
    BY <1>3 DEF Writer, WriterTake, WriterWrites, WriterFails, WriterDrained, WriterCloses,
                Expire, callVars
  <2> QED BY <1>1, <2>1
<1>4. ASSUME NEW id \in Ids, CallMoves(id) PROVE ReleaseInv'
  <2>1. Live(id) /\ UNCHANGED loopVars
    BY <1>4 DEF CallMoves, AbortTask, HandlerReturns, HandlerPanics, LateReturn,
       HandlerInterrupted, SendTerminal, RespondPoll, RespondSend, CommitAcked, CommitLost,
       Finish, Live, Ended
  <2>2. \E s \in TaskStates : Goto(id, s)
    BY <1>4 DEF CallMoves, AbortTask, HandlerReturns, HandlerPanics, LateReturn,
       HandlerInterrupted, SendTerminal, RespondPoll, RespondSend, CommitAcked, CommitLost,
       Finish, TaskStates, HandlerRunning, Ended
  <2> QED BY <1>2, <2>1, <2>2
<1>5. CASE CommitSend
  BY <1>5 DEF CommitSend, ReleaseInv, callVars, Live
<1>6. CASE CommitDone \/ CommitFails
  <2>1. /\ loop \in {"sending", "awaiting"} /\ reply \in Replies
        /\ loop' = "select" \/ loop' \in {reply.ok, reply.err} \ {"ready"}
        /\ reply' = NoReply /\ UNCHANGED <<released, task>>
    BY <1>0, <1>6 DEF CommitDone, CommitFails, Continue, callVars
  <2>2. CASE reply.kind = "shutdown"
    <3>1. loop' = "select" \/ loop' = "closing"
      BY <2>1, <2>2 DEF ReleaseInv
    <3> QED BY <1>6, <2>1, <2>2, <3>1 DEF ReleaseInv, Live, NoReply, CommitDone, CommitFails, Continue
  <2>3. CASE reply.kind = "oob"
    BY <1>0, <2>1, <2>3 DEF ReleaseInv, Live, NoReply, Replies, Continuations
  <2> QED BY <2>1, <2>2, <2>3 DEF Replies
<1>7. CASE LoopPolls \/ LoopWakes \/ LoopDisconnected \/ LoopDeadline \/ LoopDrained
           \/ LoopJoinFails \/ ReadEnds
  BY <1>7 DEF LoopPolls, LoopWakes, LoopDisconnected, LoopDeadline, LoopDrained, LoopJoinFails,
     ReadEnds, LeaveLoop, ReleaseInv, callVars, Live
<1>8. CASE ReadViolation \/ ReadDiscover \/ ReadReject
  BY <1>8 DEF ReadViolation, ReadDiscover, ReadReject, FreshRequest, StartCommit, ReleaseInv
<1>9. CASE ReadInitialize \/ ReadCall \/ ReadCancel \/ ReadShutdown
  BY <1>9 DEF ReadInitialize, ReadCall, ReadCancel, ReadShutdown, FreshRequest, ReleaseInv
<1>10. CASE InitializeSucceeds \/ InitializeFails
  BY <1>10 DEF InitializeSucceeds, InitializeFails, StartCommit, ReleaseInv, NoReply
<1>11. CASE CancelAll
  BY <1>11 DEF CancelAll, ReleaseInv
<1>12. CASE JoinAll
  BY <1>12 DEF JoinAll, ReleaseInv, callVars, Live
<1>13. CASE Release
  BY <1>13 DEF Release, StartCommit, ReleaseInv, callVars, Live
<1>14. CASE ServeReturns
  BY <1>14 DEF ServeReturns, ReleaseInv, callVars, Live
<1>15. CASE SessionOver \/ UNCHANGED vars
  BY <1>1, <1>15 DEF SessionOver, vars, callVars
<1> QED
  BY <1>3, <1>4, <1>5, <1>6, <1>7, <1>8, <1>9, <1>10, <1>11, <1>12, <1>13, <1>14, <1>15
  DEF Next, Commit, LoopSelect, ReadFrame, Initialize, Teardown, HandlerSteps, CallSteps,
      CallMoves

----------------------------------------------------------------------------
\* A new session satisfies the inductive invariant.
LEMMA InvInit == Init => Inv
<1> SUFFICES ASSUME Init PROVE Inv
  OBVIOUS
<1>1. TypeOK
  BY BoundsAssumption, EmptySeq DEF Init, TypeOK, LoopStates, Acks, TaskStates
<1>2. SeenInv
  BY DEF Init, SeenInv
<1>3. SlotInv
  BY BoundsAssumption, FS_EmptySet DEF Init, SlotInv, OwnsPermit, HandlerRunning
<1>4. TerminalInv
  BY DEF Init, TerminalInv
<1>5. CommitInv
  BY DEF Init, CommitInv, FrameInv, NoFrame, CommittedWasWritten
<1>6. ReleaseInv
  BY DEF Init, ReleaseInv, NoReply
<1> QED BY <1>1, <1>2, <1>3, <1>4, <1>5, <1>6 DEF Inv

\* Every step of serve() preserves the inductive invariant.
LEMMA InvStep == Inv /\ [Next]_vars => Inv'
  BY TypeStep, SeenStep, SlotStep, TerminalStep, CommitStep, ReleaseStep DEF Inv

\* Every variable of the session keeps to its domain: in particular a task that
\* hands over a response has chosen one, and a response is committed only for a
\* request that is being answered.
THEOREM TypeCorrect == Spec => []TypeOK
<1>1. Init => TypeOK
  BY InvInit DEF Inv
<1> QED BY <1>1, TypeStep, PTL DEF Spec

\* The inductive invariant holds throughout a session: permits follow the
\* handlers, each response is handed over once, acknowledgements and frames
\* belong to answered calls, and nothing runs after the tasks were joined.
THEOREM Invariance == Spec => []Inv
  BY InvInit, InvStep, PTL DEF Spec

\* For every number of requests, permits and queue slots, run_call never lets
\* more handlers run than max_in_flight.
THEOREM HandlersAreBounded == Spec => []HandlersBounded
<1>1. Inv => HandlersBounded
  <2> SUFFICES ASSUME Inv PROVE HandlersBounded
    OBVIOUS
  <2> DEFINE H == {id \in Ids : task[id] \in HandlerRunning}
  <2>1. H \subseteq slots /\ slots \subseteq Ids /\ Cardinality(slots) <= MaxInFlight
    BY DEF Inv, TypeOK, SlotInv, OwnsPermit
  <2>2. Cardinality(H) <= Cardinality(slots) /\ Cardinality(H) \in Nat /\ Cardinality(slots) \in Nat
    BY <2>1, FewerSlots
  <2>3. Cardinality(H) <= MaxInFlight
    BY <2>1, <2>2, BoundsAssumption
  <2> QED BY <2>3 DEF HandlersBounded
<1> QED BY <1>1, Invariance, PTL

\* A call hands at most one response to the writer, whoever wins the races
\* between its handler, its deadline, its cancellation and the teardown.
THEOREM TerminalsAreUnique == Spec => []OneTerminal
<1>1. Inv => OneTerminal
  BY DEF Inv, TerminalInv, OneTerminal
<1> QED BY <1>1, Invariance, PTL

\* request_finished(id, true) is reported only for a response that was written.
THEOREM CommitsAreWritten == Spec => []CommittedWasWritten
<1>1. Inv => CommittedWasWritten
  BY DEF Inv, CommitInv
<1> QED BY <1>1, Invariance, PTL

\* handler.shutdown() runs only after the last handler has stopped.
THEOREM ReleaseIsLast == Spec => []ReleasedAfterHandlers
<1>1. Inv => ReleasedAfterHandlers
  BY DEF Inv, ReleaseInv, ReleasedAfterHandlers
<1> QED BY <1>1, Invariance, PTL

----------------------------------------------------------------------------
(* Draining.  DrainPreservesWork is not inductive: that the shutdown reply is
   the last frame follows from where serve() is when it is queued, and that
   the responses precede it from the order of the queue. *)

IsShutdown(f) == f.kind = "shutdown"
Answers(f, id) == f.id = id /\ f.kind \in CallKinds

\* The drain began with every call finished, unless its deadline passed.
DrainedInv ==
  /\ drained => \/ loop \in {"teardown", "aborting", "releasing", "closing", "done"}
                \/ reply.kind = "shutdown"
  /\ reply.kind = "shutdown" => drained
  /\ drained /\ shutdown \notin expired => \A id \in Ids : task[id] \in {"none", "done"}

\* The shutdown reply is handed over when nothing else can be any more.
LastFrameInv ==
  /\ (\/ \E i \in DOMAIN queue : IsShutdown(queue[i])
      \/ IsShutdown(current)
      \/ \E w \in written : w.kind = "shutdown")
     => /\ drained
        /\ loop \in {"closing", "done"} \/ (loop = "awaiting" /\ reply.kind = "shutdown")
  /\ \A i \in DOMAIN queue : IsShutdown(queue[i]) => i = Len(queue)
  /\ IsShutdown(current) => queue = <<>>

\* A finished call's response is on its way or written, or the writer has
\* stopped, and then no further frame is written either.
WorkInv ==
  /\ writer = "open" =>
       \A id \in Ids : task[id] \in {"late", "committing", "committed", "uncommitted", "done"}
          => \/ Wrote(id, CallKinds)
             \/ Answers(current, id)
             \/ \E i \in DOMAIN queue : Answers(queue[i], id)
  /\ (\E w \in written : w.kind = "shutdown") /\ shutdown \notin expired
       => \A id \in Accepted : Wrote(id, CallKinds)

DrainInv == DrainedInv /\ LastFrameInv /\ WorkInv

\* A step of one call: the call has not ended, and the loop's state stays.
LEMMA CallMovesAreLive ==
  ASSUME NEW id \in Ids, CallMoves(id)
  PROVE  /\ Live(id) /\ UNCHANGED <<loopVars, writer, current, written, expired>>
         /\ \E s \in TaskStates : Goto(id, s)
<1>1. Live(id) /\ UNCHANGED <<loopVars, writer, current, written, expired>>
  BY DEF CallMoves, AbortTask, HandlerReturns, HandlerPanics, LateReturn,
     HandlerInterrupted, SendTerminal, RespondPoll, RespondSend, CommitAcked, CommitLost,
     Finish, Live, Ended, writerVars
<1>2. \E s \in TaskStates : Goto(id, s)
  BY DEF CallMoves, AbortTask, HandlerReturns, HandlerPanics, LateReturn,
     HandlerInterrupted, SendTerminal, RespondPoll, RespondSend, CommitAcked, CommitLost,
     Finish, TaskStates, HandlerRunning, Ended
<1> QED BY <1>1, <1>2

\* Once the drain has ended no call is accepted and no finished call is lost.
LEMMA DrainedStep ==
  TypeOK /\ ReleaseInv /\ DrainedInv /\ [Next]_vars => DrainedInv'
<1> SUFFICES ASSUME TypeOK, ReleaseInv, DrainedInv, [Next]_vars PROVE DrainedInv'
  OBVIOUS
<1>0. /\ task \in [Ids -> TaskStates] /\ reply \in Replies \cup {NoReply}
      /\ loop \in {"initializing", "sending", "awaiting"} => reply \in Replies
      /\ loop \in LoopStates
  BY DEF TypeOK
<1>1. CASE UNCHANGED <<loopVars, task>> /\ expired \subseteq expired'
  BY <1>1 DEF DrainedInv, loopVars
<1>2. CASE Writer \/ \E id \in Ids : Expire(id)
  <2>1. UNCHANGED <<loopVars, task>> /\ expired \subseteq expired'
    BY <1>2 DEF Writer, WriterTake, WriterWrites, WriterFails, WriterDrained, WriterCloses,
                Expire, callVars
  <2> QED BY <1>1, <2>1
<1>3. ASSUME NEW id \in Ids, CallMoves(id) PROVE DrainedInv'
  <2>1. /\ Live(id) /\ UNCHANGED <<loopVars, expired>>
        /\ \E s \in TaskStates : Goto(id, s)
    BY <1>3, CallMovesAreLive
  <2>2. task[id] \notin {"none", "done"}
    BY <2>1 DEF Live, Ended
  <2> QED BY <2>1, <2>2 DEF DrainedInv, loopVars
<1>4. CASE CommitSend
  BY <1>4 DEF CommitSend, DrainedInv, callVars
<1>5. CASE CommitDone \/ CommitFails
  <2>1. /\ loop \in {"sending", "awaiting"} /\ reply \in Replies
        /\ loop' = "select" \/ loop' \in {reply.ok, reply.err} \ {"ready"}
        /\ reply.kind = "shutdown" => loop' = "closing"
        /\ reply' = NoReply /\ UNCHANGED <<drained, shutdown, expired, task>>
    BY <1>0, <1>5 DEF CommitDone, CommitFails, Continue, callVars, ReleaseInv
  <2> QED BY <2>1 DEF DrainedInv, NoReply
<1>6. CASE LoopPolls \/ LoopWakes \/ LoopDisconnected \/ LoopJoinFails \/ ReadEnds
  BY <1>6 DEF LoopPolls, LoopWakes, LoopDisconnected, LoopJoinFails,
     ReadEnds, LeaveLoop, DrainedInv, ReleaseInv, callVars
<1>7. CASE LoopDeadline
  BY <1>7 DEF LoopDeadline, LeaveLoop, DrainedInv, ReleaseInv
<1>8. CASE LoopDrained
  BY <1>8 DEF LoopDrained, LeaveLoop, DrainedInv, ReleaseInv, callVars
<1>9. CASE ReadViolation \/ ReadDiscover \/ ReadReject
  BY <1>9 DEF ReadViolation, ReadDiscover, ReadReject, FreshRequest, StartCommit, DrainedInv,
     ReleaseInv
<1>10. CASE ReadInitialize \/ ReadCall \/ ReadCancel \/ ReadShutdown
  BY <1>10 DEF ReadInitialize, ReadCall, ReadCancel, ReadShutdown, FreshRequest, DrainedInv,
     ReleaseInv
<1>11. CASE InitializeSucceeds \/ InitializeFails
  BY <1>11 DEF InitializeSucceeds, InitializeFails, StartCommit, DrainedInv, ReleaseInv, NoReply
<1>12. CASE CancelAll \/ JoinAll \/ ServeReturns
  BY <1>12 DEF CancelAll, JoinAll, ServeReturns, DrainedInv, callVars
<1>13. CASE Release
  BY <1>13 DEF Release, StartCommit, DrainedInv, callVars
<1>14. CASE SessionOver \/ UNCHANGED vars
  BY <1>1, <1>14 DEF SessionOver, vars, callVars
<1> QED
  BY <1>2, <1>3, <1>4, <1>5, <1>6, <1>7, <1>8, <1>9, <1>10, <1>11, <1>12, <1>13, <1>14
  DEF Next, Commit, LoopSelect, ReadFrame, Initialize, Teardown, HandlerSteps, CallSteps,
      CallMoves

\* The part of the session in which the shutdown reply may exist.
Closed == loop \in {"closing", "done"} \/ (loop = "awaiting" /\ reply.kind = "shutdown")

\* A session that has handed over its shutdown reply stays as it is: drained,
\* with no call left, and with nobody to hand over another frame.
LEMMA ClosedStep ==
  ASSUME TypeOK, ReleaseInv, [Next]_vars, Closed
  PROVE  /\ Closed' /\ UNCHANGED <<drained, shutdown, task>>
         /\ expired \subseteq expired'
         /\ \/ queue' = queue
            \/ queue' = Tail(queue) /\ queue # <<>>
            \/ queue' = <<>>
            \/ queue' = [i \in DOMAIN queue |-> Disown(queue[i])]
<1>0. /\ \A id \in Ids : ~Live(id)
      /\ loop \notin {"select", "reading", "initializing", "sending", "teardown", "aborting",
                      "releasing"}
      /\ loop = "awaiting" => reply.kind = "shutdown" /\ reply.ok = "closing" /\ reply.err = "closing"
  BY DEF Closed, ReleaseInv
<1> USE DEF Closed
<1>1. CASE Writer \/ \E id \in Ids : Expire(id)
  BY <1>1 DEF Writer, WriterTake, WriterWrites, WriterFails, WriterDrained, WriterCloses,
              Expire, loopVars, callVars, writerVars
<1>2. CASE CommitDone \/ CommitFails
  BY <1>0, <1>2 DEF CommitDone, CommitFails, Continue, callVars
<1>3. CASE ServeReturns
  BY <1>3 DEF ServeReturns, callVars, writerVars
<1>4. CASE SessionOver \/ UNCHANGED vars
  BY <1>4 DEF SessionOver, vars, loopVars, callVars, writerVars
<1>5. ASSUME NEW id \in Ids PROVE ~CallMoves(id)
  BY <1>0, CallMovesAreLive
<1>6. ~(\/ CommitSend \/ LoopSelect \/ Initialize \/ ReadFrame \/ CancelAll \/ JoinAll \/ Release)
  BY <1>0 DEF CommitSend, LoopSelect, LoopPolls, LoopWakes, LoopDisconnected, LoopDeadline,
     LoopDrained, LoopJoinFails, Initialize, InitializeSucceeds, InitializeFails, ReadFrame,
     ReadEnds, ReadViolation, ReadDiscover, ReadInitialize, ReadReject, ReadCall, ReadCancel,
     ReadShutdown, FreshRequest, CancelAll, JoinAll, Release
<1> QED
  BY <1>1, <1>2, <1>3, <1>4, <1>5, <1>6
  DEF Next, Commit, Teardown, HandlerSteps, CallSteps, CallMoves

\* How the frames move in one step: they stay, one is queued, the read loop
\* disowns its own, or the writer moves.
LEMMA FrameSteps ==
  ASSUME TypeOK, [Next]_vars
  PROVE  \/ UNCHANGED <<queue, current, written>>
         \/ CommitSend \/ CommitFails
         \/ WriterTake \/ WriterWrites \/ WriterFails \/ WriterCloses
         \/ \E id \in Ids, a \in {"none", "call"}, b \in BOOLEAN :
              /\ queue' = Append(queue, Frame(id, resp[id], a, b))
              /\ resp[id] \in CallKinds
              /\ CallMoves(id)
<1>1. CASE Quiet
  BY <1>1, QuietStep DEF coreVars
<1>2. CASE ReadCall
  BY <1>2 DEF ReadCall, writerVars
<1>3. ASSUME NEW id \in Ids, CallMoves(id)
      PROVE  \/ UNCHANGED <<queue, current, written>>
             \/ \E a \in {"none", "call"}, b \in BOOLEAN :
                  /\ queue' = Append(queue, Frame(id, resp[id], a, b))
                  /\ resp[id] \in CallKinds
  <2>1. CASE SendTerminal(id)
    BY <2>1 DEF SendTerminal, Enqueue, TypeOK
  <2>2. CASE RespondSend(id)
    BY <2>2 DEF RespondSend, Enqueue, TypeOK
  <2>3. CASE ~SendTerminal(id) /\ ~RespondSend(id)
    BY <1>3, <2>3 DEF CallMoves, AbortTask, HandlerReturns, HandlerPanics, LateReturn,
       HandlerInterrupted, RespondPoll, CommitAcked, CommitLost, Finish, writerVars
  <2> QED BY <2>1, <2>2, <2>3
<1> QED BY <1>1, <1>2, <1>3, NextCases

\* A frame keeps its request and its kind when the read loop disowns it.
LEMMA DisownKeeps ==
  ASSUME NEW f \in Frames \cup {NoFrame}
  PROVE  Disown(f).id = f.id /\ Disown(f).kind = f.kind /\ Disown(f).slot = f.slot
  BY DEF Disown, Frames, NoFrame

\* The shutdown reply is the last frame of the session.
LEMMA LastFrameStep ==
  TypeOK /\ ReleaseInv /\ DrainedInv /\ LastFrameInv /\ [Next]_vars => LastFrameInv'
<1> SUFFICES ASSUME TypeOK, ReleaseInv, DrainedInv, LastFrameInv, [Next]_vars
             PROVE  LastFrameInv'
  OBVIOUS
<1> DEFINE Has == \/ \E i \in DOMAIN queue : IsShutdown(queue[i])
                  \/ IsShutdown(current)
                  \/ \E w \in written : w.kind = "shutdown"
<1>0. /\ queue \in Seq(Frames) /\ current \in Frames \cup {NoFrame} /\ NoFrame.kind = "none"
      /\ Len(queue) \in Nat /\ DOMAIN queue = 1 .. Len(queue)
      /\ \A i \in DOMAIN queue : queue[i] \in Frames
  BY DEF TypeOK, NoFrame
<1>1. Has => drained /\ Closed
  BY DEF LastFrameInv, Closed
<1>2. Closed => Closed' /\ drained' = drained
  BY ClosedStep
<1>3. CASE UNCHANGED <<queue, current, written>>
  BY <1>1, <1>2, <1>3 DEF LastFrameInv, Closed
<1>4. CASE CommitSend
  <2> DEFINE f == Frame(reply.id, reply.kind, "loop", FALSE)
  <2>1. /\ loop = "sending" /\ loop' = "awaiting" /\ queue' = Append(queue, f)
        /\ UNCHANGED <<reply, current, written, drained>>
    BY <1>4 DEF CommitSend, Enqueue
  <2>2. ~Has
    BY <1>1, <2>1 DEF Closed
  <2>3. f.kind = reply.kind /\ f \in Frames
    BY <2>1 DEF Frame, Frames, Kinds, TypeOK, Replies
  <2>4. /\ Len(queue') = Len(queue) + 1 /\ DOMAIN queue' = 1 .. Len(queue) + 1
        /\ \A i \in 1 .. Len(queue) : queue'[i] = queue[i]
        /\ queue'[Len(queue) + 1] = f
    <3> HIDE DEF f
    <3> QED BY <1>0, <2>1, <2>3
  <2> HIDE DEF f
  <2>5. \A i \in DOMAIN queue' : IsShutdown(queue'[i]) => i = Len(queue') /\ reply.kind = "shutdown"
    BY <1>0, <2>2, <2>3, <2>4 DEF IsShutdown
  <2> QED
    BY <2>1, <2>2, <2>5 DEF LastFrameInv, DrainedInv
<1>5. CASE CommitFails
  <2>1. /\ DOMAIN queue' = DOMAIN queue /\ Len(queue') = Len(queue)
        /\ \A i \in DOMAIN queue : IsShutdown(queue'[i]) <=> IsShutdown(queue[i])
        /\ IsShutdown(current') <=> IsShutdown(current)
        /\ written' = written
    BY <1>0, <1>5, DisownKeeps DEF CommitFails, Continue, IsShutdown
  <2>2. queue = <<>> => queue' = <<>>
    BY <1>0, <1>5 DEF CommitFails
  <2> QED
    BY <1>1, <1>2, <2>1, <2>2 DEF LastFrameInv, Closed
<1>6. CASE WriterTake
  <2>1. /\ queue # <<>> /\ current' = queue[1] /\ 1 \in DOMAIN queue /\ written' = written
        /\ queue' = Tail(queue)
    BY <1>0, <1>6, EmptySeq DEF WriterTake
  <2>2. /\ Len(queue') = Len(queue) - 1 /\ DOMAIN queue' = 1 .. Len(queue) - 1
        /\ \A i \in DOMAIN queue' : i + 1 \in DOMAIN queue /\ queue'[i] = queue[i + 1]
    BY <1>0, <2>1, HeadTailProperties
  <2>3. Has' => Has
    BY <2>1, <2>2
  <2>4. IsShutdown(current') => queue' = <<>>
    BY <1>0, <2>1, <2>2 DEF LastFrameInv
  <2>5. \A i \in DOMAIN queue' : IsShutdown(queue'[i]) => i = Len(queue')
    BY <1>0, <2>2 DEF LastFrameInv
  <2> QED
    BY <1>1, <1>2, <2>3, <2>4, <2>5 DEF LastFrameInv, Closed
<1>7. CASE WriterWrites \/ WriterFails
  <2>1. /\ queue' = queue /\ current' = NoFrame
        /\ \A w \in written' : w \in written \/ w.kind = current.kind
    BY <1>7 DEF WriterWrites, WriterFails
  <2>2. (Has' => Has) /\ ~IsShutdown(current')
    BY <1>0, <2>1 DEF IsShutdown
  <2> QED
    BY <1>1, <1>2, <2>1, <2>2 DEF LastFrameInv, Closed
<1>8. CASE WriterCloses
  <2>1. queue' = <<>> /\ current' = NoFrame /\ written' = written /\ DOMAIN queue' = {}
    BY <1>8 DEF WriterCloses
  <2> QED
    BY <1>0, <1>1, <1>2, <2>1 DEF LastFrameInv, Closed, IsShutdown
<1>9. ASSUME NEW id \in Ids, NEW a \in {"none", "call"}, NEW b \in BOOLEAN,
             queue' = Append(queue, Frame(id, resp[id], a, b)),
             resp[id] \in CallKinds, CallMoves(id)
      PROVE  LastFrameInv'
  <2>1. ~Closed /\ UNCHANGED <<current, written, drained>>
    BY <1>9, CallMovesAreLive DEF Closed, ReleaseInv, loopVars
  <2>2. ~Has
    BY <1>1, <2>1
  <2>3. \A i \in DOMAIN queue' : \/ i \in DOMAIN queue /\ queue'[i] = queue[i]
                                 \/ queue'[i].kind \in CallKinds
    BY <1>0, <1>9 DEF Frame
  <2>4. ~Has'
    BY <2>1, <2>2, <2>3 DEF IsShutdown, CallKinds, AppKinds
  <2> QED
    BY <2>4 DEF LastFrameInv
<1> QED
  BY <1>3, <1>4, <1>5, <1>6, <1>7, <1>8, <1>9, FrameSteps

\* A response is not lost between the call that hands it over and the peer as
\* long as the writer writes.
LEMMA WorkStep ==
  TypeOK /\ ReleaseInv /\ DrainedInv /\ LastFrameInv /\ WorkInv /\ [Next]_vars => WorkInv'
<1> SUFFICES ASSUME TypeOK, ReleaseInv, DrainedInv, LastFrameInv, WorkInv, [Next]_vars
             PROVE  WorkInv'
  OBVIOUS
<1> DEFINE Handed == {"late", "committing", "committed", "uncommitted", "done"}
           Safe(id) == \/ Wrote(id, CallKinds)
                       \/ Answers(current, id)
                       \/ \E i \in DOMAIN queue : Answers(queue[i], id)
           Told == \E w \in written : w.kind = "shutdown"
<1>0. /\ queue \in Seq(Frames) /\ current \in Frames \cup {NoFrame}
      /\ Len(queue) \in Nat /\ DOMAIN queue = 1 .. Len(queue)
      /\ \A i \in DOMAIN queue : queue[i] \in Frames
      /\ task \in [Ids -> TaskStates]
  BY DEF TypeOK
<1>n. "none" \notin CallKinds /\ "shutdown" \notin CallKinds /\ NoFrame.kind = "none"
  BY DEF NoFrame, CallKinds, AppKinds
\* The writer does not start again, and what is written stays written.
<1>1. (writer' = "open" => writer = "open") /\ written \subseteq written'
  <2>1. CASE Quiet
    <3>1. writer' # "open" \/ writer' = writer
      BY <2>1 DEF Quiet, CommitDone, Continue, LoopSelect, LoopPolls, LoopWakes,
         LoopDisconnected, LoopDeadline, LoopDrained, LoopJoinFails, LeaveLoop, Initialize,
         InitializeSucceeds, InitializeFails, ReadEnds, ReadViolation, ReadDiscover,
         ReadInitialize, ReadReject, ReadCancel, ReadShutdown, CancelAll, JoinAll, Release,
         ServeReturns, WriterDrained, Expire, SessionOver, vars, writerVars
    <3> QED BY <2>1, <3>1, QuietStep DEF coreVars
  <2>2. CASE CommitSend \/ CommitFails \/ ReadCall
    BY <2>2 DEF CommitSend, CommitFails, Continue, ReadCall, writerVars
  <2>3. CASE WriterTake \/ WriterWrites \/ WriterFails \/ WriterCloses
    BY <2>3 DEF WriterTake, WriterWrites, WriterFails, WriterCloses
  <2>4. ASSUME NEW id \in Ids, CallMoves(id) PROVE UNCHANGED <<writer, written>>
    BY <2>4, CallMovesAreLive
  <2> QED BY <2>1, <2>2, <2>3, <2>4, NextCases
\* A response that is on its way goes on, or the writer stops.
<1>2. ASSUME writer' = "open", NEW id \in Ids, Safe(id) PROVE Safe(id)'
  <2>1. Wrote(id, CallKinds) => Wrote(id, CallKinds)'
    BY <1>1 DEF Wrote
  <2>2. CASE UNCHANGED <<queue, current, written>>
    BY <1>2, <2>2 DEF Wrote, Answers
  <2>3. CASE CommitSend \/ \E c \in Ids : CallMoves(c) /\ \E f \in Frames : queue' = Append(queue, f)
    <3>1. current' = current /\ \E f : queue' = Append(queue, f)
      BY <2>3, CallMovesAreLive DEF CommitSend, Enqueue
    <3>2. \A i \in DOMAIN queue : i \in DOMAIN queue' /\ queue'[i] = queue[i]
      BY <1>0, <3>1
    <3> QED BY <1>2, <2>1, <3>1, <3>2 DEF Answers
  <2>4. CASE CommitFails
    <3>1. /\ DOMAIN queue' = DOMAIN queue
          /\ \A i \in DOMAIN queue : Answers(queue[i], id) => Answers(queue'[i], id)
          /\ Answers(current, id) => Answers(current', id)
      BY <1>0, <2>4, DisownKeeps DEF CommitFails, Answers
    <3> QED BY <1>2, <2>1, <3>1
  <2>5. CASE WriterTake
    <3>1. queue # <<>> /\ current = NoFrame /\ current' = queue[1] /\ queue' = Tail(queue)
      BY <1>0, <2>5, EmptySeq DEF WriterTake
    <3>2. \A i \in DOMAIN queue : i = 1 \/ (i - 1 \in DOMAIN queue' /\ queue'[i - 1] = queue[i])
      BY <1>0, <3>1, HeadTailProperties
    <3> QED BY <1>2, <1>n, <2>1, <3>1, <3>2 DEF Answers
  <2>6. CASE WriterWrites
    <3>1. queue' = queue /\ [id |-> current.id, kind |-> current.kind] \in written'
      BY <2>6 DEF WriterWrites
    <3>2. Answers(current, id) => Wrote(id, CallKinds)'
      BY <3>1 DEF Answers, Wrote
    <3> QED BY <1>2, <2>1, <3>1, <3>2
  <2>7. CASE WriterFails \/ WriterCloses
    BY <1>2, <2>7 DEF WriterFails, WriterCloses
  <2>8. ASSUME NEW c \in Ids, NEW a \in {"none", "call"}, NEW b \in BOOLEAN,
               resp[c] \in CallKinds
        PROVE  Frame(c, resp[c], a, b) \in Frames
    BY <2>8 DEF Frame, Frames, Kinds
  <2> QED BY <2>2, <2>3, <2>4, <2>5, <2>6, <2>7, <2>8, FrameSteps
\* A call that ends the wait for its response has handed one over.
<1>3. ASSUME writer' = "open", NEW id \in Ids, task'[id] \in Handed, task[id] \notin Handed
      PROVE  Safe(id)'
  <2>1. writer = "open"
    BY <1>1, <1>3
  <2>2. task'[id] # task[id]
    BY <1>3
  <2>3. ~ReadCall
    <3>1. ReadCall => \A c \in Ids : task'[c] = task[c] \/ task'[c] = "running"
      BY <1>0 DEF ReadCall
    <3> QED BY <1>3, <3>1
  <2>4. PICK c \in Ids : CallMoves(c)
    <3>1. Quiet => task' = task
      BY QuietStep DEF coreVars
    <3>2. CommitSend \/ CommitFails => task' = task
      BY DEF CommitSend, CommitFails, Continue, callVars
    <3>3. WriterTake \/ WriterWrites \/ WriterFails \/ WriterCloses => task' = task
      BY DEF WriterTake, WriterWrites, WriterFails, WriterCloses, callVars
    <3> QED BY <2>2, <2>3, <3>1, <3>2, <3>3, NextCases
  <2>5. c = id
    BY <1>0, <2>2, <2>4, CallMovesAreLive DEF Goto
  <2>6. \/ SendTerminal(id) /\ Enqueue(Frame(id, resp[id], "none", FALSE))
        \/ RespondSend(id) /\ Enqueue(Frame(id, resp[id], "call", TRUE))
    <3>1. ~(AbortTask(id) \/ HandlerReturns(id) \/ HandlerPanics(id) \/ HandlerInterrupted(id)
            \/ RespondPoll(id))
      BY <1>0, <1>3 DEF AbortTask, HandlerReturns, HandlerPanics, HandlerInterrupted, RespondPoll, Goto
    <3>2. ~(LateReturn(id) \/ CommitAcked(id) \/ CommitLost(id) \/ Finish(id))
      BY <1>3 DEF LateReturn, CommitAcked, CommitLost, Finish
    <3>3. SendTerminal(id) => Enqueue(Frame(id, resp[id], "none", FALSE))
      BY <2>1 DEF SendTerminal
    <3>4. RespondSend(id) => Enqueue(Frame(id, resp[id], "call", TRUE))
      BY <1>0, <1>3, <2>1 DEF RespondSend, Goto
    <3> QED BY <2>4, <2>5, <3>1, <3>2, <3>3, <3>4 DEF CallMoves
  <2>7. resp[id] \in CallKinds
    BY <2>6 DEF TypeOK, SendTerminal, RespondSend
  <2>8. PICK f : queue' = Append(queue, f) /\ f.id = id /\ f.kind = resp[id]
    BY <2>6 DEF Enqueue, Frame
  <2>9. Len(queue) + 1 \in DOMAIN queue' /\ queue'[Len(queue) + 1] = f
    BY <1>0, <2>8
  <2> QED BY <2>7, <2>8, <2>9 DEF Answers
<1>4. (writer = "open" => \A id \in Ids : task[id] \in Handed => Safe(id))'
  <2>1. writer = "open" => \A id \in Ids : task[id] \in Handed => Safe(id)
    BY DEF WorkInv
  <2> HIDE DEF Handed, Safe
  <2> QED BY <1>1, <1>2, <1>3, <2>1
\* The writer writes the shutdown reply after everything else.
<1>5. ASSUME Told', shutdown' \notin expired' PROVE (\A id \in Accepted : Wrote(id, CallKinds))'
  <2>1. CASE Told
    <3>1. Closed /\ UNCHANGED <<shutdown, task>> /\ expired \subseteq expired'
      BY <2>1, ClosedStep DEF LastFrameInv, Closed
    <3> QED BY <1>1, <1>5, <2>1, <3>1 DEF WorkInv, Wrote, Accepted
  <2>2. CASE ~Told
    <3>1. written' # written
      BY <1>5, <2>2
    <3>2. WriterWrites
      <4>1. CommitSend \/ CommitFails \/ WriterTake \/ WriterFails \/ WriterCloses => written' = written
        BY DEF CommitSend, CommitFails, Continue, WriterTake, WriterFails, WriterCloses
      <4>2. \A id \in Ids : CallMoves(id) => written' = written
        BY CallMovesAreLive
      <4> QED BY <3>1, <4>1, <4>2, FrameSteps
    <3>3. /\ current.kind = "shutdown" /\ writer = "open"
          /\ UNCHANGED <<task, shutdown, expired>>
      BY <1>5, <2>2, <3>2 DEF WriterWrites, loopVars, callVars
    <3>4. drained /\ queue = <<>>
      BY <3>3 DEF LastFrameInv, IsShutdown
    <3>5. \A id \in Accepted : id \in Ids /\ task[id] = "done"
      BY <1>5, <3>3, <3>4 DEF DrainedInv, Accepted
    <3>6. \A id \in Accepted : Wrote(id, CallKinds)
      BY <1>n, <3>3, <3>4, <3>5 DEF WorkInv, Answers
    <3> QED BY <1>1, <3>3, <3>6 DEF Wrote, Accepted
  <2> QED BY <2>1, <2>2
<1> QED
  BY <1>4, <1>5 DEF WorkInv

\* The drain's invariant holds throughout a session.
THEOREM DrainInvariance == Spec => [](Inv /\ DrainInv)
<1>1. Init => DrainInv
  BY EmptySeq DEF Init, DrainInv, DrainedInv, LastFrameInv, WorkInv, NoReply, NoFrame, IsShutdown
<1>2. Inv /\ DrainInv /\ [Next]_vars => (Inv /\ DrainInv)'
  BY InvStep, DrainedStep, LastFrameStep, WorkStep DEF Inv, DrainInv
<1> QED BY <1>1, <1>2, InvInit, PTL DEF Spec

\* A peer that receives the response to rpc.shutdown in time has received the
\* response to every call that was accepted before it, and nothing follows it.
THEOREM DrainKeepsWork == Spec => []DrainPreservesWork
<1>1. DrainInv => DrainPreservesWork
  BY DEF DrainInv, LastFrameInv, WorkInv, IsShutdown, DrainPreservesWork, Wrote
<1> QED BY <1>1, DrainInvariance, PTL

HIDE DEF Ids

----------------------------------------------------------------------------
(* What the refinement needs beyond Inv *)

\* The in-flight map holds exactly the calls that have not finished; a report
\* is made in the step that ends a call.
TableInv ==
  /\ inflight = {id \in Ids : task[id] \notin {"none", "done"}}
  /\ \A id \in Ids : finished[id] # "none" <=> task[id] = "done"
  /\ \A id \in Ids : task[id] \in {"terminal", "late", "override"} => resp[id] \notin AppKinds

\* The response of a call has one acknowledgement, and one frame that carries
\* it until it is made.
AckInv ==
  /\ \A i \in DOMAIN queue :
       /\ queue[i].kind = "app" => queue[i].ack = "call"
       /\ queue[i].ack = "call" =>
            /\ acks[queue[i].id] = "none"
            /\ \A j \in DOMAIN queue : queue[j].ack = "call" /\ queue[j].id = queue[i].id => j = i
            /\ ~(current.ack = "call" /\ current.id = queue[i].id)
  /\ current.kind = "app" => current.ack = "call"
  /\ current.ack = "call" => acks[current.id] = "none"
  /\ \A id \in Ids : acks[id] # "none" => task[id] \notin Unanswered

\* A response that is still to be written belongs to a call that waits for it,
\* or to one that was given up together with the session.
Undelivered(f) ==
  f.kind = "app" =>
    \/ task[f.id] = "committing"
    \/ task[f.id] = "uncommitted" /\ disconnected
    \/ task[f.id] = "done" /\ finished[f.id] = "uncommitted" /\ disconnected
    \/ task[f.id] = "aborted" /\ Closing

DeliveryInv ==
  /\ \A i \in DOMAIN queue : Undelivered(queue[i])
  /\ Undelivered(current)
  /\ \A id \in Ids : Wrote(id, {"app"}) => /\ acks[id] = "ok"
                                            /\ resp[id] = "app"
                                            /\ task[id] \notin Unanswered

RefInv == TableInv /\ AckInv /\ DeliveryInv

----------------------------------------------------------------------------
\* A call that has been answered stays so and keeps its response.
LEMMA AnsweredStays ==
  ASSUME TypeOK, SeenInv, [Next]_vars, NEW id \in Ids, task[id] \notin Unanswered
  PROVE  task'[id] \notin Unanswered /\ resp'[id] = resp[id]
<1>0. /\ lastSeen \in Nat /\ Ids \subseteq Nat
      /\ task \in [Ids -> TaskStates] /\ resp \in [Ids -> CallKinds \cup {"none"}]
  BY BoundsAssumption DEF TypeOK, Ids
<1>1. CASE Quiet
  BY <1>1, QuietStep DEF coreVars
<1>2. CASE CommitSend \/ CommitFails \/ WriterTake \/ WriterWrites \/ WriterFails \/ WriterCloses
  BY <1>2 DEF CommitSend, CommitFails, Continue, WriterTake, WriterWrites, WriterFails,
     WriterCloses, callVars
<1>3. CASE ReadCall
  <2>1. \E c \in Ids : c > lastSeen /\ task' = [task EXCEPT ![c] = "running"] /\ resp' = resp
    BY <1>3 DEF ReadCall, FreshRequest
  <2> QED BY <1>0, <2>1 DEF SeenInv, Unanswered
<1>4. ASSUME NEW c \in Ids, CallMoves(c)
      PROVE  task'[id] \notin Unanswered /\ resp'[id] = resp[id]
  <2>1. CASE AbortTask(c) \/ HandlerPanics(c) \/ LateReturn(c) \/ CommitAcked(c) \/ CommitLost(c)
             \/ Finish(c)
    BY <1>0, <2>1 DEF AbortTask, HandlerPanics, LateReturn, CommitAcked, CommitLost, Finish, Goto,
       Unanswered
  <2>2. CASE HandlerReturns(c) \/ HandlerInterrupted(c) \/ RespondPoll(c)
    BY <1>0, <2>2 DEF HandlerReturns, HandlerInterrupted, RespondPoll, Goto, Unanswered
  <2>3. CASE SendTerminal(c) \/ RespondSend(c)
    <3>1. task[c] \in Unanswered /\ resp' = resp /\ \E s \in TaskStates : Goto(c, s)
      BY <1>4, <2>3, CallMovesAreLive DEF SendTerminal, RespondSend, Unanswered
    <3> QED BY <1>0, <3>1 DEF Goto
  <2> QED BY <1>4, <2>1, <2>2, <2>3 DEF CallMoves
<1> QED BY <1>1, <1>2, <1>3, <1>4, NextCases

\* A quiet step leaves the in-flight map alone.
LEMMA QuietTable == Quiet => UNCHANGED inflight
  BY DEF Quiet, CommitDone, Continue, LoopSelect, LoopPolls, LoopWakes,
     LoopDisconnected, LoopDeadline, LoopDrained, LoopJoinFails, LeaveLoop, Initialize,
     InitializeSucceeds, InitializeFails, ReadEnds, ReadViolation, ReadDiscover,
     ReadInitialize, ReadReject, ReadCancel, ReadShutdown, CancelAll, JoinAll, Release,
     ServeReturns, WriterDrained, Expire, SessionOver, vars, callVars

\* A call is registered from its acceptance to its report.
LEMMA TableStep == TypeOK /\ SeenInv /\ TableInv /\ [Next]_vars => TableInv'
<1> SUFFICES ASSUME TypeOK, SeenInv, TableInv, [Next]_vars PROVE TableInv'
  OBVIOUS
<1>0. /\ lastSeen \in Nat /\ Ids \subseteq Nat
      /\ task \in [Ids -> TaskStates] /\ resp \in [Ids -> CallKinds \cup {"none"}]
      /\ finished \in [Ids -> {"none", "committed", "uncommitted"}]
  BY BoundsAssumption DEF TypeOK, Ids
<1>1. CASE UNCHANGED <<task, resp, finished, inflight>>
  BY <1>1 DEF TableInv
<1>2. CASE Quiet
  BY <1>1, <1>2, QuietStep, QuietTable DEF coreVars
<1>3. CASE CommitSend \/ CommitFails \/ WriterTake \/ WriterWrites \/ WriterFails \/ WriterCloses
  BY <1>1, <1>3 DEF CommitSend, CommitFails, Continue, WriterTake, WriterWrites, WriterFails,
     WriterCloses, callVars
<1>4. CASE ReadCall
  <2>1. PICK c \in Ids : /\ c > lastSeen /\ task' = [task EXCEPT ![c] = "running"]
                         /\ inflight' = inflight \cup {c} /\ UNCHANGED <<resp, finished>>
    BY <1>4 DEF ReadCall, FreshRequest
  <2>2. task[c] = "none"
    BY <1>0, <2>1 DEF SeenInv
  <2> QED BY <1>0, <2>1, <2>2 DEF TableInv
<1>5. ASSUME NEW c \in Ids, CallMoves(c) PROVE TableInv'
  <2>1. CASE AbortTask(c)
    BY <1>0, <2>1 DEF AbortTask, Goto, TableInv, Live, Ended
  <2>2. CASE HandlerReturns(c)
    BY <1>0, <2>2 DEF HandlerReturns, Goto, TableInv
  <2>3. CASE HandlerPanics(c)
    BY <1>0, <2>3 DEF HandlerPanics, Goto, TableInv
  <2>4. CASE LateReturn(c)
    BY <1>0, <2>4 DEF LateReturn, Goto, TableInv
  <2>5. CASE HandlerInterrupted(c)
    BY <1>0, <2>5 DEF HandlerInterrupted, Goto, TableInv, AppKinds
  <2>6. CASE SendTerminal(c)
    BY <1>0, <2>6 DEF SendTerminal, Goto, TableInv
  <2>7. CASE RespondPoll(c)
    BY ZenonT(60), <1>0, <2>7 DEF RespondPoll, Goto, TableInv, AppKinds
  <2>8. CASE RespondSend(c)
    <3>1. /\ task[c] = "send" /\ UNCHANGED <<resp, finished, inflight>>
          /\ \E s \in {"committing", "respond", "uncommitted"} : Goto(c, s)
      BY <2>8 DEF RespondSend
    <3> QED BY <1>0, <3>1 DEF Goto, TableInv
  <2>9. CASE CommitAcked(c)
    BY <1>0, <2>9 DEF CommitAcked, Goto, TableInv
  <2>10. CASE CommitLost(c)
    BY <1>0, <2>10 DEF CommitLost, Goto, TableInv
  <2>11. CASE Finish(c)
    BY <1>0, <2>11 DEF Finish, Goto, TableInv
  <2> QED
    BY <1>5, <2>1, <2>2, <2>3, <2>4, <2>5, <2>6, <2>7, <2>8, <2>9, <2>10, <2>11 DEF CallMoves
<1> QED BY <1>2, <1>3, <1>4, <1>5, NextCases

\* One frame carries the acknowledgement of a call, until it is made.
LEMMA AckStep ==
  TypeOK /\ SeenInv /\ CommitInv /\ TableInv /\ AckInv /\ [Next]_vars => AckInv'
<1> SUFFICES ASSUME TypeOK, SeenInv, CommitInv, TableInv, AckInv, [Next]_vars PROVE AckInv'
  OBVIOUS
<1>0. /\ queue \in Seq(Frames) /\ current \in Frames \cup {NoFrame}
      /\ Len(queue) \in Nat /\ DOMAIN queue = 1 .. Len(queue)
      /\ \A i \in DOMAIN queue : queue[i] \in Frames
      /\ task \in [Ids -> TaskStates] /\ acks \in [Ids -> Acks]
      /\ NoFrame.ack = "none" /\ NoFrame.kind = "none"
  BY DEF TypeOK, NoFrame
<1>1. \A id \in Ids : task[id] \notin Unanswered => task'[id] \notin Unanswered
  BY AnsweredStays
\* Frames that a call waits for belong to answered calls.
<1>2. /\ \A i \in DOMAIN queue : queue[i].ack = "call" =>
             queue[i].id \in Ids /\ task[queue[i].id] \notin Unanswered
      /\ current.ack = "call" => current.id \in Ids /\ task[current.id] \notin Unanswered
  BY DEF CommitInv, FrameInv
<1>3. CASE UNCHANGED <<queue, current, acks>>
  BY <1>1, <1>3 DEF AckInv
<1>4. CASE CommitSend
  <2> DEFINE f == Frame(reply.id, reply.kind, "loop", FALSE)
  <2>1. UNCHANGED <<current, acks>> /\ queue' = Append(queue, f)
        /\ f.kind # "app" /\ f.ack = "loop"
    BY <1>4 DEF CommitSend, Enqueue, TypeOK, Replies, Frame
  <2> HIDE DEF f
  <2>2. \A i \in DOMAIN queue' : \/ i \in DOMAIN queue /\ queue'[i] = queue[i]
                                 \/ queue'[i].ack = "loop" /\ queue'[i].kind # "app"
    BY <1>0, <2>1
  <2> QED BY <1>1, <2>1, <2>2 DEF AckInv
<1>5. CASE CommitFails
  <2>1. /\ DOMAIN queue' = DOMAIN queue /\ acks' = acks
        /\ \A i \in DOMAIN queue : \/ queue'[i] = queue[i]
                                   \/ queue'[i].ack = "none" /\ queue[i].ack = "loop"
                                      /\ queue'[i].kind = queue[i].kind
        /\ \/ current' = current
           \/ current'.ack = "none" /\ current.ack = "loop" /\ current'.kind = current.kind
    BY <1>0, <1>5 DEF CommitFails, Continue, Disown, Frames, NoFrame
  <2> QED BY <1>1, <2>1 DEF AckInv
<1>6. CASE WriterTake
  <2>1. /\ queue # <<>> /\ current' = queue[1] /\ 1 \in DOMAIN queue /\ acks' = acks
        /\ queue' = Tail(queue)
    BY <1>0, <1>6, EmptySeq DEF WriterTake
  <2>2. \A i \in DOMAIN queue' : i + 1 \in DOMAIN queue /\ queue'[i] = queue[i + 1] /\ i \in Nat \ {0}
    BY <1>0, <2>1, HeadTailProperties
  <2> QED BY <1>1, <2>1, <2>2 DEF AckInv
<1>7. CASE WriterWrites \/ WriterFails
  <2>1. /\ queue' = queue /\ current' = NoFrame
        /\ \A id \in Ids : acks'[id] = acks[id] \/ (current.ack = "call" /\ current.id = id)
    BY <1>7 DEF WriterWrites, WriterFails, Acknowledge, CallAcksIn
  <2>2. \A id \in Ids : acks'[id] # "none" => task'[id] \notin Unanswered
    BY <1>1, <1>2, <2>1 DEF AckInv
  <2> QED BY <1>0, <1>2, <2>1, <2>2 DEF AckInv
<1>8. CASE WriterCloses
  <2>1. /\ queue' = <<>> /\ current' = NoFrame /\ DOMAIN queue' = {}
        /\ \A id \in Ids : acks'[id] = acks[id]
              \/ \E i \in DOMAIN queue : queue[i].ack = "call" /\ queue[i].id = id
    BY <1>8 DEF WriterCloses, Acknowledge, CallAcksIn
  <2> QED BY <1>0, <1>1, <1>2, <2>1 DEF AckInv
<1>9. ASSUME NEW c \in Ids, CallMoves(c) PROVE AckInv'
  <2>1. CASE SendTerminal(c)
    <3>1. UNCHANGED <<current, acks>> /\ resp[c] \notin AppKinds
      BY <2>1 DEF SendTerminal, TableInv
    <3>2. CASE queue' = queue
      BY <1>3, <3>1, <3>2
    <3>3. CASE queue' = Append(queue, Frame(c, resp[c], "none", FALSE))
      <4>1. \A i \in DOMAIN queue' : \/ i \in DOMAIN queue /\ queue'[i] = queue[i]
                                     \/ queue'[i].ack = "none" /\ queue'[i].kind # "app"
        BY <1>0, <3>1, <3>3 DEF Frame, AppKinds
      <4> QED BY <1>1, <3>1, <4>1 DEF AckInv
    <3> QED BY <2>1, <3>2, <3>3 DEF SendTerminal, Enqueue
  <2>2. CASE RespondSend(c)
    <3>1. UNCHANGED <<current, acks>> /\ task[c] \in Unanswered
      BY <2>2 DEF RespondSend, Unanswered
    <3>2. CASE queue' = queue
      BY <1>3, <3>1, <3>2
    <3>3. CASE queue' = Append(queue, Frame(c, resp[c], "call", TRUE))
      <4>1. \A i \in DOMAIN queue' : \/ i \in DOMAIN queue /\ queue'[i] = queue[i]
                                     \/ /\ i = Len(queue) + 1
                                        /\ queue'[i].ack = "call" /\ queue'[i].id = c
        BY <1>0, <3>1, <3>3 DEF Frame, AppKinds
      <4>2. acks[c] = "none"
        BY <3>1 DEF AckInv
      <4>3. \A i \in DOMAIN queue : ~(queue[i].ack = "call" /\ queue[i].id = c)
        BY <1>2, <3>1
      <4>4. ~(current.ack = "call" /\ current.id = c)
        BY <1>2, <3>1
      <4> QED BY <1>0, <1>1, <3>1, <4>1, <4>2, <4>3, <4>4 DEF AckInv
    <3> QED BY <2>2, <3>2, <3>3 DEF RespondSend, Enqueue
  <2>3. CASE ~SendTerminal(c) /\ ~RespondSend(c)
    <3>1. UNCHANGED <<queue, current, acks>>
      BY <1>9, <2>3 DEF CallMoves, AbortTask, HandlerReturns, HandlerPanics, LateReturn,
       HandlerInterrupted, RespondPoll, CommitAcked, CommitLost, Finish, writerVars
    <3> QED BY <1>3, <3>1
  <2> QED BY <2>1, <2>2, <2>3
<1>10. CASE Quiet \/ ReadCall
  <2>1. UNCHANGED <<queue, current, acks>>
    BY <1>10, QuietStep DEF coreVars, ReadCall, writerVars
  <2> QED BY <1>3, <2>1
<1> QED BY <1>4, <1>5, <1>6, <1>7, <1>8, <1>9, <1>10, NextCases

\* The session does not reopen.
LEMMA ClosingStays == ASSUME TypeOK, ReleaseInv, [Next]_vars, Closing PROVE Closing'
<1>0. /\ loop \in {"sending", "awaiting"} => reply.kind = "shutdown"
      /\ loop \notin {"select", "reading", "initializing", "teardown"}
  BY DEF Closing, ReleaseInv
<1> USE DEF Closing
<1>1. CASE Writer \/ \E id \in Ids : Expire(id)
  BY <1>1 DEF Writer, WriterTake, WriterWrites, WriterFails, WriterDrained, WriterCloses,
              Expire, loopVars
<1>2. CASE CommitDone \/ CommitFails
  BY <1>0, <1>2 DEF CommitDone, CommitFails, Continue, ReleaseInv
<1>3. CASE CommitSend \/ JoinAll \/ Release \/ ServeReturns
  <2>1. CommitSend => Closing'
    BY <1>0 DEF CommitSend
  <2>2. JoinAll \/ ServeReturns => Closing'
    BY DEF JoinAll, ServeReturns
  <2>3. Release => Closing'
    BY DEF Release, StartCommit
  <2> QED BY <1>3, <2>1, <2>2, <2>3
<1>4. CASE SessionOver \/ UNCHANGED vars
  BY <1>4 DEF SessionOver, vars, loopVars
<1>5. ASSUME NEW id \in Ids, CallMoves(id) PROVE Closing'
  BY <1>5, CallMovesAreLive DEF loopVars
<1>6. ~(\/ LoopSelect \/ Initialize \/ ReadFrame \/ CancelAll)
  BY <1>0 DEF LoopSelect, LoopPolls, LoopWakes, LoopDisconnected, LoopDeadline,
     LoopDrained, LoopJoinFails, Initialize, InitializeSucceeds, InitializeFails, ReadFrame,
     ReadEnds, ReadViolation, ReadDiscover, ReadInitialize, ReadReject, ReadCall, ReadCancel,
     ReadShutdown, FreshRequest, CancelAll
<1> QED
  BY <1>1, <1>2, <1>3, <1>4, <1>5, <1>6
  DEF Next, Commit, Teardown, HandlerSteps, CallSteps, CallMoves

\* A session that has given up on its transport does not get it back.
LEMMA DisconnectedStays == [Next]_vars => disconnected' = disconnected \/ disconnected' = TRUE
<1> SUFFICES ASSUME [Next]_vars PROVE disconnected' = disconnected \/ disconnected' = TRUE
  OBVIOUS
<1>1. CASE Quiet
  BY <1>1 DEF Quiet, CommitDone, Continue, LoopSelect, LoopPolls, LoopWakes,
     LoopDisconnected, LoopDeadline, LoopDrained, LoopJoinFails, LeaveLoop, Initialize,
     InitializeSucceeds, InitializeFails, ReadEnds, ReadViolation, ReadDiscover,
     ReadInitialize, ReadReject, ReadCancel, ReadShutdown, CancelAll, JoinAll, Release,
     ServeReturns, WriterDrained, Expire, SessionOver, vars
<1>2. CASE CommitSend \/ CommitFails \/ ReadCall \/ WriterTake \/ WriterWrites \/ WriterFails
           \/ WriterCloses
  BY <1>2 DEF CommitSend, CommitFails, Continue, ReadCall, WriterTake, WriterWrites, WriterFails,
     WriterCloses
<1>3. ASSUME NEW id \in Ids, CallMoves(id) PROVE disconnected' = disconnected \/ disconnected' = TRUE
  BY <1>3 DEF CallMoves, AbortTask, HandlerReturns, HandlerPanics, LateReturn,
     HandlerInterrupted, SendTerminal, RespondPoll, RespondSend, CommitAcked, CommitLost, Finish
<1> QED BY <1>1, <1>2, <1>3, NextCases

\* What a call does while its outcome is still to be written.
LEMMA UndeliveredStays ==
  ASSUME TypeOK, SeenInv, ReleaseInv, [Next]_vars, NEW f, f.id \in Ids, f.kind = "app",
         acks[f.id] = "none", Undelivered(f)
  PROVE  Undelivered(f)'
<1>0. /\ lastSeen \in Nat /\ Ids \subseteq Nat
      /\ task \in [Ids -> TaskStates]
      /\ finished \in [Ids -> {"none", "committed", "uncommitted"}]
  BY BoundsAssumption DEF TypeOK, Ids
<1>1. (Closing => Closing') /\ (disconnected => disconnected')
  BY ClosingStays, DisconnectedStays
<1>2. CASE UNCHANGED <<task, finished>>
  BY <1>1, <1>2 DEF Undelivered
<1>3. CASE Quiet \/ CommitSend \/ CommitFails \/ WriterTake \/ WriterWrites \/ WriterFails
           \/ WriterCloses
  <2>1. UNCHANGED <<task, finished>>
    BY <1>3, QuietStep DEF coreVars, CommitSend, CommitFails, Continue, WriterTake, WriterWrites,
       WriterFails, WriterCloses, callVars
  <2> QED BY <1>2, <2>1
<1>4. CASE ReadCall
  <2>1. PICK c \in Ids : /\ c > lastSeen /\ task' = [task EXCEPT ![c] = "running"]
                         /\ finished' = finished
    BY <1>4 DEF ReadCall, FreshRequest
  <2>2. task[c] = "none"
    BY <1>0, <2>1 DEF SeenInv
  <2>3. c # f.id
    BY <2>2 DEF Undelivered
  <2> QED BY <1>0, <1>1, <2>1, <2>3 DEF Undelivered
<1>5. ASSUME NEW c \in Ids, CallMoves(c) PROVE Undelivered(f)'
  <2>1. CASE c # f.id
    <3>1. finished'[f.id] = finished[f.id]
      BY <1>0, <1>5, <2>1 DEF CallMoves, AbortTask, HandlerReturns, HandlerPanics, LateReturn,
         HandlerInterrupted, SendTerminal, RespondPoll, RespondSend, CommitAcked, CommitLost, Finish
    <3>2. task'[f.id] = task[f.id]
      BY <1>0, <1>5, <2>1, CallMovesAreLive DEF Goto
    <3> QED BY <1>1, <3>1, <3>2 DEF Undelivered
  <2>2. CASE c = f.id
    <3>1. CASE AbortTask(c)
      <4>1. task'[c] = "aborted" /\ loop' = "aborting"
        BY <1>0, <3>1 DEF AbortTask, Goto, loopVars
      <4> QED BY <2>2, <4>1 DEF Undelivered, Closing
    <3>2. CASE CommitLost(c)
      BY <1>0, <2>2, <3>2 DEF CommitLost, Goto, Undelivered
    <3>3. CASE Finish(c)
      BY <1>0, <2>2, <3>3 DEF Finish, Goto, Undelivered
    <3>4. ~(\/ HandlerReturns(c) \/ HandlerPanics(c) \/ LateReturn(c) \/ HandlerInterrupted(c)
            \/ SendTerminal(c) \/ RespondPoll(c) \/ RespondSend(c) \/ CommitAcked(c))
      BY <2>2 DEF HandlerReturns, HandlerPanics, LateReturn,
         HandlerInterrupted, SendTerminal, RespondPoll, RespondSend, CommitAcked, Undelivered
    <3> QED BY <1>5, <3>1, <3>2, <3>3, <3>4 DEF CallMoves
  <2> QED BY <2>1, <2>2
<1> QED BY <1>3, <1>4, <1>5, NextCases

\* What the peer receives of a call is the call's own outcome, once, and from a
\* call that waits for it or was given up with the session.
LEMMA DeliveryStep ==
  TypeOK /\ SeenInv /\ CommitInv /\ ReleaseInv /\ RefInv /\ [Next]_vars => DeliveryInv'
<1> SUFFICES ASSUME TypeOK, SeenInv, CommitInv, ReleaseInv, RefInv, [Next]_vars
             PROVE  DeliveryInv'
  OBVIOUS
<1>0. /\ queue \in Seq(Frames) /\ current \in Frames \cup {NoFrame}
      /\ Len(queue) \in Nat /\ DOMAIN queue = 1 .. Len(queue)
      /\ \A i \in DOMAIN queue : queue[i] \in Frames
      /\ task \in [Ids -> TaskStates] /\ acks \in [Ids -> Acks]
      /\ NoFrame.ack = "none" /\ NoFrame.kind = "none"
  BY DEF TypeOK, NoFrame
<1>1. \A id \in Ids : task[id] \notin Unanswered =>
          task'[id] \notin Unanswered /\ resp'[id] = resp[id]
  BY AnsweredStays
<1>2. \A f \in Frames :
         f.kind = "app" /\ (f = current \/ \E i \in DOMAIN queue : f = queue[i])
           => Undelivered(f)'
  <2>1. ASSUME NEW f, f.kind = "app", f.ack = "call", FrameInv(f), acks[f.id] = "none",
               Undelivered(f)
        PROVE  Undelivered(f)'
    BY <2>1, UndeliveredStays DEF FrameInv
  <2> QED
    <3> TAKE f \in Frames
    <3> HAVE f.kind = "app" /\ (f = current \/ \E i \in DOMAIN queue : f = queue[i])
    <3>1. f.ack = "call" /\ acks[f.id] = "none"
      BY DEF RefInv, AckInv
    <3>2. FrameInv(f)
      BY DEF CommitInv
    <3>3. Undelivered(f)
      BY DEF RefInv, DeliveryInv
    <3> QED BY <2>1, <3>1, <3>2, <3>3
\* Every frame with an outcome is an old one, or just handed over.
<1>3. /\ \A i \in DOMAIN queue' : queue'[i].kind = "app" =>
            \/ \E j \in DOMAIN queue : queue'[i] = queue[j]
            \/ task'[queue'[i].id] = "committing"
      /\ current'.kind = "app" => current' = current \/ \E j \in DOMAIN queue : current' = queue[j]
  <2>1. CASE UNCHANGED <<queue, current, written>>
    BY <2>1
  <2>2. CASE CommitSend
    <3> DEFINE f == Frame(reply.id, reply.kind, "loop", FALSE)
    <3>1. current' = current /\ queue' = Append(queue, f) /\ f.kind # "app"
      BY <2>2 DEF CommitSend, Enqueue, TypeOK, Replies, Frame
    <3> HIDE DEF f
    <3> QED BY <1>0, <3>1
  <2>3. CASE CommitFails
    <3>1. /\ DOMAIN queue' = DOMAIN queue
          /\ \A i \in DOMAIN queue : queue'[i] = Disown(queue[i])
          /\ current' = Disown(current)
      BY <2>3 DEF CommitFails
    <3>2. \A f \in Frames \cup {NoFrame} : Disown(f).kind = f.kind /\ (f.ack = "call" => Disown(f) = f)
      BY DisownKeeps DEF Disown
    <3> QED BY <1>0, <3>1, <3>2 DEF RefInv, AckInv
  <2>4. CASE WriterTake
    <3>1. /\ current' = queue[1] /\ 1 \in DOMAIN queue
          /\ queue' = Tail(queue) /\ queue # <<>>
      BY <1>0, <2>4, EmptySeq DEF WriterTake
    <3>2. \A i \in DOMAIN queue' : i + 1 \in DOMAIN queue /\ queue'[i] = queue[i + 1]
      BY <1>0, <3>1, HeadTailProperties
    <3> QED BY <3>1, <3>2
  <2>5. CASE WriterWrites \/ WriterFails \/ WriterCloses
    <3>1. current' = NoFrame /\ (queue' = queue \/ DOMAIN queue' = {})
      BY <2>5 DEF WriterWrites, WriterFails, WriterCloses
    <3> QED BY <1>0, <3>1
  <2>6. ASSUME NEW c \in Ids, NEW a \in {"none", "call"}, NEW b \in BOOLEAN,
               queue' = Append(queue, Frame(c, resp[c], a, b)),
               resp[c] \in CallKinds, CallMoves(c)
        PROVE  /\ \A i \in DOMAIN queue' : queue'[i].kind = "app" =>
                    \/ \E j \in DOMAIN queue : queue'[i] = queue[j]
                    \/ task'[queue'[i].id] = "committing"
               /\ current'.kind = "app" => current' = current
    <3> DEFINE f == Frame(c, resp[c], a, b)
    <3>1. current' = current /\ f.kind = resp[c] /\ f.id = c /\ queue' = Append(queue, f)
      BY <2>6, CallMovesAreLive DEF Frame
    <3>2. resp[c] = "app" => task'[c] = "committing"
      <4>1. queue' # queue
        <5> HIDE DEF f
        <5>1. Len(queue') = Len(queue) + 1
          BY <1>0, <3>1
        <5> QED BY <1>0, <5>1
      <4>2. SendTerminal(c) \/ RespondSend(c)
        BY <2>6, <4>1 DEF CallMoves, AbortTask, HandlerReturns, HandlerPanics, LateReturn,
           HandlerInterrupted, RespondPoll, CommitAcked, CommitLost, Finish, writerVars
      <4>3. SendTerminal(c) => resp[c] # "app"
        BY DEF SendTerminal, RefInv, TableInv, AppKinds
      <4>4. RespondSend(c) => task'[c] = "committing"
        BY <1>0, <4>1 DEF RespondSend, Goto
      <4> QED BY <4>2, <4>3, <4>4
    <3> HIDE DEF f
    <3>3. \A i \in DOMAIN queue' : (i \in DOMAIN queue /\ queue'[i] = queue[i]) \/ queue'[i] = f
      BY <1>0, <3>1
    <3> QED BY <3>1, <3>2, <3>3
  <2> QED BY <2>1, <2>2, <2>3, <2>4, <2>5, <2>6, FrameSteps
<1>4. (\A i \in DOMAIN queue : Undelivered(queue[i]))' /\ Undelivered(current)'
  <2>1. ASSUME NEW f \in Frames \cup {NoFrame}, Undelivered(f)' \/ f.kind # "app" \/ task'[f.id] = "committing"
        PROVE  Undelivered(f)'
    BY <2>1 DEF Undelivered
  <2>2. TypeOK'
    BY TypeStep
  <2>3. current' \in Frames \cup {NoFrame} /\ \A i \in DOMAIN queue' : queue'[i] \in Frames
    BY <2>2 DEF TypeOK
  <2>4. \A i \in DOMAIN queue' : \A f \in Frames : f = queue'[i] => Undelivered(f)'
    BY <1>0, <1>2, <1>3, <2>1
  <2>5. \A f \in Frames \cup {NoFrame} : f = current' => Undelivered(f)'
    BY <1>0, <1>2, <1>3, <2>1
  <2> QED BY <2>3, <2>4, <2>5 DEF Undelivered
\* An acknowledgement is made once.
<1>5. \A id \in Ids : acks[id] = "ok" => acks'[id] = "ok"
  <2>1. CASE acks' = acks
    BY <2>1
  <2>2. CASE WriterWrites \/ WriterFails
    <3>1. \A id \in Ids : acks'[id] = acks[id] \/ (current.ack = "call" /\ current.id = id)
      BY <2>2 DEF WriterWrites, WriterFails, Acknowledge, CallAcksIn
    <3> QED BY <3>1 DEF RefInv, AckInv
  <2>3. CASE WriterCloses
    <3>1. \A id \in Ids : acks'[id] = acks[id]
              \/ \E i \in DOMAIN queue : queue[i].ack = "call" /\ queue[i].id = id
      BY <2>3 DEF WriterCloses, Acknowledge, CallAcksIn
    <3> QED BY <3>1 DEF RefInv, AckInv
  <2>4. Quiet \/ CommitSend \/ CommitFails \/ ReadCall \/ WriterTake => acks' = acks
    BY QuietStep DEF coreVars, CommitSend, CommitFails, Continue, ReadCall, WriterTake
  <2>5. \A c \in Ids : CallMoves(c) => acks' = acks
    BY DEF CallMoves, AbortTask, HandlerReturns, HandlerPanics, LateReturn,
       HandlerInterrupted, SendTerminal, RespondPoll, RespondSend, CommitAcked, CommitLost, Finish
  <2> QED BY <2>1, <2>2, <2>3, <2>4, <2>5, NextCases
<1>6. ASSUME NEW id \in Ids, Wrote(id, {"app"})'
      PROVE  acks'[id] = "ok" /\ resp'[id] = "app" /\ task'[id] \notin Unanswered
  <2>1. CASE Wrote(id, {"app"})
    BY <1>1, <1>5, <2>1 DEF RefInv, DeliveryInv
  <2>2. CASE ~Wrote(id, {"app"})
    <3>1. written' # written
      BY <1>6, <2>2 DEF Wrote
    <3>2. WriterWrites
      <4>1. CommitSend \/ CommitFails \/ WriterTake \/ WriterFails \/ WriterCloses => written' = written
        BY DEF CommitSend, CommitFails, Continue, WriterTake, WriterFails, WriterCloses
      <4>2. \A c \in Ids : CallMoves(c) => written' = written
        BY CallMovesAreLive
      <4> QED BY <3>1, <4>1, <4>2, FrameSteps
    <3>3. current.id = id /\ current.kind = "app"
      BY <1>6, <2>2, <3>2 DEF WriterWrites, Wrote
    <3>4. current.ack = "call" /\ resp[id] = "app" /\ task[id] \notin Unanswered
      BY <3>3 DEF RefInv, AckInv, CommitInv, FrameInv
    <3>5. acks'[id] = "ok"
      BY <3>2, <3>3, <3>4 DEF WriterWrites, Acknowledge, CallAcksIn
    <3> QED BY <1>1, <3>4, <3>5
  <2> QED BY <2>1, <2>2
<1> QED BY <1>4, <1>6 DEF DeliveryInv

----------------------------------------------------------------------------
(* The refinement mapping, piece by piece *)

PhaseMap == [id \in Ids |-> PhaseOf(task[id])]
ReportMap == [id \in Ids |-> ReportOf(id)]
DeliveredMap == {id \in Ids : Wrote(id, {"app"})}

\* The phase of a call is a function of the state of its task.
LEMMA Phases ==
  /\ PhaseOf("none") = "idle" /\ PhaseOf("done") = "finished"
  /\ \A s \in HandlerRunning : PhaseOf(s) = "handling"
  /\ \A s \in {"respond", "send", "override", "committing"} : PhaseOf(s) = "returned"
  /\ \A s \in {"committed", "uncommitted"} : PhaseOf(s) = "reporting"
  /\ \A s \in {"panicked", "aborted"} : PhaseOf(s) = "lost"
  BY DEF PhaseOf, HandlerRunning

\* A move of one task is a move of one call.
LEMMA PhaseMoves ==
  ASSUME NEW id \in Ids, NEW s, task \in [Ids -> TaskStates], Goto(id, s)
  PROVE  /\ PhaseMap' = [PhaseMap EXCEPT ![id] = PhaseOf(s)]
         /\ PhaseOf(s) = PhaseOf(task[id]) => UNCHANGED PhaseMap
  BY DEF PhaseMap, Goto

\* A report changes in a step that moves its call.
LEMMA ReportMoves ==
  ASSUME NEW id \in Ids, NEW s, task \in [Ids -> TaskStates], Goto(id, s),
         finished \in [Ids -> {"none", "committed", "uncommitted"}],
         \A c \in Ids \ {id} : finished'[c] = finished[c]
  PROVE  ReportMap' = [ReportMap EXCEPT ![id] =
                         IF s \in {"committed", "uncommitted"} THEN s ELSE finished'[id]]
  BY DEF ReportMap, ReportOf, Goto

\* A step that the application does not see.
LEMMA Stutters ==
  ASSUME UNCHANGED <<PhaseMap, ReportMap, DeliveredMap, cancelled, disconnected, Closing, released>>
  PROVE  UNCHANGED Contract!contractVars
  BY DEF Contract!contractVars, PhaseMap, ReportMap, DeliveredMap

\* Each step of run_call is one step of the call it runs, or invisible.
LEMMA CallMovesMap ==
  ASSUME Inv, RefInv, [Next]_vars, NEW id \in Ids, CallMoves(id)
  PROVE  Contract!ContractNext \/ UNCHANGED Contract!contractVars
<1>0. /\ task \in [Ids -> TaskStates]
      /\ finished \in [Ids -> {"none", "committed", "uncommitted"}]
      /\ PhaseMap[id] = PhaseOf(task[id]) /\ ReportMap[id] = ReportOf(id)
  BY DEF Inv, TypeOK, PhaseMap, ReportMap
<1>1. UNCHANGED <<Closing, released, DeliveredMap>>
  BY CallMovesAreLive DEF loopVars, Closing, DeliveredMap, Wrote
<1>2. Live(id) /\ task[id] \notin {"none", "done"} /\ finished[id] = "none"
  BY <1>0, CallMovesAreLive DEF Live, Ended, RefInv, TableInv
<1>3. id \in DeliveredMap => /\ acks[id] = "ok" /\ resp[id] = "app"
                             /\ task[id] \notin Unanswered
  BY DEF DeliveredMap, RefInv, DeliveryInv
\* The kinds of step, in terms of the mapping.
<1>4. ASSUME PhaseMap[id] = "handling" \/ (PhaseMap[id] \in {"handling", "returned", "reporting"} /\ Closing),
             PhaseMap' = [PhaseMap EXCEPT ![id] = "lost"],
             ReportMap' = [ReportMap EXCEPT ![id] = "none"], UNCHANGED <<cancelled, disconnected>>
      PROVE  Contract!ContractNext
  <2>1. Contract!Lose(id)
    BY <1>1, <1>4 DEF Contract!Lose, Contract!Move, Contract!Open, PhaseMap, ReportMap, DeliveredMap
  <2> QED BY <2>1 DEF Contract!ContractNext
<1>5. ASSUME PhaseMap[id] \in {"handling", "returned"}, id \notin DeliveredMap,
             PhaseMap' = [PhaseMap EXCEPT ![id] = "reporting"],
             ReportMap' = [ReportMap EXCEPT ![id] = "uncommitted"],
             cancelled' = cancelled, disconnected' \in {disconnected, TRUE}
      PROVE  Contract!ContractNext
  <2>1. Contract!Discard(id)
    BY <1>1, <1>5 DEF Contract!Discard, Contract!Move, PhaseMap, ReportMap, DeliveredMap
  <2> QED BY <2>1 DEF Contract!ContractNext
<1>6. ASSUME PhaseMap[id] \in {"handling", "returned", "reporting", "lost"},
             cancelled' = cancelled \cup {id}, UNCHANGED <<PhaseMap, ReportMap, disconnected>>
      PROVE  Contract!ContractNext
  <2>1. Contract!Cancel(id)
    BY <1>1, <1>6 DEF Contract!Cancel, Contract!Open, PhaseMap, ReportMap, DeliveredMap
  <2> QED BY <2>1 DEF Contract!ContractNext
\* The report is visible as soon as the task has decided it.
<1>7. ASSUME NEW s, Goto(id, s), finished' = finished
      PROVE  /\ PhaseMap' = [PhaseMap EXCEPT ![id] = PhaseOf(s)]
             /\ ReportMap' = [ReportMap EXCEPT ![id] =
                                IF s \in {"committed", "uncommitted"} THEN s ELSE "none"]
             /\ PhaseOf(s) = PhaseOf(task[id]) => UNCHANGED PhaseMap
             /\ {s, task[id]} \cap {"committed", "uncommitted"} = {} => UNCHANGED ReportMap
  <2>1. PhaseMap' = [PhaseMap EXCEPT ![id] = PhaseOf(s)]
        /\ (PhaseOf(s) = PhaseOf(task[id]) => UNCHANGED PhaseMap)
    BY <1>0, <1>7, PhaseMoves
  <2>2. ReportMap' = [ReportMap EXCEPT ![id] =
                        IF s \in {"committed", "uncommitted"} THEN s ELSE "none"]
    BY <1>0, <1>2, <1>7, ReportMoves
  <2>3. {s, task[id]} \cap {"committed", "uncommitted"} = {} => UNCHANGED ReportMap
    BY <1>0, <1>7 DEF ReportMap, ReportOf, Goto
  <2> QED BY <2>1, <2>2, <2>3
<1>8. CASE AbortTask(id)
  <2>1. Goto(id, "aborted") /\ UNCHANGED <<finished, cancelled, disconnected>> /\ Closing
    BY <1>8 DEF AbortTask, Closing
  <2>2. PhaseMap[id] \in {"handling", "returned", "reporting"}
    BY <1>0, <1>2, Phases DEF Live, Ended, TaskStates
  <2> QED BY <1>4, <1>7, <2>1, <2>2, Phases
<1>9. CASE HandlerPanics(id)
  <2>1. Goto(id, "panicked") /\ UNCHANGED <<finished, cancelled, disconnected>>
        /\ PhaseMap[id] = "handling"
    BY <1>0, <1>9, Phases DEF HandlerPanics, HandlerRunning
  <2> QED BY <1>4, <1>7, <2>1, Phases
<1>10. CASE HandlerReturns(id)
  <2>1. Goto(id, "respond") /\ UNCHANGED <<finished, cancelled, disconnected>>
        /\ PhaseMap[id] = "handling" /\ task[id] = "running"
    BY <1>0, <1>10, Phases DEF HandlerReturns, HandlerRunning
  <2>2. PhaseMap' = [PhaseMap EXCEPT ![id] = "returned"] /\ UNCHANGED ReportMap
    BY <1>7, <2>1, Phases
  <2>3. Contract!Return(id)
    BY <1>1, <2>1, <2>2 DEF Contract!Return, Contract!Move, PhaseMap, ReportMap, DeliveredMap
  <2> QED BY <2>3 DEF Contract!ContractNext
<1>11. CASE LateReturn(id)
  <2>1. Goto(id, "uncommitted") /\ UNCHANGED <<finished, cancelled, disconnected>>
        /\ PhaseMap[id] = "handling" /\ task[id] = "late"
    BY <1>0, <1>11, Phases DEF LateReturn, HandlerRunning
  <2>2. id \notin DeliveredMap
    BY <1>3, <2>1 DEF RefInv, TableInv, AppKinds
  <2> QED BY <1>5, <1>7, <2>1, <2>2, Phases
<1>12. CASE HandlerInterrupted(id)
  <2>1. Goto(id, "terminal") /\ UNCHANGED <<finished, disconnected>> /\ task[id] = "running"
        /\ cancelled' = cancelled \cup {id} /\ PhaseMap[id] = "handling"
        /\ PhaseOf("terminal") = "handling"
    BY <1>0, <1>12, Phases DEF HandlerInterrupted, HandlerRunning
  <2>2. UNCHANGED <<PhaseMap, ReportMap>>
    BY <1>0, <1>7, <2>1
  <2> QED BY <1>6, <2>1, <2>2
<1>13. CASE SendTerminal(id)
  <2>1. UNCHANGED <<finished, cancelled, disconnected>>
    BY <1>13 DEF SendTerminal
  <2>2. CASE task[id] = "terminal"
    <3>1. Goto(id, "late") /\ PhaseOf("late") = PhaseOf(task[id])
      BY <1>13, <2>2, Phases DEF SendTerminal, HandlerRunning
    <3>2. UNCHANGED <<PhaseMap, ReportMap>>
      BY <1>7, <2>1, <2>2, <3>1
    <3> QED BY <1>1, <2>1, <3>2, Stutters
  <2>3. CASE task[id] = "override"
    <3>1. Goto(id, "uncommitted") /\ PhaseMap[id] = "returned"
      BY <1>0, <1>13, <2>3, Phases DEF SendTerminal
    <3>2. id \notin DeliveredMap
      BY <1>3, <2>3 DEF Unanswered
    <3> QED BY <1>5, <1>7, <2>1, <3>1, <3>2, Phases
  <2> QED BY <1>13, <2>2, <2>3 DEF SendTerminal
<1>14. CASE RespondPoll(id)
  <2>1. UNCHANGED <<finished, disconnected>> /\ task[id] = "respond" /\ PhaseMap[id] = "returned"
    BY <1>0, <1>14, Phases DEF RespondPoll
  <2>2. CASE Goto(id, "override") /\ cancelled' = cancelled \cup {id}
    <3>1. UNCHANGED <<PhaseMap, ReportMap>>
      BY <1>7, <2>1, <2>2, Phases
    <3> QED BY <1>6, <2>1, <2>2, <3>1
  <2>3. CASE Goto(id, "send") /\ cancelled' = cancelled
    <3>1. UNCHANGED <<PhaseMap, ReportMap>>
      BY <1>7, <2>1, <2>3, Phases
    <3> QED BY <1>1, <2>1, <2>3, <3>1, Stutters
  <2> QED BY <1>14, <2>2, <2>3 DEF RespondPoll
<1>15. CASE RespondSend(id)
  <2>1. UNCHANGED <<finished, disconnected>> /\ task[id] = "send" /\ PhaseMap[id] = "returned"
    BY <1>0, <1>15, Phases DEF RespondSend
  <2>2. CASE Goto(id, "committing") /\ cancelled' = cancelled \cup {id}
    <3>1. UNCHANGED <<PhaseMap, ReportMap>>
      BY <1>7, <2>1, <2>2, Phases
    <3> QED BY <1>6, <2>1, <2>2, <3>1
  <2>3. CASE Goto(id, "respond") /\ cancelled' = cancelled
    <3>1. UNCHANGED <<PhaseMap, ReportMap>>
      BY <1>7, <2>1, <2>3, Phases
    <3> QED BY <1>1, <2>1, <2>3, <3>1, Stutters
  <2>4. CASE Goto(id, "uncommitted") /\ cancelled' = cancelled
    <3>1. id \notin DeliveredMap
      BY <1>3, <2>1 DEF Unanswered
    <3> QED BY <1>5, <1>7, <2>1, <2>4, <3>1, Phases
  <2> QED BY <1>15, <2>2, <2>3, <2>4 DEF RespondSend
<1>16. CASE CommitAcked(id)
  <2>1. UNCHANGED <<finished, cancelled, disconnected>> /\ task[id] = "committing" /\ acks[id] = "ok"
        /\ PhaseMap[id] = "returned"
    BY <1>0, <1>16, Phases DEF CommitAcked
  <2>2. CASE resp[id] = "app"
    <3>1. Goto(id, "committed")
      BY <1>16, <2>2 DEF CommitAcked
    <3>2. id \in DeliveredMap
      BY <2>1, <2>2 DEF Inv, CommitInv, DeliveredMap
    <3>3. /\ PhaseMap' = [PhaseMap EXCEPT ![id] = "reporting"]
          /\ ReportMap' = [ReportMap EXCEPT ![id] = "committed"]
      BY <1>7, <2>1, <3>1, Phases
    <3>4. Contract!Confirm(id)
      BY <1>1, <2>1, <3>2, <3>3
      DEF Contract!Confirm, Contract!Move, PhaseMap, ReportMap, DeliveredMap
    <3> QED BY <3>4 DEF Contract!ContractNext
  <2>3. CASE resp[id] # "app"
    <3>1. Goto(id, "uncommitted") /\ id \notin DeliveredMap
      BY <1>3, <1>16, <2>3 DEF CommitAcked
    <3> QED BY <1>5, <1>7, <2>1, <3>1, Phases
  <2> QED BY <2>2, <2>3
<1>17. CASE CommitLost(id)
  <2>1. UNCHANGED <<finished, cancelled>> /\ task[id] = "committing" /\ acks[id] # "ok"
        /\ PhaseMap[id] = "returned" /\ Goto(id, "uncommitted") /\ disconnected' = TRUE
    BY <1>0, <1>17, Phases DEF CommitLost
  <2>2. id \notin DeliveredMap
    BY <1>3, <2>1
  <2> QED BY <1>5, <1>7, <2>1, <2>2, Phases
<1>18. CASE Finish(id)
  <2>1. /\ UNCHANGED <<cancelled, disconnected>> /\ task[id] \in {"committed", "uncommitted"}
        /\ PhaseMap[id] = "reporting" /\ Goto(id, "done")
        /\ finished' = [finished EXCEPT ![id] = task[id]]
    BY <1>0, <1>18, Phases DEF Finish
  <2>2. PhaseMap' = [PhaseMap EXCEPT ![id] = "finished"]
    BY <1>0, <2>1, PhaseMoves, Phases
  <2>3. UNCHANGED ReportMap
    BY <1>0, <2>1 DEF ReportMap, ReportOf, Goto
  <2>4. Contract!Finish(id)
    BY <1>1, <2>1, <2>2, <2>3
    DEF Contract!Finish, Contract!Move, PhaseMap, ReportMap, DeliveredMap
  <2> QED BY <2>4 DEF Contract!ContractNext
<1> QED
  BY <1>8, <1>9, <1>10, <1>11, <1>12, <1>13, <1>14, <1>15, <1>16, <1>17, <1>18 DEF CallMoves

\* Only the teardown closes a session.
LEMMA OpenStays ==
  ASSUME TypeOK, ReleaseInv, [Next]_vars, ~Closing, ~CancelAll PROVE ~Closing'
<1>0. /\ loop \notin {"aborting", "releasing", "closing", "done"} /\ reply.kind # "shutdown"
      /\ loop \in {"initializing", "sending", "awaiting"} => reply \in Replies
  BY DEF Closing, TypeOK
<1> USE <1>0 DEF Closing
<1>1. CASE Writer \/ \E id \in Ids : Expire(id)
  BY <1>1 DEF Writer, WriterTake, WriterWrites, WriterFails, WriterDrained, WriterCloses,
              Expire, loopVars
<1>2. CASE CommitDone \/ CommitFails
  <2>1. /\ reply' = NoReply /\ loop \in {"sending", "awaiting"}
        /\ loop' = "select" \/ loop' \in {reply.ok, reply.err} \ {"ready"}
    BY <1>2 DEF CommitDone, CommitFails, Continue
  <2>2. reply \in Replies /\ reply.kind = "oob"
    BY <2>1 DEF Replies
  <2>3. loop' \in {"select", "teardown"}
    BY <2>1, <2>2 DEF ReleaseInv, Replies, Continuations
  <2> QED BY <2>1, <2>3 DEF NoReply
<1>3. CASE CommitSend \/ LoopSelect
  BY <1>3 DEF CommitSend, LoopSelect, LoopPolls, LoopWakes, LoopDisconnected, LoopDeadline,
     LoopDrained, LoopJoinFails, LeaveLoop
<1>4. CASE SessionOver \/ UNCHANGED vars
  BY <1>4 DEF SessionOver, vars, loopVars
<1>5. ASSUME NEW id \in Ids, CallMoves(id) PROVE ~Closing'
  BY <1>5, CallMovesAreLive DEF loopVars
<1>6. CASE Initialize
  BY <1>6 DEF Initialize, InitializeSucceeds, InitializeFails, StartCommit, NoReply
<1>7. CASE ReadFrame
  <2>1. ReadEnds \/ ReadInitialize \/ ReadCall \/ ReadCancel \/ ReadShutdown => ~Closing'
    BY DEF ReadEnds, LeaveLoop, ReadInitialize, ReadCall, ReadCancel, ReadShutdown
  <2>2. ReadViolation \/ ReadDiscover \/ ReadReject => ~Closing'
    BY DEF ReadViolation, ReadDiscover, ReadReject, StartCommit
  <2> QED BY <1>7, <2>1, <2>2 DEF ReadFrame
<1>8. ~(JoinAll \/ Release \/ ServeReturns)
  BY DEF JoinAll, Release, ServeReturns
<1> QED
  BY <1>1, <1>2, <1>3, <1>4, <1>5, <1>6, <1>7, <1>8
  DEF Next, Commit, Teardown, HandlerSteps, CallSteps, CallMoves

\* Every step of serve(), the writer and the calls is a step of the contract,
\* or invisible to the application.
LEMMA StepMaps ==
  ASSUME Inv, RefInv, [Next]_vars
  PROVE  Contract!ContractNext \/ UNCHANGED Contract!contractVars
<1>0. /\ task \in [Ids -> TaskStates] /\ inflight \subseteq Ids /\ slots \subseteq Ids
      /\ finished \in [Ids -> {"none", "committed", "uncommitted"}]
      /\ lastSeen \in Nat /\ Ids \subseteq Nat /\ MaxInFlight \in Nat
  BY BoundsAssumption DEF Inv, TypeOK, Ids
<1>1. /\ Closing => Closing'
      /\ ~CancelAll => Closing' = Closing
  <2>1. Closing \in BOOLEAN /\ Closing' \in BOOLEAN
    BY DEF Closing
  <2> QED BY <2>1, ClosingStays, OpenStays DEF Inv
<1>2. (UNCHANGED <<task, finished>> => UNCHANGED <<PhaseMap, ReportMap>>)
      /\ (UNCHANGED written => UNCHANGED DeliveredMap)
  BY DEF PhaseMap, ReportMap, ReportOf, DeliveredMap, Wrote
<1>3. CASE ReadCall
  <2>1. PICK c \in Ids : /\ c > lastSeen /\ Goto(c, "running")
    BY <1>3 DEF ReadCall, FreshRequest, Goto
  <2>2. /\ task[c] = "none" /\ loop = "reading" /\ reply.kind # "shutdown"
        /\ UNCHANGED <<finished, written, cancelled, disconnected, released>>
    BY <1>0, <1>3, <2>1 DEF ReadCall, FreshRequest, SeenInv, Inv, ReleaseInv, writerVars
  <2>3. PhaseMap[c] = "idle" /\ PhaseMap' = [PhaseMap EXCEPT ![c] = "handling"]
    BY <1>0, <2>1, <2>2, PhaseMoves, Phases DEF PhaseMap, HandlerRunning
  <2>4. UNCHANGED ReportMap /\ ~Closing /\ ~CancelAll
    BY <1>0, <2>1, <2>2 DEF ReportMap, ReportOf, Goto, Closing, CancelAll
  <2>5. Cardinality({i \in Ids : PhaseMap[i] = "handling"}) < MaxInFlight
    <3> DEFINE H == {i \in Ids : PhaseMap[i] = "handling"}
    <3>1. \A s \in TaskStates : PhaseOf(s) = "handling" => s \in HandlerRunning
      BY Phases DEF TaskStates, Ended
    <3>2. H \subseteq slots
      BY <1>0, <3>1 DEF PhaseMap, Inv, SlotInv, OwnsPermit
    <3>3. Cardinality(H) <= Cardinality(slots) /\ Cardinality(H) \in Nat /\ Cardinality(slots) \in Nat
      BY <1>0, <3>2, FewerSlots
    <3>4. Cardinality(slots) < MaxInFlight
      BY <1>3 DEF ReadCall
    <3>5. Cardinality(H) < MaxInFlight
      <4> HIDE DEF H
      <4> QED BY <1>0, <3>3, <3>4
    <3> QED BY <3>5
  <2>6. Contract!Start(c)
    <3>1. UNCHANGED <<ReportMap, DeliveredMap, cancelled, disconnected, Closing, released>>
      BY <1>1, <1>2, <2>2, <2>4
    <3>2. Cardinality({i \in Ids : [id \in Ids |-> PhaseOf(task[id])][i] = "handling"})
            < MaxInFlight
      BY <2>5 DEF PhaseMap
    \* The contract's instance brings its own copy of FiniteSets.
    <3>3. \A S : Contract!Cardinality(S) = Cardinality(S)
      BY DEF Contract!Cardinality, Cardinality
    <3> QED
      BY <2>3, <2>4, <3>1, <3>2, <3>3
      DEF Contract!Start, Contract!Move, PhaseMap, ReportMap, DeliveredMap
  <2> QED BY <2>6 DEF Contract!ContractNext
\* A registered call has been accepted and is not finished.
<1>4. \A id \in Ids : id \in inflight <=> PhaseMap[id] \in {"handling", "returned", "reporting", "lost"}
  <2>1. \A s \in TaskStates : s \notin {"none", "done"} <=>
           PhaseOf(s) \in {"handling", "returned", "reporting", "lost"}
    BY Phases DEF TaskStates, Ended
  <2> QED BY <1>0, <2>1 DEF RefInv, TableInv, PhaseMap
<1>5. CASE ReadCancel
  <2>1. PICK id \in inflight : cancelled' = cancelled \cup {id}
    BY <1>5 DEF ReadCancel
  <2>2. UNCHANGED <<task, finished, written, disconnected, released>> /\ ~CancelAll
    BY <1>5 DEF ReadCancel, writerVars, CancelAll
  <2>3. id \in Ids /\ PhaseMap[id] \in {"handling", "returned", "reporting", "lost"}
    BY <1>0, <1>4, <2>1
  <2>4. Contract!Cancel(id)
    BY <1>1, <1>2, <2>1, <2>2, <2>3
    DEF Contract!Cancel, Contract!Open, PhaseMap, ReportMap, DeliveredMap
  <2> QED BY <2>3, <2>4 DEF Contract!ContractNext
<1>6. CASE CancelAll
  <2>1. /\ UNCHANGED <<task, finished, written, disconnected, released>>
        /\ cancelled' = cancelled \cup inflight /\ ~Closing /\ Closing'
    BY <1>6 DEF CancelAll, writerVars, Closing, Inv, ReleaseInv
  <2>2. inflight = {id \in Ids : PhaseMap[id] \in {"handling", "returned", "reporting", "lost"}}
    BY <1>0, <1>4
  <2>3. Closing' = TRUE
    BY <2>1 DEF Closing
  <2>4. Contract!Close
    BY <1>2, <2>1, <2>2, <2>3
    DEF Contract!Close, Contract!Open, PhaseMap, ReportMap, DeliveredMap
  <2> QED BY <2>4 DEF Contract!ContractNext
<1>7. CASE Release
  <2>1. /\ UNCHANGED <<task, finished, written, disconnected, cancelled>>
        /\ released' = initialized /\ loop = "releasing" /\ ~CancelAll
    BY <1>7 DEF Release, writerVars, callVars, CancelAll
  <2>2. CASE initialized
    <3>1. \A id \in Ids : ~Live(id)
      BY <2>1 DEF Inv, ReleaseInv
    <3>2. \A id \in Ids : PhaseMap[id] \notin {"handling", "returned", "reporting"}
      BY <1>0, <3>1, Phases DEF Live, Ended, PhaseMap
    <3>3. Closing /\ released' = TRUE
      BY <2>1, <2>2 DEF Closing, Inv, TypeOK
    <3>4. Contract!Release
      BY <1>1, <1>2, <2>1, <3>2, <3>3
      DEF Contract!Release, Contract!Open, PhaseMap, ReportMap, DeliveredMap
    <3> QED BY <3>4 DEF Contract!ContractNext
  <2>3. CASE ~initialized
    <3>1. reply.kind # "shutdown"
      BY <2>1 DEF Inv, ReleaseInv
    <3>2. released = FALSE /\ released' = FALSE
      BY <2>1, <2>3, <3>1 DEF Inv, ReleaseInv, TypeOK
    <3> QED BY <1>1, <1>2, <2>1, <3>2, Stutters
  <2> QED BY <2>2, <2>3
<1>8. CASE WriterFails
  <2>1. /\ UNCHANGED <<task, finished, written, cancelled, released>> /\ disconnected' = TRUE
        /\ Closing' = Closing
    BY <1>8 DEF WriterFails, callVars, loopVars, Closing
  <2>2. Contract!Break
    BY <1>2, <2>1 DEF Contract!Break, PhaseMap, ReportMap, DeliveredMap
  <2> QED BY <2>2 DEF Contract!ContractNext
<1>9. CASE WriterWrites
  <2>1. /\ UNCHANGED <<task, finished, cancelled, released, disconnected>> /\ Closing' = Closing
        /\ written' = written \cup {[id |-> current.id, kind |-> current.kind]}
    BY <1>9 DEF WriterWrites, callVars, loopVars, Closing
  <2>2. CASE current.kind # "app"
    <3>1. UNCHANGED DeliveredMap
      BY <2>1, <2>2 DEF DeliveredMap, Wrote
    <3> QED BY <1>2, <2>1, <3>1, Stutters
  <2>3. CASE current.kind = "app"
    <3> DEFINE id == current.id
    <3>1. id \in Ids /\ acks[id] = "none"
      BY <2>3 DEF RefInv, AckInv, Inv, CommitInv, FrameInv
    <3>2. id \notin DeliveredMap
      BY <3>1 DEF DeliveredMap, RefInv, DeliveryInv
    <3>3. DeliveredMap' = DeliveredMap \cup {id}
      BY <2>1, <2>3, <3>1 DEF DeliveredMap, Wrote
    <3>4. \/ PhaseMap[id] = "returned"
          \/ PhaseMap[id] \in {"reporting", "finished"} /\ ReportMap[id] = "uncommitted" /\ disconnected
          \/ PhaseMap[id] = "lost" /\ Closing
      BY <2>3, <3>1, Phases DEF RefInv, DeliveryInv, Undelivered, PhaseMap, ReportMap, ReportOf
    <3> HIDE DEF id
    <3>5. Contract!Deliver(id)
      BY <1>2, <2>1, <3>2, <3>3, <3>4 DEF Contract!Deliver, PhaseMap, ReportMap, DeliveredMap
    <3> QED BY <3>1, <3>5 DEF Contract!ContractNext
  <2> QED BY <2>2, <2>3
<1>10. CASE Quiet /\ ~ReadCancel /\ ~CancelAll /\ ~Release
  <2>1. UNCHANGED <<task, finished, written>>
    BY <1>10, QuietStep DEF coreVars
  <2>2. UNCHANGED <<cancelled, disconnected, released>>
    BY <1>10 DEF Quiet, CommitDone, Continue, LoopSelect, LoopPolls, LoopWakes,
     LoopDisconnected, LoopDeadline, LoopDrained, LoopJoinFails, LeaveLoop, Initialize,
     InitializeSucceeds, InitializeFails, ReadEnds, ReadViolation, ReadDiscover,
     ReadInitialize, ReadReject, ReadShutdown, JoinAll,
     ServeReturns, WriterDrained, Expire, SessionOver, vars, callVars, loopVars
  <2> QED BY <1>1, <1>2, <1>10, <2>1, <2>2, Stutters
<1>11. CASE CommitSend \/ CommitFails \/ WriterTake \/ WriterCloses
  <2>1. UNCHANGED <<task, finished, written, cancelled, disconnected, released>>
    BY <1>11 DEF CommitSend, CommitFails, Continue, WriterTake, WriterCloses, callVars, loopVars
  <2>2. ~CancelAll \/ Closing' = Closing
    BY <1>11 DEF CommitSend, CommitFails, WriterTake, WriterCloses, CancelAll, loopVars, Closing
  <2> QED BY <1>1, <1>2, <2>1, <2>2, Stutters
<1>12. ASSUME NEW id \in Ids, CallMoves(id)
       PROVE  Contract!ContractNext \/ UNCHANGED Contract!contractVars
  BY <1>12, CallMovesMap
<1> QED
  BY <1>3, <1>5, <1>6, <1>7, <1>8, <1>9, <1>10, <1>11, <1>12, NextCases

\* The invariant behind the refinement holds throughout a session.
THEOREM RefInvariance == Spec => [](Inv /\ RefInv)
<1>1. Init => RefInv
  <2>1. Init => TableInv
    BY DEF Init, TableInv
  <2>2. Init => AckInv /\ DeliveryInv
    BY DEF Init, AckInv, DeliveryInv, Undelivered, NoFrame, Wrote
  <2> QED BY <2>1, <2>2 DEF RefInv
<1>2. Inv /\ RefInv /\ [Next]_vars => (Inv /\ RefInv)'
  <2>1. Inv /\ RefInv /\ [Next]_vars => TableInv' /\ AckInv'
    BY TableStep, AckStep DEF Inv, RefInv
  <2>2. Inv /\ RefInv /\ [Next]_vars => DeliveryInv'
    BY DeliveryStep DEF Inv
  <2> QED BY <2>1, <2>2, InvStep DEF RefInv
<1> QED BY <1>1, <1>2, InvInit, PTL DEF Spec

\* serve() implements the contract that the application relies on: calls are
\* handed over while a permit is free and the session is open, a commit report
\* means that the peer has the outcome, an outcome that arrives after it was
\* reported lost arrives on a session that is ending, and shutdown() runs last.
THEOREM Refinement == Spec => ImplementsContract
<1>1. Init => Contract!ContractInit
  <2> SUFFICES ASSUME Init PROVE Contract!ContractInit
    OBVIOUS
  <2>1. PhaseMap = [id \in Ids |-> "idle"]
    BY Phases DEF Init, PhaseMap
  <2>2. ReportMap = [id \in Ids |-> "none"]
    BY DEF Init, ReportMap, ReportOf
  <2>3. DeliveredMap = {} /\ Closing = FALSE
    BY DEF Init, DeliveredMap, Wrote, Closing, NoReply
  <2> QED
    BY <2>1, <2>2, <2>3 DEF Contract!ContractInit, PhaseMap, ReportMap, DeliveredMap, Init
<1>2. Inv /\ RefInv /\ [Next]_vars => [Contract!ContractNext]_(Contract!contractVars)
  BY StepMaps
<1> QED BY <1>1, <1>2, RefInvariance, PTL DEF Spec, ImplementsContract, Contract!ContractSpec
============================================================================
