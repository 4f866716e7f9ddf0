----------------------- MODULE ClientDispatcherProofs -----------------------
(***************************************************************************)
(* What holds of the client dispatcher for every set of senders, every     *)
(* queue capacity and every number of requests, disconnections and stops.  *)
(***************************************************************************)
EXTENDS ClientDispatcher, TLAPS

(* Steps that need arithmetic, sequences or functions say SMTT. *)
USE ZenonT(60)

(* What Push (Append) and Pop (Tail) do to a sequence, index by index. *)
LEMMA AppendProperties ==
    ASSUME NEW S, NEW q \in Seq(S), NEW x \in S
    PROVE  /\ Append(q, x) \in Seq(S)
           /\ Len(Append(q, x)) = Len(q) + 1
           /\ \A k \in 1..Len(q) : Append(q, x)[k] = q[k]
           /\ Append(q, x)[Len(q) + 1] = x
    BY SMTT(30)

LEMMA PopProperties ==
    ASSUME NEW S, NEW q \in Seq(S)
    PROVE  /\ Pop(q) \in Seq(S)
           /\ Len(Pop(q)) <= Len(q)
           /\ \A k \in 1..Len(Pop(q)) : k + 1 \in 1..Len(q) /\ Pop(q)[k] = q[k + 1]
    BY SMTT(30) DEF Pop

LEMMA PeekProperties ==
    ASSUME NEW S, NEW q \in Seq(S), ~IsEmpty(q)
    PROVE  Peek(q) = q[1] /\ 1 \in 1..Len(q) /\ Peek(q) \in S
    BY SMTT(30) DEF Peek, IsEmpty

-----------------------------------------------------------------------------
(* A goroutine that moves to one of its own labels keeps the labels right. *)
LEMMA StepKeepsLabels ==
    ASSUME PcOK, NEW g, NEW from, NEW to, Step(g, from, to),
           \/ g \in Senders /\ to \in SenderLabels
           \/ g = "pump" /\ to \in PumpLabels
           \/ g = "reader" /\ to \in ReaderLabels
           \/ g = "pauser" /\ to \in PauserLabels
           \/ g = "resumer" /\ to \in ResumerLabels
           \/ g = "owner" /\ to \in OwnerLabels
    PROVE  PcOK'
<1>1. pc' \in [Senders \cup Services -> Labels]
  BY DEF PcOK, Step, Services, Labels
<1> QED
  BY <1>1, SendersAssumption DEF PcOK, Step, Services

LEMMA LabelsInvariant == TypeOK /\ [Next]_vars => PcOK'
<1> SUFFICES ASSUME PcOK, [Next]_vars PROVE PcOK'
  BY DEF TypeOK
<1> USE DEF SenderLabels, PumpLabels, ReaderLabels, PauserLabels,
        ResumerLabels, OwnerLabels
<1>1. CASE Connect
  BY <1>1, StepKeepsLabels DEF Connect
<1>2. CASE Start
  <2>1. pc' \in [Senders \cup Services -> Labels]
    BY <1>2 DEF Start, PcOK, Services, Labels
  <2> QED
    BY <1>2, <2>1, SendersAssumption DEF Start, PcOK, Services
<1>3. CASE StopLink \/ StopWait \/ Stop
  BY <1>3, StepKeepsLabels DEF StopLink, StopWait, Stop, LockWait, Lock
<1>4. ASSUME NEW s \in Senders, SendRequest(s) PROVE PcOK'
  BY <1>4, StepKeepsLabels
     DEF SendRequest, SendCheck, SendPush, SendLock, SendSignal
<1>5. ASSUME NEW p \in Completers, CompleteRequest(p) PROVE PcOK'
  BY <1>5 DEF CompleteRequest, CompletePeek, CompletePop, CompleteDelete,
              CompleteReady, PcOK
<1>6. ASSUME NEW id \in Ids, Receive(id) PROVE PcOK'
  BY <1>6, StepKeepsLabels DEF Receive
<1>7. CASE Deliver
  BY <1>7, StepKeepsLabels DEF Deliver
<1>8. CASE messagePump
  <2>1. \E from, to \in PumpLabels : Step("pump", from, to)
    BY <1>8 DEF messagePump, PumpStep, PumpLoop, PumpOnRequest, PumpOnReady,
       PumpOnClosed, PumpExit, PumpOnTimer, TimeoutCheck, TimeoutPeek,
       TimeoutCancel, TimeoutRearm, PumpPaused, PumpCheck, DispatchPeek,
       DispatchAdd, DispatchWrite, DispatchCancel, TimerStop, TimerDrain,
       TimerReset
  <2> QED
    BY <2>1, StepKeepsLabels
<1>9. CASE TimerExpires \/ UNCHANGED vars
  BY <1>9 DEF TimerExpires, vars, PcOK
<1>10. CASE LinkLost \/ Pause
  BY <1>10, StepKeepsLabels
     DEF LinkLost, Pause, PauseWait, PauseLock, PauseDrain, PauseReset, LockWait, Lock
<1>11. CASE LinkRestored \/ Resume
  BY <1>11, StepKeepsLabels
     DEF LinkRestored, Resume, ResumeWait, ResumeLock, ResumeCheck, ResumeReset,
         ResumeReady, LockWait, Lock
<1> QED
  BY <1>1, <1>2, <1>3, <1>4, <1>5, <1>6, <1>7, <1>8, <1>9, <1>10, <1>11
     DEF Next

LEMMA FlagsInvariant == TypeOK /\ [Next]_vars => FlagsOK'
<1> SUFFICES ASSUME FlagsOK, [Next]_vars PROVE FlagsOK'
  BY DEF TypeOK
<1> USE DEF FlagsOK, data, coreVars, timerVars
<1>1. CASE Connect \/ Start \/ StopLink \/ StopWait \/ Stop
  BY <1>1 DEF Connect, Start, StopLink, StopWait, Stop, LockWait
<1>2. ASSUME NEW s \in Senders, SendRequest(s) PROVE FlagsOK'
  BY <1>2 DEF SendRequest, SendCheck, SendPush, SendLock, SendSignal
<1>3. ASSUME NEW p \in Completers, CompleteRequest(p) PROVE FlagsOK'
  BY <1>3 DEF CompleteRequest, CompletePeek, CompletePop, CompleteDelete,
                     CompleteReady
<1>4. ASSUME NEW id \in Ids, Receive(id) PROVE FlagsOK'
  BY <1>4 DEF Receive
<1>5. CASE messagePump
  <2>1. CASE \/ PumpLoop \/ PumpOnRequest \/ PumpOnReady \/ PumpOnClosed
             \/ PumpExit \/ PumpOnTimer \/ TimeoutCheck
    BY <2>1 DEF PumpLoop, PumpOnRequest, PumpOnReady, PumpOnClosed,
                       PumpExit, PumpOnTimer, TimeoutCheck
  <2>2. CASE \/ TimeoutPeek \/ TimeoutCancel \/ TimeoutRearm \/ PumpPaused
             \/ PumpCheck
    BY <2>2 DEF TimeoutPeek, TimeoutCancel, TimeoutRearm, PumpPaused,
                       PumpCheck
  <2>3. CASE \/ DispatchPeek \/ DispatchAdd \/ DispatchWrite \/ DispatchCancel
             \/ TimerStop \/ TimerDrain \/ TimerReset
    BY <2>3 DEF DispatchPeek, DispatchAdd, DispatchWrite, DispatchCancel,
                       TimerStop, TimerDrain, TimerReset
  <2> QED
    BY <1>5, <2>1, <2>2, <2>3 DEF messagePump
<1>6. CASE TimerExpires \/ Deliver \/ UNCHANGED vars
  BY <1>6 DEF TimerExpires, Deliver, vars
<1>7. CASE LinkLost \/ Pause
  BY <1>7 DEF LinkLost, Pause, PauseWait, PauseLock, PauseDrain, PauseReset,
              LockWait, Lock
<1>8. CASE LinkRestored \/ Resume
  BY <1>8
     DEF LinkRestored, Resume, ResumeWait, ResumeLock, ResumeCheck,
         ResumeReset, ResumeReady, LockWait
<1> QED
  BY <1>1, <1>2, <1>3, <1>4, <1>5, <1>6, <1>7, <1>8 DEF Next

LEMMA DataInvariant == TypeOK /\ [Next]_vars => DataOK'
<1> SUFFICES ASSUME DataOK, [Next]_vars PROVE DataOK'
  BY DEF TypeOK
<1> USE NoneAssumption, CapacityAssumption, BoundsAssumption
    DEF DataOK, Completers, Ids, data, coreVars, queueVars, chanVars,
        timerVars, callVars, worldVars, eventVars, envVars
<1>1. CASE Connect
  BY <1>1 DEF Connect
<1>2. CASE Start
  BY <1>2 DEF Start
<1>3. CASE StopLink
  BY <1>3, SMTT(30) DEF StopLink
<1>4. CASE StopWait \/ Stop
  BY <1>4 DEF StopWait, Stop, LockWait
<1>5. CASE PumpLoop
  BY <1>5, SMTT(30) DEF PumpLoop
<1>6. CASE PumpOnRequest
  BY <1>6 DEF PumpOnRequest
<1>7. CASE PumpOnReady
  BY <1>7, SMTT(30) DEF PumpOnReady
<1>8. CASE PumpOnClosed
  BY <1>8, SMTT(30) DEF PumpOnClosed, EmptyQueue
<1>9. CASE PumpExit
  BY <1>9 DEF PumpExit
<1>10. CASE PumpOnTimer
  BY <1>10, SMTT(30) DEF PumpOnTimer
<1>11. CASE TimeoutCheck
  BY <1>11, SMTT(30) DEF TimeoutCheck
<1>12. CASE TimeoutPeek
  BY <1>12, SMTT(30) DEF TimeoutPeek, Peek, IsEmpty
<1>13. CASE TimeoutCancel
  BY <1>13 DEF TimeoutCancel
<1>14. CASE TimeoutRearm
  BY <1>14 DEF TimeoutRearm
<1>15. CASE PumpPaused
  BY <1>15, SMTT(30) DEF PumpPaused
<1>16. CASE PumpCheck
  BY <1>16, SMTT(30) DEF PumpCheck
<1>17. CASE DispatchPeek
  BY <1>17, SMTT(30) DEF DispatchPeek, Peek, IsEmpty
<1>18. CASE DispatchAdd
  BY <1>18, SMTT(30) DEF DispatchAdd, AddPendingRequest
<1>19. CASE DispatchWrite
  <2>1. bundle["pump"] \in Nat \cup {None}
    OBVIOUS
  <2>2. sent' \in Seq(Nat \cup {None})
    <3>1. Append(sent, bundle["pump"]) \in Seq(Nat \cup {None})
      BY <2>1, AppendProperties
    <3> QED
      BY <1>19, <3>1 DEF DispatchWrite
  <2>3. atPeer' \subseteq Nat \cup {None}
    BY <1>19, <2>1 DEF DispatchWrite
  <2>4. completing' \in [Completers -> {"no", "peek", "pop", "delete", "ready"}]
    BY <1>19 DEF DispatchWrite
  <2> QED
    BY <1>19, <2>2, <2>3, <2>4, SMTT(30) DEF DispatchWrite
<1>20. CASE DispatchCancel
  BY <1>20 DEF DispatchCancel
<1>21. CASE TimerStop
  BY <1>21 DEF TimerStop
<1>22. CASE TimerDrain
  BY <1>22, SMTT(30) DEF TimerDrain
<1>23. CASE TimerReset
  BY <1>23 DEF TimerReset
<1>24. CASE TimerExpires
  BY <1>24 DEF TimerExpires
<1>25. CASE Deliver
  BY <1>25 DEF Deliver
<1>26. CASE LinkLost
  BY <1>26, SMTT(30) DEF LinkLost
<1>27. CASE PauseWait \/ PauseLock
  BY <1>27 DEF PauseWait, PauseLock, LockWait
<1>28. CASE PauseDrain
  BY <1>28, SMTT(30) DEF PauseDrain
<1>29. CASE PauseReset
  BY <1>29 DEF PauseReset
<1>30. CASE LinkRestored
  BY <1>30, SMTT(30) DEF LinkRestored
<1>31. CASE ResumeWait \/ ResumeLock
  <2>1. UNCHANGED <<worldVars, chanVars, queueVars, timerVars, callVars, pendingRequest,
                    sent>>
    BY <1>31 DEF ResumeWait, ResumeLock, LockWait
  <2> QED
    BY <2>1
<1>32. CASE ResumeCheck
  BY <1>32, SMTT(30) DEF ResumeCheck
<1>33. CASE ResumeReset
  BY <1>33 DEF ResumeReset
<1>34. CASE ResumeReady
  BY <1>34, SMTT(30) DEF ResumeReady
<1>35. ASSUME NEW s \in Senders, SendCheck(s) PROVE DataOK'
  BY <1>35, SMTT(30) DEF SendCheck
<1>36. ASSUME NEW s \in Senders, SendPush(s) PROVE DataOK'
  <2>1. CASE IsFull(requestQueue, QueueCapacity)
    BY <1>36, <2>1, SMTT(30) DEF SendPush
  <2>2. CASE ~IsFull(requestQueue, QueueCapacity)
    <3>1. nextId' \in Nat /\ requestQueue' = Append(requestQueue, nextId + 1)
      BY <1>36, <2>2, SMTT(30) DEF SendPush, Push
    <3>2. requestQueue' \in Seq(Nat) /\ Len(requestQueue') = Len(requestQueue) + 1
      BY <3>1, AppendProperties, SMTT(30)
    <3>3. QueueCapacity > 0 => Len(requestQueue') <= QueueCapacity
      BY <2>2, <3>2, SMTT(30) DEF IsFull
    <3> QED
      BY <1>36, <3>1, <3>2, <3>3, SMTT(30) DEF SendPush
  <2> QED
    BY <2>1, <2>2
<1>37. ASSUME NEW s \in Senders, SendLock(s) PROVE DataOK'
  BY <1>37, SMTT(30) DEF SendLock
<1>38. ASSUME NEW s \in Senders, SendSignal(s) PROVE DataOK'
  BY <1>38, SMTT(30) DEF SendSignal
<1>39. ASSUME NEW p \in Completers, CompletePeek(p) PROVE DataOK'
  BY <1>39, SMTT(30) DEF CompletePeek
<1>40. ASSUME NEW p \in Completers, CompletePop(p) PROVE DataOK'
  BY <1>40, PopProperties, SMTT(30) DEF CompletePop
<1>41. ASSUME NEW p \in Completers, CompleteDelete(p) PROVE DataOK'
  BY <1>41, SMTT(30) DEF CompleteDelete, DeletePendingRequest
<1>42. ASSUME NEW p \in Completers, CompleteReady(p) PROVE DataOK'
  BY <1>42, SMTT(30) DEF CompleteReady
<1>43. ASSUME NEW id \in Ids, Receive(id) PROVE DataOK'
  BY <1>43, SMTT(30) DEF Receive
<1>44. CASE UNCHANGED vars
  BY <1>44, SMTT(30) DEF vars
<1> QED
  BY <1>1, <1>2, <1>3, <1>4, <1>5, <1>6, <1>7, <1>8, <1>9, <1>10, <1>11,
        <1>12, <1>13, <1>14, <1>15, <1>16, <1>17, <1>18, <1>19, <1>20, <1>21,
        <1>22, <1>23, <1>24, <1>25, <1>26, <1>27, <1>28, <1>29, <1>30, <1>31,
        <1>32, <1>33, <1>34, <1>35, <1>36, <1>37, <1>38, <1>39, <1>40, <1>41,
        <1>42, <1>43, <1>44
     DEF Next, messagePump, SendRequest, CompleteRequest, Pause, Resume

LEMMA InitTypeOK == Init => TypeOK
<1>1. Init => PcOK
  BY SendersAssumption, SMTT(30)
     DEF Init, PcOK, Services, Labels, SenderLabels, PumpLabels,
         ReaderLabels, PauserLabels, ResumerLabels, OwnerLabels
<1>2. Init => FlagsOK
  BY DEF Init, FlagsOK
<1>3. Init => DataOK
  BY CapacityAssumption, SMTT(30) DEF Init, DataOK, EmptyQueue, Completers
<1> QED
  BY <1>1, <1>2, <1>3 DEF TypeOK

(* Every state the dispatcher reaches is of its type: no channel holds more *)
(* than its capacity, nor does the request queue.                           *)
THEOREM TypeCorrect == Spec => []TypeOK
<1>1. TypeOK /\ [Next]_vars => TypeOK'
  BY LabelsInvariant, FlagsInvariant, DataInvariant DEF TypeOK
<1> QED
  BY <1>1, InitTypeOK, PTL DEF Spec

-----------------------------------------------------------------------------
(* Why requests leave in order: the queue is sorted, what was transmitted   *)
(* is no later than what is queued, and the request the pump holds between  *)
(* Peek and Write lies in between.                                          *)
QueueSorted ==
    /\ \A k \in 1..Len(requestQueue) : requestQueue[k] <= nextId
    /\ \A k, l \in 1..Len(requestQueue) : k < l => requestQueue[k] < requestQueue[l]

SentFirst ==
    \A i \in 1..Len(sent) :
        /\ sent[i] \in Nat /\ sent[i] <= nextId
        /\ \A k \in 1..Len(requestQueue) : sent[i] <= requestQueue[k]

Holding == pc["pump"] \in {"add", "write"} /\ ~crashed

HeldBetween ==
    Holding =>
        /\ bundle["pump"] \in Nat /\ bundle["pump"] <= nextId
        /\ \A i \in 1..Len(sent) : sent[i] <= bundle["pump"]
        /\ \A k \in 1..Len(requestQueue) : bundle["pump"] <= requestQueue[k]

Order == QueueSorted /\ SentFirst /\ HeldBetween /\ TransmitInOrder

LEMMA OrderUndisturbed ==
    ASSUME Order, UNCHANGED <<requestQueue, nextId, sent>>,
           Holding' => Holding /\ bundle'["pump"] = bundle["pump"]
    PROVE  Order'
    BY DEF Order, QueueSorted, SentFirst, HeldBetween, TransmitInOrder

(* No goroutine but the pump moves the pump or its request. *)
LEMMA OthersLeavePump ==
    ASSUME TypeOK,
           \/ Connect \/ StopLink \/ StopWait \/ Stop \/ TimerExpires \/ Deliver
           \/ LinkLost \/ Pause \/ LinkRestored \/ Resume
           \/ \E s \in Senders : SendRequest(s)
           \/ \E id \in Ids : Receive(id)
           \/ \E p \in Completers : CompleteRequest(p)
    PROVE  pc'["pump"] = pc["pump"] /\ bundle'["pump"] = bundle["pump"]
<1> USE DEF TypeOK, PcOK, DataOK, Services, Completers, data, coreVars,
        callVars, Step
<1>1. CASE \/ Connect \/ StopLink \/ StopWait \/ Stop \/ TimerExpires \/ Deliver
  BY <1>1 DEF Connect, StopLink, StopWait, Stop, LockWait, Lock, TimerExpires, Deliver
<1>2. CASE LinkLost \/ Pause
  BY <1>2 DEF LinkLost, Pause, PauseWait, PauseLock, PauseDrain, PauseReset,
              LockWait, Lock
<1>3. CASE LinkRestored \/ Resume
  BY <1>3 DEF LinkRestored, Resume, ResumeWait, ResumeLock, ResumeCheck,
              ResumeReset, ResumeReady, LockWait, Lock
<1>4. ASSUME NEW s \in Senders, SendRequest(s)
      PROVE  pc'["pump"] = pc["pump"] /\ bundle'["pump"] = bundle["pump"]
  BY <1>4, SendersAssumption, SMTT(30)
     DEF SendRequest, SendCheck, SendPush, SendLock, SendSignal
<1>5. ASSUME NEW id \in Ids, Receive(id)
      PROVE  pc'["pump"] = pc["pump"] /\ bundle'["pump"] = bundle["pump"]
  BY <1>5 DEF Receive
<1>6. ASSUME NEW p \in Completers, CompleteRequest(p)
      PROVE  pc'["pump"] = pc["pump"] /\ bundle'["pump"] = bundle["pump"]
  BY <1>6 DEF CompleteRequest, CompletePeek, CompletePop, CompleteDelete,
              CompleteReady
<1> QED
  BY <1>1, <1>2, <1>3, <1>4, <1>5, <1>6

LEMMA OrderInvariant == TypeOK /\ Order /\ [Next]_vars => Order'
<1> SUFFICES ASSUME TypeOK, Order, Next PROVE Order'
  <2>1. CASE UNCHANGED vars
    BY <2>1, OrderUndisturbed
       DEF vars, data, coreVars, queueVars, callVars, Holding
  <2> QED
    BY <2>1
<1> ~crashed
  BY DEF Next
<1> USE DEF data, coreVars, queueVars, callVars, Holding
<1>1. CASE \/ Connect \/ StopLink \/ StopWait \/ Stop \/ TimerExpires \/ Deliver
           \/ LinkLost \/ LinkRestored
  <2>1. UNCHANGED <<requestQueue, nextId, sent>>
    BY <1>1 DEF Connect, StopLink, StopWait, Stop, LockWait, Lock, TimerExpires, Deliver, LinkLost,
                LinkRestored
  <2> QED
    BY <1>1, <2>1, OthersLeavePump, OrderUndisturbed
<1>2. CASE Pause \/ Resume
  <2>1. UNCHANGED <<requestQueue, nextId, sent>>
    BY <1>2 DEF Pause, PauseWait, PauseLock, PauseDrain, PauseReset, LockWait, Resume,
                ResumeWait, ResumeLock, ResumeCheck, ResumeReset, ResumeReady
  <2> QED
    BY <1>2, <2>1, OthersLeavePump, OrderUndisturbed
<1>3. ASSUME NEW id \in Ids, Receive(id) PROVE Order'
  <2>1. UNCHANGED <<requestQueue, nextId, sent>>
    BY <1>3 DEF Receive
  <2> QED
    BY <1>3, <2>1, OthersLeavePump, OrderUndisturbed
<1>4. CASE Start
  <2>1. UNCHANGED <<requestQueue, nextId, sent>> /\ ~Holding'
    BY <1>4 DEF Start, TypeOK, PcOK, Services
  <2> QED
    BY <2>1, OrderUndisturbed
<1>5. ASSUME NEW s \in Senders, SendRequest(s) PROVE Order'
  <2>1. pc'["pump"] = pc["pump"] /\ bundle'["pump"] = bundle["pump"]
    BY <1>5, OthersLeavePump
  <2>2. CASE UNCHANGED <<requestQueue, nextId, sent>>
    BY <2>1, <2>2, OrderUndisturbed
  <2>3. CASE /\ requestQueue' = Append(requestQueue, nextId + 1)
             /\ nextId' = nextId + 1 /\ sent' = sent
    <3>1. /\ requestQueue' \in Seq(Nat)
          /\ Len(requestQueue') = Len(requestQueue) + 1
          /\ \A k \in 1..Len(requestQueue) : requestQueue'[k] = requestQueue[k]
          /\ requestQueue'[Len(requestQueue) + 1] = nextId + 1
      BY <2>3, AppendProperties, SMTT(30) DEF TypeOK, DataOK
    <3> USE DEF Order, TypeOK, DataOK
    <3>2. QueueSorted'
      <4>1. /\ Len(requestQueue) \in Nat /\ nextId \in Nat
            /\ \A k \in 1..Len(requestQueue) : requestQueue[k] \in Nat
        BY SMTT(30)
      <4>2. \A k \in 1..Len(requestQueue') :
               k \in 1..Len(requestQueue) \/ k = Len(requestQueue) + 1
        BY <3>1, <4>1, SMTT(30)
      <4>3. QueueSorted
        OBVIOUS
      <4> HIDE DEF Order, TypeOK, DataOK
      <4>4. \A k \in 1..Len(requestQueue') : requestQueue'[k] <= nextId'
        BY <2>3, <3>1, <4>1, <4>2, <4>3, SMTT(30) DEF QueueSorted
      <4>5. \A k, l \in 1..Len(requestQueue') : k < l => requestQueue'[k] < requestQueue'[l]
        <5> SUFFICES ASSUME NEW k \in 1..Len(requestQueue'), NEW l \in 1..Len(requestQueue'),
                            k < l
                     PROVE  requestQueue'[k] < requestQueue'[l]
          OBVIOUS
        <5>1. k \in 1..Len(requestQueue)
          BY <3>1, <4>1, <4>2, SMTT(30)
        <5>2. CASE l \in 1..Len(requestQueue)
          BY <3>1, <4>3, <5>1, <5>2 DEF QueueSorted
        <5>3. CASE l = Len(requestQueue) + 1
          <6>1. requestQueue[k] <= nextId /\ requestQueue[k] \in Nat
            BY <4>1, <4>3, <5>1 DEF QueueSorted
          <6> QED
            BY <3>1, <4>1, <5>1, <5>3, <6>1, SMTT(30)
        <5> QED
          BY <4>2, <5>2, <5>3
      <4> QED
        BY <4>4, <4>5 DEF QueueSorted
    <3>3. SentFirst'
      BY <2>3, <3>1, SMTT(30) DEF SentFirst
    <3>4. HeldBetween'
      BY <2>1, <2>3, <3>1, SMTT(30) DEF HeldBetween
    <3> QED
      BY <2>3, <3>2, <3>3, <3>4 DEF TransmitInOrder
  <2> QED
    BY <1>5, <2>2, <2>3
       DEF SendRequest, SendCheck, SendPush, SendLock, SendSignal, Push
<1>6. ASSUME NEW p \in Completers, CompleteRequest(p) PROVE Order'
  <2>1. pc'["pump"] = pc["pump"] /\ bundle'["pump"] = bundle["pump"]
    BY <1>6, OthersLeavePump
  <2>2. CASE UNCHANGED <<requestQueue, nextId, sent>>
    BY <2>1, <2>2, OrderUndisturbed
  <2>3. CASE requestQueue' = Pop(requestQueue) /\ UNCHANGED <<nextId, sent>>
    <3>1. \A k \in 1..Len(requestQueue') :
             /\ k + 1 \in 1..Len(requestQueue)
             /\ requestQueue'[k] = requestQueue[k + 1]
      BY <2>3, PopProperties DEF TypeOK, DataOK
    <3>2. QueueSorted'
      <4>1. \A k \in 1..Len(requestQueue') : requestQueue'[k] <= nextId'
        BY <2>3, <3>1 DEF Order, QueueSorted
      <4>2. \A k, l \in 1..Len(requestQueue') : k < l => k + 1 < l + 1
        BY SMTT(30)
      <4>3. \A k, l \in 1..Len(requestQueue') : k < l => requestQueue'[k] < requestQueue'[l]
        BY <3>1, <4>2 DEF Order, QueueSorted
      <4> QED
        BY <4>1, <4>3 DEF QueueSorted
    <3>3. SentFirst'
      BY <2>3, <3>1 DEF Order, SentFirst
    <3>4. HeldBetween'
      BY <2>1, <2>3, <3>1 DEF Order, HeldBetween, Holding
    <3> QED
      BY <2>3, <3>2, <3>3, <3>4 DEF Order, TransmitInOrder
  <2> QED
    BY <1>6, <2>2, <2>3
       DEF CompleteRequest, CompletePeek, CompletePop, CompleteDelete,
           CompleteReady
<1>7. CASE messagePump
  <2> USE DEF PumpStep, Step
  <2>1. CASE PumpOnClosed
    <3>1. requestQueue' = <<>> /\ UNCHANGED <<nextId, sent>> /\ ~Holding'
      BY <2>1 DEF PumpOnClosed, EmptyQueue, TypeOK, PcOK, Services
    <3> QED
      BY <3>1, SMTT(30) DEF Order, QueueSorted, SentFirst, HeldBetween, TransmitInOrder
  <2>2. CASE DispatchPeek
    <3>1. UNCHANGED <<requestQueue, nextId, sent>>
      BY <2>2 DEF DispatchPeek
    <3>2. CASE IsEmpty(requestQueue)
      BY <2>2, <3>1, <3>2, OrderUndisturbed DEF DispatchPeek
    <3>3. CASE ~IsEmpty(requestQueue)
      <4>1. bundle'["pump"] = Peek(requestQueue)
        BY <2>2, <3>3 DEF DispatchPeek, TypeOK, DataOK, Completers
      <4>2. /\ bundle'["pump"] = requestQueue[1] /\ 1 \in 1..Len(requestQueue)
            /\ bundle'["pump"] \in Nat
        BY <3>3, <4>1, PeekProperties, SMTT(30) DEF TypeOK, DataOK
      <4>3. HeldBetween'
        BY <3>1, <4>2, SMTT(30) DEF Order, HeldBetween, QueueSorted, SentFirst, TypeOK, DataOK
      <4> QED
        BY <3>1, <4>3 DEF Order, QueueSorted, SentFirst, TransmitInOrder
    <3> QED
      BY <3>2, <3>3
  <2>3. CASE DispatchAdd
    <3>1. UNCHANGED <<requestQueue, nextId, sent>> /\ Holding /\ bundle' = bundle
      BY <2>3 DEF DispatchAdd
    <3> QED
      BY <3>1, OrderUndisturbed
  <2>4. CASE DispatchWrite
    <3>1. /\ UNCHANGED <<requestQueue, nextId, bundle>> /\ Holding /\ ~Holding'
          /\ sent' = sent \/ sent' = Append(sent, bundle["pump"])
      BY <2>4 DEF DispatchWrite, TypeOK, PcOK, Services
    <3>2. CASE sent' = sent
      BY <3>1, <3>2, OrderUndisturbed
    <3>3. CASE sent' = Append(sent, bundle["pump"])
      <4>1. /\ Len(sent') = Len(sent) + 1
            /\ \A i \in 1..Len(sent) : sent'[i] = sent[i]
            /\ sent'[Len(sent) + 1] = bundle["pump"]
            /\ Len(sent) \in Nat
        <5>1. bundle["pump"] \in Nat \cup {None} /\ sent \in Seq(Nat \cup {None})
          BY DEF TypeOK, DataOK, Completers
        <5> QED
          BY <3>3, <5>1, AppendProperties, SMTT(30)
      <4>2. SentFirst'
        BY <3>1, <4>1, SMTT(30) DEF Order, SentFirst, HeldBetween
      <4>3. TransmitInOrder'
        <5>1. \A i \in 1..Len(sent) : sent[i] <= bundle["pump"]
          BY <3>1 DEF Order, HeldBetween
        <5>2. \A i, j \in 1..Len(sent) : i < j => sent[i] <= sent[j]
          BY DEF Order, TransmitInOrder
        <5> SUFFICES ASSUME NEW i \in 1..Len(sent'), NEW j \in 1..Len(sent'), i < j
                     PROVE  sent'[i] <= sent'[j]
          BY DEF TransmitInOrder
        <5>3. i \in 1..Len(sent) /\ (j \in 1..Len(sent) \/ j = Len(sent) + 1)
          BY <4>1, SMTT(30)
        <5> QED
          BY <4>1, <5>1, <5>2, <5>3
      <4> QED
        BY <3>1, <4>2, <4>3 DEF Order, QueueSorted, HeldBetween
    <3> QED
      BY <3>1, <3>2, <3>3
  <2>5. CASE \/ PumpLoop \/ PumpOnRequest \/ PumpOnReady \/ PumpExit
             \/ PumpOnTimer \/ TimeoutCheck \/ TimeoutPeek \/ TimeoutCancel
             \/ TimeoutRearm \/ PumpPaused \/ PumpCheck \/ DispatchCancel
             \/ TimerStop \/ TimerDrain \/ TimerReset
    <3>1. UNCHANGED <<requestQueue, nextId, sent>>
      BY <2>5 DEF PumpLoop, PumpOnRequest, PumpOnReady, PumpExit, PumpOnTimer,
         TimeoutCheck, TimeoutPeek, TimeoutCancel, TimeoutRearm, PumpPaused,
         PumpCheck, DispatchCancel, TimerStop, TimerDrain, TimerReset
    <3>2. ~Holding'
      BY <2>5 DEF PumpLoop, PumpOnRequest, PumpOnReady, PumpExit, PumpOnTimer,
         TimeoutCheck, TimeoutPeek, TimeoutCancel, TimeoutRearm, PumpPaused,
         PumpCheck, DispatchCancel, TimerStop, TimerDrain, TimerReset,
         TypeOK, PcOK, Services
    <3> QED
      BY <3>1, <3>2, OrderUndisturbed
  <2> QED
    BY <1>7, <2>1, <2>2, <2>3, <2>4, <2>5 DEF messagePump
<1> QED
  BY <1>1, <1>2, <1>3, <1>4, <1>5, <1>6, <1>7 DEF Next

LEMMA InitOrder == Init => Order
  BY SMTT(30) DEF Init, Order, QueueSorted, SentFirst, HeldBetween, Holding,
         TransmitInOrder, EmptyQueue, Services

(* Requests reach the websocket in the order SendRequest queued them,       *)
(* through any number of timeouts, disconnections, failed writes and        *)
(* restarts, and for any number of senders.                                 *)
THEOREM RequestsInOrder == Spec => []TransmitInOrder
<1>1. Order => TransmitInOrder
  BY DEF Order
<1> QED
  BY <1>1, InitOrder, OrderInvariant, TypeCorrect, PTL DEF Spec

-----------------------------------------------------------------------------
(***************************************************************************)
(* What the dispatcher guarantees in QuietSpec: the link stays up, nobody  *)
(* calls Stop, and the pump is not in its timer branch while an answer is  *)
(* being handled.                                                          *)
(***************************************************************************)

(* The parts of the environment QuietNext never wakes up. *)
Stable ==
    /\ ~crashed /\ ~paused
    /\ pc["pauser"] = "idle" /\ pc["resumer"] = "idle"
    /\ pc["owner"] \notin {"stopping", "lock"}
    /\ requestChannel # "closed"
    /\ pc["pump"] \notin {"exit", "fail"}

(* Before Start nothing has happened; afterwards the link is up. *)
NotStarted ==
    /\ pc["pump"] = "done" => /\ requestChannel = "nil"
                              /\ pendingRequest = None /\ ready = 0
                              /\ pc["reader"] = "idle"
                              /\ \A s \in Senders : pc[s] = "idle"
                              /\ atPeer = {}
    /\ pc["pump"] # "done" => link = "up"
    /\ pc["owner"] = "idle" <=> pc["pump"] # "done"
    /\ pc["owner"] = "starting" => link = "up"

(* Who may be inside CompleteRequest, and what they know there. *)
Exclusion ==
    /\ completing["pump"] # "no" => pc["pump"] = "cancel"
    /\ completing["reader"] # "no" => pc["reader"] = "deliver"
    /\ pc["reader"] = "deliver" => ~TimeoutUnderway
    /\ \A p \in Completers :
          /\ completing[p] \in {"peek", "pop", "delete"} =>
                pendingRequest # None /\ pendingRequest = bundle[p]
          /\ completing[p] = "ready" => pendingRequest = None

(* A request that was popped is not queued again. *)
Popped ==
    \A p \in Completers : completing[p] = "delete" =>
        bundle[p] <= nextId /\ ~Queued(bundle[p])

(* The pending request is the front of the queue until it is popped. *)
PendingInFront ==
    \/ pendingRequest = None
    \/ \E p \in Completers : completing[p] = "delete"
    \/ requestQueue # <<>> /\ requestQueue[1] = pendingRequest

(* What the pump knows between its test of rdy and the Write. *)
Dispatching ==
    /\ pc["pump"] \in {"peek", "add"} => rdy /\ requestQueue # <<>>
    /\ pc["pump"] = "add" => bundle["pump"] = requestQueue[1]
    /\ pc["pump"] = "write" => /\ completing["reader"] = "no"
                               /\ bundle["pump"] = pendingRequest
                               /\ pendingRequest # None
    /\ pc["pump"] = "timedout" => pendingRequest # None

(* A transmitted request that is still queued is the pending one, it is     *)
(* transmitted once, and only transmitted requests are answered.            *)
SentOnce ==
    /\ \A i \in 1..Len(sent) : Queued(sent[i]) =>
          pendingRequest = sent[i] /\ pc["pump"] # "write"
    /\ \A i, j \in 1..Len(sent) : i < j => sent[i] < sent[j]
    /\ \A id \in atPeer : Transmitted(id)

QuietInv ==
    /\ Stable /\ NotStarted /\ Exclusion /\ Popped /\ PendingInFront
    /\ Dispatching /\ SentOnce /\ OnePermit

(* How the queue grows and shrinks, in one step of the dispatcher. *)
LEMMA PushFacts ==
    ASSUME TypeOK, requestQueue' = Push(requestQueue, nextId + 1)
    PROVE  /\ requestQueue' # <<>>
           /\ requestQueue # <<>> => requestQueue'[1] = requestQueue[1]
           /\ \A id : id # nextId + 1 => (Queued(id)' <=> Queued(id))
<1>1. requestQueue \in Seq(Nat) /\ nextId + 1 \in Nat
  BY SMTT(30) DEF TypeOK, DataOK
<1>2. /\ requestQueue' \in Seq(Nat) /\ Len(requestQueue') = Len(requestQueue) + 1
      /\ \A k \in 1..Len(requestQueue) : requestQueue'[k] = requestQueue[k]
      /\ requestQueue'[Len(requestQueue) + 1] = nextId + 1
  BY <1>1, AppendProperties, SMTT(30) DEF Push
<1> DEFINE n == Len(requestQueue)
           n1 == Len(requestQueue')
<1>3. n \in Nat /\ n1 = n + 1
  BY <1>1, <1>2, SMTT(30)
<1>4. \A id : id # nextId + 1 => (Queued(id)' <=> Queued(id))
  <2> HIDE DEF n, n1
  <2> SUFFICES ASSUME NEW id, id # nextId + 1 PROVE Queued(id)' <=> Queued(id)
    OBVIOUS
  <2>1. ASSUME Queued(id) PROVE Queued(id)'
    <3>1. PICK k \in 1..n : requestQueue[k] = id
      BY <2>1 DEF Queued, n
    <3>2. k \in 1..n1
      BY <1>3, <3>1, SMTT(30)
    <3>3. requestQueue'[k] = id
      BY <1>2, <3>1 DEF n
    <3> QED
      BY <3>2, <3>3 DEF Queued, n1
  <2>2. ASSUME Queued(id)' PROVE Queued(id)
    <3>1. PICK k \in 1..n1 : requestQueue'[k] = id
      BY <2>2 DEF Queued, n1
    <3>2. k \in 1..n \/ k = n + 1
      BY <1>3, <3>1, SMTT(30)
    <3> QED
      BY <1>2, <3>1, <3>2 DEF Queued, n
  <2> QED
    BY <2>1, <2>2
<1> QED
  BY <1>1, <1>2, <1>3, <1>4, SMTT(30)

LEMMA PopFacts ==
    ASSUME TypeOK, Order, requestQueue # <<>>, requestQueue' = Pop(requestQueue)
    PROVE  /\ \A id : Queued(id)' => Queued(id)
           /\ requestQueue[1] <= nextId
           /\ \A id : id = requestQueue[1] => ~Queued(id)'
<1>1. requestQueue \in Seq(Nat) /\ nextId \in Nat
  BY DEF TypeOK, DataOK
<1>2. \A k \in 1..Len(requestQueue') :
         k + 1 \in 1..Len(requestQueue) /\ requestQueue'[k] = requestQueue[k + 1]
  BY <1>1, PopProperties
<1>3. 1 \in 1..Len(requestQueue) /\ requestQueue[1] \in Nat
  BY <1>1, SMTT(30)
<1>4. \A k \in 1..Len(requestQueue') : requestQueue[1] < requestQueue'[k]
  BY <1>1, <1>2, <1>3, SMTT(30) DEF Order, QueueSorted
<1>5. \A id : Queued(id)' => Queued(id)
  BY <1>2 DEF Queued
<1>6. \A id : id = requestQueue[1] => ~Queued(id)'
  BY <1>1, <1>3, <1>4, SMTT(30) DEF Queued
<1> QED
  BY <1>3, <1>5, <1>6 DEF Order, QueueSorted

(* What is at the front of the queue and was not transmitted is later than  *)
(* all that was.                                                            *)
LEMMA FrontIsNew ==
    ASSUME TypeOK, Order, requestQueue # <<>>,
           \A i \in 1..Len(sent) : ~Queued(sent[i])
    PROVE  \A i \in 1..Len(sent) : sent[i] < requestQueue[1]
<1>1. 1 \in 1..Len(requestQueue) /\ requestQueue[1] \in Nat
  BY SMTT(30) DEF TypeOK, DataOK
<1> QED
  BY <1>1, SMTT(30) DEF Order, SentFirst, Queued

(* The places of the pump at which it knows nothing about a request. *)
Neutral == {"loop", "select", "timeout", "rearm", "paused", "check", "stop", "drain", "reset"}

(* A step in which only a sender moves, or the pump to such a place. *)
LEMMA QuietUndisturbed ==
    ASSUME QuietInv, completing["pump"] = "no" \/ pc'["pump"] = pc["pump"],
           UNCHANGED <<requestQueue, pendingRequest, requestChannel, paused, crashed,
                       rdy, ready, completing, bundle, link, nextId, sent, atPeer>>,
           \A g \in {"reader", "pauser", "resumer", "owner"} : pc'[g] = pc[g],
           \/ pc'["pump"] = pc["pump"]
           \/ pc["pump"] # "done" /\ pc'["pump"] \in Neutral,
           pc'["pump"] = "done" => \A s \in Senders : pc'[s] = "idle",
           pc["reader"] = "deliver" => ~TimeoutUnderway'
    PROVE  QuietInv'
<1> USE DEF QuietInv, Neutral
<1>1. Stable' /\ NotStarted' /\ OnePermit'
  BY DEF Stable, NotStarted, OnePermit, InFlight
<1>2. Exclusion' /\ Dispatching'
  BY DEF Exclusion, Dispatching, TimeoutUnderway
<1>3. Popped' /\ PendingInFront'
  BY DEF Popped, PendingInFront, Queued
<1>4. SentOnce'
  BY DEF SentOnce, Queued, Transmitted
<1> QED
  BY <1>1, <1>2, <1>3, <1>4

(* Each step of the environment and of the dispatcher keeps QuietInv. *)
LEMMA QuietStep ==
    ASSUME TypeOK, Order, QuietInv, QuietNext PROVE QuietInv'
<1> USE DEF data, coreVars, queueVars, chanVars, timerVars, callVars, worldVars,
        eventVars, envVars
<1>0. /\ pc \in [Senders \cup Services -> Labels] /\ Services \subseteq Senders \cup Services
      /\ \A s \in Senders : s \notin Services
      /\ completing \in [Completers -> {"no", "peek", "pop", "delete", "ready"}]
      /\ bundle \in [Completers -> Nat \cup {None}]
      /\ nextId \in Nat /\ ready \in {0, 1} /\ requestQueue \in Seq(Nat)
      /\ sent \in Seq(Nat \cup {None})
  BY SendersAssumption DEF TypeOK, PcOK, DataOK
<1>1. CASE Connect
  <2>1. /\ UNCHANGED <<requestQueue, pendingRequest, requestChannel, paused, crashed,
                       rdy, ready, completing, bundle, nextId, sent, atPeer>>
        /\ \A g \in (Senders \cup Services) \ {"owner"} : pc'[g] = pc[g]
        /\ pc["pump"] = "done" /\ pc'["owner"] = "starting" /\ link' = "up"
    BY <1>0, <1>1 DEF Connect, Step, Services
  <2>2. Stable' /\ NotStarted' /\ OnePermit'
    BY <1>0, <2>1, SMTT(30) DEF QuietInv, Stable, NotStarted, OnePermit, InFlight, Services
  <2>3. Exclusion' /\ Dispatching'
    BY <1>0, <2>1 DEF QuietInv, Exclusion, Dispatching, TimeoutUnderway, Services
  <2>4. Popped' /\ PendingInFront' /\ SentOnce'
    BY <1>0, <2>1, SMTT(30)
       DEF QuietInv, Popped, PendingInFront, SentOnce, Queued, Transmitted, Services
  <2> QED
    BY <2>2, <2>3, <2>4 DEF QuietInv
<1>2. CASE Start
  <2>1. /\ UNCHANGED <<requestQueue, pendingRequest, paused, crashed, ready, completing,
                       bundle, link, nextId, sent, atPeer>>
        /\ \A g \in (Senders \cup Services) \ {"owner", "pump"} : pc'[g] = pc[g]
        /\ pc["owner"] = "starting" /\ pc["pump"] = "done"
        /\ pc'["owner"] = "idle" /\ pc'["pump"] = "loop"
        /\ requestChannel' = "open" /\ rdy'
    BY <1>0, <1>2 DEF Start, Services, QuietInv, NotStarted
  <2>2. /\ \A p \in Completers : completing[p] = "no"
        /\ pendingRequest = None /\ ready = 0
    BY <2>1 DEF QuietInv, NotStarted, Exclusion, Completers
  <2>3. Stable' /\ NotStarted' /\ OnePermit'
    BY <1>0, <2>1, <2>2, SMTT(30) DEF QuietInv, Stable, NotStarted, OnePermit, InFlight, Services
  <2>4. Exclusion' /\ Dispatching'
    BY <1>0, <2>1, <2>2 DEF QuietInv, Exclusion, Dispatching, TimeoutUnderway, Services
  <2>5. Popped' /\ PendingInFront' /\ SentOnce'
    BY <1>0, <2>1, <2>2, SMTT(30)
       DEF QuietInv, Popped, PendingInFront, SentOnce, Queued, Transmitted, Services
  <2> QED
    BY <2>3, <2>4, <2>5 DEF QuietInv
<1>3. CASE TimerExpires
  BY <1>3, QuietUndisturbed
     DEF TimerExpires, QuietInv, NotStarted, Exclusion, TimeoutUnderway
<1>4. CASE Deliver
  <2>1. /\ UNCHANGED <<requestQueue, pendingRequest, requestChannel, paused, crashed,
                       rdy, ready, completing, bundle, link, nextId, sent, atPeer>>
        /\ \A g \in (Senders \cup Services) \ {"reader"} : pc'[g] = pc[g]
        /\ pc'["reader"] = "idle" /\ completing["reader"] = "no"
    BY <1>0, <1>4 DEF Deliver, Step, Services
  <2>2. Stable' /\ NotStarted' /\ OnePermit'
    BY <1>0, <2>1 DEF QuietInv, Stable, NotStarted, OnePermit, InFlight, Services
  <2>3. Exclusion' /\ Dispatching'
    BY <1>0, <2>1 DEF QuietInv, Exclusion, Dispatching, TimeoutUnderway, Services
  <2>4. Popped' /\ PendingInFront' /\ SentOnce'
    BY <1>0, <2>1, SMTT(30)
       DEF QuietInv, Popped, PendingInFront, SentOnce, Queued, Transmitted, Services
  <2> QED
    BY <2>2, <2>3, <2>4 DEF QuietInv
<1>5. CASE PumpLoop \/ PumpOnRequest \/ TimeoutCancel \/ TimeoutRearm \/ PumpPaused
  <2> USE DEF PumpStep, Step, Services, Neutral
  <2>1. CASE PumpLoop
    BY <1>0, <2>1, QuietUndisturbed DEF PumpLoop, TimeoutUnderway
  <2>2. CASE PumpOnRequest
    BY <1>0, <2>2, QuietUndisturbed DEF PumpOnRequest, TimeoutUnderway
  <2>3. CASE TimeoutCancel
    BY <1>0, <2>3, QuietUndisturbed
       DEF TimeoutCancel, TimeoutUnderway, QuietInv, Exclusion
  <2>4. CASE TimeoutRearm
    BY <1>0, <2>4, QuietUndisturbed DEF TimeoutRearm, TimeoutUnderway
  <2>5. CASE PumpPaused
    BY <1>0, <2>5, QuietUndisturbed DEF PumpPaused, TimeoutUnderway, QuietInv, Stable
  <2> QED
    BY <1>5, <2>1, <2>2, <2>3, <2>4, <2>5
<1>6. CASE TimerStop \/ TimerDrain \/ TimerReset
  BY <1>0, <1>6, QuietUndisturbed, SMTT(30)
     DEF TimerStop, TimerDrain, TimerReset, PumpStep, Step, Services, Neutral,
         TimeoutUnderway
<1>7. CASE PumpOnReady
  <2>1. /\ UNCHANGED <<requestQueue, pendingRequest, requestChannel, paused, crashed,
                       completing, bundle, link, nextId, sent, atPeer>>
        /\ \A g \in (Senders \cup Services) \ {"pump"} : pc'[g] = pc[g]
        /\ pc["pump"] = "select" /\ pc'["pump"] = "paused" /\ completing["pump"] = "no"
        /\ ready = 1 /\ ready' = 0 /\ rdy'
    BY <1>0, <1>7 DEF PumpOnReady, PumpStep, Step, Services
  <2>2. Stable' /\ NotStarted'
    BY <1>0, <2>1 DEF QuietInv, Stable, NotStarted, Services
  <2>3. Exclusion' /\ Dispatching' /\ OnePermit'
    BY <1>0, <2>1, SMTT(30)
       DEF QuietInv, Exclusion, Dispatching, TimeoutUnderway, OnePermit, InFlight, Services
  <2>4. Popped' /\ PendingInFront' /\ SentOnce'
    BY <2>1 DEF QuietInv, Popped, PendingInFront, SentOnce, Queued, Transmitted
  <2> QED
    BY <2>2, <2>3, <2>4 DEF QuietInv
<1>8. CASE PumpOnTimer /\ PumpApart
  <2>1. pc'["pump"] = "timeout" /\ pc["reader"] = "idle"
    BY <1>0, <1>8 DEF PumpOnTimer, PumpApart, PumpStep, Step, Services
  <2> QED
    BY <1>0, <1>8, <2>1, QuietUndisturbed DEF PumpOnTimer, PumpStep, Step, Services, Neutral
<1>9. CASE TimeoutCheck
  <2>1. /\ UNCHANGED data
        /\ \A g \in (Senders \cup Services) \ {"pump"} : pc'[g] = pc[g]
        /\ pc["pump"] = "timeout" /\ completing["pump"] = "no"
        /\ \/ pc'["pump"] = "timedout" /\ pendingRequest # None
           \/ pc'["pump"] = "rearm"
    BY <1>0, <1>9 DEF TimeoutCheck, PumpStep, Step, Services, HasPendingRequest
  <2>2. Stable' /\ NotStarted' /\ OnePermit'
    BY <1>0, <2>1 DEF QuietInv, Stable, NotStarted, OnePermit, InFlight, Services
  <2>3. Exclusion' /\ Dispatching'
    BY <1>0, <2>1 DEF QuietInv, Exclusion, Dispatching, TimeoutUnderway, Services
  <2>4. Popped' /\ PendingInFront' /\ SentOnce'
    BY <2>1 DEF QuietInv, Popped, PendingInFront, SentOnce, Queued, Transmitted
  <2> QED
    BY <2>2, <2>3, <2>4 DEF QuietInv
<1>10. CASE TimeoutPeek
  <2>1. /\ pc["pump"] = "timedout" /\ pc["reader"] # "deliver" /\ pendingRequest # None
        /\ \A p \in Completers : completing[p] = "no"
    BY <1>10
       DEF TimeoutPeek, PumpStep, Step, QuietInv, Exclusion, Dispatching,
           TimeoutUnderway, Completers
  <2>2. requestQueue # <<>> /\ requestQueue[1] = pendingRequest
    BY <2>1 DEF QuietInv, PendingInFront
  <2>3. /\ UNCHANGED <<requestQueue, pendingRequest, requestChannel, paused, crashed,
                       rdy, ready, link, nextId, sent, atPeer>>
        /\ \A g \in (Senders \cup Services) \ {"pump"} : pc'[g] = pc[g]
        /\ pc'["pump"] = "cancel" /\ bundle'["pump"] = pendingRequest
        /\ completing'["pump"] = "peek" /\ completing'["reader"] = "no"
    BY <1>0, <1>10, <2>1, <2>2, SMTT(30)
       DEF TimeoutPeek, PumpStep, Step, IsEmpty, Peek, Services, Completers
  <2>4. Stable' /\ NotStarted' /\ OnePermit'
    BY <1>0, <2>1, <2>3
       DEF QuietInv, Stable, NotStarted, OnePermit, InFlight, Services, Completers
  <2>5. Exclusion' /\ Dispatching'
    BY <1>0, <2>1, <2>3
       DEF QuietInv, Exclusion, Dispatching, TimeoutUnderway, Services, Completers
  <2>6. Popped' /\ PendingInFront'
    BY <2>2, <2>3 DEF Popped, PendingInFront, Completers
  <2>7. SentOnce'
    BY <2>1, <2>3 DEF QuietInv, SentOnce, Queued, Transmitted
  <2> QED
    BY <2>4, <2>5, <2>6, <2>7 DEF QuietInv
<1>11. CASE PumpCheck
  <2>1. /\ UNCHANGED data
        /\ \A g \in (Senders \cup Services) \ {"pump"} : pc'[g] = pc[g]
        /\ pc["pump"] = "check" /\ completing["pump"] = "no"
        /\ \/ pc'["pump"] = "peek" /\ rdy /\ requestQueue # <<>>
           \/ pc'["pump"] = "loop"
    BY <1>0, <1>11 DEF PumpCheck, PumpStep, Step, Services, IsEmpty
  <2>2. Stable' /\ NotStarted' /\ OnePermit'
    BY <1>0, <2>1 DEF QuietInv, Stable, NotStarted, OnePermit, InFlight, Services
  <2>3. Exclusion' /\ Dispatching'
    BY <1>0, <2>1 DEF QuietInv, Exclusion, Dispatching, TimeoutUnderway, Services
  <2>4. Popped' /\ PendingInFront' /\ SentOnce'
    BY <2>1 DEF QuietInv, Popped, PendingInFront, SentOnce, Queued, Transmitted
  <2> QED
    BY <2>2, <2>3, <2>4 DEF QuietInv
<1>12. CASE DispatchPeek
  <2>1. pc["pump"] = "peek" /\ rdy /\ requestQueue # <<>> /\ completing["pump"] = "no"
    BY <1>12 DEF DispatchPeek, PumpStep, Step, QuietInv, Dispatching
  <2>2. /\ UNCHANGED <<requestQueue, pendingRequest, requestChannel, paused, crashed,
                       rdy, ready, completing, link, nextId, sent, atPeer>>
        /\ \A g \in (Senders \cup Services) \ {"pump"} : pc'[g] = pc[g]
        /\ pc'["pump"] = "add" /\ bundle'["pump"] = requestQueue[1]
        /\ bundle'["reader"] = bundle["reader"]
    BY <1>0, <1>12, <2>1, SMTT(30)
       DEF DispatchPeek, PumpStep, Step, IsEmpty, Peek, Services, Completers
  <2>3. Stable' /\ NotStarted' /\ OnePermit'
    BY <1>0, <2>1, <2>2 DEF QuietInv, Stable, NotStarted, OnePermit, InFlight, Services
  <2>4. Exclusion' /\ Dispatching'
    BY <1>0, <2>1, <2>2
       DEF QuietInv, Exclusion, Dispatching, TimeoutUnderway, Services, Completers
  <2>5. Popped' /\ PendingInFront'
    BY <2>1, <2>2 DEF QuietInv, Popped, PendingInFront, Queued, Completers
  <2>6. SentOnce'
    BY <2>2 DEF QuietInv, SentOnce, Queued, Transmitted
  <2> QED
    BY <2>3, <2>4, <2>5, <2>6 DEF QuietInv
<1>13. CASE DispatchAdd
  <2>1. /\ pc["pump"] = "add" /\ rdy /\ requestQueue # <<>>
        /\ bundle["pump"] = requestQueue[1] /\ requestQueue[1] \in Nat
    BY <1>0, <1>13, SMTT(30) DEF DispatchAdd, PumpStep, Step, QuietInv, Dispatching
  <2>2. pendingRequest = None /\ \A p \in Completers : completing[p] = "no"
    BY <1>0, <2>1 DEF QuietInv, OnePermit, InFlight, Exclusion, Completers
  <2>3. /\ UNCHANGED <<requestQueue, requestChannel, paused, crashed, ready, completing,
                       bundle, link, nextId, sent, atPeer>>
        /\ \A g \in (Senders \cup Services) \ {"pump"} : pc'[g] = pc[g]
        /\ pc'["pump"] = "write" /\ pendingRequest' = requestQueue[1] /\ rdy' = FALSE
    BY <1>0, <1>13, <2>1, <2>2
       DEF DispatchAdd, PumpStep, Step, AddPendingRequest, Services
  <2>4. Stable' /\ NotStarted' /\ OnePermit'
    BY <1>0, <2>1, <2>2, <2>3, NoneAssumption
       DEF QuietInv, Stable, NotStarted, OnePermit, InFlight, Services
  <2>5. Exclusion' /\ Dispatching'
    BY <1>0, <2>1, <2>2, <2>3, NoneAssumption
       DEF QuietInv, Exclusion, Dispatching, TimeoutUnderway, Services, Completers
  <2>6. Popped' /\ PendingInFront'
    BY <2>1, <2>2, <2>3 DEF Popped, PendingInFront
  <2>7. SentOnce'
    <3>1. \A i \in 1..Len(sent) : ~Queued(sent[i])
      BY <1>0, <2>2, NoneAssumption, SMTT(30) DEF QuietInv, SentOnce, Queued
    <3> QED
      BY <2>3, <3>1 DEF QuietInv, SentOnce, Queued, Transmitted
  <2> QED
    BY <2>4, <2>5, <2>6, <2>7 DEF QuietInv
<1>14. CASE DispatchWrite
  <2>1. /\ pc["pump"] = "write" /\ link = "up" /\ bundle["pump"] = pendingRequest
        /\ pendingRequest # None /\ \A p \in Completers : completing[p] = "no"
    BY <1>14
       DEF DispatchWrite, PumpStep, Step, QuietInv, Dispatching, NotStarted, Completers
  <2>2. requestQueue # <<>> /\ bundle["pump"] = requestQueue[1]
    BY <2>1 DEF QuietInv, PendingInFront
  <2>3. /\ UNCHANGED <<requestQueue, pendingRequest, requestChannel, paused, crashed,
                       rdy, ready, completing, bundle, link, nextId>>
        /\ \A g \in (Senders \cup Services) \ {"pump"} : pc'[g] = pc[g]
        /\ pc'["pump"] = "stop" /\ sent' = Append(sent, bundle["pump"])
        /\ atPeer' = atPeer \cup {bundle["pump"]}
    BY <1>0, <1>14, <2>1 DEF DispatchWrite, PumpStep, Step, Services
  <2>4. Stable' /\ NotStarted' /\ OnePermit'
    BY <1>0, <2>1, <2>3 DEF QuietInv, Stable, NotStarted, OnePermit, InFlight, Services
  <2>5. Exclusion' /\ Dispatching'
    BY <1>0, <2>1, <2>3
       DEF QuietInv, Exclusion, Dispatching, TimeoutUnderway, Services, Completers
  <2>6. Popped' /\ PendingInFront'
    BY <2>1, <2>2, <2>3 DEF Popped, PendingInFront
  <2>7. SentOnce'
    <3>1. bundle["pump"] \in Nat \cup {None}
      BY <1>0 DEF Completers
    <3>2. /\ Len(sent') = Len(sent) + 1 /\ Len(sent) \in Nat
          /\ \A i \in 1..Len(sent) : sent'[i] = sent[i]
          /\ sent'[Len(sent) + 1] = bundle["pump"]
      BY <1>0, <2>3, <3>1, AppendProperties, SMTT(30)
    <3>3. \A i \in 1..Len(sent) : ~Queued(sent[i])
      BY <2>1 DEF QuietInv, SentOnce
    <3>4. \A i \in 1..Len(sent) : sent[i] < bundle["pump"]
      BY <2>2, <3>3, FrontIsNew
    <3>5. \A i \in 1..Len(sent') : i \in 1..Len(sent) \/ i = Len(sent) + 1
      BY <3>2, SMTT(30)
    <3>6. \A i, j \in 1..Len(sent') : i < j => sent'[i] < sent'[j]
      <4>1. \A i, j \in 1..Len(sent) : i < j => sent[i] < sent[j]
        BY DEF QuietInv, SentOnce
      <4> QED
        BY <3>2, <3>4, <3>5, <4>1, SMTT(30)
    <3>7. \A i \in 1..Len(sent') : Queued(sent[i])' =>
             pendingRequest' = sent'[i] /\ pc'["pump"] # "write"
      <4>1. \A i \in 1..Len(sent) : ~Queued(sent[i])'
        BY <2>3, <3>2, <3>3, SMTT(30) DEF Queued
      <4> QED
        BY <1>0, <2>1, <2>3, <3>2, <3>5, <4>1
    <3>8. \A id \in atPeer' : Transmitted(id)'
      BY <1>0, <2>3, <3>2, SMTT(30) DEF QuietInv, SentOnce, Transmitted
    <3> QED
      BY <2>3, <3>6, <3>7, <3>8 DEF SentOnce
  <2> QED
    BY <2>4, <2>5, <2>6, <2>7 DEF QuietInv
<1>15. ASSUME NEW s \in Senders, SendCheck(s) \/ SendLock(s) \/ SendSignal(s)
       PROVE  QuietInv'
  <2>1. pc["pump"] # "done" /\ requestChannel # "closed"
    BY <1>15 DEF SendCheck, SendLock, SendSignal, Step, QuietInv, NotStarted, Stable
  <2>2. /\ UNCHANGED <<requestQueue, pendingRequest, requestChannel, paused, crashed,
                       rdy, ready, completing, bundle, link, nextId, sent, atPeer>>
        /\ \A g \in Services : pc'[g] = pc[g]
    BY <1>0, <1>15, <2>1 DEF SendCheck, SendLock, SendSignal, Step
  <2> QED
    BY <2>1, <2>2, QuietUndisturbed DEF Services, QuietInv, Exclusion, TimeoutUnderway
<1>16. ASSUME NEW s \in Senders, SendPush(s) PROVE QuietInv'
  <2>1. pc["pump"] # "done"
    BY <1>16 DEF SendPush, Step, QuietInv, NotStarted
  <2>2. /\ UNCHANGED <<pendingRequest, requestChannel, paused, crashed,
                       rdy, ready, completing, bundle, link, sent, atPeer>>
        /\ \A g \in Services : pc'[g] = pc[g]
    BY <1>0, <1>16 DEF SendPush, Step
  <2>3. CASE UNCHANGED queueVars
    BY <2>1, <2>2, <2>3, QuietUndisturbed DEF Services, QuietInv, Exclusion, TimeoutUnderway
  <2>4. CASE requestQueue' = Push(requestQueue, nextId + 1) /\ nextId' = nextId + 1
    <3>1. /\ requestQueue' # <<>>
          /\ requestQueue # <<>> => requestQueue'[1] = requestQueue[1]
          /\ \A id : id # nextId + 1 => (Queued(id)' <=> Queued(id))
      BY <2>4, PushFacts
    <3>2. Stable' /\ NotStarted' /\ OnePermit'
      BY <2>1, <2>2 DEF QuietInv, Stable, NotStarted, OnePermit, InFlight, Services
    <3>3. Exclusion' /\ Dispatching'
      BY <2>2, <3>1 DEF QuietInv, Exclusion, Dispatching, TimeoutUnderway, Services
    <3>4. PendingInFront'
      BY <2>2, <3>1 DEF QuietInv, PendingInFront
    <3>5. Popped'
      <4> SUFFICES ASSUME NEW p \in Completers, completing'[p] = "delete"
                   PROVE  bundle'[p] <= nextId' /\ ~Queued(bundle[p])'
        BY DEF Popped
      <4>1. completing[p] = "delete" /\ bundle'[p] = bundle[p]
        BY <2>2
      <4>2. bundle[p] <= nextId /\ ~Queued(bundle[p]) /\ bundle[p] \in Nat
        BY <1>0, <4>1, NoneAssumption DEF QuietInv, Popped, Exclusion, TypeOK, DataOK
      <4>3. bundle[p] # nextId + 1 /\ bundle[p] <= nextId'
        BY <1>0, <2>4, <4>2, SMTT(30)
      <4> QED
        BY <2>2, <3>1, <4>1, <4>2, <4>3
    <3>6. SentOnce'
      <4>1. \A i \in 1..Len(sent) : sent[i] # nextId + 1
        BY <1>0, SMTT(30) DEF Order, SentFirst
      <4>2. \A id : Transmitted(id)' <=> Transmitted(id)
        BY <2>2 DEF Transmitted
      <4>3. \A i \in 1..Len(sent') : Queued(sent[i])' => pendingRequest' = sent'[i]
        BY <2>2, <3>1, <4>1 DEF QuietInv, SentOnce
      <4> QED
        BY <2>2, <3>1, <4>1, <4>2 DEF QuietInv, SentOnce, Services
    <3> QED
      BY <3>2, <3>3, <3>4, <3>5, <3>6 DEF QuietInv
  <2> QED
    BY <1>16, <2>3, <2>4 DEF SendPush
<1>17. ASSUME NEW p \in Completers, CompletePeek(p) PROVE QuietInv'
  <2>1. /\ pendingRequest # None /\ pendingRequest = bundle[p]
        /\ \A q \in Completers : q # p => completing[q] = "no"
    BY <1>17 DEF CompletePeek, QuietInv, Exclusion, TimeoutUnderway, Completers
  <2>2. requestQueue # <<>> /\ requestQueue[1] = bundle[p]
    BY <1>17, <2>1 DEF CompletePeek, QuietInv, PendingInFront
  <2>3. /\ UNCHANGED <<pc, requestQueue, pendingRequest, requestChannel, paused, crashed,
                       rdy, ready, bundle, link, nextId, sent, atPeer>>
        /\ completing'[p] = "pop" /\ completing[p] = "peek"
        /\ \A q \in Completers : q # p => completing'[q] = completing[q]
    BY <1>0, <1>17, <2>2, SMTT(30) DEF CompletePeek, IsEmpty, Peek
  <2>4. Stable' /\ NotStarted' /\ OnePermit'
    BY <2>1, <2>3 DEF QuietInv, Stable, NotStarted, OnePermit, InFlight
  <2>5. Exclusion'
    BY <2>1, <2>3 DEF QuietInv, Exclusion, TimeoutUnderway, Completers
  <2>6. Dispatching' /\ Popped' /\ PendingInFront'
    BY <2>1, <2>2, <2>3
       DEF QuietInv, Exclusion, Dispatching, Popped, PendingInFront, Completers
  <2>7. SentOnce'
    BY <2>3 DEF QuietInv, SentOnce, Queued, Transmitted
  <2> QED
    BY <2>4, <2>5, <2>6, <2>7 DEF QuietInv
<1>18. ASSUME NEW p \in Completers, CompletePop(p) PROVE QuietInv'
  <2>1. /\ pendingRequest # None /\ pendingRequest = bundle[p]
        /\ \A q \in Completers : q # p => completing[q] = "no"
    BY <1>18 DEF CompletePop, QuietInv, Exclusion, TimeoutUnderway, Completers
  <2>2. requestQueue # <<>> /\ requestQueue[1] = bundle[p]
    BY <1>18, <2>1 DEF CompletePop, QuietInv, PendingInFront
  <2>3. /\ \A id : Queued(id)' => Queued(id)
        /\ bundle[p] <= nextId /\ \A id : id = bundle[p] => ~Queued(id)'
    BY <1>18, <2>2, PopFacts DEF CompletePop
  <2>4. /\ UNCHANGED <<pc, pendingRequest, requestChannel, paused, crashed,
                       rdy, ready, bundle, link, nextId, sent, atPeer>>
        /\ completing'[p] = "delete" /\ completing[p] = "pop"
        /\ \A q \in Completers : q # p => completing'[q] = completing[q]
    BY <1>0, <1>18 DEF CompletePop
  <2>5. Stable' /\ NotStarted' /\ OnePermit'
    BY <2>1, <2>4 DEF QuietInv, Stable, NotStarted, OnePermit, InFlight
  <2>6. Exclusion' /\ PendingInFront'
    BY <2>1, <2>4 DEF QuietInv, Exclusion, TimeoutUnderway, PendingInFront, Completers
  <2>7. Dispatching'
    <3>1. pc["pump"] # "write"
      BY <2>1, <2>4 DEF QuietInv, Dispatching, Exclusion, Completers
    <3>2. pc["pump"] \notin {"peek", "add"}
      BY <1>0, <2>1 DEF QuietInv, Dispatching, OnePermit, InFlight
    <3> QED
      BY <2>4, <3>1, <3>2 DEF QuietInv, Dispatching
  <2>8. Popped'
    BY <2>1, <2>3, <2>4 DEF Popped
  <2>9. SentOnce'
    BY <2>3, <2>4 DEF QuietInv, SentOnce, Transmitted
  <2> QED
    BY <2>5, <2>6, <2>7, <2>8, <2>9 DEF QuietInv
<1>19. ASSUME NEW p \in Completers, CompleteDelete(p) PROVE QuietInv'
  <2>1. /\ pendingRequest # None /\ pendingRequest = bundle[p] /\ ~Queued(bundle[p])
        /\ \A q \in Completers : q # p => completing[q] = "no"
    BY <1>19 DEF CompleteDelete, QuietInv, Exclusion, Popped, TimeoutUnderway, Completers
  <2>2. /\ UNCHANGED <<pc, requestQueue, requestChannel, paused, crashed,
                       rdy, ready, bundle, link, nextId, sent, atPeer>>
        /\ completing'[p] = "ready" /\ completing[p] = "delete"
        /\ \A q \in Completers : q # p => completing'[q] = completing[q]
        /\ pendingRequest' = None
    BY <1>0, <1>19, <2>1 DEF CompleteDelete, DeletePendingRequest
  <2>3. Stable' /\ NotStarted' /\ OnePermit'
    BY <2>1, <2>2 DEF QuietInv, Stable, NotStarted, OnePermit, InFlight
  <2>4. Exclusion'
    BY <2>1, <2>2 DEF QuietInv, Exclusion, TimeoutUnderway, Completers
  <2>5. Popped' /\ PendingInFront'
    BY <2>1, <2>2 DEF Popped, PendingInFront
  <2>6. Dispatching'
    <3>1. pc["pump"] \notin {"write", "timedout"}
      BY <2>1, <2>2 DEF QuietInv, Dispatching, Exclusion, TimeoutUnderway, Completers
    <3> QED
      BY <2>2, <3>1 DEF QuietInv, Dispatching
  <2>7. SentOnce'
    <3>1. \A i \in 1..Len(sent) : ~Queued(sent[i])
      BY <2>1 DEF QuietInv, SentOnce
    <3> QED
      BY <2>2, <3>1 DEF QuietInv, SentOnce, Queued, Transmitted
  <2> QED
    BY <2>3, <2>4, <2>5, <2>6, <2>7 DEF QuietInv
<1>20. ASSUME NEW p \in Completers, CompleteReady(p) PROVE QuietInv'
  <2>1. /\ pendingRequest = None
        /\ \A q \in Completers : q # p => completing[q] = "no"
    BY <1>20 DEF CompleteReady, QuietInv, Exclusion, TimeoutUnderway, Completers
  <2>2. /\ UNCHANGED <<pc, requestQueue, pendingRequest, requestChannel, paused, crashed,
                       rdy, bundle, link, nextId, sent, atPeer>>
        /\ completing'[p] = "no" /\ completing[p] = "ready" /\ ready = 0 /\ ready' = 1
        /\ \A q \in Completers : completing'[q] = "no"
    BY <1>0, <1>20, <2>1 DEF CompleteReady
  <2>3. Stable' /\ OnePermit'
    BY <2>1, <2>2 DEF QuietInv, Stable, OnePermit, InFlight
  <2>4. NotStarted'
    BY <2>2 DEF QuietInv, NotStarted, Exclusion, Completers
  <2>5. Exclusion' /\ Dispatching' /\ Popped' /\ PendingInFront'
    BY <2>1, <2>2
       DEF QuietInv, Exclusion, Dispatching, Popped, PendingInFront, TimeoutUnderway,
           Completers
  <2>6. SentOnce'
    BY <2>2 DEF QuietInv, SentOnce, Queued, Transmitted
  <2> QED
    BY <2>3, <2>4, <2>5, <2>6 DEF QuietInv
<1>21. ASSUME NEW id \in Ids, ~TimeoutUnderway, Receive(id) PROVE QuietInv'
  <2>1. /\ UNCHANGED <<requestQueue, pendingRequest, requestChannel, paused, crashed,
                       rdy, ready, link, nextId, sent>>
        /\ \A g \in (Senders \cup Services) \ {"reader"} : pc'[g] = pc[g]
        /\ pc["reader"] = "idle" /\ id \in atPeer /\ atPeer' \subseteq atPeer
        /\ completing'["pump"] = completing["pump"] /\ bundle'["pump"] = bundle["pump"]
    BY <1>0, <1>21 DEF Receive, Step, Services, Completers
  <2>2. /\ completing["reader"] = "no"
        /\ \/ /\ pc'["reader"] = "deliver" /\ completing'["reader"] = "peek"
              /\ bundle'["reader"] = id /\ pendingRequest = id
           \/ /\ pc'["reader"] = "idle" /\ UNCHANGED callVars
    BY <1>0, <1>21, <2>1
       DEF Receive, Step, Services, Completers, GetPendingRequest, QuietInv, Exclusion
  <2>3. id # None
    BY NoneAssumption, BoundsAssumption, SMTT(30) DEF Ids
  <2>4. completing["pump"] = "no" /\ pc["pump"] # "done" /\ pc["pump"] # "cancel"
    BY <1>21, <2>1 DEF QuietInv, Exclusion, NotStarted, TimeoutUnderway
  <2>5. pendingRequest = id => pc["pump"] # "write"
    <3>1. PICK i \in 1..Len(sent) : sent[i] = id
      BY <2>1 DEF QuietInv, SentOnce, Transmitted
    <3> SUFFICES ASSUME pendingRequest = id PROVE pc["pump"] # "write"
      OBVIOUS
    <3>2. requestQueue # <<>> /\ requestQueue[1] = id
      BY <2>2, <2>3, <2>4 DEF QuietInv, PendingInFront, Completers
    <3>3. Queued(id)
      BY <1>0, <3>2, SMTT(30) DEF Queued
    <3> QED
      BY <3>1, <3>3 DEF QuietInv, SentOnce
  <2>6. \A g \in Services \ {"reader"} : pc'[g] = pc[g]
    BY <2>1
  <2>7. Stable' /\ NotStarted'
    BY <2>1, <2>4, <2>6 DEF QuietInv, Stable, NotStarted, Services
  <2>8. Exclusion'
    BY <1>21, <2>1, <2>2, <2>3, <2>4, <2>6
       DEF QuietInv, Exclusion, TimeoutUnderway, Completers, Services, callVars
  <2>9. Dispatching'
    BY <2>1, <2>2, <2>5, <2>6 DEF QuietInv, Dispatching, Services, callVars
  <2>10. \A p \in Completers : /\ completing'[p] = "ready" <=> completing[p] = "ready"
                               /\ completing'[p] = "delete" <=> completing[p] = "delete"
    BY <2>1, <2>2 DEF Completers, callVars
  <2>11. OnePermit'
    BY <2>1, <2>10 DEF QuietInv, OnePermit, InFlight
  <2>12. Popped' /\ PendingInFront'
    BY <2>1, <2>2, <2>4, <2>10
       DEF QuietInv, Popped, PendingInFront, Queued, Completers, callVars
  <2>13. SentOnce'
    BY <2>1, <2>6 DEF QuietInv, SentOnce, Queued, Transmitted, Services
  <2> QED
    BY <2>7, <2>8, <2>9, <2>11, <2>12, <2>13 DEF QuietInv
<1>22. ~(PumpOnClosed \/ PumpExit \/ DispatchCancel)
  BY DEF PumpOnClosed, PumpExit, DispatchCancel, PumpStep, Step, QuietInv, Stable
<1> QED
  BY <1>1, <1>2, <1>3, <1>4, <1>5, <1>6, <1>7, <1>8, <1>9, <1>10, <1>11,
     <1>12, <1>13, <1>14, <1>15, <1>16, <1>17, <1>18, <1>19, <1>20, <1>21, <1>22, SMTT(30)
     DEF QuietNext, PumpApart, messagePump, SendRequest, CompleteRequest

-----------------------------------------------------------------------------
LEMMA QuietInvariant == QuietSpec => [](TypeOK /\ Order /\ QuietInv)
<1>1. Init => TypeOK /\ Order
  BY InitTypeOK, InitOrder
<1>2. Init => QuietInv
  BY SendersAssumption, SMTT(30)
     DEF Init, QuietInv, Stable, NotStarted, Exclusion, Popped, PendingInFront,
         Dispatching, SentOnce, OnePermit, InFlight, TimeoutUnderway, Services,
         Completers, EmptyQueue
<1>3. TypeOK /\ Order /\ QuietInv /\ [QuietNext]_vars => (TypeOK /\ Order /\ QuietInv)'
  <2> SUFFICES ASSUME TypeOK, Order, QuietInv, [QuietNext]_vars
               PROVE  (TypeOK /\ Order /\ QuietInv)'
    OBVIOUS
  <2>1. [Next]_vars
    BY DEF QuietNext, PumpApart, Next
  <2>2. TypeOK'
    BY <2>1, LabelsInvariant, FlagsInvariant, DataInvariant DEF TypeOK
  <2>3. Order'
    BY <2>1, OrderInvariant
  <2>4. CASE QuietNext
    BY <2>2, <2>3, <2>4, QuietStep
  <2>5. CASE UNCHANGED vars
    <3>1. QuietInv'
      BY <2>5
         DEF vars, data, coreVars, queueVars, chanVars, timerVars, callVars,
             worldVars, eventVars, envVars, QuietInv, Stable, NotStarted,
             Exclusion, Popped, PendingInFront, Dispatching, SentOnce,
             OnePermit, InFlight, TimeoutUnderway, Queued, Transmitted
    <3> QED
      BY <2>2, <2>3, <3>1
  <2> QED
    BY <2>4, <2>5
<1> QED
  BY <1>1, <1>2, <1>3, PTL DEF QuietSpec

(* In QuietSpec the right to transmit is a single token that moves between  *)
(* the pump, readyForDispatch and the request in flight.                    *)
THEOREM SinglePermit == QuietSpec => []OnePermit
<1>1. QuietInv => OnePermit
  BY DEF QuietInv
<1> QED
  BY <1>1, QuietInvariant, PTL

(* In QuietSpec no request is transmitted before the previous one has left  *)
(* the queue, and none is transmitted twice.                                *)
THEOREM TransmitOneAtATime == QuietSpec => []OneAtATime
<1>1. Order /\ QuietInv => OneAtATime
  <2> SUFFICES ASSUME Order, QuietInv,
                      NEW i \in 1..Len(sent), NEW j \in 1..Len(sent),
                      Queued(sent[i]), Queued(sent[j])
               PROVE  i = j
    BY DEF OneAtATime
  <2>1. sent[i] = sent[j]
    BY DEF QuietInv, SentOnce
  <2>2. \A k, l \in 1..Len(sent) : k < l => sent[k] < sent[l]
    BY DEF QuietInv, SentOnce
  <2>3. sent[i] \in Nat
    BY DEF Order, SentFirst
  <2> QED
    BY <2>1, <2>2, <2>3, SMTT(30)
<1> QED
  BY <1>1, QuietInvariant, PTL

(* In QuietSpec neither the pump nor a sender panics, and the pump never    *)
(* waits for itself on readyForDispatch.                                    *)
THEOREM PumpRuns == QuietSpec => []PumpNeverStuck
<1>1. TypeOK /\ QuietInv => PumpNeverStuck
  BY DEF TypeOK, DataOK, QuietInv, Stable, OnePermit, InFlight, Completers,
         PumpNeverStuck
<1> QED
  BY <1>1, QuietInvariant, PTL
-----------------------------------------------------------------------------
(* No request gets lost. *)

(* A request in the hands of the goroutine p that completes it: it is not   *)
(* settled, and once it is popped it is in no queue.                        *)
Held(p) ==
    /\ bundle[p] \in Nat /\ bundle[p] <= nextId
    /\ ~Settled(bundle[p])
    /\ completing[p] \in {"peek", "pop"} \/ ~Queued(bundle[p])

(* Where an accepted request can be, and that it is settled only once.      *)
Settling ==
    /\ responded \cap canceled = {}
    /\ \A id \in responded \cup canceled : id \in Nat /\ id <= nextId /\ ~Queued(id)
    /\ \A id \in 1..nextId : Queued(id) \/ InHand(id) \/ Settled(id)
    /\ pc["reader"] = "deliver" => Held("reader")
    /\ pc["pump"] = "cancel" => Held("pump")

(* The pending request was transmitted, unless the pump is about to write   *)
(* it; so was whatever a timeout cancels.                                   *)
SentFirstTime ==
    /\ pendingRequest # None /\ pc["pump"] # "write" => Transmitted(pendingRequest)
    /\ pc["pump"] = "cancel" => Transmitted(bundle["pump"])
    /\ \A id \in canceled : Transmitted(id)
SettleInv == Settling /\ SentFirstTime

(* A step that touches neither the queue nor a request, and takes no        *)
(* goroutine into or out of the places where it holds a request.            *)
LEMMA SettleUndisturbed ==
    ASSUME SettleInv,
           UNCHANGED <<requestQueue, nextId, sent, responded, canceled>>,
           pc'["reader"] = pc["reader"],
           \A l \in {"cancel", "fail"} : pc'["pump"] = l <=> pc["pump"] = l,
           bundle'["reader"] = bundle["reader"],
           pc["pump"] \in {"cancel", "fail"} => bundle'["pump"] = bundle["pump"],
           \/ pc'["pump"] = "write"
           \/ pc["pump"] # "write" /\ pendingRequest' \in {pendingRequest, None},
           \A p \in Completers :
              completing'[p] \in {"peek", "pop"} <=> completing[p] \in {"peek", "pop"}
    PROVE  SettleInv'
<1>1. \A id : /\ Queued(id)' <=> Queued(id)
              /\ Settled(id)' <=> Settled(id)
              /\ Transmitted(id)' <=> Transmitted(id)
              /\ InHand(id)' <=> InHand(id)
  BY DEF Queued, Settled, Transmitted, InHand
<1>2. /\ pc["reader"] = "deliver" => (Held("reader")' <=> Held("reader"))
      /\ pc["pump"] = "cancel" => (Held("pump")' <=> Held("pump"))
  BY <1>1 DEF Held, Completers
<1>3. Settling'
  BY <1>1, <1>2 DEF SettleInv, Settling
<1>4. SentFirstTime'
  BY <1>1 DEF SettleInv, SentFirstTime
<1> QED
  BY <1>3, <1>4 DEF SettleInv

(* What else the queue keeps when its front is popped. *)
LEMMA PopKeeps ==
    ASSUME TypeOK, requestQueue # <<>>, requestQueue' = Pop(requestQueue)
    PROVE  \A id : Queued(id) => Queued(id)' \/ id = requestQueue[1]
<1> SUFFICES ASSUME NEW id, NEW k \in 1..Len(requestQueue), requestQueue[k] = id, k # 1
             PROVE  Queued(id)'
  BY DEF Queued
<1>1. requestQueue \in Seq(Nat)
  BY DEF TypeOK, DataOK
<1>2. Len(requestQueue') = Len(requestQueue) - 1 /\ requestQueue'[k - 1] = requestQueue[k]
  BY <1>1, SMTT(30) DEF Pop
<1>3. k - 1 \in 1..Len(requestQueue')
  BY <1>1, <1>2, SMTT(30)
<1> QED
  BY <1>2, <1>3 DEF Queued

(* What a transmission adds. *)
LEMMA SendFacts ==
    ASSUME TypeOK, NEW x \in Nat \cup {None}, sent' = Append(sent, x)
    PROVE  /\ Transmitted(x)'
           /\ \A id : Transmitted(id) => Transmitted(id)'
           /\ \A id : Transmitted(id)' => Transmitted(id) \/ id = x
<1>1. sent \in Seq(Nat \cup {None})
  BY DEF TypeOK, DataOK
<1>2. /\ Len(sent') = Len(sent) + 1 /\ Len(sent) \in Nat
      /\ \A i \in 1..Len(sent) : sent'[i] = sent[i]
      /\ sent'[Len(sent) + 1] = x
  BY <1>1, AppendProperties, SMTT(30)
<1>3. Len(sent) + 1 \in 1..Len(sent')
  BY <1>2, SMTT(30)
<1>4. \A i \in 1..Len(sent) : i \in 1..Len(sent')
  BY <1>2, SMTT(30)
<1>5. \A i \in 1..Len(sent') : i \in 1..Len(sent) \/ i = Len(sent) + 1
  BY <1>2, SMTT(30)
<1> QED
  BY <1>2, <1>3, <1>4, <1>5 DEF Transmitted

(* A request that is pending, and that nobody has popped, is the front of   *)
(* the queue and not settled.                                               *)
LEMMA PendingUnsettled ==
    ASSUME TypeOK, Order, QuietInv, SettleInv, pendingRequest # None,
           \A p \in Completers : completing[p] # "delete"
    PROVE  /\ requestQueue # <<>> /\ requestQueue[1] = pendingRequest
           /\ pendingRequest \in Nat /\ pendingRequest <= nextId
           /\ Queued(pendingRequest) /\ ~Settled(pendingRequest)
<1>1. requestQueue # <<>> /\ requestQueue[1] = pendingRequest
  BY DEF QuietInv, PendingInFront
<1>2. requestQueue \in Seq(Nat)
  BY DEF TypeOK, DataOK
<1>3. 1 \in 1..Len(requestQueue) /\ requestQueue[1] \in Nat
  BY <1>1, <1>2, SMTT(30)
<1>4. Queued(pendingRequest)
  BY <1>1, <1>3 DEF Queued
<1> QED
  BY <1>1, <1>3, <1>4 DEF Order, QueueSorted, SettleInv, Settling, Settled

LEMMA SettleStep ==
    ASSUME TypeOK, Order, QuietInv, SettleInv, QuietNext PROVE SettleInv'
<1> USE DEF data, coreVars, queueVars, chanVars, timerVars, callVars, worldVars,
        eventVars, envVars
<1>0. /\ pc \in [Senders \cup Services -> Labels] /\ "pump" \in Senders \cup Services
      /\ "reader" \in Senders \cup Services
      /\ completing \in [Completers -> {"no", "peek", "pop", "delete", "ready"}]
      /\ bundle \in [Completers -> Nat \cup {None}]
      /\ nextId \in Nat
  BY DEF TypeOK, PcOK, DataOK, Services
<1>a. /\ pc \in [Senders \cup Services -> Labels] /\ "pump" \notin Senders
       /\ "reader" \notin Senders
       /\ "pump" \in Senders \cup Services /\ "reader" \in Senders \cup Services
  BY <1>0, SendersAssumption DEF Services
<1>1. CASE \/ Connect \/ Start \/ TimerExpires
  <2>1. "owner" \in Senders \cup Services /\ (pc["owner"] # "idle" => pc["pump"] = "done")
    BY DEF Services, QuietInv, NotStarted
  <2>2. /\ UNCHANGED <<requestQueue, nextId, sent, responded, canceled, bundle,
                       pendingRequest, completing>>
        /\ pc'["reader"] = pc["reader"]
        /\ pc'["pump"] = pc["pump"] \/ (pc["pump"] = "done" /\ pc'["pump"] = "loop")
    BY <1>0, <1>1, <2>1 DEF Connect, Start, TimerExpires, Step
  <2> QED
    BY <2>2, SettleUndisturbed
<1>2. CASE \/ PumpLoop \/ PumpOnRequest \/ PumpOnReady \/ PumpOnTimer \/ TimeoutCheck
           \/ TimeoutRearm \/ PumpPaused
  BY <1>0, <1>2, SettleUndisturbed
     DEF PumpStep, Step, PumpLoop, PumpOnRequest, PumpOnReady, PumpOnTimer,
         TimeoutCheck, TimeoutRearm, PumpPaused
<1>3. CASE PumpCheck \/ TimerStop \/ TimerDrain \/ TimerReset
  BY <1>0, <1>3, SettleUndisturbed
     DEF PumpStep, Step, PumpCheck, TimerStop, TimerDrain, TimerReset
<1>4. ASSUME NEW s \in Senders, SendCheck(s) \/ SendLock(s) \/ SendSignal(s)
      PROVE  SettleInv'
  <2>1. /\ UNCHANGED <<requestQueue, nextId, sent, responded, canceled, bundle,
                       pendingRequest, completing>>
        /\ \E l : pc' = [pc EXCEPT ![s] = l]
    BY <1>4 DEF SendCheck, SendLock, SendSignal, Step
  <2>2. pc'["reader"] = pc["reader"] /\ pc'["pump"] = pc["pump"]
    BY <1>a, <2>1
  <2> QED
    BY <2>1, <2>2, SettleUndisturbed
<1>5. ASSUME NEW s \in Senders, SendPush(s) PROVE SettleInv'
  <2>0. pc'["reader"] = pc["reader"] /\ pc'["pump"] = pc["pump"]
    <3>1. \E l : pc' = [pc EXCEPT ![s] = l]
      BY <1>5 DEF SendPush, Step
    <3> QED
      BY <1>a, <3>1
  <2>1. CASE UNCHANGED queueVars
    <3>1. UNCHANGED <<sent, responded, canceled, bundle, pendingRequest, completing>>
      BY <1>5 DEF SendPush
    <3> QED
      BY <2>0, <2>1, <3>1, SettleUndisturbed
  <2>2. CASE requestQueue' = Push(requestQueue, nextId + 1) /\ nextId' = nextId + 1
    <3>1. /\ \A id : id # nextId + 1 => (Queued(id)' <=> Queued(id))
          /\ \A id : id = nextId + 1 => Queued(id)'
      <4>1. requestQueue \in Seq(Nat)
        BY DEF TypeOK, DataOK
      <4>2. /\ Len(requestQueue') = Len(requestQueue) + 1
            /\ requestQueue'[Len(requestQueue) + 1] = nextId + 1
        BY <1>0, <2>2, <4>1, AppendProperties, SMTT(30) DEF Push
      <4>3. Len(requestQueue) + 1 \in 1..Len(requestQueue')
        BY <4>1, <4>2, SMTT(30)
      <4>4. \A id : id = nextId + 1 => Queued(id)'
        BY <4>2, <4>3 DEF Queued
      <4> QED
        BY <2>2, <4>4, PushFacts
    <3>2. /\ UNCHANGED <<sent, bundle, responded, canceled, pendingRequest, completing>>
          /\ pc'["reader"] = pc["reader"] /\ pc'["pump"] = pc["pump"]
      BY <1>5, <2>0 DEF SendPush
    <3>3. \A id : /\ Settled(id)' <=> Settled(id)
                  /\ Transmitted(id)' <=> Transmitted(id)
                  /\ InHand(id)' <=> InHand(id)
      BY <3>2 DEF Settled, Transmitted, InHand
    <3>4. \A id \in Nat : id <= nextId => id <= nextId' /\ id # nextId + 1
      BY <1>0, <2>2, SMTT(30)
    <3>5. \A id \in 1..nextId' : id \in 1..nextId \/ id = nextId + 1
      BY <1>0, <2>2, SMTT(30)
    <3>6. SentFirstTime'
      BY <3>2, <3>3 DEF SettleInv, SentFirstTime
    <3>7. \A p \in Completers : Held(p) => Held(p)'
      BY <3>1, <3>2, <3>3, <3>4 DEF Held
    <3>8. \A id \in responded' \cup canceled' :
             id \in Nat /\ id <= nextId' /\ ~Queued(id)'
      BY <3>1, <3>2, <3>4 DEF SettleInv, Settling
    <3>9. \A id \in 1..nextId' : Queued(id)' \/ InHand(id)' \/ Settled(id)'
      BY <3>1, <3>3, <3>5 DEF SettleInv, Settling
    <3>10. Settling'
      BY <3>2, <3>7, <3>8, <3>9 DEF SettleInv, Settling, Completers
    <3> QED
      BY <3>6, <3>10 DEF SettleInv
  <2> QED
    BY <1>5, <2>1, <2>2 DEF SendPush
<1>6. ASSUME NEW p \in Completers, CompletePeek(p) PROVE SettleInv'
  <2>1. completing[p] = "peek" /\ pendingRequest = bundle[p] /\ pendingRequest # None
    BY <1>6 DEF CompletePeek, QuietInv, Exclusion
  <2>2. \A q \in Completers : completing[q] # "delete"
    BY <2>1 DEF QuietInv, Exclusion, Completers, TimeoutUnderway
  <2>3. ~IsEmpty(requestQueue) /\ Peek(requestQueue) = bundle[p]
    <3>1. requestQueue # <<>> /\ requestQueue[1] = bundle[p]
      BY <2>1, <2>2, PendingUnsettled
    <3> QED
      BY <3>1, SMTT(30) DEF IsEmpty, Peek
  <2>4. completing' = [completing EXCEPT ![p] = "pop"]
    BY <1>6, <2>3 DEF CompletePeek
  <2> QED
    BY <1>0, <1>6, <2>1, <2>4, SettleUndisturbed DEF CompletePeek
<1>7. ASSUME NEW p \in Completers, CompletePop(p) PROVE SettleInv'
  <2>1. completing[p] = "pop" /\ pendingRequest = bundle[p] /\ pendingRequest # None
    BY <1>7 DEF CompletePop, QuietInv, Exclusion
  <2>2. \A q \in Completers : q # p => completing[q] = "no"
    BY <1>0, <2>1 DEF QuietInv, Exclusion, Completers, TimeoutUnderway
  <2>3. /\ requestQueue # <<>> /\ requestQueue[1] = bundle[p]
        /\ ~Settled(bundle[p]) /\ bundle[p] \in Nat /\ bundle[p] <= nextId
    BY <2>1, <2>2, PendingUnsettled
  <2>4. /\ \A id : Queued(id)' => Queued(id)
        /\ \A id : Queued(id) => Queued(id)' \/ id = bundle[p]
        /\ \A id : id = bundle[p] => ~Queued(id)'
    BY <1>7, <2>3, PopFacts, PopKeeps DEF CompletePop
  <2>5. /\ UNCHANGED <<sent, bundle, responded, canceled, pendingRequest, pc, nextId>>
        /\ completing' = [completing EXCEPT ![p] = "delete"]
    BY <1>7 DEF CompletePop
  <2>6. \A id : /\ Settled(id)' <=> Settled(id)
                /\ Transmitted(id)' <=> Transmitted(id)
                /\ InHand(id)' <=> InHand(id)
    BY <2>5 DEF Settled, Transmitted, InHand
  <2>7. InHand(bundle[p])
    BY <2>1 DEF InHand, QuietInv, Exclusion, Completers
  <2>8. SentFirstTime'
    BY <2>5, <2>6 DEF SettleInv, SentFirstTime
  <2>9. \A q \in Completers : Held(q) => Held(q)'
    <3> SUFFICES ASSUME NEW q \in Completers, Held(q) PROVE Held(q)'
      OBVIOUS
    <3>1. CASE q = p
      BY <2>4, <2>5, <2>6, <3>1 DEF Held
    <3>2. CASE q # p
      BY <1>0, <2>4, <2>5, <2>6, <3>2 DEF Held
    <3> QED
      BY <3>1, <3>2
  <2>10. Settling'
    BY <2>4, <2>5, <2>6, <2>7, <2>9 DEF SettleInv, Settling, Completers
  <2> QED
    BY <2>8, <2>10 DEF SettleInv
<1>8. ASSUME NEW p \in Completers, CompleteDelete(p) PROVE SettleInv'
  <2>1. pendingRequest' \in {pendingRequest, None}
    BY <1>8 DEF CompleteDelete, DeletePendingRequest
  <2> QED
    BY <1>0, <1>8, <2>1, SettleUndisturbed DEF CompleteDelete
<1>9. ASSUME NEW p \in Completers, CompleteReady(p) PROVE SettleInv'
  BY <1>0, <1>9, SettleUndisturbed DEF CompleteReady
<1>10. CASE TimeoutPeek
  <2>1. /\ pc["pump"] = "timedout" /\ pc["reader"] # "deliver" /\ pendingRequest # None
        /\ \A p \in Completers : completing[p] = "no"
    BY <1>10
       DEF TimeoutPeek, PumpStep, Step, QuietInv, Exclusion, Dispatching,
           TimeoutUnderway, Completers
  <2>2. /\ requestQueue # <<>> /\ requestQueue[1] = pendingRequest
        /\ pendingRequest \in Nat /\ pendingRequest <= nextId
        /\ ~Settled(pendingRequest) /\ Transmitted(pendingRequest)
    BY <2>1, PendingUnsettled DEF SettleInv, SentFirstTime
  <2>3. /\ UNCHANGED <<requestQueue, nextId, sent, responded, canceled, pendingRequest>>
        /\ pc' = [pc EXCEPT !["pump"] = "cancel"]
        /\ bundle' = [bundle EXCEPT !["pump"] = pendingRequest]
        /\ completing' = [completing EXCEPT !["pump"] = "peek"]
    BY <1>10, <2>2, SMTT(30) DEF TimeoutPeek, PumpStep, Step, IsEmpty, Peek
  <2>4. /\ pc'["reader"] = pc["reader"] /\ pc'["pump"] = "cancel"
        /\ bundle'["pump"] = pendingRequest /\ completing'["pump"] = "peek"
    BY <1>0, <2>3 DEF Completers
  <2>5. \A id : /\ Settled(id)' <=> Settled(id)
                /\ Transmitted(id)' <=> Transmitted(id)
                /\ Queued(id)' <=> Queued(id)
    BY <2>3 DEF Settled, Transmitted, Queued
  <2>6. \A id : ~InHand(id)
    BY <2>1 DEF InHand
  <2>7. SentFirstTime'
    BY <2>2, <2>3, <2>4, <2>5 DEF SettleInv, SentFirstTime
  <2>8. Held("pump")'
    BY <2>2, <2>3, <2>4, <2>5 DEF Held
  <2> QED
    BY <2>1, <2>3, <2>4, <2>5, <2>6, <2>7, <2>8 DEF SettleInv, Settling
<1>11. CASE TimeoutCancel
  <2>1. /\ pc["pump"] = "cancel" /\ pc["reader"] # "deliver"
        /\ completing["pump"] = "no" /\ Held("pump")
    BY <1>11
       DEF TimeoutCancel, PumpStep, Step, QuietInv, Exclusion, TimeoutUnderway,
           SettleInv, Settling
  <2>2. /\ UNCHANGED <<requestQueue, nextId, sent, responded, bundle, completing,
                       pendingRequest>>
        /\ pc'["reader"] = pc["reader"] /\ pc'["pump"] = "rearm"
        /\ canceled' = canceled \cup {bundle["pump"]}
    BY <1>0, <1>11 DEF TimeoutCancel, PumpStep, Step
  <2>3. \A id : /\ Transmitted(id)' <=> Transmitted(id)
                /\ Queued(id)' <=> Queued(id)
                /\ Settled(id)' <=> (Settled(id) \/ id = bundle["pump"])
    BY <2>2 DEF Settled, Transmitted, Queued
  <2>4. /\ bundle["pump"] \in Nat /\ bundle["pump"] <= nextId
        /\ ~Settled(bundle["pump"]) /\ ~Queued(bundle["pump"])
    BY <2>1 DEF Held
  <2>5. \A id : InHand(id) => id = bundle["pump"]
    BY <2>1 DEF InHand
  <2>6. SentFirstTime'
    BY <2>1, <2>2, <2>3 DEF SettleInv, SentFirstTime
  <2> QED
    BY <2>1, <2>2, <2>3, <2>4, <2>5, <2>6 DEF SettleInv, Settling, Settled
<1>12. CASE DispatchPeek \/ DispatchAdd
  BY <1>0, <1>12, SettleUndisturbed
     DEF DispatchPeek, DispatchAdd, PumpStep, Step, Completers
<1>13. CASE DispatchWrite
  <2>1. /\ bundle["pump"] = pendingRequest /\ bundle["pump"] \in Nat \cup {None}
        /\ link = "up"
    BY <1>0, <1>13
       DEF DispatchWrite, PumpStep, Step, QuietInv, Dispatching, NotStarted, Completers
  <2>2. /\ UNCHANGED <<requestQueue, nextId, responded, canceled, bundle, completing,
                       pendingRequest>>
        /\ sent' = Append(sent, bundle["pump"])
        /\ pc["pump"] = "write" /\ pc'["reader"] = pc["reader"] /\ pc'["pump"] = "stop"
    BY <1>0, <1>13, <2>1 DEF DispatchWrite, PumpStep, Step
  <2>3. /\ Transmitted(pendingRequest)'
        /\ \A id : Transmitted(id) => Transmitted(id)'
    BY <2>1, <2>2, SendFacts DEF Transmitted
  <2>4. SentFirstTime'
    BY <2>2, <2>3 DEF SettleInv, SentFirstTime
  <2>5. Settling'
    BY <2>2 DEF SettleInv, Settling, Held, InHand, Settled, Queued
  <2> QED
    BY <2>4, <2>5 DEF SettleInv
<1>14. ASSUME NEW id \in Ids, ~TimeoutUnderway, Receive(id) PROVE SettleInv'
  <2>1. /\ pc["reader"] = "idle" /\ pc["pump"] # "cancel" /\ pc["pump"] # "fail"
        /\ \A p \in Completers : completing[p] = "no"
    BY <1>14
       DEF Receive, Step, QuietInv, Exclusion, Stable, TimeoutUnderway, Completers
  <2>2. CASE ~GetPendingRequest(pendingRequest, id)
    BY <1>0, <1>14, <2>2, SettleUndisturbed DEF Receive, Step
  <2>3. CASE GetPendingRequest(pendingRequest, id)
    <3>1. /\ pendingRequest = id /\ pendingRequest # None
          /\ UNCHANGED <<requestQueue, nextId, sent, responded, canceled, pendingRequest>>
          /\ pc'["reader"] = "deliver" /\ pc'["pump"] = pc["pump"]
          /\ bundle'["reader"] = id /\ completing'["reader"] = "peek"
      <4>1. /\ pc' = [pc EXCEPT !["reader"] = "deliver"]
            /\ bundle' = [bundle EXCEPT !["reader"] = id]
            /\ completing' = [completing EXCEPT !["reader"] = "peek"]
            /\ UNCHANGED <<requestQueue, nextId, sent, responded, canceled, pendingRequest>>
        BY <1>14, <2>3 DEF Receive, Step
      <4>2. pendingRequest = id /\ pendingRequest # None
        BY <1>14, <2>3, NoneAssumption, SMTT(30) DEF GetPendingRequest, Ids
      <4> QED
        BY <1>0, <4>1, <4>2 DEF Completers
    <3>2. id \in Nat /\ id <= nextId /\ ~Settled(id)
      BY <2>1, <3>1, PendingUnsettled
    <3>3. \A x : /\ Settled(x)' <=> Settled(x)
                 /\ Transmitted(x)' <=> Transmitted(x)
                 /\ Queued(x)' <=> Queued(x)
                 /\ ~InHand(x)
      BY <2>1, <3>1 DEF Settled, Transmitted, Queued, InHand
    <3>4. Held("reader")'
      BY <3>1, <3>2, <3>3 DEF Held
    <3>5. SentFirstTime'
      BY <2>1, <3>1, <3>3 DEF SettleInv, SentFirstTime
    <3> QED
      BY <2>1, <3>1, <3>3, <3>4, <3>5 DEF SettleInv, Settling
  <2> QED
    BY <2>2, <2>3
<1>15. CASE Deliver
  <2>1. /\ pc["reader"] = "deliver" /\ pc["pump"] # "cancel" /\ pc["pump"] # "fail"
        /\ completing["reader"] = "no" /\ Held("reader")
    BY <1>15
       DEF Deliver, Step, QuietInv, Exclusion, Stable, TimeoutUnderway, SettleInv,
           Settling
  <2>2. /\ UNCHANGED <<requestQueue, nextId, sent, canceled, bundle, completing,
                       pendingRequest>>
        /\ pc'["reader"] = "idle" /\ pc'["pump"] = pc["pump"]
        /\ responded' = responded \cup {bundle["reader"]}
    BY <1>0, <1>15 DEF Deliver, Step
  <2>3. \A id : /\ Transmitted(id)' <=> Transmitted(id)
                /\ Queued(id)' <=> Queued(id)
                /\ Settled(id)' <=> (Settled(id) \/ id = bundle["reader"])
    BY <2>2 DEF Settled, Transmitted, Queued
  <2>4. /\ bundle["reader"] \in Nat /\ bundle["reader"] <= nextId
        /\ ~Settled(bundle["reader"]) /\ ~Queued(bundle["reader"])
    BY <2>1 DEF Held
  <2>5. \A id : InHand(id) => id = bundle["reader"]
    BY <2>1 DEF InHand
  <2>6. SentFirstTime'
    BY <2>1, <2>2, <2>3 DEF SettleInv, SentFirstTime
  <2> QED
    BY <2>1, <2>2, <2>3, <2>4, <2>5, <2>6 DEF SettleInv, Settling, Settled
<1>16. ~(PumpOnClosed \/ PumpExit \/ DispatchCancel)
  BY DEF PumpOnClosed, PumpExit, DispatchCancel, QuietInv, Stable, PumpStep, Step
<1> QED
  BY <1>1, <1>2, <1>3, <1>4, <1>5, <1>6, <1>7, <1>8, <1>9, <1>10, <1>11, <1>12,
     <1>13, <1>14, <1>15, <1>16
     DEF QuietNext, PumpApart, messagePump, SendRequest, CompleteRequest

LEMMA SettleInvariant == QuietSpec => []SettleInv
<1>1. Init => SettleInv
  BY SendersAssumption, SMTT(30)
     DEF Init, SettleInv, Settling, SentFirstTime, Services
<1>2. TypeOK /\ Order /\ QuietInv /\ SettleInv /\ [QuietNext]_vars => SettleInv'
  <2>1. ASSUME SettleInv, UNCHANGED vars PROVE SettleInv'
    BY <2>1, SettleUndisturbed
       DEF vars, data, coreVars, queueVars, callVars, worldVars, eventVars
  <2> QED
    BY <2>1, SettleStep
<1> QED
  BY <1>1, <1>2, QuietInvariant, PTL DEF QuietSpec

(* In QuietSpec no accepted request is lost between the queue, the          *)
(* goroutine that completes it and the application, and none is both        *)
(* answered and cancelled, although answers may come late and timers        *)
(* expire at any moment at which no answer is being handled.                *)
THEOREM RequestsSettledOnce == QuietSpec => []SettledOnce
<1>1. SettleInv => SettledOnce
  BY DEF SettleInv, Settling, SettledOnce, Settled
<1> QED
  BY <1>1, SettleInvariant, PTL

-----------------------------------------------------------------------------
(* The refinement of RequestChannel. *)

(* The backlog and the request in flight that Channel is instantiated with. *)
Backlog ==
    IF requestQueue # <<>> /\ Transmitted(Head(requestQueue))
    THEN Tail(requestQueue) ELSE requestQueue
Flight == IF pendingRequest # None /\ Transmitted(pendingRequest) THEN pendingRequest ELSE None

LEMMA ChannelStutters ==
    ASSUME UNCHANGED <<requestQueue, pendingRequest, sent, nextId>>
    PROVE  UNCHANGED Channel!channelVars
BY DEF Channel!channelVars, Transmitted

(* A push leaves the front where it is, and is a push on the rest. *)
LEMMA AppendTail ==
    ASSUME NEW S, NEW q \in Seq(S), NEW x \in S, q # <<>>
    PROVE  /\ Append(q, x) # <<>> /\ Head(Append(q, x)) = Head(q)
           /\ Tail(Append(q, x)) = Append(Tail(q), x)
BY SMTT(30)

(* What was transmitted and is still in the queue is pending. *)
LEMMA QueuedSent ==
    ASSUME QuietInv, NEW id, Queued(id), Transmitted(id)
    PROVE  pendingRequest = id /\ pc["pump"] # "write"
BY DEF QuietInv, SentOnce, Transmitted

LEMMA ChannelStep ==
    ASSUME TypeOK, Order, QuietInv, SettleInv, QuietNext
    PROVE  [Channel!Next]_(Channel!channelVars)
<1> USE DEF data, coreVars, queueVars, chanVars, timerVars, callVars, worldVars,
        eventVars, envVars
<1>0. /\ requestQueue \in Seq(Nat) /\ nextId \in Nat /\ sent \in Seq(Nat \cup {None})
      /\ requestQueue # <<>> =>
            /\ Head(requestQueue) = requestQueue[1] /\ Head(requestQueue) \in Nat
            /\ Queued(Head(requestQueue))
  <2>1. requestQueue \in Seq(Nat) /\ nextId \in Nat /\ sent \in Seq(Nat \cup {None})
    BY DEF TypeOK, DataOK
  <2>2. requestQueue # <<>> => 1 \in 1..Len(requestQueue)
    BY <2>1, SMTT(30)
  <2> QED
    BY <2>1, <2>2, SMTT(30) DEF Queued
<1>1. CASE Connect \/ Start \/ TimerExpires \/ Deliver
  BY <1>1, ChannelStutters DEF Connect, Start, TimerExpires, Deliver
<1>2. CASE \/ PumpLoop \/ PumpOnRequest \/ PumpOnReady \/ PumpOnTimer \/ TimeoutCheck
           \/ TimeoutPeek \/ TimeoutCancel \/ TimeoutRearm \/ PumpPaused
  BY <1>2, ChannelStutters
     DEF PumpLoop, PumpOnRequest, PumpOnReady, PumpOnTimer, TimeoutCheck, TimeoutPeek,
         TimeoutCancel, TimeoutRearm, PumpPaused
<1>3. CASE PumpCheck \/ DispatchPeek \/ TimerStop \/ TimerDrain \/ TimerReset
  BY <1>3, ChannelStutters DEF PumpCheck, DispatchPeek, TimerStop, TimerDrain, TimerReset
<1>4. ASSUME NEW s \in Senders, SendCheck(s) \/ SendLock(s) \/ SendSignal(s)
      PROVE  UNCHANGED Channel!channelVars
  BY <1>4, ChannelStutters DEF SendCheck, SendLock, SendSignal
<1>5. ASSUME NEW p \in Completers, CompletePeek(p) \/ CompleteReady(p)
      PROVE  UNCHANGED Channel!channelVars
  BY <1>5, ChannelStutters DEF CompletePeek, CompleteReady
<1>6. ASSUME NEW id \in Ids, Receive(id) PROVE UNCHANGED Channel!channelVars
  BY <1>6, ChannelStutters DEF Receive
<1>7. ASSUME NEW s \in Senders, SendPush(s) PROVE [Channel!Next]_(Channel!channelVars)
  <2>1. CASE UNCHANGED queueVars
    BY <1>7, <2>1, ChannelStutters DEF SendPush
  <2>2. CASE requestQueue' = Push(requestQueue, nextId + 1) /\ nextId' = nextId + 1
    <3>1. UNCHANGED <<pendingRequest, sent>>
      BY <1>7 DEF SendPush
    <3>2. requestQueue' = Append(requestQueue, nextId + 1) /\ nextId + 1 \in Nat
      BY <1>0, <2>2, SMTT(30) DEF Push
    <3>3. \A id : Transmitted(id)' <=> Transmitted(id)
      BY <3>1 DEF Transmitted
    <3>4. \A id : Transmitted(id) => id # nextId + 1
      BY <1>0, SMTT(30) DEF Order, SentFirst, Transmitted
    <3>5. Backlog' = Append(Backlog, nextId')
      <4>1. CASE requestQueue = <<>>
        <5>1. requestQueue' = <<nextId + 1>> /\ Head(requestQueue') = nextId + 1
          BY <3>2, <4>1, SMTT(30)
        <5>2. Backlog = <<>>
          BY <4>1 DEF Backlog
        <5>3. Backlog' = requestQueue'
          BY <3>3, <3>4, <5>1 DEF Backlog
        <5> QED
          BY <2>2, <5>1, <5>2, <5>3, SMTT(30)
      <4>2. CASE requestQueue # <<>>
        <5>1. /\ requestQueue' # <<>> /\ Head(requestQueue') = Head(requestQueue)
              /\ Tail(requestQueue') = Append(Tail(requestQueue), nextId + 1)
          BY <1>0, <3>2, <4>2, AppendTail
        <5> QED
          BY <2>2, <3>2, <3>3, <4>2, <5>1 DEF Backlog
      <4> QED
        BY <4>1, <4>2
    <3>6. Flight' = Flight
      BY <3>1, <3>3 DEF Flight
    <3>7. nextId' > nextId
      BY <1>0, <2>2, SMTT(30)
    <3>8. Channel!Accept
      BY <3>1, <3>5, <3>6, <3>7 DEF Channel!Accept, Backlog, Flight
    <3> QED
      BY <3>8 DEF Channel!Next
  <2> QED
    BY <1>7, <2>1, <2>2 DEF SendPush
<1>8. ASSUME NEW p \in Completers, CompletePop(p) PROVE UNCHANGED Channel!channelVars
  <2>1. /\ pendingRequest # None /\ \A q \in Completers : completing[q] # "delete"
        /\ pc["pump"] # "write"
    BY <1>8
       DEF CompletePop, QuietInv, Exclusion, Dispatching, TimeoutUnderway, Completers
  <2>2. requestQueue # <<>> /\ Head(requestQueue) = pendingRequest
    BY <1>0, <2>1, PendingUnsettled
  <2>3. Transmitted(pendingRequest)
    BY <2>1 DEF SettleInv, SentFirstTime
  <2>4. requestQueue' = Tail(requestQueue) /\ UNCHANGED <<pendingRequest, sent, nextId>>
    BY <1>8, <2>2 DEF CompletePop, Pop
  <2>5. Backlog = Tail(requestQueue)
    BY <2>2, <2>3 DEF Backlog
  <2>6. ASSUME requestQueue' # <<>> PROVE ~Transmitted(Head(requestQueue'))
    <3>1. 2 \in 1..Len(requestQueue) /\ Head(requestQueue') = requestQueue[2]
      BY <1>0, <2>2, <2>4, <2>6, SMTT(30)
    <3>2. requestQueue[1] < requestQueue[2] /\ Queued(requestQueue[2])
      BY <1>0, <3>1, SMTT(30) DEF Order, QueueSorted, Queued
    <3>3. pendingRequest # requestQueue[2]
      BY <1>0, <2>2, <3>1, <3>2, SMTT(30)
    <3> QED
      BY <3>1, <3>2, <3>3, QueuedSent
  <2>7. Backlog' = Tail(requestQueue)
    BY <2>4, <2>6 DEF Backlog, Transmitted
  <2>8. Flight' = Flight
    BY <2>4 DEF Flight, Transmitted
  <2> QED
    BY <2>4, <2>5, <2>7, <2>8 DEF Channel!channelVars, Backlog, Flight
<1>9. ASSUME NEW p \in Completers, CompleteDelete(p) PROVE Channel!Settle
  <2>1. /\ pendingRequest # None /\ pendingRequest = bundle[p] /\ pc["pump"] # "write"
    BY <1>9
       DEF CompleteDelete, QuietInv, Exclusion, Dispatching, TimeoutUnderway, Completers
  <2>2. pendingRequest' = None /\ UNCHANGED <<requestQueue, sent, nextId>>
    BY <1>9, <2>1 DEF CompleteDelete, DeletePendingRequest
  <2>3. Flight = pendingRequest /\ Flight' = None
    BY <2>1, <2>2 DEF Flight, SettleInv, SentFirstTime
  <2>4. Backlog' = Backlog
    BY <2>2 DEF Backlog, Transmitted
  <2> QED
    BY <2>1, <2>2, <2>3, <2>4 DEF Channel!Settle, Backlog, Flight
<1>10. CASE DispatchAdd
  <2>1. /\ pendingRequest = None /\ requestQueue # <<>>
        /\ pendingRequest' = Head(requestQueue)
        /\ UNCHANGED <<requestQueue, sent, nextId>>
    <3>1. pc["pump"] = "add" /\ rdy
      BY <1>10 DEF DispatchAdd, PumpStep, Step, QuietInv, Dispatching
    <3>2. pendingRequest = None
      BY <3>1 DEF QuietInv, OnePermit, InFlight
    <3> QED
      BY <1>0, <1>10, <3>1, <3>2
         DEF DispatchAdd, AddPendingRequest, QuietInv, Dispatching
  <2>2. ~Transmitted(Head(requestQueue))
    BY <1>0, <2>1, QueuedSent, NoneAssumption, SMTT(30)
  <2>3. Flight = None /\ Flight' = None
    BY <2>1, <2>2 DEF Flight, Transmitted
  <2>4. Backlog' = Backlog
    BY <2>1 DEF Backlog, Transmitted
  <2> QED
    BY <2>1, <2>3, <2>4 DEF Channel!channelVars, Backlog, Flight
<1>11. CASE DispatchWrite
  <2>1. /\ pc["pump"] = "write" /\ link = "up" /\ bundle["pump"] = pendingRequest
        /\ pendingRequest # None /\ \A q \in Completers : completing[q] # "delete"
    BY <1>11
       DEF DispatchWrite, PumpStep, Step, QuietInv, Dispatching, NotStarted, Completers
  <2>2. /\ sent' = Append(sent, pendingRequest)
        /\ UNCHANGED <<requestQueue, pendingRequest, nextId>>
    BY <1>11, <2>1 DEF DispatchWrite
  <2>3. /\ requestQueue # <<>> /\ Head(requestQueue) = pendingRequest
        /\ pendingRequest \in Nat
    BY <1>0, <2>1, PendingUnsettled
  <2>4. ~Transmitted(pendingRequest)
    BY <1>0, <2>1, <2>3, QueuedSent
  <2>5. Transmitted(pendingRequest)'
    BY <2>2, <2>3, SendFacts DEF Transmitted
  <2>6. Flight = None /\ Backlog = requestQueue
    BY <2>3, <2>4 DEF Flight, Backlog
  <2>7. Flight' = pendingRequest /\ Backlog' = Tail(requestQueue)
    BY <2>1, <2>2, <2>3, <2>5 DEF Flight, Backlog, Transmitted
  <2>8. Channel!Transmit
    BY <2>2, <2>3, <2>6, <2>7 DEF Channel!Transmit, Flight, Backlog
  <2> QED
    BY <2>8 DEF Channel!Next
<1>12. ~(PumpOnClosed \/ PumpExit \/ DispatchCancel)
  BY DEF PumpOnClosed, PumpExit, DispatchCancel, QuietInv, Stable, PumpStep, Step
<1> QED
  BY <1>1, <1>2, <1>3, <1>4, <1>5, <1>6, <1>7, <1>8, <1>9, <1>10, <1>11, <1>12
     DEF QuietNext, PumpApart, messagePump, SendRequest, CompleteRequest, Channel!Next

(* In QuietSpec the queue, the pending request and the transmissions of     *)
(* the dispatcher are a RequestChannel: each step of a goroutine is      *)
(* Accept (SendPush), Transmit (DispatchWrite), Settle (CompleteDelete) or  *)
(* invisible there.                                                         *)
THEOREM DispatcherImplementsChannel == QuietSpec => ImplementsChannel
<1>1. Init => Channel!Init
  BY DEF Init, Channel!Init, EmptyQueue
<1>2. TypeOK /\ Order /\ QuietInv /\ SettleInv /\ [QuietNext]_vars =>
         [Channel!Next]_(Channel!channelVars)
  <2>1. ASSUME UNCHANGED vars PROVE UNCHANGED Channel!channelVars
    BY <2>1, ChannelStutters DEF vars, data, coreVars, queueVars
  <2> QED
    BY <2>1, ChannelStep
<1> QED
  BY <1>1, <1>2, QuietInvariant, SettleInvariant, PTL
     DEF QuietSpec, ImplementsChannel, Channel!Spec
-----------------------------------------------------------------------------
(* Timeouts, in every behaviour of the dispatcher (Spec). *)

(* As long as the link has not dropped and Stop was not called, the request *)
(* that is pending was transmitted, or the pump is about to transmit it.    *)
Calm == linkLosses = 0 /\ stops = 0
Running ==
    /\ pc["owner"] # "stopped" => link = "up"
    /\ pc["owner"] \in {"stopped", "starting"} => pc["pump"] = "done"
    /\ pc["owner"] \notin {"stopping", "lock"}
PendingSent ==
    \/ pendingRequest = None
    \/ Transmitted(pendingRequest)
    \/ pc["pump"] = "write" /\ pendingRequest = bundle["pump"]
CalmInv == Calm => Running /\ PendingSent

LEMMA CalmUndisturbed ==
    ASSUME CalmInv, UNCHANGED <<linkLosses, stops, link, pendingRequest, sent>>,
           pc'["owner"] = pc["owner"], pc'["pump"] = pc["pump"],
           bundle'["pump"] = bundle["pump"]
    PROVE  CalmInv'
    BY DEF CalmInv, Calm, Running, PendingSent, Transmitted

(* A step of the pump that neither registers nor transmits a request. *)
LEMMA CalmPump ==
    ASSUME CalmInv, UNCHANGED <<linkLosses, stops, link, pendingRequest, sent>>,
           pc'["owner"] = pc["owner"], pc["pump"] # "done", pc["pump"] # "write"
    PROVE  CalmInv'
    BY DEF CalmInv, Calm, Running, PendingSent, Transmitted

LEMMA CalmStep == ASSUME TypeOK, CalmInv, Next PROVE CalmInv'
<1> USE DEF data, coreVars, queueVars, chanVars, timerVars, callVars, worldVars,
        eventVars, envVars
<1>0. /\ pc \in [Senders \cup Services -> Labels]
      /\ {"pump", "owner", "reader", "pauser", "resumer"} = Services
      /\ \A s \in Senders : s \notin Services
      /\ bundle \in [Completers -> Nat \cup {None}]
      /\ linkLosses \in Nat /\ stops \in Nat
  BY SendersAssumption DEF TypeOK, PcOK, DataOK, Services
<1>1. CASE Connect
  BY <1>0, <1>1
     DEF Connect, Step, CalmInv, Calm, Running, PendingSent, Transmitted
<1>2. CASE Start
  BY <1>0, <1>2 DEF Start, CalmInv, Calm, Running, PendingSent, Transmitted
<1>3. CASE StopLink
  <2>1. stops' # 0
    BY <1>0, <1>3, SMTT(30) DEF StopLink
  <2> QED
    BY <2>1 DEF CalmInv, Calm
<1>4. CASE LinkLost
  <2>1. linkLosses' # 0
    BY <1>0, <1>4, SMTT(30) DEF LinkLost
  <2> QED
    BY <2>1 DEF CalmInv, Calm
<1>5. CASE StopWait \/ Stop
  <2>1. pc["owner"] \in {"stopping", "lock"} /\ UNCHANGED <<linkLosses, stops>>
    BY <1>5 DEF StopWait, Stop, LockWait, Lock, Step
  <2> QED
    BY <2>1 DEF CalmInv, Calm, Running
<1>6. CASE LinkRestored
  <2>1. /\ UNCHANGED <<linkLosses, stops, pendingRequest, sent, bundle>>
        /\ link' = "up" /\ pc'["owner"] = pc["owner"] /\ pc'["pump"] = pc["pump"]
    BY <1>0, <1>6 DEF LinkRestored, Step
  <2> QED
    BY <2>1 DEF CalmInv, Calm, Running, PendingSent, Transmitted
<1>7. ASSUME NEW s \in Senders, SendRequest(s) PROVE CalmInv'
  <2>1. UNCHANGED <<linkLosses, stops, link, pendingRequest, sent, bundle>>
    BY <1>7 DEF SendRequest, SendCheck, SendPush, SendLock, SendSignal
  <2>2. \E from, to : Step(s, from, to)
    BY <1>7 DEF SendRequest, SendCheck, SendPush, SendLock, SendSignal
  <2>3. pc'["owner"] = pc["owner"] /\ pc'["pump"] = pc["pump"]
    BY <1>0, <2>2 DEF Step
  <2> QED
    BY <2>1, <2>3, CalmUndisturbed
<1>8. ASSUME NEW p \in Completers, CompleteRequest(p) PROVE CalmInv'
  <2>1. /\ UNCHANGED <<pc, linkLosses, stops, link, sent, bundle>>
        /\ pendingRequest' = pendingRequest \/ pendingRequest' = None
    BY <1>8 DEF CompleteRequest, CompletePeek, CompletePop, CompleteDelete,
                CompleteReady, DeletePendingRequest
  <2> QED
    BY <2>1 DEF CalmInv, Calm, Running, PendingSent, Transmitted
<1>9. ASSUME NEW id \in Ids, Receive(id) PROVE CalmInv'
  <2>1. /\ UNCHANGED <<linkLosses, stops, link, pendingRequest, sent>>
        /\ pc'["owner"] = pc["owner"] /\ pc'["pump"] = pc["pump"]
        /\ bundle'["pump"] = bundle["pump"]
    BY <1>0, <1>9 DEF Receive, Step, Completers
  <2> QED
    BY <2>1, CalmUndisturbed
<1>10. CASE Deliver \/ TimerExpires
  BY <1>0, <1>10, CalmUndisturbed DEF Deliver, TimerExpires, Step
<1>11. CASE Pause
  <2>1. UNCHANGED <<linkLosses, stops, link, pendingRequest, sent, bundle>>
    BY <1>11 DEF Pause, PauseWait, PauseLock, PauseDrain, PauseReset, LockWait
  <2>2. pc'["owner"] = pc["owner"] /\ pc'["pump"] = pc["pump"]
    BY <1>0, <1>11
       DEF Pause, PauseWait, PauseLock, PauseDrain, PauseReset, LockWait, Lock, Step
  <2> QED
    BY <2>1, <2>2, CalmUndisturbed
<1>12. CASE Resume
  <2>1. UNCHANGED <<linkLosses, stops, link, pendingRequest, sent, bundle>>
    BY <1>12 DEF Resume, ResumeWait, ResumeLock, ResumeCheck, ResumeReset,
                 ResumeReady, LockWait
  <2>2. pc'["owner"] = pc["owner"] /\ pc'["pump"] = pc["pump"]
    BY <1>0, <1>12 DEF Resume, ResumeWait, ResumeLock, ResumeCheck, ResumeReset,
                       ResumeReady, LockWait, Lock, Step
  <2> QED
    BY <2>1, <2>2, CalmUndisturbed
<1>13. CASE messagePump
  <2>1. CASE DispatchAdd
    <3>1. /\ UNCHANGED <<linkLosses, stops, link, sent, bundle>>
          /\ pc["pump"] = "add" /\ pc'["pump"] = "write"
          /\ pc'["owner"] = pc["owner"]
          /\ \/ pendingRequest' = pendingRequest
             \/ pendingRequest' = bundle["pump"]
      BY <1>0, <2>1 DEF DispatchAdd, PumpStep, Step, AddPendingRequest
    <3> QED
      BY <3>1 DEF CalmInv, Calm, Running, PendingSent, Transmitted
  <2>2. CASE DispatchWrite
    <3>1. /\ UNCHANGED <<linkLosses, stops, link, pendingRequest, bundle>>
          /\ pc["pump"] = "write" /\ pc'["pump"] # "done"
          /\ pc'["owner"] = pc["owner"]
          /\ link = "up" => sent' = Append(sent, bundle["pump"])
      BY <1>0, <2>2 DEF DispatchWrite, PumpStep, Step
    <3>2. ASSUME Calm PROVE Running' /\ PendingSent'
      <4>1. Running /\ PendingSent
        BY <3>2 DEF CalmInv
      <4>2. /\ Transmitted(bundle["pump"])'
            /\ \A id : Transmitted(id) => Transmitted(id)'
        <5>1. bundle["pump"] \in Nat \cup {None}
          BY <1>0 DEF Completers
        <5>2. sent' = Append(sent, bundle["pump"])
          BY <3>1, <4>1 DEF Running
        <5> QED
          BY <5>1, <5>2, <3>1, SendFacts DEF Transmitted
      <4>3. PendingSent'
        BY <3>1, <4>1, <4>2 DEF PendingSent, Transmitted
      <4> QED
        BY <3>1, <4>1, <4>3 DEF Running
    <3> QED
      BY <3>1, <3>2 DEF CalmInv, Calm
  <2>3. CASE \/ PumpLoop \/ PumpOnRequest \/ PumpOnReady \/ PumpOnClosed
             \/ PumpExit \/ PumpOnTimer \/ TimeoutCheck \/ TimeoutPeek
             \/ TimeoutCancel \/ TimeoutRearm \/ PumpPaused \/ PumpCheck
             \/ DispatchPeek \/ DispatchCancel \/ TimerStop \/ TimerDrain
             \/ TimerReset
    <3>1. UNCHANGED <<linkLosses, stops, link, pendingRequest, sent>>
      BY <2>3 DEF PumpLoop, PumpOnRequest, PumpOnReady, PumpOnClosed, PumpExit,
         PumpOnTimer, TimeoutCheck, TimeoutPeek, TimeoutCancel, TimeoutRearm,
         PumpPaused, PumpCheck, DispatchPeek, DispatchCancel, TimerStop,
         TimerDrain, TimerReset
    <3>2. /\ pc'["owner"] = pc["owner"]
          /\ pc["pump"] # "done" /\ pc["pump"] # "write"
      BY <1>0, <2>3 DEF PumpLoop, PumpOnRequest, PumpOnReady, PumpOnClosed,
         PumpExit, PumpOnTimer, TimeoutCheck, TimeoutPeek, TimeoutCancel,
         TimeoutRearm, PumpPaused, PumpCheck, DispatchPeek, DispatchCancel,
         TimerStop, TimerDrain, TimerReset, PumpStep, Step
    <3> QED
      BY <3>1, <3>2, CalmPump
  <2> QED
    BY <1>13, <2>1, <2>2, <2>3 DEF messagePump
<1> QED
  BY <1>1, <1>2, <1>3, <1>4, <1>5, <1>6, <1>7, <1>8, <1>9, <1>10, <1>11, <1>12,
     <1>13 DEF Next

(* In every behaviour, with any overlap of timers and answers: as long as   *)
(* the link has not dropped and Stop was not called, a request the timer    *)
(* branch of messagePump finds pending was handed to the websocket.         *)
THEOREM TimeoutsConcernSentRequests == Spec => []TimesOutSent
<1>1. Init => CalmInv
  BY DEF Init, CalmInv, Calm, Running, PendingSent, Services
<1>2. TypeOK /\ CalmInv /\ [Next]_vars => CalmInv'
  <2>1. ASSUME CalmInv, UNCHANGED vars PROVE CalmInv'
    BY <2>1, CalmUndisturbed
       DEF vars, data, coreVars, callVars, worldVars, envVars
  <2> QED
    BY <2>1, CalmStep
<1>3. CalmInv => TimesOutSent
  BY DEF CalmInv, Calm, PendingSent, TimesOutSent, HasPendingRequest
<1> QED
  BY <1>1, <1>2, <1>3, TypeCorrect, PTL DEF Spec
=============================================================================
