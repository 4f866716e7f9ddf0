--------------------------- MODULE StationProofs ---------------------------
(***************************************************************************)
(* Why a caller of a charge point or charging station gets the outcome of  *)
(* its own request, for any number of requests and of losses of the link.  *)
(***************************************************************************)
EXTENDS Station, SequenceTheorems, TLAPS

(* Steps that need arithmetic, sequences or functions say SMTT. *)
USE ZenonT(60)

(* s holds the last numbers up to n, in order. *)
Upto(s, n) ==
    /\ s \in Seq(Requests)
    /\ Len(s) <= n
    /\ \A i \in 1..Len(s) : s[i] = n - Len(s) + i

(* The pump has left its loop. *)
Ended == ppc \in {"exit", "done"}

(* The pending request is the first in the queue, until the pump clears the  *)
(* queue; it is then older than any request that is queued too late.         *)
PendingFirst ==
    /\ ~Ended /\ pending # 0 => queue # <<>> /\ pending = made - Len(queue) + 1
    /\ Ended => pending <= made - Len(queue)

(* The reader and the pump have a request in hand where they need one; the    *)
(* reader's is pending, or has left the queue for good.                      *)
InHand ==
    /\ rpc = "complete" => received = pending \/ received <= made - Len(queue)
    /\ rpc # "read" => received # 0 /\ kind # "none"
    /\ Canceling => canceled # 0

(* The goroutines end in order, after requestChannel was closed. *)
Ending ==
    /\ Ended => requestChannel # "open"
    /\ spc = "async" => requestChannel # "open"
    /\ stopC => requestChannel # "open"
    /\ apc \in {"clear", "done"} => stopC

QueueInv ==
    TypeOK /\ Upto(queue, made) /\ Upto(callbacks, made) /\ PendingFirst /\ InHand /\ Ending

LEMMA UptoAppend ==
    ASSUME NEW s, NEW n \in Nat, n + 1 \in Requests, Upto(s, n)
    PROVE  /\ Upto(Append(s, n + 1), n + 1)
           /\ Len(Append(s, n + 1)) = Len(s) + 1
           /\ Append(s, n + 1) # <<>>
<1>1. Upto(Append(s, n + 1), n + 1) /\ Len(Append(s, n + 1)) = Len(s) + 1
  BY MaxRequestsAssumption, SMTT(30) DEF Upto, Requests
<1>2. Len(s) \in Nat /\ Append(s, n + 1) \in Seq(Requests)
  BY <1>1, SMTT(30) DEF Upto
<1> QED
  BY <1>1, <1>2, EmptySeq, SMTT(30)

LEMMA UptoTail ==
    ASSUME NEW s, NEW n \in Nat, s # <<>>, Upto(s, n)
    PROVE  /\ Upto(Tail(s), n) /\ Len(Tail(s)) = Len(s) - 1 /\ Len(s) > 0
           /\ Head(s) = n - Len(s) + 1 /\ Head(s) \in Requests
BY MaxRequestsAssumption, SMTT(30) DEF Upto, Requests

LEMMA UptoEmpty == \A n \in Nat : Upto(<<>>, n)
BY MaxRequestsAssumption, SMTT(30) DEF Upto, Requests

(* A channel of capacity 1 is empty before it is sent to and after it was     *)
(* received from.                                                            *)
LEMMA ChannelAppend ==
    ASSUME NEW s \in Seq(Requests), NEW r \in Requests, Len(s) < Capacity
    PROVE  /\ Append(s, r) \in Seq(Requests) /\ Append(s, r)[1] = r
           /\ Len(s) = 0 /\ Len(Append(s, r)) = 1 /\ Len(Append(s, r)) <= Capacity
BY SMTT(30) DEF Capacity

LEMMA ChannelTail ==
    ASSUME NEW s \in Seq(Requests), Len(s) <= Capacity, s # <<>>
    PROVE  /\ Tail(s) \in Seq(Requests) /\ Tail(s) = <<>> /\ Len(Tail(s)) = 0
           /\ Len(s) = 1 /\ Head(s) = s[1] /\ Head(s) \in Requests
BY SMTT(30) DEF Capacity

LEMMA Pop ==
    ASSUME QueueInv, queue # <<>>
    PROVE  /\ Upto(Tail(queue), made) /\ Len(queue) \in Nat /\ Len(queue) > 0
           /\ Tail(queue) \in Seq(Requests) /\ Len(Tail(queue)) = Len(queue) - 1
           /\ Head(queue) = made - Len(queue) + 1 /\ Head(queue) \in Requests
BY UptoTail, MaxRequestsAssumption, SMTT(30) DEF QueueInv, TypeOK, Data, Upto

LEMMA PopCallback ==
    ASSUME QueueInv, callbacks # <<>>
    PROVE  /\ Upto(Tail(callbacks), made) /\ Len(callbacks) \in Nat /\ Len(callbacks) > 0
           /\ Tail(callbacks) \in Seq(Requests) /\ Len(Tail(callbacks)) = Len(callbacks) - 1
           /\ Head(callbacks) = made - Len(callbacks) + 1 /\ Head(callbacks) \in Requests
BY UptoTail, MaxRequestsAssumption, SMTT(30) DEF QueueInv, TypeOK, Data, Upto


(* What the invariant says of the values the steps compute with. *)
LEMMA Values ==
    ASSUME QueueInv
    PROVE  /\ made \in Nat /\ Len(queue) \in Nat /\ Len(callbacks) \in Nat
           /\ pending \in Nat /\ received \in Nat
           /\ confC \in Seq(Requests) /\ Len(confC) \in Nat /\ Len(confC) <= Capacity
           /\ errC \in Seq(Requests) /\ Len(errC) \in Nat /\ Len(errC) <= Capacity
           /\ Canceling => canceled \in Requests
           /\ rpc # "read" => received \in Requests /\ kind \in {"result", "error"}
<1>1. /\ made \in 0..MaxRequests /\ canceled \in 0..MaxRequests /\ received \in 0..MaxRequests
      /\ pending \in 0..MaxRequests
      /\ kind \in {"none", "result", "error"} /\ InHand
      /\ queue \in Seq(Requests) /\ callbacks \in Seq(Requests)
      /\ confC \in Seq(Requests) /\ Len(confC) <= Capacity
      /\ errC \in Seq(Requests) /\ Len(errC) <= Capacity
  BY DEF QueueInv, TypeOK, Data, Places
<1>2. Canceling => canceled \in Requests
  BY <1>1, MaxRequestsAssumption, SMTT(30) DEF InHand, Requests
<1>3. rpc # "read" => received \in Requests /\ kind \in {"result", "error"}
  BY <1>1, MaxRequestsAssumption, SMTT(30) DEF InHand, Requests
<1> QED
  BY <1>1, <1>2, <1>3, MaxRequestsAssumption, SMTT(30)

LEMMA QueueInit == Init => QueueInv
<1> SUFFICES ASSUME Init PROVE QueueInv
  OBVIOUS
<1> USE MaxRequestsAssumption DEF Init, Requests, Capacity
<1>1. Data
  BY MaxClosingsAssumption, SMTT(30) DEF Data
<1>2. Places /\ Flags
  BY DEF Places, Flags
<1>3. Upto(queue, made) /\ Upto(callbacks, made)
  BY UptoEmpty
<1>4. PendingFirst /\ InHand /\ Ending
  BY SMTT(30) DEF PendingFirst, InHand, Ending, Ended, Canceling
<1> QED
  BY <1>1, <1>2, <1>3, <1>4 DEF QueueInv, TypeOK

LEMMA TypeStep == QueueInv /\ [Next]_vars => TypeOK'
<1> SUFFICES ASSUME QueueInv, [Next]_vars PROVE TypeOK'
  OBVIOUS
<1> USE MaxRequestsAssumption, MaxClosingsAssumption DEF Capacity, callVars, queueVars,
        chanVars, timerVars, pumpVars, readerVars, outVars, asyncVars, linkVars, stopVars
<1>0. Data
  BY DEF QueueInv, TypeOK
<1>a. Places
  BY DEF QueueInv, TypeOK
<1>b. Flags
  BY DEF QueueInv, TypeOK
<1>c. raced' \in BOOLEAN
  BY <1>b DEF Flags, Next, Live, vars
<1>1. ASSUME TryQueue PROVE Data' /\ Places' /\ Flags'
  <2>1. made + 1 \in Requests /\ made + 1 \in 0..MaxRequests
    BY <1>0, <1>1, SMTT(30) DEF TryQueue, Data, Requests
  <2>2. queue' \in Seq(Requests) /\ callbacks' \in Seq(Requests)
    BY <1>0, <1>1, <2>1, SMTT(30) DEF TryQueue, Data
  <2>3. Data'
    BY <1>0, <1>1, <2>1, <2>2 DEF TryQueue, Data
  <2>4. Places'
    BY <1>a, <1>1, SMTT(30) DEF TryQueue, Places
  <2>5. Flags'
    BY <1>b, <1>c, <1>1 DEF TryQueue, Flags
  <2> QED
    BY <2>3, <2>4, <2>5
<1>2. ASSUME NEW r \in Requests, Signal(r) PROVE Data' /\ Places' /\ Flags'
  <2>1. requestC' \in 0..1 /\ 0 \in 0..MaxRequests
    BY <1>0, <1>2, SMTT(30) DEF Signal, Data
  <2>2. Data'
    BY <1>0, <1>2, <2>1 DEF Signal, Data
  <2>3. Places'
    BY <1>a, <1>2, SMTT(30) DEF Signal, Places
  <2>4. Flags'
    BY <1>b, <1>c, <1>2 DEF Signal, Flags
  <2> QED
    BY <2>2, <2>3, <2>4
<1>3. ASSUME NEW r \in Requests, SignalBlocks(r) PROVE Data' /\ Places' /\ Flags'
  <2>1. Data'
    BY <1>0, <1>3 DEF SignalBlocks, Data
  <2>2. Places'
    BY <1>a, <1>3, SMTT(30) DEF SignalBlocks, Places
  <2>3. Flags'
    BY <1>b, <1>c, <1>3 DEF SignalBlocks, Flags
  <2> QED
    BY <2>1, <2>2, <2>3
<1>4. ASSUME NEW r \in Requests, ReturnStopped(r) PROVE Data' /\ Places' /\ Flags'
  <2>1. Data'
    BY <1>0, <1>4 DEF ReturnStopped, Data
  <2>2. Places'
    BY <1>a, <1>4, SMTT(30) DEF ReturnStopped, Places
  <2>3. Flags'
    BY <1>b, <1>c, <1>4 DEF ReturnStopped, Flags
  <2> QED
    BY <2>1, <2>2, <2>3
<1>5. ASSUME PumpLoop PROVE Data' /\ Places' /\ Flags'
  <2>1. Data'
    BY <1>0, <1>5 DEF PumpLoop, Data
  <2>2. Places'
    BY <1>a, <1>5, SMTT(30) DEF PumpLoop, Places
  <2>3. Flags'
    BY <1>b, <1>c, <1>5 DEF PumpLoop, Flags
  <2> QED
    BY <2>1, <2>2, <2>3
<1>6. ASSUME PumpToken PROVE Data' /\ Places' /\ Flags'
  <2>1. requestC' \in 0..1 /\ 0 \in 0..MaxRequests
    BY <1>0, <1>6, SMTT(30) DEF PumpToken, Data
  <2>2. Data'
    BY <1>0, <1>6, <2>1 DEF PumpToken, Data
  <2>3. Places'
    BY <1>a, <1>6, SMTT(30) DEF PumpToken, Places
  <2>4. Flags'
    BY <1>b, <1>c, <1>6 DEF PumpToken, Flags
  <2> QED
    BY <2>2, <2>3, <2>4
<1>7. ASSUME PumpReady PROVE Data' /\ Places' /\ Flags'
  <2>1. ready' \in 0..1 /\ 0 \in 0..MaxRequests
    BY <1>0, <1>7, SMTT(30) DEF PumpReady, Data
  <2>2. Data'
    BY <1>0, <1>7, <2>1 DEF PumpReady, Data
  <2>3. Places'
    BY <1>a, <1>7, SMTT(30) DEF PumpReady, Places
  <2>4. Flags'
    BY <1>b, <1>c, <1>7 DEF PumpReady, Flags
  <2> QED
    BY <2>2, <2>3, <2>4
<1>8. ASSUME PumpTimer PROVE Data' /\ Places' /\ Flags'
  <2>1. (pending # 0 \/ ppc # "select") /\ queue # <<>> =>
          /\ Tail(queue) \in Seq(Requests) /\ Head(queue) \in 0..MaxRequests
    BY Pop, SMTT(30) DEF Requests
  <2>2. ready \in 0..1 /\ (ready < 1 => ready + 1 \in 0..1) /\ 0 \in 0..MaxRequests
    BY <1>0, SMTT(30) DEF Data
  <2>3. pending # 0 => queue # <<>>
    BY <1>8 DEF PumpTimer, QueueInv, PendingFirst, Ended
  <2>4. Data'
    BY <1>0, <1>8, <2>1, <2>2, <2>3 DEF PumpTimer, Cancel, Data
  <2>5. Places'
    BY <1>a, <1>8, SMTT(30) DEF PumpTimer, Cancel, Places
  <2>6. Flags'
    BY <1>b, <1>c, <1>8 DEF PumpTimer, Cancel, Flags
  <2> QED
    BY <2>4, <2>5, <2>6
<1>9. ASSUME PumpPaused PROVE Data' /\ Places' /\ Flags'
  <2>1. Data'
    BY <1>0, <1>9 DEF PumpPaused, Data
  <2>2. Places'
    BY <1>a, <1>9, SMTT(30) DEF PumpPaused, Places
  <2>3. Flags'
    BY <1>b, <1>c, <1>9 DEF PumpPaused, Flags
  <2> QED
    BY <2>1, <2>2, <2>3
<1>10. ASSUME PumpDispatch PROVE Data' /\ Places' /\ Flags'
  <2>1. (pending # 0 \/ ppc # "select") /\ queue # <<>> =>
          /\ Tail(queue) \in Seq(Requests) /\ Head(queue) \in 0..MaxRequests
    BY Pop, SMTT(30) DEF Requests
  <2>2. ready \in 0..1 /\ (ready < 1 => ready + 1 \in 0..1) /\ 0 \in 0..MaxRequests
    BY <1>0, SMTT(30) DEF Data
  <2>3. Data'
    BY <1>0, <1>10, <2>1, <2>2 DEF PumpDispatch, Cancel, Data
  <2>4. Places'
    BY <1>a, <1>10, SMTT(30) DEF PumpDispatch, Cancel, Places
  <2>5. Flags'
    BY <1>b, <1>c, <1>10 DEF PumpDispatch, Cancel, Flags
  <2> QED
    BY <2>3, <2>4, <2>5
<1>11. ASSUME PumpCancel PROVE Data' /\ Places' /\ Flags'
  <2>1. errC' \in Seq(Requests) /\ Len(errC') <= 1
    BY <1>11, Values, ChannelAppend DEF PumpCancel, Canceling
  <2>2. Data'
    BY <1>0, <1>11, <2>1, SMTT(30) DEF PumpCancel, Data
  <2>3. Places'
    BY <1>a, <1>11, SMTT(30) DEF PumpCancel, Places
  <2>4. Flags'
    BY <1>b, <1>c, <1>11 DEF PumpCancel, Flags
  <2> QED
    BY <2>2, <2>3, <2>4
<1>12. ASSUME PumpClosed PROVE Data' /\ Places' /\ Flags'
  <2>1. Data'
    BY <1>0, <1>12, UptoEmpty DEF PumpClosed, Data, Upto, QueueInv, TypeOK
  <2>2. Places'
    BY <1>a, <1>12, SMTT(30) DEF PumpClosed, Places
  <2>3. Flags'
    BY <1>b, <1>c, <1>12 DEF PumpClosed, Flags
  <2> QED
    BY <2>1, <2>2, <2>3
<1>13. ASSUME PumpExit PROVE Data' /\ Places' /\ Flags'
  <2>1. Data'
    BY <1>0, <1>13 DEF PumpExit, Data
  <2>2. Places'
    BY <1>a, <1>13, SMTT(30) DEF PumpExit, Places
  <2>3. Flags'
    BY <1>b, <1>c, <1>13 DEF PumpExit, Flags
  <2> QED
    BY <2>1, <2>2, <2>3
<1>14. ASSUME NEW k \in {"result", "error"}, Read(k) PROVE Data' /\ Places' /\ Flags'
  <2>1. Data'
    BY <1>0, <1>14 DEF Read, Data
  <2>2. Places'
    BY <1>a, <1>14, SMTT(30) DEF Read, Places
  <2>3. Flags'
    BY <1>b, <1>c, <1>14 DEF Read, Flags
  <2> QED
    BY <2>1, <2>2, <2>3
<1>15. ASSUME ReadComplete PROVE Data' /\ Places' /\ Flags'
  <2>1. queue # <<>> => Tail(queue) \in Seq(Requests)
    BY Pop
  <2>2. ready \in 0..1 /\ (ready < 1 => ready + 1 \in 0..1) /\ 0 \in 0..MaxRequests
    BY <1>0, SMTT(30) DEF Data
  <2>3. Data'
    BY <1>0, <1>15, <2>1, <2>2 DEF ReadComplete, Data
  <2>4. Places'
    BY <1>a, <1>15, SMTT(30) DEF ReadComplete, Places
  <2>5. Flags'
    BY <1>b, <1>c, <1>15 DEF ReadComplete, Flags
  <2> QED
    BY <2>3, <2>4, <2>5
<1>16. ASSUME ReadReady PROVE Data' /\ Places' /\ Flags'
  <2>1. ready' \in 0..1 /\ 0 \in 0..MaxRequests
    BY <1>0, <1>16, SMTT(30) DEF ReadReady, Data
  <2>2. Data'
    BY <1>0, <1>16, <2>1 DEF ReadReady, Data
  <2>3. Places'
    BY <1>a, <1>16, SMTT(30) DEF ReadReady, Places
  <2>4. Flags'
    BY <1>b, <1>c, <1>16 DEF ReadReady, Flags
  <2> QED
    BY <2>2, <2>3, <2>4
<1>17. ASSUME ReadSend PROVE Data' /\ Places' /\ Flags'
  <2>1. /\ confC' \in Seq(Requests) /\ Len(confC') <= 1
        /\ errC' \in Seq(Requests) /\ Len(errC') <= 1
    BY <1>17, Values, ChannelAppend DEF ReadSend
  <2>2. Data'
    BY <1>0, <1>17, <2>1, SMTT(30) DEF ReadSend, Data
  <2>3. Places'
    BY <1>a, <1>17, SMTT(30) DEF ReadSend, Places
  <2>4. Flags'
    BY <1>b, <1>c, <1>17 DEF ReadSend, Flags
  <2> QED
    BY <2>2, <2>3, <2>4
<1>18. ASSUME AsyncTake PROVE Data' /\ Places' /\ Flags'
  <2>1. /\ confC' \in Seq(Requests) /\ Len(confC') <= 1
        /\ errC' \in Seq(Requests) /\ Len(errC') <= 1 /\ taken' \in Requests
    <3>1. /\ confC \in Seq(Requests) /\ Len(confC) <= 1
          /\ errC \in Seq(Requests) /\ Len(errC) <= 1
      BY <1>0 DEF Data
    <3> QED
      BY <1>18, <3>1, ChannelTail, SMTT(30) DEF AsyncTake
  <2>2. taken' \in 0..MaxRequests
    BY <2>1, SMTT(30) DEF Requests
  <2>3. Data'
    BY <1>0, <1>18, <2>1, <2>2 DEF AsyncTake, Data
  <2>4. Places'
    BY <1>a, <1>18, SMTT(30) DEF AsyncTake, Places
  <2>5. Flags'
    BY <1>b, <1>c, <1>18 DEF AsyncTake, Flags
  <2> QED
    BY <2>3, <2>4, <2>5
<1>19. ASSUME AsyncDequeue PROVE Data' /\ Places' /\ Flags'
  <2>1. /\ callbacks # <<>> => Tail(callbacks) \in Seq(Requests) /\ Head(callbacks) \in Requests
        /\ 0 \in 0..MaxRequests
    BY PopCallback, SMTT(30)
  <2>2. callbacks' \in Seq(Requests)
    BY <1>0, <1>19, <2>1 DEF AsyncDequeue, Data
  <2>3. Data'
    BY <1>0, <1>19, <2>1, <2>2 DEF AsyncDequeue, Data
  <2>4. Places'
    BY <1>a, <1>19, SMTT(30) DEF AsyncDequeue, Places
  <2>5. Flags'
    BY <1>b, <1>c, <1>19 DEF AsyncDequeue, Flags
  <2> QED
    BY <2>3, <2>4, <2>5
<1>20. ASSUME AsyncStop PROVE Data' /\ Places' /\ Flags'
  <2>1. Data'
    BY <1>0, <1>20 DEF AsyncStop, Data
  <2>2. Places'
    BY <1>a, <1>20, SMTT(30) DEF AsyncStop, Places
  <2>3. Flags'
    BY <1>b, <1>c, <1>20 DEF AsyncStop, Flags
  <2> QED
    BY <2>1, <2>2, <2>3
<1>21. ASSUME AsyncClear PROVE Data' /\ Places' /\ Flags'
  <2>1. /\ callbacks # <<>> => Tail(callbacks) \in Seq(Requests) /\ Head(callbacks) \in Requests
        /\ 0 \in 0..MaxRequests
    BY PopCallback, SMTT(30)
  <2>2. callbacks' \in Seq(Requests)
    BY <1>0, <1>21, <2>1 DEF AsyncClear, Data
  <2>3. Data'
    BY <1>0, <1>21, <2>1, <2>2 DEF AsyncClear, Data
  <2>4. Places'
    BY <1>a, <1>21, SMTT(30) DEF AsyncClear, Places
  <2>5. Flags'
    BY <1>b, <1>c, <1>21 DEF AsyncClear, Flags
  <2> QED
    BY <2>3, <2>4, <2>5
<1>22. ASSUME LinkLost PROVE Data' /\ Places' /\ Flags'
  <2>1. closings' \in 0..MaxClosings /\ 0 \in 0..MaxRequests
    BY <1>0, <1>22, SMTT(30) DEF LinkLost, Data
  <2>2. Data'
    BY <1>0, <1>22, <2>1 DEF LinkLost, Data
  <2>3. Places'
    BY <1>a, <1>22, SMTT(30) DEF LinkLost, Places
  <2>4. Flags'
    BY <1>b, <1>c, <1>22 DEF LinkLost, Flags
  <2> QED
    BY <2>2, <2>3, <2>4
<1>23. ASSUME PauseWait PROVE Data' /\ Places' /\ Flags'
  <2>1. Data'
    BY <1>0, <1>23 DEF PauseWait, Data
  <2>2. Places'
    BY <1>a, <1>23, SMTT(30) DEF PauseWait, Places
  <2>3. Flags'
    BY <1>b, <1>c, <1>23 DEF PauseWait, Flags
  <2> QED
    BY <2>1, <2>2, <2>3
<1>24. ASSUME PauseLock PROVE Data' /\ Places' /\ Flags'
  <2>1. Data'
    BY <1>0, <1>24 DEF PauseLock, Data
  <2>2. Places'
    BY <1>a, <1>24, SMTT(30) DEF PauseLock, Places
  <2>3. Flags'
    BY <1>b, <1>c, <1>24 DEF PauseLock, Flags
  <2> QED
    BY <2>1, <2>2, <2>3
<1>25. ASSUME PauseDrain PROVE Data' /\ Places' /\ Flags'
  <2>1. Data'
    BY <1>0, <1>25 DEF PauseDrain, Data
  <2>2. Places'
    BY <1>a, <1>25, SMTT(30) DEF PauseDrain, Places
  <2>3. Flags'
    BY <1>b, <1>c, <1>25 DEF PauseDrain, Flags
  <2> QED
    BY <2>1, <2>2, <2>3
<1>26. ASSUME LinkRestored PROVE Data' /\ Places' /\ Flags'
  <2>1. Data'
    BY <1>0, <1>26 DEF LinkRestored, Data
  <2>2. Places'
    BY <1>a, <1>26, SMTT(30) DEF LinkRestored, Places
  <2>3. Flags'
    BY <1>b, <1>c, <1>26 DEF LinkRestored, Flags
  <2> QED
    BY <2>1, <2>2, <2>3
<1>27. ASSUME ResumeWait PROVE Data' /\ Places' /\ Flags'
  <2>1. Data'
    BY <1>0, <1>27 DEF ResumeWait, Data
  <2>2. Places'
    BY <1>a, <1>27, SMTT(30) DEF ResumeWait, Places
  <2>3. Flags'
    BY <1>b, <1>c, <1>27 DEF ResumeWait, Flags
  <2> QED
    BY <2>1, <2>2, <2>3
<1>28. ASSUME ResumeLock PROVE Data' /\ Places' /\ Flags'
  <2>1. Data'
    BY <1>0, <1>28 DEF ResumeLock, Data
  <2>2. Places'
    BY <1>a, <1>28, SMTT(30) DEF ResumeLock, Places
  <2>3. Flags'
    BY <1>b, <1>c, <1>28 DEF ResumeLock, Flags
  <2> QED
    BY <2>1, <2>2, <2>3
<1>29. ASSUME ResumeCheck PROVE Data' /\ Places' /\ Flags'
  <2>1. Data'
    BY <1>0, <1>29 DEF ResumeCheck, Data
  <2>2. Places'
    BY <1>a, <1>29, SMTT(30) DEF ResumeCheck, Places
  <2>3. Flags'
    BY <1>b, <1>c, <1>29 DEF ResumeCheck, Flags
  <2> QED
    BY <2>1, <2>2, <2>3
<1>30. ASSUME ResumeReady PROVE Data' /\ Places' /\ Flags'
  <2>1. ready' \in 0..1 /\ 0 \in 0..MaxRequests
    BY <1>0, <1>30, SMTT(30) DEF ResumeReady, Data
  <2>2. Data'
    BY <1>0, <1>30, <2>1 DEF ResumeReady, Data
  <2>3. Places'
    BY <1>a, <1>30, SMTT(30) DEF ResumeReady, Places
  <2>4. Flags'
    BY <1>b, <1>c, <1>30 DEF ResumeReady, Flags
  <2> QED
    BY <2>2, <2>3, <2>4
<1>31. ASSUME StopLink PROVE Data' /\ Places' /\ Flags'
  <2>1. closings' \in 0..MaxClosings /\ 0 \in 0..MaxRequests
    BY <1>0, <1>31, SMTT(30) DEF StopLink, Data
  <2>2. Data'
    BY <1>0, <1>31, <2>1 DEF StopLink, Data
  <2>3. Places'
    BY <1>a, <1>31, SMTT(30) DEF StopLink, Places
  <2>4. Flags'
    BY <1>b, <1>c, <1>31 DEF StopLink, Flags
  <2> QED
    BY <2>2, <2>3, <2>4
<1>32. ASSUME StopWait PROVE Data' /\ Places' /\ Flags'
  <2>1. Data'
    BY <1>0, <1>32 DEF StopWait, Data
  <2>2. Places'
    BY <1>a, <1>32, SMTT(30) DEF StopWait, Places
  <2>3. Flags'
    BY <1>b, <1>c, <1>32 DEF StopWait, Flags
  <2> QED
    BY <2>1, <2>2, <2>3
<1>33. ASSUME StopClose PROVE Data' /\ Places' /\ Flags'
  <2>1. Data'
    BY <1>0, <1>33 DEF StopClose, Data
  <2>2. Places'
    BY <1>a, <1>33, SMTT(30) DEF StopClose, Places
  <2>3. Flags'
    BY <1>b, <1>c, <1>33 DEF StopClose, Flags
  <2> QED
    BY <2>1, <2>2, <2>3
<1>34. ASSUME StopAsync PROVE Data' /\ Places' /\ Flags'
  <2>1. Data'
    BY <1>0, <1>34 DEF StopAsync, Data
  <2>2. Places'
    BY <1>a, <1>34, SMTT(30) DEF StopAsync, Places
  <2>3. Flags'
    BY <1>b, <1>c, <1>34 DEF StopAsync, Flags
  <2> QED
    BY <2>1, <2>2, <2>3
<1>35. ASSUME UNCHANGED vars PROVE Data' /\ Places' /\ Flags'
  <2>1. Data'
    BY <1>0, <1>35 DEF Data, vars
  <2>2. Places'
    BY <1>a, <1>35, SMTT(30) DEF Places, vars
  <2>3. Flags'
    BY <1>b, <1>35 DEF Flags, vars
  <2> QED
    BY <2>1, <2>2, <2>3
<1> QED
  BY <1>1, <1>2, <1>3, <1>4, <1>5, <1>6, <1>7, <1>8, <1>9, <1>10, <1>11, <1>12, <1>13, <1>14,
     <1>15, <1>16, <1>17, <1>18, <1>19, <1>20, <1>21, <1>22, <1>23, <1>24, <1>25, <1>26,
     <1>27, <1>28, <1>29, <1>30, <1>31, <1>32, <1>33, <1>34, <1>35
  DEF Next, Live, TypeOK, Caller, Pump, PumpWorks, Reader, Async, Pause, Resume, Stop

(* Steps that move no request, callback or outcome: those of the callers once *)
(* they have queued, of the link and of Stop, and the pump's until it         *)
(* dispatches or cancels.                                                    *)
Quiet ==
    \/ \E r \in Requests : Caller(r)
    \/ PumpLoop \/ PumpToken \/ PumpReady \/ PumpPaused \/ PumpExit
    \/ LinkLost \/ Pause \/ LinkRestored \/ Resume \/ StopLink \/ Stop

LEMMA QuietStep ==
    ASSUME QueueInv, Quiet
    PROVE  /\ UNCHANGED <<made, callbacks, queue, pending, canceled, rpc, received, kind>>
           /\ UNCHANGED <<confC, errC, apc, taken, mispaired, doubled>>
           /\ (Ended' <=> Ended) /\ (Canceling' <=> Canceling) /\ Ending'
<1> DEFINE Kept == /\ UNCHANGED <<made, callbacks, queue, pending, canceled, rpc, received,
                                  kind>>
                   /\ UNCHANGED <<confC, errC, apc, taken, mispaired, doubled>>
           Placed == (Ended' <=> Ended) /\ (Canceling' <=> Canceling) /\ Ending'
<1> USE DEF callVars, queueVars, chanVars, timerVars, pumpVars, readerVars, outVars,
        asyncVars, linkVars, stopVars
<1>0. Ending
  BY DEF QueueInv
<1>1. ASSUME NEW r \in Requests, Signal(r) PROVE Kept /\ Placed
  <2>1. Kept
    BY <1>1 DEF Signal
  <2>2. Placed
    BY <1>0, <1>1, SMTT(30) DEF Signal, Ended, Canceling, Ending
  <2> QED
    BY <2>1, <2>2
<1>2. ASSUME NEW r \in Requests, SignalBlocks(r) PROVE Kept /\ Placed
  <2>1. Kept
    BY <1>2 DEF SignalBlocks
  <2>2. Placed
    BY <1>0, <1>2, SMTT(30) DEF SignalBlocks, Ended, Canceling, Ending
  <2> QED
    BY <2>1, <2>2
<1>3. ASSUME NEW r \in Requests, ReturnStopped(r) PROVE Kept /\ Placed
  <2>1. Kept
    BY <1>3 DEF ReturnStopped
  <2>2. Placed
    BY <1>0, <1>3, SMTT(30) DEF ReturnStopped, Ended, Canceling, Ending
  <2> QED
    BY <2>1, <2>2
<1>4. ASSUME PumpLoop PROVE Kept /\ Placed
  <2>1. Kept
    BY <1>4 DEF PumpLoop
  <2>2. Placed
    BY <1>0, <1>4, SMTT(30) DEF PumpLoop, Ended, Canceling, Ending
  <2> QED
    BY <2>1, <2>2
<1>5. ASSUME PumpToken PROVE Kept /\ Placed
  <2>1. Kept
    BY <1>5 DEF PumpToken
  <2>2. Placed
    BY <1>0, <1>5, SMTT(30) DEF PumpToken, Ended, Canceling, Ending
  <2> QED
    BY <2>1, <2>2
<1>6. ASSUME PumpReady PROVE Kept /\ Placed
  <2>1. Kept
    BY <1>6 DEF PumpReady
  <2>2. Placed
    BY <1>0, <1>6, SMTT(30) DEF PumpReady, Ended, Canceling, Ending
  <2> QED
    BY <2>1, <2>2
<1>7. ASSUME PumpPaused PROVE Kept /\ Placed
  <2>1. Kept
    BY <1>7 DEF PumpPaused
  <2>2. Placed
    BY <1>0, <1>7, SMTT(30) DEF PumpPaused, Ended, Canceling, Ending
  <2> QED
    BY <2>1, <2>2
<1>8. ASSUME PumpExit PROVE Kept /\ Placed
  <2>1. Kept
    BY <1>8 DEF PumpExit
  <2>2. Placed
    BY <1>0, <1>8, SMTT(30) DEF PumpExit, Ended, Canceling, Ending
  <2> QED
    BY <2>1, <2>2
<1>9. ASSUME LinkLost PROVE Kept /\ Placed
  <2>1. Kept
    BY <1>9 DEF LinkLost
  <2>2. Placed
    BY <1>0, <1>9, SMTT(30) DEF LinkLost, Ended, Canceling, Ending
  <2> QED
    BY <2>1, <2>2
<1>10. ASSUME PauseWait PROVE Kept /\ Placed
  <2>1. Kept
    BY <1>10 DEF PauseWait
  <2>2. Placed
    BY <1>0, <1>10, SMTT(30) DEF PauseWait, Ended, Canceling, Ending
  <2> QED
    BY <2>1, <2>2
<1>11. ASSUME PauseLock PROVE Kept /\ Placed
  <2>1. Kept
    BY <1>11 DEF PauseLock
  <2>2. Placed
    BY <1>0, <1>11, SMTT(30) DEF PauseLock, Ended, Canceling, Ending
  <2> QED
    BY <2>1, <2>2
<1>12. ASSUME PauseDrain PROVE Kept /\ Placed
  <2>1. Kept
    BY <1>12 DEF PauseDrain
  <2>2. Placed
    BY <1>0, <1>12, SMTT(30) DEF PauseDrain, Ended, Canceling, Ending
  <2> QED
    BY <2>1, <2>2
<1>13. ASSUME LinkRestored PROVE Kept /\ Placed
  <2>1. Kept
    BY <1>13 DEF LinkRestored
  <2>2. Placed
    BY <1>0, <1>13, SMTT(30) DEF LinkRestored, Ended, Canceling, Ending
  <2> QED
    BY <2>1, <2>2
<1>14. ASSUME ResumeWait PROVE Kept /\ Placed
  <2>1. Kept
    BY <1>14 DEF ResumeWait
  <2>2. Placed
    BY <1>0, <1>14, SMTT(30) DEF ResumeWait, Ended, Canceling, Ending
  <2> QED
    BY <2>1, <2>2
<1>15. ASSUME ResumeLock PROVE Kept /\ Placed
  <2>1. Kept
    BY <1>15 DEF ResumeLock
  <2>2. Placed
    BY <1>0, <1>15, SMTT(30) DEF ResumeLock, Ended, Canceling, Ending
  <2> QED
    BY <2>1, <2>2
<1>16. ASSUME ResumeCheck PROVE Kept /\ Placed
  <2>1. Kept
    BY <1>16 DEF ResumeCheck
  <2>2. Placed
    BY <1>0, <1>16, SMTT(30) DEF ResumeCheck, Ended, Canceling, Ending
  <2> QED
    BY <2>1, <2>2
<1>17. ASSUME ResumeReady PROVE Kept /\ Placed
  <2>1. Kept
    BY <1>17 DEF ResumeReady
  <2>2. Placed
    BY <1>0, <1>17, SMTT(30) DEF ResumeReady, Ended, Canceling, Ending
  <2> QED
    BY <2>1, <2>2
<1>18. ASSUME StopLink PROVE Kept /\ Placed
  <2>1. Kept
    BY <1>18 DEF StopLink
  <2>2. Placed
    BY <1>0, <1>18, SMTT(30) DEF StopLink, Ended, Canceling, Ending
  <2> QED
    BY <2>1, <2>2
<1>19. ASSUME StopWait PROVE Kept /\ Placed
  <2>1. Kept
    BY <1>19 DEF StopWait
  <2>2. Placed
    BY <1>0, <1>19, SMTT(30) DEF StopWait, Ended, Canceling, Ending
  <2> QED
    BY <2>1, <2>2
<1>20. ASSUME StopClose PROVE Kept /\ Placed
  <2>1. Kept
    BY <1>20 DEF StopClose
  <2>2. Placed
    BY <1>0, <1>20, SMTT(30) DEF StopClose, Ended, Canceling, Ending
  <2> QED
    BY <2>1, <2>2
<1>21. ASSUME StopAsync PROVE Kept /\ Placed
  <2>1. Kept
    BY <1>21 DEF StopAsync
  <2>2. Placed
    BY <1>0, <1>21, SMTT(30) DEF StopAsync, Ended, Canceling, Ending
  <2> QED
    BY <2>1, <2>2
<1> QED
  BY <1>1, <1>2, <1>3, <1>4, <1>5, <1>6, <1>7, <1>8, <1>9, <1>10, <1>11, <1>12, <1>13, <1>14,
     <1>15, <1>16, <1>17, <1>18, <1>19, <1>20, <1>21
  DEF Quiet, Caller, Pause, Resume, Stop

(* The pump takes the first request off the queue to cancel it ... *)
Removes ==
    /\ queue # <<>> /\ canceled' = Head(queue) /\ queue' = Tail(queue) /\ pending' = 0
    /\ ~Canceling /\ Canceling' /\ ~Ended /\ ~Ended'

(* ... or leaves the queue as it is. *)
Leaves ==
    /\ UNCHANGED <<queue, canceled>>
    /\ pending' = pending \/ (queue # <<>> /\ pending = 0 /\ pending' = Head(queue))
    /\ ~Canceling /\ ~Canceling' /\ ~Ended /\ ~Ended'

LEMMA PumpMoves ==
    ASSUME QueueInv, PumpTimer \/ PumpDispatch
    PROVE  /\ UNCHANGED <<made, callbacks, rpc, received, kind, confC, errC, apc, taken,
                          mispaired>>
           /\ UNCHANGED <<doubled, requestChannel, spc, stopC>>
           /\ Removes \/ Leaves
<1> USE DEF callVars, queueVars, chanVars, readerVars, outVars, asyncVars, stopVars
<1>1. /\ UNCHANGED <<made, callbacks, rpc, received, kind, confC, errC, apc, taken, mispaired>>
      /\ UNCHANGED <<doubled, requestChannel, spc, stopC>>
  BY DEF PumpTimer, PumpDispatch
<1>2. ~Ended /\ ~Canceling
  BY SMTT(30) DEF PumpTimer, PumpDispatch, Ended, Canceling
<1>3. pending # 0 => queue # <<>> /\ pending = Head(queue)
  BY <1>2, Pop DEF QueueInv, PendingFirst
<1>4. CASE PumpTimer /\ pending # 0
  BY <1>2, <1>3, <1>4, SMTT(30) DEF PumpTimer, Cancel, Removes, Ended, Canceling
<1>5. CASE PumpTimer /\ pending = 0
  BY <1>2, <1>5, SMTT(30) DEF PumpTimer, Leaves, Ended, Canceling
<1>6. CASE PumpDispatch
  <2>1. CASE queue # <<>> /\ link # "up"
    <3>1. pending' = 0
      BY <1>3, <1>6, <2>1 DEF PumpDispatch, Cancel
    <3>2. canceled' = Head(queue) /\ queue' = Tail(queue) /\ ppc' \in {"failed", "stuck"}
      BY <1>6, <2>1 DEF PumpDispatch, Cancel
    <3> QED
      BY <1>1, <1>2, <2>1, <3>1, <3>2, SMTT(30) DEF Removes, Ended, Canceling
  <2>2. CASE ~(queue # <<>> /\ link # "up")
    <3>1. /\ ppc' \in {"dispatch", "loop"} /\ UNCHANGED <<queue, canceled>>
          /\ pending' = pending \/ (queue # <<>> /\ pending = 0 /\ pending' = Head(queue))
      BY <1>6, <2>2 DEF PumpDispatch
    <3> QED
      BY <1>1, <1>2, <3>1, SMTT(30) DEF Leaves, Ended, Canceling
  <2> QED
    BY <2>1, <2>2
<1> QED
  BY <1>1, <1>4, <1>5, <1>6

(* The invariant only speaks of these variables and places. *)
LEMMA QueueKept ==
    ASSUME QueueInv, TypeOK', Ending',
           UNCHANGED <<made, callbacks, queue, pending, canceled, rpc, received, kind>>,
           Ended' <=> Ended, Canceling' => Canceling
    PROVE  QueueInv'
<1>1. (Upto(queue, made))' /\ (Upto(callbacks, made))'
  BY DEF QueueInv
<1>2. PendingFirst' /\ InHand'
  BY DEF QueueInv, PendingFirst, InHand
<1> QED
  BY <1>1, <1>2 DEF QueueInv

LEMMA QueueStep == QueueInv /\ [Next]_vars => QueueInv'
<1> SUFFICES ASSUME QueueInv, [Next]_vars PROVE QueueInv'
  OBVIOUS
<1> USE MaxRequestsAssumption DEF Capacity, callVars, queueVars, chanVars, pumpVars, readerVars,
        outVars, asyncVars, stopVars
<1>0. TypeOK'
  BY TypeStep
<1>a. Upto(queue, made) /\ Upto(callbacks, made) /\ PendingFirst /\ InHand /\ Ending
  BY DEF QueueInv
<1>b. /\ made \in Nat /\ Len(queue) \in Nat /\ pending \in Nat /\ received \in Nat
      /\ Len(queue) <= made
  BY Values, <1>a DEF Upto
<1>1. ASSUME TryQueue PROVE QueueInv'
  <2>1. made + 1 \in Requests
    BY <1>1, <1>b, SMTT(30) DEF TryQueue, Requests
  <2>2. (Upto(queue, made))' /\ (Upto(callbacks, made))' /\ Len(queue') = Len(queue) + 1
    BY <1>1, <1>a, <1>b, <2>1, UptoAppend DEF TryQueue
  <2>3. /\ UNCHANGED <<pending, ppc, rpc, received, kind, canceled>> /\ made' = made + 1
        /\ queue' # <<>>
    BY <1>1, <1>a, <1>b, <2>1, UptoAppend DEF TryQueue
  <2>4. PendingFirst' /\ InHand'
    BY <1>a, <1>b, <2>2, <2>3, SMTT(30) DEF PendingFirst, InHand, Ended, Canceling
  <2>5. Ending'
    BY <1>1, <1>a DEF TryQueue, Ending, Ended
  <2> QED
    BY <1>0, <2>2, <2>4, <2>5 DEF QueueInv
<1>2. ASSUME Quiet PROVE QueueInv'
  BY <1>0, <1>2, QuietStep, QueueKept
<1>3. ASSUME PumpTimer \/ PumpDispatch PROVE QueueInv'
  <2>1. Ending'
    <3>1. UNCHANGED <<requestChannel, spc, stopC, apc>> /\ ~Ended'
      BY <1>3, PumpMoves DEF Removes, Leaves
    <3> QED
      BY <1>a, <3>1 DEF Ending
  <2>2. CASE Removes
    <3>1. Upto(queue, made)' /\ Len(queue') = Len(queue) - 1 /\ Head(queue) = made - Len(queue) + 1
      BY <1>3, <2>2, Pop, PumpMoves DEF Removes
    <3>2. (Upto(callbacks, made))' /\ canceled' # 0
      <4>1. canceled' \in Requests
        BY <2>2, Pop DEF Removes
      <4> QED
        BY <1>3, <1>a, <4>1, PumpMoves, SMTT(30) DEF Requests
    <3>3. pending # 0 => pending = Head(queue)
      BY <1>a, <2>2, <3>1 DEF PendingFirst, Removes
    <3>4. UNCHANGED <<made, rpc, received, kind>> /\ pending' = 0 /\ ~Ended'
      BY <1>3, <2>2, PumpMoves DEF Removes
    <3>5. PendingFirst' /\ InHand'
      BY <1>a, <1>b, <3>1, <3>2, <3>3, <3>4, SMTT(30) DEF PendingFirst, InHand
    <3> QED
      BY <1>0, <2>1, <3>1, <3>2, <3>5 DEF QueueInv
  <2>3. CASE Leaves
    <3>1. (Upto(queue, made))' /\ (Upto(callbacks, made))'
      BY <1>3, <1>a, <2>3, PumpMoves DEF Leaves
    <3>2. /\ UNCHANGED <<made, rpc, received, kind, queue>> /\ ~Ended /\ ~Ended' /\ ~Canceling'
          /\ pending' = pending \/ (queue # <<>> /\ pending = 0 /\ pending' = made - Len(queue) + 1)
      BY <1>3, <2>3, Pop, PumpMoves DEF Leaves
    <3>3. PendingFirst' /\ InHand'
      BY <1>a, <1>b, <3>2, SMTT(30) DEF PendingFirst, InHand
    <3> QED
      BY <1>0, <2>1, <3>1, <3>3 DEF QueueInv
  <2> QED
    BY <1>3, <2>2, <2>3, PumpMoves
<1>4. ASSUME PumpCancel PROVE QueueInv'
  <2>1. UNCHANGED <<made, callbacks, queue, pending, rpc, received, kind>>
    BY <1>4 DEF PumpCancel
  <2>2. ~Ended /\ ~Ended' /\ ~Canceling' /\ Ending'
    BY <1>4, <1>a, SMTT(30) DEF PumpCancel, Ended, Canceling, Ending
  <2>3. PendingFirst' /\ InHand'
    BY <1>a, <2>1, <2>2 DEF PendingFirst, InHand
  <2> QED
    BY <1>0, <1>a, <2>1, <2>2, <2>3 DEF QueueInv
<1>5. ASSUME PumpClosed PROVE QueueInv'
  <2>1. /\ UNCHANGED <<made, callbacks, pending, rpc, received, kind, canceled>>
        /\ queue' = <<>>
    BY <1>5 DEF PumpClosed
  <2>2. ~Ended /\ Ended' /\ ~Canceling' /\ Ending'
    BY <1>5, <1>a, SMTT(30) DEF PumpClosed, Ended, Canceling, Ending
  <2>3. (Upto(queue, made))' /\ Len(queue') = 0
    BY <1>b, <2>1, UptoEmpty, SMTT(30)
  <2>4. queue # <<>> => Len(queue) > 0
    BY Pop
  <2>5. PendingFirst' /\ InHand'
    BY <1>a, <1>b, <2>1, <2>2, <2>3, <2>4, SMTT(30) DEF PendingFirst, InHand
  <2> QED
    BY <1>0, <1>a, <2>1, <2>2, <2>3, <2>5 DEF QueueInv
<1>6. ASSUME NEW k \in {"result", "error"}, Read(k) PROVE QueueInv'
  <2>1. /\ UNCHANGED <<made, callbacks, queue, pending, ppc, canceled, requestChannel, spc,
                       stopC, apc>>
        /\ received' = pending /\ pending # 0 /\ kind' = k /\ rpc' = "complete"
    BY <1>6 DEF Read
  <2>2. k # "none"
    BY SMTT(30)
  <2>3. PendingFirst' /\ InHand' /\ Ending'
    BY <1>a, <2>1, <2>2, SMTT(30) DEF PendingFirst, InHand, Ending, Ended, Canceling
  <2> QED
    BY <1>0, <1>a, <2>1, <2>3 DEF QueueInv
<1>7. ASSUME ReadComplete PROVE QueueInv'
  <2>1. /\ UNCHANGED <<made, callbacks, ppc, canceled, requestChannel, spc, stopC, apc>>
        /\ UNCHANGED <<received, kind>> /\ rpc' \in {"ready", "send"} /\ rpc = "complete"
    BY <1>7 DEF ReadComplete
  <2>2. Ending'
    BY <1>a, <2>1 DEF Ending, Ended
  <2>3. CASE queue # <<>> /\ Head(queue) = received
    <3>1. (Upto(queue, made))' /\ Len(queue') = Len(queue) - 1 /\ Head(queue) = made - Len(queue) + 1
      BY <1>7, <2>1, <2>3, Pop DEF ReadComplete
    <3>2. ~Ended /\ (pending = 0 \/ pending = received)
      BY <1>a, <1>b, <2>1, <2>3, <3>1, SMTT(30) DEF PendingFirst, InHand
    <3>3. pending' = 0
      BY <1>7, <2>3, <3>2 DEF ReadComplete
    <3>4. PendingFirst' /\ InHand'
      BY <1>a, <2>1, <3>2, <3>3, SMTT(30) DEF PendingFirst, InHand, Ended, Canceling
    <3> QED
      BY <1>0, <1>a, <2>1, <2>2, <3>1, <3>4 DEF QueueInv
  <2>4. CASE ~(queue # <<>> /\ Head(queue) = received)
    <3>1. UNCHANGED <<queue, pending>>
      BY <1>7, <2>4 DEF ReadComplete
    <3>2. PendingFirst' /\ InHand'
      BY <1>a, <2>1, <3>1, SMTT(30) DEF PendingFirst, InHand, Ended, Canceling
    <3> QED
      BY <1>0, <1>a, <2>1, <2>2, <3>1, <3>2 DEF QueueInv
  <2> QED
    BY <2>3, <2>4
<1>8. ASSUME ReadReady PROVE QueueInv'
  <2>1. UNCHANGED <<made, callbacks, queue, pending, ppc, canceled, requestChannel, spc,
                    stopC, apc>>
    BY <1>8 DEF ReadReady
  <2>2. rpc = "ready" /\ rpc' = "send" /\ UNCHANGED <<received, kind>>
    BY <1>8 DEF ReadReady
  <2>3. PendingFirst' /\ InHand' /\ Ending'
    BY <1>a, <2>1, <2>2, SMTT(30) DEF PendingFirst, InHand, Ending, Ended, Canceling
  <2> QED
    BY <1>0, <1>a, <2>1, <2>3 DEF QueueInv
<1>9. ASSUME ReadSend PROVE QueueInv'
  <2>1. UNCHANGED <<made, callbacks, queue, pending, ppc, canceled, requestChannel, spc,
                    stopC, apc>>
    BY <1>9 DEF ReadSend
  <2>2. rpc' = "read"
    BY <1>9 DEF ReadSend
  <2>3. PendingFirst' /\ InHand' /\ Ending'
    BY <1>a, <2>1, <2>2, SMTT(30) DEF PendingFirst, InHand, Ending, Ended, Canceling
  <2> QED
    BY <1>0, <1>a, <2>1, <2>3 DEF QueueInv
<1>10. ASSUME AsyncTake PROVE QueueInv'
  <2>1. UNCHANGED <<made, callbacks, queue, pending, canceled, rpc, received, kind, ppc>>
    BY <1>10 DEF AsyncTake
  <2>2. Ending'
    BY <1>a, <1>10, SMTT(30) DEF AsyncTake, Ending, Ended
  <2> QED
    BY <1>0, <2>1, <2>2, QueueKept DEF Ended, Canceling
<1>11. ASSUME AsyncDequeue PROVE QueueInv'
  <2>1. UNCHANGED <<made, queue, pending, canceled, rpc, received, kind, ppc>>
    BY <1>11 DEF AsyncDequeue
  <2>2. Ending'
    BY <1>a, <1>11, SMTT(30) DEF AsyncDequeue, Ending, Ended
  <2>3. PendingFirst' /\ InHand'
    BY <1>a, <2>1 DEF PendingFirst, InHand, Ended, Canceling
  <2>4. (Upto(callbacks, made))'
    BY <1>a, <1>b, <1>11, <2>1, PopCallback, UptoEmpty DEF AsyncDequeue
  <2> QED
    BY <1>0, <1>a, <2>1, <2>2, <2>3, <2>4 DEF QueueInv
<1>12. ASSUME AsyncStop PROVE QueueInv'
  <2>1. UNCHANGED <<made, callbacks, queue, pending, canceled, rpc, received, kind, ppc>>
    BY <1>12 DEF AsyncStop
  <2>2. Ending'
    BY <1>a, <1>12, SMTT(30) DEF AsyncStop, Ending, Ended
  <2> QED
    BY <1>0, <2>1, <2>2, QueueKept DEF Ended, Canceling
<1>13. ASSUME AsyncClear PROVE QueueInv'
  <2>1. UNCHANGED <<made, queue, pending, canceled, rpc, received, kind, ppc>>
    BY <1>13 DEF AsyncClear
  <2>2. Ending'
    BY <1>a, <1>13, SMTT(30) DEF AsyncClear, Ending, Ended
  <2>3. PendingFirst' /\ InHand'
    BY <1>a, <2>1 DEF PendingFirst, InHand, Ended, Canceling
  <2>4. (Upto(callbacks, made))'
    BY <1>a, <1>b, <1>13, <2>1, PopCallback, UptoEmpty DEF AsyncClear
  <2> QED
    BY <1>0, <1>a, <2>1, <2>2, <2>3, <2>4 DEF QueueInv
<1>14. ASSUME UNCHANGED vars PROVE QueueInv'
  <2>1. /\ UNCHANGED <<made, callbacks, queue, pending, canceled, rpc, received, kind, ppc>>
        /\ UNCHANGED <<requestChannel, spc, stopC, apc>>
    BY <1>14 DEF vars
  <2>2. Ending'
    BY <1>a, <2>1 DEF Ending, Ended
  <2> QED
    BY <1>0, <2>1, <2>2, QueueKept DEF Ended, Canceling
<1> QED
  BY <1>1, <1>2, <1>3, <1>4, <1>5, <1>6, <1>7, <1>8, <1>9, <1>10, <1>11, <1>12, <1>13, <1>14
  DEF Next, Live, Pump, PumpWorks, Reader, Async, Quiet

(* The outcomes on their way, as InStep counts them. *)
Outcomes ==
    Len(confC) + Len(errC) + Held(Canceling) + Held(Answering) + Held(apc = "dequeue")

(* InStep, for longer: after Stop, requests are dropped and their callbacks   *)
(* stay, until asyncCallbackHandler takes them off.                          *)
Balance ==
    ~doubled /\ apc \in {"select", "dequeue"} =>
        /\ Len(callbacks) >= Len(queue) + Outcomes
        /\ ~Ended => Len(callbacks) = Len(queue) + Outcomes

LEMMA BalanceInit == Init => Balance
BY SMTT(30) DEF Init, Balance, Outcomes, Held, Canceling, Answering

LEMMA BalanceStep == QueueInv /\ Balance /\ [Next]_vars => Balance'
<1> SUFFICES ASSUME QueueInv, Balance, [Next]_vars PROVE Balance'
  OBVIOUS
<1> USE MaxRequestsAssumption
    DEF Capacity, callVars, queueVars, pumpVars, readerVars, outVars, asyncVars, stopVars
<1>0. Len(callbacks) \in Nat /\ Len(queue) \in Nat /\ Len(confC) \in Nat /\ Len(errC) \in Nat
  BY Values

<1>1. ASSUME TryQueue PROVE Balance'
  <2>1. Len(queue') = Len(queue) + 1 /\ Len(callbacks') = Len(callbacks) + 1
    <3>1. made \in Nat /\ made + 1 \in Requests /\ Upto(queue, made) /\ Upto(callbacks, made)
      BY <1>1, Values, SMTT(30) DEF TryQueue, QueueInv, Requests
    <3> QED
      BY <1>1, <3>1, UptoAppend DEF TryQueue
  <2>2. UNCHANGED <<confC, errC, ppc, rpc, apc, doubled>>
    BY <1>1 DEF TryQueue
  <2> QED
    BY <1>0, <2>1, <2>2, SMTT(30) DEF Balance, Outcomes, Held, Ended, Canceling, Answering
<1>2. ASSUME Quiet PROVE Balance'
  <2>1. UNCHANGED <<callbacks, queue, confC, errC, rpc, apc, doubled>>
    BY <1>2, QuietStep
  <2>2. (Ended' <=> Ended) /\ (Canceling' <=> Canceling)
    BY <1>2, QuietStep
  <2> QED
    BY <1>0, <2>1, <2>2, SMTT(30) DEF Balance, Outcomes, Held, Answering
<1>3. ASSUME PumpTimer \/ PumpDispatch PROVE Balance'
  <2>1. UNCHANGED <<callbacks, confC, errC, rpc, apc, doubled>>
    BY <1>3, PumpMoves
  <2>2. \/ Len(queue') = Len(queue) /\ ~Canceling /\ ~Canceling' /\ ~Ended /\ ~Ended'
        \/ Len(queue') = Len(queue) - 1 /\ ~Canceling /\ Canceling' /\ ~Ended /\ ~Ended'
    BY <1>3, PumpMoves, Pop DEF Removes, Leaves
  <2> QED
    BY <1>0, <2>1, <2>2, SMTT(30) DEF Balance, Outcomes, Held, Answering
<1>4. ASSUME PumpCancel PROVE Balance'
  <2>1. Len(errC') = Len(errC) + 1
    BY <1>4, Values, ChannelAppend, SMTT(30) DEF PumpCancel, Canceling
  <2>2. /\ UNCHANGED <<callbacks, queue, confC, rpc, apc, doubled>>
        /\ ppc \in {"timedout", "failed"} /\ ppc' \in {"paused", "loop"}
    BY <1>4 DEF PumpCancel
  <2>3. Canceling /\ ~Canceling' /\ ~Ended /\ ~Ended'
    BY <2>2, SMTT(30) DEF Canceling, Ended
  <2> QED
    BY <1>0, <2>1, <2>2, <2>3, SMTT(30) DEF Balance, Outcomes, Held, Answering
<1>5. ASSUME PumpClosed PROVE Balance'
  <2>1. /\ UNCHANGED <<callbacks, confC, errC, rpc, apc, doubled>> /\ Len(queue') = 0
        /\ ppc = "select" /\ ppc' = "exit"
    BY <1>5, SMTT(30) DEF PumpClosed
  <2>2. ~Canceling /\ ~Canceling' /\ ~Ended /\ Ended'
    BY <2>1, SMTT(30) DEF Canceling, Ended
  <2> QED
    BY <1>0, <2>1, <2>2, SMTT(30) DEF Balance, Outcomes, Held, Answering
<1>6. ASSUME NEW k \in {"result", "error"}, Read(k) PROVE Balance'
  <2>1. /\ UNCHANGED <<callbacks, queue, confC, errC, ppc, apc, doubled>>
        /\ rpc = "read" /\ rpc' = "complete"
    BY <1>6 DEF Read
  <2> QED
    BY <1>0, <2>1, SMTT(30) DEF Balance, Outcomes, Held, Ended, Canceling, Answering
<1>7. ASSUME ReadComplete PROVE Balance'
  <2>1. /\ UNCHANGED <<callbacks, confC, errC, ppc, apc>>
        /\ rpc = "complete" /\ rpc' \in {"ready", "send"}
        /\ doubled' \/ (UNCHANGED doubled /\ Len(queue') = Len(queue) - 1)
    BY <1>7, Pop DEF ReadComplete
  <2> QED
    BY <1>0, <2>1, SMTT(30) DEF Balance, Outcomes, Held, Ended, Canceling, Answering
<1>8. ASSUME ReadReady PROVE Balance'
  <2>1. /\ UNCHANGED <<callbacks, queue, confC, errC, ppc, apc, doubled>>
        /\ rpc = "ready" /\ rpc' = "send"
    BY <1>8 DEF ReadReady
  <2> QED
    BY <1>0, <2>1, SMTT(30) DEF Balance, Outcomes, Held, Ended, Canceling, Answering
<1>9. ASSUME ReadSend PROVE Balance'
  <2>1. /\ confC \in Seq(Requests) /\ errC \in Seq(Requests) /\ received \in Requests
    BY <1>9, Values DEF ReadSend
  <2>2. \/ Len(confC') = Len(confC) + 1 /\ errC' = errC
        \/ Len(errC') = Len(errC) + 1 /\ confC' = confC
    BY <1>9, <2>1, ChannelAppend, SMTT(30) DEF ReadSend
  <2>3. /\ rpc = "send" /\ rpc' = "read"
        /\ UNCHANGED <<callbacks, queue, ppc, apc, doubled>>
    BY <1>9 DEF ReadSend
  <2> QED
    BY <1>0, <2>2, <2>3, SMTT(30) DEF Balance, Outcomes, Held, Ended, Canceling, Answering
<1>10. ASSUME AsyncTake PROVE Balance'
  <2>1. /\ confC \in Seq(Requests) /\ Len(confC) <= Capacity
        /\ errC \in Seq(Requests) /\ Len(errC) <= Capacity
    BY Values
  <2>2. \/ Len(confC') = Len(confC) - 1 /\ errC' = errC
        \/ Len(errC') = Len(errC) - 1 /\ confC' = confC
    BY <1>10, <2>1, ChannelTail, SMTT(30) DEF AsyncTake
  <2>3. /\ apc = "select" /\ apc' = "dequeue"
        /\ UNCHANGED <<callbacks, queue, ppc, rpc, doubled>>
    BY <1>10 DEF AsyncTake
  <2> QED
    BY <1>0, <2>2, <2>3, SMTT(30) DEF Balance, Outcomes, Held, Ended, Canceling, Answering
<1>11. ASSUME AsyncDequeue PROVE Balance'
  <2>1. /\ apc = "dequeue" /\ apc' = "select"
        /\ UNCHANGED <<queue, confC, errC, ppc, rpc, doubled>>
    BY <1>11 DEF AsyncDequeue
  <2>2. callbacks # <<>> => Len(callbacks') = Len(callbacks) - 1
    BY <1>11, PopCallback DEF AsyncDequeue
  <2>3. callbacks = <<>> => Len(callbacks) = 0
    BY SMTT(30)
  <2> QED
    BY <1>0, <2>1, <2>2, <2>3, SMTT(30) DEF Balance, Outcomes, Held, Ended, Canceling, Answering
<1>12. ASSUME AsyncStop \/ AsyncClear PROVE Balance'
  <2>1. apc' \in {"clear", "done"}
    BY <1>12 DEF AsyncStop, AsyncClear
  <2> QED
    BY <2>1, SMTT(30) DEF Balance
<1>13. ASSUME UNCHANGED vars PROVE Balance'
  BY <1>13 DEF Balance, Outcomes, Held, Ended, Canceling, Answering, vars
<1> QED
  BY <1>1, <1>2, <1>3, <1>4, <1>5, <1>6, <1>7, <1>8, <1>9, <1>10, <1>11, <1>12, <1>13
  DEF Next, Live, Pump, PumpWorks, Reader, Async, Quiet

(* The number of the outcome that asyncCallbackHandler should take next. *)
Place == made - Len(callbacks) + 1 + Held(apc = "dequeue")

(* Outcomes are taken in the order of the requests: first the one in hand,    *)
(* then the one in a channel, then the one that is about to be sent.         *)
InLine ==
    /\ apc = "dequeue" => taken = made - Len(callbacks) + 1
    /\ confC # <<>> => confC[1] = Place
    /\ errC # <<>> => errC[1] = Place
    /\ Answering => received = Place + Len(confC) + Len(errC)
    /\ Canceling => canceled = Place + Len(confC) + Len(errC)

Lined == ~raced /\ ~doubled /\ apc \in {"select", "dequeue"} => InLine

PairInv == Lined /\ Paired /\ (Overtakable => raced)

LEMMA PairInit == Init => PairInv
BY SMTT(30)
DEF Init, PairInv, Lined, InLine, Paired, Overtakable, WaitingResult, WaitingError, Canceling,
    Answering

(* The first request of the queue is the next in line. *)
LEMMA HeadInLine ==
    ASSUME QueueInv, Balance, ~doubled, apc \in {"select", "dequeue"}, queue # <<>>,
           ~Ended, ~Canceling, ~Answering
    PROVE  Head(queue) = Place + Len(confC) + Len(errC)
<1>1. /\ Len(callbacks) \in Nat /\ Len(confC) \in Nat /\ Len(errC) \in Nat /\ made \in Int
      /\ Len(queue) \in Nat
  BY Values, SMTT(30)
<1>2. Len(callbacks) = Len(queue) + Len(confC) + Len(errC) + Held(apc = "dequeue")
  BY <1>1, SMTT(30) DEF Balance, Outcomes, Held
<1> QED
  BY <1>1, <1>2, Pop, SMTT(30) DEF Place, Held

LEMMA PairStep == QueueInv /\ Balance /\ PairInv /\ [Next]_vars => PairInv'
<1> SUFFICES ASSUME QueueInv, Balance, PairInv, [Next]_vars PROVE PairInv'
  OBVIOUS
<1> USE DEF Capacity, callVars, queueVars, pumpVars, readerVars, outVars, asyncVars, stopVars
<1>0. /\ made \in Int /\ Len(callbacks) \in Nat /\ Place \in Int
      /\ Lined /\ Paired /\ (Overtakable => raced)
  BY Values, SMTT(30) DEF PairInv, Place, Held
<1> DEFINE Marked == raced' = (raced \/ Overtakable')

<1>1. ASSUME TryQueue, Marked PROVE Lined' /\ Paired'
  <2>1. Lined'
    <3>1. made' = made + 1 /\ Len(callbacks') = Len(callbacks) + 1
      <4>1. made \in Nat /\ made + 1 \in Requests /\ Upto(callbacks, made)
        BY <1>1, MaxRequestsAssumption, Values, SMTT(30) DEF TryQueue, QueueInv, Requests
      <4> QED
        BY <1>1, <4>1, UptoAppend DEF TryQueue
    <3>2. UNCHANGED <<confC, errC, apc, taken, rpc, received, ppc, canceled, doubled>>
      BY <1>1 DEF TryQueue
    <3>3. Place' = Place /\ (made - Len(callbacks) + 1)' = made - Len(callbacks) + 1
      BY <1>0, <3>1, <3>2, SMTT(30) DEF Place, Held
    <3> QED
      BY <1>0, <1>1, <3>2, <3>3 DEF Lined, InLine, Canceling, Answering
  <2>2. Paired'
    BY <1>0, <1>1 DEF TryQueue, Paired
  <2> QED
    BY <2>1, <2>2
<1>2. ASSUME Quiet, Marked PROVE Lined' /\ Paired'
  <2>1. /\ UNCHANGED <<made, callbacks, confC, errC, apc, taken, rpc, received, canceled>>
        /\ UNCHANGED <<mispaired, doubled>> /\ (Canceling' <=> Canceling)
    BY <1>2, QuietStep
  <2> QED
    BY <1>0, <1>2, <2>1 DEF Lined, InLine, Place, Paired, Answering
<1>3. ASSUME PumpTimer \/ PumpDispatch, Marked PROVE Lined' /\ Paired'
  <2>1. UNCHANGED <<made, callbacks, rpc, received, confC, errC, apc, taken, mispaired,
                    doubled>>
    BY <1>3, PumpMoves
  <2>2. Lined'
    <3> SUFFICES ASSUME ~raced', ~doubled', apc' \in {"select", "dequeue"} PROVE InLine'
      BY DEF Lined
    <3>1. InLine
      BY <1>0, <1>3, <2>1 DEF Lined
    <3>2. CASE Removes
      <4>1. ~Answering
        BY <1>3, <2>1, <3>2 DEF Overtakable, Removes, Answering
      <4>2. Head(queue) = Place + Len(confC) + Len(errC)
        BY <2>1, <3>2, <4>1, HeadInLine DEF Removes
      <4> QED
        BY <2>1, <3>1, <3>2, <4>1, <4>2 DEF InLine, Place, Removes, Answering
    <3>3. CASE Leaves
      BY <2>1, <3>1, <3>3 DEF InLine, Place, Leaves, Answering
    <3> QED
      BY <1>3, <3>2, <3>3, PumpMoves
  <2>3. Paired'
    BY <1>0, <1>3, <2>1 DEF Paired
  <2> QED
    BY <2>2, <2>3
<1>4. ASSUME PumpCancel, Marked PROVE Lined' /\ Paired'
  <2>1. UNCHANGED <<made, callbacks, rpc, received, confC, apc, taken, mispaired, doubled>>
    BY <1>4 DEF PumpCancel
  <2>2. Canceling /\ ~Canceling'
    BY <1>4, SMTT(30) DEF PumpCancel, Canceling
  <2>3. Lined'
    <3> SUFFICES ASSUME ~raced', ~doubled', apc' \in {"select", "dequeue"} PROVE InLine'
      BY DEF Lined
    <3>1. InLine /\ ~Overtakable
      BY <1>0, <1>4, <2>1 DEF Lined
    <3>2. confC = <<>> /\ ~Answering
      BY <2>2, <3>1 DEF Overtakable, WaitingResult, WaitingError
    <3>3. Len(errC) = 0 /\ Len(errC') = 1 /\ errC'[1] = canceled
      <4>1. errC \in Seq(Requests) /\ canceled \in Requests
        BY <2>2, Values
      <4> QED
        BY <1>4, <4>1, ChannelAppend DEF PumpCancel
    <3>4. canceled = Place
      BY <1>0, <2>2, <3>1, <3>2, <3>3, SMTT(30) DEF InLine
    <3> QED
      BY <2>1, <2>2, <3>1, <3>2, <3>3, <3>4 DEF InLine, Place, Answering
  <2>4. Paired'
    BY <1>0, <1>4, <2>1 DEF Paired
  <2> QED
    BY <2>3, <2>4
<1>5. ASSUME PumpClosed, Marked PROVE Lined' /\ Paired'
  <2>1. UNCHANGED <<made, callbacks, rpc, received, confC, errC, canceled, apc, taken,
                    mispaired, doubled>>
    BY <1>5 DEF PumpClosed
  <2>2. ~Canceling'
    BY <1>5, SMTT(30) DEF PumpClosed, Canceling
  <2> QED
    BY <1>0, <1>5, <2>1, <2>2 DEF Lined, InLine, Place, Paired, Answering
<1>6. ASSUME NEW k \in {"result", "error"}, Read(k), Marked PROVE Lined' /\ Paired'
  <2>1. UNCHANGED <<made, callbacks, confC, errC, ppc, canceled, apc, taken, mispaired,
                    doubled>>
    BY <1>6 DEF Read
  <2>2. ~Answering'
    BY <1>6, SMTT(30) DEF Read, Answering
  <2> QED
    BY <1>0, <1>6, <2>1, <2>2 DEF Lined, InLine, Place, Paired, Canceling
<1>7. ASSUME ReadComplete, Marked PROVE Lined' /\ Paired'
  <2>1. UNCHANGED <<made, callbacks, confC, errC, ppc, received, canceled, apc, taken,
                    mispaired>>
    BY <1>7 DEF ReadComplete
  <2>2. ~Answering /\ Answering' /\ (doubled => doubled')
    <3>1. rpc = "complete" /\ rpc' \in {"ready", "send"} /\ (doubled => doubled')
      BY <1>7 DEF ReadComplete
    <3> QED
      BY <3>1, SMTT(30) DEF Answering
  <2>3. Lined'
    <3> SUFFICES ASSUME ~raced', ~doubled', apc' \in {"select", "dequeue"} PROVE InLine'
      BY DEF Lined
    <3>1. queue # <<>> /\ Head(queue) = received
      BY <1>7 DEF ReadComplete
    <3>2. InLine /\ ~Canceling
      BY <1>0, <1>7, <2>1, <2>2 DEF Lined, Overtakable, Canceling
    <3>3. ~Ended
      <4>1. made \in Nat /\ Len(queue) \in Nat /\ received \in Nat /\ pending \in Nat
        BY Values
      <4>2. rpc = "complete"
        BY <1>7 DEF ReadComplete
      <4>3. InHand /\ PendingFirst
        BY DEF QueueInv
      <4>4. Head(queue) = made - Len(queue) + 1
        BY <3>1, Pop
      <4> QED
        BY <3>1, <4>1, <4>2, <4>3, <4>4, SMTT(30) DEF InHand, PendingFirst
    <3>4. received = Place + Len(confC) + Len(errC)
      BY <2>1, <2>2, <3>1, <3>2, <3>3, HeadInLine
    <3> QED
      BY <2>1, <2>2, <3>2, <3>4 DEF InLine, Place, Canceling
  <2>4. Paired'
    BY <1>0, <1>7, <2>1, <2>2 DEF Paired
  <2> QED
    BY <2>3, <2>4
<1>8. ASSUME ReadReady, Marked PROVE Lined' /\ Paired'
  <2>1. UNCHANGED <<made, callbacks, confC, errC, ppc, received, canceled, apc, taken,
                    mispaired, doubled>>
    BY <1>8 DEF ReadReady
  <2>2. Answering
    BY <1>8 DEF ReadReady, Answering
  <2> QED
    BY <1>0, <1>8, <2>1, <2>2 DEF Lined, InLine, Place, Paired, Canceling
<1>9. ASSUME ReadSend, Marked PROVE Lined' /\ Paired'
  <2>1. UNCHANGED <<made, callbacks, ppc, canceled, apc, taken, mispaired, doubled>>
    BY <1>9 DEF ReadSend
  <2>2. Answering /\ ~Answering'
    BY <1>9, SMTT(30) DEF ReadSend, Answering
  <2>3. Lined'
    <3> SUFFICES ASSUME ~raced', ~doubled', apc' \in {"select", "dequeue"} PROVE InLine'
      BY DEF Lined
    <3>1. InLine /\ ~Overtakable
      BY <1>0, <1>9, <2>1 DEF Lined
    <3>2. received \in Requests /\ kind \in {"result", "error"}
      BY <1>9, Values DEF ReadSend
    <3>3. ~Canceling /\ ~Canceling'
      BY <2>1, <2>2, <3>1 DEF Overtakable, Canceling
    <3>4. Place' = Place
      BY <2>1 DEF Place
    <3>5. CASE kind = "result"
      <4>1. errC = <<>> /\ UNCHANGED errC
        BY <1>9, <2>2, <3>1, <3>5 DEF ReadSend, Overtakable, WaitingResult, WaitingError
      <4>2. Len(confC) = 0 /\ confC'[1] = received
        <5>1. confC \in Seq(Requests)
          BY Values
        <5>2. Len(confC) < Capacity /\ confC' = Append(confC, received)
          BY <1>9, <3>5 DEF ReadSend
        <5> QED
          BY <3>2, <5>1, <5>2, ChannelAppend
      <4>3. received = Place
        BY <1>0, <2>2, <3>1, <4>1, <4>2, SMTT(30) DEF InLine
      <4> QED
        BY <2>1, <2>2, <3>1, <3>3, <3>4, <4>1, <4>2, <4>3 DEF InLine
    <3>6. CASE kind = "error"
      <4>1. confC = <<>> /\ UNCHANGED confC
        BY <1>9, <2>2, <3>1, <3>6 DEF ReadSend, Overtakable, WaitingResult, WaitingError
      <4>2. Len(errC) = 0 /\ errC'[1] = received
        <5>1. errC \in Seq(Requests)
          BY Values
        <5>2. Len(errC) < Capacity /\ errC' = Append(errC, received)
          BY <1>9, <3>6 DEF ReadSend
        <5> QED
          BY <3>2, <5>1, <5>2, ChannelAppend
      <4>3. received = Place
        BY <1>0, <2>2, <3>1, <4>1, <4>2, SMTT(30) DEF InLine
      <4> QED
        BY <2>1, <2>2, <3>1, <3>3, <3>4, <4>1, <4>2, <4>3 DEF InLine
    <3> QED
      BY <3>2, <3>5, <3>6
  <2>4. Paired'
    BY <1>0, <1>9, <2>1 DEF Paired
  <2> QED
    BY <2>3, <2>4
<1>10. ASSUME AsyncTake, Marked PROVE Lined' /\ Paired'
  <2>1. /\ apc = "select" /\ apc' = "dequeue"
        /\ UNCHANGED <<made, callbacks, ppc, rpc, received, canceled, mispaired, doubled>>
    BY <1>10 DEF AsyncTake
  <2>2. Lined'
    <3> SUFFICES ASSUME ~raced', ~doubled', apc' \in {"select", "dequeue"} PROVE InLine'
      BY DEF Lined
    <3>1. InLine /\ ~Overtakable
      BY <1>0, <1>10, <2>1 DEF Lined
    <3>2. Place = made - Len(callbacks) + 1 /\ Place' = Place + 1
      BY <1>0, <2>1, SMTT(30) DEF Place, Held
    <3>3. (Canceling' <=> Canceling) /\ (Answering' <=> Answering)
      BY <2>1 DEF Canceling, Answering
    <3>4. CASE confC # <<>> /\ taken' = Head(confC) /\ confC' = Tail(confC) /\ UNCHANGED errC
      <4>1. errC = <<>> /\ Len(errC) = 0
        BY <3>1, <3>4 DEF Overtakable, WaitingResult, WaitingError
      <4>2. Len(confC) = 1 /\ confC' = <<>> /\ Len(confC') = 0 /\ taken' = confC[1]
        BY <3>4, ChannelTail, Values
      <4>3. errC' = <<>> /\ Len(errC') = 0
        BY <3>4, <4>1
      <4>4. /\ confC[1] = Place
            /\ Answering => received = Place + 1
            /\ Canceling => canceled = Place + 1
        BY <1>0, <3>1, <3>4, <4>1, <4>2, SMTT(30) DEF InLine
      <4>5. Place' + Len(confC') + Len(errC') = Place + 1
        BY <1>0, <3>2, <4>2, <4>3, SMTT(30)
      <4> QED
        BY <2>1, <3>2, <3>3, <4>2, <4>3, <4>4, <4>5 DEF InLine
    <3>5. CASE errC # <<>> /\ taken' = Head(errC) /\ errC' = Tail(errC) /\ UNCHANGED confC
      <4>1. confC = <<>> /\ Len(confC) = 0
        BY <3>1, <3>5 DEF Overtakable, WaitingResult, WaitingError
      <4>2. Len(errC) = 1 /\ errC' = <<>> /\ Len(errC') = 0 /\ taken' = errC[1]
        BY <3>5, ChannelTail, Values
      <4>3. confC' = <<>> /\ Len(confC') = 0
        BY <3>5, <4>1
      <4>4. /\ errC[1] = Place
            /\ Answering => received = Place + 1
            /\ Canceling => canceled = Place + 1
        BY <1>0, <3>1, <3>5, <4>1, <4>2, SMTT(30) DEF InLine
      <4>5. Place' + Len(confC') + Len(errC') = Place + 1
        BY <1>0, <3>2, <4>2, <4>3, SMTT(30)
      <4> QED
        BY <2>1, <3>2, <3>3, <4>2, <4>3, <4>4, <4>5 DEF InLine
    <3> QED
      BY <1>10, <3>4, <3>5 DEF AsyncTake
  <2>3. Paired'
    BY <1>0, <1>10, <2>1 DEF Paired
  <2> QED
    BY <2>2, <2>3
<1>11. ASSUME AsyncDequeue, Marked PROVE Lined' /\ Paired'
  <2>1. /\ apc = "dequeue" /\ apc' = "select"
        /\ UNCHANGED <<made, confC, errC, ppc, rpc, received, canceled, doubled>>
    BY <1>11 DEF AsyncDequeue
  <2>2. ~doubled => callbacks # <<>>
    <3>1. ~doubled => Len(callbacks) > 0
      BY <2>1, Values, SMTT(30) DEF Balance, Outcomes, Held
    <3> QED
      BY <3>1, SMTT(30)
  <2>3. Lined'
    <3> SUFFICES ASSUME ~raced', ~doubled', apc' \in {"select", "dequeue"} PROVE InLine'
      BY DEF Lined
    <3>1. InLine
      BY <1>0, <1>11, <2>1 DEF Lined
    <3>2. Len(callbacks') = Len(callbacks) - 1
      <4>1. callbacks # <<>>
        BY <2>1, <2>2
      <4> QED
        BY <1>11, <4>1, PopCallback DEF AsyncDequeue
    <3>3. Place' = Place
      BY <1>0, <2>1, <3>2, SMTT(30) DEF Place, Held
    <3> QED
      BY <2>1, <3>1, <3>3, SMTT(30) DEF InLine, Canceling, Answering
  <2>4. Paired'
    <3>1. CASE raced' \/ doubled'
      BY <3>1 DEF Paired
    <3>2. CASE ~raced' /\ ~doubled'
      <4>1. taken = made - Len(callbacks) + 1 /\ ~mispaired
        BY <1>0, <1>11, <2>1, <3>2 DEF Lined, InLine, Paired
      <4>2. ~mispaired'
        BY <1>11, <2>1, <2>2, <3>2, <4>1, PopCallback DEF AsyncDequeue
      <4> QED
        BY <4>2 DEF Paired
    <3> QED
      BY <3>1, <3>2
  <2> QED
    BY <2>3, <2>4
<1>12. ASSUME AsyncStop \/ AsyncClear, Marked PROVE Lined' /\ Paired'
  <2>1. apc' \in {"clear", "done"} /\ UNCHANGED <<mispaired, doubled>>
    BY <1>12 DEF AsyncStop, AsyncClear
  <2>2. apc' \notin {"select", "dequeue"}
    BY <2>1, SMTT(30)
  <2> QED
    BY <1>0, <1>12, <2>1, <2>2 DEF Lined, Paired
<1>13. ASSUME UNCHANGED vars PROVE PairInv'
  BY <1>0, <1>13
  DEF PairInv, Lined, InLine, Place, Paired, Overtakable, WaitingResult, WaitingError, Canceling,
      Answering, vars
<1>14. ASSUME Next PROVE PairInv'
  <2>1. Marked
    BY <1>14 DEF Next, Live
  <2>2. Lined' /\ Paired'
    BY <1>1, <1>2, <1>3, <1>4, <1>5, <1>6, <1>7, <1>8, <1>9, <1>10, <1>11, <1>12, <1>14, <2>1
    DEF Next, Live, Pump, PumpWorks, Reader, Async, Quiet
  <2> QED
    BY <2>1, <2>2 DEF PairInv
<1> QED
  BY <1>13, <1>14

(* Every variable has a value of its type, and the channels of capacity 1 never *)
(* hold more, however often the link is lost: the dispatcher's queue and the    *)
(* callbacks are the last requests, in order, and the pending one is the first. *)
THEOREM TypeCorrect == Spec => []TypeOK
<1>1. QueueInv => TypeOK
  BY DEF QueueInv
<1> QED
  BY QueueInit, QueueStep, <1>1, PTL DEF Spec

(* The callback queue keeps step with the dispatcher's queue and the outcomes *)
(* on their way, while the client runs and no request has two outcomes.      *)
THEOREM CallbacksInStep == Spec => []InStep
<1>1. QueueInv /\ Balance => InStep
  <2> SUFFICES ASSUME QueueInv, Balance, requestChannel = "open", ~doubled
               PROVE  InStep
    BY DEF InStep
  <2>1. ~Ended /\ apc \in {"select", "dequeue"}
    BY DEF QueueInv, TypeOK, Places, Ending
  <2>2. Len(callbacks) = Len(queue) + Outcomes
    BY <2>1 DEF Balance
  <2>3. Len(queue) \in Nat /\ Len(confC) \in Nat /\ Len(errC) \in Nat
    BY Values
  <2> QED
    BY <2>2, <2>3, SMTT(30) DEF InStep, Outcomes, Held
<1> QED
  BY QueueInit, QueueStep, BalanceInit, BalanceStep, <1>1, PTL DEF Spec

(* A callback is called with the outcome of its own request, unless outcomes   *)
(* raced in the two channels or a request had two of them.                   *)
THEOREM OutcomesPaired == Spec => []Paired
<1>1. PairInv => Paired
  BY DEF PairInv
<1> QED
  BY QueueInit, QueueStep, BalanceInit, BalanceStep, PairInit, PairStep, <1>1, PTL DEF Spec
=============================================================================
