--------------------------- MODULE CentralProofs ---------------------------
(***************************************************************************)
(* Why a callback given to a central system or a CSMS is called with the   *)
(* outcome of its own request, for any number of clients and requests.     *)
(***************************************************************************)
EXTENDS Central, SequenceTheorems, TLAPS

(* Steps that need arithmetic, sequences or functions say SMTT. *)
USE ZenonT(60)

(* The pump has a canceled request in hand only until it has called back. *)
Idle ==
    /\ ppc = "select" => canceled = Nothing
    /\ ppc # "select" => canceled.client \in Clients

BaseInv == TypeOK /\ Idle

LEMMA Pop ==
    ASSUME NEW S, NEW s \in Seq(S), s # <<>>
    PROVE  /\ Head(s) \in S /\ Tail(s) \in Seq(S)
           /\ Len(Tail(s)) = Len(s) - 1 /\ Len(s) \in Nat
BY HeadTailProperties, LenProperties

LEMMA Push ==
    ASSUME NEW S, NEW s \in Seq(S), NEW x \in S
    PROVE  /\ Append(s, x) \in Seq(S) /\ Append(s, x) # <<>>
           /\ Len(Append(s, x)) = Len(s) + 1 /\ Len(s) \in Nat
BY AppendProperties, LenProperties, SMTT(30)

LEMMA BaseInit == Init => BaseInv
<1> SUFFICES ASSUME Init PROVE BaseInv
  OBVIOUS
<1> USE ConstantsAssumption DEF Init
<1>1. <<>> \in Seq(Requests) /\ <<>> \in Seq(Clients) /\ Len(<<>>) = 0
  BY EmptySeq
<1>2. Data
  BY <1>1, SMTT(30) DEF Data, Nothing, ReadyRoom
<1>3. Flags
  BY DEF Flags
<1> QED
  BY <1>2, <1>3 DEF BaseInv, TypeOK, Idle

(* What taking the first element off a queue means for the one behind which   *)
(* it is expected.                                                           *)
LEMMA Behead ==
    ASSUME NEW q \in Seq(Nat), q # <<>>
    PROVE  <<Head(q)>> \o Tail(q) = q
<1>1. Tail(q) \in Seq(Nat) /\ Len(Tail(q)) = Len(q) - 1 /\ Head(q) \in Nat
  BY Pop
<1>2. \A i \in 1..Len(Tail(q)) : Tail(q)[i] = q[i + 1]
  BY HeadTailProperties
<1>3. Len(q) \in Nat /\ Len(q) # 0 /\ Head(q) = q[1]
  BY EmptySeq, SMTT(30)
<1>4. <<Head(q)>> \in Seq(Nat) /\ Len(<<Head(q)>>) = 1 /\ <<Head(q)>>[1] = Head(q)
  BY <1>1, SMTT(30)
<1>5. /\ <<Head(q)>> \o Tail(q) \in Seq(Nat)
      /\ Len(<<Head(q)>> \o Tail(q)) = 1 + Len(Tail(q))
      /\ \A i \in 1..(1 + Len(Tail(q))) :
           (<<Head(q)>> \o Tail(q))[i] = IF i <= 1 THEN <<Head(q)>>[i] ELSE Tail(q)[i - 1]
  BY <1>1, <1>4, ConcatProperties, SMTT(30)
<1>6. Len(<<Head(q)>> \o Tail(q)) = Len(q)
  BY <1>1, <1>3, <1>5, SMTT(30)
<1>7. ASSUME NEW i \in 1..Len(q) PROVE (<<Head(q)>> \o Tail(q))[i] = q[i]
  <2>1. CASE i = 1
    BY <1>1, <1>3, <1>4, <1>5, <2>1, SMTT(30)
  <2>2. CASE i # 1
    <3>1. i - 1 \in 1..Len(Tail(q)) /\ (i - 1) + 1 = i
      BY <1>1, <1>3, <2>2, SMTT(30)
    <3>2. Tail(q)[i - 1] = q[i]
      BY <1>2, <3>1
    <3> QED
      BY <1>1, <1>3, <1>5, <2>2, <3>2, SMTT(30)
  <2> QED
    BY <2>1, <2>2
<1> QED
  BY <1>5, <1>6, <1>7, SeqEqual

LEMMA Prepend ==
    ASSUME NEW q \in Seq(Nat), NEW x \in Nat
    PROVE  /\ <<x>> \o q \in Seq(Nat) /\ <<x>> \o q # <<>>
           /\ Len(<<x>> \o q) = Len(q) + 1
           /\ Head(<<x>> \o q) = x /\ Tail(<<x>> \o q) = q
<1> DEFINE s == <<x>> \o q
<1>1. <<x>> \in Seq(Nat) /\ Len(<<x>>) = 1 /\ <<x>>[1] = x
  BY SMTT(30)
<1>2. Len(q) \in Nat
  BY LenProperties
<1>3. s \in Seq(Nat) /\ Len(s) = 1 + Len(q)
      /\ \A i \in 1..(1 + Len(q)) : s[i] = IF i <= 1 THEN <<x>>[i] ELSE q[i - 1]
  BY <1>1, ConcatProperties, SMTT(30)
<1>4. s # <<>>
  BY <1>2, <1>3, EmptySeq, SMTT(30)
<1> HIDE DEF s
<1>5. Head(s) = x
  BY <1>1, <1>2, <1>3, <1>4, SMTT(30)
<1>6. Tail(s) \in Seq(Nat) /\ Len(Tail(s)) = Len(q) /\ \A i \in 1..Len(q) : Tail(s)[i] = s[i + 1]
  BY <1>2, <1>3, <1>4, HeadTailProperties, SMTT(30)
<1>7. ASSUME NEW i \in 1..Len(q) PROVE Tail(s)[i] = q[i]
  <2>1. i + 1 \in 1..(1 + Len(q)) /\ ~(i + 1 <= 1) /\ (i + 1) - 1 = i
    BY <1>2, SMTT(30)
  <2> QED
    BY <1>3, <1>6, <2>1
<1>8. Tail(s) = q
  BY <1>6, <1>7, SeqEqual
<1> QED
  BY <1>2, <1>3, <1>4, <1>5, <1>8, SMTT(30) DEF s

LEMMA ConcatAppend ==
    ASSUME NEW h \in Seq(Nat), NEW q \in Seq(Nat), NEW x \in Nat
    PROVE  Append(h \o q, x) = h \o Append(q, x)
<1>1. <<x>> \in Seq(Nat) /\ h \o q \in Seq(Nat)
  BY ConcatProperties, SMTT(30)
<1>2. Append(h \o q, x) = (h \o q) \o <<x>> /\ Append(q, x) = q \o <<x>>
  BY <1>1, AppendIsConcat
<1> QED
  BY <1>1, <1>2, ConcatAssociative, SMTT(30)


(* What a turn of the pump can do to the queues: nothing, or it takes the      *)
(* first request of a client into its hand.                                  *)
Cancels(c) ==
    /\ queue[c] # <<>>
    /\ queue' = [queue EXCEPT ![c] = Tail(@)]
    /\ canceled' = [client |-> c, request |-> Head(queue[c])]
    /\ ppc' \in {"cancel", "stuck"}

Channels ==
    /\ requestC \in Seq(Clients) /\ Len(requestC) <= RequestRoom
    /\ readyC \in Seq(Clients) /\ Len(readyC) <= ReadyRoom
    /\ pending \in [Clients -> 0..MaxRequests]
    /\ active \in [Clients -> BOOLEAN]

PumpTurn ==
    /\ ppc = "select"
    /\ UNCHANGED <<queue, canceled, ppc>> \/ \E c \in Clients : Cancels(c)
    /\ Channels'
    /\ UNCHANGED <<clientVars, backlogVars, exists, readerVars, historyVars>>

LEMMA CancelFirstDoes ==
    ASSUME TypeOK, NEW c \in Clients, NEW tokens \in Seq(Clients), Len(tokens) <= ReadyRoom,
           queue[c] # <<>>, CancelFirst(c, tokens)
    PROVE  /\ Cancels(c)
           /\ readyC' \in Seq(Clients) /\ Len(readyC') <= ReadyRoom
           /\ pending' \in [Clients -> 0..MaxRequests]
           /\ active' \in [Clients -> BOOLEAN]
<1>1. Cancels(c)
  BY DEF CancelFirst, Cancels
<1>2. readyC' \in Seq(Clients) /\ Len(readyC') <= ReadyRoom
  <2>1. /\ Append(tokens, c) \in Seq(Clients)
        /\ Len(Append(tokens, c)) = Len(tokens) + 1 /\ Len(tokens) \in Nat
    BY Push
  <2> QED
    BY <2>1, SMTT(30) DEF CancelFirst, ReadyRoom
<1>3. pending' \in [Clients -> 0..MaxRequests]
  BY ConstantsAssumption, SMTT(30) DEF CancelFirst, TypeOK, Data
<1>4. active' \in [Clients -> BOOLEAN]
  BY DEF CancelFirst, TypeOK, Data
<1> QED
  BY <1>1, <1>2, <1>3, <1>4

LEMMA TransmitDoes ==
    ASSUME TypeOK, NEW c \in Clients, NEW permit \in BOOLEAN,
           NEW tokens \in Seq(Clients), Len(tokens) <= ReadyRoom, Transmit(c, permit, tokens)
    PROVE  /\ UNCHANGED <<queue, canceled, ppc>> \/ Cancels(c)
           /\ readyC' \in Seq(Clients) /\ Len(readyC') <= ReadyRoom
           /\ pending' \in [Clients -> 0..MaxRequests]
           /\ active' \in [Clients -> BOOLEAN]
<1>1. CASE /\ ~permit \/ queue[c] = <<>>
           /\ active' = [active EXCEPT ![c] = ~permit]
           /\ readyC' = tokens /\ UNCHANGED <<queue, pending, canceled, ppc>>
  BY <1>1 DEF TypeOK, Data, Transmit
<1>2. CASE /\ queue[c] # <<>> /\ pending' = [pending EXCEPT ![c] = Head(queue[c])]
           /\ active' = [active EXCEPT ![c] = TRUE]
           /\ readyC' = tokens /\ UNCHANGED <<queue, canceled, ppc>>
  <2>1. Head(queue[c]) \in 0..MaxRequests
    <3>1. queue[c] \in Seq(Requests)
      BY DEF TypeOK, Data
    <3>2. Head(queue[c]) \in Requests
      BY <1>2, <3>1, Pop
    <3> QED
      BY <3>2, ConstantsAssumption, SMTT(30) DEF Requests
  <2> QED
    BY <1>2, <2>1 DEF TypeOK, Data
<1>3. CASE queue[c] # <<>> /\ CancelFirst(c, tokens)
  BY <1>3, CancelFirstDoes
<1> QED
  BY <1>1, <1>2, <1>3 DEF Transmit

LEMMA PumpTurns ==
    ASSUME BaseInv, PumpToken \/ PumpReady \/ \E c \in Clients : PumpTimeout(c)
    PROVE  PumpTurn
<1>0. Channels /\ TypeOK
  BY DEF BaseInv, TypeOK, Data, Channels
<1>1. CASE PumpToken
  <2>1. Head(requestC) \in Clients /\ Tail(requestC) \in Seq(Clients)
        /\ Len(Tail(requestC)) = Len(requestC) - 1 /\ Len(requestC) \in Nat
    BY <1>0, <1>1, Pop DEF PumpToken, Channels
  <2>2. Transmit(Head(requestC), ~exists[Head(requestC)] \/ ~active[Head(requestC)], readyC)
    BY <1>1 DEF PumpToken
  <2>3. (~exists[Head(requestC)] \/ ~active[Head(requestC)]) \in BOOLEAN
    OBVIOUS
  <2>4. /\ UNCHANGED <<queue, canceled, ppc>> \/ Cancels(Head(requestC))
        /\ readyC' \in Seq(Clients) /\ Len(readyC') <= ReadyRoom
        /\ pending' \in [Clients -> 0..MaxRequests]
        /\ active' \in [Clients -> BOOLEAN]
    BY <1>0, <2>1, <2>2, <2>3, TransmitDoes DEF Channels
  <2>5. requestC' = Tail(requestC) /\ ppc = "select"
        /\ UNCHANGED <<clientVars, backlogVars, exists, readerVars, historyVars>>
    BY <1>1 DEF PumpToken
  <2>6. Channels'
    BY <1>0, <2>1, <2>4, <2>5, ConstantsAssumption, SMTT(30) DEF Channels
  <2> QED
    BY <2>1, <2>4, <2>5, <2>6 DEF PumpTurn
<1>2. CASE PumpReady
  <2>1. Head(readyC) \in Clients /\ Tail(readyC) \in Seq(Clients)
        /\ Len(Tail(readyC)) = Len(readyC) - 1 /\ Len(readyC) \in Nat
    BY <1>0, <1>2, Pop DEF PumpReady, Channels
  <2>2. Len(Tail(readyC)) <= ReadyRoom
    BY <1>0, <2>1, SMTT(30) DEF Channels, ReadyRoom
  <2>3. Transmit(Head(readyC), TRUE, Tail(readyC))
    BY <1>2 DEF PumpReady
  <2>4. /\ UNCHANGED <<queue, canceled, ppc>> \/ Cancels(Head(readyC))
        /\ readyC' \in Seq(Clients) /\ Len(readyC') <= ReadyRoom
        /\ pending' \in [Clients -> 0..MaxRequests]
        /\ active' \in [Clients -> BOOLEAN]
    BY <1>0, <2>1, <2>2, <2>3, TransmitDoes
  <2>5. requestC' = requestC /\ ppc = "select"
        /\ UNCHANGED <<clientVars, backlogVars, exists, readerVars, historyVars>>
    BY <1>2 DEF PumpReady
  <2> QED
    BY <1>0, <2>1, <2>4, <2>5 DEF PumpTurn, Channels
<1>3. ASSUME NEW c \in Clients, PumpTimeout(c) PROVE PumpTurn
  <2>1. requestC' = requestC /\ ppc = "select"
        /\ UNCHANGED <<clientVars, backlogVars, exists, readerVars, historyVars>>
    BY <1>3 DEF PumpTimeout
  <2>2. CASE queue[c] # <<>> /\ CancelFirst(c, readyC)
    BY <1>0, <2>1, <2>2, CancelFirstDoes DEF PumpTurn, Channels
  <2>3. CASE active' = [active EXCEPT ![c] = FALSE]
             /\ UNCHANGED <<queue, pending, readyC, ppc, canceled>>
    BY <1>0, <2>1, <2>3 DEF PumpTurn, Channels
  <2> QED
    BY <1>3, <2>2, <2>3 DEF PumpTimeout
<1> QED
  BY <1>1, <1>2, <1>3

(* Dequeue only ever takes the first callback off. *)
LEMMA DequeueDoes ==
    ASSUME TypeOK, NEW c \in Clients, NEW r, Dequeue(c, r)
    PROVE  /\ callbacks' \in [Clients -> Seq(Requests)]
           /\ mispaired' \in BOOLEAN
           /\ \A d \in Clients : callbacks[d] = <<>> => callbacks'[d] = <<>>
<1>1. callbacks[c] \in Seq(Requests) /\ callbacks \in [Clients -> Seq(Requests)]
  BY DEF TypeOK, Data
<1>2. CASE callbacks[c] = <<>>
  BY <1>1, <1>2 DEF Dequeue, TypeOK, Flags
<1>3. CASE callbacks[c] # <<>>
  <2>1. Tail(callbacks[c]) \in Seq(Requests)
    BY <1>1, <1>3, Pop
  <2>2. callbacks' = [callbacks EXCEPT ![c] = Tail(callbacks[c])]
    BY <1>3 DEF Dequeue
  <2>3. mispaired' \in BOOLEAN
    BY <1>3 DEF Dequeue, TypeOK, Flags
  <2> QED
    BY <1>1, <1>3, <2>1, <2>2, <2>3
<1> QED
  BY <1>2, <1>3


LEMMA BaseStep == BaseInv /\ [Next]_vars => BaseInv'
<1> SUFFICES ASSUME BaseInv, [Next]_vars PROVE BaseInv'
  OBVIOUS
<1> USE ConstantsAssumption
<1>1. ASSUME Signal, raced' = (raced \/ Overtakable') PROVE BaseInv'
  <2>1. Data'
    <3>1. mutex \in Clients /\ requestC \in Seq(Clients)
      BY <1>1 DEF Signal, BaseInv, TypeOK, Data
    <3>2. /\ Append(requestC, mutex) \in Seq(Clients) /\ Len(requestC) \in Nat
          /\ Len(Append(requestC, mutex)) = Len(requestC) + 1
      BY <3>1, Push
    <3>3. requestC' \in Seq(Clients) /\ Len(requestC') <= RequestRoom
      BY <1>1, <3>2, SMTT(30) DEF Signal
    <3> QED
      BY <1>1, <3>3
      DEF Signal, BaseInv, TypeOK, Data, clientVars, queueVars, pumpVars, readerVars
  <2>2. Flags'
    BY <1>1
    DEF Signal, BaseInv, TypeOK, Flags, clientVars, queueVars, pumpVars, readerVars,
        historyVars
  <2>3. Idle'
    BY <1>1
    DEF Signal, BaseInv, Idle, clientVars, queueVars, pumpVars, readerVars, historyVars
  <2> QED
    BY <2>1, <2>2, <2>3 DEF BaseInv, TypeOK
<1>2. ASSUME PumpTurn, raced' = (raced \/ Overtakable') PROVE BaseInv'
  <2>1. canceled' \in [client : Clients \union {NoClient}, request : 0..MaxRequests]
        /\ queue' \in [Clients -> Seq(Requests)]
    <3>1. CASE UNCHANGED <<queue, canceled, ppc>>
      BY <3>1 DEF BaseInv, TypeOK, Data
    <3>2. ASSUME NEW c \in Clients, Cancels(c)
          PROVE  /\ canceled' \in [client : Clients \union {NoClient}, request : 0..MaxRequests]
                 /\ queue' \in [Clients -> Seq(Requests)]
      <4>1. queue[c] \in Seq(Requests) /\ queue[c] # <<>>
        BY <3>2 DEF BaseInv, TypeOK, Data, Cancels
      <4>2. Tail(queue[c]) \in Seq(Requests) /\ Head(queue[c]) \in Requests
        BY <4>1, Pop
      <4>3. Head(queue[c]) \in 0..MaxRequests
        BY <4>2, SMTT(30) DEF Requests
      <4> QED
        BY <3>2, <4>2, <4>3 DEF BaseInv, TypeOK, Data, Cancels
    <3> QED
      BY <1>2, <3>1, <3>2 DEF PumpTurn
  <2>2. ppc' \in {"select", "cancel", "stuck"} /\ Idle'
    BY <1>2, SMTT(30) DEF PumpTurn, Cancels, BaseInv, Idle, Nothing
  <2>3. Data'
    BY <1>2, <2>1, <2>2
    DEF PumpTurn, Channels, BaseInv, TypeOK, Data, clientVars, backlogVars, readerVars
  <2>4. Flags'
    BY <1>2 DEF PumpTurn, BaseInv, TypeOK, Flags, clientVars, historyVars
  <2> QED
    BY <2>2, <2>3, <2>4 DEF BaseInv, TypeOK
<1>3. ASSUME PumpCancel, raced' = (raced \/ Overtakable') PROVE BaseInv'
  <2>1. canceled.client \in Clients /\ Dequeue(canceled.client, canceled.request)
    BY <1>3 DEF PumpCancel, BaseInv, Idle
  <2>2. callbacks' \in [Clients -> Seq(Requests)] /\ mispaired' \in BOOLEAN
    BY <2>1, DequeueDoes DEF BaseInv
  <2>3. canceled' \in [client : Clients \union {NoClient}, request : 0..MaxRequests]
    BY <1>3, SMTT(30) DEF PumpCancel, Nothing
  <2>4. Data'
    BY <1>3, <2>2, <2>3
    DEF PumpCancel, BaseInv, TypeOK, Data, clientVars, queueVars, readerVars
  <2>5. Flags'
    BY <1>3, <2>2 DEF PumpCancel, BaseInv, TypeOK, Flags, clientVars
  <2>6. Idle'
    BY <1>3 DEF PumpCancel, Idle
  <2> QED
    BY <2>4, <2>5, <2>6 DEF BaseInv, TypeOK
<1>4. ASSUME NEW c \in Clients, TryQueue(c), raced' = (raced \/ Overtakable') PROVE BaseInv'
  <2>1. Data'
    <3>1. made + 1 \in Requests /\ made + 1 \in 0..MaxRequests
      BY <1>4, SMTT(30) DEF TryQueue, BaseInv, TypeOK, Data, Requests
    <3>2. callbacks[c] \in Seq(Requests) /\ queue[c] \in Seq(Requests)
      BY DEF BaseInv, TypeOK, Data
    <3>3. /\ Append(callbacks[c], made + 1) \in Seq(Requests)
          /\ Append(queue[c], made + 1) \in Seq(Requests)
      BY <3>1, <3>2, Push
    <3> HIDE ConstantsAssumption
    <3>4. callbacks' \in [Clients -> Seq(Requests)] /\ queue' \in [Clients -> Seq(Requests)]
      BY <1>4, <3>3 DEF TryQueue, BaseInv, TypeOK, Data
    <3> QED
      BY <1>4, <3>1, <3>4
      DEF TryQueue, BaseInv, TypeOK, Data, clientVars, pumpVars, readerVars
  <2>2. Flags'
    BY <1>4
    DEF TryQueue, BaseInv, TypeOK, Flags, clientVars, pumpVars, readerVars, historyVars
  <2>3. Idle'
    BY <1>4 DEF TryQueue, BaseInv, Idle, clientVars, pumpVars, readerVars, historyVars
  <2> QED
    BY <2>1, <2>2, <2>3 DEF BaseInv, TypeOK
<1>5. ASSUME NEW c \in Clients, Read(c), raced' = (raced \/ Overtakable') PROVE BaseInv'
  <2>1. Data'
    BY <1>5
    DEF Read, BaseInv, TypeOK, Data, clientVars, backlogVars, queueVars, pumpVars,
        historyVars
  <2>2. Flags'
    BY <1>5
    DEF Read, BaseInv, TypeOK, Flags, clientVars, backlogVars, queueVars, pumpVars,
        historyVars
  <2>3. Idle'
    BY <1>5
    DEF Read, BaseInv, Idle, clientVars, backlogVars, queueVars, pumpVars, historyVars
  <2> QED
    BY <2>1, <2>2, <2>3 DEF BaseInv, TypeOK
<1>6. ASSUME NEW c \in Clients, ReadComplete(c), raced' = (raced \/ Overtakable') PROVE BaseInv'
  <2>1. Data'
    <3>1. queue[c] \in Seq(Requests) /\ queue \in [Clients -> Seq(Requests)]
      BY DEF BaseInv, TypeOK, Data
    <3>2. queue[c] # <<>> => Tail(queue[c]) \in Seq(Requests)
      BY <3>1, Pop
    <3>3. queue' \in [Clients -> Seq(Requests)]
      BY <1>6, <3>1, <3>2 DEF ReadComplete
    <3>4. pending' \in [Clients -> 0..MaxRequests]
      <4>1. pending' \in {pending, [pending EXCEPT ![c] = 0]}
        BY <1>6 DEF ReadComplete
      <4>2. 0 \in 0..MaxRequests /\ pending \in [Clients -> 0..MaxRequests]
        BY SMTT(30) DEF BaseInv, TypeOK, Data
      <4> QED
        BY <4>1, <4>2
    <3>5. rpc' \in [Clients -> {"read", "complete", "ready", "dequeue"}]
      <4>1. rpc' \in {[rpc EXCEPT ![c] = "ready"], [rpc EXCEPT ![c] = "dequeue"]}
        BY <1>6 DEF ReadComplete
      <4> QED
        BY <4>1 DEF BaseInv, TypeOK, Data
    <3> QED
      BY <1>6, <3>3, <3>4, <3>5
      DEF ReadComplete, BaseInv, TypeOK, Data, clientVars, backlogVars, pumpVars
  <2>2. Flags'
    BY <1>6 DEF ReadComplete, BaseInv, TypeOK, Flags, clientVars, backlogVars, pumpVars
  <2>3. Idle'
    BY <1>6 DEF ReadComplete, BaseInv, Idle, clientVars, backlogVars, pumpVars
  <2> QED
    BY <2>1, <2>2, <2>3 DEF BaseInv, TypeOK
<1>7. ASSUME NEW c \in Clients, ReadReady(c), raced' = (raced \/ Overtakable') PROVE BaseInv'
  <2>1. Data'
    <3>1. /\ Append(readyC, c) \in Seq(Clients) /\ Len(readyC) \in Nat
          /\ Len(Append(readyC, c)) = Len(readyC) + 1
      BY Push DEF BaseInv, TypeOK, Data
    <3>2. readyC' \in Seq(Clients) /\ Len(readyC') <= ReadyRoom
      BY <1>7, <3>1, SMTT(30) DEF ReadReady, ReadyRoom
    <3> QED
      BY <1>7, <3>2
      DEF ReadReady, BaseInv, TypeOK, Data, clientVars, backlogVars, queueVars, pumpVars
  <2>2. Flags'
    BY <1>7
    DEF ReadReady, BaseInv, TypeOK, Flags, clientVars, backlogVars, queueVars, pumpVars,
        historyVars
  <2>3. Idle'
    BY <1>7
    DEF ReadReady, BaseInv, Idle, clientVars, backlogVars, queueVars, pumpVars,
        historyVars
  <2> QED
    BY <2>1, <2>2, <2>3 DEF BaseInv, TypeOK
<1>8. ASSUME NEW c \in Clients, ReadDequeue(c), raced' = (raced \/ Overtakable') PROVE BaseInv'
  <2>1. callbacks' \in [Clients -> Seq(Requests)] /\ mispaired' \in BOOLEAN
    BY <1>8, DequeueDoes DEF ReadDequeue, BaseInv
  <2>2. /\ received' \in [Clients -> 0..MaxRequests]
        /\ rpc' \in [Clients -> {"read", "complete", "ready", "dequeue"}]
    <3>1. 0 \in 0..MaxRequests
      BY ConstantsAssumption, SMTT(30)
    <3>2. /\ received \in [Clients -> 0..MaxRequests]
          /\ rpc \in [Clients -> {"read", "complete", "ready", "dequeue"}]
      BY DEF BaseInv, TypeOK, Data
    <3> QED
      BY <1>8, <3>1, <3>2 DEF ReadDequeue
  <2>3. Data'
    BY <1>8, <2>1, <2>2
    DEF ReadDequeue, BaseInv, TypeOK, Data, clientVars, queueVars, pumpVars
  <2>4. Flags'
    BY <1>8, <2>1 DEF ReadDequeue, BaseInv, TypeOK, Flags, clientVars
  <2>5. Idle'
    BY <1>8 DEF ReadDequeue, BaseInv, Idle, pumpVars
  <2> QED
    BY <2>3, <2>4, <2>5 DEF BaseInv, TypeOK
<1>9. ASSUME NEW c \in Clients, Connect(c), raced' = (raced \/ Overtakable') PROVE BaseInv'
  <2>1. Data'
    <3>1. connects' \in 0..MaxConnects
      BY <1>9, SMTT(30) DEF Connect, BaseInv, TypeOK, Data
    <3>2. up' \in [Clients -> BOOLEAN] /\ exists' \in [Clients -> BOOLEAN]
      BY <1>9 DEF Connect, BaseInv, TypeOK, Data
    <3> QED
      BY <1>9, <3>1, <3>2
      DEF Connect, BaseInv, TypeOK, Data, backlogVars, pumpVars, readerVars
  <2>2. Flags'
    BY <1>9 DEF Connect, BaseInv, TypeOK, Flags, backlogVars, pumpVars, readerVars
  <2>3. Idle'
    BY <1>9 DEF Connect, BaseInv, Idle, backlogVars, pumpVars, readerVars
  <2> QED
    BY <2>1, <2>2, <2>3 DEF BaseInv, TypeOK
<1>10. ASSUME NEW c \in Clients, Disconnect(c), raced' = (raced \/ Overtakable') PROVE BaseInv'
  <2>1. Data'
    BY <1>10
    DEF Disconnect, BaseInv, TypeOK, Data, backlogVars, queueVars, pumpVars, readerVars,
        historyVars
  <2>2. Flags'
    BY <1>10
    DEF Disconnect, BaseInv, TypeOK, Flags, backlogVars, queueVars, pumpVars,
        readerVars, historyVars
  <2>3. Idle'
    BY <1>10
    DEF Disconnect, BaseInv, Idle, backlogVars, queueVars, pumpVars, readerVars,
        historyVars
  <2> QED
    BY <2>1, <2>2, <2>3 DEF BaseInv, TypeOK
<1>11. ASSUME NEW c \in Clients, DeleteQueue(c), raced' = (raced \/ Overtakable') PROVE BaseInv'
  <2>1. Data'
    <3>1. <<>> \in Seq(Requests)
      BY EmptySeq
    <3>2. queue' \in [Clients -> Seq(Requests)]
      BY <1>11, <3>1 DEF DeleteQueue, BaseInv, TypeOK, Data
    <3>3. /\ exists' \in [Clients -> BOOLEAN]
          /\ dpc' \in [Clients -> {"idle", "delete", "token", "flush"}]
      BY <1>11 DEF DeleteQueue, BaseInv, TypeOK, Data
    <3> QED
      BY <1>11, <3>2, <3>3
      DEF DeleteQueue, BaseInv, TypeOK, Data, backlogVars, pumpVars, readerVars
  <2>2. Flags'
    BY <1>11
    DEF DeleteQueue, BaseInv, TypeOK, Flags, backlogVars, pumpVars, readerVars,
        historyVars
  <2>3. Idle'
    BY <1>11
    DEF DeleteQueue, BaseInv, Idle, backlogVars, pumpVars, readerVars, historyVars
  <2> QED
    BY <2>1, <2>2, <2>3 DEF BaseInv, TypeOK
<1>12. ASSUME NEW c \in Clients, DeleteToken(c), raced' = (raced \/ Overtakable') PROVE BaseInv'
  <2>1. Data'
    <3>1. /\ Append(requestC, c) \in Seq(Clients) /\ Len(requestC) \in Nat
          /\ Len(Append(requestC, c)) = Len(requestC) + 1
      BY Push DEF BaseInv, TypeOK, Data
    <3>2. requestC' \in Seq(Clients) /\ Len(requestC') <= RequestRoom
      BY <1>12, <3>1, SMTT(30) DEF DeleteToken
    <3>3. pending' \in [Clients -> 0..MaxRequests]
      BY <1>12, SMTT(30) DEF DeleteToken, BaseInv, TypeOK, Data
    <3>4. dpc' \in [Clients -> {"idle", "delete", "token", "flush"}]
      BY <1>12 DEF DeleteToken, BaseInv, TypeOK, Data
    <3> QED
      BY <1>12, <3>2, <3>3, <3>4
      DEF DeleteToken, BaseInv, TypeOK, Data, backlogVars, pumpVars, readerVars
  <2>2. Flags'
    BY <1>12 DEF DeleteToken, BaseInv, TypeOK, Flags, backlogVars, pumpVars, readerVars
  <2>3. Idle'
    BY <1>12 DEF DeleteToken, BaseInv, Idle, backlogVars, pumpVars, readerVars
  <2> QED
    BY <2>1, <2>2, <2>3 DEF BaseInv, TypeOK
<1>13. ASSUME NEW c \in Clients, Flush(c), raced' = (raced \/ Overtakable') PROVE BaseInv'
  <2>1. Data'
    <3>1. callbacks[c] \in Seq(Requests) /\ callbacks \in [Clients -> Seq(Requests)]
      BY DEF BaseInv, TypeOK, Data
    <3>2. callbacks[c] # <<>> => Tail(callbacks[c]) \in Seq(Requests)
      BY <3>1, Pop
    <3>3. callbacks' \in [Clients -> Seq(Requests)]
      BY <1>13, <3>1, <3>2 DEF Flush
    <3>4. dpc' \in [Clients -> {"idle", "delete", "token", "flush"}]
      BY <1>13 DEF Flush, BaseInv, TypeOK, Data
    <3> QED
      BY <1>13, <3>3, <3>4
      DEF Flush, BaseInv, TypeOK, Data, queueVars, pumpVars, readerVars
  <2>2. Flags'
    BY <1>13
    DEF Flush, BaseInv, TypeOK, Flags, queueVars, pumpVars, readerVars, historyVars
  <2>3. Idle'
    BY <1>13 DEF Flush, BaseInv, Idle, queueVars, pumpVars, readerVars, historyVars
  <2> QED
    BY <2>1, <2>2, <2>3 DEF BaseInv, TypeOK
<1>14. ASSUME UNCHANGED vars PROVE BaseInv'
  <2>1. Data'
    BY <1>14 DEF BaseInv, TypeOK, Data, vars
  <2>2. Flags'
    BY <1>14 DEF BaseInv, TypeOK, Flags, vars
  <2>3. Idle'
    BY <1>14 DEF BaseInv, Idle, vars
  <2> QED
    BY <2>1, <2>2, <2>3 DEF BaseInv, TypeOK
<1> QED
  BY PumpTurns, <1>1, <1>2, <1>3, <1>4, <1>5, <1>6, <1>7, <1>8, <1>9, <1>10, <1>11,
     <1>12, <1>13, <1>14
  DEF Next, Step, Pump, Reader, Cleaner

LEMMA CalledInit == Init => AllCalled
BY DEF Init, AllCalled

LEMMA CalledStep == BaseInv /\ AllCalled /\ [Next]_vars => AllCalled'
<1> SUFFICES ASSUME BaseInv, AllCalled, [Next]_vars PROVE AllCalled'
  OBVIOUS
<1>1. ASSUME Signal, raced' = (raced \/ Overtakable') PROVE AllCalled'
  BY <1>1
  DEF Signal, AllCalled, BaseInv, TypeOK, Data, clientVars, queueVars, pumpVars,
      readerVars, historyVars
<1>2. ASSUME PumpTurn, raced' = (raced \/ Overtakable') PROVE AllCalled'
  BY <1>2
  DEF PumpTurn, AllCalled, BaseInv, TypeOK, Data, clientVars, backlogVars, readerVars,
      historyVars
<1>3. ASSUME PumpCancel, raced' = (raced \/ Overtakable') PROVE AllCalled'
  <2>1. canceled.client \in Clients /\ Dequeue(canceled.client, canceled.request)
    BY <1>3 DEF PumpCancel, BaseInv, Idle
  <2>2. \A c \in Clients : callbacks[c] = <<>> => callbacks'[c] = <<>>
    BY <2>1, DequeueDoes DEF BaseInv
  <2> QED
    BY <1>3, <2>2 DEF PumpCancel, AllCalled, clientVars, queueVars
<1>4. ASSUME NEW c \in Clients, TryQueue(c), raced' = (raced \/ Overtakable') PROVE AllCalled'
  BY <1>4
  DEF TryQueue, AllCalled, BaseInv, TypeOK, Data, clientVars, pumpVars, readerVars,
      historyVars
<1>5. ASSUME NEW c \in Clients, Read(c), raced' = (raced \/ Overtakable') PROVE AllCalled'
  BY <1>5
  DEF Read, AllCalled, BaseInv, TypeOK, Data, clientVars, backlogVars, queueVars,
      pumpVars, historyVars
<1>6. ASSUME NEW c \in Clients, ReadComplete(c), raced' = (raced \/ Overtakable') PROVE AllCalled'
  BY <1>6
  DEF ReadComplete, AllCalled, BaseInv, TypeOK, Data, clientVars, backlogVars, pumpVars
<1>7. ASSUME NEW c \in Clients, ReadReady(c), raced' = (raced \/ Overtakable') PROVE AllCalled'
  BY <1>7
  DEF ReadReady, AllCalled, BaseInv, TypeOK, Data, clientVars, backlogVars, queueVars,
      pumpVars, historyVars
<1>8. ASSUME NEW c \in Clients, ReadDequeue(c), raced' = (raced \/ Overtakable') PROVE AllCalled'
  <2>1. \A d \in Clients : callbacks[d] = <<>> => callbacks'[d] = <<>>
    BY <1>8, DequeueDoes DEF ReadDequeue, BaseInv
  <2> QED
    BY <1>8, <2>1 DEF ReadDequeue, AllCalled, clientVars, queueVars
<1>9. ASSUME NEW c \in Clients, Connect(c), raced' = (raced \/ Overtakable') PROVE AllCalled'
  BY <1>9
  DEF Connect, AllCalled, BaseInv, TypeOK, Data, backlogVars, pumpVars, readerVars
<1>10. ASSUME NEW c \in Clients, Disconnect(c), raced' = (raced \/ Overtakable') PROVE AllCalled'
  BY <1>10
  DEF Disconnect, AllCalled, BaseInv, TypeOK, Data, backlogVars, queueVars, pumpVars,
      readerVars, historyVars
<1>11. ASSUME NEW c \in Clients, DeleteQueue(c), raced' = (raced \/ Overtakable') PROVE AllCalled'
  BY <1>11
  DEF DeleteQueue, AllCalled, BaseInv, TypeOK, Data, backlogVars, pumpVars, readerVars,
      historyVars
<1>12. ASSUME NEW c \in Clients, DeleteToken(c), raced' = (raced \/ Overtakable') PROVE AllCalled'
  BY <1>12
  DEF DeleteToken, AllCalled, BaseInv, TypeOK, Data, backlogVars, pumpVars, readerVars
<1>13. ASSUME NEW c \in Clients, Flush(c), raced' = (raced \/ Overtakable') PROVE AllCalled'
  BY <1>13
  DEF Flush, AllCalled, BaseInv, TypeOK, Data, queueVars, pumpVars, readerVars,
      historyVars
<1>14. ASSUME UNCHANGED vars PROVE AllCalled'
  BY <1>14 DEF AllCalled, vars
<1> QED
  BY PumpTurns, <1>1, <1>2, <1>3, <1>4, <1>5, <1>6, <1>7, <1>8, <1>9, <1>10, <1>11,
     <1>12, <1>13, <1>14
  DEF Next, Step, Pump, Reader, Cleaner

(* None of the exceptions has happened. *)
Usual == ~stale /\ ~doubled /\ ~raced /\ ~overlapped

Raced == Overtakable => raced

(* While the server cleans up after a client, the dispatcher has nothing of it. *)
Emptied ==
    ~overlapped => \A c \in Clients : Cleaning(c) => ~exists[c] /\ queue[c] = <<>>

(* The request whose outcome a goroutine is about to pass on. *)
Outcome(c) ==
    IF PumpHolds(c) THEN <<canceled.request>>
    ELSE IF ReaderHolds(c) THEN <<received[c]>> ELSE <<>>

(* The callbacks wait in the order of the requests, with the one whose outcome *)
(* is under way in front.                                                    *)
Lined == Usual => \A c \in Clients : ~Cleaning(c) => callbacks[c] = Outcome(c) \o queue[c]

OrderInv == Raced /\ Emptied /\ Lined /\ Paired

LEMMA OrderInit == Init => OrderInv
<1> SUFFICES ASSUME Init PROVE OrderInv
  OBVIOUS
<1>1. \A c \in Clients : ~PumpHolds(c) /\ ~ReaderHolds(c) /\ ~Cleaning(c)
  BY ConstantsAssumption DEF Init, PumpHolds, ReaderHolds, Cleaning, Nothing
<1>2. Raced /\ Emptied /\ Paired
  BY <1>1 DEF Init, Raced, Overtakable, Emptied, Paired
<1>3. <<>> \o <<>> = <<>>
  BY EmptySeq, ConcatEmptySeq
<1>4. Lined
  BY <1>1, <1>3 DEF Init, Lined, Outcome
<1> QED
  BY <1>2, <1>4 DEF OrderInv

LEMMA ClientQueues ==
    ASSUME BaseInv, NEW c \in Clients
    PROVE  queue[c] \in Seq(Nat) /\ Outcome(c) \in Seq(Nat)
<1>1. queue[c] \in Seq(Requests) /\ Requests \subseteq Nat
  BY ConstantsAssumption, SMTT(30) DEF BaseInv, TypeOK, Data, Requests
<1>2. canceled.request \in Nat /\ received[c] \in Nat
  BY SMTT(30) DEF BaseInv, TypeOK, Data
<1>3. Outcome(c) \in Seq(Nat)
  BY <1>2, SMTT(30) DEF Outcome
<1> QED
  BY <1>1, <1>3, SeqMonotonic

(* Where the server cleans up, nobody has an outcome, and nothing is queued. *)
LEMMA Rest ==
    ASSUME OrderInv, Usual, NEW c \in Clients, Cleaning(c)
    PROVE  <<>> = Outcome(c) \o queue[c]
<1>1. ~PumpHolds(c) /\ ~ReaderHolds(c) /\ queue[c] = <<>>
  BY DEF OrderInv, Usual, Raced, Overtakable, Emptied
<1>2. <<>> \o <<>> = <<>>
  BY EmptySeq, ConcatEmptySeq
<1> QED
  BY <1>1, <1>2 DEF Outcome


LEMMA OrderStep == BaseInv /\ OrderInv /\ [Next]_vars => OrderInv'
<1> SUFFICES ASSUME BaseInv, OrderInv, [Next]_vars PROVE OrderInv'
  OBVIOUS
<1> USE ConstantsAssumption
<1>1. ASSUME Signal, raced' = (raced \/ Overtakable') PROVE OrderInv'
  <2>1. Raced'
    BY <1>1 DEF Raced
  <2>2. Emptied'
    BY <1>1
    DEF Signal, OrderInv, Emptied, Cleaning, BaseInv, TypeOK, Data, clientVars,
        queueVars, pumpVars, readerVars, historyVars
  <2>3. Lined'
    BY <1>1
    DEF Signal, OrderInv, Lined, Usual, Outcome, PumpHolds, ReaderHolds, Cleaning,
        BaseInv, TypeOK, Data, clientVars, queueVars, pumpVars, readerVars, historyVars
  <2>4. Paired'
    BY <1>1
    DEF Signal, OrderInv, Paired, clientVars, queueVars, pumpVars, readerVars,
        historyVars
  <2> QED
    BY <2>1, <2>2, <2>3, <2>4 DEF OrderInv
<1>2. ASSUME PumpTurn, raced' = (raced \/ Overtakable') PROVE OrderInv'
  <2>1. Raced'
    BY <1>2 DEF Raced
  <2>2. Emptied'
    <3>1. \A c \in Clients : queue[c] = <<>> => queue'[c] = <<>>
      BY <1>2 DEF PumpTurn, Cancels, BaseInv, TypeOK, Data
    <3> QED
      BY <1>2, <3>1 DEF PumpTurn, OrderInv, Emptied, Cleaning, clientVars, historyVars
  <2>3. Lined'
    <3> SUFFICES ASSUME Usual', NEW d \in Clients, ~Cleaning(d)'
                 PROVE  callbacks'[d] = Outcome(d)' \o queue'[d]
      BY DEF Lined
    <3>1. canceled = Nothing /\ ~PumpHolds(d)
      BY <1>2, SMTT(30) DEF PumpTurn, BaseInv, Idle, Nothing, PumpHolds
    <3>2. /\ dpc' = dpc /\ callbacks' = callbacks /\ rpc' = rpc /\ received' = received
          /\ Usual
      BY <1>2 DEF PumpTurn, Usual, clientVars, backlogVars, readerVars, historyVars
    <3>3. callbacks[d] = Outcome(d) \o queue[d] /\ queue[d] \in Seq(Nat)
      BY <3>2, ClientQueues DEF OrderInv, Lined, Cleaning
    <3>4. CASE UNCHANGED <<queue, canceled, ppc>>
      BY <3>2, <3>3, <3>4 DEF Outcome, PumpHolds, ReaderHolds
    <3>5. ASSUME NEW c \in Clients, Cancels(c)
          PROVE  callbacks'[d] = Outcome(d)' \o queue'[d]
      <4>1. CASE d = c
        <5>1. PumpHolds(d)' /\ canceled'.request = Head(queue[d]) /\ queue[d] # <<>>
          BY <3>5, <4>1 DEF Cancels, PumpHolds
        <5>2. ~ReaderHolds(d)
          BY <1>2, <3>2, <5>1 DEF Usual, Overtakable, ReaderHolds
        <5>3. callbacks[d] = queue[d]
          BY <3>1, <3>3, <5>2, ConcatEmptySeq DEF Outcome
        <5>4. Outcome(d)' = <<Head(queue[d])>>
          BY <5>1 DEF Outcome
        <5>5. queue'[d] = Tail(queue[d])
          BY <3>5, <4>1 DEF Cancels, BaseInv, TypeOK, Data
        <5> QED
          BY <3>2, <3>3, <5>1, <5>3, <5>4, <5>5, Behead
      <4>2. CASE d # c
        <5>1. ~PumpHolds(d)' /\ queue'[d] = queue[d]
          BY <3>5, <4>2 DEF Cancels, PumpHolds, BaseInv, TypeOK, Data
        <5>2. Outcome(d)' = Outcome(d)
          BY <3>1, <3>2, <5>1 DEF Outcome, ReaderHolds
        <5> QED
          BY <3>2, <3>3, <5>1, <5>2
      <4> QED
        BY <4>1, <4>2
    <3> QED
      BY <1>2, <3>4, <3>5 DEF PumpTurn
  <2>4. Paired'
    BY <1>2
    DEF PumpTurn, OrderInv, Paired, clientVars, backlogVars, readerVars, historyVars
  <2> QED
    BY <2>1, <2>2, <2>3, <2>4 DEF OrderInv
<1>3. ASSUME PumpCancel, raced' = (raced \/ Overtakable') PROVE OrderInv'
  <2> DEFINE k == canceled.client
             r == canceled.request
  <2>1. k \in Clients /\ Dequeue(k, r) /\ PumpHolds(k) /\ r \in Nat
    <3>1. /\ canceled.client \in Clients
          /\ Dequeue(canceled.client, canceled.request)
      BY <1>3 DEF PumpCancel, BaseInv, Idle
    <3>2. canceled.request \in Nat
      BY SMTT(30) DEF BaseInv, TypeOK, Data
    <3> QED
      BY <3>1, <3>2 DEF PumpHolds
  <2>2. /\ dpc' = dpc /\ exists' = exists /\ queue' = queue /\ rpc' = rpc
        /\ received' = received /\ overlapped' = overlapped /\ canceled' = Nothing
        /\ Usual' => Usual
    BY <1>3
    DEF PumpCancel, clientVars, queueVars, readerVars, Usual
  <2>3. Raced' /\ Emptied'
    BY <1>3, <2>2 DEF OrderInv, Raced, Emptied, Cleaning
  <2>4. ASSUME Usual' PROVE ~mispaired' /\ Lined'
    <3>1. Usual /\ ~Cleaning(k) /\ ~ReaderHolds(k) /\ ~mispaired
      BY <2>1, <2>2, <2>4 DEF Usual, OrderInv, Raced, Overtakable, Paired
    <3>2. callbacks[k] = <<r>> \o queue[k] /\ queue[k] \in Seq(Nat)
      BY <2>1, <3>1, ClientQueues DEF OrderInv, Lined, Outcome
    <3>3. callbacks[k] # <<>> /\ Head(callbacks[k]) = r /\ Tail(callbacks[k]) = queue[k]
      BY <2>1, <3>2, Prepend
    <3>4. callbacks' = [callbacks EXCEPT ![k] = queue[k]] /\ ~mispaired'
      BY <2>1, <3>1, <3>3 DEF Dequeue
    <3> SUFFICES ASSUME NEW d \in Clients, ~Cleaning(d)'
                 PROVE  callbacks'[d] = Outcome(d)' \o queue'[d]
      BY <3>4 DEF Lined
    <3>5. ~PumpHolds(d)'
      BY <2>2 DEF PumpHolds, Nothing
    <3>6. CASE d = k
      <4>1. Outcome(d)' = <<>> /\ callbacks'[d] = queue[d]
        BY <2>2, <3>1, <3>4, <3>5, <3>6
        DEF Outcome, ReaderHolds, BaseInv, TypeOK, Data
      <4> QED
        BY <2>2, <3>2, <3>6, <4>1, ConcatEmptySeq
    <3>7. CASE d # k
      <4>1. Outcome(d)' = Outcome(d) /\ callbacks'[d] = callbacks[d]
        BY <2>2, <3>4, <3>5, <3>7
        DEF Outcome, PumpHolds, ReaderHolds, BaseInv, TypeOK, Data
      <4> QED
        BY <2>2, <3>1, <4>1 DEF OrderInv, Lined, Cleaning
    <3> QED
      BY <3>6, <3>7
  <2> QED
    BY <2>3, <2>4 DEF OrderInv, Lined, Paired, Usual
<1>4. ASSUME NEW c \in Clients, TryQueue(c), raced' = (raced \/ Overtakable') PROVE OrderInv'
  <2>1. Raced'
    BY <1>4 DEF Raced
  <2>2. Emptied'
    <3>1. exists[c] /\ \A d \in Clients : d # c => queue'[d] = queue[d]
      BY <1>4 DEF TryQueue, BaseInv, TypeOK, Data
    <3>2. exists' = exists /\ dpc' = dpc /\ overlapped' = overlapped
      BY <1>4 DEF TryQueue, clientVars, historyVars
    <3> QED
      BY <3>1, <3>2 DEF OrderInv, Emptied, Cleaning
  <2>3. Lined'
    <3> SUFFICES ASSUME Usual', NEW d \in Clients, ~Cleaning(d)'
                 PROVE  callbacks'[d] = Outcome(d)' \o queue'[d]
      BY DEF Lined
    <3>1. /\ Usual /\ dpc' = dpc /\ rpc' = rpc /\ received' = received /\ canceled' = canceled
      BY <1>4 DEF TryQueue, Usual, clientVars, pumpVars, readerVars, historyVars
    <3>2. Outcome(d)' = Outcome(d) /\ Outcome(d) \in Seq(Nat)
      BY <3>1, ClientQueues DEF Outcome, PumpHolds, ReaderHolds
    <3>3. callbacks[d] = Outcome(d) \o queue[d] /\ queue[d] \in Seq(Nat)
      BY <3>1, ClientQueues DEF OrderInv, Lined, Cleaning
    <3>4. CASE d = c
      <4>1. callbacks'[d] = Append(callbacks[d], made + 1) /\ queue'[d] = Append(queue[d], made + 1)
        BY <1>4, <3>4 DEF TryQueue, BaseInv, TypeOK, Data
      <4>2. made + 1 \in Nat
        BY SMTT(30) DEF BaseInv, TypeOK, Data
      <4>3. Append(Outcome(d) \o queue[d], made + 1) = Outcome(d) \o Append(queue[d], made + 1)
        BY <3>2, <3>3, <4>2, ConcatAppend
      <4> QED
        BY <3>2, <3>3, <4>1, <4>3
    <3>5. CASE d # c
      <4>1. callbacks'[d] = callbacks[d] /\ queue'[d] = queue[d]
        BY <1>4, <3>5 DEF TryQueue, BaseInv, TypeOK, Data
      <4> QED
        BY <3>2, <3>3, <4>1
    <3> QED
      BY <3>4, <3>5
  <2>4. Paired'
    BY <1>4
    DEF TryQueue, OrderInv, Paired, clientVars, pumpVars, readerVars, historyVars
  <2> QED
    BY <2>1, <2>2, <2>3, <2>4 DEF OrderInv
<1>5. ASSUME NEW c \in Clients, Read(c), raced' = (raced \/ Overtakable') PROVE OrderInv'
  <2>1. Raced'
    BY <1>5 DEF Raced
  <2>2. Emptied'
    BY <1>5
    DEF Read, OrderInv, Emptied, Cleaning, BaseInv, TypeOK, Data, clientVars,
        backlogVars, queueVars, pumpVars, historyVars
  <2>3. Lined'
    <3>1. /\ Usual' => Usual
          /\ callbacks' = callbacks /\ queue' = queue /\ dpc' = dpc /\ canceled' = canceled
      BY <1>5 DEF Read, Usual, clientVars, backlogVars, queueVars, pumpVars, historyVars
    <3>2. \A d \in Clients : /\ ReaderHolds(d)' <=> ReaderHolds(d)
                             /\ ReaderHolds(d) => received'[d] = received[d]
      BY <1>5 DEF Read, ReaderHolds, BaseInv, TypeOK, Data
    <3>3. \A d \in Clients : Outcome(d)' = Outcome(d)
      BY <3>1, <3>2 DEF Outcome, PumpHolds
    <3> QED
      BY <3>1, <3>3 DEF OrderInv, Lined, Cleaning
  <2>4. Paired'
    BY <1>5
    DEF Read, OrderInv, Paired, clientVars, backlogVars, queueVars, pumpVars,
        historyVars
  <2> QED
    BY <2>1, <2>2, <2>3, <2>4 DEF OrderInv
<1>6. ASSUME NEW c \in Clients, ReadComplete(c), raced' = (raced \/ Overtakable') PROVE OrderInv'
  <2>1. Raced'
    BY <1>6 DEF Raced
  <2>2. Emptied'
    <3>1. \A d \in Clients : queue[d] = <<>> => queue'[d] = <<>>
      BY <1>6 DEF ReadComplete, BaseInv, TypeOK, Data
    <3> QED
      BY <1>6, <3>1 DEF ReadComplete, OrderInv, Emptied, Cleaning, clientVars
  <2>3. Lined'
    <3> SUFFICES ASSUME Usual', NEW d \in Clients, ~Cleaning(d)'
                 PROVE  callbacks'[d] = Outcome(d)' \o queue'[d]
      BY DEF Lined
    <3>1. /\ dpc' = dpc /\ callbacks' = callbacks /\ received' = received /\ canceled' = canceled
          /\ Usual
      BY <1>6 DEF ReadComplete, Usual, clientVars, backlogVars, pumpVars
    <3>2. /\ queue[c] # <<>> /\ Head(queue[c]) = received[c]
          /\ queue' = [queue EXCEPT ![c] = Tail(@)] /\ rpc' = [rpc EXCEPT ![c] = "ready"]
      BY <1>6 DEF ReadComplete, Usual
    <3>3. callbacks[d] = Outcome(d) \o queue[d] /\ queue[d] \in Seq(Nat)
      BY <3>1, ClientQueues DEF OrderInv, Lined, Cleaning
    <3>4. CASE d = c
      <4>1. queue'[d] = Tail(queue[d]) /\ ReaderHolds(d)' /\ ~ReaderHolds(d)
        BY <1>6, <3>2, <3>4 DEF ReadComplete, ReaderHolds, BaseInv, TypeOK, Data
      <4>2. ~PumpHolds(d)' /\ ~PumpHolds(d)
        BY <1>6, <3>1, <4>1 DEF Usual, Overtakable, PumpHolds
      <4>3. Outcome(d)' = <<Head(queue[d])>>
        BY <3>1, <3>2, <3>4, <4>1, <4>2 DEF Outcome
      <4>4. callbacks[d] = queue[d]
        BY <3>3, <4>1, <4>2, ConcatEmptySeq DEF Outcome
      <4> QED
        BY <3>1, <3>2, <3>3, <3>4, <4>1, <4>3, <4>4, Behead
    <3>5. CASE d # c
      <4>1. queue'[d] = queue[d] /\ Outcome(d)' = Outcome(d)
        BY <3>1, <3>2, <3>5 DEF Outcome, PumpHolds, ReaderHolds, BaseInv, TypeOK, Data
      <4> QED
        BY <3>1, <3>3, <4>1, SMTT(30)
    <3> QED
      BY <3>4, <3>5
  <2>4. Paired'
    BY <1>6 DEF ReadComplete, OrderInv, Paired, clientVars, backlogVars, pumpVars
  <2> QED
    BY <2>1, <2>2, <2>3, <2>4 DEF OrderInv
<1>7. ASSUME NEW c \in Clients, ReadReady(c), raced' = (raced \/ Overtakable') PROVE OrderInv'
  <2>1. Raced'
    BY <1>7 DEF Raced
  <2>2. Emptied'
    BY <1>7
    DEF ReadReady, OrderInv, Emptied, Cleaning, BaseInv, TypeOK, Data, clientVars,
        backlogVars, queueVars, pumpVars, historyVars
  <2>3. Lined'
    <3>1. \A d \in Clients : ReaderHolds(d)' <=> ReaderHolds(d)
      BY <1>7 DEF ReadReady, ReaderHolds, BaseInv, TypeOK, Data
    <3>2. /\ dpc' = dpc /\ callbacks' = callbacks /\ queue' = queue /\ received' = received
          /\ canceled' = canceled /\ (Usual' => Usual)
      BY <1>7
      DEF ReadReady, Usual, clientVars, backlogVars, queueVars, pumpVars, historyVars
    <3> QED
      BY <3>1, <3>2 DEF OrderInv, Lined, Outcome, PumpHolds, Cleaning
  <2>4. Paired'
    BY <1>7
    DEF ReadReady, OrderInv, Paired, clientVars, backlogVars, queueVars, pumpVars,
        historyVars
  <2> QED
    BY <2>1, <2>2, <2>3, <2>4 DEF OrderInv
<1>8. ASSUME NEW c \in Clients, ReadDequeue(c), raced' = (raced \/ Overtakable') PROVE OrderInv'
  <2>1. Dequeue(c, received[c]) /\ ReaderHolds(c) /\ received[c] \in Nat
    <3>1. received \in [Clients -> 0..MaxRequests] /\ MaxRequests \in Nat
      BY ConstantsAssumption DEF BaseInv, TypeOK, Data
    <3> QED
      BY <1>8, <3>1, SMTT(30) DEF ReadDequeue, ReaderHolds
  <2>2. /\ dpc' = dpc /\ exists' = exists /\ queue' = queue /\ canceled' = canceled
        /\ rpc' = [rpc EXCEPT ![c] = "read"] /\ received' = [received EXCEPT ![c] = 0]
        /\ overlapped' = overlapped /\ (Usual' => Usual)
    BY <1>8 DEF ReadDequeue, clientVars, queueVars, pumpVars, Usual
  <2>3. Raced' /\ Emptied'
    BY <1>8, <2>2 DEF OrderInv, Raced, Emptied, Cleaning
  <2>4. ASSUME Usual' PROVE ~mispaired' /\ Lined'
    <3>1. Usual /\ ~Cleaning(c) /\ ~PumpHolds(c) /\ ~mispaired
      BY <2>1, <2>2, <2>4 DEF Usual, OrderInv, Raced, Overtakable, Paired
    <3>2. callbacks[c] = <<received[c]>> \o queue[c] /\ queue[c] \in Seq(Nat)
      BY <2>1, <3>1, ClientQueues DEF OrderInv, Lined, Outcome
    <3>3. callbacks[c] # <<>> /\ Head(callbacks[c]) = received[c] /\ Tail(callbacks[c]) = queue[c]
      BY <2>1, <3>2, Prepend
    <3>4. callbacks' = [callbacks EXCEPT ![c] = queue[c]] /\ ~mispaired'
      BY <2>1, <3>1, <3>3 DEF Dequeue
    <3> SUFFICES ASSUME NEW d \in Clients, ~Cleaning(d)'
                 PROVE  callbacks'[d] = Outcome(d)' \o queue'[d]
      BY <3>4 DEF Lined
    <3>5. CASE d = c
      <4>1. ~ReaderHolds(d)' /\ ~PumpHolds(d)' /\ callbacks'[d] = queue[d]
        BY <2>2, <3>1, <3>4, <3>5 DEF ReaderHolds, PumpHolds, BaseInv, TypeOK, Data
      <4>2. Outcome(d)' = <<>>
        BY <4>1 DEF Outcome
      <4> QED
        BY <2>2, <3>2, <3>5, <4>1, <4>2, ConcatEmptySeq
    <3>6. CASE d # c
      <4>1. Outcome(d)' = Outcome(d) /\ callbacks'[d] = callbacks[d]
        BY <2>2, <3>4, <3>6 DEF Outcome, PumpHolds, ReaderHolds, BaseInv, TypeOK, Data
      <4> QED
        BY <2>2, <3>1, <4>1 DEF OrderInv, Lined, Cleaning
    <3> QED
      BY <3>5, <3>6
  <2> QED
    BY <2>3, <2>4 DEF OrderInv, Lined, Paired, Usual
<1>9. ASSUME NEW c \in Clients, Connect(c), raced' = (raced \/ Overtakable') PROVE OrderInv'
  <2>1. Raced'
    BY <1>9 DEF Raced
  <2>2. Emptied'
    BY <1>9
    DEF Connect, OrderInv, Emptied, Cleaning, BaseInv, TypeOK, Data, backlogVars,
        pumpVars, readerVars
  <2>3. Lined'
    BY <1>9
    DEF Connect, OrderInv, Lined, Usual, Outcome, PumpHolds, ReaderHolds, Cleaning,
        BaseInv, TypeOK, Data, backlogVars, pumpVars, readerVars
  <2>4. Paired'
    BY <1>9 DEF Connect, OrderInv, Paired, backlogVars, pumpVars, readerVars
  <2> QED
    BY <2>1, <2>2, <2>3, <2>4 DEF OrderInv
<1>10. ASSUME NEW c \in Clients, Disconnect(c), raced' = (raced \/ Overtakable') PROVE OrderInv'
  <2>1. Raced'
    BY <1>10 DEF Raced
  <2>2. Emptied'
    BY <1>10
    DEF Disconnect, OrderInv, Emptied, Cleaning, BaseInv, TypeOK, Data, backlogVars,
        queueVars, pumpVars, readerVars, historyVars
  <2>3. Lined'
    BY <1>10
    DEF Disconnect, OrderInv, Lined, Usual, Outcome, PumpHolds, ReaderHolds, Cleaning,
        BaseInv, TypeOK, Data, backlogVars, queueVars, pumpVars, readerVars, historyVars
  <2>4. Paired'
    BY <1>10
    DEF Disconnect, OrderInv, Paired, backlogVars, queueVars, pumpVars, readerVars,
        historyVars
  <2> QED
    BY <2>1, <2>2, <2>3, <2>4 DEF OrderInv
<1>11. ASSUME NEW c \in Clients, DeleteQueue(c), raced' = (raced \/ Overtakable') PROVE OrderInv'
  <2>1. Raced'
    BY <1>11 DEF Raced
  <2>2. Emptied'
    BY <1>11
    DEF DeleteQueue, OrderInv, Emptied, Cleaning, BaseInv, TypeOK, Data, backlogVars,
        pumpVars, readerVars, historyVars
  <2>3. Lined'
    <3>1. /\ Usual' => Usual
          /\ callbacks' = callbacks
          /\ \A d \in Clients : Outcome(d)' = Outcome(d)
      BY <1>11
      DEF DeleteQueue, Usual, Outcome, PumpHolds, ReaderHolds, backlogVars, pumpVars,
          readerVars, historyVars
    <3>2. \A d \in Clients : ~Cleaning(d)' => ~Cleaning(d) /\ queue'[d] = queue[d]
      BY <1>11 DEF DeleteQueue, Cleaning, BaseInv, TypeOK, Data
    <3> QED
      BY <3>1, <3>2 DEF OrderInv, Lined
  <2>4. Paired'
    BY <1>11
    DEF DeleteQueue, OrderInv, Paired, backlogVars, pumpVars, readerVars, historyVars
  <2> QED
    BY <2>1, <2>2, <2>3, <2>4 DEF OrderInv
<1>12. ASSUME NEW c \in Clients, DeleteToken(c), raced' = (raced \/ Overtakable') PROVE OrderInv'
  <2>1. Raced'
    BY <1>12 DEF Raced
  <2>2. Emptied'
    BY <1>12
    DEF DeleteToken, OrderInv, Emptied, Cleaning, BaseInv, TypeOK, Data, backlogVars,
        pumpVars, readerVars
  <2>3. Lined'
    <3> SUFFICES ASSUME Usual', NEW d \in Clients, ~Cleaning(d)'
                 PROVE  callbacks'[d] = Outcome(d)' \o queue'[d]
      BY DEF Lined
    <3>1. /\ callbacks' = callbacks /\ queue' = queue /\ received' = received /\ rpc' = rpc
          /\ canceled' = canceled /\ Usual
      BY <1>12 DEF DeleteToken, Usual, backlogVars, pumpVars, readerVars
    <3>2. Outcome(d)' = Outcome(d)
      BY <3>1 DEF Outcome, PumpHolds, ReaderHolds
    <3>3. CASE d = c
      <4>1. Cleaning(d) /\ callbacks[d] = <<>>
        BY <1>12, <3>3 DEF DeleteToken, Cleaning, Usual, BaseInv, TypeOK, Data
      <4> QED
        BY <3>1, <3>2, <4>1, Rest
    <3>4. CASE d # c
      <4>1. ~Cleaning(d)
        BY <1>12, <3>4 DEF DeleteToken, Cleaning, BaseInv, TypeOK, Data
      <4> QED
        BY <3>1, <3>2, <4>1 DEF OrderInv, Lined
    <3> QED
      BY <3>3, <3>4
  <2>4. Paired'
    BY <1>12 DEF DeleteToken, OrderInv, Paired, backlogVars, pumpVars, readerVars
  <2> QED
    BY <2>1, <2>2, <2>3, <2>4 DEF OrderInv
<1>13. ASSUME NEW c \in Clients, Flush(c), raced' = (raced \/ Overtakable') PROVE OrderInv'
  <2>1. Raced'
    BY <1>13 DEF Raced
  <2>2. Emptied'
    BY <1>13
    DEF Flush, OrderInv, Emptied, Cleaning, BaseInv, TypeOK, Data, queueVars, pumpVars,
        readerVars, historyVars
  <2>3. Lined'
    <3> SUFFICES ASSUME Usual', NEW d \in Clients, ~Cleaning(d)'
                 PROVE  callbacks'[d] = Outcome(d)' \o queue'[d]
      BY DEF Lined
    <3>1. /\ queue' = queue /\ received' = received /\ rpc' = rpc /\ canceled' = canceled
          /\ Usual
      BY <1>13 DEF Flush, Usual, queueVars, pumpVars, readerVars, historyVars
    <3>2. Outcome(d)' = Outcome(d)
      BY <3>1 DEF Outcome, PumpHolds, ReaderHolds
    <3>3. CASE d = c
      <4>1. Cleaning(d) /\ callbacks[d] = <<>> /\ callbacks'[d] = <<>>
        BY <1>13, <3>3 DEF Flush, Cleaning, BaseInv, TypeOK, Data
      <4> QED
        BY <3>1, <3>2, <4>1, Rest
    <3>4. CASE d # c
      <4>1. ~Cleaning(d) /\ callbacks'[d] = callbacks[d]
        BY <1>13, <3>4 DEF Flush, Cleaning, BaseInv, TypeOK, Data
      <4> QED
        BY <3>1, <3>2, <4>1 DEF OrderInv, Lined
    <3> QED
      BY <3>3, <3>4
  <2>4. Paired'
    BY <1>13 DEF Flush, OrderInv, Paired, queueVars, pumpVars, readerVars, historyVars
  <2> QED
    BY <2>1, <2>2, <2>3, <2>4 DEF OrderInv
<1>14. ASSUME UNCHANGED vars PROVE OrderInv'
  BY <1>14
  DEF OrderInv, Raced, Overtakable, Emptied, Lined, Usual, Outcome, PumpHolds,
      ReaderHolds, Cleaning, Paired, vars
<1> QED
  BY PumpTurns, <1>1, <1>2, <1>3, <1>4, <1>5, <1>6, <1>7, <1>8, <1>9, <1>10, <1>11,
     <1>12, <1>13, <1>14
  DEF Next, Step, Pump, Reader, Cleaner

(* Every variable has a value of its type, and no channel holds more than it   *)
(* can.                                                                      *)
THEOREM TypeCorrect == Spec => []TypeOK
<1>1. BaseInv => TypeOK
  BY DEF BaseInv
<1> QED
  BY BaseInit, BaseStep, <1>1, PTL DEF Spec

(* With the disconnected handler of 1.6, no callback is left once the          *)
(* clean-up after a client is over.                                          *)
THEOREM NoneLeft == Spec => []AllCalled
BY BaseInit, BaseStep, CalledInit, CalledStep, PTL DEF Spec

(* A client has one callback for every request queued and for every outcome    *)
(* under way, with the exceptions InStep names.                              *)
THEOREM CallbacksInStep == Spec => []InStep
<1>1. BaseInv /\ OrderInv => InStep
  <2> SUFFICES ASSUME BaseInv, OrderInv, Usual, NEW c \in Clients, ~Cleaning(c)
               PROVE  Len(callbacks[c]) = Len(queue[c]) + Held(PumpHolds(c))
                                                        + Held(ReaderHolds(c))
    BY DEF InStep, Usual
  <2>1. queue[c] \in Seq(Nat) /\ Outcome(c) \in Seq(Nat)
    BY ClientQueues
  <2>2. Len(callbacks[c]) = Len(Outcome(c)) + Len(queue[c]) /\ Len(queue[c]) \in Nat
    <3>1. callbacks[c] = Outcome(c) \o queue[c]
      BY DEF OrderInv, Lined
    <3>2. Len(Outcome(c) \o queue[c]) = Len(Outcome(c)) + Len(queue[c])
      BY <2>1, ConcatProperties
    <3> QED
      BY <2>1, <3>1, <3>2, LenProperties
  <2>3. ~(PumpHolds(c) /\ ReaderHolds(c))
    BY DEF OrderInv, Usual, Raced, Overtakable
  <2>4. Len(Outcome(c)) = Held(PumpHolds(c)) + Held(ReaderHolds(c))
    BY <2>3, SMTT(30) DEF Outcome, Held
  <2>5. Held(PumpHolds(c)) \in Nat /\ Held(ReaderHolds(c)) \in Nat
    BY DEF Held
  <2> QED
    BY <2>2, <2>4, <2>5, SMTT(30)
<1> QED
  BY BaseInit, BaseStep, OrderInit, OrderStep, <1>1, PTL DEF Spec

(* A callback is called with the outcome of its own request, with the same     *)
(* exceptions.                                                               *)
THEOREM OutcomesPaired == Spec => []Paired
<1>1. OrderInv => Paired
  BY DEF OrderInv
<1> QED
  BY BaseInit, BaseStep, OrderInit, OrderStep, <1>1, PTL DEF Spec

=============================================================================
