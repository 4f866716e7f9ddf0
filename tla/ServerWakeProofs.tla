--------------------------- MODULE ServerWakeProofs ---------------------------
(***************************************************************************)
(* The wake-ups of the server dispatcher's messagePump, for every set of   *)
(* clients and senders, every capacity and every number of requests:       *)
(* without a timeout none is lost, and with one, on stable connections,    *)
(* the pump never stops.                                                   *)
(***************************************************************************)
EXTENDS ServerDispatcherProofs

(* Steps that need arithmetic, sequences or functions say SMTT. *)
USE ZenonT(60)

(* Why no wake-up is lost.  Without a timeout no context is ever active and *)
(* the timer branch of the pump is never taken.                             *)
NoTimer ==
    /\ timerC = <<>> /\ \A n \in Sends : waiter[n] \in {"none", "done"}
    /\ pc["pump"] \notin {"timeout", "timedout", "expire", "cancel"}
    /\ \A c \in Clients : clientContextMap[c] = 0

(* A dispatcher that was not started has no clients. *)
Unstarted ==
    running = "new" => \A c \in Clients : queueMap[c] = 0 /\ creator[c] = "idle"

(* The front of the client's queue was not transmitted and nothing says so  *)
(* to the pump ...                                                          *)
Due(c) ==
    /\ queueMap[c] # 0 /\ ~IsEmpty(elements[queueMap[c]]) /\ running = "yes"
    /\ ~Transmitted(Peek(elements[queueMap[c]])) /\ ~Announced(c)

(* ... so the pump is about to take it, or to complete it after a Write     *)
(* that failed.                                                             *)
Completing(c) ==
    \/ completing["pump"] = "get"
    \/ completing["pump"] \in {"peek", "pop"} /\ held["pump"] = queueMap[c]
OnItsWay(c) ==
    /\ clientID = c
    /\ \/ pc["pump"] \in {"request", "ready", "get"}
       \/ pc["pump"] = "check" /\ rdy /\ clientQueue = queueMap[c]
       \/ pc["pump"] = "peek" /\ held["pump"] = queueMap[c]
       \/ /\ pc["pump"] \in {"add", "write"}
          /\ bundle["pump"] = Peek(elements[queueMap[c]])
       \/ /\ pc["pump"] = "fail" /\ Completing(c)
          /\ bundle["pump"] = Peek(elements[queueMap[c]])
Wake == \A c \in Clients : Due(c) => OnItsWay(c)

LEMMA NoTimerStep == ASSUME ~TimeoutSet, Typed, NoTimer, Next PROVE NoTimer'
<1>0. PlacesOK /\ RequestsOK /\ ~crashed
  BY DEF Typed, TypeOK, Next, QuietNext
<1>1. ASSUME NEW n \in Sends, Deadline(n) \/ waitForTimeout(n) PROVE FALSE
  BY <1>1 DEF NoTimer, Deadline, waitForTimeout, WaitStopped, WaitLock, WaitSignal,
     WaiterStep
<1>3. CASE UNCHANGED <<timerC, waiter, clientContextMap>> /\ pc'["pump"] = pc["pump"]
  BY <1>3 DEF NoTimer
<1>4. CASE Start
  BY <1>0, <1>4 DEF Start, NoTimer, PlacesOK, Services, chanVars, pumpVars, ctxVars
<1>5. CASE messagePump
  <2>1. ~PumpOnTimer /\ ~TimeoutCheck /\ ~TimeoutGet /\ ~TimeoutPeek /\ ~TimeoutCancel
    BY DEF NoTimer, PumpOnTimer, TimeoutCheck, TimeoutGet, TimeoutPeek, TimeoutCancel,
       PumpStep, Step
  <2>2. pc'["pump"] \notin {"timeout", "timedout", "expire", "cancel"}
    BY <1>0, <1>5, <2>1, PumpArrives
  <2>3. /\ UNCHANGED timerC
        /\ \/ UNCHANGED clientContextMap
           \/ \E x : clientContextMap' = [clientContextMap EXCEPT ![x] = 0]
        /\ \/ UNCHANGED waiter
           \/ \E n : waiter' = Canceled(n)
           \/ \E n : waiter' = [waiter EXCEPT ![n] = "done"]
    <3>1. CASE DispatchWrite
      BY <3>1, TimeoutAssumption DEF DispatchWrite, ctxVars, chanVars
    <3>2. CASE \/ PumpLoop \/ PumpOnStop \/ PumpOnRequest \/ RequestGet \/ PumpOnReady
               \/ ReadyGet \/ PumpCheck
      BY <3>2 DEF PumpLoop, PumpOnStop, PumpOnRequest, RequestGet, PumpOnReady,
         ReadyGet, PumpCheck, data, pumpVars, ctxVars, chanVars
    <3>3. CASE DispatchGet \/ DispatchPeek \/ DispatchAdd \/ DispatchCancel
      BY <3>3 DEF DispatchGet, DispatchPeek, DispatchAdd, DispatchCancel,
         pumpVars, ctxVars, chanVars
    <3> QED
      BY <1>5, <2>1, <3>1, <3>2, <3>3 DEF messagePump
  <2>4. \A c \in Clients : clientContextMap'[c] = 0
    BY <1>0, <2>3 DEF NoTimer, RequestsOK
  <2>5. \A n \in Sends : waiter'[n] \in {"none", "done"}
    BY <1>0, <2>3 DEF NoTimer, Canceled, PlacesOK
  <2> QED
    BY <2>2, <2>3, <2>4, <2>5 DEF NoTimer
<1>6. CASE StopCall \/ Stop
  BY <1>0, <1>3, <1>4, <1>6, OwnerFrame DEF chanVars, pumpVars, ctxVars
<1>7. CASE \E c \in Clients : Connect(c) \/ Create(c)
  BY <1>3, <1>7, CreateFrame DEF chanVars, pumpVars, ctxVars
<1>8. CASE \E c \in Clients : Disconnect(c) \/ Delete(c)
  BY <1>3, <1>8, DeleteFrame DEF pumpVars, ctxVars
<1>9. CASE \E s \in Senders : SendRequest(s)
  BY <1>0, <1>3, <1>9, SendFrame DEF pumpVars, ctxVars
<1>10. CASE \E p \in Completers : CompleteRequest(p)
  BY <1>0, <1>3, <1>10, CompleteFrame DEF pumpVars, ctxVars
<1>11. CASE \E c \in Clients : ocppMessageHandler(c) \/ \E id \in Ids : Receive(c, id)
  BY <1>0, <1>3, <1>11, ReaderFrame DEF chanVars, pumpVars, ctxVars
<1> QED
  BY <1>1, <1>4, <1>5, <1>6, <1>7, <1>8, <1>9, <1>10, <1>11 DEF Next, QuietNext

LEMMA UnstartedStep == ASSUME Typed, Unstarted, Next PROVE Unstarted'
<1>0. PlacesOK
  BY DEF Typed, TypeOK
<1>1. CASE Start \/ Stop
  BY <1>1 DEF Start, Stop, Unstarted
<1>2. ASSUME NEW c \in Clients, Connect(c) \/ Create(c) PROVE Unstarted'
  BY <1>2 DEF Connect, Create, CreateCheck, CreateClient, Unstarted
<1>3. CASE UNCHANGED <<running, creator>>
  BY <1>3, MapKinds, SMTT(30)
     DEF Unstarted, Create, CreateCheck, CreateClient
<1>4. CASE StopCall
  BY <1>3, <1>4 DEF StopCall, data, linkVars
<1>5. CASE \E c \in Clients : Disconnect(c) \/ Delete(c)
  BY <1>3, <1>5, DeleteFrame
<1>6. CASE \E s \in Senders : SendRequest(s)
  BY <1>0, <1>3, <1>6, SendFrame DEF linkVars
<1>7. CASE \E p \in Completers : CompleteRequest(p)
  BY <1>0, <1>3, <1>7, CompleteFrame DEF linkVars
<1>8. CASE messagePump
  BY <1>0, <1>3, <1>8, PumpFrame DEF linkVars
<1>9. CASE \E n \in Sends : Deadline(n) \/ waitForTimeout(n)
  BY <1>3, <1>9, WaiterFrame DEF linkVars
<1>10. CASE \E c \in Clients : ocppMessageHandler(c) \/ \E id \in Ids : Receive(c, id)
  BY <1>0, <1>3, <1>10, ReaderFrame DEF linkVars
<1> QED
  BY <1>1, <1>2, <1>4, <1>5, <1>6, <1>7, <1>8, <1>9, <1>10 DEF Next, QuietNext

LEMMA HoldsAppend ==
    ASSUME NEW S, NEW seq \in Seq(S), NEW x \in S
    PROVE  Holds(Append(seq, x), x) /\ \A y : Holds(seq, y) => Holds(Append(seq, x), y)
<1>1. /\ Len(Append(seq, x)) = Len(seq) + 1 /\ Len(seq) \in Nat
      /\ Append(seq, x)[Len(seq) + 1] = x
      /\ \A i \in 1..Len(seq) : Append(seq, x)[i] = seq[i]
  BY AppendProperties, SMTT(30)
<1>2. Holds(Append(seq, x), x)
  BY <1>1, SMTT(30) DEF Holds
<1>3. ASSUME NEW y, Holds(seq, y) PROVE Holds(Append(seq, x), y)
  BY <1>1, <1>3, SMTT(30) DEF Holds
<1> QED
  BY <1>2, <1>3

LEMMA HoldsTail ==
    ASSUME NEW S, NEW seq \in Seq(S), seq # <<>>, NEW y, Holds(seq, y), y # Head(seq)
    PROVE  Holds(Tail(seq), y)
<1>1. PICK i \in 1..Len(seq) : seq[i] = y
  BY DEF Holds
<1>2. i # 1 /\ Len(seq) \in Nat /\ Len(Tail(seq)) = Len(seq) - 1
  BY <1>1, SMTT(30)
<1>3. i - 1 \in 1..Len(Tail(seq)) /\ Tail(seq)[i - 1] = seq[i]
  BY <1>2, SMTT(30)
<1> QED
  BY <1>1, <1>3 DEF Holds

(* What was announced stays announced until the pump looks: a signal leaves *)
(* its sender for the channel.                                              *)
LEMMA AnnouncedStep ==
    ASSUME Typed, Next, ~messagePump, NEW c \in Clients, Announced(c)
    PROVE  Announced(c)'
<1>0. /\ PlacesOK /\ SendersReady /\ ReadersReady
      /\ requestChannel \in Seq(Clients) /\ readyForDispatch \in Seq(Clients)
      /\ target \in [Senders -> [client : Clients \cup {None}, queue : 0..MaxConnects]]
  BY DEF Typed, TypeOK, ChannelsOK, QueuesOK, Ready
<1>1. UNCHANGED requestChannel \/ \E x \in Clients : requestChannel' = Append(requestChannel, x)
  <2>1. ASSUME NEW d \in Clients, Disconnect(d) \/ Delete(d)
        PROVE  UNCHANGED requestChannel \/ requestChannel' = Append(requestChannel, d)
    BY <2>1 DEF Disconnect, Delete, DeleteClient, DeleteCheck, DeleteLock,
       DeleteSignal, ClearClientPendingRequest, chanVars
  <2>2. ASSUME NEW s \in Senders, SendRequest(s)
        PROVE  \/ UNCHANGED requestChannel
               \/ pc[s] = "signal" /\ requestChannel' = Append(requestChannel, target[s].client)
    BY <2>2 DEF SendRequest, SendCheck, SendGet, SendPush, SendLock, SendSignal,
       Step, data, chanVars
  <2>3. \A s \in Senders : pc[s] = "signal" => target[s].client \in Clients
    BY <1>0 DEF SendersReady
  <2> QED
    BY <1>0, <2>1, <2>2, <2>3, OwnerFrame, CreateFrame, CompleteFrame, WaiterFrame,
       ReaderFrame DEF Next, QuietNext, chanVars
<1>2. UNCHANGED clientID
  BY <1>0, OwnerFrame, CreateFrame, DeleteFrame, SendFrame, CompleteFrame, WaiterFrame,
     ReaderFrame DEF Next, QuietNext, pumpVars, localVars
<1>3. CASE Holds(requestChannel, c)
  <2>1. ASSUME NEW x \in Clients, requestChannel' = Append(requestChannel, x)
        PROVE  Holds(requestChannel', c)
    BY <1>0, <1>3, <2>1, HoldsAppend
  <2>2. Holds(requestChannel', c)
    BY <1>1, <1>3, <2>1
  <2> QED
    BY <2>2 DEF Announced
<1>4. CASE Holds(readyForDispatch, c)
  <2>1. ASSUME NEW p \in Completers, CompleteRequest(p)
        PROVE  \/ UNCHANGED readyForDispatch
               \/ /\ completing[p] # "no"
                  /\ readyForDispatch' = Append(readyForDispatch, ClientOf(p))
    BY <2>1 DEF CompleteRequest, CompleteGet, CompletePeek, CompletePop,
       CompleteDelete, CompleteReady, chanVars
  <2>2. \/ UNCHANGED readyForDispatch
        \/ \E x \in Clients : readyForDispatch' = Append(readyForDispatch, x)
    BY <1>0, <2>1, KnowsClient, OwnerFrame, CreateFrame, DeleteFrame, SendFrame,
       WaiterFrame, ReaderFrame DEF Next, QuietNext, chanVars
  <2>3. ASSUME NEW x \in Clients, readyForDispatch' = Append(readyForDispatch, x)
        PROVE  Holds(readyForDispatch', c)
    BY <1>0, <1>4, <2>3, HoldsAppend
  <2>4. Holds(readyForDispatch', c)
    BY <1>4, <2>2, <2>3
  <2> QED
    BY <2>4 DEF Announced
<1>5. ASSUME NEW s \in Senders, pc[s] \in {"lock", "signal"}, target[s].client = c
      PROVE  Announced(c)'
  <2>1. CASE pc'[s] = pc[s] /\ target'[s] = target[s]
    BY <1>5, <2>1 DEF Announced
  <2>2. CASE SendRequest(s)
    <3>1. SendLock(s) \/ SendSignal(s)
      BY <1>5, <2>2 DEF SendRequest, SendCheck, SendGet, SendPush, Step
    <3>2. CASE SendLock(s)
      BY <1>0, <1>5, <3>2 DEF SendLock, Step, PlacesOK, Announced, data, sendVars
    <3>3. CASE SendSignal(s)
      <4>1. Holds(requestChannel', c)
        BY <1>0, <1>5, <3>3, HoldsAppend, SMTT(30) DEF SendSignal
      <4> QED
        BY <4>1 DEF Announced
    <3> QED
      BY <3>1, <3>2, <3>3
  <2>3. ASSUME NEW o \in Senders, SendRequest(o), o # s
        PROVE  pc'[s] = pc[s] /\ target'[s] = target[s]
    <3>1. pc'[s] = pc[s]
      BY <1>0, <2>3, SendFrame
    <3> QED
      BY <1>0, <2>3, <3>1 DEF SendRequest, SendCheck, SendGet, SendPush, SendLock,
         SendSignal, data, sendVars
  <2> QED
    BY <1>0, <2>1, <2>2, <2>3, OwnerFrame, CreateFrame, DeleteFrame, CompleteFrame,
       WaiterFrame, ReaderFrame DEF Next, QuietNext, sendVars
<1>6. ASSUME NEW p \in Completers, ClientOf(p) = c, completing[p] \in {"delete", "ready"}
      PROVE  Announced(c)'
  <2>0. ClientOf(p)' = c
    BY <1>2, <1>6 DEF ClientOf
  <2>1. CASE completing'[p] = completing[p]
    BY <1>6, <2>0, <2>1 DEF Announced
  <2>2. CASE CompleteRequest(p)
    <3>1. CompleteDelete(p) \/ CompleteReady(p)
      BY <1>6, <2>2 DEF CompleteRequest, CompleteGet, CompletePeek, CompletePop
    <3>2. CASE CompleteDelete(p)
      BY <1>0, <2>0, <3>2 DEF CompleteDelete, PlacesOK, Announced
    <3>3. CASE CompleteReady(p)
      <4>1. Holds(readyForDispatch', c)
        BY <1>0, <1>6, <3>3, HoldsAppend DEF CompleteReady
      <4> QED
        BY <4>1 DEF Announced
    <3> QED
      BY <3>1, <3>2, <3>3
  <2>3. ASSUME NEW o \in Completers, CompleteRequest(o), o # p
        PROVE  completing'[p] = completing[p]
    BY <1>0, <2>3, CompleteFrame
  <2>4. ASSUME NEW d \in Clients, ocppMessageHandler(d) \/ \E id \in Ids : Receive(d, id)
        PROVE  completing'[p] = completing[p]
    <3>1. CASE p # d
      BY <1>0, <2>4, <3>1, ReaderFrame
    <3>2. CASE p = d
      <4>1. reader[d] = "deliver" /\ completing[d] # "no"
        BY <1>0, <1>6, <3>2 DEF ReadersReady
      <4> QED
        BY <2>4, <3>2, <4>1 DEF ocppMessageHandler, ParseMessage, Deliver, Receive
    <3> QED
      BY <3>1, <3>2
  <2> QED
    BY <1>0, <2>1, <2>2, <2>3, <2>4, OwnerFrame, CreateFrame, DeleteFrame, SendFrame,
       WaiterFrame DEF Next, QuietNext, callVars
<1> QED
  BY <1>3, <1>4, <1>5, <1>6 DEF Announced

(* Whatever the others do, a client whose front becomes due was due before, *)
(* with the same queue: who pushes to its queue, or pops it, announces it.  *)
LEMMA DueBefore ==
    ASSUME Typed, Typed', Owned, Unstarted, Next, ~messagePump,
           NEW c \in Clients, Due(c)'
    PROVE  /\ Due(c) /\ queueMap[c] \in Queues /\ queueMap'[c] = queueMap[c]
           /\ elements'[queueMap[c]] = elements[queueMap[c]]
<1>0. /\ PlacesOK /\ RequestsKnown /\ created \in 0..MaxConnects /\ created' \in 0..MaxConnects
      /\ queueMap \in [Clients -> 0..created] /\ elements \in [Queues -> Seq(Ids)]
  BY BoundsAssumption, SMTT(30) DEF Typed, TypeOK, Ready, QueuesOK, RequestsOK
<1>1. ~Announced(c)' /\ ~Announced(c)
  BY AnnouncedStep DEF Due
<1>2. UNCHANGED sent
  BY <1>0, SentKinds
<1>3. queueMap'[c] = queueMap[c]
  <2>1. CASE \E d \in Clients :
               /\ Create(d) /\ queueMap[d] = 0 /\ created' = created + 1
               /\ queueMap' = [queueMap EXCEPT ![d] = created + 1]
    <3>1. PICK d \in Clients :
               /\ Create(d) /\ queueMap[d] = 0 /\ created' = created + 1
               /\ queueMap' = [queueMap EXCEPT ![d] = created + 1]
      BY <2>1
    <3>2. CASE d = c
      <4>1. UNCHANGED elements /\ queueMap'[c] = created + 1 /\ created + 1 \in Queues
        BY <1>0, <3>1, <3>2, CreateFrame, BoundsAssumption, SMTT(30) DEF Queues
      <4>2. ~IsEmpty(elements[created + 1])
        BY <4>1 DEF Due
      <4>3. 1 \in 1..Len(elements[created + 1])
        BY <1>0, <4>1, <4>2, PeekProperties
      <4>4. elements[created + 1][1] \in Accepted /\ dest[elements[created + 1][1]].queue = created + 1
        BY <1>0, <4>1, <4>3 DEF RequestsKnown
      <4> QED
        BY <1>0, <4>4, SMTT(30) DEF RequestsKnown
    <3> QED
      BY <1>0, <3>1, <3>2
  <2> QED
    BY <1>0, <2>1, MapKinds DEF Due
<1>4. running = "yes"
  <2>1. ~Start
    BY <1>3 DEF Start, Unstarted, Due
  <2> QED
    BY <1>0, <2>1, CreateFrame, DeleteFrame, SendFrame, CompleteFrame, WaiterFrame,
       ReaderFrame DEF Due, Next, QuietNext, StopCall, Stop, data
<1>5. PICK k \in Queues : queueMap[c] = k
  BY <1>0, <1>3, BoundsAssumption, SMTT(30) DEF Due, Queues
<1>6. elements'[k] = elements[k]
  <2>1. ASSUME NEW s \in Senders, Pushes(s), target[s].queue = k PROVE FALSE
    <3>1. pc[s] = "push" /\ pc'[s] = "lock" /\ target' = target /\ target[s].client \in Clients
      BY <2>1, PushFacts DEF Pushes
    <3>2. target[s].client = c
      BY <1>5, <2>1, <3>1 DEF Owned, OneOwner, Knows
    <3> QED
      BY <1>1, <3>1, <3>2 DEF Announced
  <2>2. ASSUME NEW p \in Completers, CompleteRequest(p), Pops(p), held[p] = k PROVE FALSE
    <3>1. ClientOf(p) \in Clients /\ completing'[p] = "delete"
      BY <2>2, KnowsClient DEF Pops
    <3>2. ClientOf(p) = c
      BY <1>5, <2>2, <3>1 DEF Owned, OneOwner, Knows
    <3>3. ClientOf(p)' = c
      BY <1>0, <2>2, <3>2, CompleteFrame DEF ClientOf, pumpVars, localVars
    <3> QED
      BY <1>1, <3>1, <3>3 DEF Announced
  <2> QED
    BY <1>0, <2>1, <2>2, RequestKinds, PushFacts, PopFacts
<1>7. Due(c)
  BY <1>1, <1>2, <1>3, <1>4, <1>5, <1>6 DEF Due, Transmitted
<1> QED
  BY <1>3, <1>5, <1>6, <1>7

(* The pump announces a client to itself: it takes a signal or a token out  *)
(* of a channel and turns to that client.                                   *)
LEMMA DueBeforePump ==
    ASSUME Typed, Next, messagePump, NEW c \in Clients, Due(c)'
    PROVE  /\ queueMap[c] \in Queues /\ queueMap'[c] = queueMap[c] /\ UNCHANGED elements
           /\ Due(c) \/ OnItsWay(c)'
<1>0. /\ PlacesOK /\ RequestsOK /\ ~crashed /\ created \in 0..MaxConnects
      /\ queueMap \in [Clients -> 0..created] /\ sent \in Seq(Ids)
      /\ requestChannel \in Seq(Clients) /\ readyForDispatch \in Seq(Clients)
  BY BoundsAssumption, SMTT(30) DEF Typed, TypeOK, QueuesOK, RequestsOK, ChannelsOK, Next, QuietNext
<1>1. /\ UNCHANGED <<elements, created, running, target>> /\ completing["pump"] = "no"
      /\ \A s \in Senders : pc'[s] = pc[s]
  BY <1>0, PumpFrame DEF sendVars
<1>2. queueMap'[c] = queueMap[c] /\ queueMap[c] \in Queues
  <2>1. created' # created + 1
    BY <1>0, <1>1, SMTT(30)
  <2>2. queueMap'[c] = queueMap[c]
    BY <2>1, MapKinds DEF Due
  <2> QED
    BY <1>0, <2>2, BoundsAssumption, SMTT(30) DEF Due, Queues
<1>3. PICK id : id = Peek(elements[queueMap[c]]) /\ ~Transmitted(id)
  <2>1. PICK id : id = Peek(elements[queueMap[c]]) /\ ~Holds(sent', id)
    BY <1>1, <1>2 DEF Due, Transmitted
  <2>2. CASE UNCHANGED sent
    BY <2>1, <2>2 DEF Transmitted
  <2>3. CASE Writes
    <3>1. bundle["pump"] \in Ids /\ sent' = Append(sent, bundle["pump"])
      BY <1>0, <2>3, PumpHolds DEF Writes
    <3>2. ~Holds(sent, id)
      BY <1>0, <2>1, <3>1, HoldsAppend, SMTT(30)
    <3> QED
      BY <2>1, <3>2 DEF Transmitted
  <2> QED
    BY <1>0, <2>2, <2>3, SentKinds
<1>4. ASSUME Announced(c) => Announced(c)' PROVE Due(c)
  BY <1>1, <1>2, <1>3, <1>4 DEF Due
<1>5. ASSUME NEW p \in Completers, ClientOf(p) = c, completing[p] \in {"delete", "ready"}
      PROVE  Announced(c)'
  <2>1. p \in Clients /\ p # "pump"
    BY <1>1, <1>5, GoroutinesAssumption DEF Completers
  <2>2. completing'[p] = completing[p] /\ ClientOf(p)' = c
    BY <1>5, <2>1, PumpLeavesReaders DEF ClientOf
  <2> QED
    BY <1>5, <2>2 DEF Announced
<1>6. ASSUME Holds(requestChannel, c) => Holds(requestChannel', c),
             Holds(readyForDispatch, c) => Holds(readyForDispatch', c)
      PROVE  Due(c)
  BY <1>1, <1>4, <1>5, <1>6 DEF Announced
<1>7. CASE PumpOnRequest
  <2>1. /\ UNCHANGED readyForDispatch /\ requestChannel' = Tail(requestChannel)
        /\ requestChannel # <<>> /\ clientID' = Head(requestChannel)
        /\ pc'["pump"] = "request"
    BY <1>0, <1>7 DEF PumpOnRequest, PumpStep, Step, PlacesOK, Services
  <2>2. CASE c = Head(requestChannel)
    BY <1>1, <1>2, <2>1, <2>2 DEF OnItsWay
  <2>3. CASE c # Head(requestChannel)
    BY <1>0, <1>1, <1>2, <1>6, <2>1, <2>3, HoldsTail
  <2> QED
    BY <1>1, <1>2, <2>2, <2>3
<1>8. CASE PumpOnReady
  <2>1. /\ UNCHANGED requestChannel /\ readyForDispatch' = Tail(readyForDispatch)
        /\ readyForDispatch # <<>> /\ clientID' = Head(readyForDispatch)
        /\ pc'["pump"] = "ready"
    BY <1>0, <1>8 DEF PumpOnReady, PumpStep, Step, PlacesOK, Services
  <2>2. CASE c = Head(readyForDispatch)
    BY <1>1, <1>2, <2>1, <2>2 DEF OnItsWay
  <2>3. CASE c # Head(readyForDispatch)
    BY <1>0, <1>1, <1>2, <1>6, <2>1, <2>3, HoldsTail
  <2> QED
    BY <1>1, <1>2, <2>2, <2>3
<1>9. CASE ~PumpOnRequest /\ ~PumpOnReady
  <2>1. UNCHANGED <<requestChannel, readyForDispatch>>
    BY <1>9 DEF messagePump, PumpLoop, PumpOnStop, RequestGet,
       PumpOnTimer, TimeoutCheck, TimeoutGet, TimeoutPeek, TimeoutCancel,
       ReadyGet, PumpCheck, DispatchGet, DispatchPeek, DispatchAdd,
       DispatchWrite, DispatchCancel, data, chanVars
  <2> QED
    BY <1>1, <1>2, <1>6, <2>1
<1> QED
  BY <1>1, <1>2, <1>7, <1>8, <1>9

LEMMA WakeStep ==
    ASSUME Typed, Typed', Owned, Unstarted, NoTimer, Wake, Next
    PROVE  Wake'
<1>0. PlacesOK /\ QueuesOK /\ RequestsOK /\ PumpReady /\ ~crashed /\ "pump" \in Completers
  BY DEF Typed, TypeOK, Ready, Next, QuietNext, Completers
<1> SUFFICES ASSUME NEW c \in Clients, Due(c)' PROVE OnItsWay(c)'
  BY DEF Wake
<1>1. CASE messagePump
  <2>0. /\ queueMap[c] \in Queues /\ queueMap'[c] = queueMap[c] /\ UNCHANGED elements
        /\ Due(c) \/ OnItsWay(c)'
    BY <1>1, DueBeforePump
  <2> SUFFICES ASSUME Due(c), OnItsWay(c), clientID = c PROVE OnItsWay(c)'
    BY <2>0 DEF Wake, OnItsWay
  <2>1. /\ queueMap[c] # 0 /\ ~IsEmpty(elements[queueMap[c]])
        /\ ~Transmitted(Peek(elements[queueMap[c]]))'
    BY <2>0 DEF Due
  <2>2. CASE RequestGet
    <3>1. /\ pc'["pump"] = "check" /\ rdy' = TRUE /\ clientQueue' = queueMap[c]
          /\ UNCHANGED clientID
      BY <1>0, <2>1, <2>2 DEF RequestGet, PumpStep, Step, PlacesOK, Services, NoTimer
    <3> QED
      BY <2>0, <3>1 DEF OnItsWay
  <2>3. CASE ReadyGet
    <3>1. /\ pc'["pump"] = "check" /\ rdy' = TRUE /\ clientQueue' = queueMap[c]
          /\ UNCHANGED clientID
      BY <1>0, <2>1, <2>3 DEF ReadyGet, PumpStep, Step, PlacesOK, Services
    <3> QED
      BY <2>0, <3>1 DEF OnItsWay
  <2>4. CASE PumpCheck
    <3>1. rdy /\ clientQueue = queueMap[c]
      BY <2>4 DEF PumpCheck, PumpStep, Step, OnItsWay
    <3>2. pc'["pump"] = "get" /\ UNCHANGED clientID
      BY <1>0, <2>1, <2>4, <3>1
         DEF PumpCheck, PumpStep, Step, PlacesOK, Services, data, pumpVars, localVars
    <3> QED
      BY <3>2 DEF OnItsWay
  <2>5. CASE DispatchGet
    <3>1. /\ pc'["pump"] = "peek" /\ held'["pump"] = queueMap[c] /\ UNCHANGED clientID
      BY <1>0, <2>1, <2>5 DEF DispatchGet, PumpStep, Step, PlacesOK, Services, QueuesOK
    <3> QED
      BY <2>0, <3>1 DEF OnItsWay
  <2>6. CASE DispatchPeek
    <3>1. held["pump"] = queueMap[c]
      BY <2>6 DEF DispatchPeek, PumpStep, Step, OnItsWay
    <3>2. /\ pc'["pump"] = "add" /\ UNCHANGED clientID
          /\ bundle'["pump"] = Peek(elements[queueMap[c]])
      BY <1>0, <2>1, <2>6, <3>1 DEF DispatchPeek, PumpStep, Step, PlacesOK, Services,
         RequestsOK, pumpVars, localVars
    <3> QED
      BY <2>0, <3>2 DEF OnItsWay
  <2>7. CASE DispatchAdd
    <3>1. /\ pc["pump"] = "add" /\ pc'["pump"] = "write" /\ UNCHANGED <<clientID, bundle>>
      BY <1>0, <2>7 DEF DispatchAdd, PumpStep, Step, PlacesOK, Services, pumpVars,
         localVars, callVars
    <3> QED
      BY <2>0, <3>1 DEF OnItsWay
  <2>8. CASE DispatchWrite
    <3>1. bundle["pump"] = Peek(elements[queueMap[c]]) /\ bundle["pump"] \in Ids
      BY <1>0, <2>8, PumpHolds DEF DispatchWrite, PumpStep, Step, OnItsWay
    <3>2. sent' # Append(sent, bundle["pump"])
      <4>1. Holds(Append(sent, bundle["pump"]), bundle["pump"])
        BY <1>0, <3>1, HoldsAppend DEF RequestsOK
      <4> QED
        BY <2>0, <2>1, <3>1, <4>1 DEF Transmitted
    <3>3. /\ pc'["pump"] = "fail" /\ UNCHANGED <<clientID, bundle>>
          /\ completing'["pump"] = "get"
      BY <1>0, <2>8, <3>2 DEF DispatchWrite, PumpStep, Step, PlacesOK, Services
    <3> QED
      BY <2>0, <3>1, <3>3 DEF OnItsWay, Completing
  <2>9. CASE PumpLoop \/ PumpOnStop \/ PumpOnRequest \/ PumpOnTimer \/ PumpOnReady
    BY <2>9 DEF OnItsWay, PumpLoop, PumpOnStop, PumpOnRequest, PumpOnTimer, PumpOnReady,
       PumpStep, Step
  <2>10. CASE TimeoutCheck \/ TimeoutGet \/ TimeoutPeek \/ TimeoutCancel
    BY <2>10 DEF NoTimer, TimeoutCheck, TimeoutGet, TimeoutPeek, TimeoutCancel, PumpStep,
       Step
  <2>11. CASE DispatchCancel
    BY <2>11 DEF OnItsWay, Completing, DispatchCancel, PumpStep, Step
  <2> QED
    BY <1>1, <2>2, <2>3, <2>4, <2>5, <2>6, <2>7, <2>8, <2>9, <2>10, <2>11 DEF messagePump
<1>2. CASE ~messagePump
  <2>0. /\ Due(c) /\ OnItsWay(c) /\ queueMap[c] \in Queues /\ queueMap'[c] = queueMap[c]
        /\ elements'[queueMap[c]] = elements[queueMap[c]]
    BY <1>2, DueBefore DEF Wake
  <2>1. CASE CompleteRequest("pump")
    <3>1. UNCHANGED <<pc, clientID, bundle>> /\ ClientOf("pump") = clientID
      BY <1>0, <2>1, CompleteFrame DEF pumpVars, localVars, ClientOf
    <3>2. pc["pump"] = "fail" /\ clientID = c /\ Completing(c)
          /\ bundle["pump"] = Peek(elements[queueMap[c]])
      BY <1>0, <2>0, <2>1 DEF OnItsWay, PumpReady, CompleteRequest, CompleteGet, CompletePeek,
         CompletePop, CompleteDelete, CompleteReady
    <3>3. queueMap[c] # 0 /\ ~IsEmpty(elements[queueMap[c]])
      BY <2>0 DEF Due
    <3>4. CASE CompleteGet("pump")
      <4>1. completing'["pump"] = "peek" /\ held'["pump"] = queueMap[c]
        BY <1>0, <3>1, <3>2, <3>3, <3>4 DEF CompleteGet, PlacesOK, QueuesOK
      <4> QED
        BY <2>0, <3>1, <3>2, <4>1 DEF OnItsWay, Completing
    <3>5. CASE CompletePeek("pump")
      <4>1. held["pump"] = queueMap[c]
        BY <3>2, <3>5 DEF Completing, CompletePeek
      <4>2. completing'["pump"] = "pop" /\ held'["pump"] = queueMap[c]
        BY <1>0, <3>2, <3>3, <3>5, <4>1 DEF CompletePeek, PlacesOK, QueuesOK
      <4> QED
        BY <2>0, <3>1, <3>2, <4>2 DEF OnItsWay, Completing
    <3>6. CASE CompletePop("pump")
      <4>1. completing'["pump"] = "delete" /\ ClientOf("pump")' = c
        BY <1>0, <3>1, <3>2, <3>6 DEF CompletePop, PlacesOK, ClientOf
      <4> QED
        BY <1>0, <4>1 DEF Due, Announced
    <3> QED
      BY <2>1, <3>2, <3>4, <3>5, <3>6
         DEF CompleteRequest, CompleteDelete, CompleteReady, Completing
  <2>2. CASE ~CompleteRequest("pump")
    <3>1. ~Start
      BY <2>0 DEF Start, Due
    <3>2. /\ pc'["pump"] = pc["pump"] /\ completing'["pump"] = completing["pump"]
          /\ held'["pump"] = held["pump"] /\ bundle'["pump"] = bundle["pump"]
          /\ UNCHANGED <<clientID, clientQueue, rdy>>
      BY <1>2, <2>2, <3>1, OthersLeavePump
    <3> QED
      BY <2>0, <3>2 DEF OnItsWay, Completing
  <2> QED
    BY <2>1, <2>2
<1> QED
  BY <1>1, <1>2

-----------------------------------------------------------------------------
(* Why the pump never blocks itself and nothing panics while clients stay,  *)
(* answers come in time and nobody stops the server.                        *)

(* The pump takes neither the stop branch nor the timer branch, and no      *)
(* Write fails ...                                                          *)
QuietPump ==
    /\ running # "no" /\ ~crashed /\ timerC = <<>> /\ completing["pump"] = "no"
    /\ pc["pump"] \in {"idle", "loop", "select", "request", "ready", "check", "get",
                       "peek", "add", "write"}

(* ... because a client with a queue is connected.  Only such a client has  *)
(* a context.                                                               *)
QuietLinks ==
    \A c \in Clients :
        /\ queueMap[c] # 0 \/ creator[c] # "idle" => linkUp[c]
        /\ clientContextMap[c] # 0 => queueMap[c] # 0

(* The pump transmits only to a client without a context, and nobody takes  *)
(* the request away that it saw in the queue ...                            *)
QuietTurn ==
    /\ pc["pump"] = "ready" => clientContextMap[clientID] = 0
    /\ pc["pump"] = "check" =>
          /\ clientQueue # 0 => clientQueue = queueMap[clientID]
          /\ rdy => clientContextMap[clientID] = 0
    /\ pc["pump"] \in {"get", "peek", "add", "write"} =>
          queueMap[clientID] # 0 /\ clientContextMap[clientID] = 0
    /\ pc["pump"] \in {"get", "peek"} => ~IsEmpty(elements[queueMap[clientID]])
    /\ pc["pump"] = "peek" => held["pump"] = queueMap[clientID]

(* ... because a client has a context from the Write of a request until its *)
(* token is received: meanwhile the request is in one place only, with the  *)
(* peer, with the reader that completes it, or as the token in the channel. *)
Answering(c) == reader[c] = "parse" \/ completing[c] # "no"
Returned(c) == readyForDispatch # <<>> /\ Head(readyForDispatch) = c
Out(c) ==
    /\ \A x, y \in atPeer : dest[x].client = c /\ dest[y].client = c => x = y
    /\ \A x \in atPeer : dest[x].client = c =>
          ~Answering(c) /\ ~Returned(c) /\ clientContextMap[c] # 0
    /\ Answering(c) => ~Returned(c) /\ clientContextMap[c] # 0
    /\ Returned(c) => clientContextMap[c] # 0
OneOut == atPeer \subseteq Accepted /\ \A c \in Clients : Out(c)

Quiet == QuietPump /\ QuietLinks /\ QuietTurn

(* The steps of the pump that remain. *)
LEMMA QuietKinds ==
    ASSUME Typed, Quiet, messagePump
    PROVE  /\ \/ PumpLoop \/ PumpOnRequest \/ RequestGet \/ PumpOnReady \/ ReadyGet
              \/ PumpCheck \/ DispatchGet \/ DispatchPeek \/ DispatchAdd \/ DispatchWrite
           /\ DispatchGet => queueMap[clientID] # 0
           /\ DispatchPeek => ~IsEmpty(elements[held["pump"]])
           /\ DispatchWrite => linkUp[clientID]
           /\ UNCHANGED <<queueMap, timerC>>
<1>1. ~PumpOnStop /\ ~PumpOnTimer /\ ~DispatchCancel
  BY DEF Quiet, QuietPump, PumpOnStop, PumpOnTimer, DispatchCancel, PumpStep, Step
<1>2. ~TimeoutCheck /\ ~TimeoutGet /\ ~TimeoutPeek /\ ~TimeoutCancel
  BY DEF Quiet, QuietPump, TimeoutCheck, TimeoutGet, TimeoutPeek, TimeoutCancel,
     PumpStep, Step
<1>3. /\ DispatchGet => queueMap[clientID] # 0
      /\ DispatchPeek => ~IsEmpty(elements[held["pump"]])
      /\ DispatchWrite => linkUp[clientID]
  BY KnowsClient DEF Quiet, QuietTurn, QuietLinks, DispatchGet, DispatchPeek,
     DispatchWrite, PumpStep, Step
<1>4. UNCHANGED <<queueMap, timerC>>
  BY <1>1, <1>2 DEF messagePump, PumpLoop, PumpOnRequest, RequestGet,
     PumpOnReady, ReadyGet, PumpCheck, DispatchGet, DispatchPeek, DispatchAdd,
     DispatchWrite, data, mapVars, chanVars
<1> QED
  BY <1>1, <1>2, <1>3, <1>4 DEF messagePump

(* No client loses its queue. *)
LEMMA QuietMap ==
    ASSUME Typed, Quiet, QuietNext, NEW c \in Clients
    PROVE  /\ queueMap[c] # 0 => queueMap'[c] = queueMap[c]
           /\ queueMap'[c] # 0 => queueMap[c] # 0 \/ creator[c] # "idle"
<1>0. PlacesOK /\ QueuesOK
  BY DEF Typed, TypeOK
<1>1. ASSUME NEW d \in Clients, Create(d)
      PROVE  /\ queueMap[c] # 0 => queueMap'[c] = queueMap[c]
             /\ queueMap'[c] # 0 => queueMap[c] # 0 \/ creator[c] # "idle"
  BY <1>0, <1>1 DEF Create, CreateCheck, CreateClient, QueuesOK, mapVars
<1>2. CASE messagePump
  BY <1>2, QuietKinds
<1>3. ASSUME NEW d \in Clients, Connect(d) PROVE UNCHANGED queueMap
  BY <1>3 DEF Connect, mapVars
<1> QED
  BY <1>0, <1>1, <1>2, <1>3, OwnerFrame, SendFrame, CompleteFrame, ReaderFrame
     DEF QuietNext, mapVars

LEMMA QuietPumpStep == ASSUME Typed, Quiet, QuietNext PROVE QuietPump'
<1>0. PlacesOK /\ "pump" \in Completers /\ QuietPump
  BY DEF Typed, TypeOK, Completers, Quiet
<1>1. CASE messagePump
  <2>1. UNCHANGED <<running, timerC>>
    BY <1>0, <1>1, PumpFrame, QuietKinds
  <2>2. UNCHANGED <<crashed, completing>>
    <3>1. CASE \/ PumpLoop \/ PumpOnRequest \/ RequestGet \/ PumpOnReady \/ ReadyGet
               \/ PumpCheck \/ DispatchGet \/ DispatchAdd
      BY <3>1 DEF PumpLoop, PumpOnRequest, RequestGet, PumpOnReady, ReadyGet,
         PumpCheck, DispatchGet, DispatchAdd, data, callVars
    <3>2. CASE DispatchPeek
      BY <1>1, <3>2, QuietKinds DEF DispatchPeek
    <3>3. CASE DispatchWrite
      BY <1>1, <3>3, QuietKinds DEF DispatchWrite
    <3> QED
      BY <1>1, <3>1, <3>2, <3>3, QuietKinds
  <2>3. pc'["pump"] # "fail"
    <3>1. DispatchWrite => pc'["pump"] # "fail"
      BY <1>0, <1>1, QuietKinds DEF DispatchWrite, PumpStep, Step, PlacesOK, Services
    <3> QED
      BY <1>0, <1>1, <3>1, PumpArrives
  <2>4. pc'["pump"] # "done"
    BY <1>0, <1>1, PumpArrives DEF QuietPump, PumpOnStop
  <2>5. pc'["pump"] \notin {"timeout", "timedout", "expire", "cancel"}
    BY <1>0, <1>1, QuietKinds, PumpArrives DEF QuietPump, PumpOnTimer, TimeoutCheck,
       TimeoutGet, TimeoutPeek, PumpStep, Step
  <2>6. pc'["pump"] \notin {"push", "lock", "signal"}
    BY <1>0, <1>1, PumpArrives
  <2>7. PlacesOK'
    BY <1>0, PlacesStep DEF Next
  <2>8. pc'["pump"] \in {"idle", "loop", "select", "request", "ready", "check", "get",
                         "peek", "add", "write"}
    BY <2>3, <2>4, <2>5, <2>6, <2>7, SMTT(30) DEF PlacesOK, Services
  <2> QED
    BY <1>0, <2>1, <2>2, <2>8 DEF QuietPump
<1>2. CASE Start
  BY <1>0, <1>2 DEF Start, QuietPump, PlacesOK, Services, chanVars, callVars
<1>3. CASE /\ UNCHANGED <<running, crashed, timerC>> /\ pc'["pump"] = pc["pump"]
           /\ completing'["pump"] = completing["pump"]
  BY <1>0, <1>3 DEF QuietPump
<1>4. ASSUME NEW p \in Completers, CompleteRequest(p)
      PROVE  p # "pump"
  BY <1>0, <1>4 DEF QuietPump, CompleteRequest, CompleteGet, CompletePeek, CompletePop,
     CompleteDelete, CompleteReady
<1>5. CASE \E p \in Completers : CompleteRequest(p)
  BY <1>0, <1>3, <1>4, <1>5, CompleteFrame
<1>6. CASE \E c \in Clients : Connect(c) \/ Create(c)
  BY <1>3, <1>6, CreateFrame DEF chanVars, callVars
<1>7. CASE \E s \in Senders : SendRequest(s)
  BY <1>0, <1>3, <1>7, SendFrame DEF callVars
<1>8. ASSUME NEW c \in Clients, ocppMessageHandler(c) \/ \E id \in Ids : Receive(c, id)
      PROVE  completing'["pump"] = completing["pump"]
  BY <1>0, <1>8, ReaderFrame, GoroutinesAssumption
<1>9. CASE \E c \in Clients : ocppMessageHandler(c) \/ \E id \in Ids : Receive(c, id)
  BY <1>0, <1>3, <1>8, <1>9, ReaderFrame DEF chanVars
<1> QED
  BY <1>1, <1>2, <1>5, <1>6, <1>7, <1>9 DEF QuietNext

(* A client's context changes when the pump transmits to the client or      *)
(* takes its token.                                                         *)
LEMMA ContextKinds ==
    ASSUME Typed, Quiet, QuietNext, NEW c \in Clients
    PROVE  \/ clientContextMap'[c] = clientContextMap[c]
           \/ messagePump /\ DispatchWrite /\ c = clientID
           \/ /\ messagePump /\ PumpOnReady /\ c = Head(readyForDispatch)
              /\ clientContextMap'[c] = 0
<1>0. /\ PlacesOK /\ clientContextMap \in [Clients -> 0..Len(sent)]
  BY DEF Typed, TypeOK, RequestsOK
<1>1. CASE messagePump
  <2>1. CASE \/ PumpLoop \/ PumpOnRequest \/ ReadyGet \/ PumpCheck \/ DispatchPeek
             \/ DispatchAdd
    BY <2>1 DEF PumpLoop, PumpOnRequest, ReadyGet, PumpCheck, DispatchPeek,
       DispatchAdd, data, pumpVars, ctxVars
  <2>2. CASE RequestGet
    BY <1>0, <2>2, KnowsClient
       DEF RequestGet, PumpStep, Step, Quiet, QuietLinks, ctxVars
  <2>3. CASE DispatchGet
    BY <1>1, <2>3, QuietKinds DEF DispatchGet
  <2>4. CASE PumpOnReady
    BY <1>0, <1>1, <2>4 DEF PumpOnReady
  <2>5. CASE DispatchWrite
    BY <1>0, <1>1, <2>5 DEF DispatchWrite, ctxVars
  <2> QED
    BY <1>1, <2>1, <2>2, <2>3, <2>4, <2>5, QuietKinds
<1>2. CASE ~messagePump
  BY <1>0, <1>2, OwnerFrame, CreateFrame, SendFrame, CompleteFrame, ReaderFrame
     DEF QuietNext, pumpVars, ctxVars
<1> QED
  BY <1>1, <1>2

LEMMA QuietLinksStep == ASSUME Typed, Quiet, QuietNext PROVE QuietLinks'
<1>0. PlacesOK /\ linkUp \in [Clients -> BOOLEAN]
  BY DEF Typed, TypeOK, FlagsOK
<1> SUFFICES ASSUME NEW c \in Clients
    PROVE  /\ queueMap'[c] # 0 \/ creator'[c] # "idle" => linkUp'[c]
           /\ clientContextMap'[c] # 0 => queueMap'[c] # 0
  BY DEF QuietLinks
<1>1. clientContextMap'[c] # 0 => queueMap'[c] # 0
  <2>1. DispatchWrite => pc["pump"] = "write"
    BY DEF DispatchWrite, PumpStep, Step
  <2> QED
    BY <2>1, ContextKinds, QuietMap DEF Quiet, QuietLinks, QuietTurn
<1>2. \/ linkUp'[c] = TRUE
      \/ linkUp'[c] = linkUp[c] /\ (creator'[c] # "idle" => creator[c] # "idle")
  <2>1. CASE Connect(c)
    BY <1>0, <2>1 DEF Connect
  <2>2. ASSUME NEW d \in Clients, Connect(d), d # c
        PROVE  linkUp'[c] = linkUp[c] /\ creator'[c] = creator[c]
    BY <1>0, <2>2 DEF Connect, PlacesOK
  <2>3. ASSUME NEW d \in Clients, Create(d)
        PROVE  linkUp'[c] = linkUp[c] /\ (creator'[c] # "idle" => creator[c] # "idle")
    BY <1>0, <2>3 DEF Create, CreateCheck, CreateClient, PlacesOK
  <2>4. \/ UNCHANGED <<linkUp, creator>>
        \/ \E d \in Clients : Connect(d) \/ Create(d)
    BY <1>0, OwnerFrame, SendFrame, CompleteFrame, PumpFrame, ReaderFrame
       DEF QuietNext, linkVars
  <2> QED
    BY <2>1, <2>2, <2>3, <2>4
<1> QED
  BY <1>1, <1>2, QuietMap DEF Quiet, QuietLinks

(* Nobody pops the queue of a client without a context. *)
LEMMA FrontStays ==
    ASSUME Typed, Owned, Quiet, OneOut, QuietNext, clientID \in Clients,
           queueMap[clientID] # 0, clientContextMap[clientID] = 0,
           ~IsEmpty(elements[queueMap[clientID]])
    PROVE  ~IsEmpty(elements'[queueMap[clientID]])
<1>0. /\ PlacesOK /\ elements \in [Queues -> Seq(Ids)] /\ Next
      /\ queueMap \in [Clients -> 0..created] /\ created \in 0..MaxConnects
  BY BoundsAssumption, SMTT(30) DEF Typed, TypeOK, RequestsOK, QueuesOK, Next
<1>1. PICK k \in Queues : k = queueMap[clientID]
  BY <1>0, BoundsAssumption, SMTT(30) DEF Queues
<1>2. ASSUME NEW p \in Completers, Pops(p), held[p] = k PROVE FALSE
  <2>1. p \in Clients /\ completing[p] # "no" /\ ClientOf(p) = p
    BY <1>2, GoroutinesAssumption
       DEF Pops, Completers, Quiet, QuietPump, ClientOf
  <2>2. p = clientID
    BY <1>1, <1>2, <2>1 DEF Owned, OneOwner, Knows
  <2> QED
    BY <2>1, <2>2 DEF OneOut, Out, Answering
<1>3. ASSUME NEW s \in Senders, Pushes(s) PROVE ~IsEmpty(elements'[k])
  <2>1. CASE k # target[s].queue
    BY <1>1, <1>3, <2>1, PushFacts
  <2>2. CASE k = target[s].queue
    <3>1. Len(elements'[k]) = Len(elements[k]) + 1 /\ Len(elements[k]) \in Nat
      BY <1>3, <2>2, PushFacts
    <3> QED
      BY <3>1, SMTT(30) DEF IsEmpty
  <2> QED
    BY <2>1, <2>2
<1>4. ASSUME NEW p \in Completers, Pops(p) PROVE elements'[k] = elements[k]
  BY <1>2, <1>4, PopFacts
<1> QED
  BY <1>0, <1>1, <1>3, <1>4, RequestKinds

LEMMA QuietTurnStep == ASSUME Typed, Owned, Quiet, OneOut, QuietNext PROVE QuietTurn'
<1>0. /\ PlacesOK /\ QuietTurn /\ Next /\ QueuesOK
      /\ readyForDispatch \in Seq(Clients)
      /\ clientContextMap \in [Clients -> 0..Len(sent)]
  BY DEF Typed, TypeOK, Quiet, Next, ChannelsOK, RequestsOK
<1>1. CASE messagePump
  <2>0. UNCHANGED <<queueMap, elements>>
    BY <1>0, <1>1, QuietKinds, PumpFrame
  <2>1. pc'["pump"] = "ready" => clientContextMap'[clientID'] = 0
    BY <1>0, <1>1, PumpArrives, TailProperties DEF PumpOnReady
  <2>2. CASE pc'["pump"] = "check"
    <3>1. RequestGet \/ ReadyGet
      BY <1>0, <1>1, <2>2, PumpArrives, QuietKinds
         DEF Quiet, QuietPump, TimeoutCheck, TimeoutCancel, PumpStep, Step
    <3>2. CASE RequestGet
      <4>1. /\ queueMap[clientID] # 0 /\ clientQueue' = queueMap[clientID]
            /\ UNCHANGED clientID
        BY <1>0, <2>2, <3>2 DEF RequestGet, PumpStep, Step, PlacesOK, Services
      <4>2. rdy' = (clientContextMap[clientID] = 0) /\ UNCHANGED clientContextMap
        BY <3>2, <4>1 DEF RequestGet, ctxVars
      <4> QED
        BY <2>0, <2>2, <4>1, <4>2 DEF QuietTurn
    <3>3. CASE ReadyGet
      <4>1. /\ clientContextMap[clientID] = 0 /\ clientQueue' = queueMap[clientID]
            /\ UNCHANGED <<clientID, clientContextMap>>
        BY <1>0, <3>3 DEF ReadyGet, PumpStep, Step, QuietTurn, ctxVars
      <4> QED
        BY <2>0, <2>2, <4>1 DEF QuietTurn
    <3> QED
      BY <3>1, <3>2, <3>3
  <2>3. CASE pc'["pump"] = "get"
    <3>1. PumpCheck
      BY <1>0, <1>1, <2>3, PumpArrives
    <3>2. /\ pc["pump"] = "check" /\ rdy /\ clientQueue # 0 /\ ~IsEmpty(elements[clientQueue])
          /\ UNCHANGED <<clientID, clientContextMap>>
      BY <1>0, <2>3, <3>1 DEF PumpCheck, PumpStep, Step, PlacesOK, Services, data, pumpVars,
         localVars, ctxVars
    <3> QED
      BY <1>0, <2>0, <2>3, <3>2 DEF QuietTurn
  <2>4. CASE pc'["pump"] = "peek"
    <3>1. DispatchGet
      BY <1>0, <1>1, <2>4, PumpArrives
    <3>2. /\ pc["pump"] = "get" /\ queueMap[clientID] # 0
          /\ held'["pump"] = queueMap[clientID] /\ UNCHANGED <<clientID, clientContextMap>>
      BY <1>0, <1>1, <3>1, QuietKinds
         DEF DispatchGet, PumpStep, Step, QueuesOK, Completers
    <3> QED
      BY <1>0, <2>0, <2>4, <3>2 DEF QuietTurn
  <2>5. CASE pc'["pump"] \in {"add", "write"}
    <3>1. DispatchPeek \/ DispatchAdd
      BY <1>0, <1>1, <2>5, PumpArrives
    <3>2. pc["pump"] \in {"peek", "add"} /\ UNCHANGED <<clientID, clientContextMap>>
      BY <3>1 DEF DispatchPeek, DispatchAdd, PumpStep, Step, pumpVars, localVars, ctxVars
    <3> QED
      BY <1>0, <2>0, <2>5, <3>2 DEF QuietTurn
  <2> QED
    BY <2>1, <2>2, <2>3, <2>4, <2>5 DEF QuietTurn
<1>2. CASE Start
  BY <1>0, <1>2 DEF Start, PlacesOK, Services, QuietTurn
<1>3. CASE ~messagePump /\ ~Start
  <2>1. ~CompleteRequest("pump")
    BY DEF Quiet, QuietPump, CompleteRequest, CompleteGet, CompletePeek, CompletePop,
       CompleteDelete, CompleteReady
  <2>2. /\ pc'["pump"] = pc["pump"] /\ held'["pump"] = held["pump"]
        /\ UNCHANGED <<clientID, clientQueue, rdy, clientContextMap>>
    BY <1>0, <1>3, <2>1, OthersLeavePump
  <2>3. pc["pump"] \in {"check", "get", "peek", "add", "write"} => clientID \in Clients
    BY KnowsClient
  <2>4. /\ pc["pump"] \in {"get", "peek", "add", "write"} =>
              queueMap'[clientID] = queueMap[clientID]
        /\ pc["pump"] = "check" /\ clientQueue # 0 =>
              clientQueue = queueMap'[clientID]
    BY <1>0, <2>3, QuietMap DEF QuietTurn
  <2>5. pc["pump"] \in {"get", "peek"} => ~IsEmpty(elements'[queueMap[clientID]])
    BY <1>0, <2>3, FrontStays DEF QuietTurn
  <2> QED
    BY <1>0, <2>2, <2>4, <2>5 DEF QuietTurn
<1> QED
  BY <1>1, <1>2, <1>3

(* A client whose request stays where it is, or goes. *)
LEMMA OutKept ==
    ASSUME Typed, Next, OneOut, NEW c \in Clients, atPeer' \subseteq atPeer,
           Answering(c)' => Answering(c), Returned(c)' => Returned(c),
           clientContextMap'[c] = clientContextMap[c]
    PROVE  Out(c)'
<1>1. \A x \in atPeer : dest'[x] = dest[x]
  BY Growth DEF OneOut
<1> QED
  BY <1>1 DEF OneOut, Out

LEMMA OneOutStep ==
    ASSUME TimeoutSet, Typed, Owned, Order, Quiet, OneOut, QuietNext
    PROVE  OneOut'
<1>0. /\ PlacesOK /\ Next /\ ~crashed /\ ReadersReady
      /\ readyForDispatch \in Seq(Clients) /\ Len(readyForDispatch) <= 1
      /\ clientContextMap \in [Clients -> 0..Len(sent)] /\ sent \in Seq(Ids)
      /\ bundle \in [Completers -> Ids \cup {None}]
      /\ \A d \in Clients : d \in Completers /\ d # "pump" /\ ClientOf(d) = d
  BY GoroutinesAssumption DEF Typed, TypeOK, Next, QuietNext, ChannelsOK, RequestsOK, Ready,
     Completers, ClientOf
<1>1. Accepted \subseteq Accepted' /\ \A x \in Accepted : dest'[x] = dest[x]
  BY <1>0, Growth
<1>2. CASE messagePump
  <2>0. /\ UNCHANGED reader
        /\ \A d \in Clients : completing'[d] = completing[d] /\ Answering(d)' = Answering(d)
    BY <1>0, <1>2, PumpFrame, PumpLeavesReaders DEF Answering
  <2>1. CASE DispatchWrite
    <3>1. /\ pc["pump"] = "write" /\ clientID \in Clients /\ bundle["pump"] \in Accepted
          /\ clientContextMap[clientID] = 0 /\ dest[bundle["pump"]].client = clientID
      BY <1>0, <2>1, KnowsClient, PumpHolds DEF DispatchWrite, PumpStep, Step, Quiet,
         QuietTurn, Order, HeldNext, Holding
    <3>2. /\ atPeer' = atPeer \cup {bundle["pump"]} /\ UNCHANGED readyForDispatch
          /\ clientContextMap' = [clientContextMap EXCEPT ![clientID] = Len(sent) + 1]
      BY <1>2, <2>1, QuietKinds DEF DispatchWrite, chanVars
    <3>3. atPeer' \subseteq Accepted'
      BY <1>1, <3>1, <3>2 DEF OneOut
    <3>4. PICK b \in Accepted : b = bundle["pump"] /\ atPeer' = atPeer \cup {b}
      BY <3>1, <3>2
    <3>5. ASSUME NEW c \in Clients, c = clientID PROVE Out(c)'
      <4>1. ~Answering(c)' /\ ~Returned(c)'
        BY <2>0, <3>1, <3>2, <3>5 DEF OneOut, Out, Returned
      <4>2. \A x \in atPeer' : dest'[x].client = c => x = b
        BY <1>1, <3>1, <3>4, <3>5 DEF OneOut, Out
      <4>3. clientContextMap'[c] # 0
        BY <1>0, <3>2, <3>5, SMTT(30)
      <4> QED
        BY <4>1, <4>2, <4>3 DEF Out
    <3>6. ASSUME NEW c \in Clients, c # clientID PROVE Out(c)'
      <4>1. clientContextMap'[c] = clientContextMap[c] /\ Returned(c)' = Returned(c)
        BY <1>0, <3>2, <3>6 DEF Returned
      <4>2. \A x \in atPeer' : dest'[x].client = c => x \in atPeer /\ dest[x].client = c
        BY <1>1, <3>1, <3>4, <3>6 DEF OneOut
      <4> QED
        BY <2>0, <4>1, <4>2 DEF OneOut, Out
    <3> QED
      BY <3>3, <3>5, <3>6 DEF OneOut
  <2>2. CASE PumpOnReady
    <3>1. /\ UNCHANGED atPeer /\ readyForDispatch # <<>>
          /\ readyForDispatch' = Tail(readyForDispatch)
          /\ clientContextMap' = [clientContextMap EXCEPT ![Head(readyForDispatch)] = 0]
      BY <2>2 DEF PumpOnReady, eventVars
    <3>2. readyForDispatch' = <<>>
      BY <1>0, <3>1, SMTT(30)
    <3>3. ASSUME NEW c \in Clients, c = Head(readyForDispatch) PROVE Out(c)'
      <4>1. Returned(c) /\ ~Returned(c)'
        BY <3>1, <3>2, <3>3 DEF Returned
      <4>2. ~Answering(c)' /\ \A x \in atPeer' : dest'[x].client # c
        BY <1>1, <2>0, <3>1, <4>1 DEF OneOut, Out
      <4> QED
        BY <4>1, <4>2 DEF Out
    <3>4. ASSUME NEW c \in Clients, c # Head(readyForDispatch) PROVE Out(c)'
      <4>1. clientContextMap'[c] = clientContextMap[c] /\ ~Returned(c)'
        BY <1>0, <3>1, <3>2, <3>4 DEF Returned
      <4> QED
        BY <1>0, <2>0, <3>1, <4>1, OutKept
    <3> QED
      BY <1>1, <3>1, <3>3, <3>4 DEF OneOut
  <2>3. CASE ~DispatchWrite /\ ~PumpOnReady
    <3>1. UNCHANGED <<atPeer, readyForDispatch>>
      BY <1>2, <2>3, QuietKinds DEF PumpLoop, PumpOnRequest, RequestGet,
         ReadyGet, PumpCheck, DispatchGet, DispatchPeek, DispatchAdd, data, eventVars, chanVars
    <3>2. \A c \in Clients : clientContextMap'[c] = clientContextMap[c]
      BY <2>3, ContextKinds
    <3>3. ASSUME NEW c \in Clients PROVE Out(c)'
      BY <1>0, <2>0, <3>1, <3>2, OutKept DEF Returned
    <3> QED
      BY <1>1, <3>1, <3>3 DEF OneOut
  <2> QED
    BY <2>1, <2>2, <2>3
<1>3. ~messagePump => \A c \in Clients : clientContextMap'[c] = clientContextMap[c]
  BY ContextKinds
<1>4. ASSUME NEW p \in Completers, CompleteRequest(p), ~messagePump PROVE OneOut'
  <2>1. p \in Clients /\ completing[p] # "no"
    BY <1>4 DEF Quiet, QuietPump, CompleteRequest, CompleteGet, CompletePeek, CompletePop,
       CompleteDelete, CompleteReady, Completers
  <2>2. UNCHANGED <<reader, atPeer>> /\ \A d \in Clients : d # p => completing'[d] = completing[d]
    BY <1>0, <1>4, CompleteFrame DEF eventVars
  <2>3. CASE CompleteReady(p)
    <3>1. Head(readyForDispatch') = p /\ completing'[p] = "no"
      <4>1. readyForDispatch = <<>> /\ readyForDispatch' = Append(readyForDispatch, p)
        BY <1>0, <2>1, <2>3, SMTT(30) DEF CompleteReady, HasRoom
      <4> QED
        BY <1>0, <2>1, <2>3, <4>1, SMTT(30) DEF CompleteReady, PlacesOK
    <3>2. ASSUME NEW c \in Clients, c # p PROVE Out(c)'
      <4>1. (Answering(c)' => Answering(c)) /\ ~Returned(c)'
        BY <2>2, <3>1, <3>2 DEF Answering, Returned
      <4> QED
        BY <1>0, <1>3, <1>4, <2>2, <4>1, OutKept
    <3>3. ASSUME NEW c \in Clients, c = p PROVE Out(c)'
      <4>1. Answering(c) /\ ~Answering(c)'
        BY <1>0, <2>1, <2>2, <3>1, <3>3 DEF Answering, ReadersReady
      <4>2. clientContextMap'[c] # 0 /\ \A x \in atPeer' : dest'[x].client # c
        BY <1>1, <1>3, <1>4, <2>2, <4>1 DEF OneOut, Out
      <4> QED
        BY <4>1, <4>2 DEF Out
    <3> QED
      BY <1>1, <2>2, <3>2, <3>3 DEF OneOut
  <2>4. CASE ~CompleteReady(p)
    <3>1. UNCHANGED readyForDispatch
      BY <1>4, <2>4 DEF CompleteRequest, CompleteGet, CompletePeek, CompletePop,
         CompleteDelete, chanVars
    <3>2. ASSUME NEW c \in Clients PROVE Out(c)'
      <4>1. Answering(c)' => Answering(c)
        BY <2>1, <2>2 DEF Answering
      <4> QED
        BY <1>0, <1>3, <1>4, <2>2, <3>1, <4>1, OutKept DEF Returned
    <3> QED
      BY <1>1, <2>2, <3>2 DEF OneOut
  <2> QED
    BY <2>3, <2>4
<1>5. ASSUME NEW d \in Clients, ocppMessageHandler(d), ~messagePump PROVE OneOut'
  <2>1. /\ UNCHANGED readyForDispatch
        /\ \A o \in Clients : o # d => reader'[o] = reader[o] /\ completing'[o] = completing[o]
    BY <1>0, <1>5, ReaderFrame DEF chanVars
  <2>2. UNCHANGED atPeer
    BY <1>5 DEF ocppMessageHandler, ParseMessage, Deliver, eventVars
  <2>3. Answering(d)' => Answering(d)
    BY <1>0, <1>5 DEF ocppMessageHandler, ParseMessage, Deliver, Answering, PlacesOK
  <2>4. ASSUME NEW c \in Clients PROVE Out(c)'
    <3>1. Answering(c)' => Answering(c)
      BY <2>1, <2>3 DEF Answering
    <3> QED
      BY <1>0, <1>3, <1>5, <2>1, <2>2, <3>1, OutKept DEF Returned
  <2> QED
    BY <1>1, <2>2, <2>4 DEF OneOut
<1>6. ASSUME NEW d \in Clients, NEW id \in Ids, Receive(d, id), ~messagePump PROVE OneOut'
  <2>1. /\ UNCHANGED <<readyForDispatch, completing>> /\ atPeer' = atPeer \ {id}
        /\ id \in atPeer /\ dest[id].client = d
        /\ \A o \in Clients : o # d => reader'[o] = reader[o]
    BY <1>0, <1>6 DEF Receive, chanVars, PlacesOK
  <2>2. ASSUME NEW c \in Clients, c # d PROVE Out(c)'
    BY <1>0, <1>3, <1>6, <2>1, <2>2, OutKept DEF Answering, Returned
  <2>3. ASSUME NEW c \in Clients, c = d PROVE Out(c)'
    <3>1. ~Returned(c)' /\ clientContextMap'[c] # 0
      BY <1>3, <1>6, <2>1, <2>3 DEF OneOut, Out, Returned
    <3>2. \A x \in atPeer' : dest'[x].client # c
      BY <1>1, <2>1, <2>3 DEF OneOut, Out
    <3> QED
      BY <3>1, <3>2 DEF Out
  <2> QED
    BY <1>1, <2>1, <2>2, <2>3 DEF OneOut
<1>7. CASE UNCHANGED <<atPeer, reader, completing, readyForDispatch>> /\ ~messagePump
  <2>1. ASSUME NEW c \in Clients PROVE Out(c)'
    BY <1>0, <1>3, <1>7, OutKept DEF Answering, Returned
  <2> QED
    BY <1>1, <1>7, <2>1 DEF OneOut
<1>8. CASE Start \/ \E c \in Clients : Connect(c) \/ Create(c)
  BY <1>0, <1>2, <1>7, <1>8, OwnerFrame, CreateFrame DEF eventVars, callVars, chanVars
<1>9. CASE \E s \in Senders : SendRequest(s)
  BY <1>0, <1>2, <1>7, <1>9, SendFrame DEF eventVars, callVars
<1> QED
  BY <1>2, <1>4, <1>5, <1>6, <1>8, <1>9 DEF QuietNext

-----------------------------------------------------------------------------
(* The invariants together. *)

LEMMA WakeInvariant == ASSUME ~TimeoutSet PROVE Spec => [](NoTimer /\ Unstarted /\ Wake)
<1>1. Init => NoTimer /\ Unstarted /\ Wake
  BY SMTT(30) DEF Init, NoTimer, Unstarted, Wake, Due, Services
<1>2. ASSUME Typed, Typed', Owned, NoTimer, Unstarted, Wake, [Next]_vars
      PROVE  (NoTimer /\ Unstarted /\ Wake)'
  <2>1. CASE Next
    BY <1>2, <2>1, NoTimerStep, UnstartedStep, WakeStep
  <2>2. CASE UNCHANGED vars
    <3> USE <1>2, <2>2 DEF vars, data, sendVars, mapVars, chanVars, pumpVars, localVars,
          ctxVars, callVars, linkVars, eventVars
    <3>1. NoTimer' /\ Unstarted'
      BY DEF NoTimer, Unstarted
    <3>2. ASSUME NEW c \in Clients PROVE Due(c)' = Due(c) /\ OnItsWay(c)' = OnItsWay(c)
      BY DEF Due, OnItsWay, Completing, Announced, ClientOf, Transmitted
    <3>3. Wake'
      BY <3>2 DEF Wake
    <3> QED
      BY <3>1, <3>3
  <2> QED
    BY <1>2, <2>1, <2>2
<1> QED
  BY <1>1, <1>2, TypedInvariant, OrderInvariant, PTL DEF Spec

(* Without a timeout no wake-up is lost: as long as the dispatcher runs,    *)
(* every non-empty queue has a transmitted front, or its client is in a     *)
(* channel, about to be sent on one, or being looked at by messagePump.     *)
THEOREM NoWakeupLost == ASSUME ~TimeoutSet PROVE Spec => []WakeupPending
<1>1. Wake => WakeupPending
  BY DEF Wake, Due, OnItsWay, WakeupPending, PumpHeadsFor
<1> QED
  BY <1>1, WakeInvariant, PTL

LEMMA QuietInvariant == ASSUME TimeoutSet PROVE QuietSpec => [](Quiet /\ OneOut)
<1>1. QuietSpec => Spec
  <2>1. [QuietNext]_vars => [Next]_vars
    BY DEF Next
  <2> QED
    BY <2>1, PTL DEF QuietSpec, Spec
<1>2. Init => Quiet /\ OneOut
  BY SMTT(30) DEF Init, Quiet, QuietPump, QuietLinks, QuietTurn, OneOut, Out, Answering, Returned,
     Services, Completers
<1>3. ASSUME Typed, Owned, Order, Quiet, OneOut, [QuietNext]_vars
      PROVE  (Quiet /\ OneOut)'
  <2>1. CASE QuietNext
    BY <1>3, <2>1, QuietPumpStep, QuietLinksStep, QuietTurnStep, OneOutStep DEF Quiet
  <2>2. CASE UNCHANGED vars
    <3> USE <1>3, <2>2 DEF vars, data, sendVars, mapVars, chanVars, pumpVars, localVars,
          ctxVars, callVars, linkVars, eventVars
    <3>1. QuietPump' /\ QuietLinks' /\ QuietTurn'
      BY DEF Quiet, QuietPump, QuietLinks, QuietTurn
    <3>2. OneOut'
      BY DEF OneOut, Out, Answering, Returned, Accepted
    <3> QED
      BY <3>1, <3>2 DEF Quiet
  <2> QED
    BY <1>3, <2>1, <2>2
<1> QED
  BY <1>1, <1>2, <1>3, TypedInvariant, OrderInvariant, PTL DEF QuietSpec

(* While clients stay connected, answers come in time and nobody calls      *)
(* Stop, messagePump runs indefinitely: nothing panics, and the pump never  *)
(* sends on the channel it alone receives from.                             *)
THEOREM PumpRuns == ASSUME TimeoutSet PROVE QuietSpec => []PumpNeverStuck
<1>1. Quiet => PumpNeverStuck
  BY DEF Quiet, QuietPump, PumpNeverStuck, PumpHasRoom
<1> QED
  BY <1>1, QuietInvariant, PTL
=============================================================================
