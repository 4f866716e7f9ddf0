-------------------------- MODULE ServerDispatcher --------------------------
(***************************************************************************)
(* DefaultServerDispatcher (ocppj/dispatcher.go) with its queue map and    *)
(* its pending-request state, and the goroutines that use it:              *)
(*   - application goroutines in Server.SendRequest (Senders);             *)
(*   - "pump", the one messagePump that serves every client;               *)
(*   - a reader per client, the websocket read pump in                     *)
(*     Server.ocppMessageHandler;                                          *)
(*   - a creator and a remover per client, the websocket goroutines in     *)
(*     onClientConnected and onClientDisconnected;                         *)
(*   - a waiter per transmission, in waitForTimeout;                       *)
(*   - "owner", which calls Server.Start and Server.Stop.                  *)
(*                                                                         *)
(* One step is one access to state the goroutines share.  Queues are       *)
(* objects: a goroutine that looked a queue up keeps it when the map       *)
(* forgets it, so queues have numbers and the map holds the number, 0 for  *)
(* no queue.  Request IDs are numbered in the order queues accept them.    *)
(* A goroutine's locals are forgotten after their last use.                *)
(***************************************************************************)
EXTENDS Naturals, Sequences, RequestQueue, ClientState

CONSTANTS
    Clients,          \* client IDs
    Senders,          \* application goroutines that send requests
    QueueCapacity,    \* FIFOQueueMap.queueCapacity, 0 for no limit
    RequestRoom,      \* capacity of requestChannel (20 in the code)
    TimerRoom,        \* capacity of timerC (10 in the code)
    TimeoutSet,       \* d.timeout > 0
    MaxRequests,      \* bound: requests the queues accept in a behaviour
    MaxSends,         \* bound: transmissions in a behaviour
    MaxConnects,      \* bound: connections in a behaviour
    MaxStops          \* bound: calls of Server.Stop, 0 or 1

Services == {"pump", "owner"}
Completers == {"pump"} \cup Clients
Ids == 1..MaxRequests
Sends == 1..MaxSends
Queues == 1..MaxConnects
Nowhere == [client |-> None, queue |-> 0]

ASSUME GoroutinesAssumption ==
    Senders \cap Services = {} /\ Clients \cap {"pump"} = {}
ASSUME CapacityAssumption ==
    QueueCapacity \in Nat /\ RequestRoom \in Nat \ {0} /\ TimerRoom \in Nat \ {0}
ASSUME TimeoutAssumption == TimeoutSet \in BOOLEAN
ASSUME BoundsAssumption ==
    /\ MaxRequests \in Nat /\ MaxSends \in Nat
    /\ MaxConnects \in Nat /\ MaxStops \in {0, 1}
ASSUME NoneAssumption == None \notin Nat

VARIABLES
    pc,               \* the place of each sender, of the pump and of the owner
    target,           \* the client and the queue a sender sends to
    queueMap,         \* FIFOQueueMap.data: the queue of each client, 0 if none
    elements,         \* the elements of each queue
    created,          \* number of queues created so far
    pendingRequest,   \* serverState: the request pending for each client
    requestChannel,   \* clients buffered in requestChannel
    readyForDispatch, \* clients buffered in readyForDispatch (capacity 1)
    timerC,           \* clients buffered in timerC
    running,          \* "new", "yes" or "no" (and stoppedC closed)
    clientID, clientQueue, rdy,   \* messagePump's locals
    clientContextMap, \* the active timeout context of each client, 0 if none
    waiter,           \* the goroutine that waits for each context
    completing,       \* the pump's and each reader's place in CompleteRequest
    held,             \* the queue the pump and each reader have looked up
    bundle,           \* the request the pump and each reader work on
    linkUp,           \* the client is in the websocket server's connections
    reader, creator, remover,     \* the place of each client's goroutines
    crashed,          \* a goroutine panicked: the process is gone
    nextId,           \* number of requests accepted so far
    dest,             \* the client and the queue of each accepted request
    sent,             \* requests handed to the websocket, in order
    atPeer,           \* transmitted requests the peer has yet to answer
    responded,        \* requests whose answer was handed to the application
    canceled,         \* requests passed to onRequestCancel
    connects          \* counter for the bound

sendVars  == <<target, nextId, dest>>
mapVars   == <<queueMap, elements, created>>
chanVars  == <<requestChannel, readyForDispatch, timerC>>
localVars == <<clientID, clientQueue, rdy>>
ctxVars   == <<clientContextMap, waiter>>
callVars  == <<completing, held, bundle>>
linkVars  == <<linkUp, connects, creator, remover>>
eventVars == <<sent, atPeer, responded, canceled>>
pumpVars  == <<localVars, ctxVars>>
data == <<sendVars, mapVars, pendingRequest, chanVars, running, pumpVars,
          callVars, linkVars, reader, crashed, eventVars>>
vars == <<pc, data>>

-----------------------------------------------------------------------------
(* d.mutex, a sync.RWMutex shared with the pending-request state: a writer  *)
(* that waits in Lock keeps new readers out.  Goroutines that send on a     *)
(* channel keep the read lock meanwhile; the write lock is held for one     *)
(* step at a time.                                                          *)

Reading ==
    \/ \E s \in Senders : pc[s] = "signal"
    \/ \E c \in Clients : remover[c] = "signal"
    \/ \E n \in Sends : waiter[n] = "signal"
WriterWaiting ==
    \/ pc["owner"] = "lock" \/ pc["pump"] \in {"timeout", "add"}
    \/ \E c \in Clients : reader[c] = "parse" \/ remover[c] = "clear"
    \/ \E p \in Completers : completing[p] = "delete"
CanRLock == ~WriterWaiting
CanLock  == ~Reading

IsRunning == running = "yes"

Step(g, from, to) == pc[g] = from /\ pc' = [pc EXCEPT ![g] = to]

(* Receiving from, and sending on, a buffered channel. *)
HasRoom(ch, room) == Len(ch) < room

(* cancel() of the context of a transmission, 0 for no context: the waiter  *)
(* returns unless its deadline was exceeded before.                         *)
Canceled(n) ==
    [m \in Sends |-> IF m = n /\ waiter[m] = "wait" THEN "done" ELSE waiter[m]]

-----------------------------------------------------------------------------
(* NewServer: nothing is started. *)
Init ==
    /\ pc = [g \in Senders \cup Services |-> "idle"]
    /\ target = [s \in Senders |-> Nowhere]
    /\ queueMap = [c \in Clients |-> 0]
    /\ elements = [k \in Queues |-> EmptyQueue] /\ created = 0
    /\ pendingRequest = [c \in Clients |-> None]
    /\ requestChannel = <<>> /\ readyForDispatch = <<>> /\ timerC = <<>>
    /\ running = "new"
    /\ clientID = None /\ clientQueue = 0 /\ rdy = FALSE
    /\ clientContextMap = [c \in Clients |-> 0]
    /\ waiter = [n \in Sends |-> "none"]
    /\ completing = [p \in Completers |-> "no"]
    /\ held = [p \in Completers |-> 0]
    /\ bundle = [p \in Completers |-> None]
    /\ linkUp = [c \in Clients |-> FALSE] /\ connects = 0
    /\ reader = [c \in Clients |-> "idle"]
    /\ creator = [c \in Clients |-> "idle"]
    /\ remover = [c \in Clients |-> "idle"]
    /\ crashed = FALSE /\ nextId = 0 /\ dest = [id \in Ids |-> Nowhere]
    /\ sent = <<>> /\ atPeer = {} /\ responded = {} /\ canceled = {}

(* Start: the channels are made and the pump runs. *)
Start ==
    /\ running = "new" /\ CanLock
    /\ running' = "yes"
    /\ pc' = [pc EXCEPT !["pump"] = "loop"]
    /\ UNCHANGED <<sendVars, mapVars, pendingRequest, chanVars, pumpVars,
                   callVars, linkVars, reader, crashed, eventVars>>

(* Stop: Lock ... *)
StopCall ==
    /\ Step("owner", "idle", "lock")
    /\ IsRunning /\ MaxStops > 0
    /\ UNCHANGED data

(* ... running = false, close(stoppedC). *)
Stop ==
    /\ Step("owner", "lock", "done")
    /\ CanLock
    /\ running' = "no"
    /\ UNCHANGED <<sendVars, mapVars, pendingRequest, chanVars, pumpVars,
                   callVars, linkVars, reader, crashed, eventVars>>

-----------------------------------------------------------------------------
(* Connections.  The websocket server enters the client in its connections  *)
(* and calls onClientConnected: CreateClient ...                            *)
Connect(c) ==
    /\ ~linkUp[c] /\ creator[c] = "idle"
    /\ connects < MaxConnects /\ running # "new"
    /\ linkUp' = [linkUp EXCEPT ![c] = TRUE]
    /\ creator' = [creator EXCEPT ![c] = "check"]
    /\ connects' = connects + 1
    /\ UNCHANGED <<pc, sendVars, mapVars, pendingRequest, chanVars, running,
                   pumpVars, callVars, remover, reader, crashed, eventVars>>

(* ... IsRunning ... *)
CreateCheck(c) ==
    /\ creator[c] = "check" /\ CanRLock
    /\ creator' = [creator EXCEPT ![c] = IF IsRunning THEN "create" ELSE "idle"]
    /\ UNCHANGED <<pc, sendVars, mapVars, pendingRequest, chanVars, running,
                   pumpVars, callVars, linkUp, connects, remover, reader,
                   crashed, eventVars>>

(* ... queueMap.GetOrCreate. *)
CreateClient(c) ==
    /\ creator[c] = "create"
    /\ creator' = [creator EXCEPT ![c] = "idle"]
    /\ IF queueMap[c] = 0
       THEN /\ queueMap' = [queueMap EXCEPT ![c] = created + 1]
            /\ created' = created + 1
       ELSE UNCHANGED <<queueMap, created>>
    /\ UNCHANGED <<pc, sendVars, elements, pendingRequest, chanVars, running,
                   pumpVars, callVars, linkUp, connects, remover, reader,
                   crashed, eventVars>>

(* The connection ends: the websocket server removes the client from its    *)
(* connections and calls onClientDisconnected.  Answers in transit are      *)
(* lost.  DeleteClient ...                                                  *)
Disconnect(c) ==
    /\ linkUp[c] /\ remover[c] = "idle"
    /\ linkUp' = [linkUp EXCEPT ![c] = FALSE]
    /\ remover' = [remover EXCEPT ![c] = "remove"]
    /\ atPeer' = {id \in atPeer : dest[id].client # c}
    /\ UNCHANGED <<pc, sendVars, mapVars, pendingRequest, chanVars, running,
                   pumpVars, callVars, connects, creator, reader, crashed,
                   sent, responded, canceled>>

RemoverStep(c, from, to) ==
    remover[c] = from /\ remover' = [remover EXCEPT ![c] = to]

(* ... queueMap.Remove ... *)
DeleteClient(c) ==
    /\ RemoverStep(c, "remove", "check")
    /\ queueMap' = [queueMap EXCEPT ![c] = 0]
    /\ UNCHANGED <<pc, sendVars, elements, created, pendingRequest, chanVars,
                   running, pumpVars, callVars, linkUp, connects, creator,
                   reader, crashed, eventVars>>

(* ... IsRunning ... *)
DeleteCheck(c) ==
    /\ RemoverStep(c, "check", IF IsRunning THEN "lock" ELSE "clear")
    /\ CanRLock
    /\ UNCHANGED <<pc, sendVars, mapVars, pendingRequest, chanVars, running,
                   pumpVars, callVars, linkUp, connects, creator, reader,
                   crashed, eventVars>>

(* ... RLock, requestChannel <- clientID ... *)
DeleteLock(c) ==
    /\ RemoverStep(c, "lock", "signal")
    /\ CanRLock
    /\ UNCHANGED <<pc, sendVars, mapVars, pendingRequest, chanVars, running,
                   pumpVars, callVars, linkUp, connects, creator, reader,
                   crashed, eventVars>>

DeleteSignal(c) ==
    /\ RemoverStep(c, "signal", "clear")
    /\ HasRoom(requestChannel, RequestRoom)
    /\ requestChannel' = Append(requestChannel, c)
    /\ UNCHANGED <<pc, sendVars, mapVars, pendingRequest, readyForDispatch,
                   timerC, running, pumpVars, callVars, linkUp, connects,
                   creator, reader, crashed, eventVars>>

(* ... then ClearClientPendingRequest. *)
ClearClientPendingRequest(c) ==
    /\ RemoverStep(c, "clear", "idle")
    /\ CanLock
    /\ pendingRequest' = [pendingRequest EXCEPT ![c] = None]
    /\ UNCHANGED <<pc, sendVars, mapVars, chanVars, running, pumpVars,
                   callVars, linkUp, connects, creator, reader, crashed,
                   eventVars>>

Create(c) == CreateCheck(c) \/ CreateClient(c)
Delete(c) ==
    \/ DeleteClient(c) \/ DeleteCheck(c) \/ DeleteLock(c) \/ DeleteSignal(c)
    \/ ClearClientPendingRequest(c)

-----------------------------------------------------------------------------
(* Server.SendRequest and DefaultServerDispatcher.SendRequest.              *)

(* The IsRunning check. *)
SendCheck(s) ==
    /\ Step(s, "idle", "get")
    /\ nextId < MaxRequests
    /\ IsRunning /\ CanRLock
    /\ \E c \in Clients : target' = [target EXCEPT ![s].client = c]
    /\ UNCHANGED <<nextId, dest, mapVars, pendingRequest, chanVars, running,
                   pumpVars, callVars, linkVars, reader, crashed, eventVars>>

(* queueMap.Get: a client without a queue is the caller's error. *)
SendGet(s) ==
    LET k == queueMap[target[s].client] IN
    /\ Step(s, "get", IF k = 0 THEN "idle" ELSE "push")
    /\ target' = [target EXCEPT ![s] =
          IF k = 0 THEN Nowhere ELSE [@ EXCEPT !.queue = k]]
    /\ UNCHANGED <<nextId, dest, mapVars, pendingRequest, chanVars, running,
                   pumpVars, callVars, linkVars, reader, crashed, eventVars>>

(* q.Push: a full queue is the caller's error. *)
SendPush(s) ==
    LET k == target[s].queue IN
    /\ nextId < MaxRequests
    /\ \/ /\ Step(s, "push", "idle")
          /\ IsFull(elements[k], QueueCapacity)
          /\ target' = [target EXCEPT ![s] = Nowhere]
          /\ UNCHANGED <<elements, nextId, dest>>
       \/ /\ Step(s, "push", "lock")
          /\ ~IsFull(elements[k], QueueCapacity)
          /\ elements' = [elements EXCEPT ![k] = Push(@, nextId + 1)]
          /\ nextId' = nextId + 1
          /\ dest' = [dest EXCEPT ![nextId + 1] = target[s]]
          /\ UNCHANGED target
    /\ UNCHANGED <<queueMap, created, pendingRequest, chanVars,
                   running, pumpVars, callVars, linkVars, reader, crashed,
                   eventVars>>

SendLock(s) ==
    /\ Step(s, "lock", "signal")
    /\ CanRLock
    /\ UNCHANGED data

(* requestChannel <- clientID with the read lock held. *)
SendSignal(s) ==
    /\ Step(s, "signal", "idle")
    /\ HasRoom(requestChannel, RequestRoom)
    /\ requestChannel' = Append(requestChannel, target[s].client)
    /\ target' = [target EXCEPT ![s] = Nowhere]
    /\ UNCHANGED <<nextId, dest, mapVars, pendingRequest, readyForDispatch, timerC,
                   running, pumpVars, callVars, linkVars, reader, crashed,
                   eventVars>>

SendRequest(s) ==
    \/ SendCheck(s) \/ SendGet(s) \/ SendPush(s) \/ SendLock(s)
    \/ SendSignal(s)

-----------------------------------------------------------------------------
(* CompleteRequest, run by the readers and by the pump itself.              *)

(* The client the goroutine completes a request of. *)
ClientOf(p) == IF p = "pump" THEN clientID ELSE p

(* queueMap.Get; without a queue there is nothing to complete. *)
CompleteGet(p) ==
    /\ completing[p] = "get"
    /\ held' = [held EXCEPT ![p] = queueMap[ClientOf(p)]]
    /\ completing' = [completing EXCEPT ![p] =
          IF queueMap[ClientOf(p)] = 0 THEN "no" ELSE "peek"]
    /\ UNCHANGED <<pc, sendVars, mapVars, pendingRequest, chanVars, running,
                   pumpVars, bundle, linkVars, reader, crashed, eventVars>>

CompletePeek(p) ==
    LET q == elements[held[p]]
        found == ~IsEmpty(q) /\ Peek(q) = bundle[p] IN
    /\ completing[p] = "peek"
    /\ completing' = [completing EXCEPT ![p] = IF found THEN "pop" ELSE "no"]
    /\ held' = [held EXCEPT ![p] = IF found THEN @ ELSE 0]
    /\ UNCHANGED <<pc, sendVars, mapVars, pendingRequest, chanVars, running,
                   pumpVars, bundle, linkVars, reader, crashed,
                   eventVars>>

CompletePop(p) ==
    /\ completing[p] = "pop"
    /\ completing' = [completing EXCEPT ![p] = "delete"]
    /\ elements' = [elements EXCEPT ![held[p]] = Pop(@)]
    /\ held' = [held EXCEPT ![p] = 0]
    /\ UNCHANGED <<pc, sendVars, queueMap, created, pendingRequest, chanVars,
                   running, pumpVars, bundle, linkVars, reader, crashed,
                   eventVars>>

CompleteDelete(p) ==
    /\ completing[p] = "delete" /\ CanLock
    /\ completing' = [completing EXCEPT ![p] = "ready"]
    /\ pendingRequest' = [pendingRequest EXCEPT ![ClientOf(p)] =
          DeletePendingRequest(@, bundle[p])]
    /\ UNCHANGED <<pc, sendVars, mapVars, chanVars, running, pumpVars, held,
                   bundle, linkVars, reader, crashed, eventVars>>

(* Fault: the send does not wait for room in the channel. *)
CompleteReadyUnbounded(p) ==
    /\ completing[p] = "ready"
    /\ readyForDispatch' = Append(readyForDispatch, ClientOf(p))
    /\ completing' = [completing EXCEPT ![p] = "no"]
    /\ UNCHANGED <<pc, sendVars, mapVars, pendingRequest, requestChannel,
                   timerC, running, pumpVars, held, bundle, linkVars, reader,
                   crashed, eventVars>>

(* Fault: the pump is not told that the client is ready again. *)
CompleteReadyNothing(p) ==
    /\ completing[p] = "ready"
    /\ completing' = [completing EXCEPT ![p] = "no"]
    /\ UNCHANGED <<pc, sendVars, mapVars, pendingRequest, chanVars, running,
                   pumpVars, held, bundle, linkVars, reader, crashed, eventVars>>

(* readyForDispatch <- clientID, which blocks while the channel is full. *)
CompleteReady(p) ==
    /\ completing[p] = "ready"
    /\ HasRoom(readyForDispatch, 1)
    /\ readyForDispatch' = Append(readyForDispatch, ClientOf(p))
    /\ completing' = [completing EXCEPT ![p] = "no"]
    /\ UNCHANGED <<pc, sendVars, mapVars, pendingRequest, requestChannel,
                   timerC, running, pumpVars, held, bundle, linkVars, reader,
                   crashed, eventVars>>

CompleteRequest(p) ==
    \/ CompleteGet(p) \/ CompletePeek(p) \/ CompletePop(p)
    \/ CompleteDelete(p) \/ CompleteReady(p)

-----------------------------------------------------------------------------
(* messagePump.  While the pump is inside CompleteRequest its place is the  *)
(* statement it returns to.                                                 *)

PumpStep(from, to) == completing["pump"] = "no" /\ Step("pump", from, to)

(* reqChan(), evaluated on entering the select. *)
PumpLoop ==
    /\ PumpStep("loop", "select")
    /\ CanRLock
    /\ UNCHANGED data

(* stoppedC is closed: queueMap.Init and return. *)
PumpOnStop ==
    /\ PumpStep("select", "done")
    /\ running = "no"
    /\ queueMap' = [c \in Clients |-> 0]
    /\ UNCHANGED <<sendVars, elements, created, pendingRequest, chanVars,
                   running, pumpVars, callVars, linkVars, reader, crashed,
                   eventVars>>

PumpOnRequest ==
    /\ PumpStep("select", "request")
    /\ requestChannel # <<>>
    /\ clientID' = Head(requestChannel)
    /\ requestChannel' = Tail(requestChannel)
    /\ UNCHANGED <<sendVars, mapVars, pendingRequest, readyForDispatch, timerC,
                   running, clientQueue, rdy, ctxVars, callVars, linkVars,
                   reader, crashed, eventVars>>

(* Fault: the active context of the client is not looked at. *)
RequestGetAlwaysReady ==
    /\ PumpStep("request", IF queueMap[clientID] = 0 THEN "loop" ELSE "check")
    /\ clientQueue' = queueMap[clientID]
    /\ rdy' = (rdy \/ queueMap[clientID] # 0)
    /\ UNCHANGED <<sendVars, mapVars, pendingRequest, chanVars, running,
                   clientID, ctxVars, callVars, linkVars, reader, crashed,
                   eventVars>>

(* queueMap.Get.  The context of a removed client is cancelled and deleted; *)
(* a client without an active context is ready to transmit.                 *)
RequestGet ==
    /\ PumpStep("request", IF queueMap[clientID] = 0 THEN "loop" ELSE "check")
    /\ clientQueue' = queueMap[clientID]
    /\ IF queueMap[clientID] = 0
       THEN /\ waiter' = Canceled(clientContextMap[clientID])
            /\ clientContextMap' = [clientContextMap EXCEPT ![clientID] = 0]
            /\ UNCHANGED rdy
       ELSE /\ rdy' = (clientContextMap[clientID] = 0)
            /\ UNCHANGED ctxVars
    /\ UNCHANGED <<sendVars, mapVars, pendingRequest, chanVars, running,
                   clientID, callVars, linkVars, reader, crashed, eventVars>>

(* The timer branch: the context is cancelled and made inactive ... *)
PumpOnTimer ==
    /\ PumpStep("select", "timeout")
    /\ timerC # <<>>
    /\ clientID' = Head(timerC)
    /\ timerC' = Tail(timerC)
    /\ waiter' = Canceled(clientContextMap[Head(timerC)])
    /\ clientContextMap' = [clientContextMap EXCEPT ![Head(timerC)] = 0]
    /\ UNCHANGED <<sendVars, mapVars, pendingRequest, requestChannel,
                   readyForDispatch, running, clientQueue, rdy, callVars,
                   linkVars, reader, crashed, eventVars>>

(* ... HasPendingRequest(clientID) ... *)
TimeoutCheck ==
    /\ PumpStep("timeout", IF HasPendingRequest(pendingRequest[clientID])
                           THEN "timedout" ELSE "check")
    /\ CanLock
    /\ UNCHANGED data

(* ... queueMap.Get; q is nil if the client was removed, and its Peek       *)
(* panics ...                                                               *)
TimeoutGet ==
    /\ PumpStep("timedout", "expire")
    /\ held' = [held EXCEPT !["pump"] = queueMap[clientID]]
    /\ crashed' = (queueMap[clientID] = 0)
    /\ UNCHANGED <<sendVars, mapVars, pendingRequest, chanVars, running,
                   pumpVars, completing, bundle, linkVars, reader, eventVars>>

(* ... Peek, then CompleteRequest of what was peeked; an empty queue yields *)
(* a zero bundle, whose nil Call is dereferenced ...                        *)
TimeoutPeek ==
    LET q == elements[held["pump"]] IN
    /\ PumpStep("expire", "cancel")
    /\ IF IsEmpty(q)
       THEN crashed' = TRUE /\ UNCHANGED <<bundle, completing>>
       ELSE /\ bundle' = [bundle EXCEPT !["pump"] = Peek(q)]
            /\ completing' = [completing EXCEPT !["pump"] = "get"]
            /\ UNCHANGED crashed
    /\ held' = [held EXCEPT !["pump"] = 0]
    /\ UNCHANGED <<sendVars, mapVars, pendingRequest, chanVars, running,
                   pumpVars, linkVars, reader, eventVars>>

(* ... onRequestCancel(clientID, id, "Request timed out").  rdy and         *)
(* clientQueue are what an earlier iteration left.                          *)
TimeoutCancel ==
    /\ PumpStep("cancel", "check")
    /\ canceled' = canceled \cup {bundle["pump"]}
    /\ bundle' = [bundle EXCEPT !["pump"] = None]
    /\ UNCHANGED <<sendVars, mapVars, pendingRequest, chanVars, running,
                   pumpVars, completing, held, linkVars, reader, crashed, sent,
                   atPeer, responded>>

(* The ready branch: the context is cancelled and made inactive ... *)
PumpOnReady ==
    LET c == Head(readyForDispatch) IN
    /\ PumpStep("select", "ready")
    /\ readyForDispatch # <<>>
    /\ clientID' = c
    /\ readyForDispatch' = Tail(readyForDispatch)
    /\ waiter' = Canceled(clientContextMap[c])
    /\ clientContextMap' = [clientContextMap EXCEPT ![c] = 0]
    /\ UNCHANGED <<sendVars, mapVars, pendingRequest, requestChannel, timerC,
                   running, clientQueue, rdy, callVars, linkVars, reader,
                   crashed, eventVars>>

(* ... queueMap.Get. *)
ReadyGet ==
    /\ PumpStep("ready", "check")
    /\ clientQueue' = queueMap[clientID]
    /\ rdy' = (rdy \/ queueMap[clientID] # 0)
    /\ UNCHANGED <<sendVars, mapVars, pendingRequest, chanVars, running,
                   clientID, ctxVars, callVars, linkVars, reader, crashed,
                   eventVars>>

(* Fault: an empty queue is not looked at. *)
PumpUnchecked ==
    /\ PumpStep("check", IF rdy /\ clientQueue # 0 THEN "get" ELSE "loop")
    /\ UNCHANGED data

(* rdy && clientQueue != nil && !clientQueue.IsEmpty(). *)
PumpCheck ==
    /\ PumpStep("check", IF /\ rdy /\ clientQueue # 0
                            /\ ~IsEmpty(elements[clientQueue])
                         THEN "get" ELSE "loop")
    /\ UNCHANGED data

(* dispatchNextRequest(clientID): queueMap.Get; without a queue the client  *)
(* gets an inactive context ...                                             *)
DispatchGet ==
    /\ PumpStep("get", IF queueMap[clientID] = 0 THEN "loop" ELSE "peek")
    /\ held' = [held EXCEPT !["pump"] = queueMap[clientID]]
    /\ IF queueMap[clientID] = 0
       THEN /\ clientContextMap' = [clientContextMap EXCEPT ![clientID] = 0]
            /\ rdy' = FALSE
       ELSE UNCHANGED <<clientContextMap, rdy>>
    /\ UNCHANGED <<sendVars, mapVars, pendingRequest, chanVars, running,
                   clientID, clientQueue, waiter, completing, bundle, linkVars,
                   reader, crashed, eventVars>>

(* ... Peek; the nil Call of an empty queue is dereferenced ... *)
DispatchPeek ==
    LET q == elements[held["pump"]] IN
    /\ PumpStep("peek", "add")
    /\ IF IsEmpty(q)
       THEN crashed' = TRUE /\ UNCHANGED bundle
       ELSE /\ bundle' = [bundle EXCEPT !["pump"] = Peek(q)]
            /\ UNCHANGED crashed
    /\ held' = [held EXCEPT !["pump"] = 0]
    /\ UNCHANGED <<sendVars, mapVars, pendingRequest, chanVars, running,
                   pumpVars, completing, linkVars, reader, eventVars>>

(* ... AddPendingRequest, ignored while another request is pending ... *)
DispatchAdd ==
    /\ PumpStep("add", "write") /\ CanLock
    /\ pendingRequest' = [pendingRequest EXCEPT ![clientID] =
          AddPendingRequest(@, bundle["pump"])]
    /\ UNCHANGED <<sendVars, mapVars, chanVars, running, pumpVars, callVars,
                   linkVars, reader, crashed, eventVars>>

(* ... network.Write, which fails when the client is not connected.  If it  *)
(* succeeds and a timeout is set, a context becomes the client's and a      *)
(* waiter runs; if not, the request is completed ...                        *)
DispatchWrite ==
    LET n == Len(sent) + 1 IN
    /\ \/ /\ PumpStep("write", "loop")
          /\ linkUp[clientID] /\ n \in Sends
          /\ sent' = Append(sent, bundle["pump"])
          /\ atPeer' = atPeer \cup {bundle["pump"]}
          /\ waiter' = [waiter EXCEPT ![n] = IF TimeoutSet THEN "wait" ELSE "done"]
          /\ clientContextMap' = [clientContextMap EXCEPT ![clientID] =
                IF TimeoutSet THEN n ELSE 0]
          /\ rdy' = FALSE
          /\ bundle' = [bundle EXCEPT !["pump"] = None]
          /\ UNCHANGED completing
       \/ /\ PumpStep("write", "fail")
          /\ ~linkUp[clientID]
          /\ completing' = [completing EXCEPT !["pump"] = "get"]
          /\ UNCHANGED <<sent, atPeer, ctxVars, rdy, bundle>>
    /\ UNCHANGED <<sendVars, mapVars, pendingRequest, chanVars, running,
                   clientID, clientQueue, held, linkVars, reader,
                   crashed, responded, canceled>>

(* ... and passed to onRequestCancel; the client gets an inactive context.  *)
DispatchCancel ==
    /\ PumpStep("fail", "loop")
    /\ canceled' = canceled \cup {bundle["pump"]}
    /\ clientContextMap' = [clientContextMap EXCEPT ![clientID] = 0]
    /\ rdy' = FALSE
    /\ bundle' = [bundle EXCEPT !["pump"] = None]
    /\ UNCHANGED <<sendVars, mapVars, pendingRequest, chanVars, running,
                   clientID, clientQueue, waiter, completing, held, linkVars, reader,
                   crashed, sent, atPeer, responded>>

messagePump ==
    \/ PumpLoop \/ PumpOnStop \/ PumpOnRequest \/ RequestGet \/ PumpOnTimer
    \/ TimeoutCheck \/ TimeoutGet \/ TimeoutPeek \/ TimeoutCancel
    \/ PumpOnReady \/ ReadyGet \/ PumpCheck \/ DispatchGet \/ DispatchPeek
    \/ DispatchAdd \/ DispatchWrite \/ DispatchCancel

-----------------------------------------------------------------------------
(* waitForTimeout of the context of transmission n. *)

WaiterStep(n, from, to) ==
    waiter[n] = from /\ waiter' = [waiter EXCEPT ![n] = to]

(* ctx.Done with DeadlineExceeded, or stoppedC ... *)
Deadline(n) ==
    /\ WaiterStep(n, "wait", "lock")
    /\ UNCHANGED <<pc, sendVars, mapVars, pendingRequest, chanVars, running,
                   localVars, clientContextMap, callVars, linkVars, reader,
                   crashed, eventVars>>

WaitStopped(n) ==
    /\ WaiterStep(n, "wait", "done")
    /\ running = "no"
    /\ UNCHANGED <<pc, sendVars, mapVars, pendingRequest, chanVars, running,
                   localVars, clientContextMap, callVars, linkVars, reader,
                   crashed, eventVars>>

(* ... RLock, if d.running ... *)
WaitLock(n) ==
    /\ WaiterStep(n, "lock", IF IsRunning THEN "signal" ELSE "done")
    /\ CanRLock
    /\ UNCHANGED <<pc, sendVars, mapVars, pendingRequest, chanVars, running,
                   localVars, clientContextMap, callVars, linkVars, reader,
                   crashed, eventVars>>

(* ... timerC <- clientID with the read lock held. *)
WaitSignal(n) ==
    /\ WaiterStep(n, "signal", "done")
    /\ HasRoom(timerC, TimerRoom)
    /\ timerC' = Append(timerC, dest[sent[n]].client)
    /\ UNCHANGED <<pc, sendVars, mapVars, pendingRequest, requestChannel,
                   readyForDispatch, running, localVars, clientContextMap,
                   callVars, linkVars, reader, crashed, eventVars>>

waitForTimeout(n) == WaitStopped(n) \/ WaitLock(n) \/ WaitSignal(n)

-----------------------------------------------------------------------------
(* A client's reader: Server.ocppMessageHandler on a CALL_RESULT or a       *)
(* CALL_ERROR.                                                              *)

Receive(c, id) ==
    /\ linkUp[c] /\ id \in atPeer /\ dest[id].client = c
    /\ reader[c] = "idle"
    /\ reader' = [reader EXCEPT ![c] = "parse"]
    /\ bundle' = [bundle EXCEPT ![c] = id]
    /\ atPeer' = atPeer \ {id}
    /\ UNCHANGED <<pc, sendVars, mapVars, pendingRequest, chanVars, running,
                   pumpVars, completing, held, linkVars, crashed, sent,
                   responded, canceled>>

(* GetClientState and, in ParseMessage, GetPendingRequest: the answer to a  *)
(* request that is not pending is discarded.  A client state that was       *)
(* cleared between the two is frozen, so one step stands for both.          *)
ParseMessage(c) ==
    LET known == GetPendingRequest(pendingRequest[c], bundle[c]) IN
    /\ reader[c] = "parse" /\ CanLock
    /\ reader' = [reader EXCEPT ![c] = IF known THEN "deliver" ELSE "idle"]
    /\ completing' = [completing EXCEPT ![c] = IF known THEN "get" ELSE "no"]
    /\ bundle' = [bundle EXCEPT ![c] = IF known THEN @ ELSE None]
    /\ UNCHANGED <<pc, sendVars, mapVars, pendingRequest, chanVars, running,
                   pumpVars, held, linkVars, crashed, eventVars>>

(* responseHandler / errorHandler, whatever CompleteRequest found. *)
Deliver(c) ==
    /\ reader[c] = "deliver" /\ completing[c] = "no"
    /\ reader' = [reader EXCEPT ![c] = "idle"]
    /\ responded' = responded \cup {bundle[c]}
    /\ bundle' = [bundle EXCEPT ![c] = None]
    /\ UNCHANGED <<pc, sendVars, mapVars, pendingRequest, chanVars, running,
                   pumpVars, completing, held, linkVars, crashed, sent, atPeer,
                   canceled>>

ocppMessageHandler(c) == ParseMessage(c) \/ Deliver(c)

-----------------------------------------------------------------------------
(* What happens while clients stay connected, every answer comes in time    *)
(* and nobody calls Stop ...                                                *)
QuietNext ==
    /\ ~crashed
    /\ \/ Start \/ messagePump
       \/ \E s \in Senders : SendRequest(s)
       \/ \E c \in Clients : Connect(c) \/ Create(c) \/ ocppMessageHandler(c)
       \/ \E c \in Clients, id \in Ids : Receive(c, id)
       \/ \E p \in Completers : CompleteRequest(p)

(* ... and everything that can happen. *)
Next ==
    \/ QuietNext
    \/ /\ ~crashed
       /\ \/ StopCall \/ Stop
          \/ \E c \in Clients : Disconnect(c) \/ Delete(c)
          \/ \E n \in Sends : Deadline(n) \/ waitForTimeout(n)

Spec == Init /\ [][Next]_vars

(* Scheduling, as for the client's dispatcher: a goroutine that can run     *)
(* does, and a ready branch of the pump's select is taken at last.          *)
Live(A) == ~crashed /\ A

(* The peers of a quiet server answer what they receive.                    *)
QuietSpec == Init /\ [][QuietNext]_vars

FairQuietSpec ==
    /\ QuietSpec
    /\ WF_vars(Live(messagePump))
    /\ SF_vars(Live(PumpOnRequest)) /\ SF_vars(Live(PumpOnReady))
    /\ \A s \in Senders : WF_vars(Live(SendLock(s) \/ SendSignal(s)))
    /\ \A p \in Completers : WF_vars(Live(CompleteRequest(p)))
    /\ \A c \in Clients :
          /\ WF_vars(Live(ocppMessageHandler(c)))
          /\ WF_vars(Live(\E id \in Ids : Receive(c, id)))


-----------------------------------------------------------------------------
PlacesOK ==
    /\ pc \in [Senders \cup Services ->
          {"idle", "get", "push", "lock", "signal", "loop", "select", "done",
           "request", "timeout", "timedout", "expire", "cancel", "ready",
           "check", "peek", "add", "write", "fail"}]
    /\ running \in {"new", "yes", "no"}
    /\ waiter \in [Sends -> {"none", "wait", "lock", "signal", "done"}]
    /\ completing \in [Completers ->
          {"no", "get", "peek", "pop", "delete", "ready"}]
    /\ reader \in [Clients -> {"idle", "parse", "deliver"}]
    /\ creator \in [Clients -> {"idle", "check", "create"}]
    /\ remover \in [Clients ->
          {"idle", "remove", "check", "lock", "signal", "clear"}]
FlagsOK ==
    rdy \in BOOLEAN /\ crashed \in BOOLEAN /\ linkUp \in [Clients -> BOOLEAN]
ChannelsOK ==
    /\ requestChannel \in Seq(Clients) /\ Len(requestChannel) <= RequestRoom
    /\ readyForDispatch \in Seq(Clients) /\ Len(readyForDispatch) <= 1
    /\ timerC \in Seq(Clients) /\ Len(timerC) <= TimerRoom
    /\ clientID \in Clients \cup {None}
QueuesOK ==
    /\ target \in [Senders -> [client : Clients \cup {None}, queue : 0..MaxConnects]]
    /\ dest \in [Ids -> [client : Clients \cup {None}, queue : 0..MaxConnects]]
    /\ queueMap \in [Clients -> 0..created] /\ clientQueue \in 0..created
    /\ held \in [Completers -> 0..created]
    /\ created \in 0..connects /\ connects \in 0..MaxConnects
RequestsOK ==
    /\ elements \in [Queues -> Seq(Ids)]
    /\ QueueCapacity > 0 => \A k \in Queues : Len(elements[k]) <= QueueCapacity
    /\ pendingRequest \in [Clients -> Ids \cup {None}]
    /\ bundle \in [Completers -> Ids \cup {None}]
    /\ nextId \in 0..MaxRequests
    /\ sent \in Seq(Ids) /\ Len(sent) <= MaxSends
    /\ clientContextMap \in [Clients -> 0..Len(sent)]
    /\ atPeer \subseteq Ids /\ responded \subseteq Ids /\ canceled \subseteq Ids

(* Every variable has its type, and the queues and channels hold what they  *)
(* can hold.                                                                *)
TypeOK == PlacesOK /\ FlagsOK /\ ChannelsOK /\ QueuesOK /\ RequestsOK

(* Requests to a client reach the websocket in the order SendRequest queued *)
(* them, and never after a request of a later connection of that client,    *)
(* whatever timeouts, failed writes and reconnections happen on the way.    *)
TransmitInOrder ==
    \A i, j \in 1..Len(sent) :
       LET d == dest[sent[i]]  e == dest[sent[j]] IN
       i < j /\ d.client = e.client =>
          d.queue < e.queue \/ (d.queue = e.queue /\ sent[i] <= sent[j])

(* messagePump "runs indefinitely": the process does not panic, and the     *)
(* pump, the only receiver of readyForDispatch, never sends on it while it  *)
(* is full.                                                                 *)
PumpHasRoom == completing["pump"] = "ready" => HasRoom(readyForDispatch, 1)
PumpNeverStuck == ~crashed /\ PumpHasRoom

(* No wake-up is lost although one buffered channel announces the requests  *)
(* of every client: if the queue of a client is not empty, its front was    *)
(* transmitted, or the pump is about to look at the client, or a signal or  *)
(* a token with its ID is in a channel or about to be sent.                 *)
Holds(seq, x) == \E i \in 1..Len(seq) : seq[i] = x
Transmitted(id) == Holds(sent, id)
PumpHeadsFor(c) ==
    clientID = c /\ pc["pump"] \in {"request", "ready", "check", "get", "peek",
                                     "add", "write", "fail"}
Announced(c) ==
    \/ Holds(requestChannel, c) \/ Holds(readyForDispatch, c)
    \/ \E s \in Senders : pc[s] \in {"lock", "signal"} /\ target[s].client = c
    \/ \E p \in Completers :
          ClientOf(p) = c /\ completing[p] \in {"delete", "ready"}
WakeupPending ==
    \A c \in Clients :
       queueMap[c] # 0 /\ ~IsEmpty(elements[queueMap[c]]) /\ running = "yes" =>
          \/ Transmitted(Peek(elements[queueMap[c]]))
          \/ PumpHeadsFor(c) \/ Announced(c)

(* Every accepted request is answered if the peers answer: again and again no
   accepted request is without its answer, and no answer is taken back.  This
   is what SendRequest and CompleteRequest promise together. *)
EventuallyAnswered == []<>(1..nextId \subseteq responded)

(* For each client the dispatcher implements the one-at-a-time request      *)
(* channel: a request is in flight from its Write until                     *)
(* DeletePendingRequest.                                                    *)
To(c) == {id \in 1..nextId : dest[id].client = c}
QueueOf(c) == IF queueMap[c] = 0 THEN <<>> ELSE elements[queueMap[c]]
Channel(c) == INSTANCE RequestChannel WITH
    Nobody <- None,
    backlog <- IF QueueOf(c) # <<>> /\ Transmitted(Head(QueueOf(c)))
               THEN Tail(QueueOf(c)) ELSE QueueOf(c),
    inFlight <- IF pendingRequest[c] # None /\ Transmitted(pendingRequest[c])
                THEN pendingRequest[c] ELSE None,
    transmitted <- SelectSeq(sent, LAMBDA id : dest[id].client = c),
    accepted <- CHOOSE id \in To(c) \cup {0} : \A o \in To(c) : o <= id
ImplementsChannel ==
    /\ \A c \in Clients : Channel(c)!Init
    /\ [][\A c \in Clients : [Channel(c)!Next]_(Channel(c)!channelVars)]_vars

-----------------------------------------------------------------------------
(* What the documentation says of the dispatcher and the code does not do.  *)

(* DeleteClient: "The OnRequestCanceled callback will be invoked for each   *)
(* discarded request": once a client is removed and the pump has handled    *)
(* the removal, its requests are all settled.                               *)
Removed(c) ==
    /\ queueMap[c] = 0 /\ ~linkUp[c] /\ remover[c] = "idle"
    /\ creator[c] = "idle" /\ reader[c] = "idle" /\ running = "yes"
    /\ requestChannel = <<>> /\ pc["pump"] = "select"
    /\ \A s \in Senders : pc[s] = "idle"
DeleteCancels ==
    \A c \in Clients : Removed(c) => To(c) \subseteq responded \cup canceled
=============================================================================
