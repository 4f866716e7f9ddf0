------------------------------ MODULE Central ------------------------------
(***************************************************************************)
(* How a central system (ocpp1.6/central_system.go) and a CSMS             *)
(* (ocpp2.0.1/csms.go) match the outcome of a request with its callback.   *)
(* The callbacks of each client wait in a callback queue                   *)
(* (internal/callbackqueue) under one mutex.  The first of them is called  *)
(* by the client's reader with an answer, by the pump of the dispatcher    *)
(* with an error if a request is canceled and, in 1.6 with a disconnected  *)
(* handler, by the goroutine that cleans up after the client.              *)
(*                                                                         *)
(* Requests are numbered in the order in which TryQueue accepts them.  The *)
(* dispatcher is reduced to its queues, its two channels and the timeout   *)
(* contexts, and is spared the disconnections that make it panic; module   *)
(* ServerDispatcher has the rest of it.                                    *)
(***************************************************************************)
EXTENDS Integers, Sequences, FiniteSets

CONSTANTS
  Clients,      \* identifiers of charge points
  NoClient,     \* no client
  RequestRoom,  \* capacity of requestChannel, 20 in the code
  MaxRequests,  \* bound on requests
  MaxConnects   \* bound on connections, over all clients

ASSUME ConstantsAssumption ==
    /\ NoClient \notin Clients
    /\ RequestRoom \in Nat \ {0}
    /\ MaxRequests \in Nat /\ MaxConnects \in Nat

VARIABLES
  flushes,    \* 1.6, and SetChargePointDisconnectedHandler was called
  connects,   \* number of connections so far
  up,         \* a client is connected
  dpc,        \* the goroutine that cleans up after a client
  made,       \* number of requests accepted by TryQueue
  callbacks,  \* cs.callbackQueue
  mutex,      \* callbacksMutex: the client a request is being queued for
  exists,     \* there is a queue for a client in the dispatcher's queueMap
  queue,      \* its content
  pending,    \* the pending request of a client, or 0
  requestC,   \* requestChannel
  readyC,     \* readyForDispatch, of capacity 1
  active,     \* the timeout context of a client is active
  ppc,        \* messagePump
  canceled,   \* the client and the request the pump cancels
  rpc,        \* the readers
  received,   \* the request whose answer they handle, or 0
  mispaired,  \* a callback got the outcome of another request
  stale,      \* callbacks of an earlier connection were left for a client
  raced,      \* two goroutines had an outcome for the same client
  doubled,    \* a request was canceled and answered
  overlapped, \* a client was back before the clean-up after it was over
  unnoticed   \* a client was back before the pump dropped its timeout context

clientVars == <<flushes, connects, up, dpc>>
backlogVars == <<made, callbacks, mutex>>
queueVars == <<exists, queue, pending>>
pumpVars == <<active, ppc, canceled>>
readerVars == <<rpc, received>>
historyVars == <<mispaired, stale, doubled, overlapped, unnoticed>>
vars == <<flushes, connects, up, dpc, made, callbacks, mutex, exists, queue, pending, requestC,
          readyC, active, ppc, canceled, rpc, received, mispaired, stale, raced, doubled, overlapped,
          unnoticed>>

Nothing == [client |-> NoClient, request |-> 0]

(* The capacity of readyForDispatch. *)
ReadyRoom == 1

Init ==
    /\ flushes \in BOOLEAN
    /\ connects = 0
    /\ up = [c \in Clients |-> FALSE]
    /\ dpc = [c \in Clients |-> "idle"]
    /\ made = 0
    /\ callbacks = [c \in Clients |-> <<>>]
    /\ mutex = NoClient
    /\ exists = [c \in Clients |-> FALSE]
    /\ queue = [c \in Clients |-> <<>>]
    /\ pending = [c \in Clients |-> 0]
    /\ requestC = <<>>
    /\ readyC = <<>>
    /\ active = [c \in Clients |-> FALSE]
    /\ ppc = "select"
    /\ canceled = Nothing
    /\ rpc = [c \in Clients |-> "read"]
    /\ received = [c \in Clients |-> 0]
    /\ mispaired = FALSE
    /\ stale = FALSE
    /\ raced = FALSE
    /\ doubled = FALSE
    /\ overlapped = FALSE
    /\ unnoticed = FALSE

------------------------------------------------------------------------------
(* CallbackQueue, and SendRequestAsync *)

(* Mutant: the callback that was queued last is called. *)
DequeueLast(c, r) ==
    /\ mutex = NoClient
    /\ IF callbacks[c] = <<>>
       THEN UNCHANGED <<callbacks, mispaired>>
       ELSE /\ callbacks' = [callbacks EXCEPT ![c] = SubSeq(@, 1, Len(@) - 1)]
            /\ mispaired' = (mispaired \/ callbacks[c][Len(callbacks[c])] # r)

(* Dequeue, by a goroutine that has the outcome of request r for client c; the
   outcome is dropped if there is no callback. *)
Dequeue(c, r) ==
    /\ mutex = NoClient
    /\ IF callbacks[c] = <<>>
       THEN UNCHANGED <<callbacks, mispaired>>
       ELSE /\ callbacks' = [callbacks EXCEPT ![c] = Tail(@)]
            /\ mispaired' = (mispaired \/ Head(callbacks[c]) # r)

(* Mutant: the callback of a refused request stays in the queue. *)
TryQueueKept(c) ==
    /\ made < MaxRequests
    /\ mutex = NoClient
    /\ made' = made + 1
    /\ callbacks' = [callbacks EXCEPT ![c] = Append(@, made + 1)]
    /\ IF exists[c]
       THEN queue' = [queue EXCEPT ![c] = Append(@, made + 1)] /\ mutex' = c
       ELSE UNCHANGED <<queue, mutex>>
    /\ UNCHANGED <<clientVars, exists, pending, requestC, readyC, pumpVars, readerVars,
                   historyVars>>

(* TryQueue, around the dispatcher's SendRequest: a request that is refused,
   by validation or since there is no queue for the client, leaves no trace. *)
TryQueue(c) ==
    /\ made < MaxRequests
    /\ mutex = NoClient
    /\ exists[c]
    /\ made' = made + 1
    /\ callbacks' = [callbacks EXCEPT ![c] = Append(@, made + 1)]
    /\ queue' = [queue EXCEPT ![c] = Append(@, made + 1)]
    /\ mutex' = c
    /\ UNCHANGED <<clientVars, exists, pending, requestC, readyC, pumpVars, readerVars,
                   historyVars>>

(* The mutex is held until there is room in requestChannel. *)
Signal ==
    /\ mutex # NoClient
    /\ Len(requestC) < RequestRoom
    /\ requestC' = Append(requestC, mutex)
    /\ mutex' = NoClient
    /\ UNCHANGED <<clientVars, made, callbacks, queueVars, readyC, pumpVars, readerVars,
                   historyVars>>

------------------------------------------------------------------------------
(* The dispatcher: messagePump *)

(* CompleteRequest by the pump, which blocks for ever if there is no room in
   the channel that it reads itself, and then onRequestCancel. *)
CancelFirst(c, tokens) ==
    /\ queue' = [queue EXCEPT ![c] = Tail(@)]
    /\ pending' = [pending EXCEPT ![c] = 0]
    /\ canceled' = [client |-> c, request |-> Head(queue[c])]
    /\ active' = [active EXCEPT ![c] = FALSE]
    /\ IF Len(tokens) < ReadyRoom
       THEN readyC' = Append(tokens, c) /\ ppc' = "cancel"
       ELSE readyC' = tokens /\ ppc' = "stuck"

(* The first request is transmitted, or canceled if it cannot be written;
   tokens are left in readyForDispatch. *)
Transmit(c, permit, tokens) ==
    \/ /\ ~permit \/ queue[c] = <<>>
       /\ active' = [active EXCEPT ![c] = ~permit]
       /\ readyC' = tokens
       /\ UNCHANGED <<queue, pending, canceled, ppc>>
    \/ /\ permit /\ queue[c] # <<>>
       /\ \/ /\ up[c]
             /\ pending' = [pending EXCEPT ![c] = Head(queue[c])]
             /\ active' = [active EXCEPT ![c] = TRUE]
             /\ readyC' = tokens
             /\ UNCHANGED <<queue, canceled, ppc>>
          \/ ~up[c] /\ CancelFirst(c, tokens)

PumpToken ==
    /\ ppc = "select"
    /\ requestC # <<>>
    /\ requestC' = Tail(requestC)
    /\ LET c == Head(requestC) IN Transmit(c, ~exists[c] \/ ~active[c], readyC)
    /\ UNCHANGED <<clientVars, backlogVars, exists, readerVars, historyVars>>

PumpReady ==
    /\ ppc = "select"
    /\ readyC # <<>>
    /\ Transmit(Head(readyC), TRUE, Tail(readyC))
    /\ UNCHANGED <<clientVars, backlogVars, exists, requestC, readerVars, historyVars>>

(* The timeout context of a client expires; there need not be a request for it. *)
PumpTimeout(c) ==
    /\ ppc = "select"
    /\ active[c]
    /\ \/ pending[c] # 0 /\ queue[c] # <<>> /\ CancelFirst(c, readyC)
       \/ /\ pending[c] = 0
          /\ active' = [active EXCEPT ![c] = FALSE]
          /\ UNCHANGED <<queue, pending, readyC, ppc, canceled>>
    /\ UNCHANGED <<clientVars, backlogVars, exists, requestC, readerVars, historyVars>>

(* handleCanceledRequest *)
PumpCancel ==
    /\ ppc = "cancel"
    /\ Dequeue(canceled.client, canceled.request)
    /\ canceled' = Nothing
    /\ ppc' = "select"
    /\ UNCHANGED <<clientVars, made, mutex, queueVars, requestC, readyC, active, readerVars, stale,
                   doubled, overlapped, unnoticed>>

------------------------------------------------------------------------------
(* The reader of a client: ocppMessageHandler *)

(* ParseMessage accepts an answer to the pending request. *)
Read(c) ==
    /\ rpc[c] = "read"
    /\ up[c]
    /\ pending[c] # 0
    /\ received' = [received EXCEPT ![c] = pending[c]]
    /\ rpc' = [rpc EXCEPT ![c] = "complete"]
    /\ UNCHANGED <<clientVars, backlogVars, queueVars, requestC, readyC, pumpVars, historyVars>>

(* CompleteRequest: the request may have timed out or its queue been removed
   meanwhile, which does not keep the answer from being passed on. *)
ReadComplete(c) ==
    /\ rpc[c] = "complete"
    /\ IF queue[c] # <<>> /\ Head(queue[c]) = received[c]
       THEN /\ queue' = [queue EXCEPT ![c] = Tail(@)]
            /\ pending' = [pending EXCEPT ![c] = 0]
            /\ rpc' = [rpc EXCEPT ![c] = "ready"]
            /\ UNCHANGED doubled
       ELSE /\ rpc' = [rpc EXCEPT ![c] = "dequeue"]
            /\ doubled' = TRUE
            /\ UNCHANGED <<queue, pending>>
    /\ UNCHANGED <<clientVars, backlogVars, exists, requestC, readyC, pumpVars, received, mispaired,
                   stale, overlapped, unnoticed>>


ReadReady(c) ==
    /\ rpc[c] = "ready"
    /\ Len(readyC) < ReadyRoom
    /\ readyC' = Append(readyC, c)
    /\ rpc' = [rpc EXCEPT ![c] = "dequeue"]
    /\ UNCHANGED <<clientVars, backlogVars, queueVars, requestC, pumpVars, received, historyVars>>

(* handleIncomingConfirmation and handleIncomingError *)
ReadDequeue(c) ==
    /\ rpc[c] = "dequeue"
    /\ Dequeue(c, received[c])
    /\ received' = [received EXCEPT ![c] = 0]
    /\ rpc' = [rpc EXCEPT ![c] = "read"]
    /\ UNCHANGED <<clientVars, made, mutex, queueVars, requestC, readyC, pumpVars, stale, doubled, overlapped,
                   unnoticed>>

------------------------------------------------------------------------------
(* Connections: onClientConnected, onClientDisconnected *)

Connect(c) ==
    /\ connects < MaxConnects
    /\ ~up[c]
    /\ connects' = connects + 1
    /\ up' = [up EXCEPT ![c] = TRUE]
    /\ exists' = [exists EXCEPT ![c] = TRUE]
    /\ overlapped' = (overlapped \/ dpc[c] # "idle")
    /\ unnoticed' = (unnoticed \/ active[c])
    /\ UNCHANGED <<flushes, dpc, backlogVars, queue, pending, requestC, readyC, pumpVars, readerVars,
                   mispaired, stale, doubled>>

(* The websocket server forgets the client and then calls the handler. *)
Disconnect(c) ==
    /\ up[c]
    /\ dpc[c] = "idle"
    /\ up' = [up EXCEPT ![c] = FALSE]
    /\ dpc' = [dpc EXCEPT ![c] = "delete"]
    /\ UNCHANGED <<flushes, connects, backlogVars, queueVars, requestC, readyC, pumpVars, readerVars,
                   historyVars>>

(* DeleteClient removes the queue ... *)
DeleteQueue(c) ==
    /\ dpc[c] = "delete"
    /\ exists' = [exists EXCEPT ![c] = FALSE]
    /\ queue' = [queue EXCEPT ![c] = <<>>]
    /\ dpc' = [dpc EXCEPT ![c] = "token"]
    /\ UNCHANGED <<flushes, connects, up, backlogVars, pending, requestC, readyC, pumpVars,
                   readerVars, historyVars>>

(* ... and tells the pump; ClearClientPendingRequest.  What comes next is the
   handler of 1.6, which calls all callbacks; without it, they stay. *)
DeleteToken(c) ==
    /\ dpc[c] = "token"
    /\ Len(requestC) < RequestRoom
    /\ requestC' = Append(requestC, c)
    /\ pending' = [pending EXCEPT ![c] = 0]
    /\ dpc' = [dpc EXCEPT ![c] = IF flushes THEN "flush" ELSE "idle"]
    /\ stale' = (stale \/ (~flushes /\ callbacks[c] # <<>>))
    /\ UNCHANGED <<flushes, connects, up, backlogVars, exists, queue, readyC, pumpVars, readerVars,
                   mispaired, doubled, overlapped, unnoticed>>

(* Mutant: one callback is called, not all. *)
FlushOne(c) ==
    /\ dpc[c] = "flush"
    /\ mutex = NoClient
    /\ callbacks' = [callbacks EXCEPT ![c] = IF @ = <<>> THEN @ ELSE Tail(@)]
    /\ dpc' = [dpc EXCEPT ![c] = "idle"]
    /\ UNCHANGED <<flushes, connects, up, made, mutex, queueVars, requestC, readyC, pumpVars,
                   readerVars, historyVars>>

(* SetChargePointDisconnectedHandler: Dequeue until there are no more. *)
Flush(c) ==
    /\ dpc[c] = "flush"
    /\ mutex = NoClient
    /\ callbacks' = [callbacks EXCEPT ![c] = IF @ = <<>> THEN @ ELSE Tail(@)]
    /\ dpc' = [dpc EXCEPT ![c] = IF callbacks[c] = <<>> THEN "idle" ELSE "flush"]
    /\ UNCHANGED <<flushes, connects, up, made, mutex, queueVars, requestC, readyC, pumpVars,
                   readerVars, historyVars>>

------------------------------------------------------------------------------
PumpHolds(c) == canceled.client = c
ReaderHolds(c) == rpc[c] \in {"ready", "dequeue"}
Cleaning(c) == dpc[c] \in {"token", "flush"}

(* Two goroutines have an outcome for the callbacks of a client. *)
Overtakable ==
    \E c \in Clients :
        \/ PumpHolds(c) /\ ReaderHolds(c)
        \/ Cleaning(c) /\ (PumpHolds(c) \/ ReaderHolds(c))

Pump == PumpToken \/ PumpReady \/ PumpCancel \/ \E c \in Clients : PumpTimeout(c)
Reader(c) == ReadComplete(c) \/ ReadReady(c) \/ ReadDequeue(c)
Cleaner(c) == DeleteQueue(c) \/ DeleteToken(c) \/ Flush(c)

Step(A) == A /\ raced' = (raced \/ Overtakable')

Next ==
    \/ Step(Signal)
    \/ Step(Pump)
    \/ \E c \in Clients :
         \/ Step(TryQueue(c))
         \/ Step(Read(c)) \/ Step(Reader(c))
         \/ Step(Connect(c)) \/ Step(Disconnect(c)) \/ Step(Cleaner(c))

(* Every goroutine that can go on does, and the timeouts fire.  Clients need
   not answer, connect or disconnect. *)
Fairness ==
    /\ WF_vars(Step(Signal))
    /\ WF_vars(Step(Pump))
    /\ \A c \in Clients : WF_vars(Step(Reader(c))) /\ WF_vars(Step(Cleaner(c)))

Spec == Init /\ [][Next]_vars /\ Fairness

------------------------------------------------------------------------------
Requests == 1..MaxRequests

Data ==
    /\ connects \in 0..MaxConnects
    /\ dpc \in [Clients -> {"idle", "delete", "token", "flush"}]
    /\ made \in 0..MaxRequests
    /\ callbacks \in [Clients -> Seq(Requests)]
    /\ mutex \in Clients \union {NoClient}
    /\ queue \in [Clients -> Seq(Requests)]
    /\ pending \in [Clients -> 0..MaxRequests]
    /\ requestC \in Seq(Clients) /\ Len(requestC) <= RequestRoom
    /\ readyC \in Seq(Clients) /\ Len(readyC) <= ReadyRoom
    /\ ppc \in {"select", "cancel", "stuck"}
    /\ canceled \in [client : Clients \union {NoClient}, request : 0..MaxRequests]
    /\ rpc \in [Clients -> {"read", "complete", "ready", "dequeue"}]
    /\ received \in [Clients -> 0..MaxRequests]
    /\ up \in [Clients -> BOOLEAN]
    /\ exists \in [Clients -> BOOLEAN]
    /\ active \in [Clients -> BOOLEAN]

Flags ==
    /\ flushes \in BOOLEAN /\ mispaired \in BOOLEAN
    /\ stale \in BOOLEAN /\ raced \in BOOLEAN
    /\ doubled \in BOOLEAN /\ overlapped \in BOOLEAN /\ unnoticed \in BOOLEAN

(* Every variable has a value of its type; no channel holds more than it can. *)
TypeOK == Data /\ Flags

Held(b) == IF b THEN 1 ELSE 0

(* The callback queue keeps step with the queue of the dispatcher: a client has
   one callback for every request queued and for every outcome that a goroutine
   has for it, unless callbacks of an earlier connection were left, a request
   was both canceled and answered, two goroutines had an outcome for the same
   client, or the client was back before the clean-up after it was over. *)
InStep ==
    ~stale /\ ~doubled /\ ~raced /\ ~overlapped =>
        \A c \in Clients :
            ~Cleaning(c) => Len(callbacks[c]) = Len(queue[c]) + Held(PumpHolds(c))
                                                + Held(ReaderHolds(c))

(* A callback is called with the outcome of its own request, with the same
   exceptions. *)
Paired == mispaired => stale \/ doubled \/ raced \/ overlapped

(* "client disconnected, no response received from client": with the handler of
   1.6, no callback is left once the clean-up after a client is over. *)
AllCalled ==
    flushes => \A c \in Clients : ~exists[c] /\ dpc[c] = "idle" => callbacks[c] = <<>>

Called(r) == \A c \in Clients : \A i \in DOMAIN callbacks[c] : callbacks[c][i] # r

(* "This result is propagated via a callback": the callback of every request
   that was accepted is called in the end. *)
CallbackCalled == \A r \in Requests : (made >= r) ~> Called(r)


=============================================================================
