------------------------ MODULE ServerDispatcherProofs ------------------------
(***************************************************************************)
(* What holds of the server dispatcher for every set of clients and        *)
(* senders, every capacity and every number of requests, transmissions,    *)
(* connections and stops.                                                  *)
(***************************************************************************)
EXTENDS ServerDispatcher, TLAPS

(* Steps that need arithmetic, sequences or functions say SMTT. *)
USE ZenonT(60)

(* What Push and a channel send (Append), and Pop and a channel receive     *)
(* (Tail) do to a sequence, index by index.                                 *)
LEMMA AppendProperties ==
    ASSUME NEW S, NEW q \in Seq(S), NEW x \in S
    PROVE  /\ Append(q, x) \in Seq(S)
           /\ Len(Append(q, x)) = Len(q) + 1
           /\ \A k \in 1..Len(q) : Append(q, x)[k] = q[k]
           /\ Append(q, x)[Len(q) + 1] = x
           /\ \A k \in 1..Len(q) + 1 : k \in 1..Len(q) \/ k = Len(q) + 1
    BY SMTT(30)

LEMMA RoomProperties ==
    ASSUME NEW S, NEW q \in Seq(S), NEW x \in S, NEW room \in Nat, Len(q) < room
    PROVE  Append(q, x) \in Seq(S) /\ Len(Append(q, x)) <= room
    BY SMTT(30)

LEMMA TailProperties ==
    ASSUME NEW S, NEW q \in Seq(S), q # <<>>
    PROVE  /\ Head(q) = q[1] /\ Head(q) \in S /\ 1 \in 1..Len(q)
           /\ Tail(q) \in Seq(S) /\ Len(Tail(q)) < Len(q)
           /\ \A k \in 1..Len(Tail(q)) : k + 1 \in 1..Len(q) /\ Tail(q)[k] = q[k + 1]
    BY SMTT(30)

LEMMA PopProperties ==
    ASSUME NEW S, NEW q \in Seq(S)
    PROVE  /\ Pop(q) \in Seq(S) /\ Len(Pop(q)) <= Len(q)
           /\ \A k \in 1..Len(Pop(q)) : k + 1 \in 1..Len(q) /\ Pop(q)[k] = q[k + 1]
    BY SMTT(30) DEF Pop

LEMMA PeekProperties ==
    ASSUME NEW S, NEW q \in Seq(S), ~IsEmpty(q)
    PROVE  Peek(q) = q[1] /\ 1 \in 1..Len(q) /\ Peek(q) \in S
    BY SMTT(30) DEF Peek, IsEmpty

-----------------------------------------------------------------------------
(* What the steps of each goroutine leave alone. *)

LEMMA OwnerFrame ==
    ASSUME PlacesOK, Start \/ StopCall \/ Stop
    PROVE  /\ \A s \in Senders : pc'[s] = pc[s]
           /\ pc'["pump"] = pc["pump"] \/ Start
           /\ UNCHANGED <<sendVars, mapVars, pendingRequest, chanVars, pumpVars,
                          callVars, linkVars, reader, crashed, eventVars>>
<1>1. \A s \in Senders : pc'[s] = pc[s]
  BY GoroutinesAssumption, SMTT(30) DEF Start, StopCall, Stop, Step, PlacesOK, Services
<1>2. pc'["pump"] = pc["pump"] \/ Start
  BY DEF StopCall, Stop, Step, PlacesOK, Services
<1> QED
  BY <1>1, <1>2 DEF Start, StopCall, Stop, data

LEMMA CreateFrame ==
    ASSUME NEW c \in Clients, Connect(c) \/ Create(c)
    PROVE  UNCHANGED <<pc, sendVars, elements, pendingRequest, chanVars, running,
                       pumpVars, callVars, remover, reader, crashed, eventVars>>
    BY DEF Connect, Create, CreateCheck, CreateClient, mapVars

LEMMA DeleteFrame ==
    ASSUME NEW c \in Clients, Disconnect(c) \/ Delete(c)
    PROVE  UNCHANGED <<pc, sendVars, elements, created, readyForDispatch, timerC,
                       running, pumpVars, callVars, connects, creator, reader,
                       crashed, sent, responded, canceled>>
    BY DEF Disconnect, Delete, DeleteClient, DeleteCheck, DeleteLock,
       DeleteSignal, ClearClientPendingRequest, mapVars, chanVars, eventVars

LEMMA SendFrame ==
    ASSUME PlacesOK, NEW s \in Senders, SendRequest(s)
    PROVE  /\ \A g \in Senders \cup Services : g # s => pc'[g] = pc[g]
           /\ pc'["pump"] = pc["pump"]
           /\ UNCHANGED <<queueMap, created, pendingRequest, readyForDispatch,
                          timerC, running, pumpVars, callVars, linkVars, reader,
                          crashed, eventVars>>
<1>1. /\ \A g \in Senders \cup Services : g # s => pc'[g] = pc[g]
      /\ pc'["pump"] = pc["pump"]
  BY GoroutinesAssumption, SMTT(30)
     DEF SendRequest, SendCheck, SendGet, SendPush, SendLock, SendSignal, Step,
         PlacesOK, Services
<1> QED
  BY <1>1 DEF SendRequest, SendCheck, SendGet, SendPush, SendLock,
     SendSignal, data, mapVars, chanVars

LEMMA CompleteFrame ==
    ASSUME PlacesOK, NEW p \in Completers, CompleteRequest(p)
    PROVE  /\ \A o \in Completers : o # p => completing'[o] = completing[o]
           /\ UNCHANGED <<pc, sendVars, queueMap, created, requestChannel, timerC,
                          running, pumpVars, bundle, linkVars, reader, crashed,
                          eventVars>>
<1>1. \A o \in Completers : o # p => completing'[o] = completing[o]
  BY DEF CompleteRequest, CompleteGet, CompletePeek, CompletePop,
         CompleteDelete, CompleteReady, PlacesOK
<1> QED
  BY <1>1 DEF CompleteRequest, CompleteGet, CompletePeek, CompletePop,
     CompleteDelete, CompleteReady, mapVars, chanVars

LEMMA PumpFrame ==
    ASSUME PlacesOK, messagePump
    PROVE  /\ \A s \in Senders : pc'[s] = pc[s]
           /\ completing["pump"] = "no"
           /\ UNCHANGED <<sendVars, elements, created, running, linkVars, reader,
                          responded>>
<1>1. PICK from, to : PumpStep(from, to)
  BY DEF messagePump, PumpLoop, PumpOnStop, PumpOnRequest, RequestGet,
     PumpOnTimer, TimeoutCheck, TimeoutGet, TimeoutPeek, TimeoutCancel,
     PumpOnReady, ReadyGet, PumpCheck, DispatchGet, DispatchPeek, DispatchAdd,
     DispatchWrite, DispatchCancel
<1>2. /\ \A s \in Senders : pc'[s] = pc[s]
      /\ completing["pump"] = "no"
  BY <1>1, GoroutinesAssumption DEF PumpStep, Step, PlacesOK, Services
<1>3. UNCHANGED <<sendVars, elements, created, running, linkVars, reader, responded>>
  BY DEF messagePump, PumpLoop, PumpOnStop, PumpOnRequest, RequestGet,
     PumpOnTimer, TimeoutCheck, TimeoutGet, TimeoutPeek, TimeoutCancel,
     PumpOnReady, ReadyGet, PumpCheck, DispatchGet, DispatchPeek, DispatchAdd,
     DispatchWrite, DispatchCancel, data, mapVars, eventVars
<1> QED
  BY <1>2, <1>3

LEMMA WaiterFrame ==
    ASSUME NEW n \in Sends, Deadline(n) \/ waitForTimeout(n)
    PROVE  UNCHANGED <<pc, sendVars, mapVars, pendingRequest, requestChannel,
                       readyForDispatch, running, localVars, clientContextMap,
                       callVars, linkVars, reader, crashed, eventVars>>
    BY DEF Deadline, waitForTimeout, WaitStopped, WaitLock, WaitSignal,
       chanVars

LEMMA ReaderFrame ==
    ASSUME PlacesOK, NEW c \in Clients,
           ocppMessageHandler(c) \/ \E id \in Ids : Receive(c, id)
    PROVE  /\ \A o \in Completers : o # c => completing'[o] = completing[o]
           /\ \A o \in Clients : o # c => reader'[o] = reader[o]
           /\ UNCHANGED <<pc, sendVars, mapVars, pendingRequest, chanVars, running,
                          pumpVars, held, linkVars, crashed, sent, canceled>>
<1>1. /\ \A o \in Completers : o # c => completing'[o] = completing[o]
      /\ \A o \in Clients : o # c => reader'[o] = reader[o]
  BY DEF ocppMessageHandler, ParseMessage, Deliver, Receive, PlacesOK, eventVars
<1> QED
  BY <1>1 DEF ocppMessageHandler, ParseMessage, Deliver, Receive, eventVars

-----------------------------------------------------------------------------
(* Why the types hold: each goroutine has in its variables what its place   *)
(* needs.                                                                   *)

Accepted == 1..nextId

SendersReady ==
    \A s \in Senders :
        /\ pc[s] \in {"get", "push", "lock", "signal"} => target[s].client \in Clients
        /\ pc[s] = "push" => target[s].queue \in 1..created

(* The pump knows the client it works for, the queue it peeks into and the  *)
(* request it handles; it is inside CompleteRequest only where it calls it. *)
PumpReady ==
    /\ running = "new" => pc["pump"] = "idle"
    /\ pc["pump"] \notin {"idle", "loop", "select", "done"} => clientID \in Clients
    /\ completing["pump"] # "no" => pc["pump"] \in {"cancel", "fail"}
    /\ held["pump"] # 0 =>
          pc["pump"] \in {"expire", "peek"} \/ completing["pump"] \in {"peek", "pop"}
    /\ ~crashed =>
          /\ pc["pump"] \in {"expire", "peek"} => held["pump"] # 0
          /\ pc["pump"] \in {"add", "write", "fail", "cancel"} =>
                bundle["pump"] \in Accepted

ReadersReady ==
    \A c \in Clients :
        /\ completing[c] # "no" => reader[c] = "deliver"
        /\ reader[c] # "idle" => bundle[c] \in Ids
        /\ held[c] # 0 => completing[c] \in {"peek", "pop"}

WaitersReady == \A n \in Sends : waiter[n] # "none" => n \in 1..Len(sent)

(* Requests are queued, and transmitted, after they are accepted, and a     *)
(* queue holds the requests that were pushed to it.                         *)
RequestsKnown ==
    /\ \A id \in Accepted : dest[id].client \in Clients /\ dest[id].queue \in 1..created
    /\ \A i \in 1..Len(sent) : sent[i] \in Accepted
    /\ \A k \in Queues : \A i \in 1..Len(elements[k]) :
          elements[k][i] \in Accepted /\ dest[elements[k][i]].queue = k

Ready ==
    /\ SendersReady /\ PumpReady /\ ReadersReady /\ WaitersReady
    /\ RequestsKnown
Typed == TypeOK /\ Ready

(* A step of messagePump moves the pump, and only the pump. *)
LEMMA PlacesStep == ASSUME PlacesOK, Next PROVE PlacesOK'
<1>1. CASE Start \/ StopCall \/ Stop
  <2>1. UNCHANGED <<completing, reader, creator, remover, waiter>>
    BY <1>1, OwnerFrame DEF callVars, linkVars, pumpVars, ctxVars
  <2> QED
    BY <1>1, <2>1 DEF Start, StopCall, Stop, Step, PlacesOK, data, Services
<1>2. ASSUME NEW c \in Clients, Connect(c) \/ Create(c) PROVE PlacesOK'
  <2>1. UNCHANGED <<pc, running, completing, reader, remover, waiter>>
    BY <1>2, CreateFrame DEF callVars, pumpVars, ctxVars
  <2>2. creator' \in [Clients -> {"idle", "check", "create"}]
    BY <1>2, SMTT(30) DEF Connect, Create, CreateCheck, CreateClient, PlacesOK
  <2> QED
    BY <2>1, <2>2 DEF PlacesOK
<1>3. ASSUME NEW c \in Clients, Disconnect(c) \/ Delete(c) PROVE PlacesOK'
  <2>1. UNCHANGED <<pc, running, completing, reader, creator, waiter>>
    BY <1>3, DeleteFrame DEF callVars, pumpVars, ctxVars
  <2>2. remover' \in [Clients -> {"idle", "remove", "check", "lock", "signal", "clear"}]
    BY <1>3, SMTT(30) DEF Disconnect, Delete, DeleteClient, DeleteCheck, DeleteLock,
       DeleteSignal, ClearClientPendingRequest, RemoverStep, PlacesOK
  <2> QED
    BY <2>1, <2>2 DEF PlacesOK
<1>4. ASSUME NEW s \in Senders, SendRequest(s) PROVE PlacesOK'
  <2>1. UNCHANGED <<running, completing, reader, creator, remover, waiter>>
    BY <1>4, SendFrame DEF callVars, linkVars, pumpVars, ctxVars
  <2> QED
    BY <1>4, <2>1, SMTT(30) DEF SendRequest, SendCheck, SendGet, SendPush, SendLock,
       SendSignal, Step, PlacesOK
<1>5. ASSUME NEW p \in Completers, CompleteRequest(p) PROVE PlacesOK'
  <2>1. UNCHANGED <<pc, running, reader, creator, remover, waiter>>
    BY <1>5, CompleteFrame DEF linkVars, pumpVars, ctxVars
  <2> QED
    BY <1>5, <2>1 DEF CompleteRequest, CompleteGet, CompletePeek, CompletePop,
       CompleteDelete, CompleteReady, PlacesOK
<1>6. CASE messagePump
  <2>1. UNCHANGED <<running, reader, creator, remover>>
    BY <1>6, PumpFrame DEF linkVars
  <2> USE DEF PlacesOK, PumpStep, Step, Services, data, callVars, pumpVars,
          ctxVars, Completers
  <2>2. CASE PumpLoop \/ PumpOnStop \/ PumpOnRequest \/ RequestGet
    BY <2>1, <2>2, SMTT(30) DEF PumpLoop, PumpOnStop, PumpOnRequest, RequestGet, Canceled
  <2>7. CASE PumpOnTimer \/ PumpOnReady \/ ReadyGet \/ PumpCheck
    BY <2>1, <2>7, SMTT(30) DEF PumpOnTimer, PumpOnReady, ReadyGet, PumpCheck, Canceled
  <2>3. CASE TimeoutCheck \/ TimeoutGet
    BY <2>1, <2>3, SMTT(30) DEF TimeoutCheck, TimeoutGet
  <2>4. CASE TimeoutPeek \/ TimeoutCancel
    BY <2>1, <2>4 DEF TimeoutPeek, TimeoutCancel
  <2>5. CASE DispatchGet \/ DispatchPeek \/ DispatchAdd \/ DispatchCancel
    BY <2>1, <2>5, SMTT(30) DEF DispatchGet, DispatchPeek, DispatchAdd, DispatchCancel
  <2>6. CASE DispatchWrite
    <3>1. pc' = [pc EXCEPT !["pump"] = "loop"] \/ pc' = [pc EXCEPT !["pump"] = "fail"]
      BY <2>6 DEF DispatchWrite
    <3>2. completing' = completing \/ completing' = [completing EXCEPT !["pump"] = "get"]
      BY <2>6 DEF DispatchWrite
    <3>3. waiter' = waiter \/ \E n : \/ waiter' = [waiter EXCEPT ![n] = "wait"]
                                   \/ waiter' = [waiter EXCEPT ![n] = "done"]
      BY <2>6 DEF DispatchWrite
    <3>4. waiter' \in [Sends -> {"none", "wait", "lock", "signal", "done"}]
      BY <3>3
    <3>5. completing' \in [Completers -> {"no", "get", "peek", "pop", "delete", "ready"}]
      BY <3>2
    <3>6. pc' \in [Senders \cup Services ->
             {"idle", "get", "push", "lock", "signal", "loop", "select", "done",
              "request", "timeout", "timedout", "expire", "cancel", "ready",
              "check", "peek", "add", "write", "fail"}]
      BY <3>1, SMTT(30)
    <3> QED
      BY <2>1, <3>4, <3>5, <3>6
  <2> QED
    BY <1>6, <2>2, <2>3, <2>4, <2>5, <2>6, <2>7 DEF messagePump
<1>7. ASSUME NEW n \in Sends, Deadline(n) \/ waitForTimeout(n) PROVE PlacesOK'
  <2>1. UNCHANGED <<pc, running, completing, reader, creator, remover>>
    BY <1>7, WaiterFrame DEF callVars, linkVars
  <2> QED
    BY <1>7, <2>1 DEF Deadline, waitForTimeout, WaitStopped, WaitLock, WaitSignal,
       WaiterStep, PlacesOK
<1>8. ASSUME NEW c \in Clients,
             ocppMessageHandler(c) \/ \E id \in Ids : Receive(c, id)
      PROVE  PlacesOK'
  <2>1. UNCHANGED <<pc, running, creator, remover, waiter>>
    BY <1>8, ReaderFrame DEF linkVars, pumpVars, ctxVars
  <2> QED
    BY <1>8, <2>1, SMTT(30) DEF ocppMessageHandler, ParseMessage, Deliver, Receive, PlacesOK,
       Completers
<1> QED
  BY <1>1, <1>2, <1>3, <1>4, <1>5, <1>6, <1>7, <1>8 DEF Next, QuietNext

LEMMA FlagsStep == ASSUME PlacesOK, FlagsOK, Next PROVE FlagsOK'
<1>1. CASE Start \/ StopCall \/ Stop
  BY <1>1, OwnerFrame DEF FlagsOK, linkVars, pumpVars, localVars
<1>2. ASSUME NEW c \in Clients, Connect(c) \/ Create(c) PROVE FlagsOK'
  <2>1. UNCHANGED <<rdy, crashed>>
    BY <1>2, CreateFrame DEF pumpVars, localVars
  <2> QED
    BY <1>2, <2>1 DEF Connect, Create, CreateCheck, CreateClient, FlagsOK
<1>3. ASSUME NEW c \in Clients, Disconnect(c) \/ Delete(c) PROVE FlagsOK'
  <2>1. UNCHANGED <<rdy, crashed>>
    BY <1>3, DeleteFrame DEF pumpVars, localVars
  <2> QED
    BY <1>3, <2>1 DEF Disconnect, Delete, DeleteClient, DeleteCheck, DeleteLock,
       DeleteSignal, ClearClientPendingRequest, FlagsOK
<1>4. ASSUME NEW s \in Senders, SendRequest(s) PROVE FlagsOK'
  BY <1>4, SendFrame DEF FlagsOK, linkVars, pumpVars, localVars
<1>5. ASSUME NEW p \in Completers, CompleteRequest(p) PROVE FlagsOK'
  BY <1>5, CompleteFrame DEF FlagsOK, linkVars, pumpVars, localVars
<1>6. CASE messagePump
  <2>1. UNCHANGED linkUp
    BY <1>6, PumpFrame DEF linkVars
  <2> USE DEF FlagsOK, data, pumpVars, localVars
  <2>2. CASE \/ PumpLoop \/ PumpOnStop \/ PumpOnRequest \/ RequestGet
             \/ PumpOnTimer \/ PumpOnReady \/ ReadyGet \/ PumpCheck
    BY <2>1, <2>2 DEF PumpLoop, PumpOnStop, PumpOnRequest, RequestGet,
       PumpOnTimer, PumpOnReady, ReadyGet, PumpCheck
  <2>3. CASE TimeoutCheck \/ TimeoutGet \/ TimeoutPeek \/ TimeoutCancel
    BY <2>1, <2>3 DEF TimeoutCheck, TimeoutGet, TimeoutPeek, TimeoutCancel
  <2>4. CASE \/ DispatchGet \/ DispatchPeek \/ DispatchAdd \/ DispatchWrite
             \/ DispatchCancel
    BY <2>1, <2>4 DEF DispatchGet, DispatchPeek, DispatchAdd,
       DispatchWrite, DispatchCancel
  <2> QED
    BY <1>6, <2>2, <2>3, <2>4 DEF messagePump
<1>7. ASSUME NEW n \in Sends, Deadline(n) \/ waitForTimeout(n) PROVE FlagsOK'
  BY <1>7, WaiterFrame DEF FlagsOK, linkVars, localVars
<1>8. ASSUME NEW c \in Clients,
             ocppMessageHandler(c) \/ \E id \in Ids : Receive(c, id)
      PROVE  FlagsOK'
  BY <1>8, ReaderFrame DEF FlagsOK, linkVars, pumpVars, localVars
<1> QED
  BY <1>1, <1>2, <1>3, <1>4, <1>5, <1>6, <1>7, <1>8 DEF Next, QuietNext

(* Only clients' IDs go through the channels. *)
LEMMA ChannelsStep == ASSUME Typed, Next PROVE ChannelsOK'
<1> USE DEF ChannelsOK, chanVars
<1> ChannelsOK /\ PlacesOK
  BY DEF Typed, TypeOK
<1> USE CapacityAssumption
<1>1. CASE Start \/ StopCall \/ Stop
  BY <1>1, OwnerFrame DEF pumpVars, localVars
<1>2. ASSUME NEW c \in Clients, Connect(c) \/ Create(c) PROVE ChannelsOK'
  BY <1>2, CreateFrame DEF pumpVars, localVars
<1>3. ASSUME NEW c \in Clients, Disconnect(c) \/ Delete(c) PROVE ChannelsOK'
  <2>1. UNCHANGED <<readyForDispatch, timerC, clientID>>
    BY <1>3, DeleteFrame DEF pumpVars, localVars
  <2>2. \/ UNCHANGED requestChannel
        \/ /\ Len(requestChannel) < RequestRoom
           /\ requestChannel' = Append(requestChannel, c)
    BY <1>3 DEF Disconnect, Delete, DeleteClient, DeleteCheck, DeleteLock,
       DeleteSignal, ClearClientPendingRequest, HasRoom
  <2>3. requestChannel' \in Seq(Clients) /\ Len(requestChannel') <= RequestRoom
    BY <2>2, RoomProperties
  <2> QED
    BY <2>1, <2>3
<1>4. ASSUME NEW s \in Senders, SendRequest(s) PROVE ChannelsOK'
  <2>1. UNCHANGED <<readyForDispatch, timerC, clientID>>
    BY <1>4, SendFrame DEF pumpVars, localVars
  <2>2. \/ UNCHANGED requestChannel
        \/ /\ pc[s] = "signal" /\ Len(requestChannel) < RequestRoom
           /\ requestChannel' = Append(requestChannel, target[s].client)
    BY <1>4 DEF SendRequest, SendCheck, SendGet, SendPush, SendLock, SendSignal,
       Step, HasRoom, data
  <2>3. pc[s] = "signal" => target[s].client \in Clients
    BY DEF Typed, Ready, SendersReady
  <2>4. requestChannel' \in Seq(Clients) /\ Len(requestChannel') <= RequestRoom
    BY <2>2, <2>3, RoomProperties
  <2> QED
    BY <2>1, <2>4
<1>5. ASSUME NEW p \in Completers, CompleteRequest(p) PROVE ChannelsOK'
  <2>1. UNCHANGED <<requestChannel, timerC, clientID>>
    BY <1>5, CompleteFrame DEF pumpVars, localVars
  <2>2. \/ UNCHANGED readyForDispatch
        \/ /\ completing[p] # "no" /\ Len(readyForDispatch) < 1
           /\ readyForDispatch' = Append(readyForDispatch, ClientOf(p))
    BY <1>5 DEF CompleteRequest, CompleteGet, CompletePeek, CompletePop,
       CompleteDelete, CompleteReady, HasRoom
  <2>3. completing[p] # "no" => ClientOf(p) \in Clients
    BY DEF Typed, Ready, PumpReady, ClientOf, Completers
  <2>4. readyForDispatch' \in Seq(Clients) /\ Len(readyForDispatch') <= 1
    BY <2>2, <2>3, RoomProperties
  <2> QED
    BY <2>1, <2>4
<1>6. CASE messagePump
  <2>1. CASE PumpOnRequest
    BY <2>1, TailProperties, SMTT(30) DEF PumpOnRequest
  <2>2. CASE PumpOnTimer
    BY <2>2, TailProperties, SMTT(30) DEF PumpOnTimer
  <2>3. CASE PumpOnReady
    BY <2>3, TailProperties, SMTT(30) DEF PumpOnReady
  <2>4. CASE \/ PumpLoop \/ PumpOnStop \/ RequestGet \/ ReadyGet \/ PumpCheck
             \/ TimeoutCheck \/ TimeoutGet \/ TimeoutPeek \/ TimeoutCancel
    <3>1. UNCHANGED <<requestChannel, readyForDispatch, timerC, clientID>>
      BY <2>4 DEF PumpLoop, PumpOnStop, RequestGet, ReadyGet, PumpCheck,
         TimeoutCheck, TimeoutGet, TimeoutPeek, TimeoutCancel, data, pumpVars, localVars
    <3> QED
      BY <3>1
  <2>5. CASE \/ DispatchGet \/ DispatchPeek \/ DispatchAdd \/ DispatchWrite
             \/ DispatchCancel
    <3>1. UNCHANGED <<requestChannel, readyForDispatch, timerC, clientID>>
      BY <2>5 DEF DispatchGet, DispatchPeek, DispatchAdd, DispatchWrite,
         DispatchCancel, pumpVars, localVars
    <3> QED
      BY <3>1
  <2> QED
    BY <1>6, <2>1, <2>2, <2>3, <2>4, <2>5 DEF messagePump
<1>7. ASSUME NEW n \in Sends, Deadline(n) \/ waitForTimeout(n) PROVE ChannelsOK'
  <2>1. UNCHANGED <<requestChannel, readyForDispatch, clientID>>
    BY <1>7, WaiterFrame DEF localVars
  <2>2. \/ UNCHANGED timerC
        \/ /\ waiter[n] = "signal" /\ Len(timerC) < TimerRoom
           /\ timerC' = Append(timerC, dest[sent[n]].client)
    BY <1>7 DEF Deadline, waitForTimeout, WaitStopped, WaitLock, WaitSignal,
       WaiterStep, HasRoom
  <2>3. waiter[n] = "signal" => dest[sent[n]].client \in Clients
    BY DEF Typed, Ready, WaitersReady, RequestsKnown
  <2>4. timerC' \in Seq(Clients) /\ Len(timerC') <= TimerRoom
    BY <2>2, <2>3, RoomProperties
  <2> QED
    BY <2>1, <2>4
<1>8. ASSUME NEW c \in Clients,
             ocppMessageHandler(c) \/ \E id \in Ids : Receive(c, id)
      PROVE  ChannelsOK'
  BY <1>8, ReaderFrame DEF pumpVars, localVars
<1> QED
  BY <1>1, <1>2, <1>3, <1>4, <1>5, <1>6, <1>7, <1>8 DEF Next, QuietNext

(* How a step changes the queue map: a queue is new when a client gets it,  *)
(* and entries are only ever set back to none.                              *)
LEMMA MapKinds ==
    ASSUME Typed, Next
    PROVE  \/ UNCHANGED <<queueMap, created>>
           \/ /\ created' = created /\ queueMap' \in [Clients -> 0..created]
              /\ \A c \in Clients : queueMap'[c] \in {0, queueMap[c]}
           \/ \E c \in Clients :
                 /\ Create(c) /\ queueMap[c] = 0 /\ created' = created + 1
                 /\ queueMap' = [queueMap EXCEPT ![c] = created + 1]
<1> DEFINE Goal ==
           \/ UNCHANGED <<queueMap, created>>
           \/ /\ created' = created /\ queueMap' \in [Clients -> 0..created]
              /\ \A c \in Clients : queueMap'[c] \in {0, queueMap[c]}
           \/ \E c \in Clients :
                 /\ Create(c) /\ queueMap[c] = 0 /\ created' = created + 1
                 /\ queueMap' = [queueMap EXCEPT ![c] = created + 1]
<1>0. PlacesOK /\ queueMap \in [Clients -> 0..created] /\ created \in Nat
  BY BoundsAssumption, SMTT(30) DEF Typed, TypeOK, QueuesOK
<1>1. CASE Start \/ StopCall \/ Stop
  BY <1>0, <1>1, OwnerFrame DEF mapVars
<1>2. ASSUME NEW c \in Clients, Connect(c) \/ Create(c) PROVE Goal
  BY <1>2 DEF Connect, Create, CreateCheck, CreateClient, mapVars
<1>3. ASSUME NEW c \in Clients, Disconnect(c) \/ Delete(c) PROVE Goal
  <2>1. queueMap' = queueMap \/ queueMap' = [queueMap EXCEPT ![c] = 0]
    BY <1>3 DEF Disconnect, Delete, DeleteClient, DeleteCheck, DeleteLock,
       DeleteSignal, ClearClientPendingRequest, mapVars
  <2> QED
    BY <1>0, <1>3, <2>1, DeleteFrame, SMTT(30)
<1>4. CASE \E s \in Senders : SendRequest(s)
  BY <1>0, <1>4, SendFrame
<1>5. CASE \E p \in Completers : CompleteRequest(p)
  BY <1>0, <1>5, CompleteFrame
<1>6. CASE messagePump
  <2>1. queueMap' = queueMap \/ queueMap' = [c \in Clients |-> 0]
    BY <1>6 DEF messagePump, PumpLoop, PumpOnStop, PumpOnRequest, RequestGet,
       PumpOnTimer, TimeoutCheck, TimeoutGet, TimeoutPeek, TimeoutCancel,
       PumpOnReady, ReadyGet, PumpCheck, DispatchGet, DispatchPeek, DispatchAdd,
       DispatchWrite, DispatchCancel, data, mapVars
  <2> QED
    BY <1>0, <1>6, <2>1, PumpFrame, SMTT(30)
<1>7. CASE \E n \in Sends : Deadline(n) \/ waitForTimeout(n)
  BY <1>7, WaiterFrame DEF mapVars
<1>8. CASE \E c \in Clients : ocppMessageHandler(c) \/ \E id \in Ids : Receive(c, id)
  BY <1>0, <1>8, ReaderFrame DEF mapVars
<1> QED
  BY <1>1, <1>2, <1>3, <1>4, <1>5, <1>6, <1>7, <1>8 DEF Next, QuietNext

(* How a step changes the queues: a sender pushes a new request, or         *)
(* CompleteRequest pops.                                                    *)
Pushes(s) ==
    LET k == target[s].queue IN
    /\ pc[s] = "push" /\ pc'[s] = "lock" /\ target' = target
    /\ nextId < MaxRequests /\ nextId' = nextId + 1
    /\ ~IsFull(elements[k], QueueCapacity)
    /\ elements' = [elements EXCEPT ![k] = Append(@, nextId + 1)]
    /\ dest' = [dest EXCEPT ![nextId + 1] = target[s]]
Pops(p) ==
    /\ completing[p] = "pop" /\ completing'[p] = "delete"
    /\ elements' = [elements EXCEPT ![held[p]] = Pop(@)]
    /\ UNCHANGED <<nextId, dest>>

LEMMA RequestKinds ==
    ASSUME PlacesOK, Next
    PROVE  \/ UNCHANGED <<elements, nextId, dest>>
           \/ \E s \in Senders : SendRequest(s) /\ Pushes(s)
           \/ \E p \in Completers : CompleteRequest(p) /\ Pops(p)
<1> DEFINE Goal == \/ UNCHANGED <<elements, nextId, dest>>
                   \/ \E s \in Senders : SendRequest(s) /\ Pushes(s)
                   \/ \E p \in Completers : CompleteRequest(p) /\ Pops(p)
<1> USE DEF sendVars, mapVars
<1>1. CASE Start \/ StopCall \/ Stop
  BY <1>1, OwnerFrame
<1>2. CASE \E c \in Clients : Connect(c) \/ Create(c)
  BY <1>2, CreateFrame
<1>3. CASE \E c \in Clients : Disconnect(c) \/ Delete(c)
  BY <1>3, DeleteFrame
<1>4. ASSUME NEW s \in Senders, SendRequest(s) PROVE Goal
  <2>1. CASE SendPush(s)
    BY <1>4, <2>1 DEF SendPush, Pushes, Push, Step, PlacesOK
  <2> QED
    BY <1>4, <2>1
       DEF SendRequest, SendCheck, SendGet, SendLock, SendSignal, data
<1>5. ASSUME NEW p \in Completers, CompleteRequest(p) PROVE Goal
  <2>1. CASE CompletePop(p)
    BY <1>5, <2>1 DEF CompletePop, Pops, PlacesOK
  <2> QED
    BY <1>5, <2>1 DEF CompleteRequest, CompleteGet, CompletePeek,
       CompleteDelete, CompleteReady
<1>6. CASE messagePump
  BY <1>6, PumpFrame
<1>7. CASE \E n \in Sends : Deadline(n) \/ waitForTimeout(n)
  BY <1>7, WaiterFrame
<1>8. CASE \E c \in Clients : ocppMessageHandler(c) \/ \E id \in Ids : Receive(c, id)
  BY <1>8, ReaderFrame
<1> QED
  BY <1>1, <1>2, <1>3, <1>4, <1>5, <1>6, <1>7, <1>8 DEF Next, QuietNext

(* Queues and requests only become more, and where a request goes is        *)
(* settled when it is accepted.                                             *)
LEMMA Growth ==
    ASSUME Typed, Next
    PROVE  /\ created \in Nat /\ created' \in Nat /\ created <= created'
           /\ nextId \in Nat /\ nextId' \in Nat /\ nextId <= nextId'
           /\ \A id \in Accepted : id \in Accepted' /\ dest'[id] = dest[id]
<1>1. created \in Nat /\ nextId \in Nat /\ dest = [id \in Ids |-> dest[id]]
  BY BoundsAssumption, SMTT(30) DEF Typed, TypeOK, QueuesOK, RequestsOK
<1>2. created' \in Nat /\ created <= created'
  BY <1>1, MapKinds, SMTT(30)
<1>3. PlacesOK
  BY DEF Typed, TypeOK
<1>4. CASE UNCHANGED <<elements, nextId, dest>>
  BY <1>1, <1>2, <1>4, SMTT(30) DEF Accepted
<1>5. ASSUME NEW s \in Senders, Pushes(s)
      PROVE  /\ nextId' = nextId + 1
             /\ \A id \in Accepted : id \in Accepted' /\ dest'[id] = dest[id]
  BY <1>1, <1>5, BoundsAssumption, SMTT(30) DEF Pushes, Accepted, Ids
<1>6. ASSUME NEW p \in Completers, Pops(p)
      PROVE  UNCHANGED <<nextId, dest>>
  BY <1>6 DEF Pops
<1> QED
  BY <1>1, <1>2, <1>3, <1>4, <1>5, <1>6, RequestKinds, SMTT(30) DEF Accepted

(* A goroutine inside CompleteRequest knows its client, and the pump does   *)
(* wherever it looks at the queue map.                                      *)
LEMMA KnowsClient ==
    ASSUME Typed
    PROVE  /\ \A p \in Completers : completing[p] # "no" => ClientOf(p) \in Clients
           /\ pc["pump"] \notin {"idle", "loop", "select", "done"} => clientID \in Clients
    BY DEF Typed, Ready, PumpReady, ClientOf, Completers

LEMMA QueuesStep ==
    ASSUME Typed, Next, created' \in 0..connects', connects' \in 0..MaxConnects
    PROVE  QueuesOK'
<1>0. PlacesOK /\ QueuesOK
  BY DEF Typed, TypeOK
<1> DEFINE Places == [client : Clients \cup {None}, queue : 0..MaxConnects]
<1>2. queueMap' \in [Clients -> 0..created']
  BY <1>0, Growth, MapKinds, SMTT(30) DEF QueuesOK
<1>3. 0..created \subseteq 0..created'
  BY Growth, SMTT(30)
<1>4. target' \in [Senders -> Places]
  <2>1. ASSUME NEW s \in Senders, SendRequest(s) PROVE target' \in [Senders -> Places]
    <3>1. CASE SendCheck(s)
      BY <1>0, <3>1 DEF SendCheck, QueuesOK
    <3>2. CASE SendGet(s)
      <4>1. target[s].client \in Clients
        BY <3>2 DEF Typed, Ready, SendersReady, SendGet, Step
      <4>2. queueMap[target[s].client] \in 0..MaxConnects
        BY <1>0, <4>1, BoundsAssumption, SMTT(30) DEF QueuesOK
      <4> QED
        BY <1>0, <3>2, <4>2, BoundsAssumption DEF SendGet, QueuesOK, Nowhere
    <3>3. CASE SendPush(s) \/ SendLock(s) \/ SendSignal(s)
      <4>1. target' = target \/ target' = [target EXCEPT ![s] = Nowhere]
        BY <3>3 DEF SendPush, SendLock, SendSignal, data, sendVars
      <4>2. Nowhere \in Places
        BY BoundsAssumption, SMTT(30) DEF Nowhere
      <4> QED
        BY <1>0, <4>1, <4>2 DEF QueuesOK
    <3> QED
      BY <2>1, <3>1, <3>2, <3>3 DEF SendRequest
  <2>2. (\E s \in Senders : SendRequest(s)) \/ UNCHANGED target
    BY <1>0, OwnerFrame, CreateFrame, DeleteFrame, CompleteFrame, PumpFrame,
       WaiterFrame, ReaderFrame DEF Next, QuietNext, sendVars
  <2> QED
    BY <1>0, <2>1, <2>2 DEF QueuesOK
<1>5. dest' \in [Ids -> Places]
  <2>1. ASSUME NEW s \in Senders, Pushes(s) PROVE dest' \in [Ids -> Places]
    BY <1>0, <2>1 DEF Pushes, QueuesOK
  <2> QED
    BY <1>0, <2>1, RequestKinds DEF QueuesOK, Pops
<1>6. clientQueue' \in 0..created'
  <2>1. CASE messagePump
    <3>1. UNCHANGED clientQueue \/ RequestGet \/ ReadyGet
      BY <2>1 DEF messagePump, PumpLoop, PumpOnStop, PumpOnRequest,
         PumpOnTimer, TimeoutCheck, TimeoutGet, TimeoutPeek, TimeoutCancel,
         PumpOnReady, PumpCheck, DispatchGet, DispatchPeek, DispatchAdd,
         DispatchWrite, DispatchCancel, data, pumpVars, localVars
    <3>2. CASE RequestGet \/ ReadyGet
      <4>1. clientQueue' = queueMap[clientID] /\ pc["pump"] \in {"request", "ready"}
        BY <3>2 DEF RequestGet, ReadyGet, PumpStep, Step
      <4> QED
        BY <1>0, <1>3, <4>1, KnowsClient DEF QueuesOK
    <3> QED
      BY <1>0, <1>3, <3>1, <3>2 DEF QueuesOK
  <2>2. messagePump \/ UNCHANGED clientQueue
    BY <1>0, OwnerFrame, CreateFrame, DeleteFrame, SendFrame, CompleteFrame,
       WaiterFrame, ReaderFrame DEF Next, QuietNext, pumpVars, localVars
  <2> QED
    BY <1>0, <1>3, <2>1, <2>2 DEF QueuesOK
<1>7. held' \in [Completers -> 0..created']
  <2>0. held \in [Completers -> 0..created'] /\ 0 \in 0..created'
    BY <1>0, <1>3, Growth, SMTT(30) DEF QueuesOK
  <2>1. CASE messagePump
    <3>1. \/ UNCHANGED held \/ held' = [held EXCEPT !["pump"] = 0]
          \/ /\ pc["pump"] \in {"timedout", "get"}
             /\ held' = [held EXCEPT !["pump"] = queueMap[clientID]]
      BY <2>1 DEF messagePump, PumpLoop, PumpOnStop, PumpOnRequest, RequestGet,
         PumpOnTimer, TimeoutCheck, TimeoutGet, TimeoutPeek, TimeoutCancel,
         PumpOnReady, ReadyGet, PumpCheck, DispatchGet, DispatchPeek, DispatchAdd,
         DispatchWrite, DispatchCancel, data, callVars, PumpStep, Step
    <3>2. pc["pump"] \in {"timedout", "get"} => queueMap[clientID] \in 0..created'
      BY <1>0, <1>3, KnowsClient DEF QueuesOK
    <3> QED
      BY <2>0, <3>1, <3>2
  <2>2. ASSUME NEW p \in Completers, CompleteRequest(p)
        PROVE  held' \in [Completers -> 0..created']
    <3>1. \/ UNCHANGED held \/ held' = [held EXCEPT ![p] = 0]
          \/ /\ completing[p] = "get"
             /\ held' = [held EXCEPT ![p] = queueMap[ClientOf(p)]]
          \/ held' = [held EXCEPT ![p] = held[p]]
      BY <2>2 DEF CompleteRequest, CompleteGet, CompletePeek, CompletePop,
         CompleteDelete, CompleteReady
    <3>2. completing[p] = "get" => queueMap[ClientOf(p)] \in 0..created'
      BY <1>0, <1>3, KnowsClient DEF QueuesOK
    <3> QED
      BY <2>0, <3>1, <3>2
  <2>3. messagePump \/ (\E p \in Completers : CompleteRequest(p)) \/ UNCHANGED held
    BY <1>0, OwnerFrame, CreateFrame, DeleteFrame, SendFrame, WaiterFrame,
       ReaderFrame DEF Next, QuietNext, callVars
  <2> QED
    BY <2>0, <2>1, <2>2, <2>3
<1> QED
  BY <1>2, <1>4, <1>5, <1>6, <1>7 DEF QueuesOK

(* Where the pump peeks it holds a queue, and where it writes or cancels it *)
(* holds a request.                                                         *)
LEMMA PumpHolds ==
    ASSUME Typed, ~crashed
    PROVE  /\ pc["pump"] \in {"expire", "peek"} =>
                 held["pump"] \in Queues /\ elements[held["pump"]] \in Seq(Ids)
           /\ pc["pump"] \in {"add", "write", "fail", "cancel"} =>
                 bundle["pump"] \in Accepted /\ bundle["pump"] \in Ids
<1>1. held["pump"] \in 0..created /\ created \in 0..MaxConnects
  BY BoundsAssumption, SMTT(30) DEF Typed, TypeOK, QueuesOK, Completers
<1>2. pc["pump"] \in {"expire", "peek"} =>
         held["pump"] \in Queues /\ elements[held["pump"]] \in Seq(Ids)
  <2>1. pc["pump"] \in {"expire", "peek"} => held["pump"] # 0
    BY DEF Typed, Ready, PumpReady
  <2>2. elements \in [Queues -> Seq(Ids)]
    BY DEF Typed, TypeOK, RequestsOK
  <2> QED
    BY <1>1, <2>1, <2>2, BoundsAssumption, SMTT(30) DEF Queues
<1>3. Accepted \subseteq Ids
  BY BoundsAssumption, SMTT(30) DEF Typed, TypeOK, RequestsOK, Accepted, Ids
<1> QED
  BY <1>2, <1>3 DEF Typed, Ready, PumpReady

(* What a step of the pump does to its request: it takes the front of the   *)
(* queue it holds, or lets its request go.                                  *)
LEMMA PumpBundle ==
    ASSUME Typed, ~crashed, messagePump
    PROVE  \/ UNCHANGED bundle
           \/ bundle' = [bundle EXCEPT !["pump"] = None]
           \/ /\ pc["pump"] \in {"expire", "peek"} /\ ~IsEmpty(elements[held["pump"]])
              /\ bundle' = [bundle EXCEPT !["pump"] = Peek(elements[held["pump"]])]
    BY DEF messagePump, PumpLoop, PumpOnStop, PumpOnRequest, RequestGet,
       PumpOnTimer, TimeoutCheck, TimeoutGet, TimeoutPeek, TimeoutCancel,
       PumpOnReady, ReadyGet, PumpCheck, DispatchGet, DispatchPeek, DispatchAdd,
       DispatchWrite, DispatchCancel, data, callVars, PumpStep, Step

(* A successful Write appends the pump's request; nothing else is sent.     *)
Writes ==
    /\ pc["pump"] = "write" /\ pc'["pump"] = "loop" /\ Len(sent) + 1 \in Sends
    /\ sent' = Append(sent, bundle["pump"])
    /\ atPeer' = atPeer \cup {bundle["pump"]}
    /\ waiter' = [waiter EXCEPT ![Len(sent) + 1] = IF TimeoutSet THEN "wait" ELSE "done"]
    /\ clientContextMap' = [clientContextMap EXCEPT ![clientID] =
          IF TimeoutSet THEN Len(sent) + 1 ELSE 0]
    /\ bundle' = [bundle EXCEPT !["pump"] = None]

LEMMA SentKinds ==
    ASSUME PlacesOK, Next
    PROVE  UNCHANGED sent \/ (messagePump /\ Writes)
<1>1. CASE messagePump
  <2>1. UNCHANGED sent \/ DispatchWrite
    BY <1>1 DEF messagePump, PumpLoop, PumpOnStop, PumpOnRequest, RequestGet,
       PumpOnTimer, TimeoutCheck, TimeoutGet, TimeoutPeek, TimeoutCancel,
       PumpOnReady, ReadyGet, PumpCheck, DispatchGet, DispatchPeek, DispatchAdd,
       DispatchCancel, data, eventVars
  <2>2. CASE DispatchWrite
    BY <1>1, <2>2 DEF DispatchWrite, Writes, PumpStep, Step, PlacesOK, Services
  <2> QED
    BY <2>1, <2>2
<1> QED
  BY <1>1, OwnerFrame, CreateFrame, DeleteFrame, SendFrame, CompleteFrame,
     WaiterFrame, ReaderFrame DEF Next, QuietNext, eventVars

LEMMA ElementsStep ==
    ASSUME Typed, Next
    PROVE  /\ elements' \in [Queues -> Seq(Ids)] /\ nextId' \in 0..MaxRequests
           /\ QueueCapacity > 0 => \A k \in Queues : Len(elements'[k]) <= QueueCapacity
<1> USE BoundsAssumption, CapacityAssumption
<1>0. /\ PlacesOK /\ nextId \in 0..MaxRequests
      /\ elements \in [Queues -> Seq(Ids)]
      /\ QueueCapacity > 0 => \A k \in Queues : Len(elements[k]) <= QueueCapacity
  BY DEF Typed, TypeOK, RequestsOK
<1>1. ASSUME NEW s \in Senders, Pushes(s)
      PROVE  /\ elements' \in [Queues -> Seq(Ids)] /\ nextId' \in 0..MaxRequests
             /\ QueueCapacity > 0 => \A k \in Queues : Len(elements'[k]) <= QueueCapacity
  <2> DEFINE q == target[s].queue
  <2>1. nextId + 1 \in Ids /\ nextId' \in 0..MaxRequests
    BY <1>0, <1>1, SMTT(30) DEF Pushes, Ids
  <2>2. ~IsFull(elements[q], QueueCapacity)
        /\ elements' = [elements EXCEPT ![q] = Append(elements[q], nextId + 1)]
    BY <1>1 DEF Pushes
  <2>3. ASSUME q \in Queues
        PROVE  /\ Append(elements[q], nextId + 1) \in Seq(Ids)
               /\ Len(Append(elements[q], nextId + 1)) = Len(elements[q]) + 1
               /\ Len(elements[q]) \in Nat
    BY <1>0, <2>1, <2>3, AppendProperties, SMTT(30)
  <2>4. elements' \in [Queues -> Seq(Ids)]
    BY <1>0, <2>2, <2>3
  <2>5. ASSUME NEW k \in Queues, QueueCapacity > 0
        PROVE  Len(elements'[k]) <= QueueCapacity
    BY <1>0, <2>2, <2>3, <2>5, SMTT(30) DEF IsFull
  <2> QED
    BY <2>1, <2>4, <2>5
<1>2. ASSUME NEW p \in Completers, Pops(p)
      PROVE  /\ elements' \in [Queues -> Seq(Ids)] /\ nextId' \in 0..MaxRequests
             /\ QueueCapacity > 0 => \A k \in Queues : Len(elements'[k]) <= QueueCapacity
  <2>1. ASSUME held[p] \in Queues
        PROVE  /\ Pop(elements[held[p]]) \in Seq(Ids)
               /\ Len(Pop(elements[held[p]])) <= Len(elements[held[p]])
               /\ Len(elements[held[p]]) \in Nat /\ Len(Pop(elements[held[p]])) \in Nat
    BY <1>0, <2>1, PopProperties, SMTT(30)
  <2>2. elements' = [elements EXCEPT ![held[p]] = Pop(elements[held[p]])] /\ nextId' = nextId
    BY <1>2, SMTT(30) DEF Pops
  <2>3. elements' \in [Queues -> Seq(Ids)]
    BY <1>0, <2>1, <2>2
  <2>4. ASSUME NEW k \in Queues, QueueCapacity > 0
        PROVE  Len(elements'[k]) <= QueueCapacity
    BY <1>0, <2>1, <2>2, <2>4, SMTT(30)
  <2> QED
    BY <1>0, <2>2, <2>3, <2>4
<1> QED
  BY <1>0, <1>1, <1>2, RequestKinds

LEMMA RequestsStep == ASSUME Typed, Next PROVE RequestsOK'
<1> USE BoundsAssumption
<1>0. PlacesOK /\ RequestsOK /\ ~crashed
  BY DEF Typed, TypeOK, Next, QuietNext
<1>1. pendingRequest' \in [Clients -> Ids \cup {None}]
  <2>0. /\ pendingRequest \in [Clients -> Ids \cup {None}]
        /\ bundle \in [Completers -> Ids \cup {None}] /\ "pump" \in Completers
    BY <1>0 DEF RequestsOK, Completers
  <2>1. ASSUME NEW c \in Clients, Disconnect(c) \/ Delete(c)
        PROVE  pendingRequest' \in [Clients -> Ids \cup {None}]
    <3>1. \/ pendingRequest' = pendingRequest
          \/ pendingRequest' = [pendingRequest EXCEPT ![c] = None]
      BY <2>1 DEF Disconnect, Delete, DeleteClient, DeleteCheck, DeleteLock,
         DeleteSignal, ClearClientPendingRequest
    <3> QED
      BY <2>0, <3>1
  <2>2. ASSUME NEW p \in Completers, CompleteRequest(p)
        PROVE  pendingRequest' \in [Clients -> Ids \cup {None}]
    BY <2>0, <2>2 DEF CompleteRequest, CompleteGet, CompletePeek, CompletePop,
       CompleteDelete, CompleteReady, DeletePendingRequest
  <2>3. CASE messagePump
    <3>1. UNCHANGED pendingRequest \/ DispatchAdd
      BY <2>3 DEF messagePump, PumpLoop, PumpOnStop, PumpOnRequest, RequestGet,
         PumpOnTimer, TimeoutCheck, TimeoutGet, TimeoutPeek, TimeoutCancel,
         PumpOnReady, ReadyGet, PumpCheck, DispatchGet, DispatchPeek, DispatchWrite,
         DispatchCancel, data
    <3> QED
      BY <2>0, <3>1 DEF DispatchAdd, AddPendingRequest
  <2> QED
    BY <1>0, <2>0, <2>1, <2>2, <2>3, OwnerFrame, CreateFrame, SendFrame, WaiterFrame,
       ReaderFrame DEF Next, QuietNext
<1>2. bundle' \in [Completers -> Ids \cup {None}]
  <2>0. bundle \in [Completers -> Ids \cup {None}]
    BY <1>0 DEF RequestsOK
  <2>1. CASE messagePump
    <3>1. pc["pump"] \in {"expire", "peek"} /\ ~IsEmpty(elements[held["pump"]])
          => Peek(elements[held["pump"]]) \in Ids
      BY <1>0, PumpHolds, PeekProperties
    <3> QED
      BY <1>0, <2>0, <2>1, <3>1, PumpBundle
  <2>2. ASSUME NEW c \in Clients,
               ocppMessageHandler(c) \/ \E id \in Ids : Receive(c, id)
        PROVE  bundle' \in [Completers -> Ids \cup {None}]
    BY <2>0, <2>2 DEF ocppMessageHandler, ParseMessage, Deliver, Receive
  <2> QED
    BY <1>0, <2>0, <2>1, <2>2, OwnerFrame, CreateFrame, DeleteFrame, SendFrame,
       CompleteFrame, WaiterFrame DEF Next, QuietNext, callVars
<1>3. /\ sent' \in Seq(Ids) /\ Len(sent') <= MaxSends /\ Len(sent') \in Nat
      /\ Len(sent) \in Nat /\ Len(sent) <= Len(sent')
      /\ Writes => Len(sent') = Len(sent) + 1
  <2>1. CASE Writes
    <3>1. bundle["pump"] \in Ids /\ sent \in Seq(Ids)
      BY <1>0, <2>1, PumpHolds DEF Writes, RequestsOK
    <3> QED
      BY <2>1, <3>1, AppendProperties, SMTT(30) DEF Writes, Sends
  <2> QED
    BY <1>0, <2>1, SentKinds, SMTT(30) DEF RequestsOK
<1>4. clientContextMap' \in [Clients -> 0..Len(sent')]
  <2>0. clientContextMap \in [Clients -> 0..Len(sent')]
    BY <1>0, <1>3, SMTT(30) DEF RequestsOK
  <2>1. CASE messagePump
    <3>1. \/ Writes \/ UNCHANGED clientContextMap
          \/ \E c : clientContextMap' = [clientContextMap EXCEPT ![c] = 0]
      <4>1. CASE DispatchWrite
        BY <1>0, <4>1 DEF DispatchWrite, Writes, PumpStep, Step, PlacesOK, Services,
           ctxVars
      <4> QED
        BY <2>1, <4>1 DEF messagePump, PumpLoop, PumpOnStop, PumpOnRequest,
           RequestGet, PumpOnTimer, TimeoutCheck, TimeoutGet, TimeoutPeek,
           TimeoutCancel, PumpOnReady, ReadyGet, PumpCheck, DispatchGet,
           DispatchPeek, DispatchAdd, DispatchCancel, data, pumpVars, ctxVars
    <3> QED
      BY <1>3, <2>0, <3>1, SMTT(30) DEF Writes
  <2> QED
    BY <1>0, <2>0, <2>1, OwnerFrame, CreateFrame, DeleteFrame, SendFrame,
       CompleteFrame, WaiterFrame, ReaderFrame DEF Next, QuietNext, pumpVars, ctxVars
<1>5. atPeer' \subseteq Ids /\ responded' \subseteq Ids /\ canceled' \subseteq Ids
  <2>0. atPeer \subseteq Ids /\ responded \subseteq Ids /\ canceled \subseteq Ids
    BY <1>0 DEF RequestsOK
  <2>1. ASSUME NEW c \in Clients, Disconnect(c) \/ Delete(c)
        PROVE  atPeer' \subseteq atPeer /\ UNCHANGED <<responded, canceled>>
    BY <2>1 DEF Disconnect, Delete, DeleteClient, DeleteCheck, DeleteLock,
       DeleteSignal, ClearClientPendingRequest, eventVars
  <2>2. CASE messagePump
    <3>1. /\ \/ atPeer' = atPeer
             \/ atPeer' = atPeer \cup {bundle["pump"]} /\ pc["pump"] = "write"
          /\ \/ canceled' = canceled
             \/ /\ canceled' = canceled \cup {bundle["pump"]}
                /\ pc["pump"] \in {"fail", "cancel"}
      BY <2>2 DEF messagePump, PumpLoop, PumpOnStop, PumpOnRequest, RequestGet,
         PumpOnTimer, TimeoutCheck, TimeoutGet, TimeoutPeek, TimeoutCancel,
         PumpOnReady, ReadyGet, PumpCheck, DispatchGet, DispatchPeek, DispatchAdd,
         DispatchWrite, DispatchCancel, data, eventVars, PumpStep, Step
    <3> QED
      BY <1>0, <2>0, <2>2, <3>1, PumpHolds, PumpFrame
  <2>3. ASSUME NEW c \in Clients,
               ocppMessageHandler(c) \/ \E id \in Ids : Receive(c, id)
        PROVE  atPeer' \subseteq Ids /\ responded' \subseteq Ids /\ canceled' \subseteq Ids
    <3>1. reader[c] = "deliver" => bundle[c] \in Ids
      BY DEF Typed, Ready, ReadersReady
    <3> QED
      BY <2>0, <2>3, <3>1 DEF ocppMessageHandler, ParseMessage, Deliver, Receive, eventVars
  <2> QED
    BY <1>0, <2>0, <2>1, <2>2, <2>3, OwnerFrame, CreateFrame, SendFrame, CompleteFrame,
       WaiterFrame DEF Next, QuietNext, eventVars
<1> QED
  BY <1>1, <1>2, <1>3, <1>4, <1>5, ElementsStep DEF RequestsOK

LEMMA SendersStep == ASSUME Typed, Next PROVE SendersReady'
<1>0. PlacesOK /\ QueuesOK /\ SendersReady
  BY DEF Typed, TypeOK, Ready
<1>1. created \in Nat /\ created' \in Nat /\ created <= created'
  BY Growth
<1>2. CASE target' = target /\ \A s \in Senders : pc'[s] = pc[s]
  BY <1>0, <1>1, <1>2, SMTT(30) DEF SendersReady
<1>3. ASSUME NEW s \in Senders, SendRequest(s) PROVE SendersReady'
  <2> SUFFICES ASSUME NEW o \in Senders
      PROVE /\ pc'[o] \in {"get", "push", "lock", "signal"} => target'[o].client \in Clients
            /\ pc'[o] = "push" => target'[o].queue \in 1..created'
    BY DEF SendersReady
  <2>1. target \in [Senders -> [client : Clients \cup {None}, queue : 0..MaxConnects]]
    BY <1>0 DEF QueuesOK
  <2>2. CASE o # s
    <3>1. pc'[o] = pc[o]
      BY <1>0, <1>3, <2>2, SendFrame
    <3>2. target'[o] = target[o]
      BY <1>3, <2>1, <2>2 DEF SendRequest, SendCheck, SendGet, SendPush, SendLock,
         SendSignal, data, sendVars
    <3> QED
      BY <1>0, <1>1, <3>1, <3>2, SMTT(30) DEF SendersReady
  <2>3. CASE o = s /\ SendGet(s)
    <3>1. target[s].client \in Clients /\ s \in DOMAIN pc
      BY <1>0, <2>3 DEF SendersReady, SendGet, Step, PlacesOK
    <3>2. queueMap[target[s].client] \in 0..created
      BY <1>0, <3>1 DEF QueuesOK
    <3> QED
      BY <1>1, <2>1, <2>3, <3>1, <3>2, SMTT(30) DEF SendGet, Step
  <2>4. CASE o = s /\ SendCheck(s)
    BY <1>0, <2>1, <2>4 DEF SendCheck, Step, PlacesOK
  <2>5. CASE o = s /\ (SendPush(s) \/ SendLock(s) \/ SendSignal(s))
    <3>1. /\ pc'[s] \in {"idle", "lock", "signal"}
          /\ pc'[s] # "idle" => target'[s] = target[s] /\ pc[s] \in {"push", "lock"}
      BY <1>0, <2>5 DEF SendPush, SendLock, SendSignal, Step, PlacesOK, data, sendVars
    <3> QED
      BY <1>0, <2>5, <3>1 DEF SendersReady
  <2> QED
    BY <1>3, <2>2, <2>3, <2>4, <2>5 DEF SendRequest
<1> QED
  BY <1>0, <1>2, <1>3, OwnerFrame, CreateFrame, DeleteFrame, CompleteFrame, PumpFrame,
     WaiterFrame, ReaderFrame DEF Next, QuietNext, sendVars

(* No other goroutine touches the pump's place and locals. *)
LEMMA OthersLeavePump ==
    ASSUME Typed, Next, ~Start, ~messagePump, ~CompleteRequest("pump")
    PROVE  /\ pc'["pump"] = pc["pump"] /\ completing'["pump"] = completing["pump"]
           /\ held'["pump"] = held["pump"] /\ bundle'["pump"] = bundle["pump"]
           /\ UNCHANGED <<clientID, clientQueue, rdy, clientContextMap, crashed>>
<1>0. PlacesOK /\ QueuesOK /\ RequestsOK
  BY DEF Typed, TypeOK
<1> USE DEF callVars, pumpVars, localVars, ctxVars
<1>1. CASE StopCall \/ Stop
  BY <1>0, <1>1, OwnerFrame
<1>2. CASE \E c \in Clients : Connect(c) \/ Create(c)
  BY <1>2, CreateFrame
<1>3. CASE \E c \in Clients : Disconnect(c) \/ Delete(c)
  BY <1>3, DeleteFrame
<1>4. CASE \E s \in Senders : SendRequest(s)
  BY <1>0, <1>4, SendFrame
<1>5. ASSUME NEW p \in Completers, p # "pump", CompleteRequest(p)
      PROVE  held'["pump"] = held["pump"]
  BY <1>0, <1>5 DEF CompleteRequest, CompleteGet, CompletePeek, CompletePop,
     CompleteDelete, CompleteReady, QueuesOK, Completers
<1>6. CASE \E p \in Completers : p # "pump" /\ CompleteRequest(p)
  BY <1>0, <1>5, <1>6, CompleteFrame DEF Completers
<1>7. CASE \E n \in Sends : Deadline(n) \/ waitForTimeout(n)
  BY <1>7, WaiterFrame
<1>8. ASSUME NEW c \in Clients,
             ocppMessageHandler(c) \/ \E id \in Ids : Receive(c, id)
      PROVE  bundle'["pump"] = bundle["pump"]
  BY <1>0, <1>8, GoroutinesAssumption DEF ocppMessageHandler, ParseMessage, Deliver,
     Receive, RequestsOK, Completers
<1>9. CASE \E c \in Clients : ocppMessageHandler(c) \/ \E id \in Ids : Receive(c, id)
  BY <1>0, <1>8, <1>9, ReaderFrame, GoroutinesAssumption DEF Completers
<1> QED
  BY <1>1, <1>2, <1>3, <1>4, <1>6, <1>7, <1>9 DEF Next, QuietNext

LEMMA PumpReadyStep == ASSUME Typed, Next PROVE PumpReady'
<1>0. /\ PlacesOK /\ QueuesOK /\ RequestsOK /\ ChannelsOK /\ PumpReady /\ ~crashed
      /\ "pump" \in Completers /\ "pump" \in Senders \cup Services
  BY DEF Typed, TypeOK, Ready, Next, QuietNext, Completers, Services
<1>1. Accepted \subseteq Accepted'
  BY Growth
<1>2. CASE /\ pc'["pump"] = pc["pump"] /\ completing'["pump"] = completing["pump"]
           /\ held'["pump"] = held["pump"] /\ bundle'["pump"] = bundle["pump"]
           /\ UNCHANGED <<clientID, crashed>> /\ (running' = running \/ Stop)
  BY <1>0, <1>1, <1>2 DEF PumpReady, Stop
<1>3. CASE Start
  BY <1>0, <1>3 DEF Start, PumpReady, PlacesOK, callVars, pumpVars, localVars
<1>4. CASE CompleteRequest("pump")
  <2>1. UNCHANGED <<pc, running, clientID, crashed, bundle>>
    BY <1>0, <1>4, CompleteFrame DEF pumpVars, localVars
  <2>2. pc["pump"] \in {"cancel", "fail"} /\ completing["pump"] # "no"
    BY <1>0, <1>4 DEF PumpReady, CompleteRequest, CompleteGet, CompletePeek,
       CompletePop, CompleteDelete, CompleteReady
  <2>3. held'["pump"] # 0 => completing'["pump"] \in {"peek", "pop"}
    BY <1>0, <1>4, <2>2 DEF PumpReady, CompleteRequest, CompleteGet, CompletePeek,
       CompletePop, CompleteDelete, CompleteReady, QueuesOK, PlacesOK
  <2> QED
    BY <1>0, <1>1, <2>1, <2>2, <2>3 DEF PumpReady
<1>5. CASE messagePump
  <2>0. /\ UNCHANGED running /\ completing["pump"] = "no"
        /\ running = "new" => pc["pump"] = "idle"
    BY <1>0, <1>5, PumpFrame DEF PumpReady
  <2> USE DEF PumpStep, Step, PlacesOK, data, callVars, pumpVars, localVars
  <2>1. CASE PumpLoop \/ PumpOnStop \/ RequestGet \/ ReadyGet \/ PumpCheck
    <3>1. /\ UNCHANGED <<callVars, clientID, crashed>>
          /\ pc["pump"] \in {"loop", "select", "request", "ready", "check"}
          /\ pc'["pump"] \in {"loop", "select", "done", "check", "get"}
          /\ pc'["pump"] \in {"check", "get"} => pc["pump"] \in {"request", "ready", "check"}
      BY <1>0, <2>1 DEF PumpLoop, PumpOnStop, RequestGet, ReadyGet, PumpCheck
    <3> QED
      BY <1>0, <2>0, <3>1 DEF PumpReady
  <2>2. CASE PumpOnRequest \/ PumpOnTimer \/ PumpOnReady
    <3>1. /\ UNCHANGED <<callVars, crashed>> /\ clientID' \in Clients
          /\ pc["pump"] = "select" /\ pc'["pump"] \in {"request", "timeout", "ready"}
      BY <1>0, <2>2, TailProperties, SMTT(30) DEF PumpOnRequest, PumpOnTimer, PumpOnReady, ChannelsOK
    <3> QED
      BY <1>0, <2>0, <3>1 DEF PumpReady
  <2>3. CASE TimeoutCheck \/ TimeoutCancel
    <3>1. /\ UNCHANGED <<completing, held, clientID, crashed>>
          /\ pc["pump"] \in {"timeout", "cancel"} /\ pc'["pump"] \in {"timedout", "check"}
      BY <1>0, <2>3 DEF TimeoutCheck, TimeoutCancel
    <3> QED
      BY <1>0, <2>0, <3>1 DEF PumpReady
  <2>4. CASE TimeoutGet
    BY <1>0, <2>0, <2>4 DEF TimeoutGet, PumpReady, QueuesOK
  <2>5. CASE DispatchGet
    BY <1>0, <2>0, <2>5 DEF DispatchGet, PumpReady, QueuesOK
  <2>6. CASE TimeoutPeek \/ DispatchPeek
    <3> DEFINE q == elements[held["pump"]]
    <3>1. /\ pc["pump"] \in {"expire", "peek"} /\ pc'["pump"] \in {"cancel", "add"}
          /\ UNCHANGED clientID /\ held'["pump"] = 0
          /\ completing'["pump"] # "no" => pc'["pump"] = "cancel"
          /\ ~crashed' => ~IsEmpty(q) /\ bundle'["pump"] = Peek(q)
      BY <1>0, <2>0, <2>6, SMTT(30) DEF TimeoutPeek, DispatchPeek, QueuesOK, RequestsOK
    <3>2. held["pump"] \in Queues /\ q \in Seq(Ids)
      BY <1>0, <3>1, PumpHolds
    <3>3. ~IsEmpty(q) => Peek(q) \in Accepted
      BY <3>2, PeekProperties DEF Typed, Ready, RequestsKnown
    <3> QED
      BY <1>0, <1>1, <2>0, <3>1, <3>3 DEF PumpReady
  <2>7. CASE DispatchAdd
    BY <1>0, <1>1, <2>0, <2>7 DEF DispatchAdd, PumpReady
  <2>8. CASE DispatchWrite
    <3>1. /\ UNCHANGED <<held, clientID, crashed>> /\ pc["pump"] = "write"
          /\ \/ pc'["pump"] = "loop" /\ UNCHANGED completing
             \/ pc'["pump"] = "fail" /\ UNCHANGED bundle
      BY <1>0, <2>8 DEF DispatchWrite
    <3> QED
      BY <1>0, <1>1, <2>0, <3>1 DEF PumpReady
  <2>9. CASE DispatchCancel
    BY <1>0, <2>0, <2>9 DEF DispatchCancel, PumpReady
  <2> QED
    BY <1>5, <2>1, <2>2, <2>3, <2>4, <2>5, <2>6, <2>7, <2>8, <2>9 DEF messagePump
<1>6. Start \/ messagePump \/ Stop \/ running' = running
  BY <1>0, CreateFrame, DeleteFrame, SendFrame, CompleteFrame, WaiterFrame,
     ReaderFrame DEF Next, QuietNext, StopCall, data
<1> QED
  BY <1>2, <1>3, <1>4, <1>5, <1>6, OthersLeavePump

LEMMA PumpLeavesReaders ==
    ASSUME Typed, messagePump, NEW c \in Clients
    PROVE  /\ completing'[c] = completing[c] /\ held'[c] = held[c]
           /\ bundle'[c] = bundle[c]
<1>0. c \in Completers /\ c # "pump"
  BY GoroutinesAssumption DEF Completers
<1>1. /\ UNCHANGED completing \/ \E x : completing' = [completing EXCEPT !["pump"] = x]
      /\ UNCHANGED held \/ \E x : held' = [held EXCEPT !["pump"] = x]
      /\ UNCHANGED bundle \/ \E x : bundle' = [bundle EXCEPT !["pump"] = x]
  <2>1. CASE \/ PumpLoop \/ PumpOnStop \/ PumpOnRequest \/ RequestGet \/ PumpOnTimer
             \/ PumpOnReady \/ ReadyGet \/ PumpCheck \/ TimeoutCheck
    BY <2>1 DEF PumpLoop, PumpOnStop, PumpOnRequest, RequestGet, PumpOnTimer,
       PumpOnReady, ReadyGet, PumpCheck, TimeoutCheck, data, callVars
  <2>2. CASE TimeoutGet \/ TimeoutPeek \/ TimeoutCancel
    BY <2>2 DEF TimeoutGet, TimeoutPeek, TimeoutCancel
  <2>3. CASE DispatchGet \/ DispatchPeek \/ DispatchAdd
    BY <2>3 DEF DispatchGet, DispatchPeek, DispatchAdd, callVars
  <2>4. CASE DispatchWrite \/ DispatchCancel
    BY <2>4 DEF DispatchWrite, DispatchCancel
  <2> QED
    BY <2>1, <2>2, <2>3, <2>4 DEF messagePump
<1>2. /\ c \in DOMAIN completing /\ c \in DOMAIN held /\ c \in DOMAIN bundle
  BY <1>0 DEF Typed, TypeOK, PlacesOK, QueuesOK, RequestsOK
<1> QED
  BY <1>0, <1>1, <1>2

LEMMA ReadersStep == ASSUME Typed, Next PROVE ReadersReady'
<1>0. /\ PlacesOK /\ QueuesOK /\ RequestsOK /\ ReadersReady
      /\ Clients \subseteq Completers
  BY DEF Typed, TypeOK, Ready, Completers
<1> SUFFICES ASSUME NEW c \in Clients
    PROVE  /\ completing'[c] # "no" => reader'[c] = "deliver"
           /\ reader'[c] # "idle" => bundle'[c] \in Ids
           /\ held'[c] # 0 => completing'[c] \in {"peek", "pop"}
  BY DEF ReadersReady
<1>1. CASE /\ completing'[c] = completing[c] /\ held'[c] = held[c]
           /\ bundle'[c] = bundle[c] /\ reader'[c] = reader[c]
  BY <1>0, <1>1 DEF ReadersReady
<1>2. CASE messagePump
  BY <1>0, <1>1, <1>2, PumpFrame, PumpLeavesReaders
<1>3. CASE CompleteRequest(c)
  <2>1. UNCHANGED <<bundle, reader>>
    BY <1>0, <1>3, CompleteFrame
  <2>2. /\ completing[c] # "no"
        /\ held'[c] # 0 => completing'[c] \in {"peek", "pop"}
    BY <1>0, <1>3 DEF ReadersReady, CompleteRequest, CompleteGet, CompletePeek,
       CompletePop, CompleteDelete, CompleteReady, QueuesOK, PlacesOK
  <2> QED
    BY <1>0, <2>1, <2>2 DEF ReadersReady
<1>4. ASSUME NEW p \in Completers, p # c, CompleteRequest(p)
      PROVE  completing'[c] = completing[c] /\ held'[c] = held[c]
  BY <1>0, <1>4 DEF CompleteRequest, CompleteGet, CompletePeek, CompletePop,
     CompleteDelete, CompleteReady, QueuesOK, PlacesOK
<1>5. CASE \E p \in Completers : p # c /\ CompleteRequest(p)
  BY <1>0, <1>1, <1>4, <1>5, CompleteFrame
<1>6. CASE ocppMessageHandler(c) \/ \E id \in Ids : Receive(c, id)
  <2>1. UNCHANGED held
    BY <1>0, <1>6, ReaderFrame
  <2> QED
    BY <1>0, <1>6, <2>1, SMTT(30) DEF ReadersReady, ocppMessageHandler, ParseMessage, Deliver,
       Receive, PlacesOK, RequestsOK
<1>7. ASSUME NEW o \in Clients, o # c,
             ocppMessageHandler(o) \/ \E id \in Ids : Receive(o, id)
      PROVE  bundle'[c] = bundle[c]
  BY <1>0, <1>7 DEF ocppMessageHandler, ParseMessage, Deliver, Receive, RequestsOK
<1>8. CASE \E o \in Clients :
              o # c /\ (ocppMessageHandler(o) \/ \E id \in Ids : Receive(o, id))
  BY <1>0, <1>1, <1>7, <1>8, ReaderFrame
<1>9. CASE \/ Start \/ StopCall \/ Stop
           \/ \E d \in Clients : Connect(d) \/ Create(d) \/ Disconnect(d) \/ Delete(d)
           \/ \E s \in Senders : SendRequest(s)
           \/ \E n \in Sends : Deadline(n) \/ waitForTimeout(n)
  BY <1>0, <1>1, <1>9, OwnerFrame, CreateFrame, DeleteFrame, SendFrame, WaiterFrame
     DEF callVars
<1> QED
  BY <1>2, <1>3, <1>5, <1>6, <1>8, <1>9 DEF Next, QuietNext

LEMMA WaitersStep == ASSUME Typed, Next PROVE WaitersReady'
<1>0. /\ PlacesOK /\ WaitersReady /\ sent \in Seq(Ids) /\ Len(sent) \in Nat /\ ~crashed
      /\ waiter \in [Sends -> {"none", "wait", "lock", "signal", "done"}]
  BY SMTT(30) DEF Typed, TypeOK, RequestsOK, PlacesOK, Ready, Next, QuietNext
<1>1. CASE UNCHANGED <<sent, waiter>>
  BY <1>0, <1>1 DEF WaitersReady
<1>2. CASE messagePump
  <2>1. CASE Writes
    <3>1. bundle["pump"] \in Ids
      BY <1>0, <2>1, PumpHolds DEF Writes
    <3>2. Len(sent') = Len(sent) + 1
      BY <1>0, <2>1, <3>1, AppendProperties, SMTT(30) DEF Writes
    <3> QED
      BY <1>0, <2>1, <3>2, SMTT(30) DEF Writes, WaitersReady
  <2>2. CASE ~Writes
    <3>1. UNCHANGED sent
      BY <1>0, <2>2, SentKinds
    <3>2. UNCHANGED waiter \/ \E n : waiter' = Canceled(n)
      <4>1. CASE DispatchWrite
        BY <1>0, <2>2, <4>1 DEF DispatchWrite, Writes, PumpStep, Step, PlacesOK,
           Services, ctxVars
      <4> QED
        BY <1>2, <4>1 DEF messagePump, PumpLoop, PumpOnStop, PumpOnRequest,
           RequestGet, PumpOnTimer, TimeoutCheck, TimeoutGet, TimeoutPeek,
           TimeoutCancel, PumpOnReady, ReadyGet, PumpCheck, DispatchGet,
           DispatchPeek, DispatchAdd, DispatchCancel, data, pumpVars, ctxVars
    <3> QED
      BY <1>0, <3>1, <3>2 DEF WaitersReady, Canceled
  <2> QED
    BY <2>1, <2>2
<1>3. ASSUME NEW n \in Sends, Deadline(n) \/ waitForTimeout(n) PROVE WaitersReady'
  <2>1. UNCHANGED sent
    BY <1>3, WaiterFrame DEF eventVars
  <2>2. waiter[n] # "none" /\ \E x : waiter' = [waiter EXCEPT ![n] = x]
    BY <1>3 DEF Deadline, waitForTimeout, WaitStopped, WaitLock, WaitSignal, WaiterStep
  <2> QED
    BY <1>0, <2>1, <2>2 DEF WaitersReady
<1> QED
  BY <1>0, <1>1, <1>2, <1>3, OwnerFrame, CreateFrame, DeleteFrame, SendFrame,
     CompleteFrame, ReaderFrame DEF Next, QuietNext, eventVars, pumpVars, ctxVars

(* What a push does: the new request is the largest, goes to the end of the *)
(* queue the sender looked up, and belongs to the sender's client.          *)
LEMMA PushFacts ==
    ASSUME Typed, NEW s \in Senders, Pushes(s)
    PROVE  /\ nextId \in Nat /\ nextId' = nextId + 1 /\ nextId + 1 \in Ids
           /\ target[s].queue \in 1..created /\ target[s].queue \in Queues
           /\ target[s].client \in Clients
           /\ dest'[nextId + 1] = target[s]
           /\ \A id \in Accepted : dest'[id] = dest[id]
           /\ \A id \in Accepted' : id \in Accepted \/ id = nextId + 1
           /\ \A k \in Queues : k # target[s].queue => elements'[k] = elements[k]
           /\ elements'[target[s].queue] = Append(elements[target[s].queue], nextId + 1)
           /\ Len(elements[target[s].queue]) \in Nat
           /\ Len(elements'[target[s].queue]) = Len(elements[target[s].queue]) + 1
           /\ \A i \in 1..Len(elements'[target[s].queue]) :
                 \/ /\ i \in 1..Len(elements[target[s].queue])
                    /\ elements'[target[s].queue][i] = elements[target[s].queue][i]
                 \/ /\ i = Len(elements[target[s].queue]) + 1
                    /\ elements'[target[s].queue][i] = nextId + 1
<1>1. /\ nextId \in 0..MaxRequests /\ elements \in [Queues -> Seq(Ids)]
      /\ created \in 0..MaxConnects /\ dest = [id \in Ids |-> dest[id]]
  BY BoundsAssumption, SMTT(30) DEF Typed, TypeOK, RequestsOK, QueuesOK
<1>2. target[s].queue \in 1..created /\ target[s].client \in Clients
  BY DEF Typed, Ready, SendersReady, Pushes
<1>3. target[s].queue \in Queues
  BY <1>1, <1>2, BoundsAssumption, SMTT(30) DEF Queues
<1>4. nextId \in Nat /\ nextId' = nextId + 1 /\ nextId + 1 \in Ids
  BY <1>1, BoundsAssumption, SMTT(30) DEF Pushes, Ids
<1>5. /\ dest'[nextId + 1] = target[s]
      /\ \A id \in Accepted : dest'[id] = dest[id]
      /\ \A id \in Accepted' : id \in Accepted \/ id = nextId + 1
  BY <1>1, <1>4, SMTT(30) DEF Pushes, Accepted, Ids
<1>6. /\ \A k \in Queues : k # target[s].queue => elements'[k] = elements[k]
      /\ elements'[target[s].queue] = Append(elements[target[s].queue], nextId + 1)
  BY <1>1, <1>3 DEF Pushes
<1>7. PICK q \in Seq(Ids) : q = elements[target[s].queue]
  BY <1>1, <1>3
<1>8. /\ Len(q) \in Nat /\ Len(Append(q, nextId + 1)) = Len(q) + 1
      /\ \A i \in 1..Len(Append(q, nextId + 1)) :
            \/ i \in 1..Len(q) /\ Append(q, nextId + 1)[i] = q[i]
            \/ i = Len(q) + 1 /\ Append(q, nextId + 1)[i] = nextId + 1
  BY <1>4, AppendProperties, SMTT(30)
<1> QED
  BY <1>2, <1>3, <1>4, <1>5, <1>6, <1>7, <1>8

(* What a pop does: a queue loses its front. *)
LEMMA PopFacts ==
    ASSUME Typed, NEW p \in Completers, Pops(p)
    PROVE  \A k \in Queues :
              /\ k # held[p] => elements'[k] = elements[k]
              /\ Len(elements'[k]) \in Nat /\ Len(elements[k]) \in Nat
              /\ k = held[p] =>
                    \A i \in 1..Len(elements'[k]) :
                        i + 1 \in 1..Len(elements[k])
                        /\ elements'[k][i] = elements[k][i + 1]
<1>1. elements \in [Queues -> Seq(Ids)]
  BY DEF Typed, TypeOK, RequestsOK
<1> SUFFICES ASSUME NEW k \in Queues
    PROVE  /\ k # held[p] => elements'[k] = elements[k]
           /\ Len(elements'[k]) \in Nat /\ Len(elements[k]) \in Nat
           /\ k = held[p] =>
                 \A i \in 1..Len(elements'[k]) :
                     i + 1 \in 1..Len(elements[k])
                     /\ elements'[k][i] = elements[k][i + 1]
  OBVIOUS
<1>2. k # held[p] => elements'[k] = elements[k]
  BY <1>1 DEF Pops
<1>3. k = held[p] => elements'[k] = Pop(elements[k])
  BY <1>1 DEF Pops
<1>4. elements[k] \in Seq(Ids)
  BY <1>1
<1>5. CASE k # held[p]
  BY <1>2, <1>4, <1>5, SMTT(30)
<1>6. CASE k = held[p]
  BY <1>3, <1>4, <1>6, PopProperties, SMTT(30)
<1> QED
  BY <1>5, <1>6

LEMMA RequestsKnownStep == ASSUME Typed, Next PROVE RequestsKnown'
<1>0. /\ PlacesOK /\ RequestsKnown /\ ~crashed
      /\ sent \in Seq(Ids) /\ elements \in [Queues -> Seq(Ids)]
  BY DEF Typed, TypeOK, RequestsOK, Ready, Next, QuietNext
<1>1. /\ created \in Nat /\ created' \in Nat /\ created <= created'
      /\ \A id \in Accepted : id \in Accepted' /\ dest'[id] = dest[id]
  BY Growth
<1>2. \A i \in 1..Len(sent') : sent'[i] \in Accepted'
  <2>1. CASE Writes
    <3>1. bundle["pump"] \in Accepted /\ bundle["pump"] \in Ids
      BY <1>0, <2>1, PumpHolds DEF Writes
    <3>2. /\ Len(sent') = Len(sent) + 1 /\ sent'[Len(sent) + 1] = bundle["pump"]
          /\ \A k \in 1..Len(sent) : sent'[k] = sent[k]
          /\ \A k \in 1..Len(sent) + 1 : k \in 1..Len(sent) \/ k = Len(sent) + 1
      BY <1>0, <2>1, <3>1, AppendProperties, SMTT(30) DEF Writes
    <3> QED
      BY <1>0, <1>1, <3>1, <3>2 DEF RequestsKnown
  <2> QED
    BY <1>0, <1>1, <2>1, SentKinds DEF RequestsKnown
<1>3. CASE UNCHANGED <<elements, nextId, dest>>
  <2>1. Accepted' = Accepted
    BY <1>3 DEF Accepted
  <2> QED
    BY <1>0, <1>1, <1>2, <1>3, <2>1, SMTT(30) DEF RequestsKnown
<1>4. ASSUME NEW s \in Senders, Pushes(s) PROVE RequestsKnown'
  <2>1. PICK q \in Queues : q = target[s].queue /\ q \in 1..created
    BY <1>4, PushFacts
  <2>2. /\ nextId \in Nat /\ nextId' = nextId + 1
        /\ dest'[nextId + 1].client \in Clients /\ dest'[nextId + 1].queue = q
        /\ \A id \in Accepted' : id \in Accepted \/ id = nextId + 1
        /\ \A k \in Queues : k # q => elements'[k] = elements[k]
        /\ \A i \in 1..Len(elements'[q]) :
              \/ i \in 1..Len(elements[q]) /\ elements'[q][i] = elements[q][i]
              \/ elements'[q][i] = nextId + 1
    BY <1>4, <2>1, PushFacts
  <2>3. nextId + 1 \in Accepted'
    BY <2>2, SMTT(30) DEF Accepted
  <2>4. ASSUME NEW id \in Accepted'
        PROVE  dest'[id].client \in Clients /\ dest'[id].queue \in 1..created'
    <3>1. CASE id \in Accepted
      BY <1>0, <1>1, <3>1, SMTT(30) DEF RequestsKnown
    <3>2. CASE id = nextId + 1
      BY <1>1, <2>1, <2>2, <3>2, SMTT(30)
    <3> QED
      BY <2>2, <3>1, <3>2
  <2>5. ASSUME NEW k \in Queues, NEW i \in 1..Len(elements'[k])
        PROVE  elements'[k][i] \in Accepted' /\ dest'[elements'[k][i]].queue = k
    <3>1. CASE i \in 1..Len(elements[k]) /\ elements'[k][i] = elements[k][i]
      BY <1>0, <1>1, <3>1 DEF RequestsKnown
    <3>2. CASE k = q /\ elements'[k][i] = nextId + 1
      BY <2>2, <2>3, <3>2
    <3> QED
      BY <2>2, <2>5, <3>1, <3>2
  <2> QED
    BY <1>2, <2>4, <2>5 DEF RequestsKnown
<1>5. ASSUME NEW p \in Completers, Pops(p) PROVE RequestsKnown'
  <2>1. UNCHANGED <<nextId, dest>> /\ Accepted' = Accepted
    BY <1>5 DEF Pops, Accepted
  <2>2. \A k \in Queues : \A i \in 1..Len(elements'[k]) :
           elements'[k][i] \in Accepted /\ dest[elements'[k][i]].queue = k
    <3>1. ASSUME NEW k \in Queues, NEW i \in 1..Len(elements'[k])
          PROVE  elements'[k][i] \in Accepted /\ dest[elements'[k][i]].queue = k
      <4>1. CASE k # held[p]
        BY <1>0, <1>5, <3>1, <4>1, PopFacts DEF RequestsKnown
      <4>2. CASE k = held[p]
        <5>1. i + 1 \in 1..Len(elements[k]) /\ elements'[k][i] = elements[k][i + 1]
          BY <1>5, <3>1, <4>2, PopFacts
        <5> QED
          BY <1>0, <5>1 DEF RequestsKnown
      <4> QED
        BY <4>1, <4>2
    <3> QED
      BY <3>1
  <2> QED
    BY <1>0, <1>1, <1>2, <2>1, <2>2, SMTT(30) DEF RequestsKnown
<1> QED
  BY <1>0, <1>3, <1>4, <1>5, RequestKinds

-----------------------------------------------------------------------------
(* Why requests leave in order.  A client keeps its queue until it is       *)
(* removed, and gets a new one when it comes back; meanwhile senders, the   *)
(* pump and the readers may still hold the old one.                         *)

(* Somebody takes queue k for the queue of client c. *)
Knows(c, k) ==
    \/ queueMap[c] = k
    \/ \E s \in Senders : pc[s] = "push" /\ target[s].client = c /\ target[s].queue = k
    \/ \E id \in Accepted : dest[id].client = c /\ dest[id].queue = k
    \/ \E p \in Completers : ClientOf(p) = c /\ held[p] = k

(* A queue belongs to one client, and the one in the map is its newest. *)
OneOwner ==
    \A k \in Queues : \A c, d \in Clients : Knows(c, k) /\ Knows(d, k) => c = d
Newest ==
    \A c \in Clients : \A k \in Queues :
        Knows(c, k) => k <= created /\ (queueMap[c] # 0 => k <= queueMap[c])
Owned == OneOwner /\ Newest

(* A sender that is about to push looked its queue up or had it already. *)
LEMMA SenderLooksUp ==
    ASSUME Typed, Next, NEW s \in Senders, pc'[s] = "push"
    PROVE  /\ target'[s].client = target[s].client /\ target[s].client \in Clients
           /\ \/ pc[s] = "push" /\ target'[s].queue = target[s].queue
              \/ target'[s].queue = queueMap[target[s].client]
<1>0. /\ PlacesOK /\ SendersReady
      /\ target \in [Senders -> [client : Clients \cup {None}, queue : 0..MaxConnects]]
  BY DEF Typed, TypeOK, QueuesOK, Ready
<1>1. CASE target'[s] = target[s] /\ pc'[s] = pc[s]
  BY <1>0, <1>1 DEF SendersReady
<1>2. ASSUME NEW o \in Senders, SendRequest(o), o # s
      PROVE  target'[s] = target[s] /\ pc'[s] = pc[s]
  <2>1. pc'[s] = pc[s]
    BY <1>0, <1>2, SendFrame
  <2> QED
    BY <1>0, <1>2, <2>1 DEF SendRequest, SendCheck, SendGet, SendPush, SendLock,
       SendSignal, data, sendVars
<1>3. CASE SendRequest(s)
  <2>1. SendGet(s)
    BY <1>0, <1>3 DEF SendRequest, SendCheck, SendPush, SendLock, SendSignal, Step,
       PlacesOK
  <2>2. target[s].client \in Clients
    BY <1>0, <2>1 DEF SendGet, Step, SendersReady
  <2> QED
    BY <1>0, <2>1, <2>2 DEF SendGet, Step, PlacesOK
<1> QED
  BY <1>0, <1>1, <1>2, <1>3, OwnerFrame, CreateFrame, DeleteFrame, CompleteFrame,
     PumpFrame, WaiterFrame, ReaderFrame DEF Next, QuietNext, sendVars

(* So did the pump and the readers with the queue they hold. *)
LEMMA HolderLooksUp ==
    ASSUME Typed, Next, NEW p \in Completers, held'[p] # 0
    PROVE  /\ ClientOf(p)' = ClientOf(p) /\ ClientOf(p) \in Clients
           /\ held'[p] = held[p] \/ held'[p] = queueMap[ClientOf(p)]
<1>0. /\ PlacesOK /\ PumpReady /\ "pump" \in Completers
      /\ held \in [Completers -> 0..created]
  BY DEF Typed, TypeOK, QueuesOK, Ready, Completers
<1>1. CASE p = "pump"
  <2>1. ClientOf(p) = clientID /\ ClientOf(p)' = clientID'
    BY <1>1 DEF ClientOf
  <2>2. held["pump"] # 0 => clientID \in Clients
    BY <1>0 DEF PumpReady
  <2>3. CASE Start
    BY <1>0, <1>1, <2>1, <2>2, <2>3, OwnerFrame DEF callVars, pumpVars, localVars
  <2>4. CASE CompleteRequest("pump")
    <3>1. UNCHANGED clientID
      BY <1>0, <2>4, CompleteFrame DEF pumpVars, localVars
    <3>2. held'["pump"] \in {0, held["pump"], queueMap[clientID]}
      BY <1>0, <2>4 DEF CompleteRequest, CompleteGet, CompletePeek, CompletePop,
         CompleteDelete, CompleteReady, ClientOf
    <3>3. clientID \in Clients
      BY <1>0, <2>4 DEF PumpReady, CompleteRequest, CompleteGet, CompletePeek,
         CompletePop, CompleteDelete, CompleteReady
    <3> QED
      BY <1>1, <2>1, <3>1, <3>2, <3>3
  <2>5. CASE messagePump
    <3>1. CASE \/ PumpLoop \/ PumpOnStop \/ PumpOnRequest \/ RequestGet \/ PumpOnTimer
               \/ PumpOnReady \/ ReadyGet \/ PumpCheck \/ TimeoutCheck
      <4>1. UNCHANGED held /\ pc["pump"] \notin {"expire", "peek"} /\ completing["pump"] = "no"
        BY <3>1 DEF PumpLoop, PumpOnStop, PumpOnRequest, RequestGet, PumpOnTimer,
           PumpOnReady, ReadyGet, PumpCheck, TimeoutCheck, data, callVars, PumpStep, Step
      <4> QED
        BY <1>0, <1>1, <4>1 DEF PumpReady
    <3>2. CASE TimeoutGet \/ DispatchGet
      <4>1. /\ UNCHANGED clientID /\ held'["pump"] = queueMap[clientID]
            /\ pc["pump"] \in {"timedout", "get"}
        BY <1>0, <3>2 DEF TimeoutGet, DispatchGet, PumpStep, Step, pumpVars, localVars
      <4> QED
        BY <1>0, <1>1, <2>1, <4>1 DEF PumpReady
    <3>3. CASE \/ TimeoutPeek \/ TimeoutCancel \/ DispatchPeek \/ DispatchAdd
               \/ DispatchWrite \/ DispatchCancel
      <4>1. /\ UNCHANGED clientID
            /\ UNCHANGED held \/ held' = [held EXCEPT !["pump"] = 0]
        BY <3>3 DEF TimeoutPeek, TimeoutCancel, DispatchPeek, DispatchAdd,
           DispatchWrite, DispatchCancel, pumpVars, localVars, callVars
      <4> QED
        BY <1>0, <1>1, <2>1, <2>2, <4>1
    <3> QED
      BY <2>5, <3>1, <3>2, <3>3 DEF messagePump
  <2> QED
    BY <1>1, <2>1, <2>2, <2>3, <2>4, <2>5, OthersLeavePump
<1>2. CASE p # "pump"
  <2>1. p \in Clients /\ ClientOf(p) = p /\ ClientOf(p)' = p
    BY <1>2 DEF Completers, ClientOf
  <2>2. CASE messagePump
    BY <2>1, <2>2, PumpLeavesReaders
  <2>3. ASSUME NEW o \in Completers, CompleteRequest(o)
        PROVE  held'[p] \in {0, held[p], queueMap[p]}
    BY <1>0, <2>1, <2>3 DEF CompleteRequest, CompleteGet, CompletePeek, CompletePop,
       CompleteDelete, CompleteReady
  <2>4. messagePump \/ (\E o \in Completers : CompleteRequest(o)) \/ UNCHANGED held
    BY <1>0, OwnerFrame, CreateFrame, DeleteFrame, SendFrame, WaiterFrame, ReaderFrame
       DEF Next, QuietNext, callVars
  <2> QED
    BY <2>1, <2>2, <2>3, <2>4
<1> QED
  BY <1>1, <1>2

(* Nobody learns of a queue but from one who knows it, or when it is made. *)
LEMMA KnowsStep ==
    ASSUME Typed, Next, NEW c \in Clients, NEW k \in Queues, Knows(c, k)'
    PROVE  \/ Knows(c, k)
           \/ /\ k = created + 1 /\ created' = created + 1
              /\ queueMap' = [queueMap EXCEPT ![c] = created + 1]
<1>0. /\ queueMap \in [Clients -> 0..created] /\ created \in Nat /\ k # 0 /\ PlacesOK
  BY BoundsAssumption, SMTT(30) DEF Typed, TypeOK, QueuesOK, Queues
<1>1. CASE queueMap'[c] = k
  BY <1>0, <1>1, MapKinds DEF Knows
<1>2. ASSUME NEW s \in Senders, pc'[s] = "push", target'[s].client = c,
             target'[s].queue = k
      PROVE  Knows(c, k)
  BY <1>2, SenderLooksUp DEF Knows
<1>3. ASSUME NEW id \in Accepted', dest'[id].client = c, dest'[id].queue = k
      PROVE  Knows(c, k)
  <2>1. CASE id \in Accepted
    BY <1>3, <2>1, Growth DEF Knows
  <2>2. ASSUME NEW s \in Senders, Pushes(s) PROVE Knows(c, k)
    <3>1. CASE id = nextId + 1
      <4>1. target[s].client = c /\ target[s].queue = k /\ pc[s] = "push"
        BY <1>3, <2>2, <3>1, PushFacts DEF Pushes
      <4> QED
        BY <4>1 DEF Knows
    <3> QED
      BY <2>1, <2>2, <3>1, PushFacts
  <2> QED
    BY <1>0, <2>1, <2>2, RequestKinds DEF Pops, Accepted
<1>4. ASSUME NEW p \in Completers, ClientOf(p)' = c, held'[p] = k
      PROVE  Knows(c, k)
  BY <1>0, <1>4, HolderLooksUp DEF Knows
<1> QED
  BY <1>1, <1>2, <1>3, <1>4 DEF Knows

LEMMA OwnedStep == ASSUME Typed, Owned, Next PROVE Owned'
<1>0. /\ queueMap \in [Clients -> 0..created] /\ created \in Nat
      /\ OneOwner /\ Newest /\ Queues \subseteq Nat
  BY BoundsAssumption, SMTT(30) DEF Typed, TypeOK, QueuesOK, Owned, Queues
<1>1. OneOwner'
  <2> SUFFICES ASSUME NEW k \in Queues, NEW c \in Clients, NEW d \in Clients,
                      Knows(c, k)', Knows(d, k)'
               PROVE  c = d
    BY DEF OneOwner
  <2>1. Knows(c, k) => k <= created
    BY <1>0 DEF Newest
  <2>2. Knows(d, k) => k <= created
    BY <1>0 DEF Newest
  <2>3. CASE Knows(c, k) /\ Knows(d, k)
    BY <1>0, <2>3 DEF OneOwner
  <2>4. CASE /\ k = created + 1
             /\ queueMap' = [queueMap EXCEPT ![c] = created + 1]
             /\ queueMap' = [queueMap EXCEPT ![d] = created + 1]
    BY <1>0, <2>4, SMTT(30)
  <2> QED
    BY <1>0, <2>1, <2>2, <2>3, <2>4, KnowsStep, SMTT(30)
<1>2. Newest'
  <2> SUFFICES ASSUME NEW c \in Clients, NEW k \in Queues, Knows(c, k)'
               PROVE  k <= created' /\ (queueMap'[c] # 0 => k <= queueMap'[c])
    BY DEF Newest
  <2>1. CASE Knows(c, k)
    <3>1. k <= created /\ (queueMap[c] # 0 => k <= queueMap[c])
      BY <1>0, <2>1 DEF Newest
    <3>2. created \in Nat /\ created' \in Nat /\ created <= created'
      BY Growth
    <3>3. queueMap'[c] \in {0, queueMap[c], created + 1}
      BY <1>0, MapKinds
    <3> QED
      BY <1>0, <3>1, <3>2, <3>3, SMTT(30)
  <2>2. CASE /\ k = created + 1 /\ created' = created + 1
             /\ queueMap' = [queueMap EXCEPT ![c] = created + 1]
    BY <1>0, <2>2, SMTT(30)
  <2> QED
    BY <2>1, <2>2, KnowsStep
<1> QED
  BY <1>1, <1>2 DEF Owned

-----------------------------------------------------------------------------
(* Queues are sorted; what was transmitted comes before what is queued; the *)
(* queue the pump is about to peek into is the latest it transmitted from   *)
(* for its client, and the request it holds between Peek and Write comes    *)
(* after what was transmitted and before what is queued.                    *)
Sorted ==
    \A k \in Queues : \A i, j \in 1..Len(elements[k]) :
        i < j => elements[k][i] < elements[k][j]

(* Request id is no later than the requests in its queue. *)
Heads(id) ==
    \A j \in 1..Len(elements[dest[id].queue]) : id <= elements[dest[id].queue][j]
SentFirst == \A i \in 1..Len(sent) : Heads(sent[i])

Before(x, y) ==
    \/ dest[x].queue < dest[y].queue
    \/ dest[x].queue = dest[y].queue /\ x <= y
SentBefore(id) ==
    \A i \in 1..Len(sent) :
        dest[sent[i]].client = clientID => Before(sent[i], id)
PeekLast ==
    pc["pump"] = "peek" =>
        \A i \in 1..Len(sent) :
            dest[sent[i]].client = clientID => dest[sent[i]].queue <= held["pump"]
Holding == pc["pump"] \in {"add", "write"} /\ ~crashed
HeldNext ==
    Holding =>
        /\ dest[bundle["pump"]].client = clientID
        /\ SentBefore(bundle["pump"]) /\ Heads(bundle["pump"])

Order == Sorted /\ SentFirst /\ PeekLast /\ HeldNext /\ TransmitInOrder

LEMMA SortedStep == ASSUME Typed, Sorted, Next PROVE Sorted'
<1>0. PlacesOK /\ RequestsKnown /\ nextId \in Nat
  BY BoundsAssumption, SMTT(30) DEF Typed, TypeOK, Ready, RequestsOK
<1>1. CASE UNCHANGED elements
  BY <1>1 DEF Sorted
<1>2. ASSUME NEW s \in Senders, Pushes(s), NEW k \in Queues,
             NEW i \in 1..Len(elements'[k]), NEW j \in 1..Len(elements'[k]), i < j
      PROVE  elements'[k][i] < elements'[k][j]
  <2>1. CASE k # target[s].queue
    BY <1>2, <2>1, PushFacts DEF Sorted
  <2>2. CASE k = target[s].queue
    <3>1. Len(elements[k]) \in Nat /\ Len(elements'[k]) = Len(elements[k]) + 1
      BY <1>2, <2>2, PushFacts
    <3>2. i \in 1..Len(elements[k]) /\ elements'[k][i] = elements[k][i]
      <4>1. i # Len(elements[k]) + 1
        BY <1>2, <3>1, SMTT(30)
      <4> QED
        BY <1>2, <2>2, <4>1, PushFacts
    <3>3. elements[k][i] \in Accepted
      BY <1>0, <3>2 DEF RequestsKnown
    <3>4. CASE j \in 1..Len(elements[k]) /\ elements'[k][j] = elements[k][j]
      BY <1>2, <3>2, <3>4 DEF Sorted
    <3>5. CASE elements'[k][j] = nextId + 1
      BY <1>0, <3>2, <3>3, <3>5, SMTT(30) DEF Accepted
    <3> QED
      BY <1>2, <2>2, <3>4, <3>5, PushFacts
  <2> QED
    BY <2>1, <2>2
<1>3. ASSUME NEW p \in Completers, Pops(p), NEW k \in Queues,
             NEW i \in 1..Len(elements'[k]), NEW j \in 1..Len(elements'[k]), i < j
      PROVE  elements'[k][i] < elements'[k][j]
  <2>1. CASE k # held[p]
    BY <1>3, <2>1, PopFacts DEF Sorted
  <2>2. CASE k = held[p]
    <3>1. /\ i + 1 \in 1..Len(elements[k]) /\ elements'[k][i] = elements[k][i + 1]
          /\ j + 1 \in 1..Len(elements[k]) /\ elements'[k][j] = elements[k][j + 1]
          /\ Len(elements'[k]) \in Nat
      BY <1>3, <2>2, PopFacts
    <3>2. i + 1 < j + 1
      BY <1>3, <3>1, SMTT(30)
    <3> QED
      BY <3>1, <3>2 DEF Sorted
  <2> QED
    BY <2>1, <2>2
<1> QED
  BY <1>0, <1>1, <1>2, <1>3, RequestKinds DEF Sorted

(* Pushes are later, and pops only drop requests. *)
LEMMA HeadsStep ==
    ASSUME Typed, Next, NEW id \in Accepted, Heads(id)
    PROVE  Heads(id)'
<1>0. PlacesOK /\ RequestsKnown /\ nextId \in Nat /\ created \in 0..MaxConnects
  BY BoundsAssumption, SMTT(30) DEF Typed, TypeOK, Ready, RequestsOK, QueuesOK
<1>1. dest'[id] = dest[id]
  BY Growth
<1>2. PICK k \in Queues : dest[id].queue = k /\ dest'[id].queue = k
  BY <1>0, <1>1, BoundsAssumption, SMTT(30) DEF RequestsKnown, Queues
<1> SUFFICES ASSUME NEW j \in 1..Len(elements'[k]) PROVE id <= elements'[k][j]
  BY <1>2 DEF Heads
<1>3. CASE j \in 1..Len(elements[k]) /\ elements'[k][j] = elements[k][j]
  BY <1>2, <1>3 DEF Heads
<1>4. ASSUME NEW s \in Senders, Pushes(s) PROVE id <= elements'[k][j]
  <2>1. CASE elements'[k][j] = nextId + 1
    BY <1>0, <2>1, SMTT(30) DEF Accepted
  <2> QED
    BY <1>3, <1>4, <2>1, PushFacts
<1>5. ASSUME NEW p \in Completers, Pops(p) PROVE id <= elements'[k][j]
  <2>1. CASE k = held[p]
    <3>1. j + 1 \in 1..Len(elements[k]) /\ elements'[k][j] = elements[k][j + 1]
      BY <1>5, <2>1, PopFacts
    <3> QED
      BY <1>2, <3>1 DEF Heads
  <2> QED
    BY <1>3, <1>5, <2>1, PopFacts
<1> QED
  BY <1>0, <1>3, <1>4, <1>5, RequestKinds

(* What a successful Write appends to sent, index by index. *)
LEMMA WriteFacts ==
    ASSUME Typed, ~crashed, messagePump, Writes
    PROVE  /\ bundle["pump"] \in Accepted /\ Holding
           /\ Len(sent) \in Nat /\ Len(sent') = Len(sent) + 1
           /\ \A i \in 1..Len(sent') :
                 \/ i \in 1..Len(sent) /\ sent'[i] = sent[i]
                 \/ i = Len(sent) + 1 /\ sent'[i] = bundle["pump"]
           /\ UNCHANGED <<elements, nextId, dest>>
<1>1. bundle["pump"] \in Accepted /\ bundle["pump"] \in Ids /\ sent \in Seq(Ids)
  BY PumpHolds DEF Writes, Typed, TypeOK, RequestsOK
<1>2. UNCHANGED <<elements, nextId, dest>>
  BY PumpFrame DEF Typed, TypeOK, sendVars
<1>3. Holding
  BY DEF Writes, Holding
<1> QED
  BY <1>1, <1>2, <1>3, AppendProperties, SMTT(30) DEF Writes

LEMMA SentFirstStep == ASSUME Typed, SentFirst, HeldNext, Next PROVE SentFirst'
<1>0. PlacesOK /\ RequestsKnown /\ ~crashed
  BY DEF Typed, TypeOK, Ready, Next, QuietNext
<1> SUFFICES ASSUME NEW i \in 1..Len(sent') PROVE Heads(sent[i])'
  BY DEF SentFirst
<1>1. \E id \in Accepted : sent'[i] = id /\ Heads(id)
  <2>1. CASE UNCHANGED sent
    BY <1>0, <2>1 DEF RequestsKnown, SentFirst
  <2>2. CASE messagePump /\ Writes
    <3>1. CASE i \in 1..Len(sent) /\ sent'[i] = sent[i]
      BY <1>0, <3>1 DEF RequestsKnown, SentFirst
    <3>2. CASE sent'[i] = bundle["pump"]
      BY <1>0, <2>2, <3>2, WriteFacts DEF HeldNext
    <3> QED
      BY <1>0, <2>2, <3>1, <3>2, WriteFacts
  <2> QED
    BY <1>0, <2>1, <2>2, SentKinds
<1>2. PICK id \in Accepted : sent'[i] = id /\ Heads(id)
  BY <1>1
<1>3. Heads(id)'
  BY <1>2, HeadsStep
<1> QED
  BY <1>2, <1>3 DEF Heads

(* From which statement the pump comes to each place.                       *)
LEMMA PumpArrives ==
    ASSUME PlacesOK, messagePump
    PROVE  /\ completing["pump"] = "no"
           /\ pc'["pump"] = "select" => PumpLoop
           /\ pc'["pump"] = "request" => PumpOnRequest
           /\ pc'["pump"] = "ready" => PumpOnReady
           /\ pc'["pump"] = "check" => RequestGet \/ TimeoutCheck \/ TimeoutCancel \/ ReadyGet
           /\ pc'["pump"] = "get" => PumpCheck
           /\ pc'["pump"] = "peek" => DispatchGet
           /\ pc'["pump"] = "add" => DispatchPeek
           /\ pc'["pump"] = "write" => DispatchAdd
           /\ pc'["pump"] = "fail" => DispatchWrite
           /\ pc'["pump"] = "done" => PumpOnStop
           /\ pc'["pump"] = "timeout" => PumpOnTimer
           /\ pc'["pump"] = "timedout" => TimeoutCheck
           /\ pc'["pump"] = "expire" => TimeoutGet
           /\ pc'["pump"] = "cancel" => TimeoutPeek
           /\ pc'["pump"] \notin {"idle", "lock", "signal", "push"}
<1>1. ASSUME NEW from, NEW to, PumpStep(from, to)
      PROVE  completing["pump"] = "no" /\ pc'["pump"] = to
  BY <1>1 DEF PumpStep, Step, PlacesOK, Services
<1>2. /\ PumpLoop => pc'["pump"] = "select" /\ completing["pump"] = "no"
      /\ PumpOnStop => pc'["pump"] = "done" /\ completing["pump"] = "no"
      /\ PumpOnRequest => pc'["pump"] = "request" /\ completing["pump"] = "no"
      /\ PumpOnTimer => pc'["pump"] = "timeout" /\ completing["pump"] = "no"
      /\ PumpOnReady => pc'["pump"] = "ready" /\ completing["pump"] = "no"
  BY <1>1 DEF PumpLoop, PumpOnStop, PumpOnRequest, PumpOnTimer, PumpOnReady
<1>3. /\ RequestGet => pc'["pump"] \in {"loop", "check"} /\ completing["pump"] = "no"
      /\ ReadyGet => pc'["pump"] = "check" /\ completing["pump"] = "no"
      /\ PumpCheck => pc'["pump"] \in {"loop", "get"} /\ completing["pump"] = "no"
  BY <1>1 DEF RequestGet, ReadyGet, PumpCheck
<1>4. /\ TimeoutCheck => pc'["pump"] \in {"timedout", "check"} /\ completing["pump"] = "no"
      /\ TimeoutGet => pc'["pump"] = "expire" /\ completing["pump"] = "no"
      /\ TimeoutPeek => pc'["pump"] = "cancel" /\ completing["pump"] = "no"
      /\ TimeoutCancel => pc'["pump"] = "check" /\ completing["pump"] = "no"
  BY <1>1 DEF TimeoutCheck, TimeoutGet, TimeoutPeek, TimeoutCancel
<1>5. /\ DispatchGet => pc'["pump"] \in {"loop", "peek"} /\ completing["pump"] = "no"
      /\ DispatchPeek => pc'["pump"] = "add" /\ completing["pump"] = "no"
      /\ DispatchAdd => pc'["pump"] = "write" /\ completing["pump"] = "no"
      /\ DispatchWrite => pc'["pump"] \in {"loop", "fail"} /\ completing["pump"] = "no"
      /\ DispatchCancel => pc'["pump"] = "loop" /\ completing["pump"] = "no"
  BY <1>1 DEF DispatchGet, DispatchPeek, DispatchAdd, DispatchWrite, DispatchCancel
<1> QED
  BY <1>2, <1>3, <1>4, <1>5 DEF messagePump

(* While the pump works for a client nothing it already transmitted changes *)
(* place.                                                                   *)
LEMMA SentBeforeStep ==
    ASSUME Typed, Next, UNCHANGED <<sent, clientID>>, NEW id \in Accepted, SentBefore(id)
    PROVE  SentBefore(id)'
<1>1. \A x \in Accepted : dest'[x] = dest[x]
  BY Growth
<1>2. \A i \in 1..Len(sent) : sent[i] \in Accepted
  BY DEF Typed, Ready, RequestsKnown
<1> QED
  BY <1>1, <1>2 DEF SentBefore, Before

(* The pump reaches "peek" by looking its client's queue up, and keeps what *)
(* it knows while others run.                                               *)
LEMMA PeekLastStep == ASSUME Typed, Owned, PeekLast, Next PROVE PeekLast'
<1>0. /\ PlacesOK /\ PumpReady /\ RequestsKnown /\ ~crashed /\ created \in 0..MaxConnects
      /\ queueMap \in [Clients -> 0..created]
  BY BoundsAssumption, SMTT(30) DEF Typed, TypeOK, Ready, Next, QuietNext, QueuesOK
<1> SUFFICES ASSUME pc'["pump"] = "peek", NEW i \in 1..Len(sent'),
                    dest'[sent'[i]].client = clientID'
             PROVE  dest'[sent'[i]].queue <= held'["pump"]
  BY DEF PeekLast
<1>1. \A x \in Accepted : dest'[x] = dest[x]
  BY Growth
<1>2. UNCHANGED sent
  BY <1>0, SentKinds DEF Writes
<1>3. sent[i] \in Accepted
  BY <1>0, <1>2 DEF RequestsKnown
<1>4. CASE messagePump
  <2>1. DispatchGet
    BY <1>0, <1>4, PumpArrives
  <2>2. /\ clientID' = clientID /\ held'["pump"] = queueMap[clientID]
        /\ queueMap[clientID] # 0 /\ clientID \in Clients
    BY <1>0, <2>1 DEF DispatchGet, PumpStep, Step, PlacesOK, Services, PumpReady,
       Typed, TypeOK, QueuesOK, Completers
  <2>3. /\ dest[sent[i]].client = clientID /\ dest[sent[i]].queue \in 1..created
        /\ dest[sent[i]].queue \in Queues
    BY <1>0, <1>1, <1>2, <1>3, <2>2, BoundsAssumption, SMTT(30) DEF RequestsKnown, Queues
  <2>4. Knows(clientID, dest[sent[i]].queue)
    BY <1>3, <2>3 DEF Knows
  <2> QED
    BY <1>1, <1>2, <1>3, <2>2, <2>3, <2>4 DEF Owned, Newest
<1>5. ~Start /\ ~CompleteRequest("pump")
  BY <1>0 DEF Start, PlacesOK, Services, PumpReady, CompleteRequest, CompleteGet,
     CompletePeek, CompletePop, CompleteDelete, CompleteReady
<1> QED
  BY <1>1, <1>2, <1>3, <1>4, <1>5, OthersLeavePump DEF PeekLast

LEMMA HeldNextStep ==
    ASSUME Typed, Owned, Sorted, SentFirst, PeekLast, HeldNext, Next
    PROVE  HeldNext'
<1>0. PlacesOK /\ PumpReady /\ RequestsKnown /\ ~crashed
  BY DEF Typed, TypeOK, Ready, Next, QuietNext
<1> SUFFICES ASSUME Holding'
             PROVE  \E id : /\ id = bundle'["pump"] /\ dest'[id].client = clientID'
                            /\ SentBefore(id)' /\ Heads(id)'
  BY DEF HeldNext, SentBefore, Heads, Before
<1>1. \A x \in Accepted : dest'[x] = dest[x]
  BY Growth
<1>2. UNCHANGED sent
  BY <1>0, SentKinds DEF Writes, Holding
<1>3. ASSUME NEW id \in Accepted, id = bundle'["pump"], dest[id].client = clientID,
             UNCHANGED clientID, SentBefore(id), Heads(id)
      PROVE  /\ dest'[id].client = clientID'
             /\ SentBefore(id)' /\ Heads(id)'
  BY <1>1, <1>2, <1>3, SentBeforeStep, HeadsStep
<1>4. CASE Holding /\ UNCHANGED clientID /\ bundle'["pump"] = bundle["pump"]
  BY <1>0, <1>3, <1>4, PumpHolds DEF HeldNext, Holding
<1>5. CASE messagePump
  <2>1. DispatchPeek \/ DispatchAdd
    BY <1>0, <1>5, PumpArrives DEF Holding
  <2>2. CASE DispatchAdd
    BY <1>0, <1>4, <2>2 DEF DispatchAdd, PumpStep, Step, Holding, callVars, pumpVars,
       localVars
  <2>3. CASE DispatchPeek
    <3>1. /\ UNCHANGED clientID /\ pc["pump"] = "peek"
          /\ ~IsEmpty(elements[held["pump"]])
          /\ bundle'["pump"] = Peek(elements[held["pump"]])
      BY <1>0, <2>3 DEF DispatchPeek, PumpStep, Step, Holding, pumpVars, localVars, Typed,
         TypeOK, RequestsOK, Completers
    <3>2. PICK k \in Queues : k = held["pump"] /\ elements[k] \in Seq(Ids)
      BY <1>0, <3>1, PumpHolds
    <3>3. PICK id : id = bundle'["pump"] /\ id = elements[k][1] /\ 1 \in 1..Len(elements[k])
      BY <3>1, <3>2, PeekProperties
    <3>4. id \in Accepted /\ dest[id].queue = k /\ dest[id].client \in Clients
      BY <1>0, <3>3 DEF RequestsKnown
    <3>5. dest[id].client = clientID
      <4>1. clientID \in Clients /\ Knows(clientID, k)
        BY <1>0, <3>1, <3>2 DEF PumpReady, Knows, ClientOf, Completers
      <4>2. Knows(dest[id].client, k)
        BY <3>4 DEF Knows
      <4> QED
        BY <3>4, <4>1, <4>2 DEF Owned, OneOwner
    <3>6. Heads(id)
      <4> SUFFICES ASSUME NEW j \in 1..Len(elements[k]) PROVE id <= elements[k][j]
        BY <3>4 DEF Heads
      <4>1. CASE j = 1
        BY <3>3, <3>4, <4>1, SMTT(30) DEF Accepted
      <4>2. CASE 1 < j
        <5>1. id < elements[k][j]
          BY <3>3, <4>2 DEF Sorted
        <5>2. elements[k][j] \in Accepted /\ nextId \in Nat
          BY <1>0, SMTT(30) DEF RequestsKnown, Typed, TypeOK, RequestsOK
        <5> QED
          BY <3>4, <5>1, <5>2, SMTT(30) DEF Accepted
      <4> QED
        BY <4>1, <4>2, SMTT(30)
    <3>7. SentBefore(id)
      <4> SUFFICES ASSUME NEW i \in 1..Len(sent), dest[sent[i]].client = clientID
                   PROVE  Before(sent[i], id)
        BY DEF SentBefore
      <4>1. dest[sent[i]].queue <= k /\ dest[sent[i]].queue \in Nat /\ k \in Nat
        BY <1>0, <3>1, <3>2, SMTT(30) DEF PeekLast, RequestsKnown, Queues
      <4>2. CASE dest[sent[i]].queue < k
        BY <3>4, <4>2 DEF Before
      <4>3. CASE dest[sent[i]].queue = k
        BY <3>3, <3>4, <4>3 DEF Before, SentFirst, Heads
      <4> QED
        BY <4>1, <4>2, <4>3, SMTT(30)
    <3> QED
      BY <1>3, <3>1, <3>3, <3>4, <3>5, <3>6, <3>7
  <2> QED
    BY <2>1, <2>2, <2>3
<1>6. ~Start /\ ~CompleteRequest("pump")
  BY <1>0 DEF Start, PlacesOK, Services, PumpReady, Holding, CompleteRequest, CompleteGet,
     CompletePeek, CompletePop, CompleteDelete, CompleteReady
<1>7. CASE ~messagePump
  <2>1. /\ pc'["pump"] = pc["pump"] /\ bundle'["pump"] = bundle["pump"]
        /\ UNCHANGED <<clientID, crashed>>
    BY <1>6, <1>7, OthersLeavePump
  <2> QED
    BY <1>4, <2>1 DEF Holding
<1> QED
  BY <1>5, <1>7

LEMMA OrderStep == ASSUME Typed, Owned, Order, Next PROVE Order'
<1>0. PlacesOK /\ RequestsKnown /\ ~crashed /\ TransmitInOrder /\ HeldNext
  BY DEF Typed, TypeOK, Ready, Next, QuietNext, Order
<1>1. \A x \in Accepted : dest'[x] = dest[x]
  BY Growth
<1>2. TransmitInOrder'
  <2>1. CASE UNCHANGED sent
    BY <1>0, <1>1, <2>1, SMTT(30) DEF TransmitInOrder, RequestsKnown
  <2>2. CASE messagePump /\ Writes
    <3> SUFFICES ASSUME NEW i \in 1..Len(sent'), NEW j \in 1..Len(sent'), i < j,
                        dest[sent'[i]].client = dest[sent'[j]].client
                 PROVE  Before(sent'[i], sent'[j])
      BY <1>0, <2>2, WriteFacts, SMTT(30) DEF TransmitInOrder, Before
    <3>1. i \in 1..Len(sent) /\ sent'[i] = sent[i]
      BY <1>0, <2>2, WriteFacts, SMTT(30)
    <3>2. CASE j \in 1..Len(sent) /\ sent'[j] = sent[j]
      BY <1>0, <3>1, <3>2 DEF TransmitInOrder, Before
    <3>3. CASE sent'[j] = bundle["pump"]
      BY <1>0, <2>2, <3>1, <3>3, WriteFacts DEF HeldNext, SentBefore
    <3> QED
      BY <1>0, <2>2, <3>2, <3>3, WriteFacts
  <2> QED
    BY <1>0, <2>1, <2>2, SentKinds
<1> QED
  BY <1>2, SortedStep, SentFirstStep, PeekLastStep, HeldNextStep DEF Order

-----------------------------------------------------------------------------
(* The invariants together.                                                 *)

LEMMA InitReady ==
    ASSUME Init
    PROVE  /\ TypeOK /\ SendersReady /\ PumpReady /\ ReadersReady /\ WaitersReady
           /\ RequestsKnown
<1> USE BoundsAssumption, CapacityAssumption, GoroutinesAssumption
<1>1. PlacesOK /\ FlagsOK /\ ChannelsOK
  <2>1. PlacesOK
    BY DEF Init, PlacesOK
  <2>2. FlagsOK
    BY DEF Init, FlagsOK
  <2>3. ChannelsOK
    BY SMTT(30) DEF Init, ChannelsOK
  <2> QED
    BY <2>1, <2>2, <2>3
<1>2. QueuesOK
  BY SMTT(30) DEF Init, QueuesOK, Nowhere
<1>3. RequestsOK
  BY SMTT(30) DEF Init, RequestsOK, EmptyQueue
<1>4. SendersReady /\ PumpReady /\ ReadersReady /\ WaitersReady
  BY DEF Init, SendersReady, PumpReady, ReadersReady, WaitersReady, Services, Completers
<1>5. RequestsKnown
  BY SMTT(30) DEF Init, RequestsKnown, Accepted, EmptyQueue
<1> QED
  BY <1>1, <1>2, <1>3, <1>4, <1>5 DEF TypeOK

LEMMA InitOrder == Init => Owned /\ Order
<1> SUFFICES ASSUME Init PROVE Owned /\ Order
  OBVIOUS
<1>1. sent = <<>> /\ Accepted = {} /\ \A k \in Queues : elements[k] = <<>>
  BY SMTT(30) DEF Init, Accepted, EmptyQueue
<1>2. \A c \in Clients : \A k \in Queues : ~Knows(c, k)
  <2>1. \A s \in Senders : pc[s] = "idle"
    BY DEF Init
  <2>2. /\ \A c \in Clients : queueMap[c] = 0
        /\ \A p \in Completers : held[p] = 0
    BY DEF Init
  <2>3. 0 \notin Queues
    BY SMTT(30) DEF Queues
  <2> QED
    BY <1>1, <2>1, <2>2, <2>3 DEF Knows
<1>3. pc["pump"] = "idle"
  BY DEF Init, Services
<1>4. Sorted /\ SentFirst /\ TransmitInOrder
  BY <1>1, SMTT(30) DEF Sorted, SentFirst, TransmitInOrder
<1>5. PeekLast /\ HeldNext
  BY <1>3 DEF PeekLast, HeldNext, Holding
<1> QED
  BY <1>2, <1>4, <1>5 DEF Owned, OneOwner, Newest, Order

LEMMA OrderStutter == ASSUME Owned, Order, UNCHANGED vars PROVE (Owned /\ Order)'
<1>1. /\ pc' = pc /\ target' = target /\ nextId' = nextId /\ dest' = dest
      /\ queueMap' = queueMap /\ elements' = elements /\ created' = created
      /\ clientID' = clientID /\ held' = held /\ bundle' = bundle
      /\ crashed' = crashed /\ sent' = sent
  BY DEF vars, data, sendVars, mapVars, pumpVars, localVars, callVars, eventVars
<1>2. \A c, k : Knows(c, k)' <=> Knows(c, k)
  BY <1>1 DEF Knows, Accepted, ClientOf
<1>3. Owned'
  BY <1>1, <1>2 DEF Owned, OneOwner, Newest
<1>4. Sorted' /\ SentFirst'
  BY <1>1 DEF Order, Sorted, SentFirst, Heads
<1>5. PeekLast' /\ TransmitInOrder'
  BY <1>1, SMTT(30) DEF Order, PeekLast, TransmitInOrder
<1>6. HeldNext'
  BY <1>1 DEF Order, HeldNext, Holding, SentBefore, Before, Heads
<1> QED
  BY <1>3, <1>4, <1>5, <1>6 DEF Order

(* A connection adds a creator, and a creator that leaves makes at most one *)
(* queue: k queues and n creators for m connections.                        *)
LEMMA CountConnect ==
    ASSUME NEW k \in Nat, NEW n \in Nat, NEW m \in 0..MaxConnects,
           k + n <= m, m < MaxConnects
    PROVE  k + (n + 1) <= m + 1 /\ m + 1 \in 0..MaxConnects
    BY BoundsAssumption, SMTT(30)

LEMMA CountCreate ==
    ASSUME NEW k \in Nat, NEW n \in Nat, NEW m \in 0..MaxConnects, k + n <= m
    PROVE  /\ k + (n - 1) <= m /\ (k + 1) + (n - 1) <= m
           /\ k + 1 \in Nat /\ k \in 0..m
    BY BoundsAssumption, SMTT(30)

LEMMA CountNone == 0 + 0 <= 0
    BY SMTT(30)

LEMMA CountTyped ==
    ASSUME QueuesOK
    PROVE  created \in Nat /\ connects \in 0..MaxConnects
    BY BoundsAssumption, SMTT(30) DEF QueuesOK

LOCAL INSTANCE FiniteSetTheorems

(* Each CreateClient makes at most one queue, so there are no more queues   *)
(* than connections.                                                        *)
Creating == {c \in Clients : creator[c] # "idle"}
CreatedOnConnect ==
    IsFiniteSet(Creating) /\ created + Cardinality(Creating) <= connects
CreatingOK == CreatedOnConnect /\ connects \in 0..MaxConnects /\ created \in Nat

LEMMA CreatingStep == ASSUME Typed, CreatedOnConnect, Next PROVE CreatingOK'
<1>0. /\ IsFiniteSet(Creating) /\ Cardinality(Creating) \in Nat
      /\ created + Cardinality(Creating) <= connects
      /\ created \in Nat /\ connects \in 0..MaxConnects
      /\ creator \in [Clients -> {"idle", "check", "create"}]
  <2>1. QueuesOK /\ PlacesOK
    BY DEF Typed, TypeOK
  <2>2. IsFiniteSet(Creating) /\ created + Cardinality(Creating) <= connects
    BY DEF CreatedOnConnect
  <2>3. Cardinality(Creating) \in Nat
    BY <2>2, FS_CardinalityType
  <2>4. creator \in [Clients -> {"idle", "check", "create"}]
    BY <2>1 DEF PlacesOK
  <2> QED
    BY <2>1, <2>2, <2>3, <2>4, CountTyped
<1>1. ASSUME NEW c \in Clients, Connect(c) PROVE CreatingOK'
  <2>1. Creating' = Creating \cup {c} /\ c \notin Creating
    BY <1>0, <1>1 DEF Connect, Creating
  <2>2. IsFiniteSet(Creating') /\ Cardinality(Creating') = Cardinality(Creating) + 1
    BY <1>0, <2>1, FS_AddElement
  <2>3. created' = created /\ connects' = connects + 1 /\ connects < MaxConnects
    BY <1>1 DEF Connect, mapVars
  <2>4. /\ created + (Cardinality(Creating) + 1) <= connects + 1
        /\ connects + 1 \in 0..MaxConnects
    BY <1>0, <2>3, CountConnect
  <2> QED
    BY <1>0, <2>2, <2>3, <2>4 DEF CreatingOK, CreatedOnConnect
<1>2. ASSUME NEW c \in Clients, Create(c) PROVE CreatingOK'
  <2>1. c \in Creating
    BY <1>0, <1>2 DEF Create, CreateCheck, CreateClient, Creating
  <2>2. /\ IsFiniteSet(Creating \ {c})
        /\ Cardinality(Creating \ {c}) = Cardinality(Creating) - 1
    BY <1>0, <2>1, FS_RemoveElement
  <2>3. Creating' = Creating \/ Creating' = Creating \ {c}
    BY <1>0, <1>2 DEF Create, CreateCheck, CreateClient, Creating
  <2>4. connects' = connects
    BY <1>2 DEF Create, CreateCheck, CreateClient
  <2>5. \/ created' = created
        \/ created' = created + 1 /\ Creating' = Creating \ {c}
    BY <1>0, <1>2 DEF Create, CreateCheck, CreateClient, Creating, mapVars
  <2>6. /\ created + (Cardinality(Creating) - 1) <= connects
        /\ (created + 1) + (Cardinality(Creating) - 1) <= connects
        /\ created + 1 \in Nat
    BY <1>0, CountCreate
  <2> QED
    BY <1>0, <2>2, <2>3, <2>4, <2>5, <2>6 DEF CreatingOK, CreatedOnConnect
<1>3. CASE UNCHANGED <<creator, created, connects>>
  <2>1. Creating' = Creating /\ created' = created /\ connects' = connects
    BY <1>3 DEF Creating
  <2>2. IsFiniteSet(Creating') /\ created' + Cardinality(Creating') <= connects'
    BY <1>0, <2>1
  <2> QED
    BY <1>0, <2>1, <2>2 DEF CreatingOK, CreatedOnConnect
<1>4. PlacesOK
  BY DEF Typed, TypeOK
<1>5. CASE Start \/ StopCall \/ Stop
  BY <1>3, <1>4, <1>5, OwnerFrame DEF mapVars, linkVars
<1>6. CASE \E c \in Clients : Disconnect(c) \/ Delete(c)
  BY <1>3, <1>6, DeleteFrame
<1>7. CASE \E s \in Senders : SendRequest(s)
  BY <1>3, <1>4, <1>7, SendFrame DEF linkVars
<1>8. CASE \E p \in Completers : CompleteRequest(p)
  BY <1>3, <1>4, <1>8, CompleteFrame DEF linkVars
<1>9. CASE messagePump
  BY <1>3, <1>4, <1>9, PumpFrame DEF linkVars
<1>10. CASE \E n \in Sends : Deadline(n) \/ waitForTimeout(n)
  BY <1>3, <1>10, WaiterFrame DEF mapVars, linkVars
<1>11. CASE \E c \in Clients : ocppMessageHandler(c) \/ \E id \in Ids : Receive(c, id)
  BY <1>3, <1>4, <1>11, ReaderFrame DEF mapVars, linkVars
<1> QED
  BY <1>1, <1>2, <1>5, <1>6, <1>7, <1>8, <1>9, <1>10, <1>11 DEF Next, QuietNext

LEMMA InitTyped == Init => Typed /\ CreatedOnConnect
<1> SUFFICES ASSUME Init PROVE Typed /\ CreatedOnConnect
  OBVIOUS
<1>1. Creating = {} /\ created = 0 /\ connects = 0
  BY DEF Init, Creating
<1>2. CreatedOnConnect
  BY <1>1, CountNone, FS_EmptySet DEF CreatedOnConnect
<1> QED
  BY <1>2, InitReady DEF Typed, Ready

LEMMA TypedStep ==
    ASSUME Typed, CreatedOnConnect, [Next]_vars PROVE Typed' /\ CreatedOnConnect'
<1>1. CASE Next
  <2>1. CreatedOnConnect' /\ connects' \in 0..MaxConnects /\ created' \in Nat
    BY <1>1, CreatingStep DEF CreatingOK
  <2>2. created' \in 0..connects'
    <3>1. Cardinality(Creating') \in Nat
      BY <2>1, FS_CardinalityType DEF CreatedOnConnect
    <3> QED
      BY <2>1, <3>1, CountCreate DEF CreatedOnConnect
  <2>3. QueuesOK'
    BY <1>1, <2>1, <2>2, QueuesStep
  <2>4. PlacesOK' /\ FlagsOK'
    BY <1>1, PlacesStep, FlagsStep DEF Typed, TypeOK
  <2>5. ChannelsOK' /\ RequestsOK'
    BY <1>1, ChannelsStep, RequestsStep
  <2>6. SendersReady' /\ PumpReady' /\ ReadersReady' /\ WaitersReady' /\ RequestsKnown'
    BY <1>1, SendersStep, PumpReadyStep, ReadersStep, WaitersStep, RequestsKnownStep
  <2> QED
    BY <2>1, <2>3, <2>4, <2>5, <2>6 DEF Typed, TypeOK, Ready
<1>2. CASE UNCHANGED vars
  <2> USE <1>2 DEF vars, data, sendVars, mapVars, chanVars, pumpVars, localVars, ctxVars,
        callVars, linkVars, eventVars
  <2>1. PlacesOK' /\ FlagsOK' /\ ChannelsOK'
    BY DEF Typed, TypeOK, PlacesOK, FlagsOK, ChannelsOK
  <2>2. QueuesOK' /\ RequestsOK'
    BY DEF Typed, TypeOK, QueuesOK, RequestsOK
  <2>3. SendersReady' /\ PumpReady' /\ ReadersReady' /\ WaitersReady'
    BY DEF Typed, Ready, SendersReady, PumpReady, ReadersReady, WaitersReady, Accepted
  <2>4. RequestsKnown'
    BY DEF Typed, Ready, RequestsKnown, Accepted
  <2>5. CreatedOnConnect'
    BY DEF CreatedOnConnect, Creating
  <2> QED
    BY <2>1, <2>2, <2>3, <2>4, <2>5 DEF Typed, TypeOK, Ready
<1> QED
  BY <1>1, <1>2

LEMMA TypedInvariant == Spec => []Typed
  BY InitTyped, TypedStep, PTL DEF Spec

LEMMA OrderInvariant == Spec => [](Owned /\ Order)
<1>1. ASSUME Typed, Owned, Order, [Next]_vars PROVE (Owned /\ Order)'
  <2>1. CASE Next
    BY <1>1, <2>1, OwnedStep, OrderStep
  <2>2. CASE UNCHANGED vars
    BY <1>1, <2>2, OrderStutter
  <2> QED
    BY <1>1, <2>1, <2>2
<1> QED
  BY <1>1, InitOrder, TypedInvariant, PTL DEF Spec

(* The variables keep their types, and the queues and channels never hold   *)
(* more than they can, whatever clients, senders and timeouts there are.    *)
THEOREM TypeCorrect == Spec => []TypeOK
<1>1. Typed => TypeOK
  BY DEF Typed
<1> QED
  BY <1>1, TypedInvariant, PTL

(* dispatchNextRequest hands the requests of a client to the websocket in   *)
(* the order SendRequest accepted them, and none of an earlier connection   *)
(* after one of a later connection.                                         *)
THEOREM RequestsInOrder == Spec => []TransmitInOrder
<1>1. Order => TransmitInOrder
  BY DEF Order
<1> QED
  BY <1>1, OrderInvariant, PTL
=============================================================================
