-------------------------- MODULE ClientDispatcher --------------------------
(***************************************************************************)
(* DefaultClientDispatcher (ocppj/dispatcher.go) with the request queue    *)
(* and the pending-request state it owns, and the goroutines that use it:  *)
(*   - application goroutines in Client.SendRequest (Senders);             *)
(*   - "pump", the dispatcher's messagePump;                               *)
(*   - "reader", the websocket read pump in Client.ocppMessageHandler;     *)
(*   - "pauser", the websocket write pump in Client.onDisconnected;        *)
(*   - "resumer", the reconnecting goroutine in Client.onReconnected;      *)
(*   - "owner", which calls Client.Start and Client.Stop.                  *)
(*                                                                         *)
(* One step is one access to state the goroutines share.  A goroutine that *)
(* blocks on a channel or on the RWMutex is one whose next action is       *)
(* disabled.  Request IDs are numbered in the order the queue accepts them.*)
(***************************************************************************)
EXTENDS Naturals, Sequences, RequestQueue, ClientState

CONSTANTS
    Senders,          \* application goroutines that send requests
    QueueCapacity,    \* FIFOClientQueue.capacity, 0 for no limit
    MaxRequests,      \* bound: requests the queue accepts in a behaviour
    MaxLinkLosses,    \* bound: disconnections in a behaviour
    MaxStops          \* bound: calls of Client.Stop in a behaviour

Services == {"pump", "reader", "pauser", "resumer", "owner"}
Completers == {"pump", "reader"}
Ids == 1..MaxRequests

ASSUME SendersAssumption == Senders \cap Services = {}
ASSUME CapacityAssumption == QueueCapacity \in Nat
ASSUME BoundsAssumption ==
    MaxRequests \in Nat /\ MaxLinkLosses \in Nat /\ MaxStops \in Nat
ASSUME NoneAssumption == None \notin Nat

VARIABLES
    pc,               \* the place of each goroutine
    requestQueue,     \* FIFOClientQueue.elements
    pendingRequest,   \* clientState.requestID
    requestChannel,   \* the chan bool: "nil", "open" or "closed"
    signals,          \* elements buffered in requestChannel (capacity 1)
    ready,            \* elements buffered in readyForDispatch (capacity 1)
    paused,           \* DefaultClientDispatcher.paused
    armed,            \* d.timer: "nil", "off", "tick" (24h) or "timeout"
    expired,          \* a value is buffered in timer.C (capacity 1)
    rdy,              \* messagePump's local flag
    completing,       \* the pump's and the reader's place in CompleteRequest
    bundle,           \* the request the pump and the reader work on
    link,             \* the websocket: "up", "down" (reconnecting), "closed"
    crashed,          \* a goroutine panicked: the process is gone
    nextId,           \* number of requests accepted so far
    sent,             \* requests handed to the websocket, in order
    atPeer,           \* transmitted requests the peer has yet to answer
    responded,        \* requests whose answer was handed to the application
    canceled,         \* requests passed to onRequestCancel
    linkLosses, stops \* counters for the bounds

coreVars  == <<pendingRequest, paused, rdy, crashed, sent>>
queueVars == <<requestQueue, nextId>>
chanVars  == <<requestChannel, signals, ready>>
timerVars == <<armed, expired>>
callVars  == <<completing, bundle>>
eventVars == <<atPeer, responded, canceled>>
envVars   == <<link, linkLosses, stops>>
worldVars == <<eventVars, envVars>>
data == <<coreVars, queueVars, chanVars, timerVars, callVars, worldVars>>
vars == <<pc, data>>

-----------------------------------------------------------------------------
(* d.mutex, a sync.RWMutex: a writer that waits in Lock (at "lock") keeps   *)
(* new readers out; one that is about to call Lock does not.  Only a sender *)
(* keeps the read lock, and only Pause the write lock, over several steps.  *)

Reading == \E s \in Senders : pc[s] = "signal"
Writing == pc["pauser"] \in {"drain", "reset"}
WriterWaiting == \E g \in Services : pc[g] = "lock"
CanRLock == ~Writing /\ ~WriterWaiting
CanLock  == ~Writing /\ ~Reading

Step(g, from, to) == pc[g] = from /\ pc' = [pc EXCEPT ![g] = to]

(* Lock() that finds the mutex taken waits, and Lock() that succeeds, at    *)
(* once or after the wait.                                                  *)
LockWait(g, from) == Step(g, from, "lock") /\ ~CanLock /\ UNCHANGED data
Lock(g, from, to) == CanLock /\ (Step(g, from, to) \/ Step(g, "lock", to))

-----------------------------------------------------------------------------
(* NewClient: nothing is started. *)
Init ==
    /\ pc = [g \in Senders \cup Services |->
                CASE g = "pump" -> "done" [] g = "owner" -> "stopped"
                  [] OTHER -> "idle"]
    /\ requestQueue = EmptyQueue /\ nextId = 0 /\ pendingRequest = None
    /\ requestChannel = "nil" /\ signals = 0 /\ ready = 0
    /\ paused = FALSE /\ armed = "nil" /\ expired = FALSE /\ rdy = TRUE
    /\ completing = [p \in Completers |-> "no"]
    /\ bundle = [p \in Completers |-> None]
    /\ link = "closed" /\ crashed = FALSE
    /\ sent = <<>> /\ atPeer = {} /\ responded = {} /\ canceled = {}
    /\ linkLosses = 0 /\ stops = 0

-----------------------------------------------------------------------------
(* Client.Start: the websocket connects first ...                           *)
Connect ==
    /\ Step("owner", "stopped", "starting")
    /\ pc["pump"] = "done" /\ pc["reader"] = "idle"
    /\ link' = "up"
    /\ UNCHANGED <<coreVars, chanVars, eventVars, queueVars, timerVars,
                   callVars, linkLosses, stops>>

(* ... then DefaultClientDispatcher.Start makes the channel and the timer   *)
(* and runs the pump.  All other state is as the last session left it.      *)
Start ==
    /\ pc["owner"] = "starting"
    /\ CanLock
    /\ pc' = [pc EXCEPT !["owner"] = "idle", !["pump"] = "loop"]
    /\ requestChannel' = "open" /\ signals' = 0
    /\ armed' = "tick" /\ expired' = FALSE
    /\ rdy' = TRUE
    /\ UNCHANGED <<worldVars, queueVars, callVars, pendingRequest, paused,
                   crashed, sent, ready>>

(* Client.Stop: the websocket is closed, with the disconnection handler     *)
(* replaced or the reconnection abandoned; IsRunning is tested ...          *)
StopLink ==
    /\ pc["pauser"] = "idle" /\ pc["resumer"] = "idle"
    /\ stops < MaxStops
    /\ CanRLock
    /\ Step("owner", "idle", IF requestChannel = "nil" THEN "stopped" ELSE "stopping")
    /\ link' = "closed"
    /\ atPeer' = {}
    /\ stops' = stops + 1
    /\ UNCHANGED <<coreVars, chanVars, queueVars, timerVars, callVars,
                   responded, canceled, linkLosses>>

(* ... then DefaultClientDispatcher.Stop: Lock, close(requestChannel).      *)
StopWait == LockWait("owner", "stopping")
Stop ==
    /\ Lock("owner", "stopping", "stopped")
    /\ requestChannel' = "closed"
    /\ UNCHANGED <<worldVars, coreVars, queueVars, timerVars, callVars,
                   signals, ready>>

-----------------------------------------------------------------------------
(* Client.SendRequest and DefaultClientDispatcher.SendRequest.              *)

(* The IsRunning check. *)
SendCheck(s) ==
    /\ Step(s, "idle", "push")
    /\ nextId < MaxRequests
    /\ CanRLock
    /\ requestChannel # "nil"
    /\ UNCHANGED data

(* Fault: a request is registered as pending when it is queued. *)
SendPushRegisters(s) ==
    /\ Step(s, "push", "lock")
    /\ nextId < MaxRequests /\ ~IsFull(requestQueue, QueueCapacity)
    /\ nextId' = nextId + 1
    /\ requestQueue' = Push(requestQueue, nextId + 1)
    /\ pendingRequest' = AddPendingRequest(pendingRequest, nextId + 1)
    /\ UNCHANGED <<worldVars, chanVars, timerVars, callVars, paused, rdy,
                   crashed, sent>>

(* requestQueue.Push: a full queue is the caller's error. *)
SendPush(s) ==
    /\ nextId < MaxRequests
    /\ \/ /\ IsFull(requestQueue, QueueCapacity)
          /\ Step(s, "push", "idle")
          /\ UNCHANGED queueVars
       \/ /\ ~IsFull(requestQueue, QueueCapacity)
          /\ Step(s, "push", "lock")
          /\ nextId' = nextId + 1
          /\ requestQueue' = Push(requestQueue, nextId + 1)
    /\ UNCHANGED <<worldVars, coreVars, chanVars, timerVars, callVars>>

SendLock(s) ==
    /\ Step(s, "lock", "signal")
    /\ CanRLock
    /\ UNCHANGED data

(* requestChannel <- true with the read lock held.  A send on the closed    *)
(* channel panics; one on the nil channel blocks for ever.                  *)
SendSignal(s) ==
    /\ Step(s, "signal", "idle")
    /\ \/ /\ requestChannel = "open" /\ signals = 0
          /\ signals' = 1
          /\ UNCHANGED crashed
       \/ /\ requestChannel = "closed"
          /\ crashed' = TRUE
          /\ UNCHANGED signals
    /\ UNCHANGED <<worldVars, queueVars, timerVars, callVars, pendingRequest,
                   paused, rdy, sent, requestChannel, ready>>

SendRequest(s) == SendCheck(s) \/ SendPush(s) \/ SendLock(s) \/ SendSignal(s)

-----------------------------------------------------------------------------
(* CompleteRequest, run by the reader and by the pump itself.               *)

CompletePeek(p) ==
    /\ completing[p] = "peek"
    /\ completing' = [completing EXCEPT ![p] =
          IF ~IsEmpty(requestQueue) /\ Peek(requestQueue) = bundle[p]
          THEN "pop" ELSE "no"]
    /\ UNCHANGED <<worldVars, coreVars, chanVars, queueVars, timerVars, pc,
                   bundle>>

CompletePop(p) ==
    /\ completing[p] = "pop"
    /\ completing' = [completing EXCEPT ![p] = "delete"]
    /\ requestQueue' = Pop(requestQueue)
    /\ UNCHANGED <<worldVars, coreVars, chanVars, timerVars, pc, bundle,
                   nextId>>

(* Fault: the completed request stays pending. *)
CompleteDeleteNothing(p) ==
    /\ completing[p] = "delete"
    /\ completing' = [completing EXCEPT ![p] = "ready"]
    /\ UNCHANGED <<pc, coreVars, bundle, queueVars, chanVars, timerVars,
                   worldVars>>

CompleteDelete(p) ==
    /\ completing[p] = "delete"
    /\ completing' = [completing EXCEPT ![p] = "ready"]
    /\ pendingRequest' = DeletePendingRequest(pendingRequest, bundle[p])
    /\ UNCHANGED <<worldVars, chanVars, queueVars, timerVars, pc, paused, rdy,
                   crashed, sent, bundle>>

(* Fault: the send does not wait for room in the channel. *)
CompleteReadyUnbounded(p) ==
    /\ completing[p] = "ready"
    /\ ready' = ready + 1
    /\ completing' = [completing EXCEPT ![p] = "no"]
    /\ UNCHANGED <<pc, coreVars, bundle, requestChannel, signals, queueVars,
                   timerVars, worldVars>>

(* readyForDispatch <- true, which blocks while the channel is full. *)
CompleteReady(p) ==
    /\ completing[p] = "ready"
    /\ ready = 0
    /\ ready' = 1
    /\ completing' = [completing EXCEPT ![p] = "no"]
    /\ UNCHANGED <<worldVars, coreVars, queueVars, timerVars, pc, bundle,
                   requestChannel, signals>>

CompleteRequest(p) ==
    CompletePeek(p) \/ CompletePop(p) \/ CompleteDelete(p) \/ CompleteReady(p)

-----------------------------------------------------------------------------
(* messagePump.  While the pump is inside CompleteRequest its place is the  *)
(* statement it returns to.                                                 *)

PumpStep(from, to) == completing["pump"] = "no" /\ Step("pump", from, to)

(* reqChan(), evaluated on entering the select. *)
PumpLoop ==
    /\ PumpStep("loop", "select")
    /\ CanRLock
    /\ UNCHANGED data

PumpOnRequest ==
    /\ PumpStep("select", "paused")
    /\ signals = 1
    /\ signals' = 0
    /\ UNCHANGED <<worldVars, coreVars, queueVars, timerVars, callVars,
                   requestChannel, ready>>

PumpOnReady ==
    /\ PumpStep("select", "paused")
    /\ ready = 1
    /\ ready' = 0
    /\ rdy' = TRUE
    /\ UNCHANGED <<worldVars, queueVars, timerVars, callVars, pendingRequest,
                   paused, crashed, sent, requestChannel, signals>>

(* The channel was closed by Stop: requestQueue.Init, then Lock ... *)
PumpOnClosed ==
    /\ PumpStep("select", "exit")
    /\ requestChannel = "closed" /\ signals = 0
    /\ requestQueue' = EmptyQueue
    /\ UNCHANGED <<worldVars, coreVars, chanVars, timerVars, callVars, nextId>>

(* ... requestChannel = nil.  The only goroutine Lock may have to wait for   *)
(* here is a sender about to panic on the closed channel.                   *)
PumpExit ==
    /\ PumpStep("exit", "done")
    /\ CanLock
    /\ requestChannel' = "nil"
    /\ UNCHANGED <<worldVars, coreVars, queueVars, timerVars, callVars,
                   signals, ready>>

(* The timer branch of the select, and its HasPendingRequest test. *)
PumpOnTimer ==
    /\ PumpStep("select", "timeout")
    /\ expired
    /\ expired' = FALSE
    /\ UNCHANGED <<worldVars, coreVars, chanVars, queueVars, callVars, armed>>

(* Fault: the timer branch does not ask whether a request is pending. *)
TimeoutUnchecked ==
    /\ PumpStep("timeout", "timedout")
    /\ UNCHANGED data

TimeoutCheck ==
    /\ PumpStep("timeout", IF HasPendingRequest(pendingRequest)
                           THEN "timedout" ELSE "rearm")
    /\ UNCHANGED data

(* Peek, then CompleteRequest of what was peeked.  An empty queue yields a  *)
(* zero bundle, whose nil Call is dereferenced.                             *)
TimeoutPeek ==
    /\ PumpStep("timedout", "cancel")
    /\ IF IsEmpty(requestQueue)
       THEN crashed' = TRUE /\ UNCHANGED callVars
       ELSE /\ bundle' = [bundle EXCEPT !["pump"] = Peek(requestQueue)]
            /\ completing' = [completing EXCEPT !["pump"] = "peek"]
            /\ UNCHANGED crashed
    /\ UNCHANGED <<worldVars, chanVars, queueVars, timerVars, pendingRequest,
                   paused, rdy, sent>>

(* Fault: the application is not told of the timeout. *)
TimeoutSilent ==
    /\ PumpStep("cancel", "rearm")
    /\ UNCHANGED data

(* onRequestCancel(id, "Request timed out"). *)
TimeoutCancel ==
    /\ PumpStep("cancel", "rearm")
    /\ canceled' = canceled \cup {bundle["pump"]}
    /\ UNCHANGED <<coreVars, chanVars, envVars, queueVars, timerVars, callVars,
                   atPeer, responded>>

(* timer.Reset(defaultTimeoutTick). *)
TimeoutRearm ==
    /\ PumpStep("rearm", "paused")
    /\ armed' = "tick"
    /\ UNCHANGED <<worldVars, coreVars, chanVars, queueVars, callVars,
                   expired>>

(* IsPaused. *)
PumpPaused ==
    /\ PumpStep("paused", IF paused THEN "loop" ELSE "check")
    /\ CanRLock
    /\ UNCHANGED data

(* rdy && !requestQueue.IsEmpty(). *)
PumpCheck ==
    /\ PumpStep("check", IF rdy /\ ~IsEmpty(requestQueue) THEN "peek" ELSE "loop")
    /\ UNCHANGED data

(* dispatchNextRequest: Peek ... *)
DispatchPeek ==
    /\ PumpStep("peek", "add")
    /\ IF IsEmpty(requestQueue)
       THEN crashed' = TRUE /\ UNCHANGED bundle
       ELSE /\ bundle' = [bundle EXCEPT !["pump"] = Peek(requestQueue)]
            /\ UNCHANGED crashed
    /\ UNCHANGED <<worldVars, chanVars, queueVars, timerVars, pendingRequest,
                   paused, rdy, sent, completing>>

(* Fault: rdy = false is forgotten after a dispatch. *)
DispatchAddStillReady ==
    /\ PumpStep("add", "write")
    /\ pendingRequest' = AddPendingRequest(pendingRequest, bundle["pump"])
    /\ UNCHANGED <<paused, rdy, crashed, sent, queueVars, chanVars, timerVars,
                   callVars, worldVars>>

(* ... AddPendingRequest, ignored while another request is pending.  The    *)
(* local rdy, read again only in the next iteration, is cleared here.       *)
DispatchAdd ==
    /\ PumpStep("add", "write")
    /\ pendingRequest' = AddPendingRequest(pendingRequest, bundle["pump"])
    /\ rdy' = FALSE
    /\ UNCHANGED <<worldVars, chanVars, queueVars, timerVars, callVars, paused,
                   crashed, sent>>

(* ... network.Write, which fails when the websocket is not connected; the  *)
(* failed request is completed ...                                          *)
DispatchWrite ==
    /\ \/ /\ link = "up"
          /\ PumpStep("write", "stop")
          /\ sent' = Append(sent, bundle["pump"])
          /\ atPeer' = atPeer \cup {bundle["pump"]}
          /\ UNCHANGED completing
       \/ /\ link # "up"
          /\ PumpStep("write", "fail")
          /\ completing' = [completing EXCEPT !["pump"] = "peek"]
          /\ UNCHANGED <<sent, atPeer>>
    /\ UNCHANGED <<chanVars, envVars, queueVars, timerVars, pendingRequest,
                   paused, rdy, crashed, bundle, responded, canceled>>

(* ... and passed to onRequestCancel. *)
DispatchCancel ==
    /\ PumpStep("fail", "stop")
    /\ canceled' = canceled \cup {bundle["pump"]}
    /\ UNCHANGED <<coreVars, chanVars, envVars, queueVars, timerVars, callVars,
                   atPeer, responded>>

(* if !timer.Stop() { <-timer.C }: Stop reports whether the timer ran. *)
TimerStop ==
    /\ PumpStep("stop", IF armed = "off" THEN "drain" ELSE "reset")
    /\ armed' = "off"
    /\ UNCHANGED <<worldVars, coreVars, chanVars, queueVars, callVars,
                   expired>>

TimerDrain ==
    /\ PumpStep("drain", "reset")
    /\ expired
    /\ expired' = FALSE
    /\ UNCHANGED <<worldVars, coreVars, chanVars, queueVars, callVars, armed>>

(* Fault: the timer goes back to its 24 hours after a dispatch. *)
TimerResetTick ==
    /\ PumpStep("reset", "loop")
    /\ armed' = "tick"
    /\ UNCHANGED <<coreVars, expired, queueVars, chanVars, callVars, worldVars>>

(* timer.Reset(d.timeout). *)
TimerReset ==
    /\ PumpStep("reset", "loop")
    /\ armed' = "timeout"
    /\ UNCHANGED <<worldVars, coreVars, chanVars, queueVars, callVars,
                   expired>>

messagePump ==
    \/ PumpLoop \/ PumpOnRequest \/ PumpOnReady \/ PumpOnClosed
    \/ PumpExit \/ PumpOnTimer \/ TimeoutCheck \/ TimeoutPeek
    \/ TimeoutCancel \/ TimeoutRearm \/ PumpPaused \/ PumpCheck \/ DispatchPeek \/ DispatchAdd
    \/ DispatchWrite \/ DispatchCancel \/ TimerStop \/ TimerDrain \/ TimerReset

(* The runtime fires the timer; its channel holds one value. *)
TimerExpires ==
    /\ armed \in {"tick", "timeout"}
    /\ armed' = "off"
    /\ expired' = TRUE
    /\ UNCHANGED <<worldVars, coreVars, chanVars, queueVars, callVars, pc>>

-----------------------------------------------------------------------------
(* The reader: Client.ocppMessageHandler on a CALL_RESULT or a CALL_ERROR.  *)

(* ParseMessage: the answer to a request that is not pending is discarded. *)
Receive(id) ==
    /\ link = "up"
    /\ id \in atPeer
    /\ atPeer' = atPeer \ {id}
    /\ \/ /\ GetPendingRequest(pendingRequest, id)
          /\ Step("reader", "idle", "deliver")
          /\ bundle' = [bundle EXCEPT !["reader"] = id]
          /\ completing' = [completing EXCEPT !["reader"] = "peek"]
       \/ /\ ~GetPendingRequest(pendingRequest, id)
          /\ Step("reader", "idle", "idle")
          /\ UNCHANGED callVars
    /\ UNCHANGED <<coreVars, chanVars, envVars, queueVars, timerVars,
                   responded, canceled>>

(* responseHandler / errorHandler, whatever CompleteRequest found. *)
Deliver ==
    /\ Step("reader", "deliver", "idle")
    /\ completing["reader"] = "no"
    /\ responded' = responded \cup {bundle["reader"]}
    /\ UNCHANGED <<coreVars, chanVars, envVars, queueVars, timerVars, callVars,
                   atPeer, canceled>>

-----------------------------------------------------------------------------
(* The connection drops: the websocket is marked not connected, and the     *)
(* write pump calls onDisconnected, which calls Pause.  Answers in transit  *)
(* are lost.                                                                *)
LinkLost ==
    /\ link = "up" /\ pc["owner"] \in {"idle", "starting"}
    /\ linkLosses < MaxLinkLosses
    /\ Step("pauser", "idle", "called")
    /\ link' = "down"
    /\ atPeer' = {}
    /\ linkLosses' = linkLosses + 1
    /\ UNCHANGED <<coreVars, chanVars, queueVars, timerVars, callVars,
                   responded, canceled, stops>>

(* Pause: Lock, then timer.Stop, on a timer that Start may not have made    *)
(* yet ...                                                                  *)
PauseWait == LockWait("pauser", "called")
PauseLock ==
    /\ Lock("pauser", "called", IF armed = "off" THEN "drain" ELSE "reset")
    /\ armed' = "off"
    /\ crashed' = (armed = "nil")
    /\ UNCHANGED <<worldVars, chanVars, queueVars, callVars, pendingRequest,
                   paused, rdy, sent, expired>>

(* ... <-timer.C if the timer was not running, with the lock held ... *)
PauseDrain ==
    /\ Step("pauser", "drain", "reset")
    /\ expired
    /\ expired' = FALSE
    /\ UNCHANGED <<worldVars, coreVars, chanVars, queueVars, callVars, armed>>

(* ... timer.Reset(defaultTimeoutTick), paused = true, Unlock. *)
PauseReset ==
    /\ Step("pauser", "reset", "idle")
    /\ armed' = "tick"
    /\ paused' = TRUE
    /\ UNCHANGED <<worldVars, chanVars, queueVars, callVars, pendingRequest,
                   rdy, crashed, sent, expired>>

(* handleReconnection, which follows onDisconnected, succeeds and calls     *)
(* onReconnected, which calls Resume.                                      *)
LinkRestored ==
    /\ link = "down" /\ pc["pauser"] = "idle"
    /\ pc["owner"] \in {"idle", "starting"}
    /\ Step("resumer", "idle", "called")
    /\ link' = "up"
    /\ UNCHANGED <<coreVars, chanVars, eventVars, queueVars, timerVars,
                   callVars, linkLosses, stops>>

(* Resume: Lock, paused = false, Unlock ... *)
ResumeWait == LockWait("resumer", "called")
ResumeLock ==
    /\ Lock("resumer", "called", "check")
    /\ paused' = FALSE
    /\ UNCHANGED <<worldVars, chanVars, queueVars, timerVars, callVars,
                   pendingRequest, rdy, crashed, sent>>

(* ... HasPendingRequest ... *)
ResumeCheck ==
    /\ Step("resumer", "check",
            IF HasPendingRequest(pendingRequest) THEN "reset" ELSE "ready")
    /\ UNCHANGED data

(* ... timer.Reset(d.timeout) ... *)
ResumeReset ==
    /\ Step("resumer", "reset", "idle")
    /\ armed' = "timeout"
    /\ UNCHANGED <<worldVars, coreVars, chanVars, queueVars, callVars,
                   expired>>

(* ... or readyForDispatch <- true. *)
ResumeReady ==
    /\ Step("resumer", "ready", "idle")
    /\ ready = 0
    /\ ready' = 1
    /\ UNCHANGED <<worldVars, coreVars, queueVars, timerVars, callVars,
                   requestChannel, signals>>

Pause  == PauseWait \/ PauseLock \/ PauseDrain \/ PauseReset
Resume ==
    ResumeWait \/ ResumeLock \/ ResumeCheck \/ ResumeReset \/ ResumeReady

-----------------------------------------------------------------------------
Next ==
    /\ ~crashed
    /\ \/ Connect \/ Start \/ StopLink \/ StopWait \/ Stop
       \/ \E s \in Senders : SendRequest(s)
       \/ \E p \in Completers : CompleteRequest(p)
       \/ \E id \in Ids : Receive(id)
       \/ messagePump \/ TimerExpires \/ Deliver
       \/ LinkLost \/ Pause \/ LinkRestored \/ Resume

Spec == Init /\ [][Next]_vars

(* Scheduling: a goroutine that can run does run, a select that finds the   *)
(* same channel ready again and again receives from it at last (it chooses  *)
(* at random), and a request timer that is running expires.  Nothing is     *)
(* assumed of the application, the peer, the network or the 24 hour tick.   *)
Live(A) == ~crashed /\ A

CommonFairness ==
    /\ WF_vars(Live(Start)) /\ WF_vars(Live(Deliver))
    /\ \A s \in Senders : WF_vars(Live(SendLock(s) \/ SendSignal(s)))
    /\ \A p \in Completers : WF_vars(Live(CompleteRequest(p)))
    /\ SF_vars(Live(PumpOnReady)) /\ SF_vars(Live(PumpOnRequest))
    /\ WF_vars(Live(armed = "timeout" /\ TimerExpires))

FairSpec ==
    /\ Spec /\ CommonFairness
    /\ WF_vars(Live(messagePump)) /\ WF_vars(Live(StopWait \/ Stop))
    /\ WF_vars(Live(Pause)) /\ WF_vars(Live(Resume))

(* The environment in which the dispatcher keeps all its promises: the link *)
(* stays up, nobody calls Stop, and the pump's timer branch and the         *)
(* handling of an answer exclude each other.  Answers may still be late or  *)
(* absent, and the timer may expire at any time.                            *)
TimeoutUnderway == pc["pump"] \in {"timeout", "timedout", "cancel", "rearm"}

PumpApart == messagePump /\ (pc'["pump"] = "timeout" => pc["reader"] = "idle")

QuietNext ==
    /\ ~crashed
    /\ \/ Connect \/ Start
       \/ \E s \in Senders : SendRequest(s)
       \/ \E p \in Completers : CompleteRequest(p)
       \/ \E id \in Ids : ~TimeoutUnderway /\ Receive(id)
       \/ PumpApart \/ TimerExpires \/ Deliver

QuietSpec == Init /\ [][QuietNext]_vars

FairQuietSpec == QuietSpec /\ CommonFairness /\ WF_vars(Live(PumpApart))

-----------------------------------------------------------------------------
SenderLabels == {"idle", "push", "lock", "signal"}
PumpLabels ==
    {"done", "loop", "select", "exit", "timeout", "timedout",
     "cancel", "rearm", "paused", "check", "peek", "add", "write", "fail",
     "stop", "drain", "reset"}
ReaderLabels  == {"idle", "deliver"}
PauserLabels  == {"idle", "called", "lock", "drain", "reset"}
ResumerLabels == {"idle", "called", "lock", "check", "reset", "ready"}
OwnerLabels   == {"stopped", "starting", "idle", "stopping", "lock"}
Labels == UNION {SenderLabels, PumpLabels, ReaderLabels, PauserLabels,
                 ResumerLabels, OwnerLabels}

PcOK ==
    /\ pc \in [Senders \cup Services -> Labels]
    /\ \A s \in Senders : pc[s] \in SenderLabels
    /\ pc["pump"] \in PumpLabels
    /\ pc["reader"] \in ReaderLabels
    /\ pc["pauser"] \in PauserLabels
    /\ pc["resumer"] \in ResumerLabels
    /\ pc["owner"] \in OwnerLabels

FlagsOK ==
    /\ paused \in BOOLEAN /\ rdy \in BOOLEAN
    /\ expired \in BOOLEAN /\ crashed \in BOOLEAN

DataOK ==
    /\ requestQueue \in Seq(Nat)
    /\ QueueCapacity > 0 => Len(requestQueue) <= QueueCapacity
    /\ pendingRequest \in Nat \cup {None}
    /\ requestChannel \in {"nil", "open", "closed"}
    /\ signals \in {0, 1} /\ ready \in {0, 1}
    /\ armed \in {"nil", "off", "tick", "timeout"}
    /\ completing \in [Completers -> {"no", "peek", "pop", "delete", "ready"}]
    /\ bundle \in [Completers -> Nat \cup {None}]
    /\ link \in {"up", "down", "closed"}
    /\ nextId \in Nat /\ linkLosses \in Nat /\ stops \in Nat
    /\ sent \in Seq(Nat \cup {None})
    /\ atPeer \subseteq Nat \cup {None}
    /\ responded \subseteq Nat \cup {None}
    /\ canceled \subseteq Nat \cup {None}

(* Every variable has its type, and the queue holds what it can hold. *)
TypeOK == PcOK /\ FlagsOK /\ DataOK

Transmitted(id) == \E i \in 1..Len(sent) : sent[i] = id

(* Requests reach the websocket in the order SendRequest queued them,       *)
(* whatever timeouts, disconnections, failed writes and restarts happen on  *)
(* the way: a request is never transmitted after a later one.               *)
TransmitInOrder ==
    \A i, j \in 1..Len(sent) : i < j => sent[i] <= sent[j]

(* "cannot send multiple messages concurrently": of the transmissions so    *)
(* far at most one belongs to a request still held in the queue.            *)
Queued(id) == \E k \in 1..Len(requestQueue) : requestQueue[k] = id
OneAtATime ==
    \A i, j \in 1..Len(sent) : Queued(sent[i]) /\ Queued(sent[j]) => i = j

(* The right to transmit is a single token: the pump's rdy flag, the value  *)
(* in readyForDispatch, or the request in flight, and exactly one of them.  *)
InFlight ==
    \/ pendingRequest # None
    \/ \E p \in Completers : completing[p] = "ready"
OnePermit ==
    /\ rdy \/ ready = 1 \/ InFlight
    /\ ~(rdy /\ ready = 1) /\ ~(rdy /\ InFlight) /\ ~(ready = 1 /\ InFlight)

(* The dispatcher times out only a request it has sent: as long as the link *)
(* has not dropped, a request that the timer branch finds pending, so that  *)
(* its time is over, was handed to the websocket.  What the branch goes on  *)
(* to cancel is the head of the queue, which is another request if an       *)
(* answer is handled between the test and the Peek (ClientTimeout).         *)
TimesOutSent ==
    /\ linkLosses = 0 /\ stops = 0
    /\ pc["pump"] = "timeout" /\ HasPendingRequest(pendingRequest)
    => Transmitted(pendingRequest)

(* The process does not panic, and the pump, the only receiver of           *)
(* readyForDispatch, never sends on it while it is full.                    *)
PumpNeverStuck ==
    /\ ~crashed
    /\ completing["pump"] = "ready" => ready = 0

(* No accepted request gets lost or settled twice: it is in the queue, or   *)
(* in the hands of the goroutine that is completing it, or it was answered  *)
(* or it was cancelled.                                                     *)
InHand(id) ==
    \/ pc["reader"] = "deliver" /\ bundle["reader"] = id
    \/ pc["pump"] \in {"cancel", "fail"} /\ bundle["pump"] = id
Settled(id) == id \in responded \/ id \in canceled
SettledOnce ==
    /\ responded \cap canceled = {}
    /\ \A id \in 1..nextId :
          /\ Queued(id) \/ InHand(id) \/ Settled(id)
          /\ ~(Queued(id) /\ Settled(id))

(* Every accepted request is eventually answered or cancelled. *)
EventuallySettled == \A id \in Ids : nextId >= id ~> Settled(id)

(* The dispatcher implements the one-at-a-time request channel: a request   *)
(* is in flight from its Write until DeletePendingRequest.                  *)
Channel == INSTANCE RequestChannel WITH
    Nobody <- None,
    backlog <- IF requestQueue # <<>> /\ Transmitted(Head(requestQueue))
               THEN Tail(requestQueue) ELSE requestQueue,
    inFlight <- IF pendingRequest # None /\ Transmitted(pendingRequest)
                THEN pendingRequest ELSE None,
    transmitted <- sent,
    accepted <- nextId
ImplementsChannel == Channel!Spec

-----------------------------------------------------------------------------
(* What the documentation says of the dispatcher.  Of Spec neither holds. *)

(* Pause: "You may keep enqueuing requests": SendRequest does not wait for ever
   for room in requestChannel.  It holds of QuietSpec; in Spec SendRequest may
   wait for ever if Pause, Resume or Stop wait for the lock meanwhile.       *)
EnqueueReturns ==
    \A s \in Senders : pc[s] = "signal" ~> pc[s] # "signal"

(* Pause: "Internal timers will be stopped", which onDisconnected waits for *)
(* before the reconnection.  Pause may wait, with the lock held, for a timer *)
(* value that the pump has taken, until the 24 hours it was set to are over. *)
PauseReturns == pc["pauser"] # "idle" ~> pc["pauser"] = "idle" \/ crashed

(* SetTimeout: a request is discarded when its response is not received     *)
(* within the period "after sending a request": one cancelled while the     *)
(* link never dropped was sent.  A timeout that overlaps the answer to the  *)
(* request before it may cancel one that was not.                           *)
OnlySentRequestsTimeOut ==
    linkLosses = 0 /\ stops = 0 => \A id \in canceled : Transmitted(id)
=============================================================================
