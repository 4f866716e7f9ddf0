------------------------------ MODULE Station ------------------------------
(***************************************************************************)
(* How a charge point (ocpp1.6/charge_point.go) and a charging station     *)
(* (ocpp2.0.1/charging_station.go) match the outcome of a request with the *)
(* caller that waits for it.  The callbacks wait in a callback queue       *)
(* (internal/callbackqueue) in the order of the requests; outcomes come    *)
(* from two goroutines, the reader and the dispatcher's pump, through two  *)
(* channels, and a third goroutine, asyncCallbackHandler, gives each to    *)
(* the callback that is first in the queue.  Nothing compares identifiers. *)
(*                                                                         *)
(* Requests are numbered in the order in which TryQueue accepts them.  Of  *)
(* the dispatcher the module has its lock, its channels, its timer, Pause  *)
(* and Resume.  CompleteRequest is one step, and so is the dispatch of a   *)
(* request with the setting of the timer; module ClientDispatcher takes    *)
(* them apart.                                                             *)
(***************************************************************************)
EXTENDS Integers, Sequences, FiniteSets

CONSTANTS
  MaxRequests,  \* bound on requests made
  MaxClosings   \* bound on the times the link goes down, lost or closed by Stop

ASSUME MaxRequestsAssumption == MaxRequests \in Nat
ASSUME MaxClosingsAssumption == MaxClosings \in Nat

VARIABLES
  made,           \* number of requests accepted by TryQueue
  cpc,            \* the callers
  callbacks,      \* cp.callbacks, for the only key "main"
  mutex,          \* callbacksMutex: the caller inside TryQueue, or 0
  queue,          \* the dispatcher's requestQueue
  requestChannel, \* "open", "closed" or "nil"
  requestC,       \* number of tokens in it
  pending,        \* the pending request, or 0
  ready,          \* number of tokens in readyForDispatch
  paused,         \* the dispatcher is paused
  armed,          \* its timer: "timeout", "tick" (24 h) or "off"
  rdy,            \* local of messagePump
  canceled,       \* the request whose error the pump is about to pass on, or 0
  ppc,            \* messagePump
  rpc,            \* the reader
  received,       \* the request whose outcome it handles, or 0
  kind,           \* a result or an error
  confC,          \* cp.confirmationHandler, of capacity 1
  errC,           \* cp.errorHandler, of capacity 1
  apc,            \* asyncCallbackHandler
  taken,          \* the request whose outcome it has in hand, or 0
  link,           \* the websocket: "up", "down" or "closed"
  closings,       \* number of times the link went down
  dpc,            \* the goroutine in onDisconnected
  npc,            \* the goroutine in onReconnected
  spc,            \* the goroutine that calls Stop
  stopC,          \* cp.stopC is closed
  mispaired,      \* a callback got the outcome of another request
  crashed,        \* a goroutine has panicked
  raced,          \* two outcomes could overtake each other
  doubled         \* a request was canceled and answered

callVars == <<made, cpc, callbacks, mutex>>
queueVars == <<queue, pending, ready>>
chanVars == <<requestChannel, requestC>>
timerVars == <<paused, armed>>
pumpVars == <<rdy, canceled, ppc>>
readerVars == <<rpc, received, kind>>
outVars == <<confC, errC>>
asyncVars == <<apc, taken, mispaired>>
linkVars == <<link, closings, dpc, npc>>
stopVars == <<spc, stopC>>
vars == <<callVars, queueVars, chanVars, timerVars, pumpVars, readerVars, outVars, asyncVars,
          linkVars, stopVars, crashed, raced, doubled>>

Requests == 1..MaxRequests

(* The capacity of requestChannel, readyForDispatch and the two channels of
   outcomes. *)
Capacity == 1

Init ==
    /\ made = 0
    /\ cpc = [r \in Requests |-> "idle"]
    /\ callbacks = <<>>
    /\ mutex = 0
    /\ queue = <<>>
    /\ requestChannel = "open"
    /\ requestC = 0
    /\ pending = 0
    /\ ready = 0
    /\ paused = FALSE
    /\ armed = "tick"
    /\ rdy = TRUE
    /\ canceled = 0
    /\ ppc = "loop"
    /\ rpc = "read"
    /\ received = 0
    /\ kind = "none"
    /\ confC = <<>>
    /\ errC = <<>>
    /\ apc = "select"
    /\ taken = 0
    /\ link = "up"
    /\ closings = 0
    /\ dpc = "idle"
    /\ npc = "idle"
    /\ spc = "idle"
    /\ stopC = FALSE
    /\ mispaired = FALSE
    /\ crashed = FALSE
    /\ raced = FALSE
    /\ doubled = FALSE

------------------------------------------------------------------------------
(* The dispatcher's mutex, a sync.RWMutex: a caller keeps the read lock while
   it waits for room in requestChannel, Pause the write lock while it waits for
   the timer, and a writer that waits in Lock keeps new readers out. *)
Reading == \E r \in Requests : cpc[r] = "signal"
Writing == dpc = "drain"
WriterWaiting == dpc = "lock" \/ npc = "lock" \/ spc = "lock"
CanRLock == ~Writing /\ ~WriterWaiting
CanLock == ~Writing /\ ~Reading

------------------------------------------------------------------------------
(* SendRequest: CallbackQueue.TryQueue around the client's SendRequest *)

(* Mutant: the callback of a refused request stays in the queue. *)
TryQueueKept ==
    /\ made < MaxRequests
    /\ mutex = 0
    /\ requestChannel # "nil"
    /\ made' = made + 1
    /\ callbacks' = Append(callbacks, made + 1)
    /\ \/ /\ queue' = Append(queue, made + 1)
          /\ mutex' = made + 1
          /\ cpc' = [cpc EXCEPT ![made + 1] = "lock"]
       \/ /\ cpc' = [cpc EXCEPT ![made + 1] = "returned"]
          /\ UNCHANGED <<queue, mutex>>
    /\ UNCHANGED <<pending, ready, chanVars, timerVars, pumpVars, readerVars, outVars, asyncVars,
                   linkVars, stopVars, crashed, doubled>>

(* The callback is queued, then the request, and the mutex held until the pump
   is told.  A request that is refused, by validation or since the dispatcher
   does not run, leaves no trace: its callback is taken off again under the
   same lock.  The test whether the dispatcher runs needs its read lock, as the
   send does that follows; they wait for it once. *)
TryQueue ==
    /\ made < MaxRequests
    /\ mutex = 0
    /\ requestChannel # "nil"
    /\ made' = made + 1
    /\ callbacks' = Append(callbacks, made + 1)
    /\ queue' = Append(queue, made + 1)
    /\ mutex' = made + 1
    /\ cpc' = [cpc EXCEPT ![made + 1] = "lock"]
    /\ UNCHANGED <<pending, ready, chanVars, timerVars, pumpVars, readerVars, outVars, asyncVars,
                   linkVars, stopVars, crashed, doubled>>

(* requestChannel <- true, with the dispatcher's read lock and the mutex held,
   panics on the closed channel ... *)
Signal(r) ==
    /\ \/ cpc[r] = "lock" /\ CanRLock
       \/ cpc[r] = "signal"
    /\ \/ requestChannel = "open" /\ requestC < Capacity
       \/ requestChannel = "closed"
    /\ requestC' = IF requestChannel = "open" THEN requestC + 1 ELSE requestC
    /\ crashed' = (requestChannel = "closed")
    /\ mutex' = 0
    /\ cpc' = [cpc EXCEPT ![r] = "wait"]
    /\ UNCHANGED <<made, callbacks, queueVars, requestChannel, timerVars, pumpVars, readerVars,
                   outVars, asyncVars, linkVars, stopVars, doubled>>

(* ... and blocks while the channel is full, or for ever when it is nil, as it
   is once the pump has ended. *)
SignalBlocks(r) ==
    /\ cpc[r] = "lock" /\ CanRLock
    /\ requestChannel = "nil" \/ (requestChannel = "open" /\ requestC = Capacity)
    /\ cpc' = [cpc EXCEPT ![r] = "signal"]
    /\ UNCHANGED <<made, callbacks, mutex, queueVars, chanVars, timerVars, pumpVars, readerVars,
                   outVars, asyncVars, linkVars, stopVars, crashed, doubled>>

(* With 1.6 the caller also waits for stopC. *)
ReturnStopped(r) ==
    /\ cpc[r] = "wait"
    /\ stopC
    /\ cpc' = [cpc EXCEPT ![r] = "returned"]
    /\ UNCHANGED <<made, callbacks, mutex, queueVars, chanVars, timerVars, pumpVars, readerVars,
                   outVars, asyncVars, linkVars, stopVars, crashed, doubled>>

------------------------------------------------------------------------------
(* The dispatcher: messagePump *)

(* reqChan(), evaluated before the select. *)
PumpLoop ==
    /\ ppc = "loop"
    /\ CanRLock
    /\ ppc' = "select"
    /\ UNCHANGED <<callVars, queueVars, chanVars, timerVars, rdy, canceled, readerVars, outVars,
                   asyncVars, linkVars, stopVars, crashed, doubled>>

PumpToken ==
    /\ ppc = "select"
    /\ requestC > 0
    /\ requestC' = requestC - 1
    /\ ppc' = "paused"
    /\ UNCHANGED <<callVars, queueVars, requestChannel, timerVars, rdy, canceled, readerVars,
                   outVars, asyncVars, linkVars, stopVars, crashed, doubled>>

PumpReady ==
    /\ ppc = "select"
    /\ ready > 0
    /\ ready' = ready - 1
    /\ rdy' = TRUE
    /\ ppc' = "paused"
    /\ UNCHANGED <<callVars, queue, pending, chanVars, timerVars, canceled, readerVars, outVars,
                   asyncVars, linkVars, stopVars, crashed, doubled>>

(* CompleteRequest of the first request, run by the pump, which is about to
   cancel it.  The pump is stuck for good when readyForDispatch is full. *)
Cancel(to) ==
    /\ canceled' = Head(queue)
    /\ queue' = Tail(queue)
    /\ pending' = IF pending = Head(queue) THEN 0 ELSE pending
    /\ ready' = IF ready < Capacity THEN ready + 1 ELSE ready
    /\ ppc' = IF ready < Capacity THEN to ELSE "stuck"

(* The timer has expired: the pending request, which is the first, times out.
   The 24 hours, too, may pass while a request is pending and the dispatcher
   paused; if none is, they are just counted again. *)
PumpTimer ==
    /\ ppc = "select"
    /\ armed = "timeout" \/ (armed = "tick" /\ pending # 0)
    /\ IF pending # 0
       THEN armed' = "off" /\ Cancel("timedout")
       ELSE armed' = "tick" /\ ppc' = "paused" /\ UNCHANGED <<queueVars, canceled>>
    /\ UNCHANGED <<callVars, chanVars, paused, rdy, readerVars, outVars, asyncVars, linkVars,
                   stopVars, crashed, doubled>>

(* Nothing is dispatched while the dispatcher is paused. *)
PumpPaused ==
    /\ ppc = "paused"
    /\ CanRLock
    /\ ppc' = IF ~paused /\ rdy /\ queue # <<>> THEN "dispatch" ELSE "loop"
    /\ UNCHANGED <<callVars, queueVars, chanVars, timerVars, rdy, canceled, readerVars, outVars,
                   asyncVars, linkVars, stopVars, crashed, doubled>>

(* dispatchNextRequest.  The queue may be empty by now, and the nil request is
   then dereferenced; a request that cannot be written is canceled. *)
PumpDispatch ==
    /\ ppc = "dispatch"
    /\ rdy' = FALSE
    /\ \/ /\ queue = <<>>
          /\ crashed' = TRUE
          /\ UNCHANGED <<queueVars, armed, canceled, ppc>>
       \/ /\ queue # <<>> /\ link = "up"
          /\ pending' = IF pending = 0 THEN Head(queue) ELSE pending
          /\ armed' = "timeout"
          /\ ppc' = "loop"
          /\ UNCHANGED <<queue, ready, canceled, crashed>>
       \/ /\ queue # <<>> /\ link # "up"
          /\ Cancel("failed")
          /\ UNCHANGED <<armed, crashed>>
    /\ UNCHANGED <<callVars, chanVars, paused, readerVars, outVars, asyncVars, linkVars, stopVars,
                   doubled>>

(* onRequestTimeout, called by the pump, waits for room in the channel.  Then
   the timer is set: to the tick in its own branch, else to the timeout. *)
PumpCancel ==
    /\ ppc \in {"timedout", "failed"}
    /\ Len(errC) < Capacity
    /\ errC' = Append(errC, canceled)
    /\ canceled' = 0
    /\ armed' = IF ppc = "timedout" THEN "tick" ELSE "timeout"
    /\ ppc' = IF ppc = "timedout" THEN "paused" ELSE "loop"
    /\ UNCHANGED <<callVars, queueVars, chanVars, paused, rdy, readerVars, confC, asyncVars,
                   linkVars, stopVars, crashed, doubled>>

(* requestChannel was closed: the queue is cleared, the channel set to nil. *)
PumpClosed ==
    /\ ppc = "select"
    /\ requestChannel = "closed" /\ requestC = 0
    /\ queue' = <<>>
    /\ ppc' = "exit"
    /\ UNCHANGED <<callVars, pending, ready, chanVars, timerVars, rdy, canceled, readerVars,
                   outVars, asyncVars, linkVars, stopVars, crashed, doubled>>

PumpExit ==
    /\ ppc = "exit"
    /\ CanLock
    /\ requestChannel' = "nil"
    /\ ppc' = "done"
    /\ UNCHANGED <<callVars, queueVars, requestC, timerVars, rdy, canceled, readerVars, outVars,
                   asyncVars, linkVars, stopVars, crashed, doubled>>

------------------------------------------------------------------------------
(* The reader: ocppMessageHandler *)

(* ParseMessage accepts an answer to the pending request. *)
Read(k) ==
    /\ rpc = "read"
    /\ link = "up"
    /\ pending # 0
    /\ received' = pending
    /\ kind' = k
    /\ rpc' = "complete"
    /\ UNCHANGED <<callVars, queueVars, chanVars, timerVars, pumpVars, outVars, asyncVars,
                   linkVars, stopVars, crashed, doubled>>

(* CompleteRequest: the request may have timed out meanwhile, which does not
   keep its answer from being passed on. *)
ReadComplete ==
    /\ rpc = "complete"
    /\ IF queue # <<>> /\ Head(queue) = received
       THEN /\ queue' = Tail(queue)
            /\ pending' = IF pending = received THEN 0 ELSE pending
            /\ ready' = IF ready < Capacity THEN ready + 1 ELSE ready
            /\ rpc' = IF ready < Capacity THEN "send" ELSE "ready"
            /\ UNCHANGED doubled
       ELSE /\ doubled' = TRUE
            /\ rpc' = "send"
            /\ UNCHANGED queueVars
    /\ UNCHANGED <<callVars, chanVars, timerVars, pumpVars, received, kind, outVars, asyncVars,
                   linkVars, stopVars, crashed>>

(* readyForDispatch was full. *)
ReadReady ==
    /\ rpc = "ready"
    /\ ready < Capacity
    /\ ready' = ready + 1
    /\ rpc' = "send"
    /\ UNCHANGED <<callVars, queue, pending, chanVars, timerVars, pumpVars, received, kind,
                   outVars, asyncVars, linkVars, stopVars, crashed, doubled>>

(* The response handler and the error handler of the client. *)
ReadSend ==
    /\ rpc = "send"
    /\ IF kind = "result"
       THEN Len(confC) < Capacity /\ confC' = Append(confC, received) /\ UNCHANGED errC
       ELSE Len(errC) < Capacity /\ errC' = Append(errC, received) /\ UNCHANGED confC
    /\ received' = 0
    /\ kind' = "none"
    /\ rpc' = "read"
    /\ UNCHANGED <<callVars, queueVars, chanVars, timerVars, pumpVars, asyncVars, linkVars,
                   stopVars, crashed, doubled>>

------------------------------------------------------------------------------
(* asyncCallbackHandler *)

(* Mutant: only results are taken, errors are left in their channel. *)
AsyncTakeResult ==
    /\ apc = "select"
    /\ confC # <<>>
    /\ taken' = Head(confC)
    /\ confC' = Tail(confC)
    /\ apc' = "dequeue"
    /\ UNCHANGED <<callVars, queueVars, chanVars, timerVars, pumpVars, readerVars, errC,
                   mispaired, linkVars, stopVars, crashed, doubled>>

AsyncTake ==
    /\ apc = "select"
    /\ \/ confC # <<>> /\ taken' = Head(confC) /\ confC' = Tail(confC) /\ UNCHANGED errC
       \/ errC # <<>> /\ taken' = Head(errC) /\ errC' = Tail(errC) /\ UNCHANGED confC
    /\ apc' = "dequeue"
    /\ UNCHANGED <<callVars, queueVars, chanVars, timerVars, pumpVars, readerVars, mispaired,
                   linkVars, stopVars, crashed, doubled>>

(* Mutant: the callback that was queued last is called. *)
AsyncDequeueLast ==
    /\ apc = "dequeue"
    /\ mutex = 0
    /\ callbacks # <<>>
    /\ callbacks' = SubSeq(callbacks, 1, Len(callbacks) - 1)
    /\ cpc' = [cpc EXCEPT ![callbacks[Len(callbacks)]] = "returned"]
    /\ mispaired' = (mispaired \/ taken # callbacks[Len(callbacks)])
    /\ taken' = 0
    /\ apc' = "select"
    /\ UNCHANGED <<made, mutex, queueVars, chanVars, timerVars, pumpVars, readerVars, outVars,
                   linkVars, stopVars, crashed, doubled>>

(* CallbackQueue.Dequeue, and the callback, which lets the caller return.  An
   outcome is dropped if there is no callback. *)
AsyncDequeue ==
    /\ apc = "dequeue"
    /\ mutex = 0
    /\ IF callbacks = <<>>
       THEN UNCHANGED <<callbacks, cpc, mispaired>>
       ELSE /\ callbacks' = Tail(callbacks)
            /\ cpc' = [cpc EXCEPT ![Head(callbacks)] = "returned"]
            /\ mispaired' = (mispaired \/ taken # Head(callbacks))
    /\ taken' = 0
    /\ apc' = "select"
    /\ UNCHANGED <<made, mutex, queueVars, chanVars, timerVars, pumpVars, readerVars, outVars,
                   linkVars, stopVars, crashed, doubled>>

AsyncStop ==
    /\ apc = "select"
    /\ stopC
    /\ apc' = "clear"
    /\ UNCHANGED <<callVars, queueVars, chanVars, timerVars, pumpVars, readerVars, outVars, taken,
                   mispaired, linkVars, stopVars, crashed, doubled>>

(* Mutant: one callback is taken off, not all. *)
AsyncClearOne ==
    /\ apc = "clear"
    /\ mutex = 0
    /\ callbacks' = IF callbacks = <<>> THEN <<>> ELSE Tail(callbacks)
    /\ apc' = "done"
    /\ UNCHANGED <<made, cpc, mutex, queueVars, chanVars, timerVars, pumpVars, readerVars,
                   outVars, taken, mispaired, linkVars, stopVars, crashed, doubled>>

(* clearCallbacks(false) takes the callbacks off, one by one. *)
AsyncClear ==
    /\ apc = "clear"
    /\ mutex = 0
    /\ callbacks' = IF callbacks = <<>> THEN <<>> ELSE Tail(callbacks)
    /\ apc' = IF callbacks = <<>> THEN "done" ELSE "clear"
    /\ UNCHANGED <<made, cpc, mutex, queueVars, chanVars, timerVars, pumpVars, readerVars,
                   outVars, taken, mispaired, linkVars, stopVars, crashed, doubled>>

------------------------------------------------------------------------------
(* The link *)

(* The websocket is marked not connected, and onDisconnected called ... *)
LinkLost ==
    /\ link = "up"
    /\ closings < MaxClosings
    /\ dpc = "idle"
    /\ link' = "down"
    /\ closings' = closings + 1
    /\ dpc' = "called"
    /\ UNCHANGED <<callVars, queueVars, chanVars, timerVars, pumpVars, readerVars, outVars,
                   asyncVars, npc, stopVars, crashed, doubled>>

(* ... which calls Pause, which waits for the lock. *)
PauseWait ==
    /\ dpc = "called"
    /\ ~CanLock
    /\ dpc' = "lock"
    /\ UNCHANGED <<callVars, queueVars, chanVars, timerVars, pumpVars, readerVars, outVars,
                   asyncVars, link, closings, npc, stopVars, crashed, doubled>>

(* With the lock, the timer is stopped and set to 24 hours.  If the pump has
   received its value and not set it again, Pause waits for another value. *)
PauseLock ==
    /\ dpc \in {"called", "lock"}
    /\ CanLock
    /\ IF armed = "off"
       THEN dpc' = "drain" /\ UNCHANGED timerVars
       ELSE dpc' = "idle" /\ armed' = "tick" /\ paused' = TRUE
    /\ UNCHANGED <<callVars, queueVars, chanVars, pumpVars, readerVars, outVars, asyncVars, link,
                   closings, npc, stopVars, crashed, doubled>>

PauseDrain ==
    /\ dpc = "drain"
    /\ armed # "off"
    /\ dpc' = "idle"
    /\ armed' = "tick"
    /\ paused' = TRUE
    /\ UNCHANGED <<callVars, queueVars, chanVars, pumpVars, readerVars, outVars, asyncVars, link,
                   closings, npc, stopVars, crashed, doubled>>

(* The client reconnects only after onDisconnected; onReconnected ... *)
LinkRestored ==
    /\ link = "down"
    /\ dpc = "idle" /\ npc = "idle"
    /\ link' = "up"
    /\ npc' = "called"
    /\ UNCHANGED <<callVars, queueVars, chanVars, timerVars, pumpVars, readerVars, outVars,
                   asyncVars, closings, dpc, stopVars, crashed, doubled>>

(* ... calls Resume, which waits for the lock ... *)
ResumeWait ==
    /\ npc = "called"
    /\ ~CanLock
    /\ npc' = "lock"
    /\ UNCHANGED <<callVars, queueVars, chanVars, timerVars, pumpVars, readerVars, outVars,
                   asyncVars, link, closings, dpc, stopVars, crashed, doubled>>

ResumeLock ==
    /\ npc \in {"called", "lock"}
    /\ CanLock
    /\ paused' = FALSE
    /\ npc' = "check"
    /\ UNCHANGED <<callVars, queueVars, chanVars, armed, pumpVars, readerVars, outVars, asyncVars,
                   link, closings, dpc, stopVars, crashed, doubled>>

(* Mutant: the timer of the pending request stays at 24 hours. *)
ResumeCheckUntimed ==
    /\ npc = "check"
    /\ npc' = IF pending # 0 THEN "idle" ELSE "ready"
    /\ UNCHANGED <<callVars, queueVars, chanVars, timerVars, pumpVars, readerVars, outVars,
                   asyncVars, link, closings, dpc, stopVars, crashed, doubled>>

(* ... and sets the timer for the pending request or, if there is none, wakes
   the pump. *)
ResumeCheck ==
    /\ npc = "check"
    /\ npc' = IF pending # 0 THEN "idle" ELSE "ready"
    /\ armed' = IF pending # 0 THEN "timeout" ELSE armed
    /\ UNCHANGED <<callVars, queueVars, chanVars, paused, pumpVars, readerVars, outVars,
                   asyncVars, link, closings, dpc, stopVars, crashed, doubled>>

ResumeReady ==
    /\ npc = "ready"
    /\ ready < Capacity
    /\ ready' = ready + 1
    /\ npc' = "idle"
    /\ UNCHANGED <<callVars, queue, pending, chanVars, timerVars, pumpVars, readerVars, outVars,
                   asyncVars, link, closings, dpc, stopVars, crashed, doubled>>

------------------------------------------------------------------------------
(* Stop *)

(* Client.Stop closes the websocket, for good ... *)
StopLink ==
    /\ spc = "idle"
    /\ closings < MaxClosings
    /\ closings' = closings + 1
    /\ spc' = "called"
    /\ link' = "closed"
    /\ UNCHANGED <<callVars, queueVars, chanVars, timerVars, pumpVars, readerVars, outVars,
                   asyncVars, dpc, npc, stopC, crashed, doubled>>

(* ... waits for the dispatcher's lock ... *)
StopWait ==
    /\ spc = "called"
    /\ ~CanLock
    /\ spc' = "lock"
    /\ UNCHANGED <<callVars, queueVars, chanVars, timerVars, pumpVars, readerVars, outVars,
                   asyncVars, linkVars, stopC, crashed, doubled>>

(* ... and closes requestChannel under it.  Only the charge point of 1.6 then
   tells asyncCallbackHandler and the callers; the charging station of 2.0.1 is
   done. *)
StopClose ==
    /\ spc \in {"called", "lock"}
    /\ CanLock
    /\ requestChannel' = "closed"
    /\ spc' \in {"async", "done"}
    /\ UNCHANGED <<callVars, queueVars, requestC, timerVars, pumpVars, readerVars, outVars,
                   asyncVars, linkVars, stopC, crashed, doubled>>

StopAsync ==
    /\ spc = "async"
    /\ stopC' = TRUE
    /\ spc' = "done"
    /\ UNCHANGED <<callVars, queueVars, chanVars, timerVars, pumpVars, readerVars, outVars,
                   asyncVars, linkVars, crashed, doubled>>

------------------------------------------------------------------------------
(* The outcomes that are on their way to asyncCallbackHandler. *)
Canceling == ppc \in {"timedout", "failed", "stuck"}
Answering == rpc \in {"ready", "send"}
WaitingResult == confC # <<>> \/ (Answering /\ kind = "result")
WaitingError == errC # <<>> \/ Canceling \/ (Answering /\ kind = "error")
Overtakable ==
    \/ WaitingResult /\ WaitingError
    \/ Canceling /\ Answering

Caller(r) == Signal(r) \/ SignalBlocks(r) \/ ReturnStopped(r)
PumpWorks ==
    \/ PumpLoop \/ PumpToken \/ PumpReady \/ (armed = "timeout" /\ PumpTimer) \/ PumpPaused
    \/ PumpDispatch \/ PumpCancel \/ PumpClosed \/ PumpExit
Pump == PumpWorks \/ PumpTimer
Reader == ReadComplete \/ ReadReady \/ ReadSend
Async == AsyncTake \/ AsyncDequeue \/ AsyncStop \/ AsyncClear
Pause == PauseWait \/ PauseLock \/ PauseDrain
Resume == ResumeWait \/ ResumeLock \/ ResumeCheck \/ ResumeReady
Stop == StopWait \/ StopClose \/ StopAsync

Live(A) == ~crashed /\ A /\ raced' = (raced \/ Overtakable')

Next ==
    \/ Live(TryQueue)
    \/ \E r \in Requests : Live(Caller(r))
    \/ Live(Pump)
    \/ \E k \in {"result", "error"} : Live(Read(k))
    \/ Live(Reader)
    \/ Live(Async)
    \/ Live(LinkLost) \/ Live(Pause) \/ Live(LinkRestored) \/ Live(Resume)
    \/ Live(StopLink) \/ Live(Stop)

(* Every goroutine that can go on does, and a timer set to the timeout fires.
   No answer need ever come, no lost link be restored, no 24 hours pass. *)
Fairness ==
    /\ \A r \in Requests : WF_vars(Live(Caller(r)))
    /\ WF_vars(Live(PumpWorks))
    /\ WF_vars(Live(Reader))
    /\ WF_vars(Live(Async))
    /\ WF_vars(Live(PauseWait \/ PauseLock))
    /\ WF_vars(Live(Resume))
    /\ WF_vars(Live(Stop))

Spec == Init /\ [][Next]_vars /\ Fairness

------------------------------------------------------------------------------
Data ==
    /\ made \in 0..MaxRequests
    /\ cpc \in [Requests -> {"idle", "lock", "signal", "wait", "returned"}]
    /\ callbacks \in Seq(Requests) /\ queue \in Seq(Requests)
    /\ mutex \in 0..MaxRequests /\ pending \in 0..MaxRequests /\ canceled \in 0..MaxRequests
    /\ requestC \in 0..Capacity /\ ready \in 0..Capacity
    /\ confC \in Seq(Requests) /\ Len(confC) <= Capacity
    /\ errC \in Seq(Requests) /\ Len(errC) <= Capacity
    /\ received \in 0..MaxRequests /\ taken \in 0..MaxRequests
    /\ closings \in 0..MaxClosings

Places ==
    /\ requestChannel \in {"open", "closed", "nil"}
    /\ armed \in {"timeout", "tick", "off"}
    /\ ppc \in {"loop", "select", "paused", "dispatch", "timedout", "failed", "stuck", "exit",
                "done"}
    /\ rpc \in {"read", "complete", "ready", "send"}
    /\ kind \in {"none", "result", "error"}
    /\ apc \in {"select", "dequeue", "clear", "done"}
    /\ link \in {"up", "down", "closed"}
    /\ dpc \in {"idle", "called", "lock", "drain"}
    /\ npc \in {"idle", "called", "lock", "check", "ready"}
    /\ spc \in {"idle", "called", "lock", "async", "done"}

Flags ==
    /\ paused \in BOOLEAN /\ rdy \in BOOLEAN /\ stopC \in BOOLEAN /\ mispaired \in BOOLEAN
    /\ crashed \in BOOLEAN /\ raced \in BOOLEAN /\ doubled \in BOOLEAN

(* Every variable has a value of its type; no channel holds more than it can. *)
TypeOK == Data /\ Places /\ Flags

Held(b) == IF b THEN 1 ELSE 0

(* The callback queue keeps step with the dispatcher's queue: there is one
   callback for every request queued and for every outcome on its way, as long
   as the client runs and no answer came in while its request timed out. *)
InStep ==
    requestChannel = "open" /\ ~doubled =>
        Len(callbacks) = Len(queue) + Len(confC) + Len(errC) + Held(Canceling) + Held(Answering)
                         + Held(apc = "dequeue")

(* A callback is called with the outcome of its own request, unless a result
   and an error were on their way at once, or two errors from the reader and
   the pump, or a request was both answered and canceled. *)
Paired == mispaired => raced \/ doubled

(* "In case of network issues (i.e. the remote host couldn't be reached), the
   function also returns an error": SendRequest always returns in the end. *)
SendReturns ==
    \A r \in Requests :
        cpc[r] = "lock" ~> (cpc[r] = "returned" \/ crashed \/ spc # "idle")

(* SendRequest returns, or the process has panicked, if the link stays up in
   the end, the lock of the callback queue is always released, and the pump is
   not stuck for good in sending itself the permit to transmit.  As long as the
   link is down nothing makes SendRequest return: the dispatcher is paused and
   its timer set to 24 hours. *)
SendReturnsConnected ==
    <>[](link = "up") /\ []<>(mutex = 0) /\ [](ppc # "stuck") => SendReturns

(* After Stop of the charge point of 1.6, no caller is left waiting and no
   callback in the queue, or the process has panicked, if the lock of the
   callback queue is always released.  It is not when a caller comes to tell
   the pump after the pump has ended: it then blocks on the nil channel. *)
StopReleases ==
    []<>(mutex = 0) =>
        (stopC ~> (crashed \/ (callbacks = <<>> /\ \A r \in Requests : cpc[r] # "wait")))

(* "Any pending requests are discarded": no caller waits for ever after Stop. *)
StopDiscards ==
    \A r \in Requests : (cpc[r] = "wait" /\ spc # "idle") ~> (cpc[r] = "returned" \/ crashed)

=============================================================================
