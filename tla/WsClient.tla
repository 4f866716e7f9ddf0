------------------------------ MODULE WsClient ------------------------------
(***************************************************************************)
(* The websocket client, ws/websocket.go, under ocppj/client.go: the write *)
(* pump, which cleans up after a lost connection and reconnects with a     *)
(* growing delay, the read pumps, which outlive their connection for as    *)
(* long as a message handler takes, callers of Write, and Stop.            *)
(*                                                                         *)
(* Connections are numbered.  client.webSocket is the latest, gen; all     *)
(* goroutines use the channels of that one whenever they get to use them.  *)
(* Goroutine g is the write pump of connection g, including what it calls: *)
(* cleanup, onDisconnected and handleReconnection.  Goroutine 0 is the one *)
(* that calls Start or StartWithRetries.                                   *)
(***************************************************************************)
EXTENDS Integers

CONSTANTS
  MaxConns,     \* bound on successful dials
  Callers,      \* goroutines that call Write
  RepeatTimes,  \* timeoutConfig.RetryBackOffRepeatTimes
  RandomRange,  \* timeoutConfig.RetryBackOffRandomRange
  WaitMinimum   \* timeoutConfig.RetryBackOffWaitMinimum

ASSUME ConstantsAssumption ==
    /\ MaxConns \in Nat
    /\ RepeatTimes \in Nat /\ RandomRange \in Nat /\ WaitMinimum \in Nat

VARIABLES
  retried,       \* StartWithRetries was used, and its first dial failed
  wpc,           \* write pumps, and goroutine 0
  rpc,           \* read pumps
  gen,           \* client.webSocket: the latest connection
  out,           \* number of messages in outQueue of each connection
  closeC,        \* of close requests in closeC
  forceCloseC,   \* of errors in forceCloseC
  closed,        \* outQueue and closeC are closed
  connected,     \* client.connected
  reconnectC,    \* client.reconnectC: nil, open or closed
  graceful,      \* the write pump that cleans up was told to close by Stop
  delay,         \* of handleReconnection
  attempts,      \* reconnectionAttempts, counted up to RepeatTimes
  pc,            \* callers of Write
  target,        \* the connection a blocked caller waits for
  spc,           \* the goroutine that calls ocppj.Client.Stop
  intercepted,   \* Stop has replaced the disconnected handler
  cleanupC,      \* the channel that Stop waits on: empty, full or closed
  paused,        \* the dispatcher is paused
  discs,         \* number of calls of ocppj.Client.onDisconnected
  recons,        \* and of onReconnected
  missed,        \* Stop came when nobody was there to notice
  overlapped,    \* a connection was lost before onReconnected was called for it
  crashed        \* a send on a closed channel has panicked

socketVars == <<gen, out, closeC, forceCloseC, closed>>
backOffVars == <<delay, attempts>>
callVars == <<pc, target>>
stopVars == <<spc, intercepted, cleanupC, missed>>
eventVars == <<paused, discs, recons, overlapped>>
vars == <<retried, wpc, rpc, gen, out, closeC, forceCloseC, closed, connected, reconnectC, graceful,
          delay, attempts, pc, target, spc, intercepted, cleanupC, paused, discs, recons, missed,
          overlapped, crashed>>

Conns == 1..MaxConns

(* The capacity of the channels of a WebSocket. *)
Capacity == 1

Init ==
    /\ retried = FALSE
    /\ wpc = [g \in 0..MaxConns |-> IF g = 0 THEN "dial" ELSE "none"]
    /\ rpc = [g \in Conns |-> "none"]
    /\ gen = 0
    /\ out = [g \in Conns |-> 0]
    /\ closeC = [g \in Conns |-> 0]
    /\ forceCloseC = [g \in Conns |-> 0]
    /\ closed = [g \in Conns |-> FALSE]
    /\ connected = FALSE
    /\ reconnectC = "nil"
    /\ graceful = FALSE
    /\ delay = 0
    /\ attempts = 0
    /\ pc = [t \in Callers |-> "idle"]
    /\ target = [t \in Callers |-> 0]
    /\ spc = "idle"
    /\ intercepted = FALSE
    /\ cleanupC = "empty"
    /\ paused = FALSE
    /\ discs = 0
    /\ recons = 0
    /\ missed = FALSE
    /\ overlapped = FALSE
    /\ crashed = FALSE

------------------------------------------------------------------------------
(* Start, and handleReconnection around it. *)

(* What goroutine g goes to when it starts to wait for the next attempt. *)
FirstDelay ==
    /\ delay' \in {WaitMinimum + r : r \in 0..RandomRange}
    /\ attempts' = 1

(* Mutant: the delay is doubled after every attempt. *)
NextDelayUnbounded ==
    /\ delay' \in {2 * delay + r : r \in 0..RandomRange}
    /\ attempts' = attempts + 1

NextDelay ==
    IF attempts < RepeatTimes
    THEN /\ delay' \in {2 * delay + r : r \in 0..RandomRange}
         /\ attempts' = attempts + 1
    ELSE UNCHANGED backOffVars

(* Start on its own gives up when the first dial fails, StartWithRetries and
   the write pump do not. *)
DialFails(g) ==
    /\ wpc[g] = "dial"
    /\ \/ /\ attempts = 0
          /\ wpc' = [wpc EXCEPT ![g] = "done"]
          /\ UNCHANGED <<backOffVars, retried>>
       \/ /\ attempts = 0
          /\ wpc' = [wpc EXCEPT ![g] = "wait"]
          /\ FirstDelay
          /\ retried' = TRUE
       \/ /\ attempts > 0
          /\ wpc' = [wpc EXCEPT ![g] = "wait"]
          /\ NextDelay
          /\ UNCHANGED retried
    /\ UNCHANGED <<rpc, socketVars, connected, reconnectC, graceful, callVars, stopVars,
                   eventVars, crashed>>

(* client.webSocket and client.reconnectC are replaced ... *)
Dial(g) ==
    /\ wpc[g] = "dial"
    /\ gen < MaxConns
    /\ gen' = gen + 1
    /\ reconnectC' = "open"
    /\ wpc' = [wpc EXCEPT ![g] = "install"]
    /\ UNCHANGED <<retried, rpc, out, closeC, forceCloseC, closed, connected, graceful, backOffVars, callVars,
                   stopVars, eventVars, crashed>>

(* Mutant: the first connection is announced as a reconnection. *)
InstallAnnounced(g) ==
    /\ wpc[g] = "install"
    /\ connected' = TRUE
    /\ wpc' = [wpc EXCEPT ![g] = "reconnected", ![gen] = "select"]
    /\ rpc' = [rpc EXCEPT ![gen] = "read"]
    /\ attempts' = 0
    /\ delay' = 0
    /\ UNCHANGED <<retried, socketVars, reconnectC, graceful, callVars, stopVars, eventVars, crashed>>

(* ... and the pumps of the new connection started.  The first connection was
   no reconnection, unless handleReconnection has made it. *)
Install(g) ==
    /\ wpc[g] = "install"
    /\ connected' = TRUE
    /\ wpc' = [wpc EXCEPT ![g] = IF attempts = 0 THEN "done" ELSE "reconnected", ![gen] = "select"]
    /\ rpc' = [rpc EXCEPT ![gen] = "read"]
    /\ attempts' = 0
    /\ delay' = 0
    /\ UNCHANGED <<retried, socketVars, reconnectC, graceful, callVars, stopVars, eventVars,
                   crashed>>

(* ocppj.Client.onReconnected *)
Reconnected(g) ==
    /\ wpc[g] = "reconnected"
    /\ wpc' = [wpc EXCEPT ![g] = "done"]
    /\ recons' = recons + 1
    /\ paused' = FALSE
    /\ UNCHANGED <<retried, rpc, socketVars, connected, reconnectC, graceful, backOffVars, callVars, stopVars,
                   discs, overlapped, crashed>>

(* The delay is over.  A reconnectC that is closed is seen before that, unless
   there is no delay. *)
WaitOver(g) ==
    /\ wpc[g] = "wait"
    /\ reconnectC # "closed" \/ delay = 0
    /\ wpc' = [wpc EXCEPT ![g] = "dial"]
    /\ UNCHANGED <<retried, rpc, socketVars, connected, reconnectC, graceful, backOffVars, callVars, stopVars,
                   eventVars, crashed>>

WaitStopped(g) ==
    /\ wpc[g] = "wait"
    /\ reconnectC = "closed"
    /\ wpc' = [wpc EXCEPT ![g] = "done"]
    /\ UNCHANGED <<retried, rpc, socketVars, connected, reconnectC, graceful, backOffVars, callVars, stopVars,
                   eventVars, crashed>>

------------------------------------------------------------------------------
(* writePump *)

PumpFails(g) == wpc' = [wpc EXCEPT ![g] = "clean"] /\ graceful' = FALSE

PumpData(g) ==
    /\ wpc[g] = "select"
    /\ out[gen] > 0
    /\ out' = [out EXCEPT ![gen] = @ - 1]
    /\ PumpFails(g) \/ UNCHANGED <<wpc, graceful>>
    /\ UNCHANGED <<retried, rpc, gen, closeC, forceCloseC, closed, connected, reconnectC, backOffVars,
                   callVars, stopVars, eventVars, crashed>>

(* The ticker fires, and the ping cannot be written. *)
PumpPingFails(g) ==
    /\ wpc[g] = "select"
    /\ PumpFails(g)
    /\ UNCHANGED <<retried, rpc, socketVars, connected, reconnectC, backOffVars, callVars, stopVars,
                   eventVars, crashed>>

PumpClose(g) ==
    /\ wpc[g] = "select"
    /\ closeC[gen] > 0
    /\ closeC' = [closeC EXCEPT ![gen] = @ - 1]
    /\ wpc' = [wpc EXCEPT ![g] = "clean"]
    /\ graceful' = TRUE
    /\ UNCHANGED <<retried, rpc, gen, out, forceCloseC, closed, connected, reconnectC, backOffVars,
                   callVars, stopVars, eventVars, crashed>>

PumpForce(g) ==
    /\ wpc[g] = "select"
    /\ forceCloseC[gen] > 0
    /\ forceCloseC' = [forceCloseC EXCEPT ![gen] = @ - 1]
    /\ PumpFails(g)
    /\ UNCHANGED <<retried, rpc, gen, out, closeC, closed, connected, reconnectC, backOffVars,
                   callVars, stopVars, eventVars, crashed>>

(* Mutant: cleanup leaves the flag as it is. *)
CleanFlagForgotten(g) ==
    /\ wpc[g] = "clean"
    /\ wpc' = [wpc EXCEPT ![g] = "close"]
    /\ UNCHANGED <<retried, rpc, socketVars, connected, reconnectC, graceful, backOffVars, callVars,
                   stopVars, eventVars, crashed>>

(* cleanup: first the flag, then the channels, each under the mutex.  What is
   left in the channels nobody will read. *)
CleanFlag(g) ==
    /\ wpc[g] = "clean"
    /\ connected' = FALSE
    /\ wpc' = [wpc EXCEPT ![g] = "close"]
    /\ UNCHANGED <<retried, rpc, socketVars, reconnectC, graceful, backOffVars, callVars, stopVars,
                   eventVars, crashed>>

CleanChannels(g) ==
    /\ wpc[g] = "close"
    /\ closed' = [closed EXCEPT ![gen] = TRUE]
    /\ out' = [out EXCEPT ![gen] = 0]
    /\ closeC' = [closeC EXCEPT ![gen] = 0]
    /\ forceCloseC' = [forceCloseC EXCEPT ![gen] = 0]
    /\ wpc' = [wpc EXCEPT ![g] = "callback"]
    /\ UNCHANGED <<retried, rpc, gen, connected, reconnectC, graceful, backOffVars,
                   callVars, stopVars, eventVars, crashed>>

(* Mutant: a lost connection is not re-established. *)
ReconnectNever(g) == wpc' = [wpc EXCEPT ![g] = "done"] /\ UNCHANGED backOffVars

(* All but a graceful close go on with handleReconnection. *)
Reconnect(g) ==
    IF graceful
    THEN wpc' = [wpc EXCEPT ![g] = "done"] /\ UNCHANGED backOffVars
    ELSE wpc' = [wpc EXCEPT ![g] = "wait"] /\ FirstDelay

(* The callback is invoked for a graceful close, too.  It is what
   ocppj.Client.Stop has put in its place, or ocppj.Client.onDisconnected, which
   calls Pause ... *)
Disconnected(g) ==
    /\ wpc[g] = "callback"
    /\ overlapped' = (overlapped \/ \E h \in 0..MaxConns : wpc[h] = "reconnected")
    /\ IF intercepted
       THEN /\ cleanupC' = "full"
            /\ Reconnect(g)
            /\ graceful' = FALSE
            /\ UNCHANGED discs
       ELSE /\ discs' = discs + 1
            /\ wpc' = [wpc EXCEPT ![g] = "pause"]
            /\ UNCHANGED <<cleanupC, graceful, backOffVars>>
    /\ UNCHANGED <<retried, rpc, socketVars, connected, reconnectC, callVars, spc, intercepted,
                   missed, paused, recons, crashed>>

(* Mutant: the dispatcher is not paused. *)
PauseReturnsUnpaused(g) ==
    /\ wpc[g] = "pause"
    /\ Reconnect(g)
    /\ graceful' = FALSE
    /\ UNCHANGED <<retried, rpc, socketVars, connected, reconnectC, callVars, stopVars, eventVars,
                   crashed>>

(* ... and waits for it, with the write pump. *)
PauseReturns(g) ==
    /\ wpc[g] = "pause"
    /\ paused' = TRUE
    /\ Reconnect(g)
    /\ graceful' = FALSE
    /\ UNCHANGED <<retried, rpc, socketVars, connected, reconnectC, callVars, stopVars, discs,
                   recons, overlapped, crashed>>

------------------------------------------------------------------------------
(* readPump and Write *)

ConnClosed(g) == wpc[g] \notin {"none", "select", "clean"}

(* The message handler is called, and takes its time. *)
ReadMessage(g) ==
    /\ rpc[g] = "read"
    /\ ~ConnClosed(g)
    /\ rpc' = [rpc EXCEPT ![g] = "handle"]
    /\ UNCHANGED <<retried, wpc, socketVars, connected, reconnectC, graceful, backOffVars, callVars,
                   stopVars, eventVars, crashed>>

HandlerReturns(g) ==
    /\ rpc[g] = "handle"
    /\ rpc' = [rpc EXCEPT ![g] = "read"]
    /\ UNCHANGED <<retried, wpc, socketVars, connected, reconnectC, graceful, backOffVars, callVars,
                   stopVars, eventVars, crashed>>

(* The error goes to the latest connection, which need not be the one that has
   failed.  A reader that finds no room in forceCloseC is blocked, which makes
   no difference to the others. *)
ReadFail(g) ==
    /\ rpc[g] = "read"
    /\ forceCloseC' = [forceCloseC EXCEPT ![gen] = IF closed[gen] THEN 0 ELSE 1]
    /\ rpc' = [rpc EXCEPT ![g] = "done"]
    /\ UNCHANGED <<retried, wpc, gen, out, closeC, closed, connected, reconnectC, graceful,
                   backOffVars, callVars, stopVars, eventVars, crashed>>

(* Write looks at the flag first ... *)
Write(t) ==
    /\ pc[t] = "idle"
    /\ connected
    /\ pc' = [pc EXCEPT ![t] = "checked"]
    /\ UNCHANGED <<retried, wpc, rpc, socketVars, connected, reconnectC, graceful, backOffVars, target,
                   stopVars, eventVars, crashed>>

(* ... and sends afterwards, without the mutex. *)
Send(t, g) ==
    /\ crashed' = closed[g]
    /\ out' = [out EXCEPT ![g] = IF closed[g] THEN @ ELSE @ + 1]
    /\ pc' = [pc EXCEPT ![t] = "idle"]
    /\ target' = [target EXCEPT ![t] = 0]

WriteSend(t) ==
    /\ pc[t] = "checked"
    /\ IF closed[gen] \/ out[gen] < Capacity
       THEN Send(t, gen)
       ELSE /\ pc' = [pc EXCEPT ![t] = "blocked"]
            /\ target' = [target EXCEPT ![t] = gen]
            /\ UNCHANGED <<out, crashed>>
    /\ UNCHANGED <<retried, wpc, rpc, gen, closeC, forceCloseC, closed, connected, reconnectC,
                   graceful, backOffVars, stopVars, eventVars>>

WriteUnblocked(t) ==
    /\ pc[t] = "blocked"
    /\ closed[target[t]] \/ out[target[t]] < Capacity
    /\ Send(t, target[t])
    /\ UNCHANGED <<retried, wpc, rpc, gen, closeC, forceCloseC, closed, connected, reconnectC,
                   graceful, backOffVars, stopVars, eventVars>>

------------------------------------------------------------------------------
(* ocppj.Client.Stop, and ws.Client.Stop *)

(* The channel to wait on is closed at once if there is no connection. *)
Stop ==
    /\ spc = "idle"
    /\ spc' = IF connected THEN "intercept" ELSE "signal"
    /\ cleanupC' = IF connected THEN "empty" ELSE "closed"
    /\ UNCHANGED <<retried, wpc, rpc, socketVars, connected, reconnectC, graceful, backOffVars,
                   callVars, intercepted, missed, eventVars, crashed>>

StopIntercept ==
    /\ spc = "intercept"
    /\ intercepted' = TRUE
    /\ spc' = "signal"
    /\ UNCHANGED <<retried, wpc, rpc, socketVars, connected, reconnectC, graceful, backOffVars,
                   callVars, cleanupC, missed, eventVars, crashed>>

(* Under the mutex: the send is in a select with a default. *)
StopSignal ==
    /\ spc = "signal"
    /\ IF connected
       THEN /\ crashed' = closed[gen]
            /\ closeC' = [closeC EXCEPT ![gen] = IF closed[gen] THEN @ ELSE Capacity]
       ELSE UNCHANGED <<closeC, crashed>>
    /\ connected' = FALSE
    /\ spc' = "reconnectC"
    /\ UNCHANGED <<retried, wpc, rpc, gen, out, forceCloseC, closed, reconnectC, graceful, backOffVars,
                   callVars, intercepted, cleanupC, missed, eventVars>>

(* Neither the pump has got the signal nor will anybody see reconnectC closed. *)
Unnoticed ==
    \E g \in 0..MaxConns :
        \/ wpc[g] \in {"dial", "install"}
        \/ wpc[g] = "wait" /\ reconnectC = "nil"
        \/ wpc[g] = "select" /\ closeC[gen] = 0

(* Mutant: reconnectC is not closed. *)
StopReconnectCForgotten ==
    /\ spc = "reconnectC"
    /\ missed' = Unnoticed
    /\ spc' = "wait"
    /\ UNCHANGED <<retried, wpc, rpc, socketVars, connected, reconnectC, graceful, backOffVars,
                   callVars, intercepted, cleanupC, eventVars, crashed>>

StopReconnectC ==
    /\ spc = "reconnectC"
    /\ reconnectC' = IF reconnectC = "nil" THEN "nil" ELSE "closed"
    /\ missed' = Unnoticed
    /\ spc' = "wait"
    /\ UNCHANGED <<retried, wpc, rpc, socketVars, connected, graceful, backOffVars, callVars,
                   intercepted, cleanupC, eventVars, crashed>>

StopReturns ==
    /\ spc = "wait"
    /\ cleanupC # "empty"
    /\ spc' = "done"
    /\ UNCHANGED <<retried, wpc, rpc, socketVars, connected, reconnectC, graceful, backOffVars,
                   callVars, intercepted, cleanupC, missed, eventVars, crashed>>

------------------------------------------------------------------------------
Live(A) == ~crashed /\ A

(* The goroutine of StartWithRetries, or a write pump. *)
Manager(g) ==
    \/ DialFails(g) \/ Dial(g) \/ Install(g) \/ WaitOver(g) \/ WaitStopped(g)
    \/ g \in Conns /\ (\/ PumpData(g) \/ PumpClose(g) \/ PumpForce(g)
                       \/ CleanFlag(g) \/ CleanChannels(g) \/ Disconnected(g))
Reader(g) == HandlerReturns(g) \/ (ConnClosed(g) /\ ReadFail(g))
Stopper == StopIntercept \/ StopSignal \/ StopReconnectC \/ StopReturns

Next ==
    \/ \E g \in 0..MaxConns : Live(Manager(g)) \/ Live(Reconnected(g))
    \/ \E g \in Conns :
         \/ Live(PauseReturns(g))
         \/ Live(Reader(g)) \/ Live(PumpPingFails(g)) \/ Live(ReadMessage(g)) \/ Live(ReadFail(g))
    \/ \E t \in Callers : Live(Write(t)) \/ Live(WriteSend(t)) \/ Live(WriteUnblocked(t))
    \/ Live(Stop)
    \/ Live(Stopper)

(* The runtime schedules every goroutine that can go on, timers fire, dials
   return, message handlers return and reads on a closed connection fail.  The
   network, callers and the server may do nothing.  Pause and Resume need the
   write lock of the dispatcher, which they may never get (see ClientDispatcher
   and Station): nothing is assumed of them. *)
Fairness ==
    /\ \A g \in 0..MaxConns : WF_vars(Live(Manager(g)))
    /\ \A g \in Conns : WF_vars(Live(Reader(g)))
    /\ \A t \in Callers : WF_vars(Live(WriteSend(t) \/ WriteUnblocked(t)))
    /\ WF_vars(Live(Stopper))

Spec == Init /\ [][Next]_vars /\ Fairness

------------------------------------------------------------------------------
Data ==
    /\ wpc \in [0..MaxConns -> {"none", "dial", "install", "reconnected", "wait", "select", "clean",
                                "close", "callback", "pause", "done"}]
    /\ rpc \in [Conns -> {"none", "read", "handle", "done"}]
    /\ gen \in 0..MaxConns
    /\ out \in [Conns -> 0..Capacity]
    /\ closeC \in [Conns -> 0..Capacity]
    /\ forceCloseC \in [Conns -> 0..Capacity]
    /\ closed \in [Conns -> BOOLEAN]
    /\ reconnectC \in {"nil", "open", "closed"}
    /\ delay \in Nat /\ attempts \in Nat
    /\ pc \in [Callers -> {"idle", "checked", "blocked"}]
    /\ target \in [Callers -> 0..MaxConns]
    /\ spc \in {"idle", "intercept", "signal", "reconnectC", "wait", "done"}
    /\ cleanupC \in {"empty", "full", "closed"}
    /\ discs \in Nat /\ recons \in Nat

Flags ==
    /\ retried \in BOOLEAN /\ connected \in BOOLEAN /\ graceful \in BOOLEAN
    /\ intercepted \in BOOLEAN /\ missed \in BOOLEAN
    /\ paused \in BOOLEAN /\ overlapped \in BOOLEAN /\ crashed \in BOOLEAN

(* Every variable has a value of its type. *)
TypeOK == Data /\ Flags

Active(g) == wpc[g] \in {"dial", "install", "wait", "select", "clean", "close", "callback",
                         "pause"}

(* There is at most one goroutine at a time that runs or re-establishes the
   connection, although each Start begins a new one; the client is connected
   only while that goroutine has not begun to clean up, so that Stop, which
   looks at the flag under the mutex, never signals on a closed channel. *)
OnePump ==
    /\ \A g, h \in 0..MaxConns : Active(g) /\ Active(h) => g = h
    /\ connected => gen > 0 /\ wpc[gen] \in {"select", "clean"} /\ ~closed[gen]

(* SetReconnectedHandler: "If set, the DisconnectedHandler will always be
   invoked before the Reconnected callback is invoked", if the client was
   started with Start. *)
DisconnectedFirst == ~retried /\ ~intercepted => recons <= discs

(* The delay is doubled after a failed attempt, at most RepeatTimes times, with a
   random part added every time: it stays within the bounds that the number of
   doublings gives, which stop growing. *)
BackOff ==
    LET doublings == attempts - 1
    IN  attempts > 0 =>
          /\ doublings <= RepeatTimes
          /\ delay >= WaitMinimum * 2^doublings
          /\ delay <= (WaitMinimum + RandomRange) * 2^doublings + RandomRange * (2^doublings - 1)

(* RetryBackOffRepeatTimes is "the amount of time it will double the previous
   back-off time": the delay is doubled until that number is reached. *)
DoublesRepeatTimes ==
    [][\A g \in 0..MaxConns :
         wpc[g] = "dial" /\ wpc'[g] = "wait" /\ attempts > 0 /\ attempts - 1 < RepeatTimes
             => delay' >= 2 * delay]_vars

(* The dispatcher is paused while the client is between two connections, unless
   the new connection was lost before onReconnected was called for it, which
   then comes too late and resumes the dispatcher. *)
PausedWhileDown ==
    ~retried /\ ~intercepted /\ ~overlapped =>
        \A g \in Conns : wpc[g] \in {"wait", "dial", "install"} => paused

(* onDisconnected returns in the end: Pause gets the lock of the dispatcher and
   is not held up at its timer, and the handler of the application returns. *)
PauseEnds == []<>(\A g \in Conns : wpc[g] # "pause")

(* ocppj/client.go, Start: "The client will attempt to re-connect to the server
   forever, until it is stopped by invoking the Stop method", if onDisconnected,
   which is called before that, returns. *)
KeepsTrying ==
    PauseEnds =>
        ((\E g \in Conns : wpc[g] \in {"clean", "close", "callback", "pause", "wait"} /\ ~graceful)
            ~> (spc # "idle" \/ crashed \/ \E g \in Conns : wpc[g] = "dial"))

(* Once Stop has done its signalling, all goroutines of the client end and it
   is not connected any more, unless Stop came while a dial was under way or
   while StartWithRetries waits for its first connection, or onDisconnected does
   not return. *)
StopEnds ==
    PauseEnds =>
        ((spc \in {"wait", "done"} /\ ~missed) ~>
            (crashed \/ \A g \in 0..MaxConns : ~Active(g) /\ ~connected))

=============================================================================
