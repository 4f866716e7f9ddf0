------------------------------ MODULE WsServer ------------------------------
(***************************************************************************)
(* The websocket server, ws/websocket.go: what happens between the HTTP    *)
(* handler that accepts connections, the read and write pump of each       *)
(* connection, and the callers of Write, StopConnection and Stop, all of   *)
(* which meet in the map of connections and its read-write lock; and what  *)
(* ocppj.Server knows of the clients from the two callbacks.               *)
(*                                                                         *)
(* A goroutine is in the state of its pc.  The lock is derived from them:  *)
(* whoever is at "send" holds it for reading, whoever is at "lock" waits   *)
(* for it as the next writer (and keeps new readers out, as Go's RWMutex   *)
(* does); what is done under the write lock does not block and is one step.*)
(* Messages are counted, not told apart.                                   *)
(***************************************************************************)
EXTENDS Integers, Sequences, FiniteSets

CONSTANTS
  Sockets,    \* the connections that are ever accepted
  Ids,        \* the last path elements of the URLs
  Callers,    \* goroutines that call Write and StopConnection
  Supported,  \* server.upgrader.Subprotocols, in the order of AddSupportedSubprotocol
  Urls,       \* the pairs of a socket and an id that clients connect with
  Offers,     \* the lists of subprotocols that clients ask for
  MaxCalls,   \* bound on messages, pings, and calls of Write and StopConnection
  None

ASSUME ConstantsAssumption ==
    /\ None \notin Sockets
    /\ None \notin Ids
    /\ Sockets \intersect Callers = {}
    /\ Urls \subseteq Sockets \X Ids
    /\ MaxCalls \in Nat

VARIABLES
  hpc,          \* wsHandler of each socket
  rpc,          \* readPump
  wpc,          \* writePump
  id,           \* ws.id
  out,          \* number of messages in ws.outQueue
  closeC,       \* of close requests in ws.closeC
  ping,         \* of pings in ws.pingMessage
  forceCloseC,  \* of errors in ws.forceCloseC
  closed,       \* ws.outQueue and ws.closeC are closed
  connections,  \* server.connections
  pc,           \* callers of Write and StopConnection, among them message handlers
  target,       \* the id, then the socket, that a caller is about
  shut,         \* stopConnections, run by Shutdown
  rest,         \* the sockets that stopConnections has yet to signal
  known,        \* the ids for which ocppj.Server holds state
  overlapped,   \* the ids of which two callbacks were due at a time
  crashed,      \* a send on a closed channel has panicked
  calls         \* the number of messages, pings and calls so far

socketVars == <<hpc, rpc, wpc, id>>
channelVars == <<out, closeC, ping, forceCloseC, closed>>
callVars == <<pc, target, shut, rest>>
clientVars == <<known, overlapped>>
vars == <<hpc, rpc, wpc, id, out, closeC, ping, forceCloseC, closed, connections, pc,
          target, shut, rest, known, overlapped, crashed, calls>>

(* The capacity of all channels of a WebSocket. *)
Capacity == 1

Threads == Callers \union Sockets

Init ==
    /\ hpc = [s \in Sockets |-> "none"]
    /\ rpc = [s \in Sockets |-> "none"]
    /\ wpc = [s \in Sockets |-> "none"]
    /\ id = [s \in Sockets |-> None]
    /\ out = [s \in Sockets |-> 0]
    /\ closeC = [s \in Sockets |-> 0]
    /\ ping = [s \in Sockets |-> 0]
    /\ forceCloseC = [s \in Sockets |-> 0]
    /\ closed = [s \in Sockets |-> FALSE]
    /\ connections = [i \in Ids |-> None]
    /\ pc = [t \in Threads |-> "idle"]
    /\ target = [t \in Threads |-> None]
    /\ shut = "no"
    /\ rest = {}
    /\ known = {}
    /\ overlapped = {}
    /\ crashed = FALSE
    /\ calls = 0

(* One more message, ping or call, within the bound. *)
Call == calls < MaxCalls /\ calls' = calls + 1

(* The sockets of an id that are about to call newClientHandler or
   disconnectedHandler; both happen outside the lock. *)
Due(i) == {s \in Sockets : id[s] = i /\ "callback" \in {hpc[s], wpc[s]}}

CallbackDue(s) ==
    overlapped' = IF Due(id[s]) = {} THEN overlapped ELSE overlapped \union {id[s]}

(* Mutant: Write lets go of the lock before it sends. *)
ReadLockedByStop == shut = "send"

ReadLocked == shut = "send" \/ \E t \in Threads : pc[t] = "send"

Announced == \E s \in Sockets : hpc[s] = "lock" \/ wpc[s] = "lock"

------------------------------------------------------------------------------
(* wsHandler *)

(* The first of the requested subprotocols that is supported; any is if none
   was added.  "" if there is no such. *)
Negotiate(requested) ==
    LET fits == {i \in DOMAIN requested :
                    Supported = <<>> \/ \E j \in DOMAIN Supported : requested[i] = Supported[j]}
    IN  IF fits = {} THEN "" ELSE requested[CHOOSE i \in fits : \A j \in fits : i <= j]

(* A client that is authorized is upgraded; if no subprotocol suits, the
   connection is closed at once, and the map is not touched. *)
Upgrade(s, i, requested, authorized) ==
    /\ hpc[s] = "none"
    /\ <<s, i>> \in Urls
    /\ shut = "no"
    /\ id' = [id EXCEPT ![s] = i]
    /\ hpc' = [hpc EXCEPT ![s] = IF authorized /\ Negotiate(requested) # "" THEN "want" ELSE "refused"]
    /\ UNCHANGED <<rpc, wpc, channelVars, connections, callVars, clientVars, crashed, calls>>

(* connMutex.Lock begins: one writer at a time is next. *)
HandlerLock(s) ==
    /\ hpc[s] = "want"
    /\ ~Announced
    /\ hpc' = [hpc EXCEPT ![s] = "lock"]
    /\ UNCHANGED <<rpc, wpc, id, channelVars, connections, callVars, clientVars, crashed, calls>>

(* Mutant: a second connection of an id takes the place of the first. *)
RegisterAnyway(s) ==
    /\ hpc[s] = "lock"
    /\ ~ReadLocked
    /\ connections' = [connections EXCEPT ![id[s]] = s]
    /\ hpc' = [hpc EXCEPT ![s] = "callback"]
    /\ CallbackDue(s)
    /\ wpc' = [wpc EXCEPT ![s] = "select"]
    /\ rpc' = [rpc EXCEPT ![s] = "read"]
    /\ UNCHANGED <<id, channelVars, callVars, known, crashed, calls>>

Register(s) ==
    /\ hpc[s] = "lock"
    /\ ~ReadLocked
    /\ IF connections[id[s]] # None
       THEN /\ hpc' = [hpc EXCEPT ![s] = "refused"]
            /\ UNCHANGED <<connections, wpc, rpc, overlapped>>
       ELSE /\ connections' = [connections EXCEPT ![id[s]] = s]
            /\ hpc' = [hpc EXCEPT ![s] = "callback"]
            /\ CallbackDue(s)
            /\ wpc' = [wpc EXCEPT ![s] = "select"]
            /\ rpc' = [rpc EXCEPT ![s] = "read"]
    /\ UNCHANGED <<id, channelVars, callVars, known, crashed, calls>>

(* newClientHandler, which is ocppj.Server.onClientConnected. *)
NewClient(s) ==
    /\ hpc[s] = "callback"
    /\ hpc' = [hpc EXCEPT ![s] = "done"]
    /\ known' = known \union {id[s]}
    /\ UNCHANGED <<rpc, wpc, id, channelVars, connections, callVars, overlapped, crashed, calls>>

------------------------------------------------------------------------------
(* readPump *)

(* A message, whose handler writes an answer to its client. *)
ReadMessage(s) ==
    /\ Call
    /\ rpc[s] = "read"
    /\ wpc[s] = "select"
    /\ pc[s] = "idle"
    /\ pc' = [pc EXCEPT ![s] = "rlock"]
    /\ target' = [target EXCEPT ![s] = id[s]]
    /\ UNCHANGED <<socketVars, channelVars, connections, shut, rest, clientVars, crashed>>

ReadPing(s) ==
    /\ Call
    /\ rpc[s] = "read"
    /\ wpc[s] = "select"
    /\ pc[s] = "idle"
    /\ rpc' = [rpc EXCEPT ![s] = "ping"]
    /\ UNCHANGED <<hpc, wpc, id, channelVars, connections, callVars, clientVars, crashed>>

PingSend(s) ==
    /\ rpc[s] = "ping"
    /\ ping[s] < Capacity
    /\ ping' = [ping EXCEPT ![s] = @ + 1]
    /\ rpc' = [rpc EXCEPT ![s] = "read"]
    /\ UNCHANGED <<hpc, wpc, id, out, closeC, forceCloseC, closed, connections, callVars,
                   clientVars, crashed, calls>>

(* Mutant: the reader returns without a word to the write pump. *)
ReadFailSilently(s) ==
    /\ rpc[s] = "read"
    /\ pc[s] = "idle"
    /\ rpc' = [rpc EXCEPT ![s] = "done"]
    /\ UNCHANGED <<hpc, wpc, id, channelVars, connections, callVars, clientVars, crashed, calls>>

(* A read fails because the peer closes the connection, because it breaks or
   nothing comes in time, or because cleanupConnection has closed it.  The
   reader sends this one error only, for which forceCloseC has room. *)
ReadFail(s) ==
    /\ rpc[s] = "read"
    /\ pc[s] = "idle"
    /\ forceCloseC' = [forceCloseC EXCEPT ![s] = @ + 1]
    /\ rpc' = [rpc EXCEPT ![s] = "done"]
    /\ UNCHANGED <<hpc, wpc, id, out, closeC, ping, closed, connections, callVars, clientVars,
                   crashed, calls>>

------------------------------------------------------------------------------
(* writePump, with cleanupConnection. *)

(* A write succeeds, or fails and has cleanupConnection called. *)
Written(s) == wpc' = wpc \/ wpc' = [wpc EXCEPT ![s] = "want"]

PumpData(s) ==
    /\ wpc[s] = "select"
    /\ out[s] > 0
    /\ out' = [out EXCEPT ![s] = @ - 1]
    /\ Written(s)
    /\ UNCHANGED <<hpc, rpc, id, closeC, ping, forceCloseC, closed, connections, callVars,
                   clientVars, crashed, calls>>

PumpPing(s) ==
    /\ wpc[s] = "select"
    /\ ping[s] > 0
    /\ ping' = [ping EXCEPT ![s] = @ - 1]
    /\ Written(s)
    /\ UNCHANGED <<hpc, rpc, id, out, closeC, forceCloseC, closed, connections, callVars,
                   clientVars, crashed, calls>>

PumpClose(s) ==
    /\ wpc[s] = "select"
    /\ closeC[s] > 0
    /\ closeC' = [closeC EXCEPT ![s] = @ - 1]
    /\ wpc' = [wpc EXCEPT ![s] = "want"]
    /\ UNCHANGED <<hpc, rpc, id, out, ping, forceCloseC, closed, connections, callVars, clientVars,
                   crashed, calls>>

PumpForce(s) ==
    /\ wpc[s] = "select"
    /\ forceCloseC[s] > 0
    /\ forceCloseC' = [forceCloseC EXCEPT ![s] = @ - 1]
    /\ wpc' = [wpc EXCEPT ![s] = "want"]
    /\ UNCHANGED <<hpc, rpc, id, out, closeC, ping, closed, connections, callVars, clientVars,
                   crashed, calls>>

PumpLock(s) ==
    /\ wpc[s] = "want"
    /\ ~Announced
    /\ wpc' = [wpc EXCEPT ![s] = "lock"]
    /\ UNCHANGED <<hpc, rpc, id, channelVars, connections, callVars, clientVars, crashed, calls>>

(* What is left in the closed channels is lost. *)
Cleanup(s) ==
    /\ wpc[s] = "lock"
    /\ ~ReadLocked
    /\ closed' = [closed EXCEPT ![s] = TRUE]
    /\ out' = [out EXCEPT ![s] = 0]
    /\ closeC' = [closeC EXCEPT ![s] = 0]
    /\ connections' = [connections EXCEPT ![id[s]] = None]
    /\ CallbackDue(s)
    /\ wpc' = [wpc EXCEPT ![s] = "callback"]
    /\ UNCHANGED <<hpc, rpc, id, ping, forceCloseC, callVars, known, crashed, calls>>

(* Mutant: disconnectedHandler is not called. *)
DisconnectedSilently(s) ==
    /\ wpc[s] = "callback"
    /\ wpc' = [wpc EXCEPT ![s] = "done"]
    /\ UNCHANGED <<hpc, rpc, id, channelVars, connections, callVars, clientVars, crashed, calls>>

(* disconnectedHandler, which is ocppj.Server.onClientDisconnected. *)
Disconnected(s) ==
    /\ wpc[s] = "callback"
    /\ wpc' = [wpc EXCEPT ![s] = "done"]
    /\ known' = known \ {id[s]}
    /\ UNCHANGED <<hpc, rpc, id, channelVars, connections, callVars, overlapped, crashed, calls>>

------------------------------------------------------------------------------
(* Write, StopConnection, and Stop by way of Shutdown. *)

Write(t, i) ==
    /\ Call
    /\ pc[t] = "idle"
    /\ pc' = [pc EXCEPT ![t] = "rlock"]
    /\ target' = [target EXCEPT ![t] = i]
    /\ UNCHANGED <<socketVars, channelVars, connections, shut, rest, clientVars, crashed>>

WriteRLock(t) ==
    /\ pc[t] = "rlock"
    /\ ~Announced
    /\ pc' = [pc EXCEPT ![t] = IF connections[target[t]] = None THEN "idle" ELSE "send"]
    /\ target' = [target EXCEPT ![t] = connections[target[t]]]
    /\ UNCHANGED <<socketVars, channelVars, connections, shut, rest, clientVars, crashed, calls>>

WriteSend(t) ==
    /\ pc[t] = "send"
    /\ closed[target[t]] \/ out[target[t]] < Capacity
    /\ crashed' = closed[target[t]]
    /\ out' = [out EXCEPT ![target[t]] = IF closed[target[t]] THEN @ ELSE @ + 1]
    /\ pc' = [pc EXCEPT ![t] = "idle"]
    /\ target' = [target EXCEPT ![t] = None]
    /\ UNCHANGED <<socketVars, closeC, ping, forceCloseC, closed, connections, shut, rest,
                   clientVars, calls>>

(* StopConnection lets the lock go before it sends. *)
StopConnection(t, i) ==
    /\ Call
    /\ pc[t] = "idle"
    /\ ~Announced
    /\ connections[i] # None
    /\ pc' = [pc EXCEPT ![t] = "stop"]
    /\ target' = [target EXCEPT ![t] = connections[i]]
    /\ UNCHANGED <<socketVars, channelVars, connections, shut, rest, clientVars, crashed>>

StopSend(t) ==
    /\ pc[t] = "stop"
    /\ closed[target[t]] \/ closeC[target[t]] < Capacity
    /\ crashed' = closed[target[t]]
    /\ closeC' = [closeC EXCEPT ![target[t]] = IF closed[target[t]] THEN @ ELSE @ + 1]
    /\ pc' = [pc EXCEPT ![t] = "idle"]
    /\ target' = [target EXCEPT ![t] = None]
    /\ UNCHANGED <<socketVars, out, ping, forceCloseC, closed, connections, shut, rest, clientVars,
                   calls>>

Stop ==
    /\ shut = "no"
    /\ shut' = "rlock"
    /\ UNCHANGED <<socketVars, channelVars, connections, pc, target, rest, clientVars, crashed,
                   calls>>

StopRLock ==
    /\ shut = "rlock"
    /\ ~Announced
    /\ shut' = "send"
    /\ rest' = {s \in Sockets : \E i \in Ids : connections[i] = s}
    /\ UNCHANGED <<socketVars, channelVars, connections, pc, target, clientVars, crashed, calls>>

StopConnectionsSend(s) ==
    /\ shut = "send"
    /\ s \in rest
    /\ closed[s] \/ closeC[s] < Capacity
    /\ crashed' = closed[s]
    /\ closeC' = [closeC EXCEPT ![s] = IF closed[s] THEN @ ELSE @ + 1]
    /\ rest' = rest \ {s}
    /\ UNCHANGED <<socketVars, out, ping, forceCloseC, closed, connections, pc, target, shut, clientVars,
                   calls>>

StopConnectionsDone ==
    /\ shut = "send"
    /\ rest = {}
    /\ shut' = "done"
    /\ UNCHANGED <<socketVars, channelVars, connections, pc, target, rest, clientVars, crashed,
                   calls>>

------------------------------------------------------------------------------
Live(A) == ~crashed /\ A

Handler(s) == Live(HandlerLock(s) \/ Register(s) \/ NewClient(s))
Reader(s) == Live(PingSend(s) \/ (wpc[s] # "select" /\ ReadFail(s)))
Cleaner(s) == Live(PumpLock(s) \/ Cleanup(s))
Caller(t) == Live(WriteRLock(t) \/ WriteSend(t) \/ StopSend(t))
Stopper == Live(StopRLock \/ StopConnectionsDone \/ \E s \in Sockets : StopConnectionsSend(s))

Next ==
    \/ \E s \in Sockets :
         \/ \E i \in Ids, requested \in Offers, authorized \in BOOLEAN :
              Live(Upgrade(s, i, requested, authorized))
         \/ Handler(s) \/ Reader(s) \/ Cleaner(s) \/ Live(Disconnected(s))
         \/ Live(ReadFail(s)) \/ Live(ReadMessage(s)) \/ Live(ReadPing(s))
         \/ Live(PumpData(s)) \/ Live(PumpPing(s)) \/ Live(PumpClose(s)) \/ Live(PumpForce(s))
    \/ \E t \in Threads : Caller(t)
    \/ \E t \in Callers, i \in Ids : Live(Write(t, i)) \/ Live(StopConnection(t, i))
    \/ Live(Stop)
    \/ Stopper

(* The runtime schedules every goroutine that can go on, and select chooses
   among what is ready, each in its turn.  Clients, callers and the network
   may do nothing, but a read on a closed connection returns.  Nothing is
   assumed of disconnectedHandler: the layers above may block in it. *)
Fairness ==
    /\ \A s \in Sockets :
         /\ WF_vars(Handler(s)) /\ WF_vars(Reader(s)) /\ WF_vars(Cleaner(s))
         /\ WF_vars(Live(PumpData(s))) /\ WF_vars(Live(PumpPing(s)))
         /\ WF_vars(Live(PumpClose(s))) /\ WF_vars(Live(PumpForce(s)))
    /\ \A t \in Threads : WF_vars(Caller(t))
    /\ WF_vars(Stopper)

Spec == Init /\ [][Next]_vars /\ Fairness

------------------------------------------------------------------------------
(* Every variable has a value of its type, and no channel holds more than its
   capacity. *)
TypeOK ==
    /\ hpc \in [Sockets -> {"none", "want", "lock", "callback", "done", "refused"}]
    /\ rpc \in [Sockets -> {"none", "read", "ping", "done"}]
    /\ wpc \in [Sockets -> {"none", "select", "want", "lock", "callback", "done"}]
    /\ id \in [Sockets -> Ids \union {None}]
    /\ out \in [Sockets -> 0..Capacity]
    /\ closeC \in [Sockets -> 0..Capacity]
    /\ ping \in [Sockets -> 0..Capacity]
    /\ forceCloseC \in [Sockets -> 0..Capacity]
    /\ closed \in [Sockets -> BOOLEAN]
    /\ connections \in [Ids -> Sockets \union {None}]
    /\ pc \in [Threads -> {"idle", "rlock", "send", "stop"}]
    /\ target \in [Threads -> Ids \union Sockets \union {None}]
    /\ shut \in {"no", "rlock", "send", "done"}
    /\ rest \in SUBSET Sockets
    /\ known \in SUBSET Ids
    /\ overlapped \in SUBSET Ids
    /\ crashed \in BOOLEAN
    /\ calls \in 0..MaxCalls

(* The map holds exactly the sockets whose write pump runs or has yet to clean
   up, each under its own id, so that there is never a second connection of an
   id and cleanupConnection deletes its own entry only; their channels are
   open, so that the branch of writePump for a closed queue, which "should
   never happen", does not. *)
Registered ==
    \A s \in Sockets :
        /\ wpc[s] \in {"select", "want", "lock"} <=> \E i \in Ids : connections[i] = s
        /\ wpc[s] \in {"select", "want", "lock"} => id[s] \in Ids /\ connections[id[s]] = s /\ ~closed[s]

(* A goroutine that sends with the read lock held, in Write or in
   stopConnections, never meets a closed channel: a panic can only come from
   StopConnection, which has let go of the lock. *)
SendersSafe ==
    /\ \A t \in Threads : pc[t] = "send" => target[t] \in Sockets /\ ~closed[target[t]]
    /\ shut = "send" => \A s \in rest : ~closed[s]

(* What ocppj.Server knows of an id, from newClientHandler and from
   disconnectedHandler, agrees with the map once the callbacks are through,
   unless one became due before the one before it had been called: the
   handlers run outside the lock, and nothing else orders them. *)
KnownClients ==
    \A i \in Ids \ overlapped :
        Due(i) = {} => (i \in known <=> connections[i] # None)

(* A connection that has failed or was told to close is cleaned up and reported
   to the disconnectedHandler, its id becoming free, provided that no Write and
   no stopConnections sticks in a channel with the lock held, and that
   disconnectedHandler returns: in ocppj.Server it deletes the client's queue
   and its pending requests (DeleteClient) and calls the application's handler,
   and the write pump that runs it has no time limit. *)
HandlersReturn == []<>(\A s \in Sockets : wpc[s] # "callback")
CleanedUp ==
    []<>~ReadLocked /\ []~crashed /\ HandlersReturn =>
        \A s \in Sockets :
            (wpc[s] = "select" /\ (rpc[s] = "done" \/ closeC[s] > 0)) ~> (wpc[s] = "done")

(* ws/websocket.go, WsServer.Write: "The data is queued and will be sent
   asynchronously in the background." *)
WriteReturns ==
    \A t \in Threads : pc[t] = "send" ~> pc[t] # "send" \/ crashed

(* ws/websocket.go, WsServer.Stop: "All open channels will be forcefully closed". *)
StopClosesAll ==
    \A s \in Sockets : (shut = "done" /\ wpc[s] = "select") ~> wpc[s] # "select"

=============================================================================
