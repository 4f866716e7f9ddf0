--------------------------- MODULE WsServerProofs ---------------------------
(***************************************************************************)
(* What the websocket server guarantees of its connection map, for any     *)
(* number of connections, clients, callers and calls.                      *)
(***************************************************************************)
EXTENDS WsServer, TLAPS

(* Steps that need arithmetic, sequences or functions say SMTT. *)
USE ZenonT(60)

(* A socket that is not registered yet has no pumps, its channels are open   *)
(* until it is cleaned up, it reports one read error at most, and whoever    *)
(* handles it knows its id, which is the only one it can be found under.     *)
Sound ==
    \A s \in Sockets :
        /\ hpc[s] \in {"none", "want", "lock", "refused"} => wpc[s] = "none" /\ rpc[s] = "none"
        /\ wpc[s] \in {"none", "select", "want", "lock"} => ~closed[s]
        /\ rpc[s] # "done" => forceCloseC[s] = 0
        /\ hpc[s] # "none" => id[s] \in Ids
        /\ \A i \in Ids : connections[i] = s => id[s] = i

(* A caller that waits for the lock is about an id, later about a socket. *)
Targets ==
    \A t \in Threads :
        /\ pc[t] = "rlock" => target[t] \in Ids
        /\ pc[t] \in {"send", "stop"} => target[t] \in Sockets

MapInv == TypeOK /\ Sound /\ Targets /\ Registered /\ SendersSafe

(* Of the callbacks of an id, no two are due at a time unless the id is      *)
(* overlapped; the one that is due tells what is in the map.                 *)
Callbacks ==
    \A i \in Ids \ overlapped :
        /\ \A s, r \in Due(i) : s = r
        /\ \A s \in Due(i) : hpc[s] = "callback" => connections[i] = s
        /\ \A s \in Due(i) : wpc[s] = "callback" => connections[i] = None

ClientInv == Callbacks /\ KnownClients

LEMMA MapInit == Init => MapInv
<1> SUFFICES ASSUME Init PROVE MapInv
  OBVIOUS
<1> USE ConstantsAssumption DEF Init, Threads
<1>1. TypeOK
  <2>1. /\ out \in [Sockets -> 0..Capacity] /\ closeC \in [Sockets -> 0..Capacity]
        /\ ping \in [Sockets -> 0..Capacity] /\ forceCloseC \in [Sockets -> 0..Capacity]
        /\ calls \in 0..MaxCalls
    BY SMTT(30) DEF Capacity
  <2>2. closed \in [Sockets -> BOOLEAN] /\ crashed \in BOOLEAN
    OBVIOUS
  <2>3. /\ pc \in [Threads -> {"idle", "rlock", "send", "stop"}]
        /\ target \in [Threads -> Ids \union Sockets \union {None}]
    OBVIOUS
  <2> QED
    BY <2>1, <2>2, <2>3 DEF TypeOK
<1>2. Sound /\ Targets
  BY DEF Sound, Targets
<1>3. Registered /\ SendersSafe
  BY DEF Registered, SendersSafe
<1> QED
  BY <1>1, <1>2, <1>3 DEF MapInv

(* Every step keeps the map right: Register and Cleanup are the two that     *)
(* change it, and both need the lock that the senders hold.                  *)
LEMMA MapStep == MapInv /\ [Next]_vars => MapInv'
<1> SUFFICES ASSUME MapInv, [Next]_vars PROVE MapInv'
  OBVIOUS
<1> USE ConstantsAssumption DEF Capacity, Threads
<1>1. ASSUME NEW s \in Sockets, NEW i \in Ids, NEW requested \in Offers,
             NEW authorized \in BOOLEAN, Upgrade(s, i, requested, authorized)
      PROVE  MapInv'
  <2>1. PICK p \in {"want", "refused"} : hpc' = [hpc EXCEPT ![s] = p]
    BY <1>1 DEF Upgrade
  <2>2. /\ hpc[s] = "none" /\ wpc[s] = "none"
        /\ id' = [id EXCEPT ![s] = i]
        /\ UNCHANGED <<rpc, wpc, out, closeC, ping, forceCloseC, closed, connections, pc,
                       target, shut, rest, known, overlapped, crashed, calls>>
    BY <1>1 DEF Upgrade, MapInv, Sound, channelVars, callVars, clientVars
  <2>3. \A j \in Ids : connections[j] # s
    BY <2>2 DEF MapInv, TypeOK, Registered
  <2>4. TypeOK'
    BY <2>1, <2>2 DEF MapInv, TypeOK
  <2>5. Sound'
    BY <2>1, <2>2, <2>3, SMTT(30) DEF MapInv, TypeOK, Sound
  <2>6. Registered'
    BY <2>2, <2>3, SMTT(30) DEF MapInv, TypeOK, Registered
  <2>7. Targets' /\ SendersSafe'
    BY <2>2 DEF MapInv, Targets, SendersSafe
  <2> QED
    BY <2>4, <2>5, <2>6, <2>7 DEF MapInv
<1>2. ASSUME NEW s \in Sockets, HandlerLock(s) PROVE MapInv'
  BY <1>2, SMTT(30)
  DEF HandlerLock, MapInv, TypeOK, Sound, Targets, Registered, SendersSafe, socketVars,
      channelVars, callVars, clientVars
<1>3. ASSUME NEW s \in Sockets, Register(s) PROVE MapInv'
  <2>1. id[s] \in Ids
    BY <1>3 DEF Register, MapInv, Sound
  <2>2. overlapped' \in SUBSET Ids
    BY <1>3, <2>1, SMTT(30) DEF Register, CallbackDue, MapInv, TypeOK
  <2>3. TypeOK' /\ Targets'
    BY <1>3, <2>1, <2>2, SMTT(30) DEF Register, MapInv, TypeOK, Targets, channelVars, callVars
  <2>4. Sound'
    BY <1>3, SMTT(30) DEF Register, MapInv, TypeOK, Sound, Registered, channelVars
  <2>5. Registered'
    BY <1>3, SMTT(30)
    DEF Register, MapInv, TypeOK, Sound, Registered, socketVars, channelVars, callVars,
        clientVars
  <2>6. SendersSafe'
    BY <1>3
    DEF Register, MapInv, SendersSafe, socketVars, channelVars, callVars, clientVars
  <2> QED
    BY <2>3, <2>4, <2>5, <2>6 DEF MapInv
<1>4. ASSUME NEW s \in Sockets, NewClient(s) PROVE MapInv'
  BY <1>4, SMTT(30)
  DEF NewClient, MapInv, TypeOK, Sound, Targets, Registered, SendersSafe, socketVars,
      channelVars, callVars, clientVars
<1>5. ASSUME NEW s \in Sockets, ReadMessage(s) PROVE MapInv'
  BY <1>5, SMTT(30)
  DEF ReadMessage, Call, MapInv, TypeOK, Sound, Targets, Registered, SendersSafe,
      socketVars, channelVars, callVars, clientVars
<1>6. ASSUME NEW s \in Sockets, ReadPing(s) PROVE MapInv'
  BY <1>6, SMTT(30)
  DEF ReadPing, Call, MapInv, TypeOK, Sound, Targets, Registered, SendersSafe,
      socketVars, channelVars, callVars, clientVars
<1>7. ASSUME NEW s \in Sockets, PingSend(s) PROVE MapInv'
  BY <1>7, SMTT(30)
  DEF PingSend, MapInv, TypeOK, Sound, Targets, Registered, SendersSafe, socketVars,
      channelVars, callVars, clientVars
<1>8. ASSUME NEW s \in Sockets, ReadFail(s) PROVE MapInv'
  BY <1>8, SMTT(30)
  DEF ReadFail, MapInv, TypeOK, Sound, Targets, Registered, SendersSafe, socketVars,
      channelVars, callVars, clientVars
<1>9. ASSUME NEW s \in Sockets, PumpData(s) PROVE MapInv'
  BY <1>9, SMTT(30)
  DEF PumpData, Written, MapInv, TypeOK, Sound, Targets, Registered, SendersSafe,
      socketVars, channelVars, callVars, clientVars
<1>10. ASSUME NEW s \in Sockets, PumpPing(s) PROVE MapInv'
  BY <1>10, SMTT(30)
  DEF PumpPing, Written, MapInv, TypeOK, Sound, Targets, Registered, SendersSafe,
      socketVars, channelVars, callVars, clientVars
<1>11. ASSUME NEW s \in Sockets, PumpClose(s) PROVE MapInv'
  BY <1>11, SMTT(30)
  DEF PumpClose, MapInv, TypeOK, Sound, Targets, Registered, SendersSafe, socketVars,
      channelVars, callVars, clientVars
<1>12. ASSUME NEW s \in Sockets, PumpForce(s) PROVE MapInv'
  BY <1>12, SMTT(30)
  DEF PumpForce, MapInv, TypeOK, Sound, Targets, Registered, SendersSafe, socketVars,
      channelVars, callVars, clientVars
<1>13. ASSUME NEW s \in Sockets, PumpLock(s) PROVE MapInv'
  BY <1>13, SMTT(30)
  DEF PumpLock, MapInv, TypeOK, Sound, Targets, Registered, SendersSafe, socketVars,
      channelVars, callVars, clientVars
<1>14. ASSUME NEW s \in Sockets, Cleanup(s) PROVE MapInv'
  <2>1. id[s] \in Ids /\ connections[id[s]] = s
    BY <1>14 DEF Cleanup, MapInv, Registered
  <2>2. ASSUME NEW r \in Sockets, r # s, wpc[r] \in {"select", "want", "lock"}
        PROVE  id[r] \in Ids /\ id[r] # id[s] /\ connections'[id[r]] = r
    BY <1>14, <2>1, <2>2 DEF Cleanup, MapInv, TypeOK, Registered
  <2>3. TypeOK' /\ Sound' /\ Targets'
    BY <1>14, SMTT(30)
    DEF Cleanup, CallbackDue, MapInv, TypeOK, Sound, Targets, socketVars, channelVars,
        callVars, clientVars
  <2>4. \A i \in Ids : connections'[i] # s
    BY <1>14, <2>1, SMTT(30) DEF Cleanup, MapInv, TypeOK, Sound
  <2>5. Registered'
    BY <1>14, <2>1, <2>2, <2>4, SMTT(30) DEF Cleanup, MapInv, TypeOK, Sound, Registered
  <2>6. SendersSafe'
    BY <1>14
    DEF Cleanup, ReadLocked, MapInv, TypeOK, Targets, SendersSafe, socketVars,
        channelVars, callVars, clientVars
  <2> QED
    BY <2>3, <2>5, <2>6 DEF MapInv
<1>15. ASSUME NEW s \in Sockets, Disconnected(s) PROVE MapInv'
  BY <1>15, SMTT(30)
  DEF Disconnected, MapInv, TypeOK, Sound, Targets, Registered, SendersSafe, socketVars,
      channelVars, callVars, clientVars
<1>16. ASSUME NEW t \in Threads, NEW i \in Ids, Write(t, i) PROVE MapInv'
  BY <1>16, SMTT(30)
  DEF Write, Call, MapInv, TypeOK, Sound, Targets, Registered, SendersSafe, socketVars,
      channelVars, callVars, clientVars
<1>17. ASSUME NEW t \in Threads, WriteRLock(t) PROVE MapInv'
  BY <1>17, SMTT(30)
  DEF WriteRLock, MapInv, TypeOK, Sound, Targets, Registered, SendersSafe, socketVars,
      channelVars, callVars, clientVars
<1>18. ASSUME NEW t \in Threads, WriteSend(t) PROVE MapInv'
  BY <1>18, SMTT(30)
  DEF WriteSend, MapInv, TypeOK, Sound, Targets, Registered, SendersSafe, socketVars,
      channelVars, callVars, clientVars
<1>19. ASSUME NEW t \in Threads, NEW i \in Ids, StopConnection(t, i) PROVE MapInv'
  BY <1>19, SMTT(30)
  DEF StopConnection, Call, MapInv, TypeOK, Sound, Targets, Registered, SendersSafe,
      socketVars, channelVars, callVars, clientVars
<1>20. ASSUME NEW t \in Threads, StopSend(t) PROVE MapInv'
  BY <1>20, SMTT(30)
  DEF StopSend, MapInv, TypeOK, Sound, Targets, Registered, SendersSafe, socketVars,
      channelVars, callVars, clientVars
<1>21. ASSUME Stop PROVE MapInv'
  BY <1>21, SMTT(30)
  DEF Stop, MapInv, TypeOK, Sound, Targets, Registered, SendersSafe, socketVars,
      channelVars, callVars, clientVars
<1>22. ASSUME StopRLock PROVE MapInv'
  BY <1>22, SMTT(30)
  DEF StopRLock, MapInv, TypeOK, Sound, Targets, Registered, SendersSafe, socketVars,
      channelVars, callVars, clientVars
<1>23. ASSUME NEW s \in Sockets, StopConnectionsSend(s) PROVE MapInv'
  BY <1>23, SMTT(30)
  DEF StopConnectionsSend, MapInv, TypeOK, Sound, Targets, Registered, SendersSafe,
      socketVars, channelVars, callVars, clientVars
<1>24. ASSUME StopConnectionsDone PROVE MapInv'
  BY <1>24, SMTT(30)
  DEF StopConnectionsDone, MapInv, TypeOK, Sound, Targets, Registered, SendersSafe,
      socketVars, channelVars, callVars, clientVars
<1>25. ASSUME UNCHANGED vars PROVE MapInv'
  BY <1>25, SMTT(30) DEF MapInv, TypeOK, Sound, Targets, Registered, SendersSafe, vars
<1> QED
  BY <1>1, <1>2, <1>3, <1>4, <1>5, <1>6, <1>7, <1>8, <1>9, <1>10, <1>11, <1>12, <1>13,
     <1>14, <1>15, <1>16, <1>17, <1>18, <1>19, <1>20, <1>21, <1>22, <1>23, <1>24, <1>25
  DEF Next, Live, Handler, Reader, Cleaner, Caller, Stopper

LEMMA ClientInit == Init => ClientInv
BY ConstantsAssumption, SMTT(30) DEF Init, ClientInv, Callbacks, KnownClients, Due

(* A step that neither makes a callback due nor calls one. *)
LEMMA NoCallback ==
    ASSUME ClientInv, UNCHANGED <<id, connections, known, overlapped>>,
           \A s \in Sockets : (hpc'[s] = "callback") <=> (hpc[s] = "callback"),
           \A s \in Sockets : (wpc'[s] = "callback") <=> (wpc[s] = "callback")
    PROVE  ClientInv'
<1>1. \A i \in Ids : Due(i)' = Due(i)
  BY DEF Due
<1> QED
  <2>1. Callbacks'
    <3>1. \A i \in Ids : \A s : s \in Due(i)' => s \in Sockets /\ s \in Due(i)
      BY <1>1 DEF Due
    <3> QED
      BY <3>1 DEF ClientInv, Callbacks
  <2>2. KnownClients'
    BY <1>1 DEF ClientInv, KnownClients
  <2> QED
    BY <2>1, <2>2 DEF ClientInv

LEMMA ClientStep == MapInv /\ ClientInv /\ [Next]_vars => ClientInv'
<1> SUFFICES ASSUME MapInv, ClientInv, [Next]_vars PROVE ClientInv'
  OBVIOUS
<1> USE ConstantsAssumption DEF Threads
<1>1. ASSUME NEW s \in Sockets, NEW i \in Ids, NEW requested \in Offers,
             NEW authorized \in BOOLEAN, Upgrade(s, i, requested, authorized)
      PROVE  ClientInv'
  <2>1. PICK p \in {"want", "refused"} : hpc' = [hpc EXCEPT ![s] = p]
    BY <1>1 DEF Upgrade
  <2>2. /\ hpc[s] # "callback" /\ wpc[s] # "callback"
        /\ id' = [id EXCEPT ![s] = i]
        /\ UNCHANGED <<wpc, connections, known, overlapped>>
    BY <1>1 DEF Upgrade, MapInv, Sound, clientVars
  <2>3. \A j \in Ids : Due(j)' = Due(j)
    BY <2>1, <2>2, SMTT(30) DEF Due, MapInv, TypeOK
  <2>4. \A r \in Sockets : hpc'[r] = "callback" => hpc[r] = "callback"
    BY <2>1, <2>2 DEF MapInv, TypeOK
  <2>5. Callbacks'
    BY <2>2, <2>3, <2>4, SMTT(30) DEF ClientInv, Callbacks, Due
  <2>6. KnownClients'
    BY <2>2, <2>3 DEF ClientInv, KnownClients
  <2> QED
    BY <2>5, <2>6 DEF ClientInv
<1>2. ASSUME NEW s \in Sockets, Register(s) PROVE ClientInv'
  <2>1. CASE connections[id[s]] # None
    BY <1>2, <2>1, NoCallback, SMTT(30) DEF Register, MapInv, TypeOK, clientVars
  <2>2. CASE connections[id[s]] = None
    <3>1. PICK k \in Ids : k = id[s] /\ wpc[s] = "none" /\ hpc[s] # "callback"
      BY <1>2 DEF Register, MapInv, Sound
    <3>2. /\ Due(k)' = Due(k) \union {s}
          /\ \A i \in Ids : i # k => Due(i)' = Due(i) /\ connections'[i] = connections[i]
          /\ connections'[k] = s /\ hpc'[s] = "callback" /\ wpc'[s] = "select"
      BY <1>2, <2>2, <3>1, SMTT(30) DEF Register, Due, MapInv, TypeOK
    <3>3. overlapped \subseteq overlapped' /\ (Due(k) # {} => k \in overlapped') /\ known' = known
      BY <1>2, <2>2, <3>1 DEF Register, CallbackDue
    <3>4. \A r \in Sockets : r # s => hpc'[r] = hpc[r] /\ wpc'[r] = wpc[r]
      BY <1>2, <2>2, SMTT(30) DEF Register, MapInv, TypeOK
    <3>5. \A i \in Ids : Due(i) \subseteq Sockets \ {s}
      BY <3>1 DEF Due
    <3>6. Callbacks'
      <4> SUFFICES ASSUME NEW i \in Ids, i \notin overlapped'
                   PROVE  /\ \A q, r \in Due(i)' : q = r
                          /\ \A q \in Due(i)' : hpc'[q] = "callback" => connections'[i] = q
                          /\ \A q \in Due(i)' : wpc'[q] = "callback" => connections'[i] = None
        BY DEF Callbacks
      <4>1. CASE i = k
        BY <3>2, <3>3, <4>1
      <4>2. CASE i # k
        BY <3>2, <3>3, <3>4, <3>5, <4>2, SMTT(30) DEF ClientInv, Callbacks
      <4> QED
        BY <4>1, <4>2
    <3>7. KnownClients'
      <4> SUFFICES ASSUME NEW i \in Ids, i \notin overlapped', Due(i)' = {}
                   PROVE  i \in known' <=> connections'[i] # None
        BY DEF KnownClients
      <4>1. i # k
        BY <3>2
      <4> QED
        BY <3>2, <3>3, <4>1 DEF ClientInv, KnownClients
    <3> QED
      BY <3>6, <3>7 DEF ClientInv
  <2> QED
    BY <2>1, <2>2
<1>3. ASSUME NEW s \in Sockets, NewClient(s) PROVE ClientInv'
  <2>1. PICK k \in Ids : k = id[s] /\ s \in Due(k)
    BY <1>3 DEF NewClient, MapInv, Sound, Due
  <2>2. \A i \in Ids : Due(i)' \subseteq Due(i) /\ (i # k => Due(i)' = Due(i))
    BY <1>3, <2>1, SMTT(30) DEF NewClient, Due, MapInv, TypeOK
  <2>3. k \notin overlapped => Due(k)' = {} /\ connections[k] = s
    BY <1>3, <2>1, <2>2, SMTT(30) DEF NewClient, Due, ClientInv, Callbacks, MapInv, TypeOK
  <2>4. UNCHANGED <<wpc, connections, overlapped>> /\ known' = known \union {k}
    BY <1>3, <2>1 DEF NewClient
  <2>5. \A r \in Sockets : r # s => hpc'[r] = hpc[r]
    BY <1>3 DEF NewClient, MapInv, TypeOK
  <2>6. Callbacks'
    <3> SUFFICES ASSUME NEW i \in Ids, i \notin overlapped'
                 PROVE  /\ \A q, r \in Due(i)' : q = r
                        /\ \A q \in Due(i)' : hpc'[q] = "callback" => connections'[i] = q
                        /\ \A q \in Due(i)' : wpc'[q] = "callback" => connections'[i] = None
      BY DEF Callbacks
    <3>1. CASE i = k
      BY <2>3, <2>4, <3>1
    <3>2. CASE i # k
      <4>1. \A q \in Due(i) : q \in Sockets /\ q # s
        BY <2>1, <3>2 DEF Due
      <4> QED
        BY <2>2, <2>4, <2>5, <3>2, <4>1 DEF ClientInv, Callbacks
    <3> QED
      BY <3>1, <3>2
  <2>7. KnownClients'
    BY <2>1, <2>2, <2>3, <2>4 DEF ClientInv, KnownClients
  <2> QED
    BY <2>6, <2>7 DEF ClientInv
<1>4. ASSUME NEW s \in Sockets, Cleanup(s) PROVE ClientInv'
  <2>1. PICK k \in Ids : k = id[s] /\ wpc[s] = "lock"
    BY <1>4 DEF Cleanup, MapInv, Sound
  <2>2. /\ Due(k)' = Due(k) \union {s}
        /\ \A i \in Ids : i # k => Due(i)' = Due(i) /\ connections'[i] = connections[i]
        /\ connections'[k] = None /\ wpc'[s] = "callback" /\ hpc' = hpc
    BY <1>4, <2>1, SMTT(30) DEF Cleanup, Due, MapInv, TypeOK
  <2>3. overlapped \subseteq overlapped' /\ (Due(k) # {} => k \in overlapped') /\ known' = known
    BY <1>4, <2>1 DEF Cleanup, CallbackDue
  <2>4. \A r \in Sockets : r # s => wpc'[r] = wpc[r]
    BY <1>4 DEF Cleanup, MapInv, TypeOK
  <2>5. /\ \A i \in Ids : i # k => Due(i) \subseteq Sockets \ {s}
        /\ Due(k) = {} => hpc[s] # "callback"
    BY <2>1 DEF Due
  <2>6. Callbacks'
    <3> SUFFICES ASSUME NEW i \in Ids, i \notin overlapped'
                 PROVE  /\ \A q, r \in Due(i)' : q = r
                        /\ \A q \in Due(i)' : hpc'[q] = "callback" => connections'[i] = q
                        /\ \A q \in Due(i)' : wpc'[q] = "callback" => connections'[i] = None
      BY DEF Callbacks
    <3>1. CASE i = k
      BY <2>2, <2>3, <2>5, <3>1
    <3>2. CASE i # k
      BY <2>2, <2>3, <2>4, <2>5, <3>2, SMTT(30) DEF ClientInv, Callbacks
    <3> QED
      BY <3>1, <3>2
  <2>7. KnownClients'
    <3> SUFFICES ASSUME NEW i \in Ids, i \notin overlapped', Due(i)' = {}
                 PROVE  i \in known' <=> connections'[i] # None
      BY DEF KnownClients
    <3>1. i # k
      BY <2>2
    <3> QED
      BY <2>2, <2>3, <3>1 DEF ClientInv, KnownClients
  <2> QED
    BY <2>6, <2>7 DEF ClientInv
<1>5. ASSUME NEW s \in Sockets, Disconnected(s) PROVE ClientInv'
  <2>1. PICK k \in Ids : k = id[s] /\ s \in Due(k)
    BY <1>5 DEF Disconnected, MapInv, Sound, Due
  <2>2. \A i \in Ids : Due(i)' \subseteq Due(i) /\ (i # k => Due(i)' = Due(i))
    BY <1>5, <2>1, SMTT(30) DEF Disconnected, Due, MapInv, TypeOK
  <2>3. k \notin overlapped => Due(k)' = {} /\ connections[k] = None
    BY <1>5, <2>1, <2>2, SMTT(30) DEF Disconnected, Due, ClientInv, Callbacks, MapInv, TypeOK
  <2>4. UNCHANGED <<hpc, connections, overlapped>> /\ known' = known \ {k}
    BY <1>5, <2>1 DEF Disconnected
  <2>5. \A r \in Sockets : r # s => wpc'[r] = wpc[r]
    BY <1>5 DEF Disconnected, MapInv, TypeOK
  <2>6. Callbacks'
    <3> SUFFICES ASSUME NEW i \in Ids, i \notin overlapped'
                 PROVE  /\ \A q, r \in Due(i)' : q = r
                        /\ \A q \in Due(i)' : hpc'[q] = "callback" => connections'[i] = q
                        /\ \A q \in Due(i)' : wpc'[q] = "callback" => connections'[i] = None
      BY DEF Callbacks
    <3>1. CASE i = k
      BY <2>3, <2>4, <3>1
    <3>2. CASE i # k
      <4>1. \A q \in Due(i) : q \in Sockets /\ q # s
        BY <2>1, <3>2 DEF Due
      <4> QED
        BY <2>2, <2>4, <2>5, <3>2, <4>1, SMTT(30) DEF ClientInv, Callbacks
    <3> QED
      BY <3>1, <3>2
  <2>7. KnownClients'
    BY <2>1, <2>2, <2>3, <2>4 DEF ClientInv, KnownClients
  <2> QED
    BY <2>6, <2>7 DEF ClientInv
<1>6. ASSUME NEW s \in Sockets, HandlerLock(s) PROVE ClientInv'
  BY <1>6, NoCallback
  DEF HandlerLock, MapInv, TypeOK, socketVars, channelVars, callVars, clientVars
<1>7. ASSUME NEW s \in Sockets, ReadMessage(s) PROVE ClientInv'
  BY <1>7, NoCallback
  DEF ReadMessage, Call, MapInv, TypeOK, socketVars, channelVars, callVars, clientVars
<1>8. ASSUME NEW s \in Sockets, ReadPing(s) PROVE ClientInv'
  BY <1>8, NoCallback
  DEF ReadPing, Call, MapInv, TypeOK, socketVars, channelVars, callVars, clientVars
<1>9. ASSUME NEW s \in Sockets, PingSend(s) PROVE ClientInv'
  BY <1>9, NoCallback
  DEF PingSend, MapInv, TypeOK, socketVars, channelVars, callVars, clientVars
<1>10. ASSUME NEW s \in Sockets, ReadFail(s) PROVE ClientInv'
  BY <1>10, NoCallback
  DEF ReadFail, MapInv, TypeOK, socketVars, channelVars, callVars, clientVars
<1>11. ASSUME NEW s \in Sockets, PumpData(s) PROVE ClientInv'
  BY <1>11, NoCallback, SMTT(30)
  DEF PumpData, Written, MapInv, TypeOK, socketVars, channelVars, callVars, clientVars
<1>12. ASSUME NEW s \in Sockets, PumpPing(s) PROVE ClientInv'
  BY <1>12, NoCallback, SMTT(30)
  DEF PumpPing, Written, MapInv, TypeOK, socketVars, channelVars, callVars, clientVars
<1>13. ASSUME NEW s \in Sockets, PumpClose(s) PROVE ClientInv'
  BY <1>13, NoCallback
  DEF PumpClose, MapInv, TypeOK, socketVars, channelVars, callVars, clientVars
<1>14. ASSUME NEW s \in Sockets, PumpForce(s) PROVE ClientInv'
  BY <1>14, NoCallback
  DEF PumpForce, MapInv, TypeOK, socketVars, channelVars, callVars, clientVars
<1>15. ASSUME NEW s \in Sockets, PumpLock(s) PROVE ClientInv'
  BY <1>15, NoCallback
  DEF PumpLock, MapInv, TypeOK, socketVars, channelVars, callVars, clientVars
<1>16. ASSUME NEW t \in Threads, NEW i \in Ids, Write(t, i) PROVE ClientInv'
  BY <1>16, NoCallback
  DEF Write, Call, MapInv, TypeOK, socketVars, channelVars, callVars, clientVars
<1>17. ASSUME NEW t \in Threads, WriteRLock(t) PROVE ClientInv'
  BY <1>17, NoCallback
  DEF WriteRLock, MapInv, TypeOK, socketVars, channelVars, callVars, clientVars
<1>18. ASSUME NEW t \in Threads, WriteSend(t) PROVE ClientInv'
  BY <1>18, NoCallback
  DEF WriteSend, MapInv, TypeOK, socketVars, channelVars, callVars, clientVars
<1>19. ASSUME NEW t \in Threads, NEW i \in Ids, StopConnection(t, i) PROVE ClientInv'
  BY <1>19, NoCallback
  DEF StopConnection, Call, MapInv, TypeOK, socketVars, channelVars, callVars,
      clientVars
<1>20. ASSUME NEW t \in Threads, StopSend(t) PROVE ClientInv'
  BY <1>20, NoCallback
  DEF StopSend, MapInv, TypeOK, socketVars, channelVars, callVars, clientVars
<1>21. ASSUME Stop PROVE ClientInv'
  BY <1>21, NoCallback
  DEF Stop, MapInv, TypeOK, socketVars, channelVars, callVars, clientVars
<1>22. ASSUME StopRLock PROVE ClientInv'
  BY <1>22, NoCallback
  DEF StopRLock, MapInv, TypeOK, socketVars, channelVars, callVars, clientVars
<1>23. ASSUME NEW s \in Sockets, StopConnectionsSend(s) PROVE ClientInv'
  BY <1>23, NoCallback
  DEF StopConnectionsSend, MapInv, TypeOK, socketVars, channelVars, callVars, clientVars
<1>24. ASSUME StopConnectionsDone PROVE ClientInv'
  BY <1>24, NoCallback
  DEF StopConnectionsDone, MapInv, TypeOK, socketVars, channelVars, callVars, clientVars
<1>25. ASSUME UNCHANGED vars PROVE ClientInv'
  BY <1>25, NoCallback DEF vars
<1> QED
  BY <1>1, <1>2, <1>3, <1>4, <1>5, <1>6, <1>7, <1>8, <1>9, <1>10, <1>11, <1>12, <1>13,
     <1>14, <1>15, <1>16, <1>17, <1>18, <1>19, <1>20, <1>21, <1>22, <1>23, <1>24, <1>25
  DEF Next, Live, Handler, Reader, Cleaner, Caller, Stopper

(* Every variable has a value of its type, and no channel holds more than its *)
(* capacity, whatever is accepted, written and stopped at the same time.     *)
THEOREM TypeCorrect == Spec => []TypeOK
<1>1. MapInv => TypeOK
  BY DEF MapInv
<1> QED
  BY MapInit, MapStep, <1>1, PTL DEF Spec

(* The connection map holds exactly the connections that were not cleaned up *)
(* yet, one for an id, and cleanupConnection deletes its own entry only.     *)
THEOREM MapIsRight == Spec => []Registered
<1>1. MapInv => Registered
  BY DEF MapInv
<1> QED
  BY MapInit, MapStep, <1>1, PTL DEF Spec

(* Write and stopConnections never send on a channel that is closed.         *)
THEOREM LockedSendersSafe == Spec => []SendersSafe
<1>1. MapInv => SendersSafe
  BY DEF MapInv
<1> QED
  BY MapInit, MapStep, <1>1, PTL DEF Spec

(* What onClientConnected and onClientDisconnected have left in ocppj.Server *)
(* agrees with the map, for every id of which no two callbacks were due at a *)
(* time.                                                                     *)
THEOREM ClientsKnown == Spec => []KnownClients
<1>1. MapInv /\ ClientInv => KnownClients
  BY DEF ClientInv
<1> QED
  BY MapInit, MapStep, ClientInit, ClientStep, <1>1, PTL DEF Spec
=============================================================================
