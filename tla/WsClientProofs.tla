--------------------------- MODULE WsClientProofs ---------------------------
(***************************************************************************)
(* What the websocket client guarantees of its goroutines and of the       *)
(* handlers it calls, for any number of connections, callers and delays.   *)
(***************************************************************************)
EXTENDS WsClient, FiniteSetTheorems, TLAPS

(* Steps that need arithmetic, sequences or functions say SMTT. *)
USE ZenonT(60)

(* The goroutine that has the connection in hand is the write pump of the     *)
(* latest one; connections that are not made yet have no goroutines, and     *)
(* whoever is about to send knows a connection.                              *)
Sound ==
    /\ \A g \in Conns : g > gen => wpc[g] = "none" /\ rpc[g] = "none" /\ ~closed[g]
    /\ \A g \in 0..MaxConns :
         /\ wpc[g] \in {"select", "clean", "close", "callback", "pause"} => g = gen /\ g > 0
         /\ wpc[g] \in {"select", "clean", "close"} => ~closed[gen]
         /\ wpc[g] = "install" => gen > 0 /\ wpc[gen] = "none" /\ ~closed[gen]
    /\ \A t \in Callers : /\ pc[t] = "checked" => gen > 0
                          /\ pc[t] = "blocked" => target[t] \in Conns

PumpInv == TypeOK /\ Sound /\ OnePump

LEMMA PumpInit == Init => PumpInv
<1> SUFFICES ASSUME Init PROVE PumpInv
  OBVIOUS
<1> USE ConstantsAssumption DEF Init, Conns, Capacity
<1>1. Data
  BY SMTT(30) DEF Data
<1>2. Flags
  BY DEF Flags
<1>3. \A g \in Conns : wpc[g] = "none" /\ rpc[g] = "none" /\ closed[g] = FALSE
  BY SMTT(30)
<1>4. Sound
  BY <1>3 DEF Sound
<1>5. OnePump
  BY DEF OnePump, Active
<1> QED
  BY <1>1, <1>2, <1>4, <1>5 DEF PumpInv, TypeOK


LEMMA PumpStep == PumpInv /\ [Next]_vars => PumpInv'
<1> SUFFICES ASSUME PumpInv, [Next]_vars PROVE PumpInv'
  OBVIOUS
<1> USE ConstantsAssumption DEF Conns, Capacity
<1>1. ASSUME NEW g \in 0..MaxConns, DialFails(g) PROVE PumpInv'
  <2>1. wpc' \in {[wpc EXCEPT ![g] = "done"], [wpc EXCEPT ![g] = "wait"]}
    BY <1>1 DEF DialFails
  <2>2. delay' \in Nat /\ attempts' \in Nat
    BY <1>1, SMTT(30) DEF DialFails, FirstDelay, NextDelay, backOffVars, PumpInv, TypeOK, Data
  <2>3. Data'
    BY <1>1, <2>1, <2>2
    DEF DialFails, PumpInv, TypeOK, Data, socketVars, callVars, stopVars, eventVars
  <2>4. Flags'
    BY <1>1 DEF DialFails, PumpInv, TypeOK, Flags, stopVars, eventVars
  <2>5. Sound'
    BY <1>1, <2>1, SMTT(30) DEF DialFails, PumpInv, TypeOK, Data, Sound, socketVars, callVars
  <2>6. OnePump'
    BY <1>1, <2>1, SMTT(30) DEF DialFails, PumpInv, TypeOK, Data, Sound, OnePump, Active, socketVars
  <2> QED
    BY <2>3, <2>4, <2>5, <2>6 DEF PumpInv, TypeOK
<1>2. ASSUME NEW g \in 0..MaxConns, Dial(g) PROVE PumpInv'
  <2>1. Data'
    BY <1>2, SMTT(30)
    DEF Dial, PumpInv, TypeOK, Data, Sound, backOffVars, callVars, stopVars, eventVars
  <2>2. Flags'
    BY <1>2
    DEF Dial, PumpInv, TypeOK, Data, Flags, Sound, backOffVars, callVars, stopVars,
        eventVars
  <2>3. Sound'
    BY <1>2, SMTT(30)
    DEF Dial, PumpInv, TypeOK, Data, Sound, OnePump, Active, backOffVars, callVars,
        stopVars, eventVars
  <2>4. OnePump'
    BY <1>2, SMTT(30)
    DEF Dial, PumpInv, TypeOK, Data, Sound, OnePump, Active, backOffVars, callVars,
        stopVars, eventVars
  <2> QED
    BY <2>1, <2>2, <2>3, <2>4 DEF PumpInv, TypeOK
<1>3. ASSUME NEW g \in 0..MaxConns, Install(g) PROVE PumpInv'
  <2>1. gen \in Conns /\ gen # g /\ wpc[gen] = "none" /\ ~closed[gen]
    BY <1>3, SMTT(30) DEF Install, PumpInv, TypeOK, Data, Sound
  <2>2. PICK p \in {"done", "reconnected"} : wpc' = [wpc EXCEPT ![g] = p, ![gen] = "select"]
    BY <1>3 DEF Install
  <2>3. \A h \in 0..MaxConns :
          wpc'[h] = IF h = gen THEN "select" ELSE IF h = g THEN p ELSE wpc[h]
    BY <2>1, <2>2 DEF PumpInv, TypeOK, Data
  <2>4. \A h \in 0..MaxConns : h # g => ~Active(h)
    BY <1>3 DEF Install, PumpInv, OnePump, Active
  <2>5. Data'
    <3>1. wpc' \in [0..MaxConns -> {"none", "dial", "install", "reconnected", "wait", "select",
                                    "clean", "close", "callback", "pause", "done"}]
      BY <2>2 DEF PumpInv, TypeOK, Data
    <3>2. rpc' \in [Conns -> {"none", "read", "handle", "done"}]
      BY <1>3, <2>1 DEF Install, PumpInv, TypeOK, Data
    <3> QED
      BY <1>3, <3>1, <3>2
      DEF Install, PumpInv, TypeOK, Data, socketVars, callVars, stopVars, eventVars
  <2>6. Flags'
    BY <1>3 DEF Install, PumpInv, TypeOK, Flags, stopVars, eventVars
  <2>7. Sound'
    <3>1. /\ UNCHANGED <<gen, closed, pc, target>> /\ rpc' = [rpc EXCEPT ![gen] = "read"]
          /\ wpc[g] = "install"
      BY <1>3 DEF Install, socketVars, callVars
    <3>2. Sound /\ gen \in Conns /\ gen > 0 /\ wpc[gen] = "none" /\ ~closed[gen]
      BY <2>1, <3>1 DEF PumpInv, Sound
    <3>3. /\ Conns \subseteq 0..MaxConns /\ gen \in Int /\ \A h \in Conns : h \in Int
          /\ rpc \in [Conns -> {"none", "read", "handle", "done"}]
      BY <3>2, SMTT(30) DEF PumpInv, TypeOK, Data, Conns
    <3>4. \A h \in Conns : h > gen => h # g
      BY <3>1, <3>2, SMTT(30) DEF Sound
    <3>5. \A h \in Conns : h > gen => wpc'[h] = "none" /\ rpc'[h] = "none" /\ ~closed[h]
      BY <2>3, <3>1, <3>2, <3>3, <3>4, SMTT(30) DEF Sound
    <3>6. \A h \in 0..MaxConns :
            wpc'[h] \in {"install", "select", "clean", "close", "callback", "pause"} => h = gen
      BY <2>2, <2>3, <2>4 DEF Active
    <3>7. wpc'[gen] = "select"
      BY <2>3, <3>2, <3>3
    <3> QED
      BY <3>1, <3>2, <3>5, <3>6, <3>7 DEF Sound
  <2>8. OnePump'
    <3>1. \A h \in 0..MaxConns : Active(h)' => h = gen
      BY <2>3, <2>4 DEF Active
    <3>2. gen' = gen /\ closed' = closed
      BY <1>3 DEF Install, socketVars
    <3>3. gen \in 0..MaxConns /\ gen > 0
      BY <2>1, SMTT(30)
    <3>4. wpc'[gen] = "select"
      BY <2>3, <3>3
    <3> QED
      BY <2>1, <3>1, <3>2, <3>3, <3>4 DEF OnePump
  <2> QED
    BY <2>5, <2>6, <2>7, <2>8 DEF PumpInv, TypeOK
<1>4. ASSUME NEW g \in 0..MaxConns, Reconnected(g) PROVE PumpInv'
  <2>1. Data'
    BY <1>4, SMTT(30)
    DEF Reconnected, PumpInv, TypeOK, Data, Sound, socketVars, backOffVars, callVars,
        stopVars
  <2>2. Flags'
    BY <1>4
    DEF Reconnected, PumpInv, TypeOK, Data, Flags, Sound, socketVars, backOffVars,
        callVars, stopVars
  <2>3. Sound'
    BY <1>4, SMTT(30)
    DEF Reconnected, PumpInv, TypeOK, Data, Sound, OnePump, Active, socketVars,
        backOffVars, callVars, stopVars
  <2>4. OnePump'
    BY <1>4, SMTT(30)
    DEF Reconnected, PumpInv, TypeOK, Data, Sound, OnePump, Active, socketVars,
        backOffVars, callVars, stopVars
  <2> QED
    BY <2>1, <2>2, <2>3, <2>4 DEF PumpInv, TypeOK
<1>5. ASSUME NEW g \in 0..MaxConns, WaitOver(g) PROVE PumpInv'
  <2>1. Data'
    BY <1>5
    DEF WaitOver, PumpInv, TypeOK, Data, Sound, socketVars, backOffVars, callVars,
        stopVars, eventVars
  <2>2. Flags'
    BY <1>5
    DEF WaitOver, PumpInv, TypeOK, Data, Flags, Sound, socketVars, backOffVars,
        callVars, stopVars, eventVars
  <2>3. Sound'
    BY <1>5, SMTT(30)
    DEF WaitOver, PumpInv, TypeOK, Data, Sound, OnePump, Active, socketVars,
        backOffVars, callVars, stopVars, eventVars
  <2>4. OnePump'
    BY <1>5, SMTT(30)
    DEF WaitOver, PumpInv, TypeOK, Data, Sound, OnePump, Active, socketVars,
        backOffVars, callVars, stopVars, eventVars
  <2> QED
    BY <2>1, <2>2, <2>3, <2>4 DEF PumpInv, TypeOK
<1>6. ASSUME NEW g \in 0..MaxConns, WaitStopped(g) PROVE PumpInv'
  <2>1. Data'
    BY <1>6
    DEF WaitStopped, PumpInv, TypeOK, Data, Sound, socketVars, backOffVars, callVars,
        stopVars, eventVars
  <2>2. Flags'
    BY <1>6
    DEF WaitStopped, PumpInv, TypeOK, Data, Flags, Sound, socketVars, backOffVars,
        callVars, stopVars, eventVars
  <2>3. Sound'
    BY <1>6, SMTT(30)
    DEF WaitStopped, PumpInv, TypeOK, Data, Sound, OnePump, Active, socketVars,
        backOffVars, callVars, stopVars, eventVars
  <2>4. OnePump'
    BY <1>6
    DEF WaitStopped, PumpInv, TypeOK, Data, Sound, OnePump, Active, socketVars,
        backOffVars, callVars, stopVars, eventVars
  <2> QED
    BY <2>1, <2>2, <2>3, <2>4 DEF PumpInv, TypeOK
<1>7. ASSUME NEW g \in Conns, PumpData(g) PROVE PumpInv'
  <2>1. Data'
    BY <1>7, SMTT(30)
    DEF PumpData, PumpFails, PumpInv, TypeOK, Data, Sound, backOffVars, callVars,
        stopVars, eventVars
  <2>2. Flags'
    BY <1>7
    DEF PumpData, PumpFails, PumpInv, TypeOK, Data, Flags, Sound, backOffVars, callVars,
        stopVars, eventVars
  <2>3. Sound'
    BY <1>7, SMTT(30)
    DEF PumpData, PumpFails, PumpInv, TypeOK, Data, Sound, OnePump, Active, backOffVars,
        callVars, stopVars, eventVars
  <2>4. OnePump'
    BY <1>7, SMTT(30)
    DEF PumpData, PumpFails, PumpInv, TypeOK, Data, Sound, OnePump, Active, backOffVars,
        callVars, stopVars, eventVars
  <2> QED
    BY <2>1, <2>2, <2>3, <2>4 DEF PumpInv, TypeOK
<1>8. ASSUME NEW g \in Conns, PumpPingFails(g) PROVE PumpInv'
  <2>1. Data'
    BY <1>8
    DEF PumpPingFails, PumpFails, PumpInv, TypeOK, Data, Sound, socketVars, backOffVars,
        callVars, stopVars, eventVars
  <2>2. Flags'
    BY <1>8
    DEF PumpPingFails, PumpFails, PumpInv, TypeOK, Data, Flags, Sound, socketVars,
        backOffVars, callVars, stopVars, eventVars
  <2>3. Sound'
    BY <1>8, SMTT(30)
    DEF PumpPingFails, PumpFails, PumpInv, TypeOK, Data, Sound, OnePump, Active,
        socketVars, backOffVars, callVars, stopVars, eventVars
  <2>4. OnePump'
    BY <1>8, SMTT(30)
    DEF PumpPingFails, PumpFails, PumpInv, TypeOK, Data, Sound, OnePump, Active,
        socketVars, backOffVars, callVars, stopVars, eventVars
  <2> QED
    BY <2>1, <2>2, <2>3, <2>4 DEF PumpInv, TypeOK
<1>9. ASSUME NEW g \in Conns, PumpClose(g) PROVE PumpInv'
  <2>1. Data'
    BY <1>9, SMTT(30)
    DEF PumpClose, PumpInv, TypeOK, Data, Sound, backOffVars, callVars, stopVars,
        eventVars
  <2>2. Flags'
    BY <1>9
    DEF PumpClose, PumpInv, TypeOK, Data, Flags, Sound, backOffVars, callVars, stopVars,
        eventVars
  <2>3. Sound'
    BY <1>9, SMTT(30)
    DEF PumpClose, PumpInv, TypeOK, Data, Sound, OnePump, Active, backOffVars, callVars,
        stopVars, eventVars
  <2>4. OnePump'
    BY <1>9, SMTT(30)
    DEF PumpClose, PumpInv, TypeOK, Data, Sound, OnePump, Active, backOffVars, callVars,
        stopVars, eventVars
  <2> QED
    BY <2>1, <2>2, <2>3, <2>4 DEF PumpInv, TypeOK
<1>10. ASSUME NEW g \in Conns, PumpForce(g) PROVE PumpInv'
  <2>1. Data'
    BY <1>10, SMTT(30)
    DEF PumpForce, PumpFails, PumpInv, TypeOK, Data, Sound, backOffVars, callVars,
        stopVars, eventVars
  <2>2. Flags'
    BY <1>10
    DEF PumpForce, PumpFails, PumpInv, TypeOK, Data, Flags, Sound, backOffVars,
        callVars, stopVars, eventVars
  <2>3. Sound'
    BY <1>10, SMTT(30)
    DEF PumpForce, PumpFails, PumpInv, TypeOK, Data, Sound, OnePump, Active,
        backOffVars, callVars, stopVars, eventVars
  <2>4. OnePump'
    BY <1>10, SMTT(30)
    DEF PumpForce, PumpFails, PumpInv, TypeOK, Data, Sound, OnePump, Active,
        backOffVars, callVars, stopVars, eventVars
  <2> QED
    BY <2>1, <2>2, <2>3, <2>4 DEF PumpInv, TypeOK
<1>11. ASSUME NEW g \in Conns, CleanFlag(g) PROVE PumpInv'
  <2>1. Data'
    BY <1>11
    DEF CleanFlag, PumpInv, TypeOK, Data, Sound, socketVars, backOffVars, callVars,
        stopVars, eventVars
  <2>2. Flags'
    BY <1>11
    DEF CleanFlag, PumpInv, TypeOK, Data, Flags, Sound, socketVars, backOffVars,
        callVars, stopVars, eventVars
  <2>3. Sound'
    BY <1>11, SMTT(30)
    DEF CleanFlag, PumpInv, TypeOK, Data, Sound, OnePump, Active, socketVars,
        backOffVars, callVars, stopVars, eventVars
  <2>4. OnePump'
    BY <1>11, SMTT(30)
    DEF CleanFlag, PumpInv, TypeOK, Data, Sound, OnePump, Active, socketVars,
        backOffVars, callVars, stopVars, eventVars
  <2> QED
    BY <2>1, <2>2, <2>3, <2>4 DEF PumpInv, TypeOK
<1>12. ASSUME NEW g \in Conns, CleanChannels(g) PROVE PumpInv'
  <2>1. Data'
    BY <1>12, SMTT(30)
    DEF CleanChannels, PumpInv, TypeOK, Data, Sound, backOffVars, callVars, stopVars,
        eventVars
  <2>2. Flags'
    BY <1>12
    DEF CleanChannels, PumpInv, TypeOK, Data, Flags, Sound, backOffVars, callVars,
        stopVars, eventVars
  <2>3. Sound'
    BY <1>12, SMTT(30)
    DEF CleanChannels, PumpInv, TypeOK, Data, Sound, OnePump, Active, backOffVars,
        callVars, stopVars, eventVars
  <2>4. OnePump'
    BY <1>12, SMTT(30)
    DEF CleanChannels, PumpInv, TypeOK, Data, Sound, OnePump, Active, backOffVars,
        callVars, stopVars, eventVars
  <2> QED
    BY <2>1, <2>2, <2>3, <2>4 DEF PumpInv, TypeOK
<1>13. ASSUME NEW g \in Conns, Disconnected(g) PROVE PumpInv'
  <2>1. PICK p \in {"done", "wait", "pause"} : wpc' = [wpc EXCEPT ![g] = p]
    BY <1>13 DEF Disconnected, Reconnect
  <2>2. delay' \in Nat /\ attempts' \in Nat
    BY <1>13, SMTT(30) DEF Disconnected, Reconnect, FirstDelay, backOffVars, PumpInv, TypeOK, Data
  <2>3. discs' \in Nat /\ cleanupC' \in {"empty", "full", "closed"}
    BY <1>13, SMTT(30) DEF Disconnected, PumpInv, TypeOK, Data
  <2>4. Data'
    BY <1>13, <2>1, <2>2, <2>3
    DEF Disconnected, PumpInv, TypeOK, Data, socketVars, callVars
  <2>5. Flags'
    BY <1>13 DEF Disconnected, PumpInv, TypeOK, Flags
  <2>6. Sound'
    BY <1>13, <2>1, SMTT(30) DEF Disconnected, PumpInv, TypeOK, Data, Sound, socketVars, callVars
  <2>7. OnePump'
    BY <1>13, <2>1, SMTT(30)
    DEF Disconnected, PumpInv, TypeOK, Data, Sound, OnePump, Active, socketVars
  <2> QED
    BY <2>4, <2>5, <2>6, <2>7 DEF PumpInv, TypeOK
<1>14. ASSUME NEW g \in Conns, ReadMessage(g) PROVE PumpInv'
  <2>1. Data'
    BY <1>14
    DEF ReadMessage, PumpInv, TypeOK, Data, Sound, socketVars, backOffVars, callVars,
        stopVars, eventVars
  <2>2. Flags'
    BY <1>14
    DEF ReadMessage, PumpInv, TypeOK, Data, Flags, Sound, socketVars, backOffVars,
        callVars, stopVars, eventVars
  <2>3. Sound'
    BY <1>14
    DEF ReadMessage, PumpInv, TypeOK, Data, Sound, OnePump, Active, socketVars,
        backOffVars, callVars, stopVars, eventVars
  <2>4. OnePump'
    BY <1>14
    DEF ReadMessage, PumpInv, TypeOK, Data, Sound, OnePump, Active, socketVars,
        backOffVars, callVars, stopVars, eventVars
  <2> QED
    BY <2>1, <2>2, <2>3, <2>4 DEF PumpInv, TypeOK
<1>15. ASSUME NEW g \in Conns, HandlerReturns(g) PROVE PumpInv'
  <2>1. Data'
    BY <1>15
    DEF HandlerReturns, PumpInv, TypeOK, Data, Sound, socketVars, backOffVars, callVars,
        stopVars, eventVars
  <2>2. Flags'
    BY <1>15
    DEF HandlerReturns, PumpInv, TypeOK, Data, Flags, Sound, socketVars, backOffVars,
        callVars, stopVars, eventVars
  <2>3. Sound'
    BY <1>15
    DEF HandlerReturns, PumpInv, TypeOK, Data, Sound, OnePump, Active, socketVars,
        backOffVars, callVars, stopVars, eventVars
  <2>4. OnePump'
    BY <1>15
    DEF HandlerReturns, PumpInv, TypeOK, Data, Sound, OnePump, Active, socketVars,
        backOffVars, callVars, stopVars, eventVars
  <2> QED
    BY <2>1, <2>2, <2>3, <2>4 DEF PumpInv, TypeOK
<1>16. ASSUME NEW g \in Conns, ReadFail(g) PROVE PumpInv'
  <2>1. Data'
    BY <1>16, SMTT(30)
    DEF ReadFail, PumpInv, TypeOK, Data, Sound, backOffVars, callVars, stopVars,
        eventVars
  <2>2. Flags'
    BY <1>16
    DEF ReadFail, PumpInv, TypeOK, Data, Flags, Sound, backOffVars, callVars, stopVars,
        eventVars
  <2>3. Sound'
    BY <1>16
    DEF ReadFail, PumpInv, TypeOK, Data, Sound, OnePump, Active, backOffVars, callVars,
        stopVars, eventVars
  <2>4. OnePump'
    BY <1>16
    DEF ReadFail, PumpInv, TypeOK, Data, Sound, OnePump, Active, backOffVars, callVars,
        stopVars, eventVars
  <2> QED
    BY <2>1, <2>2, <2>3, <2>4 DEF PumpInv, TypeOK
<1>17. ASSUME NEW t \in Callers, Write(t) PROVE PumpInv'
  <2>1. Data'
    BY <1>17
    DEF Write, PumpInv, TypeOK, Data, Sound, socketVars, backOffVars, stopVars,
        eventVars
  <2>2. Flags'
    BY <1>17
    DEF Write, PumpInv, TypeOK, Data, Flags, Sound, socketVars, backOffVars, stopVars,
        eventVars
  <2>3. Sound'
    BY <1>17
    DEF Write, PumpInv, TypeOK, Data, Sound, OnePump, Active, socketVars, backOffVars,
        stopVars, eventVars
  <2>4. OnePump'
    BY <1>17
    DEF Write, PumpInv, TypeOK, Data, Sound, OnePump, Active, socketVars, backOffVars,
        stopVars, eventVars
  <2> QED
    BY <2>1, <2>2, <2>3, <2>4 DEF PumpInv, TypeOK
<1>18. ASSUME NEW t \in Callers, WriteSend(t) PROVE PumpInv'
  <2>1. gen \in Conns
    BY <1>18, SMTT(30) DEF WriteSend, PumpInv, TypeOK, Data, Sound
  <2>2. out' \in [Conns -> 0..Capacity]
    BY <1>18, <2>1, SMTT(30) DEF WriteSend, Send, PumpInv, TypeOK, Data
  <2>3. /\ pc' \in {[pc EXCEPT ![t] = "idle"], [pc EXCEPT ![t] = "blocked"]}
        /\ target' \in {[target EXCEPT ![t] = 0], [target EXCEPT ![t] = gen]}
    BY <1>18 DEF WriteSend, Send
  <2>4. Data'
    <3>1. pc' \in [Callers -> {"idle", "checked", "blocked"}]
      BY <2>3 DEF PumpInv, TypeOK, Data
    <3>2. gen \in 0..MaxConns /\ 0 \in 0..MaxConns /\ target \in [Callers -> 0..MaxConns]
      BY SMTT(30) DEF PumpInv, TypeOK, Data
    <3>3. target' \in [Callers -> 0..MaxConns]
      BY <2>3, <3>2
    <3> QED
      BY <1>18, <2>2, <3>1, <3>3
      DEF WriteSend, PumpInv, TypeOK, Data, backOffVars, stopVars, eventVars
  <2>5. Flags'
    BY <1>18, <2>1 DEF WriteSend, Send, PumpInv, TypeOK, Data, Flags, stopVars, eventVars
  <2>6. Sound'
    <3>1. UNCHANGED <<wpc, rpc, gen, closed>>
      BY <1>18 DEF WriteSend
    <3>2. \A c \in Callers : (pc'[c] = "checked" => pc[c] = "checked")
                             /\ (pc'[c] = "blocked" => target'[c] \in Conns)
      BY <1>18, <2>1, SMTT(30) DEF WriteSend, Send, PumpInv, TypeOK, Data, Sound
    <3> QED
      BY <3>1, <3>2 DEF PumpInv, Sound
  <2>7. OnePump'
    BY <1>18 DEF WriteSend, PumpInv, OnePump, Active
  <2> QED
    BY <2>4, <2>5, <2>6, <2>7 DEF PumpInv, TypeOK
<1>19. ASSUME NEW t \in Callers, WriteUnblocked(t) PROVE PumpInv'
  <2>0. target[t] \in Conns /\ out[target[t]] \in 0..Capacity
    BY <1>19 DEF WriteUnblocked, PumpInv, Sound, TypeOK, Data
  <2>1. Data'
    <3>1. out' \in [Conns -> 0..Capacity]
      BY <1>19, <2>0, SMTT(30) DEF WriteUnblocked, Send, PumpInv, TypeOK, Data
    <3>2. /\ pc' \in [Callers -> {"idle", "checked", "blocked"}]
          /\ target' \in [Callers -> 0..MaxConns]
      BY <1>19, SMTT(30) DEF WriteUnblocked, Send, PumpInv, TypeOK, Data
    <3> QED
      BY <1>19, <3>1, <3>2
      DEF WriteUnblocked, PumpInv, TypeOK, Data, backOffVars, stopVars, eventVars
  <2>2. Flags'
    BY <1>19
    DEF WriteUnblocked, Send, PumpInv, TypeOK, Data, Flags, Sound, backOffVars,
        stopVars, eventVars
  <2>3. Sound'
    BY <1>19
    DEF WriteUnblocked, Send, PumpInv, TypeOK, Data, Sound, OnePump, Active,
        backOffVars, stopVars, eventVars
  <2>4. OnePump'
    BY <1>19
    DEF WriteUnblocked, Send, PumpInv, TypeOK, Data, Sound, OnePump, Active,
        backOffVars, stopVars, eventVars
  <2> QED
    BY <2>1, <2>2, <2>3, <2>4 DEF PumpInv, TypeOK
<1>20. ASSUME Stop PROVE PumpInv'
  <2>1. Data'
    BY <1>20
    DEF Stop, PumpInv, TypeOK, Data, Sound, socketVars, backOffVars, callVars, eventVars
  <2>2. Flags'
    BY <1>20
    DEF Stop, PumpInv, TypeOK, Data, Flags, Sound, socketVars, backOffVars, callVars,
        eventVars
  <2>3. Sound'
    BY <1>20
    DEF Stop, PumpInv, TypeOK, Data, Sound, OnePump, Active, socketVars, backOffVars,
        callVars, eventVars
  <2>4. OnePump'
    BY <1>20
    DEF Stop, PumpInv, TypeOK, Data, Sound, OnePump, Active, socketVars, backOffVars,
        callVars, eventVars
  <2> QED
    BY <2>1, <2>2, <2>3, <2>4 DEF PumpInv, TypeOK
<1>21. ASSUME StopIntercept PROVE PumpInv'
  <2>1. Data'
    BY <1>21
    DEF StopIntercept, PumpInv, TypeOK, Data, Sound, socketVars, backOffVars, callVars,
        eventVars
  <2>2. Flags'
    BY <1>21
    DEF StopIntercept, PumpInv, TypeOK, Data, Flags, Sound, socketVars, backOffVars,
        callVars, eventVars
  <2>3. Sound'
    BY <1>21
    DEF StopIntercept, PumpInv, TypeOK, Data, Sound, OnePump, Active, socketVars,
        backOffVars, callVars, eventVars
  <2>4. OnePump'
    BY <1>21
    DEF StopIntercept, PumpInv, TypeOK, Data, Sound, OnePump, Active, socketVars,
        backOffVars, callVars, eventVars
  <2> QED
    BY <2>1, <2>2, <2>3, <2>4 DEF PumpInv, TypeOK
<1>22. ASSUME StopSignal PROVE PumpInv'
  <2>1. connected => gen \in Conns
    BY <1>22, SMTT(30) DEF PumpInv, TypeOK, Data, OnePump
  <2>2. crashed' \in BOOLEAN
    <3>1. CASE connected
      <4>1. closed[gen] \in BOOLEAN
        BY <2>1, <3>1 DEF PumpInv, TypeOK, Data
      <4> QED
        BY <1>22, <3>1, <4>1 DEF StopSignal
    <3>2. CASE ~connected
      BY <1>22, <3>2 DEF StopSignal, PumpInv, TypeOK, Flags
    <3> QED
      BY <3>1, <3>2
  <2>3. Data'
    <3>1. closeC' \in [Conns -> 0..Capacity]
      BY <1>22, <2>1, SMTT(30) DEF StopSignal, PumpInv, TypeOK, Data
    <3> QED
      BY <1>22, <3>1 DEF StopSignal, PumpInv, TypeOK, Data, backOffVars, callVars, eventVars
  <2>4. Flags'
    BY <1>22, <2>2 DEF StopSignal, PumpInv, TypeOK, Flags, eventVars
  <2>5. Sound'
    BY <1>22 DEF StopSignal, PumpInv, TypeOK, Data, Sound, callVars
  <2>6. OnePump'
    BY <1>22 DEF StopSignal, PumpInv, OnePump, Active
  <2> QED
    BY <2>3, <2>4, <2>5, <2>6 DEF PumpInv, TypeOK
<1>23. ASSUME StopReconnectC PROVE PumpInv'
  <2>1. Data'
    BY <1>23
    DEF StopReconnectC, Unnoticed, PumpInv, TypeOK, Data, Sound, socketVars,
        backOffVars, callVars, eventVars
  <2>2. Flags'
    BY <1>23
    DEF StopReconnectC, Unnoticed, PumpInv, TypeOK, Data, Flags, Sound, socketVars,
        backOffVars, callVars, eventVars
  <2>3. Sound'
    BY <1>23
    DEF StopReconnectC, Unnoticed, PumpInv, TypeOK, Data, Sound, OnePump, Active,
        socketVars, backOffVars, callVars, eventVars
  <2>4. OnePump'
    BY <1>23
    DEF StopReconnectC, Unnoticed, PumpInv, TypeOK, Data, Sound, OnePump, Active,
        socketVars, backOffVars, callVars, eventVars
  <2> QED
    BY <2>1, <2>2, <2>3, <2>4 DEF PumpInv, TypeOK
<1>24. ASSUME StopReturns PROVE PumpInv'
  <2>1. Data'
    BY <1>24
    DEF StopReturns, PumpInv, TypeOK, Data, Sound, socketVars, backOffVars, callVars,
        eventVars
  <2>2. Flags'
    BY <1>24
    DEF StopReturns, PumpInv, TypeOK, Data, Flags, Sound, socketVars, backOffVars,
        callVars, eventVars
  <2>3. Sound'
    BY <1>24
    DEF StopReturns, PumpInv, TypeOK, Data, Sound, OnePump, Active, socketVars,
        backOffVars, callVars, eventVars
  <2>4. OnePump'
    BY <1>24
    DEF StopReturns, PumpInv, TypeOK, Data, Sound, OnePump, Active, socketVars,
        backOffVars, callVars, eventVars
  <2> QED
    BY <2>1, <2>2, <2>3, <2>4 DEF PumpInv, TypeOK
<1>25. ASSUME NEW g \in Conns, PauseReturns(g) PROVE PumpInv'
  <2>1. PICK p \in {"done", "wait"} : wpc' = [wpc EXCEPT ![g] = p]
    BY <1>25 DEF PauseReturns, Reconnect
  <2>2. delay' \in Nat /\ attempts' \in Nat
    BY <1>25, SMTT(30) DEF PauseReturns, Reconnect, FirstDelay, backOffVars, PumpInv, TypeOK, Data
  <2>3. discs' \in Nat /\ cleanupC' \in {"empty", "full", "closed"}
    BY <1>25, SMTT(30) DEF PauseReturns, PumpInv, TypeOK, Data, stopVars
  <2>4. Data'
    BY <1>25, <2>1, <2>2, <2>3
    DEF PauseReturns, PumpInv, TypeOK, Data, socketVars, callVars, stopVars
  <2>5. Flags'
    BY <1>25 DEF PauseReturns, PumpInv, TypeOK, Flags, stopVars
  <2>6. Sound'
    BY <1>25, <2>1, SMTT(30) DEF PauseReturns, PumpInv, TypeOK, Data, Sound, socketVars, callVars
  <2>7. OnePump'
    BY <1>25, <2>1, SMTT(30)
    DEF PauseReturns, PumpInv, TypeOK, Data, Sound, OnePump, Active, socketVars
  <2> QED
    BY <2>4, <2>5, <2>6, <2>7 DEF PumpInv, TypeOK
<1>26. ASSUME UNCHANGED vars PROVE PumpInv'
  <2>1. TypeOK'
    BY <1>26, SMTT(30) DEF PumpInv, TypeOK, Data, Flags, vars
  <2>2. Sound' /\ OnePump'
    BY <1>26 DEF PumpInv, Sound, OnePump, Active, vars
  <2> QED
    BY <2>1, <2>2 DEF PumpInv
<1> QED
  BY <1>1, <1>2, <1>3, <1>4, <1>5, <1>6, <1>7, <1>8, <1>9, <1>10, <1>11, <1>12, <1>13,
     <1>14, <1>15, <1>16, <1>17, <1>18, <1>19, <1>20, <1>21, <1>22, <1>23, <1>24, <1>25,
     <1>26
  DEF Next, Live, Manager, Reader, Stopper, Conns

(* What the steps that do not make, announce or lose a connection mean for the *)
(* goroutine that has it in hand: nothing, or one place further in writePump *)
(* and cleanup.                                                              *)
Aside ==
    /\ UNCHANGED <<wpc, gen, attempts, delay, retried, discs, recons, paused, overlapped>>
    /\ intercepted => intercepted'

PumpMoves(g) ==
    /\ wpc[g] \in {"select", "clean", "close"}
    /\ \E p \in {"clean", "close", "callback"} : wpc' = [wpc EXCEPT ![g] = p]
    /\ UNCHANGED <<gen, attempts, delay, retried, discs, recons, paused, overlapped, intercepted>>

LEMMA StepKinds ==
    ASSUME [Next]_vars
    PROVE  \/ Aside
           \/ \E g \in Conns : PumpMoves(g) \/ Disconnected(g) \/ PauseReturns(g)
           \/ \E g \in 0..MaxConns : \/ DialFails(g) \/ Dial(g) \/ Install(g)
                                     \/ Reconnected(g) \/ WaitOver(g) \/ WaitStopped(g)
<1> USE DEF socketVars, backOffVars, stopVars, eventVars
<1>1. ASSUME NEW g \in Conns,
             PumpData(g) \/ PumpPingFails(g) \/ PumpClose(g) \/ PumpForce(g)
      PROVE  Aside \/ PumpMoves(g)
  BY <1>1 DEF PumpData, PumpPingFails, PumpClose, PumpForce, PumpFails, Aside, PumpMoves
<1>2. ASSUME NEW g \in Conns, CleanFlag(g) \/ CleanChannels(g) PROVE PumpMoves(g)
  BY <1>2 DEF CleanFlag, CleanChannels, PumpMoves
<1>3. ASSUME NEW g \in Conns, ReadMessage(g) \/ HandlerReturns(g) \/ ReadFail(g) PROVE Aside
  BY <1>3, SMTT(30) DEF ReadMessage, HandlerReturns, ReadFail, Aside
<1>4. ASSUME NEW t \in Callers, Write(t) \/ WriteSend(t) \/ WriteUnblocked(t) PROVE Aside
  BY <1>4, SMTT(30) DEF Write, WriteSend, WriteUnblocked, Aside
<1>5. ASSUME Stop \/ Stopper PROVE Aside
  BY <1>5, SMTT(30)
  DEF Stop, Stopper, StopIntercept, StopSignal, StopReconnectC, StopReturns, Aside
<1>6. ASSUME UNCHANGED vars PROVE Aside
  BY <1>6 DEF vars, Aside
<1> QED
  BY <1>1, <1>2, <1>3, <1>4, <1>5, <1>6 DEF Next, Live, Manager, Reader

(* PausedWhileDown, and why onReconnected does not resume the dispatcher too   *)
(* late: it is called before the new connection is lost, unless overlapped.  *)
PauseInv ==
    /\ PausedWhileDown
    /\ ~overlapped =>
         \A g, h \in 0..MaxConns :
             wpc[g] = "reconnected" => wpc[h] \notin {"pause", "wait", "dial", "install"}

LEMMA PauseInit == Init => PauseInv
<1> SUFFICES ASSUME Init PROVE PauseInv
  OBVIOUS
<1>1. \A g \in 0..MaxConns : wpc[g] # "reconnected" /\ (g # 0 => wpc[g] = "none")
  BY ConstantsAssumption DEF Init
<1> QED
  BY <1>1, ConstantsAssumption, SMTT(30) DEF PauseInv, PausedWhileDown, Conns

LEMMA PauseStep == PumpInv /\ PauseInv /\ [Next]_vars => PauseInv'
<1> SUFFICES ASSUME PumpInv, PauseInv, [Next]_vars PROVE PauseInv'
  OBVIOUS
<1>0. /\ wpc = [g \in 0..MaxConns |-> wpc[g]] /\ gen \in 0..MaxConns
      /\ Conns \subseteq 0..MaxConns
  BY ConstantsAssumption, SMTT(30) DEF PumpInv, TypeOK, Data, Conns
<1>1. CASE Aside
  BY <1>1 DEF Aside, PauseInv, PausedWhileDown
<1>2. ASSUME NEW g \in Conns, PumpMoves(g) PROVE PauseInv'
  <2>1. PICK p \in {"clean", "close", "callback"} :
           \A h \in 0..MaxConns : wpc'[h] = IF h = g THEN p ELSE wpc[h]
    BY <1>0, <1>2 DEF PumpMoves
  <2> QED
    BY <1>0, <1>2, <2>1 DEF PumpMoves, PauseInv, PausedWhileDown
<1>3. ASSUME NEW g \in Conns, Disconnected(g) PROVE PauseInv'
  <2>1. PICK p \in {"done", "wait", "pause"} :
           /\ \A h \in 0..MaxConns : wpc'[h] = IF h = g THEN p ELSE wpc[h]
           /\ p = "wait" => intercepted
    BY <1>0, <1>3 DEF Disconnected, Reconnect
  <2>2. ~overlapped' => ~overlapped /\ \A h \in 0..MaxConns : wpc[h] # "reconnected"
    BY <1>3 DEF Disconnected
  <2>3. UNCHANGED <<retried, intercepted, paused>>
    BY <1>3 DEF Disconnected
  <2> QED
    BY <1>0, <2>1, <2>2, <2>3 DEF PauseInv, PausedWhileDown
<1>8. ASSUME NEW g \in Conns, PauseReturns(g) PROVE PauseInv'
  <2>1. PICK p \in {"done", "wait"} :
           \A h \in 0..MaxConns : wpc'[h] = IF h = g THEN p ELSE wpc[h]
    BY <1>0, <1>8 DEF PauseReturns, Reconnect
  <2>2. wpc[g] = "pause" /\ UNCHANGED overlapped /\ paused'
    BY <1>8 DEF PauseReturns
  <2> QED
    BY <1>0, <2>1, <2>2 DEF PauseInv, PausedWhileDown
<1>4. ASSUME NEW g \in 0..MaxConns, DialFails(g) PROVE PauseInv'
  <2>1. PICK p \in {"done", "wait"} :
           \A h \in 0..MaxConns : wpc'[h] = IF h = g THEN p ELSE wpc[h]
    BY <1>0, <1>4 DEF DialFails
  <2>2. /\ retried => retried'
        /\ wpc[g] = "dial"
        /\ UNCHANGED <<paused, overlapped, intercepted>>
    BY <1>4, SMTT(30) DEF DialFails, stopVars, eventVars
  <2> QED
    BY <1>0, <2>1, <2>2 DEF PauseInv, PausedWhileDown
<1>5. ASSUME NEW g \in 0..MaxConns, Dial(g) \/ WaitOver(g) \/ WaitStopped(g) PROVE PauseInv'
  <2>1. PICK p \in {"install", "dial", "done"} :
           \A h \in 0..MaxConns : wpc'[h] = IF h = g THEN p ELSE wpc[h]
    BY <1>0, <1>5 DEF Dial, WaitOver, WaitStopped
  <2>2. /\ wpc[g] \in {"dial", "wait"}
        /\ UNCHANGED <<paused, overlapped, retried, intercepted>>
    BY <1>5 DEF Dial, WaitOver, WaitStopped, stopVars, eventVars
  <2> QED
    BY <1>0, <2>1, <2>2 DEF PauseInv, PausedWhileDown
<1>6. ASSUME NEW g \in 0..MaxConns, Install(g) PROVE PauseInv'
  <2>1. \A h \in 0..MaxConns : h # g => ~Active(h)
    BY <1>6 DEF Install, PumpInv, OnePump, Active
  <2>2. PICK p \in {"done", "reconnected"} :
           \A h \in 0..MaxConns :
              wpc'[h] = IF h = gen THEN "select" ELSE IF h = g THEN p ELSE wpc[h]
    BY <1>0, <1>6 DEF Install
  <2>3. \A h \in 0..MaxConns : wpc'[h] \notin {"pause", "wait", "dial", "install"}
    BY <2>1, <2>2 DEF Active
  <2> QED
    BY <1>0, <2>3 DEF PauseInv, PausedWhileDown
<1>7. ASSUME NEW g \in 0..MaxConns, Reconnected(g) PROVE PauseInv'
  <2>1. \A h \in 0..MaxConns : wpc'[h] = IF h = g THEN "done" ELSE wpc[h]
    BY <1>0, <1>7 DEF Reconnected
  <2>2. wpc[g] = "reconnected" /\ overlapped' = overlapped
    BY <1>7 DEF Reconnected
  <2>3. ~overlapped => \A h \in 0..MaxConns : wpc'[h] \notin {"pause", "wait", "dial", "install"}
    BY <2>1, <2>2 DEF PauseInv
  <2> QED
    BY <1>0, <2>2, <2>3 DEF PauseInv, PausedWhileDown
<1> QED
  BY <1>1, <1>2, <1>3, <1>4, <1>5, <1>6, <1>7, <1>8, StepKinds

(* Without StartWithRetries, the first connection is no reconnection, and each *)
(* further one was preceded by a call of onDisconnected.                     *)
OrderInv ==
    ~retried /\ ~intercepted =>
        /\ wpc[0] = "dial" => gen = 0
        /\ wpc[0] \in {"dial", "install"} => attempts = 0
        /\ wpc[0] = "install" => gen = 1
        /\ wpc[0] \notin {"wait", "reconnected"}
        /\ \A g \in Conns : wpc[g] = "reconnected" => g < gen
        /\ gen > 0 => discs >= gen - 1
        /\ \A g \in Conns : wpc[g] \in {"pause", "wait", "dial"} => discs >= gen

LEMMA OrderInit == Init => OrderInv
<1> SUFFICES ASSUME Init PROVE OrderInv
  OBVIOUS
<1>1. wpc[0] = "dial"
  BY ConstantsAssumption, SMTT(30) DEF Init
<1>2. \A g \in Conns : wpc[g] = "none"
  BY ConstantsAssumption, SMTT(30) DEF Init, Conns
<1>3. gen = 0 /\ attempts = 0
  BY DEF Init
<1> QED
  BY <1>1, <1>2, <1>3, SMTT(30) DEF OrderInv

LEMMA OrderStep == PumpInv /\ OrderInv /\ [Next]_vars => OrderInv'
<1> SUFFICES ASSUME PumpInv, OrderInv, [Next]_vars PROVE OrderInv'
  OBVIOUS
<1>0. /\ wpc = [g \in 0..MaxConns |-> wpc[g]] /\ gen \in 0..MaxConns /\ MaxConns \in Nat
      /\ Conns \subseteq 0..MaxConns /\ 0 \in 0..MaxConns /\ 0 \notin Conns
      /\ discs \in Nat /\ gen \in Nat /\ \A g \in Conns : g \in Nat /\ g > 0
      /\ \A g \in 0..MaxConns : g # 0 => g \in Conns
  BY ConstantsAssumption, SMTT(30) DEF PumpInv, TypeOK, Data, Conns
<1>1. CASE Aside
  BY <1>1 DEF Aside, OrderInv
<1>2. ASSUME NEW g \in Conns, PumpMoves(g) PROVE OrderInv'
  <2>1. PICK p \in {"clean", "close", "callback"} :
           \A h \in 0..MaxConns : wpc'[h] = IF h = g THEN p ELSE wpc[h]
    BY <1>0, <1>2 DEF PumpMoves
  <2> QED
    BY <1>0, <1>2, <2>1 DEF PumpMoves, OrderInv
<1>3. ASSUME NEW g \in Conns, Disconnected(g) PROVE OrderInv'
  <2> SUFFICES ASSUME ~retried, ~intercepted PROVE OrderInv'
    BY <1>3 DEF Disconnected, OrderInv
  <2>1. PICK p \in {"done", "wait", "pause"} :
           \A h \in 0..MaxConns : wpc'[h] = IF h = g THEN p ELSE wpc[h]
    BY <1>0, <1>3 DEF Disconnected, Reconnect
  <2>2. /\ UNCHANGED <<gen, retried, intercepted>> /\ discs' = discs + 1
        /\ wpc[g] = "callback"
    BY <1>3 DEF Disconnected, socketVars
  <2>3. wpc[0] \notin {"dial", "install"}
    BY <1>0, <2>2 DEF PumpInv, OnePump, Active
  <2>4. gen > 0 => discs >= gen - 1
    BY DEF OrderInv
  <2>5. discs' >= gen'
    BY <1>0, <2>2, <2>4, SMTT(30)
  <2>6. wpc'[0] = wpc[0] /\ \A h \in Conns : wpc'[h] = "reconnected" => h < gen'
    BY <1>0, <2>1, <2>2 DEF OrderInv
  <2> QED
    BY <1>0, <2>1, <2>2, <2>3, <2>5, <2>6, SMTT(30) DEF OrderInv
<1>9. ASSUME NEW g \in Conns, PauseReturns(g) PROVE OrderInv'
  <2>1. PICK p \in {"done", "wait"} :
           \A h \in 0..MaxConns : wpc'[h] = IF h = g THEN p ELSE wpc[h]
    BY <1>0, <1>9 DEF PauseReturns, Reconnect
  <2>2. UNCHANGED <<gen, discs, retried, intercepted>> /\ wpc[g] = "pause"
    BY <1>9 DEF PauseReturns, stopVars, socketVars
  <2>3. wpc[0] \notin {"dial", "install"}
    BY <1>0, <2>2 DEF PumpInv, OnePump, Active
  <2> QED
    BY <1>0, <2>1, <2>2, <2>3 DEF OrderInv
<1>4. ASSUME NEW g \in 0..MaxConns, DialFails(g) PROVE OrderInv'
  <2>1. PICK p \in {"done", "wait"} :
           \A h \in 0..MaxConns : wpc'[h] = IF h = g THEN p ELSE wpc[h]
    BY <1>0, <1>4 DEF DialFails
  <2>2. /\ retried => retried'
        /\ wpc[g] = "dial"
        /\ UNCHANGED <<gen, discs, intercepted>>
    BY <1>4, SMTT(30) DEF DialFails, stopVars, eventVars, socketVars
  <2>3. ASSUME ~retried', ~intercepted, g = 0 PROVE p = "done" /\ attempts' = attempts
    <3>1. attempts = 0
      BY <2>2, <2>3 DEF OrderInv
    <3>2. wpc' = [wpc EXCEPT ![g] = "done"] /\ UNCHANGED backOffVars
      BY <1>4, <2>3, <3>1, SMTT(30) DEF DialFails
    <3>3. wpc'[0] = "done"
      BY <1>0, <2>3, <3>2
    <3> QED
      BY <1>0, <2>1, <2>3, <3>2, <3>3 DEF backOffVars
  <2>4. wpc[0] \in {"dial", "install"} => g = 0
    BY <1>0, <2>2 DEF PumpInv, OnePump, Active
  <2> QED
    BY <1>0, <2>1, <2>2, <2>3, <2>4 DEF OrderInv
<1>5. ASSUME NEW g \in 0..MaxConns, WaitOver(g) \/ WaitStopped(g) PROVE OrderInv'
  <2>1. PICK p \in {"dial", "done"} :
           \A h \in 0..MaxConns : wpc'[h] = IF h = g THEN p ELSE wpc[h]
    BY <1>0, <1>5 DEF WaitOver, WaitStopped
  <2>2. wpc[g] = "wait" /\ UNCHANGED <<gen, attempts, discs, retried, intercepted>>
    BY <1>5 DEF WaitOver, WaitStopped, stopVars, eventVars, socketVars, backOffVars
  <2> QED
    BY <1>0, <2>1, <2>2 DEF OrderInv
<1>6. ASSUME NEW g \in 0..MaxConns, Dial(g) PROVE OrderInv'
  <2>1. \A h \in 0..MaxConns : wpc'[h] = IF h = g THEN "install" ELSE wpc[h]
    BY <1>0, <1>6 DEF Dial
  <2>2. /\ wpc[g] = "dial" /\ gen' = gen + 1
        /\ UNCHANGED <<attempts, discs, retried, intercepted>>
    BY <1>6 DEF Dial, stopVars, eventVars, backOffVars
  <2>3. \A h \in 0..MaxConns : wpc[h] \in {"pause", "dial", "install", "wait"} => h = g
    BY <2>2 DEF PumpInv, OnePump, Active
  <2>4. \A h \in 0..MaxConns : wpc'[h] \notin {"pause", "dial", "wait"}
    BY <2>1, <2>3
  <2>5. ~retried /\ ~intercepted => (g = 0 => gen = 0) /\ (g # 0 => discs >= gen)
    BY <1>0, <2>2 DEF OrderInv
  <2>6. ~retried /\ ~intercepted =>
           discs' >= gen' - 1 /\ (g = 0 => gen' = 1 /\ attempts' = 0)
    BY <1>0, <2>2, <2>5, SMTT(30) DEF OrderInv
  <2>7. wpc'[0] = "install" => g = 0
    BY <1>0, <2>1, <2>3
  <2>8. ~retried /\ ~intercepted => \A h \in Conns : wpc'[h] = "reconnected" => h < gen'
    <3> SUFFICES ASSUME ~retried, ~intercepted, NEW h \in Conns, wpc'[h] = "reconnected"
                 PROVE  h < gen'
      OBVIOUS
    <3>1. wpc[h] = "reconnected" /\ h \in Nat
      BY <1>0, <2>1
    <3>2. h < gen
      BY <3>1 DEF OrderInv
    <3> QED
      BY <1>0, <2>2, <3>1, <3>2, SMTT(30)
  <2>9. ~retried /\ ~intercepted => wpc'[0] \notin {"wait", "reconnected"}
    BY <1>0, <2>1, <2>4 DEF OrderInv
  <2> QED
    BY <1>0, <2>2, <2>4, <2>6, <2>7, <2>8, <2>9 DEF OrderInv
<1>7. ASSUME NEW g \in 0..MaxConns, Install(g) PROVE OrderInv'
  <2>1. \A h \in 0..MaxConns :
           wpc'[h] = IF h = gen THEN "select"
                     ELSE IF h = g THEN IF attempts = 0 THEN "done" ELSE "reconnected"
                     ELSE wpc[h]
    BY <1>0, <1>7 DEF Install
  <2>2. wpc[g] = "install" /\ UNCHANGED <<gen, discs, retried, intercepted>>
    BY <1>7 DEF Install, stopVars, eventVars, socketVars
  <2>3. \A h \in 0..MaxConns : wpc'[h] \notin {"pause", "dial", "wait", "install"}
    BY <2>1, <2>2 DEF PumpInv, OnePump, Active
  <2>4. gen > 0 /\ wpc[gen] = "none"
    BY <2>2 DEF PumpInv, Sound
  <2>5. g # 0 => g <= gen
    BY <1>0, <2>2, SMTT(30) DEF PumpInv, Sound
  <2>6. g # 0 => g < gen
    BY <1>0, <2>2, <2>4, <2>5, SMTT(30)
  <2>7. ~retried /\ ~intercepted => wpc'[0] # "reconnected"
    BY <1>0, <2>1, <2>2, <2>4 DEF OrderInv
  <2> QED
    BY <1>0, <2>1, <2>2, <2>3, <2>6, <2>7 DEF OrderInv
<1>8. ASSUME NEW g \in 0..MaxConns, Reconnected(g) PROVE OrderInv'
  <2>1. \A h \in 0..MaxConns : wpc'[h] = IF h = g THEN "done" ELSE wpc[h]
    BY <1>0, <1>8 DEF Reconnected
  <2>2. UNCHANGED <<gen, attempts, discs, retried, intercepted>>
    BY <1>8 DEF Reconnected, stopVars, socketVars, backOffVars
  <2> QED
    BY <1>0, <2>1, <2>2 DEF OrderInv
<1> QED
  BY <1>1, <1>2, <1>3, <1>4, <1>5, <1>6, <1>7, <1>8, <1>9, StepKinds

(* The pumps of earlier connections that have returned. *)
Closed == {g \in Conns : g < gen /\ wpc[g] = "done"}

(* onReconnected was called by no goroutine but those. *)
CountInv == ~retried /\ ~intercepted => recons <= Cardinality(Closed)

LEMMA ClosedFinite ==
    ASSUME PumpInv
    PROVE  /\ IsFiniteSet(Closed) /\ Cardinality(Closed) \in Nat
           /\ Cardinality(Closed) <= IF gen = 0 THEN 0 ELSE gen - 1
<1>1. gen \in Nat /\ gen <= MaxConns /\ MaxConns \in Nat
  BY ConstantsAssumption, SMTT(30) DEF PumpInv, TypeOK, Data
<1>2. CASE gen = 0
  <2>1. Closed = {}
    BY <1>1, <1>2, SMTT(30) DEF Closed, Conns
  <2> QED
    BY <1>2, <2>1, FS_EmptySet, SMTT(30)
<1>3. CASE gen # 0
  <2>1. Closed \subseteq 1..(gen - 1)
    BY <1>1, <1>3, SMTT(30) DEF Closed, Conns
  <2>2. IsFiniteSet(1..(gen - 1)) /\ Cardinality(1..(gen - 1)) = gen - 1
    BY <1>1, <1>3, FS_Interval, SMTT(30)
  <2> QED
    BY <1>3, <2>1, <2>2, FS_Subset, FS_CardinalityType
<1> QED
  BY <1>2, <1>3

(* What all steps but that of the call itself do. *)
KeepsCount ==
    /\ gen' >= gen /\ recons' = recons
    /\ retried => retried'
    /\ intercepted => intercepted'
    /\ \A g \in Conns : g < gen /\ wpc[g] = "done" => wpc'[g] = "done"

LEMMA StillClosed ==
    ASSUME PumpInv, PumpInv', CountInv, KeepsCount
    PROVE  CountInv'
<1>1. Closed \subseteq Closed'
  <2> SUFFICES ASSUME NEW g \in Conns, g < gen, wpc[g] = "done"
               PROVE  g < gen' /\ wpc'[g] = "done"
    BY DEF Closed
  <2>1. g \in Int /\ gen \in Int /\ gen' \in Int
    BY ConstantsAssumption, SMTT(30) DEF Conns, PumpInv, TypeOK, Data
  <2> QED
    BY <2>1, SMTT(30) DEF KeepsCount
<1>2. IsFiniteSet(Closed') /\ Cardinality(Closed') \in Nat /\ Cardinality(Closed) \in Nat
  <2>1. PumpInv => IsFiniteSet(Closed) /\ Cardinality(Closed) \in Nat
    BY ClosedFinite
  <2>2. (PumpInv => IsFiniteSet(Closed) /\ Cardinality(Closed) \in Nat)'
    BY ClosedFinite, PTL
  <2> QED
    BY <2>1, <2>2
<1>3. Cardinality(Closed) <= Cardinality(Closed')
  BY <1>1, <1>2, FS_Subset
<1>4. recons \in Nat
  BY DEF PumpInv, TypeOK, Data
<1> QED
  BY <1>2, <1>3, <1>4, SMTT(30) DEF CountInv, KeepsCount

LEMMA CountInit == Init => CountInv
<1> SUFFICES ASSUME Init PROVE CountInv
  OBVIOUS
<1>1. Closed = {}
  <2>1. gen = 0 /\ \A g \in Conns : ~(g < 0)
    BY ConstantsAssumption, SMTT(30) DEF Init, Conns
  <2> QED
    BY <2>1 DEF Closed
<1> QED
  BY <1>1, FS_EmptySet, SMTT(30) DEF Init, CountInv

LEMMA CountStep == PumpInv /\ PumpInv' /\ OrderInv /\ CountInv /\ [Next]_vars => CountInv'
<1> SUFFICES ASSUME PumpInv, PumpInv', OrderInv, CountInv, [Next]_vars PROVE CountInv'
  OBVIOUS
<1>0. /\ wpc = [g \in 0..MaxConns |-> wpc[g]] /\ gen \in Nat /\ gen \in 0..MaxConns
      /\ Conns \subseteq 0..MaxConns /\ (\A g \in 0..MaxConns : g # 0 => g \in Conns)
      /\ MaxConns \in Nat
  BY ConstantsAssumption, SMTT(30) DEF PumpInv, TypeOK, Data, Conns
<1>1. CASE Aside
  <2>1. KeepsCount
    BY <1>0, <1>1, SMTT(30) DEF Aside, KeepsCount
  <2> QED
    BY <2>1, StillClosed
<1>2. ASSUME NEW g \in Conns, PumpMoves(g) \/ Disconnected(g) \/ PauseReturns(g)
      PROVE  CountInv'
  <2>1. \A h \in 0..MaxConns : h # g => wpc'[h] = wpc[h]
    BY <1>0, <1>2 DEF PumpMoves, Disconnected, PauseReturns, Reconnect
  <2>2. wpc[g] # "done" /\ UNCHANGED <<gen, recons, retried, intercepted>>
    BY <1>2 DEF PumpMoves, Disconnected, PauseReturns, socketVars, stopVars
  <2>3. KeepsCount
    BY <1>0, <2>1, <2>2, SMTT(30) DEF KeepsCount
  <2> QED
    BY <2>3, StillClosed
<1>3. ASSUME NEW g \in 0..MaxConns,
             DialFails(g) \/ Dial(g) \/ WaitOver(g) \/ WaitStopped(g)
      PROVE  CountInv'
  <2>1. \A h \in 0..MaxConns : h # g => wpc'[h] = wpc[h]
    BY <1>0, <1>3 DEF DialFails, Dial, WaitOver, WaitStopped
  <2>2. /\ wpc[g] # "done" /\ gen' \in {gen, gen + 1}
        /\ UNCHANGED <<recons, intercepted>> /\ (retried => retried')
    <3>1. CASE DialFails(g)
      BY <3>1, SMTT(30) DEF DialFails, socketVars, stopVars, eventVars
    <3>2. CASE Dial(g)
      BY <3>2 DEF Dial, stopVars, eventVars
    <3>3. CASE WaitOver(g) \/ WaitStopped(g)
      BY <3>3, SMTT(30) DEF WaitOver, WaitStopped, socketVars, stopVars, eventVars
    <3> QED
      BY <1>3, <3>1, <3>2, <3>3
  <2>3. KeepsCount
    BY <1>0, <2>1, <2>2, SMTT(30) DEF KeepsCount
  <2> QED
    BY <2>3, StillClosed
<1>4. ASSUME NEW g \in 0..MaxConns, Install(g) PROVE CountInv'
  <2>1. \A h \in 0..MaxConns : h # g /\ h # gen => wpc'[h] = wpc[h]
    BY <1>0, <1>4 DEF Install
  <2>2. /\ wpc[g] # "done" /\ UNCHANGED <<gen, recons, retried, intercepted>>
    BY <1>4 DEF Install, socketVars, stopVars, eventVars
  <2>3. KeepsCount
    BY <1>0, <2>1, <2>2, SMTT(30) DEF KeepsCount
  <2> QED
    BY <2>3, StillClosed
<1>5. ASSUME NEW g \in 0..MaxConns, Reconnected(g) PROVE CountInv'
  <2> SUFFICES ASSUME ~retried, ~intercepted PROVE recons' <= Cardinality(Closed')
    BY <1>5 DEF Reconnected, CountInv, stopVars
  <2>1. \A h \in 0..MaxConns : wpc'[h] = IF h = g THEN "done" ELSE wpc[h]
    BY <1>0, <1>5 DEF Reconnected
  <2>2. g \in Conns /\ g < gen /\ g \notin Closed /\ gen' = gen
    BY <1>0, <1>5 DEF Reconnected, OrderInv, Closed, socketVars
  <2>3. Closed' = Closed \union {g}
    BY <1>0, <2>1, <2>2 DEF Closed
  <2>4. Cardinality(Closed') = Cardinality(Closed) + 1
    BY <2>2, <2>3, ClosedFinite, FS_AddElement
  <2>5. recons' = recons + 1 /\ recons <= Cardinality(Closed)
    BY <1>5 DEF Reconnected, CountInv
  <2>6. recons \in Nat /\ Cardinality(Closed) \in Nat
    BY ClosedFinite DEF PumpInv, TypeOK, Data
  <2> QED
    BY <2>4, <2>5, <2>6, SMTT(30)
<1> QED
  BY <1>1, <1>2, <1>3, <1>4, <1>5, StepKinds

-----------------------------------------------------------------------------
(* The delays of handleReconnection. *)

(* The prover knows powers only as the number of subsets of a finite set. *)
LEMMA PowerOfTwo ==
    ASSUME NEW k \in Nat
    PROVE  2^k \in Nat /\ 2^(k + 1) = 2^k + 2^k
<1> DEFINE S == 1..k
           T == 1..(k + 1)
           D == {A \union {k + 1} : A \in SUBSET S}
           f == [A \in SUBSET S |-> A \union {k + 1}]
<1>1. IsFiniteSet(S) /\ Cardinality(S) = k /\ IsFiniteSet(T) /\ Cardinality(T) = k + 1
  BY FS_Interval, SMTT(30)
<1>2. /\ IsFiniteSet(SUBSET S) /\ Cardinality(SUBSET S) = 2^k
      /\ IsFiniteSet(SUBSET T) /\ Cardinality(SUBSET T) = 2^(k + 1)
  <2> HIDE DEF S, T
  <2> QED
    BY <1>1, FS_SUBSET
<1>3. T = S \union {k + 1} /\ k + 1 \notin S
  BY SMTT(30)
<1>4. SUBSET T = (SUBSET S) \union D /\ (SUBSET S) \intersect D = {}
  <2> HIDE DEF S, T
  <2>1. ASSUME NEW B \in SUBSET T PROVE B \in (SUBSET S) \union D
    <3>1. CASE k + 1 \in B
      <4>1. B \ {k + 1} \in SUBSET S /\ B = (B \ {k + 1}) \union {k + 1}
        BY <1>3, <3>1
      <4>2. \E A \in SUBSET S : B = A \union {k + 1}
        BY <4>1
      <4>3. B \in D
        BY <4>2
      <4> QED
        BY <4>3
    <3>2. CASE k + 1 \notin B
      BY <1>3, <3>2
    <3> QED
      BY <3>1, <3>2
  <2>2. \A B \in (SUBSET S) \union D : B \in SUBSET T
    BY <1>3
  <2>3. \A A \in D : A \notin SUBSET S
    BY <1>3
  <2> HIDE DEF D
  <2>4. \A B : B \in SUBSET T <=> B \in (SUBSET S) \union D
    BY <2>1, <2>2
  <2>5. (SUBSET S) \intersect D = {}
    BY <2>3
  <2> DEFINE P == SUBSET T
             Q == (SUBSET S) \union D
  <2>6. P = Q
    <3>1. \A B : B \in P <=> B \in Q
      BY <2>4
    <3> HIDE DEF P, Q
    <3> QED
      BY <3>1
  <2> QED
    BY <2>5, <2>6
<1>5. ExistsBijection(SUBSET S, D)
  <2> HIDE DEF S
  <2>1. f \in [SUBSET S -> D]
    OBVIOUS
  <2>2. \A A, B \in SUBSET S : f[A] = f[B] => A = B
    <3> SUFFICES ASSUME NEW A \in SUBSET S, NEW B \in SUBSET S,
                        A \union {k + 1} = B \union {k + 1}
                 PROVE  A = B
      OBVIOUS
    <3>1. A = (A \union {k + 1}) \ {k + 1} /\ B = (B \union {k + 1}) \ {k + 1}
      BY <1>3
    <3> QED
      BY <3>1
  <2>3. \A d \in D : \E A \in SUBSET S : f[A] = d
    OBVIOUS
  <2> HIDE DEF f, D
  <2>4. f \in Bijection(SUBSET S, D)
    BY <2>1, <2>2, <2>3, SMTT(30) DEF Bijection, Injection, Surjection, IsInjective
  <2> QED
    BY <2>4 DEF ExistsBijection
<1> DEFINE PS == SUBSET S
           PT == SUBSET T
<1>6. /\ IsFiniteSet(PS) /\ Cardinality(PS) = 2^k /\ Cardinality(PT) = 2^(k + 1)
      /\ PT = PS \union D /\ PS \intersect D = {} /\ ExistsBijection(PS, D)
  BY <1>2, <1>4, <1>5
<1> HIDE DEF S, T, D, f, PS, PT
<1>7. IsFiniteSet(D) /\ Cardinality(D) = 2^k
  BY <1>6, FS_Bijection
<1>8. Cardinality(PT) = Cardinality(PS) + Cardinality(D) - Cardinality({})
  BY <1>6, <1>7, FS_Union, SMTT(30)
<1>9. Cardinality(PS) \in Nat /\ Cardinality({}) = 0
  BY <1>6, FS_CardinalityType, FS_EmptySet
<1> QED
  BY <1>6, <1>7, <1>8, <1>9, SMTT(30)
(* One more attempt doubles the bounds of BackOff, and adds the random part. *)
LEMMA Doubled ==
    ASSUME NEW W \in Nat, NEW R \in Nat, NEW P \in Nat, NEW d \in Nat, NEW r \in 0..R,
           d >= W * P, d <= (W + R) * P + R * (P - 1)
    PROVE  /\ 2 * d + r >= W * (P + P)
           /\ 2 * d + r <= (W + R) * (P + P) + R * (P + P - 1)
<1> DEFINE a == W * P
           b == R * P
<1>1. a \in Int /\ b \in Int /\ r \in Nat /\ r <= R
  BY SMTT(30)
<1>2. (W + R) * P = a + b /\ R * (P - 1) = b - R /\ W * (P + P) = a + a
  BY SMTT(30)
<1>3. (W + R) * (P + P) = (a + b) + (a + b)
  BY SMTT(30)
<1>4. R * (P + P - 1) = b + b - R
  BY SMTT(30)
<1>5. d >= a /\ d <= a + b + (b - R)
  BY <1>2
<1> HIDE DEF a, b
<1> QED
  BY <1>1, <1>2, <1>3, <1>4, <1>5, SMTT(30)

LEMMA BackOffStep == PumpInv /\ BackOff /\ [Next]_vars => BackOff'
<1> SUFFICES ASSUME PumpInv, BackOff, [Next]_vars PROVE BackOff'
  OBVIOUS
<1>0. /\ attempts \in Nat /\ delay \in Nat
      /\ RepeatTimes \in Nat /\ RandomRange \in Nat /\ WaitMinimum \in Nat
  BY ConstantsAssumption DEF PumpInv, TypeOK, Data
<1>1. CASE UNCHANGED <<attempts, delay>>
  BY <1>1 DEF BackOff
<1>2. CASE attempts' = 0
  BY <1>2, SMTT(30) DEF BackOff
<1>3. CASE FirstDelay
  <2>1. PICK r \in 0..RandomRange : delay' = WaitMinimum + r
    BY <1>3 DEF FirstDelay
  <2>2. 2^0 = 1 /\ attempts' = 1 /\ attempts' - 1 = 0
    BY <1>3, SMTT(30) DEF FirstDelay
  <2>3. /\ WaitMinimum * 2^0 = WaitMinimum
        /\ (WaitMinimum + RandomRange) * 2^0 = WaitMinimum + RandomRange
        /\ RandomRange * (2^0 - 1) = 0
    BY <1>0, <2>2, SMTT(30)
  <2> QED
    BY <1>0, <2>1, <2>2, <2>3, SMTT(30) DEF BackOff
<1>4. ASSUME attempts > 0, NextDelay PROVE BackOff'
  <2>1. CASE attempts < RepeatTimes
    <3>1. PICK r \in 0..RandomRange : delay' = 2 * delay + r
      BY <1>4, <2>1 DEF NextDelay
    <3> DEFINE k == attempts - 1
    <3>2. k \in Nat /\ attempts' = k + 2 /\ k + 1 \in Nat
      BY <1>0, <1>4, <2>1, SMTT(30) DEF NextDelay
    <3>3. 2^k \in Nat /\ 2^(k + 1) = 2^k + 2^k
      BY <3>2, PowerOfTwo
    <3>4. attempts' - 1 = k + 1
      BY <3>2, SMTT(30)
    <3>6. /\ delay >= WaitMinimum * 2^k
          /\ delay <= (WaitMinimum + RandomRange) * 2^k + RandomRange * (2^k - 1)
      BY <1>4 DEF BackOff
    <3>7. /\ delay' >= WaitMinimum * 2^(k + 1)
          /\ delay' <= (WaitMinimum + RandomRange) * 2^(k + 1)
                          + RandomRange * (2^(k + 1) - 1)
      BY <1>0, <3>1, <3>3, <3>6, Doubled, SMTT(30)
    <3>8. k + 1 <= RepeatTimes
      BY <1>0, <1>4, <2>1, SMTT(30) DEF NextDelay
    <3> QED
      BY <3>4, <3>7, <3>8 DEF BackOff
  <2>2. CASE ~(attempts < RepeatTimes)
    BY <1>1, <1>4, <2>2 DEF NextDelay, backOffVars
  <2> QED
    BY <2>1, <2>2
<1>5. \/ UNCHANGED <<attempts, delay>> \/ attempts' = 0 \/ FirstDelay
      \/ attempts > 0 /\ NextDelay
  BY StepKinds
  DEF Aside, PumpMoves, Disconnected, PauseReturns, Reconnect, DialFails, Dial, Install, Reconnected,
      WaitOver, WaitStopped, backOffVars
<1> QED
  BY <1>1, <1>2, <1>3, <1>4, <1>5

(* Every variable has a value of its type. *)
THEOREM TypeCorrect == Spec => []TypeOK
<1>1. PumpInv => TypeOK
  BY DEF PumpInv
<1> QED
  BY PumpInit, PumpStep, <1>1, PTL DEF Spec

(* One goroutine at a time runs or re-establishes the connection, and Stop      *)
(* never signals on a closed channel.                                        *)
THEOREM SinglePump == Spec => []OnePump
<1>1. PumpInv => OnePump
  BY DEF PumpInv
<1> QED
  BY PumpInit, PumpStep, <1>1, PTL DEF Spec

(* The dispatcher is paused while the client is between two connections, with  *)
(* the one exception that overlapped marks.                                  *)
THEOREM PausedBetween == Spec => []PausedWhileDown
<1>1. PauseInv => PausedWhileDown
  BY DEF PauseInv
<1> QED
  BY PumpInit, PumpStep, PauseInit, PauseStep, <1>1, PTL DEF Spec

(* onDisconnected was called before every call of onReconnected, if the client *)
(* was started with Start.                                                   *)
THEOREM HandlersInOrder == Spec => []DisconnectedFirst
<1>1. PumpInv /\ OrderInv /\ CountInv => DisconnectedFirst
  <2> SUFFICES ASSUME PumpInv, OrderInv, CountInv, ~retried, ~intercepted
               PROVE  recons <= discs
    BY DEF DisconnectedFirst
  <2>1. recons \in Nat /\ discs \in Nat /\ gen \in Nat
    BY ConstantsAssumption, SMTT(30) DEF PumpInv, TypeOK, Data
  <2>2. recons <= Cardinality(Closed) /\ (gen > 0 => discs >= gen - 1)
    BY DEF OrderInv, CountInv
  <2>3. Cardinality(Closed) \in Nat /\ Cardinality(Closed) <= IF gen = 0 THEN 0 ELSE gen - 1
    BY ClosedFinite
  <2> QED
    BY <2>1, <2>2, <2>3, SMTT(30)
<1> QED
  BY PumpInit, PumpStep, OrderInit, OrderStep, CountInit, CountStep, <1>1, PTL DEF Spec

(* The delay between attempts stays between the doubled minimum and the doubled *)
(* maximum, and is doubled RetryBackOffRepeatTimes times at most.            *)
THEOREM DelayBounded == Spec => []BackOff
<1>1. Init => BackOff
  BY SMTT(30) DEF Init, BackOff
<1> QED
  BY PumpInit, PumpStep, <1>1, BackOffStep, PTL DEF Spec
=============================================================================
