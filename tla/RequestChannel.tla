--------------------------- MODULE RequestChannel ---------------------------
(***************************************************************************)
(* What an OCPP-J endpoint promises of the requests to one peer: they are  *)
(* transmitted in the order they were accepted, one at a time, and each is *)
(* settled once, by its answer, by its timeout or by a failed write.       *)
(***************************************************************************)
EXTENDS Naturals, Sequences

CONSTANT Nobody      \* no request in flight

VARIABLES
    backlog,         \* accepted, not yet transmitted
    inFlight,        \* transmitted, awaiting its answer
    transmitted,     \* every transmission so far, in order
    accepted         \* the last request accepted; later ones are larger

channelVars == <<backlog, inFlight, transmitted, accepted>>

Init ==
    /\ backlog = <<>> /\ inFlight = Nobody
    /\ transmitted = <<>> /\ accepted = 0

Accept ==
    /\ accepted' > accepted
    /\ backlog' = Append(backlog, accepted')
    /\ UNCHANGED <<inFlight, transmitted>>

Transmit ==
    /\ inFlight = Nobody
    /\ backlog # <<>>
    /\ inFlight' = Head(backlog)
    /\ backlog' = Tail(backlog)
    /\ transmitted' = Append(transmitted, Head(backlog))
    /\ UNCHANGED accepted

(* The request in flight was answered, or its time is up. *)
Settle ==
    /\ inFlight # Nobody
    /\ inFlight' = Nobody
    /\ UNCHANGED <<backlog, transmitted, accepted>>

(* The network refused the request. *)
Drop ==
    /\ inFlight = Nobody
    /\ backlog # <<>>
    /\ backlog' = Tail(backlog)
    /\ UNCHANGED <<inFlight, transmitted, accepted>>

Next == Accept \/ Transmit \/ Settle \/ Drop

Spec == Init /\ [][Next]_channelVars
=============================================================================
