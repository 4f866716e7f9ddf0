------------------------- MODULE MCClientDispatcher -------------------------
(***************************************************************************)
(* Instances of ClientDispatcher for TLC: the .cfg files give the senders, *)
(* the capacity of the queue and the bounds.                               *)
(***************************************************************************)
EXTENDS ClientDispatcher
=============================================================================
