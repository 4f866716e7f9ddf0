------------------------- MODULE MCServerDispatcher -------------------------
(***************************************************************************)
(* Instances of ServerDispatcher for TLC: the .cfg files give the clients, *)
(* the senders, the capacities and the bounds.                             *)
(***************************************************************************)
EXTENDS ServerDispatcher
=============================================================================
