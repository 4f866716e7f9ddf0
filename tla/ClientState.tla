---------------------------- MODULE ClientState -----------------------------
(***************************************************************************)
(* clientState (ocppj/state.go): the request an endpoint awaits an answer  *)
(* to, at most one at a time.  The state is its request ID, None when      *)
(* there is none; each method runs under the state's mutex.                *)
(***************************************************************************)
CONSTANT None   \* the empty request ID

HasPendingRequest(pending) == pending # None

(* Ignored while another request is pending. *)
AddPendingRequest(pending, requestID) ==
    IF pending = None THEN requestID ELSE pending

GetPendingRequest(pending, requestID) == pending = requestID

DeletePendingRequest(pending, requestID) ==
    IF pending = requestID THEN None ELSE pending
=============================================================================
