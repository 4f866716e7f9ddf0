----------------------------- MODULE MCWsServer -----------------------------
(***************************************************************************)
(* Instances of WsServer for TLC: two connections of one client.           *)
(***************************************************************************)
EXTENDS WsServer

CONSTANTS s1, s2, i1

MCUrls == {<<s1, i1>>, <<s2, i1>>}
MCSupported == <<"ocpp1.6">>
MCOffers == {<<"ocpp2.0.1">>, <<"ocpp2.0.1", "ocpp1.6">>}
=============================================================================
