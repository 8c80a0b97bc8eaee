----------------------------- MODULE MCWsClient -----------------------------
(* WsClient with few connections and messages.                             *)
EXTENDS WsClient
=============================================================================
