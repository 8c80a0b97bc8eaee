----------------------------- MODULE MCWsServer -----------------------------
(* WsServer with few threads, connections and messages.                    *)
EXTENDS WsServer
=============================================================================
