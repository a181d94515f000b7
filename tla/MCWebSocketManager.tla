------------------------- MODULE MCWebSocketManager -------------------------
(***************************************************************************)
(* WebSocketManager with interchangeable sockets and publishes.            *)
(***************************************************************************)
EXTENDS WebSocketManager, TLC

Interchangeable == Permutations(Sockets) \cup Permutations(Publishes)
=============================================================================
