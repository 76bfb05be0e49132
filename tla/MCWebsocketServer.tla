-------------------------- MODULE MCWebsocketServer --------------------------
(* Instances of WebsocketServer for TLC. *)
EXTENDS WebsocketServer

AllKinds == HttpKinds \cup FrameKinds
AllFaults == {"fin", "rst", "full", "accept", "send"}
=============================================================================
