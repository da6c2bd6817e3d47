----------------------------- MODULE MCPingPong -----------------------------
(* Instances of PingPong for TLC; the .cfg files give the values.           *)
EXTENDS PingPong
=============================================================================
