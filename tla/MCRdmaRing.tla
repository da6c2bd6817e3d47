----------------------------- MODULE MCRdmaRing -----------------------------
(* Instances of the RDMA ring and message buffer for TLC.                    *)
EXTENDS RDMAMessageBuffer
=============================================================================
