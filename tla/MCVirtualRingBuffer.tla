------------------------- MODULE MCVirtualRingBuffer -------------------------
(* Instances of VirtualRingBuffer for TLC; the .cfg files give the values.  *)
EXTENDS VirtualRingBuffer
=============================================================================
