----------------- MODULE MulticlientRDMADistinctMrTransport -----------------
(***************************************************************************)
(* transports/MulticlientRDMADistinctMrTransport: the server polls the     *)
(* size word of every slot, lowest first, and resets it when it has copied *)
(* the request. The reset goes through a uint8_t pointer: it clears the    *)
(* low byte, the size modulo Byte. There is no validity byte on this side. *)
(***************************************************************************)
EXTENDS MulticlientServer

CONSTANT Byte       \* 256: values of the byte that is reset

VARIABLE slot       \* i: the slot to look at next
-----------------------------------------------------------------------------
Send(c) == PostRequest(c, DataWrite) /\ UNCHANGED slot

DeliverRequest(c) == Deliver(c) /\ UNCHANGED slot

\* One iteration of the loop over the connections.
PollSlot ==
    /\ spc = "poll"
    /\ IF receives[slot].size # 0
       THEN Found(slot) /\ slot' = 0
       ELSE slot' = (slot + 1) % accepted /\ UNCHANGED <<sender, spc>>
    /\ UNCHANGED <<answerVars, clientVars, requestVars, acceptVars, handled>>

\* *sizePtr = 0
Reset(size) == size - (size % Byte)

Handle ==
    /\ HandleRequest([receives EXCEPT ![sender].size = Reset(@)])
    /\ UNCHANGED slot

Receive == PollSlot \/ Handle
=============================================================================
