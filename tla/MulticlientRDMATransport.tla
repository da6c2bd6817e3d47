---------------------- MODULE MulticlientRDMATransport ----------------------
(***************************************************************************)
(* transports/MulticlientRDMATransport: the doorbell transport. A client   *)
(* writes its request into its slot of the server's receives and then 'X'  *)
(* into its byte of doorBells; the server polls the doorbells a vector of  *)
(* Group bytes at a time (pollSSE), clears the one it takes and reads the  *)
(* slot.                                                                   *)
(***************************************************************************)
EXTENDS MulticlientServer

CONSTANTS
    MaxClients,     \* MAX_CLIENTS: slots and doorbells, a multiple of Group
    Group           \* 16: doorbells compared at once

VARIABLES
    doorBells,      \* doorBells[i]: rung and not cleared
    base            \* first doorbell of the vector to load next

doorbellVars == <<doorBells, base>>

DoorbellInit == doorBells = [i \in 0..MaxClients - 1 |-> FALSE] /\ base = 0
-----------------------------------------------------------------------------
\* Mutant: the doorbell is rung before the data is written.
Send_DoorbellFirst(c) == PostRequest(c, <<"doorBell">> \o DataWrite) /\ UNCHANGED doorbellVars

\* Client send: post the data write, then the doorbell write.
Send(c) == PostRequest(c, DataWrite \o <<"doorBell">>) /\ UNCHANGED doorbellVars

DeliverRequest(c) ==
    /\ Deliver(c)
    /\ doorBells' = [doorBells EXCEPT ![c] = @ \/ Head(requests[c]) = "doorBell"]
    /\ UNCHANGED base

Vector == {i \in base..base + Group - 1 : doorBells[i]}
Highest(S) == CHOOSE i \in S : \A j \in S : j <= i

\* Mutants: the scan runs past the last vector; it never leaves the first one.
PollGroup_NoWrap ==
    /\ spc = "poll"
    /\ IF Vector # {}
       THEN sender' = Highest(Vector) /\ spc' = "clear" /\ base' = 0
       ELSE base' = base + Group /\ UNCHANGED <<sender, spc>>
    /\ UNCHANGED <<answerVars, clientVars, requestVars, acceptVars, handled, doorBells>>
PollGroup_FirstOnly ==
    /\ spc = "poll" /\ Vector # {}
    /\ sender' = Highest(Vector) /\ spc' = "clear" /\ base' = 0
    /\ UNCHANGED <<answerVars, clientVars, requestVars, acceptVars, handled, doorBells>>

\* One iteration of pollSSE: load a vector; of its rung doorbells the one with
\* the highest index is taken, the lowest vector first.
PollGroup ==
    /\ spc = "poll"
    /\ IF Vector # {}
       THEN sender' = Highest(Vector) /\ spc' = "clear" /\ base' = 0
       ELSE base' = (base + Group) % MaxClients /\ UNCHANGED <<sender, spc>>
    /\ UNCHANGED <<answerVars, clientVars, requestVars, acceptVars, handled, doorBells>>

ClearDoorbell ==
    /\ spc = "clear"
    /\ doorBells' = [doorBells EXCEPT ![sender] = FALSE]
    /\ Found(sender)
    /\ UNCHANGED <<answerVars, clientVars, requestVars, acceptVars, handled, base>>

\* The callback copies the request; the doorbell is cleared already.
Handle == HandleRequest(receives) /\ UNCHANGED doorbellVars

Receive == PollGroup \/ ClearDoorbell \/ Handle
-----------------------------------------------------------------------------
\* The shape of the doorbells' state: the scan stays within them.
DoorbellTypeOK ==
    /\ doorBells \in [0..MaxClients - 1 -> BOOLEAN]
    /\ base \in {i \in 0..MaxClients - 1 : i % Group = 0}
=============================================================================
