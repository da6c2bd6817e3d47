-------------------- MODULE MulticlientRDMARecvTransport --------------------
(***************************************************************************)
(* transports/MulticlientRDMARecvTransport: a client writes its request    *)
(* with immediate data, which takes a receive request from the queue that  *)
(* all connections share and leaves a completion naming the queue pair.    *)
(***************************************************************************)
EXTENDS MulticlientServer, FiniteSets

VARIABLES
    recvs,          \* receive requests in the shared queue
    recvCq          \* clients of the completions not polled yet, oldest first

recvVars == <<recvs, recvCq>>

RecvInit == recvs = 0 /\ recvCq = <<>>
-----------------------------------------------------------------------------
\* "the recv needs to be posted before we can exchange addresses"
Accept ==
    /\ \/ ExchangeAddresses /\ recvs' = recvs + 1
       \/ ConnectQp /\ UNCHANGED recvs
    /\ UNCHANGED recvCq

\* Client send: one write, the immediate data last.
Send(c) == PostRequest(c, DataWrite \o <<"imm">>) /\ UNCHANGED recvVars

DeliverRequest(c) ==
    /\ Deliver(c)
    /\ IF Head(requests[c]) = "imm"
       THEN recvs > 0 /\ recvs' = recvs - 1 /\ recvCq' = Append(recvCq, c)
       ELSE UNCHANGED recvVars

\* Mutant: the receive request is not replaced.
PollRecv_NoRepost ==
    /\ spc = "poll" /\ recvCq # <<>>
    /\ recvCq' = Tail(recvCq) /\ UNCHANGED recvs
    /\ Found(Head(recvCq))
    /\ UNCHANGED <<answerVars, clientVars, requestVars, acceptVars, handled>>

\* pollRecvWorkCompletionBlocking; "immediately replace the consumed receive
\* request".
PollRecv ==
    /\ spc = "poll" /\ recvCq # <<>>
    /\ recvCq' = Tail(recvCq) /\ recvs' = recvs + 1
    /\ Found(Head(recvCq))
    /\ UNCHANGED <<answerVars, clientVars, requestVars, acceptVars, handled>>

Handle == HandleRequest(receives) /\ UNCHANGED recvVars

Receive == PollRecv \/ Handle
-----------------------------------------------------------------------------
\* "we always have a receive request ready for each accepted connection": one
\* for every request that has not taken one, all connections together.
RecvsReady ==
    Cardinality({c \in Clients : requests[c] # <<>>}) <= recvs
=============================================================================
