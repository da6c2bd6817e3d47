------------------------ MODULE MulticlientRecvVsPoll ------------------------
(***************************************************************************)
(* multiclientRecvVsPoll.cpp: the same echo over each of the three multi-  *)
(* client RDMA transports. The server accepts all clients, then receives   *)
(* and answers. Client threads own one or more clients each. They wait for *)
(* all to be connected and then go round their clients: read the answer,   *)
(* if there is one outstanding, check it, write the next request.          *)
(***************************************************************************)
EXTENDS MulticlientServer

CONSTANTS
    Transports,             \* those that are tried
    NumThreads,             \* numThreads of the client
    MaxClients, Group,      \* of the doorbell transport
    Byte                    \* of the transport with distinct regions

ASSUME RecvVsPollAssumption ==
    /\ Transports \subseteq {"Doorbells", "Recv", "Direct"}
    /\ NumThreads \in 1..NumClients
    /\ Group \in Nat \ {0} /\ MaxClients \in Nat /\ MaxClients % Group = 0
    /\ Clients \subseteq 0..MaxClients - 1
    /\ Byte \in Nat \ {0}

VARIABLES
    transport,
    doorBells, base,        \* Doorbells
    recvs, recvCq,          \* Recv
    slot                    \* Direct

Doorbells == INSTANCE MulticlientRDMATransport
Recv == INSTANCE MulticlientRDMARecvTransport
Direct == INSTANCE MulticlientRDMADistinctMrTransport

findVars == <<doorBells, base, recvs, recvCq, slot>>
vars == <<sharedVars, findVars, transport>>

Init ==
    /\ ServerInit /\ transport \in Transports
    /\ Doorbells!DoorbellInit /\ Recv!RecvInit /\ slot = 0

\* A step of the transport in use.
By(t) == transport = t /\ UNCHANGED transport
Bells(step) == By("Doorbells") /\ step /\ UNCHANGED <<recvs, recvCq, slot>>
Recvs(step) == By("Recv") /\ step /\ UNCHANGED <<doorBells, base, slot>>
Slots(step) == By("Direct") /\ step /\ UNCHANGED <<doorBells, base, recvs, recvCq>>
-----------------------------------------------------------------------------
(* Server                                                                   *)

Server ==
    \/ Recvs(Recv!Accept)
    \/ transport # "Recv" /\ (ExchangeAddresses \/ ConnectQp) /\ UNCHANGED <<findVars, transport>>
    \/ Bells(Doorbells!Receive) \/ Recvs(Recv!Receive) \/ Slots(Direct!Receive)
    \/ (RejectRequest \/ AnswerSignaled) /\ UNCHANGED <<findVars, transport>>
-----------------------------------------------------------------------------
(* Clients                                                                  *)

\* A thread serves its clients in turn: of those that are furthest behind, the
\* first. A client's round is the number of requests it has sent.
Thread(c) == c % NumThreads
Round(c) ==
    IF cpc[c] = "sending" THEN request[c].number - 1
    ELSE IF cpc[c] = "idle" /\ request[c].number = MaxRequests THEN MaxRequests + 1
    ELSE request[c].number
InTurn(c) == \A d \in 0..concurrent - 1 : Thread(d) = Thread(c) =>
    Round(c) < Round(d) \/ (Round(c) = Round(d) /\ c <= d)

\* "sync all clients": connected counts the clients that are connected, and
\* threads spin until it is concurrentInFlight.
Send(c) ==
    /\ accepted = concurrent /\ InTurn(c)
    /\ Bells(Doorbells!Send(c)) \/ Recvs(Recv!Send(c)) \/ Slots(Direct!Send(c))

Client(c) ==
    /\ InTurn(c)
    /\ \/ SendCompleted(c)
       \/ /\ ClientStep(c, transport # "Doorbells")
          /\ UNCHANGED <<requestVars, acceptVars, serverVars>>
    /\ UNCHANGED <<findVars, transport>>

Adapter(c) ==
    \/ Bells(Doorbells!DeliverRequest(c)) \/ Recvs(Recv!DeliverRequest(c))
    \/ Slots(Direct!DeliverRequest(c))
    \/ LoseRequest(c) /\ UNCHANGED <<findVars, transport>>
    \/ AdapterStep(c) /\ UNCHANGED <<requestVars, acceptVars, serverVars, findVars, transport>>

Next == Server \/ \E c \in Clients : Client(c) \/ Adapter(c) \/ Send(c)

Spec == Init /\ [][Next]_vars

\* The server and the client threads never pause (they poll, or go on) and the
\* adapters carry out what was posted, or drop it.
FairSpec ==
    /\ Spec /\ WF_vars(Server)
    /\ \A c \in Clients : WF_vars(Client(c) \/ Send(c)) /\ WF_vars(Adapter(c))
-----------------------------------------------------------------------------
(* Properties                                                               *)

\* The shape of the state, the scan of the doorbells included.
TypeInvariant == TypeOK /\ Doorbells!DoorbellTypeOK

\* The shared receive queue is never empty when a request needs it.
RecvsReady == transport = "Recv" => Recv!RecvsReady

\* Every request is answered: the scan of doorbells or slots, the queue of
\* completions, the wait for a signaled answer and the threads that wait for one
\* client before they serve the next do not leave one behind. This is for
\* clients with a fixed number of messages, as in the benchmark: nothing bounds
\* how often pollSSE or the scan of the slots prefers a client that keeps
\* sending. It excepts requests too large for the buffers on either side or for
\* an answer, and the threads of clients that lost a request to a server still
\* in accept (their read blocks until the benchmark's time-out).
Fits(n) == n <= bufferSize["server"] /\ n <= bufferSize["client"] /\ Total(n) <= MaxMessage
RequestsAnswered ==
    [](\A c \in Clients : Fits(request[c].size))
        => \A c \in Clients :
            (cpc[c] = "sending") ~> (cpc[c] = "idle" \/ \E d \in lost : Thread(d) = Thread(c))
-----------------------------------------------------------------------------
(* The inductive invariants behind MulticlientRecvVsPoll_proofs              *)

\* The writes that announce a request to the server, the data write first.
Announcement(t) ==
    CASE t = "Doorbells" -> <<"doorBell">> [] t = "Recv" -> <<"imm">> [] t = "Direct" -> <<>>

\* What can be left of a request's writes.
Remaining(t) ==
    {<<>>, Announcement(t), DataWrite \o Announcement(t)}
        \cup (IF TornRequests THEN {<<"body">> \o Announcement(t)} ELSE {})
SizeLeft(w) == w # <<>> /\ Head(w) \in {"size", "data"}
BodyLeft(w) == w # <<>> /\ Head(w) \in {"size", "data", "body"}

\* A request is in one place at a time: with the client's adapter (requests),
\* announced, or held by the server; until it is handled it is pending.
Pending(c) == handled[c] < request[c].number
Announced(c) ==
    \/ transport = "Doorbells" /\ doorBells[c]
    \/ transport = "Recv" /\ \E i \in 1..Len(recvCq) : recvCq[i] = c
    \/ transport = "Direct" /\ receives[c].size # 0
Held(c) == spc = "handle" /\ sender = c

RequestInv(c) ==
    /\ request[c].number \in 0..MaxRequests /\ handled[c] \in Nat
    /\ request[c].number \in {handled[c], handled[c] + 1}
    /\ request[c].number > 0 => /\ request[c].size \in Sizes
                               /\ request[c].body = <<c, request[c].number>>
    /\ requests[c] \in Remaining(transport)
    /\ requests[c] # <<>> =>
            cpc[c] = "sending" /\ Pending(c) /\ ~Announced(c) /\ ~Held(c)
    /\ Announced(c) => Pending(c) /\ (transport # "Direct" => ~Held(c))
    /\ Held(c) => Pending(c) /\ (transport = "Direct" => Announced(c))
    /\ Pending(c) =>
            /\ cpc[c] \in {"sending", "awaitSize"}
            /\ ~SizeLeft(requests[c]) => receives[c].size = request[c].size
            /\ ~BodyLeft(requests[c]) => receives[c].body = request[c].body

\* An answer whose size word the client's memory does not have yet.
Fresh(c) == answers[c] # <<>> /\ (placed[c] = 0 \/ Len(answers[c]) = 2)

\* A client has at most one unread answer, and none while its request is
\* pending; a second one in its queue is behind one it has read already.
AnswerInv(c) ==
    /\ Len(answers[c]) <= 2
    /\ Len(answers[c]) = 2 => placed[c] > 0
    /\ answers[c] = <<>> => placed[c] = 0
    /\ Fresh(c) => ~Pending(c) /\ receiveBuffer[c].size = 0
    /\ receiveBuffer[c].size # 0 => ~Pending(c)
    /\ cpc[c] \in {"connecting", "idle"} =>
            ~Pending(c) /\ ~Fresh(c) /\ receiveBuffer[c].size = 0
    /\ cpc[c] \in {"awaitValidity", "callback"} =>
            csize[c] = receiveBuffer[c].size /\ csize[c] # 0

\* Whom the server has accepted, and where it looks for requests.
ServerInv ==
    /\ concurrent \in 1..NumClients /\ accepted \in 0..concurrent /\ ready \subseteq Clients
    /\ spc \in {"accept", "connectQp", "poll", "clear", "handle", "waitCompletion"}
    /\ spc = "accept" => accepted < concurrent
    /\ spc = "connectQp" => accepted > 0
    /\ spc \notin {"accept", "connectQp"} => accepted = concurrent
    /\ \A c \in Clients : cpc[c] = "connecting" <=> c >= accepted
    /\ sender \in Clients
    /\ spc = "clear" => transport = "Doorbells" /\ doorBells[sender]
    /\ slot \in Clients /\ (slot = 0 \/ slot < accepted)

\* The doorbells rung are clients'.
BellInv == Doorbells!DoorbellTypeOK /\ \A i \in 0..MaxClients - 1 : doorBells[i] => i \in Clients

\* The queue of completions names each client at most once, and every accepted
\* connection has its receive request either in the shared queue or completed.
RecvInv ==
    /\ recvs \in Nat /\ recvCq \in Seq(Clients)
    /\ \A i, j \in 1..Len(recvCq) : recvCq[i] = recvCq[j] => i = j
    /\ transport = "Recv" => recvs + Len(recvCq) = accepted

Bodies == (Clients \X (1..MaxRequests)) \cup {NoBody}
Answer == [len : Sizes, size : Sizes, body : Clients \X (1..MaxRequests), late : BOOLEAN]
Shapes ==
    /\ transport \in Transports
    /\ answers \in [Clients -> Seq(Answer)]
    /\ sendBuffer \in [size : Sizes \cup {0}, body : Bodies]
    /\ (\E c \in Clients : answers[c] # <<>>) =>
            sendBuffer.size \in Sizes /\ sendBuffer.body # NoBody
    /\ placed \in [Clients -> 0..2] /\ (~Torn => \A c \in Clients : placed[c] = 0)
    /\ sendCounter \in [Clients -> 0..Window - 1]
    /\ receiveBuffer \in [Clients -> [size : Sizes \cup {0}, body : Bodies, valid : SUBSET Sizes]]
    /\ cpc \in [Clients -> {"connecting", "idle", "sending",
                          "awaitSize", "awaitValidity", "callback"}]
    /\ csize \in [Clients -> Sizes \cup {0}]
    /\ request \in [Clients -> [size : Sizes \cup {0}, body : Bodies, number : 0..MaxRequests]]
    /\ receives \in [Clients -> [size : Sizes \cup {0}, body : Bodies]]
    /\ requests \in [Clients -> Remaining(transport)]
    /\ handled \in [Clients -> 0..MaxRequests]

EchoInv ==
    /\ Shapes /\ ServerInv /\ BellInv /\ RecvInv
    /\ \A c \in Clients : RequestInv(c) /\ AnswerInv(c)

\* The answer on its way to a client, or in its memory, is to its latest
\* request; one that is not inline is still whole in sendBuffer.
MatchInv(c) ==
    /\ placed[c] = 0
    /\ request[c].number > 0 /\ Late(request[c].size) => concurrent = 1
    /\ answers[c] # <<>> =>
            /\ answers[c][1].len = request[c].size /\ answers[c][1].size = request[c].size
            /\ answers[c][1].body = request[c].body
            /\ answers[c][1].late =>
                    /\ concurrent = 1
                    /\ sendBuffer = [size |-> request[c].size, body |-> request[c].body]
    /\ receiveBuffer[c].size # 0 =>
            /\ receiveBuffer[c].size = request[c].size
            /\ receiveBuffer[c].body = request[c].body

AnswersInv == EchoInv /\ \A c \in Clients : MatchInv(c)
=============================================================================
