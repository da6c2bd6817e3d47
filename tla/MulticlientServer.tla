-------------------------- MODULE MulticlientServer --------------------------
(***************************************************************************)
(* What the servers of the three multi-client RDMA transports have in      *)
(* common besides their answers: accepting clients, a slot of receives for *)
(* each of them, and the echo loop of the applications: receive, then send *)
(* the same payload back to that client.                                   *)
(***************************************************************************)
EXTENDS MulticlientAnswer

CONSTANT TornRequests   \* the server can see a request half placed

ASSUME ServerAssumption == TornRequests \in BOOLEAN

VARIABLES
    requests,       \* requests[c]: what the client's adapter has yet to do
    receives,       \* receives[c]: the client's slot, [size, body]
    accepted,       \* connections.size()
    ready,          \* clients whose queue pair the server has connected
    lost,           \* clients of whose queue pair a write was dropped
    spc,            \* where the server is
    sender,         \* the client whose request was found
    handled         \* history: handled[c], requests of c the server took

requestVars == <<requests, receives>>
acceptVars == <<accepted, ready, lost>>
serverVars == <<spc, sender, handled>>
sharedVars == <<answerVars, clientVars, requestVars, acceptVars, serverVars>>

ServerInit ==
    /\ AnswerInit
    /\ requests = [c \in Clients |-> <<>>]
    /\ receives = [c \in Clients |-> [size |-> 0, body |-> NoBody]]
    /\ accepted = 0 /\ ready = {} /\ lost = {}
    /\ spc = "accept" /\ sender = 0
    /\ handled = [c \in Clients |-> 0]
-----------------------------------------------------------------------------
(* Connecting                                                               *)

\* accept() up to its last message, and the client's rdmaConnect: both know
\* each other's addresses, the client has connected its queue pair.
ExchangeAddresses ==
    /\ spc = "accept"
    /\ accepted' = accepted + 1
    /\ cpc' = [cpc EXCEPT ![accepted] = "idle"]
    /\ spc' = "connectQp"
    /\ UNCHANGED <<answerVars, csize, request, bufferSize, concurrent, requestVars,
                   ready, lost, sender, handled>>

\* The rest of accept(). All clients are accepted before the first receive.
ConnectQp ==
    /\ spc = "connectQp"
    /\ ready' = ready \cup {accepted - 1}
    /\ spc' = IF accepted = concurrent THEN "poll" ELSE "accept"
    /\ UNCHANGED <<answerVars, clientVars, requestVars, accepted, lost, sender, handled>>
-----------------------------------------------------------------------------
(* Requests                                                                 *)

\* The data write of a request, whole or in the parts the server can see.
DataWrite == IF TornRequests THEN <<"size", "body">> ELSE <<"data">>

\* Client send: post the writes, all inline: their data cannot change.
PostRequest(c, writes) ==
    /\ \E n \in Sizes : NewRequest(c, n)
    /\ requests' = [requests EXCEPT ![c] = @ \o writes]
    /\ UNCHANGED <<answerVars, receives, acceptVars, serverVars>>

\* The completions were polled; the client turns to receive.
SendCompleted(c) ==
    /\ requests[c] = <<>>
    /\ BeginReceive(c)
    /\ UNCHANGED <<requestVars, acceptVars, serverVars>>

\* The adapter carries out a client's writes in order, if they arrive after the
\* server has connected its queue pair.
Deliver(c) ==
    /\ requests[c] # <<>> /\ c \in ready /\ c \notin lost
    /\ requests' = [requests EXCEPT ![c] = Tail(@)]
    /\ LET part == Head(requests[c])
       IN receives' = [receives EXCEPT
            ![c].size = IF part \in {"size", "data"} THEN request[c].size ELSE @,
            ![c].body = IF part \in {"body", "data"} THEN request[c].body ELSE @]
    /\ UNCHANGED <<answerVars, clientVars, acceptVars, serverVars>>

\* One that arrives before is dropped. It is never sent again (time-out 0), and
\* the pair refuses what follows it out of sequence (retry count 0).
LoseRequest(c) ==
    /\ requests[c] # <<>> /\ c \notin ready /\ c \notin lost
    /\ lost' = lost \cup {c}
    /\ UNCHANGED <<answerVars, clientVars, requestVars, accepted, ready, serverVars>>
-----------------------------------------------------------------------------
(* The echo loop                                                            *)

\* A way to find a request ends here.
Found(c) == sender' = c /\ spc' = "handle"

\* receive copies the request and leaves the slots as given; send answers it.
\* "can't send messages > MAX_MESSAGESIZE" leaves the request without answer;
\* "no such connection" is not thrown for a sender that receive returned.
HandleRequest(slots) ==
    /\ spc = "handle" /\ receives[sender].size <= bufferSize["server"]
    /\ sender <= accepted
    /\ handled' = [handled EXCEPT ![sender] = @ + 1]
    /\ receives' = slots
    /\ \/ /\ PostAnswer(sender, receives[sender].size, receives[sender].body)
          /\ spc' = IF MustWait(sender) THEN "waitCompletion" ELSE "poll"
       \/ /\ AnswerTooLarge(receives[sender].size)
          /\ spc' = "poll"
    /\ UNCHANGED <<clientVars, requests, acceptVars, sender>>

\* "received message > maxSize": receive throws.
RejectRequest ==
    /\ spc = "handle" /\ receives[sender].size > bufferSize["server"]
    /\ spc' = "poll"
    /\ UNCHANGED <<answerVars, clientVars, requestVars, acceptVars, sender, handled>>

\* pollSendCompletionQueueBlocking returned the signaled answer's completion.
AnswerSignaled ==
    /\ spc = "waitCompletion" /\ AnswerCompleted(sender)
    /\ spc' = "poll"
    /\ UNCHANGED <<answerVars, clientVars, requestVars, acceptVars, sender, handled>>
-----------------------------------------------------------------------------
(* Properties                                                               *)

\* The shape of the state.
TypeOK ==
    /\ AnswerTypeOK
    /\ \A c \in Clients : Len(requests[c]) <= 3
    /\ \A c \in Clients : receives[c].size \in Sizes \cup {0}
    /\ accepted \in 0..NumClients /\ ready \subseteq Clients /\ lost \subseteq Clients
    /\ spc \in {"accept", "connectQp", "poll", "clear", "handle", "waitCompletion"}
    /\ sender \in Clients
    /\ handled \in [Clients -> 0..MaxRequests]

\* The server takes every request once, and when it does the slot holds all of
\* it: nothing announces a request that is not there yet, or twice, and no
\* second request arrives before the first was taken.
RequestsTakenOnce ==
    /\ \A c \in Clients : handled[c] <= request[c].number
    /\ spc = "handle" =>
        /\ receives[sender].body = request[sender].body
        /\ receives[sender].size = request[sender].size
        /\ handled[sender] < request[sender].number
=============================================================================
