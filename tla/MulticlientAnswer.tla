-------------------------- MODULE MulticlientAnswer --------------------------
(***************************************************************************)
(* The half that the three multi-client RDMA transports share: how the     *)
(* server answers a client, and how a client receives the answer. The      *)
(* transports differ in how requests reach the server; they extend this    *)
(* module with that.                                                       *)
(*                                                                         *)
(* The server builds an answer (size, payload, validity byte) in ONE       *)
(* sendBuffer used for all clients and posts an RDMA write of it to the    *)
(* client's receiveBuffer; every Window-th write of a connection is        *)
(* signaled and waited for. The client polls its receiveBuffer: first for  *)
(* a size, then for the validity byte behind a payload of that size, and   *)
(* resets the size word when it is done. Nothing resets the validity byte. *)
(*                                                                         *)
(* A payload is a tag <<client, number of the request it answers>>. Sizes  *)
(* count bytes in some unit, the size word and validity byte add 2.        *)
(***************************************************************************)
EXTENDS Naturals, Sequences

CONSTANTS
    NumClients,     \* bound: clients that connect
    Sizes,          \* payload sizes; a size of 0 cannot be told from "none"
    InlineLimit,    \* 512: answers of a smaller total length are sent inline
    Window,         \* 1024: every Window-th answer to a client is signaled
    MaxMessage,     \* the server's MAX_MESSAGESIZE: limit of an answer, its size
                    \* word and validity byte included, and size of a slot
    MaxRequest,     \* largest request, size word included, a client can post
    RecvSizes,      \* maxSize values server and clients may receive with
    LargeAlone,     \* answers that are not inline only occur with one client
    Torn,           \* the client can see a write half placed
    MaxRequests     \* bound: requests of each client

\* MaxRequest: a request is posted inline, so its limit is the inline capacity
\* of the queue pair (512 asked for) and not the client's MAX_MESSAGESIZE, which
\* in the Recv transport is 1024 times the server's.
ASSUME AnswerAssumption ==
    /\ NumClients \in Nat \ {0} /\ LargeAlone \in BOOLEAN /\ Sizes \subseteq Nat \ {0}
    /\ MaxMessage \in Nat /\ MaxRequest \in 0..MaxMessage /\ RecvSizes \subseteq Nat
    /\ InlineLimit \in Nat /\ Window \in Nat \ {0} /\ Torn \in BOOLEAN /\ MaxRequests \in Nat

VARIABLES
    sendBuffer,     \* the server's: [size, body]
    answers,        \* answers[c]: writes posted on c's queue pair, oldest first
    placed,         \* placed[c]: parts of the oldest one in c's memory
    sendCounter,    \* con.sendCounter
    receiveBuffer,  \* receiveBuffer[c]: [size, body, valid], valid the payload
                    \* sizes behind which a validity byte stands
    cpc,            \* where client c is
    csize,          \* the size c's receive has read
    request,        \* request[c]: the client's latest request
    bufferSize,     \* maxSize of the applications' receives, on either side
    concurrent      \* concurrentInFlight: clients of this run

answerVars == <<sendBuffer, answers, placed, sendCounter, receiveBuffer>>
clientVars == <<cpc, csize, request, bufferSize, concurrent>>

Clients == 0..NumClients - 1    \* ids, in the order they were accepted
NoBody == <<>>
NoRequest == [size |-> 0, body |-> NoBody, number |-> 0]

AnswerInit ==
    /\ sendBuffer = [size |-> 0, body |-> NoBody]
    /\ answers = [c \in Clients |-> <<>>]
    /\ placed = [c \in Clients |-> 0]
    /\ sendCounter = [c \in Clients |-> 0]
    /\ receiveBuffer = [c \in Clients |-> [size |-> 0, body |-> NoBody, valid |-> {}]]
    /\ cpc = [c \in Clients |-> "connecting"]
    /\ csize = [c \in Clients |-> 0]
    /\ request = [c \in Clients |-> NoRequest]
    /\ bufferSize \in [{"server", "client"} -> RecvSizes]
    /\ concurrent \in 1..NumClients
-----------------------------------------------------------------------------
(* Server                                                                   *)

Total(n) == n + 2
Late(n) == Total(n) >= InlineLimit

\* send(receiverId, data, size): fill sendBuffer and post the write. Data that
\* is not inline stays in sendBuffer until the adapter fetches it (late).
PostAnswer(c, n, body) ==
    /\ Total(n) <= MaxMessage
    /\ sendBuffer' = [size |-> n, body |-> body]
    /\ answers' = [answers EXCEPT ![c] = Append(@,
            [len |-> n, size |-> n, body |-> body, late |-> Late(n)])]
    /\ sendCounter' = [sendCounter EXCEPT ![c] = (@ + 1) % Window]
    /\ UNCHANGED <<placed, receiveBuffer>>

\* "can't send messages > MAX_MESSAGESIZE": nothing is posted. A request counts
\* no validity byte, so the largest one a client may send cannot be echoed.
AnswerTooLarge(n) == Total(n) > MaxMessage /\ UNCHANGED answerVars

\* sendCounter % 1024 == 0: this answer is signaled, and polled for.
MustWait(c) == (sendCounter[c] + 1) % Window = 0
AnswerCompleted(c) == answers[c] = <<>>
-----------------------------------------------------------------------------
(* Adapter                                                                  *)

\* The data of a write that was not inline is read now.
FetchAnswer(c) ==
    /\ answers[c] # <<>> /\ Head(answers[c]).late
    /\ answers' = [answers EXCEPT ![c][1] =
            [@ EXCEPT !.late = FALSE, !.size = sendBuffer.size, !.body = sendBuffer.body]]
    /\ UNCHANGED <<sendBuffer, placed, sendCounter, receiveBuffer>>

\* The parts of a write in the order they are placed; the payload replaces the
\* validity bytes that stood where it goes.
WithSize(m, a) == [m EXCEPT !.size = a.size]
WithBody(m, a) == [m EXCEPT !.body = a.body, !.valid = {v \in @ : v >= a.len}]
WithValidity(m, a) == [m EXCEPT !.valid = IF a.size <= a.len THEN @ \cup {a.size} ELSE @]

PlaceAnswer(c) ==
    /\ answers[c] # <<>> /\ ~Head(answers[c]).late
    /\ LET a == Head(answers[c])
           m == receiveBuffer[c]
           stage == IF Torn THEN placed[c] ELSE 3
       IN /\ receiveBuffer' = [receiveBuffer EXCEPT ![c] =
                CASE stage = 0 -> WithSize(m, a)
                  [] stage = 1 -> WithBody(m, a)
                  [] stage = 2 -> WithValidity(m, a)
                  [] stage = 3 -> WithValidity(WithBody(WithSize(m, a), a), a)]
          /\ placed' = [placed EXCEPT ![c] = IF stage >= 2 THEN 0 ELSE @ + 1]
          /\ answers' = [answers EXCEPT ![c] = IF stage >= 2 THEN Tail(@) ELSE @]
    /\ UNCHANGED <<sendBuffer, sendCounter>>
-----------------------------------------------------------------------------
(* Client                                                                   *)

Outstanding(c) == cpc[c] \in {"sending", "awaitSize", "awaitValidity", "callback"}

\* A client sends its next request only after the answer to the previous one.
\* A larger one is not posted: send throws, by its own check or since the post
\* fails, and the client stays where it is.
NewRequest(c, n) ==
    /\ cpc[c] = "idle" /\ request[c].number < MaxRequests
    /\ n + 1 <= MaxRequest
    /\ LargeAlone /\ Late(n) => concurrent = 1
    /\ request' = [request EXCEPT ![c] =
            [size |-> n, body |-> <<c, @.number + 1>>, number |-> @.number + 1]]
    /\ cpc' = [cpc EXCEPT ![c] = "sending"]
    /\ UNCHANGED <<csize, bufferSize, concurrent>>

\* send returned: receive starts to wait for an answer.
BeginReceive(c) ==
    /\ cpc[c] = "sending"
    /\ cpc' = [cpc EXCEPT ![c] = "awaitSize"]
    /\ UNCHANGED <<csize, request, bufferSize, concurrent, answerVars>>

ReadSize(c) ==
    /\ cpc[c] = "awaitSize" /\ receiveBuffer[c].size # 0
    /\ csize' = [csize EXCEPT ![c] = receiveBuffer[c].size]
    /\ cpc' = [cpc EXCEPT ![c] = "awaitValidity"]
    /\ UNCHANGED <<request, bufferSize, concurrent, answerVars>>

\* The doorbell transport's client waits for the validity byte behind the size
\* it has read; the other two read the size again (rereads).
SeeValidity(c, rereads) ==
    /\ cpc[c] = "awaitValidity"
    /\ cpc' = [cpc EXCEPT ![c] =
            IF csize[c] \in receiveBuffer[c].valid THEN "callback"
            ELSE IF rereads THEN "awaitSize" ELSE @]
    /\ UNCHANGED <<csize, request, bufferSize, concurrent, answerVars>>

\* Mutant: the size word is not reset.
EndReceive_NoReset(c) ==
    /\ cpc[c] = "callback" /\ csize[c] <= bufferSize["client"]
    /\ cpc' = [cpc EXCEPT ![c] = "idle"]
    /\ csize' = [csize EXCEPT ![c] = 0]
    /\ UNCHANGED <<request, bufferSize, concurrent, answerVars>>

\* The payload was copied; reset the size word.
EndReceive(c) ==
    /\ cpc[c] = "callback" /\ csize[c] <= bufferSize["client"]
    /\ receiveBuffer' = [receiveBuffer EXCEPT ![c].size = 0]
    /\ cpc' = [cpc EXCEPT ![c] = "idle"]
    /\ csize' = [csize EXCEPT ![c] = 0]
    /\ UNCHANGED <<request, bufferSize, concurrent, sendBuffer, answers, placed, sendCounter>>

\* "received message > maxSize" leaves the answer in place; the application
\* calls receive again.
ReceiveThrows(c) ==
    /\ cpc[c] = "callback" /\ csize[c] > bufferSize["client"]
    /\ cpc' = [cpc EXCEPT ![c] = "awaitSize"]
    /\ csize' = [csize EXCEPT ![c] = 0]
    /\ UNCHANGED <<request, bufferSize, concurrent, answerVars>>

ClientStep(c, rereads) ==
    ReadSize(c) \/ SeeValidity(c, rereads) \/ EndReceive(c) \/ ReceiveThrows(c)
AdapterStep(c) == (FetchAnswer(c) \/ PlaceAnswer(c)) /\ UNCHANGED clientVars
-----------------------------------------------------------------------------
(* Properties                                                               *)

AnswerTypeOK ==
    /\ \A c \in Clients : answers[c] \in
            Seq([len : Sizes, size : Sizes, body : Clients \X (1..MaxRequests), late : BOOLEAN])
    /\ placed \in [Clients -> 0..2]
    /\ sendCounter \in [Clients -> 0..Window - 1]
    /\ \A c \in Clients : receiveBuffer[c].size \in Sizes \cup {0}
    /\ \A c \in Clients : receiveBuffer[c].valid \subseteq Sizes
    /\ cpc \in [Clients -> {"connecting", "idle", "sending",
                          "awaitSize", "awaitValidity", "callback"}]
    /\ csize \in [Clients -> Sizes \cup {0}]

\* What a client's receive hands to the application is the whole answer to its
\* latest request: not another client's answer, not an earlier one, not a mix
\* (the benchmarks throw "unexpected value!" and "NEQ" otherwise).
AnswersMatchRequests ==
    \A c \in Clients : cpc[c] = "callback" =>
        receiveBuffer[c].body = request[c].body /\ csize[c] = request[c].size
=============================================================================
