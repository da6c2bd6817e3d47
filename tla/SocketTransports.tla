-------------------------- MODULE SocketTransports --------------------------
(***************************************************************************)
(* The transports on stream sockets: TcpTransport and                      *)
(* DomainSocketsTransport on the sockets of util/socket, and               *)
(* MulticlientTCPTransport on one TCP socket per client. The application   *)
(* is the ping-pong of apps/PingPong and of many2OneBench: a client writes *)
(* a message of DataSize bytes and reads one of that size back; the server *)
(* answers with what it has read.                                          *)
(*                                                                         *)
(* A channel holds the bytes in flight in one direction of a connection. A *)
(* socket splits and joins what is written as it likes. Byte i of the      *)
(* message of client c in round r is <<c, r, i>>: all bytes are distinct,  *)
(* so a byte that is out of place is seen at once. The programs send the   *)
(* same bytes in every round and would see some of these later.            *)
(***************************************************************************)
EXTENDS Naturals, Sequences, SequencesExt

CONSTANTS
    Kinds,          \* transports that are tried
    NumClients,     \* clients of the multi-client transport; others have one
    DataSize,       \* bytes of a message
    Capacity,       \* Capacity[k]: bytes that a socket of transport k buffers
    MaxTries,       \* the 10 of `if (i > 10) throw' around connect
    Rounds          \* bound: messages of each client

ASSUME SocketAssumption ==
    /\ Kinds \subseteq {"Tcp", "DomainSockets", "MulticlientTCP"}
    /\ NumClients \in Nat \ {0} /\ DataSize \in Nat \ {0} /\ Rounds \in Nat \ {0}
    /\ Capacity \in [Kinds -> Nat \ {0}] /\ MaxTries \in Nat

VARIABLES
    kind,           \* the transport of this run
    listening,      \* the server's address (port, or file) can be connected to
    backlog,        \* clients connected and not accepted yet, oldest first
    connections,    \* clients accepted, in that order
    chan,           \* chan[d][c]: bytes in flight to ("up") or from the server
    proc,           \* proc[t]: thread t, [pc, tries, round, current, buf, with]
    short           \* history: the multi-client server took a part for a message

vars == <<kind, listening, backlog, connections, chan, proc, short>>

Server == NumClients
Clients == 0..NumClients - 1
Participants == IF kind = "MulticlientTCP" THEN Clients ELSE {0}
Threads == Participants \cup {Server}

NoByte == <<>>
EmptyBuffer == [i \in 1..DataSize |-> NoByte]
MessageOf(c, r) == [i \in 1..DataSize |-> <<c, r, i>>]

Init ==
    /\ kind \in Kinds
    /\ listening = FALSE /\ backlog = <<>> /\ connections = <<>>
    /\ chan = [d \in {"up", "down"} |-> [c \in Clients |-> <<>>]]
    /\ proc = [t \in Clients \cup {Server} |->
            [pc |-> IF t = Server THEN "listen" ELSE "connect",
             tries |-> 0, round |-> 1, current |-> 0, buf |-> EmptyBuffer, with |-> t]]
    /\ short = FALSE
-----------------------------------------------------------------------------
(* Connecting                                                               *)

\* bind and listen.
Listen ==
    /\ proc[Server].pc = "listen"
    /\ listening' = TRUE
    /\ proc' = [proc EXCEPT ![Server].pc = "accept"]
    /\ UNCHANGED <<kind, backlog, connections, chan, short>>

\* A domain socket's file is removed by the client that has connected.
Connect(c) ==
    /\ proc[c].pc = "connect" /\ listening
    /\ backlog' = Append(backlog, c)
    /\ listening' = (kind # "DomainSockets")
    /\ proc' = [proc EXCEPT ![c].pc = "write"]
    /\ UNCHANGED <<kind, connections, chan, short>>

\* connect throws while nobody listens. It is tried again after 20 ms, until the
\* count of failures is above MaxTries: then the client throws.
ConnectFails(c) ==
    /\ proc[c].pc = "connect" /\ ~listening
    /\ proc' = IF proc[c].tries > MaxTries THEN [proc EXCEPT ![c].pc = "gaveUp"]
               ELSE [proc EXCEPT ![c].tries = @ + 1]
    /\ UNCHANGED <<kind, listening, backlog, connections, chan, short>>

Accept ==
    /\ proc[Server].pc = "accept" /\ backlog # <<>>
    /\ connections' = Append(connections, Head(backlog))
    /\ backlog' = Tail(backlog)
    /\ proc' = [proc EXCEPT ![Server].with = Head(backlog),
            ![Server].pc = IF kind # "MulticlientTCP" THEN "read"
                           ELSE IF Clients \subseteq ToSet(connections') THEN "poll" ELSE "accept"]
    /\ UNCHANGED <<kind, listening, chan, short>>
-----------------------------------------------------------------------------
(* The calls' loops                                                         *)

Out(t) == IF t = Server THEN "down" ELSE "up"
In(t) == IF t = Server THEN "up" ELSE "down"
Left(t) == DataSize - proc[t].current

\* What t writes: a client its message, the server what it has received.
Data(t) == IF t = Server THEN proc[t].buf ELSE MessageOf(t, proc[t].round)

\* t hands over the next n bytes of what it writes.
Put(t, n) ==
    /\ chan' = [chan EXCEPT ![Out(t)][proc[t].with] =
            @ \o [i \in 1..n |-> Data(t)[proc[t].current + i]]]
    /\ proc' = IF n = Left(t)
               THEN [proc EXCEPT ![t].current = 0,
                                 ![t].pc = IF t = Server THEN "answered" ELSE "read"]
               ELSE [proc EXCEPT ![t].current = @ + n]
    /\ UNCHANGED <<kind, listening, backlog, connections, short>>

\* Mutant: more bytes than the socket buffers are taken.
SendBytes_Unbounded(t) == \E n \in 1..Left(t) : Put(t, n)

\* ::send takes some of the bytes, at least one, or blocks.
SendBytes(t) == \E n \in 1..Left(t) :
    /\ Len(chan[Out(t)][proc[t].with]) + n <= Capacity[kind]
    /\ Put(t, n)

tcpWrite(t) == kind \in {"Tcp", "MulticlientTCP"} /\ proc[t].pc = "write" /\ SendBytes(t)
domainWrite(t) == kind = "DomainSockets" /\ proc[t].pc = "write" /\ SendBytes(t)

Min2(a, b) == IF a <= b THEN a ELSE b

\* Mutant: what is received goes to the beginning of the buffer again.
Placed_AtStart(buf, current, bytes) ==
    [i \in 1..DataSize |-> IF i \in 1..Len(bytes) THEN bytes[i] ELSE buf[i]]

\* buf with bytes at offset current.
Placed(buf, current, bytes) ==
    [i \in 1..DataSize |-> IF i - current \in 1..Len(bytes) THEN bytes[i - current] ELSE buf[i]]

\* t takes the first n bytes in flight to it from client c; the call goes on with
\* `done' bytes more.
Take(t, c, n, done) ==
    LET all == done >= Left(t)
    IN /\ chan' = [chan EXCEPT ![In(t)][c] = SubSeq(@, n + 1, Len(@))]
       /\ proc' = [proc EXCEPT ![t].with = c,
            ![t].buf = Placed(@, proc[t].current, SubSeq(chan[In(t)][c], 1, n)),
            ![t].current = IF all THEN 0 ELSE @ + done,
            ![t].pc = IF ~all THEN @ ELSE IF t = Server THEN "write" ELSE "check"]
       /\ UNCHANGED <<kind, listening, backlog, connections>>

\* Mutant: a read ends with the first bytes.
RecvBytes_Once(t) == \E n \in 1..Min2(Left(t), Len(chan[In(t)][proc[t].with])) :
    Take(t, proc[t].with, n, Left(t)) /\ UNCHANGED short

\* ::recv returns some of the bytes, at least one, or blocks.
RecvBytes(t) == \E n \in 1..Min2(Left(t), Len(chan[In(t)][proc[t].with])) :
    Take(t, proc[t].with, n, n) /\ UNCHANGED short

tcpRead(t) == kind \in {"Tcp", "MulticlientTCP"} /\ proc[t].pc = "read" /\ RecvBytes(t)
domainRead(t) == kind = "DomainSockets" /\ proc[t].pc = "read" /\ RecvBytes(t)

\* MulticlientTCPTransportServer::receive: poll, the first connection that is
\* readable, and one recv whose result is ignored: what it returns is taken for
\* the message, the rest of the buffer is what earlier messages left there.
Readable == {i \in 1..Len(connections) : chan["up"][connections[i]] # <<>>}
multiclientReceive ==
    /\ proc[Server].pc = "poll" /\ Readable # {}
    /\ LET c == connections[CHOOSE i \in Readable : \A j \in Readable : i <= j]
       IN \E n \in 1..Min2(DataSize, Len(chan["up"][c])) :
            /\ Take(Server, c, n, DataSize)
            /\ short' = (short \/ n < DataSize)
-----------------------------------------------------------------------------
(* The application's loops                                                  *)

\* The server has answered: the next message, after the last it stops.
Answered ==
    /\ proc[Server].pc = "answered"
    /\ LET total == IF kind = "MulticlientTCP" THEN Rounds * NumClients ELSE Rounds
       IN proc' = [proc EXCEPT ![Server].round = @ + 1,
            ![Server].pc = IF proc[Server].round = total THEN "done"
                           ELSE IF kind = "MulticlientTCP" THEN "poll" ELSE "read"]
    /\ UNCHANGED <<kind, listening, backlog, connections, chan, short>>

\* The client compares what it has read with what it wrote, and throws. ping()
\* clears its buffer before it reads, the client of many2OneBench does not.
Check(c) ==
    /\ proc[c].pc = "check"
    /\ proc' = IF proc[c].buf # MessageOf(c, proc[c].round) THEN [proc EXCEPT ![c].pc = "thrown"]
               ELSE IF proc[c].round = Rounds THEN [proc EXCEPT ![c].pc = "done"]
               ELSE [proc EXCEPT ![c].pc = "write", ![c].round = @ + 1,
                        ![c].buf = IF kind = "MulticlientTCP" THEN @ ELSE EmptyBuffer]
    /\ UNCHANGED <<kind, listening, backlog, connections, chan, short>>
-----------------------------------------------------------------------------
\* Nobody catches what a client throws: its process ends, with all its threads.
\* What the server makes of the closed sockets is not modelled.
Failed == \E c \in Participants : proc[c].pc \in {"gaveUp", "thrown"}

Thread(t) ==
    /\ ~Failed
    /\ \/ tcpWrite(t) \/ tcpRead(t) \/ domainWrite(t) \/ domainRead(t)
       \/ t = Server /\ (Listen \/ Accept \/ multiclientReceive \/ Answered)
       \/ t # Server /\ (Connect(t) \/ ConnectFails(t) \/ Check(t))

Finished == \A t \in Threads : proc[t].pc = "done"

Next == \E t \in Threads : Thread(t)

\* Every thread runs, and blocking calls return when they can.
Spec == Init /\ [][Next]_vars /\ \A t \in Clients \cup {Server} : WF_vars(t \in Threads /\ Thread(t))
-----------------------------------------------------------------------------
(* Properties                                                               *)

\* The shape of the state; a client gives up after MaxTries + 2 attempts, and no
\* channel holds more than the socket buffers, whatever was taken for a message.
TypeOK ==
    /\ short \in BOOLEAN
    /\ \A t \in Threads :
        /\ proc[t].pc \in {"listen", "accept", "connect", "write", "read", "poll",
                           "answered", "check", "done", "thrown", "gaveUp"}
        /\ proc[t].tries \in 0..MaxTries + 1
        /\ proc[t].current \in 0..DataSize - 1 /\ proc[t].with \in Clients \cup {Server}
    /\ \A d \in {"up", "down"}, c \in Clients : Len(chan[d][c]) <= Capacity[kind]

\* What a read returns is one whole message, the one that was written for it: the
\* server answers the client whose message it holds, the client gets its own of
\* this round back, and its comparison does not throw. Pieces are neither lost
\* nor doubled nor misplaced where tcp and domain go on after a short send or
\* recv. Of the multi-client server, which does not go on, this is said as long
\* as no recv has returned a part of a message.
ReadsWholeMessages == ~short =>
    /\ proc[Server].pc = "write" =>
        proc[Server].buf = MessageOf(proc[Server].with, proc[proc[Server].with].round)
    /\ \A c \in Participants : proc[c].pc = "check" => proc[c].buf = MessageOf(c, proc[c].round)
    /\ \A t \in Threads : proc[t].pc # "thrown"

\* Every exchange ends, with messages larger than what a socket buffers too:
\* neither side waits for the other while that one waits for space, and no
\* client is overlooked by poll; unless a client gives up connecting, or the
\* multi-client server takes a part for a message.
ExchangesEnd == <>(Finished \/ short \/ \E c \in Participants : proc[c].pc = "gaveUp")
=============================================================================
