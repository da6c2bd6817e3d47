---------------------------- MODULE VerbsExchange ----------------------------
(***************************************************************************)
(* A client and a server that run one of BenchPrograms, and the RDMA       *)
(* adapters between them: what each call does to memory, queue pairs,      *)
(* completion queues and the TCP connection.                               *)
(*                                                                         *)
(* The message of every round is the same string of 'A's in the code. Here *)
(* each byte is the number of the round it belongs to, 0 a cleared byte,   *)
(* so that a byte left from an earlier round shows. Receive requests go to *)
(* the shared receive queue of a Network, as everything that is received.  *)
(***************************************************************************)
EXTENDS Integers, FiniteSetsExt, BenchPrograms, PollFunctions

CONSTANTS
    Names,          \* programs tried, a subset of DOMAIN Programs
    Ordered,        \* those that run on adapters placing writes front to back
    DataSize,       \* bytes of a message
    Positions,      \* destPos values: where in the large buffer messages go
    Rounds,         \* MESSAGES
    MaxTries        \* 10: connectSocket gives up after MaxTries + 2 attempts

ASSUME ExchangeAssumption ==
    /\ Names \subseteq DOMAIN Programs /\ Ordered \subseteq Names
    /\ DataSize \in Nat \ {0} /\ Rounds \in Nat \ {0} /\ MaxTries \in Nat
    /\ Positions \subseteq Nat /\ 0 \in Positions

Peers == {"client", "server"}
Peer(p) == IF p = "client" THEN "server" ELSE "client"
Bytes == 0..DataSize - 1

VARIABLES
    name,       \* the program that runs
    proc,       \* proc[p]: the thread of p: [pc, round, dest, from, slot, tries, sendbuf]
    mem,        \* mem[p]: recvbuf of p and its armed receive positions, <<slot, value>>
    nic,        \* nic[p]: [ready, broken, recvs, wire, sendCq, recvCq]
    tcp,        \* [listening, connected, inbox]
    faults      \* what went wrong

vars == <<name, proc, mem, nic, tcp, faults>>

Prog == Programs[name]
Code(p) == Prog.setup[p] \o Prog.loop[p] \o Prog.end[p]
LastSlot == Prog.slots - 1
OwnPos == DataSize * LastSlot
BufferEnd == Max(Positions) + DataSize - 1
Addresses == IF name \in {n \in Names : Programs[n].setup["client"][2] = "ownPos"}
             THEN OwnPos..OwnPos + DataSize - 1 ELSE 0..BufferEnd

Init ==
    /\ name \in Names
    /\ proc = [p \in Peers |-> [pc |-> 1, round |-> 1, dest |-> 0, from |-> 0, slot |-> 0,
                                tries |-> 0, sendbuf |-> [b \in Bytes |-> 0]]]
    /\ mem = [p \in Peers |-> [buf |-> [a \in Addresses |-> 0], pos |-> {}]]
    /\ nic = [p \in Peers |-> [ready |-> FALSE, broken |-> FALSE, recvs |-> 0, wire |-> <<>>,
                               sendCq |-> <<>>, recvCq |-> <<>>]]
    /\ tcp = [listening |-> FALSE, connected |-> FALSE, inbox |-> [p \in Peers |-> 0]]
    /\ faults = {}
-----------------------------------------------------------------------------
(* The threads                                                              *)

Running(p) == proc[p].pc \in 1..Len(Code(p))
At(p, call) == Running(p) /\ Code(p)[proc[p].pc] = call

\* Mutants: a round too many; the rounds are not counted.
Advanced_OneMore(p, t) ==
    LET setup == Len(Prog.setup[p])
        body == Len(Prog.loop[p])
    IN IF body > 0 /\ t.pc = setup + body /\ t.round <= Rounds
       THEN [t EXCEPT !.pc = setup + 1, !.round = @ + 1]
       ELSE [t EXCEPT !.pc = @ + 1]
Advanced_Uncounted(p, t) ==
    LET setup == Len(Prog.setup[p])
        body == Len(Prog.loop[p])
    IN [t EXCEPT !.pc = IF body > 0 /\ @ = setup + body THEN setup + 1 ELSE @ + 1]

\* The record t of p's thread after the call: on to the next one, or round again.
Advanced(p, t) ==
    LET setup == Len(Prog.setup[p])
        body == Len(Prog.loop[p])
    IN IF body > 0 /\ t.pc = setup + body /\ t.round < Rounds
       THEN [t EXCEPT !.pc = setup + 1, !.round = @ + 1]
       ELSE [t EXCEPT !.pc = @ + 1]
Step(p, t) == proc' = [proc EXCEPT ![p] = Advanced(p, t)]
Throw(p, why) == proc' = [proc EXCEPT ![p].pc = 0] /\ faults' = faults \cup {why}

\* The byte of p's recvbuf at offset b of the message it looks at.
Received(p, b) == LET a == proc[p].from + b
                  IN IF a \in DOMAIN mem[p].buf THEN mem[p].buf[a] ELSE 0
Cleared(buf, from) == [a \in DOMAIN buf |-> IF a \in from..from + DataSize - 1 THEN 0 ELSE buf[a]]

\* TCP. connect succeeds as soon as the server listens; it is retried.
setUpListenSocket(p) ==
    /\ At(p, "setUpListenSocket")
    /\ tcp' = [tcp EXCEPT !.listening = TRUE]
    /\ Step(p, proc[p]) /\ UNCHANGED <<name, mem, nic, faults>>

connectSocket(p) ==
    /\ At(p, "connectSocket")
    /\ \/ /\ tcp.listening
          /\ tcp' = [tcp EXCEPT !.connected = TRUE]
          /\ Step(p, proc[p]) /\ UNCHANGED faults
       \/ /\ ~tcp.listening /\ proc[p].tries <= MaxTries
          /\ proc' = [proc EXCEPT ![p].tries = @ + 1] /\ UNCHANGED <<tcp, faults>>
       \/ /\ ~tcp.listening /\ proc[p].tries > MaxTries
          /\ Throw(p, "connect") /\ UNCHANGED tcp
    /\ UNCHANGED <<name, mem, nic>>

Accept(p) ==
    /\ At(p, "accept") /\ tcp.connected
    /\ Step(p, proc[p]) /\ UNCHANGED <<name, mem, nic, tcp, faults>>

\* What is exchanged are addresses of what exists; only its arrival matters.
TcpWrite(p) ==
    /\ At(p, "tcpWrite")
    /\ tcp' = [tcp EXCEPT !.inbox[Peer(p)] = @ + 1]
    /\ Step(p, proc[p]) /\ UNCHANGED <<name, mem, nic, faults>>

TcpRead(p) ==
    /\ At(p, "tcpRead") /\ tcp.inbox[p] > 0
    /\ tcp' = [tcp EXCEPT !.inbox[p] = @ - 1]
    /\ Step(p, proc[p]) /\ UNCHANGED <<name, mem, nic, faults>>

\* qp.connect: INIT, ready to receive, ready to send.
QpConnect(p) ==
    /\ At(p, "qpConnect")
    /\ nic' = [nic EXCEPT ![p].ready = TRUE]
    /\ Step(p, proc[p]) /\ UNCHANGED <<name, mem, tcp, faults>>

PostRecv(p) ==
    /\ At(p, "postRecv")
    /\ nic' = [nic EXCEPT ![p].recvs = @ + 1]
    /\ Step(p, proc[p]) /\ UNCHANGED <<name, mem, tcp, faults>>
-----------------------------------------------------------------------------
(* Work requests. All but reads are inline: their data is taken when they   *)
(* are posted. `left' are the bytes not yet placed in memory of peer `to'.  *)

Message(p) == IF p = "client" THEN [b \in Bytes |-> proc[p].round] ELSE proc[p].sendbuf

Wr(p, op, offsets, imm, signaled) ==
    [op |-> op, to |-> Peer(p), at |-> proc[p].dest, data |-> Message(p), left |-> offsets,
     imm |-> imm, signaled |-> signaled]
createSendWr(p) == Wr(p, "SEND", Bytes, 0, TRUE)
createWriteWr(p, offsets) == Wr(p, "RDMA_WRITE", offsets, 0, TRUE)
createWriteWrWithImm(p) == Wr(p, "WRITE_WITH_IMM", Bytes, proc[p].dest, TRUE)
createRead(p, signaled) == Wr(p, "RDMA_READ", {}, 0, signaled)
\* The write of the receive position: one word, placed at once.
createPosWr(p) == Wr(p, "POSITION", {}, proc[p].dest, TRUE)

\* The requests a post* call posts.
Posted(p, call) ==
    CASE call = "postSend"           -> <<createSendWr(p)>>
      [] call = "postWrite"          -> <<createWriteWr(p, Bytes)>>
      [] call = "postRest"           -> <<createWriteWr(p, Bytes \ {0})>>
      [] call = "postFirst"          -> <<createWriteWr(p, {0})>>
      [] call = "postImm"            -> <<createWriteWrWithImm(p)>>
      [] call = "postRead"           -> <<createRead(p, TRUE)>>
      [] call = "postReadUnsignaled" -> <<createRead(p, FALSE)>>
      [] call \in {"postPos", "postBell"} -> <<createPosWr(p)>>
      [] call = "postWriteAndPos"    -> <<createWriteWr(p, Bytes), createPosWr(p)>>
PostCalls == {"postSend", "postWrite", "postRest", "postFirst", "postImm", "postRead",
              "postReadUnsignaled", "postPos", "postBell", "postWriteAndPos"}

Unreliable == name = "runUnconnected"

postWorkRequest(p) == \E call \in PostCalls :
    /\ At(p, call)
    /\ nic' = [nic EXCEPT ![p].wire = @ \o Posted(p, call),
                          ![p].sendCq = IF Unreliable THEN Append(@, "SEND") ELSE @]
    /\ Step(p, proc[p]) /\ UNCHANGED <<name, mem, tcp, faults>>

\* pollSendCompletionQueueBlocking throws on a completion of another kind.
Expected == [pollSend |-> "SEND", pollWrite |-> "RDMA_WRITE", pollRead |-> "RDMA_READ"]

pollSendCompletionQueueBlocking(p) == \E call \in DOMAIN Expected :
    /\ At(p, call) /\ nic[p].sendCq # <<>>
    /\ nic' = [nic EXCEPT ![p].sendCq = Tail(@)]
    /\ IF Head(nic[p].sendCq) = Expected[call]
       THEN Step(p, proc[p]) /\ UNCHANGED faults ELSE Throw(p, "opcode")
    /\ UNCHANGED <<name, mem, tcp>>

\* pollRecvCompletionQueueBlocking, and pollRecvWorkCompletionBlocking, which
\* gives the receive position in the immediate data.
pollRecv(p) == \E call \in {"pollRecv", "pollRecvImm", "pollRecvPos"} :
    /\ At(p, call) /\ nic[p].recvCq # <<>>
    /\ nic' = [nic EXCEPT ![p].recvCq = Tail(@)]
    /\ LET wc == Head(nic[p].recvCq)
       IN IF call = "pollRecvPos" \/ (call = "pollRecv") = (wc.op = "RECV")
          THEN Step(p, [proc[p] EXCEPT !.from = IF call = "pollRecvPos" THEN wc.imm ELSE @])
               /\ UNCHANGED faults
          ELSE Throw(p, "opcode")
    /\ UNCHANGED <<name, mem, tcp>>
-----------------------------------------------------------------------------
(* Memory                                                                   *)

PickPos(p) ==
    /\ At(p, "pickPos")
    /\ \E d \in Positions : Step(p, [proc[p] EXCEPT !.dest = d])
    /\ UNCHANGED <<name, mem, nic, tcp, faults>>

UseOwnPos(p) ==
    /\ At(p, "ownPos")
    /\ Step(p, [proc[p] EXCEPT !.dest = OwnPos])
    /\ UNCHANGED <<name, mem, nic, tcp, faults>>

Clear(p) ==
    /\ At(p, "clear") \/ At(p, "clearMessage")
    /\ mem' = [mem EXCEPT ![p].buf = IF At(p, "clear") THEN [a \in DOMAIN @ |-> 0]
                                     ELSE Cleared(@, proc[p].from)]
    /\ Step(p, proc[p]) /\ UNCHANGED <<name, nic, tcp, faults>>

AwaitByte(p) ==
    /\ \/ At(p, "awaitFirst") /\ Received(p, 0) # 0
       \/ At(p, "awaitLast") /\ Received(p, DataSize - 1) # 0
    /\ Step(p, proc[p]) /\ UNCHANGED <<name, mem, nic, tcp, faults>>

\* The poll function finds a slot; a position is the slot's value, a doorbell
\* tells the buffer by its index.
PollPosition(p) ==
    /\ At(p, "pollPos") \/ At(p, "pollBell")
    /\ mem[p].pos # {}
    /\ LET slot == pollFunc(Prog.poll, {x[1] : x \in mem[p].pos})
           value == CHOOSE v \in {x[2] : x \in mem[p].pos} : TRUE
       IN Step(p, [proc[p] EXCEPT !.slot = slot,
                                  !.from = IF At(p, "pollPos") THEN value ELSE DataSize * slot])
    /\ UNCHANGED <<name, mem, nic, tcp, faults>>

ClearPosition(p) ==
    /\ At(p, "clearPos")
    /\ mem' = [mem EXCEPT ![p].pos = {x \in @ : x[1] # proc[p].slot}]
    /\ Step(p, proc[p]) /\ UNCHANGED <<name, nic, tcp, faults>>

\* The server copies the message to its sendbuf; the client compares it.
CopyMessage(p) ==
    /\ At(p, "copy")
    /\ Step(p, [proc[p] EXCEPT !.sendbuf = [b \in Bytes |-> Received(p, b)]])
    /\ UNCHANGED <<name, mem, nic, tcp, faults>>

CheckMessage(p) ==
    /\ At(p, "check")
    /\ IF \A b \in Bytes : Received(p, b) # 0
       THEN Step(p, proc[p]) /\ UNCHANGED faults ELSE Throw(p, "data")
    /\ UNCHANGED <<name, mem, nic, tcp>>
-----------------------------------------------------------------------------
(* The adapters carry out p's requests in order, one at a time              *)

Current(p) == Head(nic[p].wire)
Deliverable(p) == nic[p].wire # <<>> /\ nic[Peer(p)].ready /\ ~nic[p].broken
TakesRecv(w) == w.op \in {"SEND", "WRITE_WITH_IMM"}
Removed(p) == [nic EXCEPT ![p].wire = Tail(@)]
Swallowed(p) == TakesRecv(Current(p)) /\ nic[Peer(p)].recvs = 0

\* A read request takes the peer's memory; the answer is placed like a write.
FetchRead(p) ==
    /\ Deliverable(p) /\ Current(p).op = "RDMA_READ" /\ Current(p).to # p
    /\ nic' = [nic EXCEPT ![p].wire[1] =
            [@ EXCEPT !.to = p, !.data = [b \in Bytes |-> mem[Peer(p)].buf[b]], !.left = Bytes]]
    /\ UNCHANGED <<name, proc, mem, tcp, faults>>

PlaceByte(p) ==
    /\ Deliverable(p)
    /\ LET w == Current(p)
       IN \E b \in w.left :
            /\ name \in Ordered => b = Min(w.left)
            /\ ~Swallowed(p)
            /\ mem' = [mem EXCEPT ![w.to].buf[w.at + b] = w.data[b]]
            /\ nic' = [nic EXCEPT ![p].wire[1].left = @ \ {b}]
    /\ UNCHANGED <<name, proc, tcp, faults>>

\* All is placed: the receiver's completion, the sender's, if it is signaled.
\* A request that finds no receive request is not sent again (retryCount 0).
FinishRequest(p) ==
    /\ Deliverable(p) /\ (Current(p).left = {} \/ Swallowed(p))
    /\ LET w == Current(p)
           q == Peer(p)
       IN /\ w.op = "RDMA_READ" => w.to = p
          /\ nic' = IF Swallowed(p) THEN Removed(p) ELSE [Removed(p) EXCEPT
                ![p].sendCq = IF ~w.signaled \/ Unreliable THEN @ ELSE
                    Append(@, IF w.op \in {"SEND", "RDMA_READ"} THEN w.op ELSE "RDMA_WRITE"),
                ![q].recvs = IF TakesRecv(w) THEN @ - 1 ELSE @,
                ![q].recvCq = IF ~TakesRecv(w) THEN @ ELSE
                    Append(@, [op |-> IF w.op = "SEND" THEN "RECV" ELSE "RECV_RDMA_WITH_IMM",
                               imm |-> w.imm])]
          /\ mem' = IF w.op # "POSITION" THEN mem
                    ELSE [mem EXCEPT ![q].pos = {x \in @ : x[1] # LastSlot} \cup {<<LastSlot, w.imm>>}]
          /\ faults' = IF Swallowed(p) THEN faults \cup {"swallowed"} ELSE faults
    /\ UNCHANGED <<name, proc, tcp>>

\* A request that arrives before the peer has connected its queue pair is
\* dropped. The pair never sends it again (time-out 0, retryCount 0) and the peer
\* refuses what follows.
LoseRequest(p) ==
    /\ ~Unreliable /\ nic[p].wire # <<>> /\ ~nic[Peer(p)].ready /\ ~nic[p].broken
    /\ nic' = [nic EXCEPT ![p].broken = TRUE] /\ faults' = faults \cup {"dropped"}
    /\ UNCHANGED <<name, proc, mem, tcp>>

\* A datagram may be lost anywhere.
LoseDatagram(p) ==
    /\ Unreliable /\ nic[p].wire # <<>>
    /\ nic' = Removed(p) /\ faults' = faults \cup {"lost"}
    /\ UNCHANGED <<name, proc, mem, tcp>>
-----------------------------------------------------------------------------
Thread(p) ==
    \/ setUpListenSocket(p) \/ connectSocket(p) \/ Accept(p) \/ TcpWrite(p) \/ TcpRead(p)
    \/ QpConnect(p) \/ PostRecv(p) \/ postWorkRequest(p)
    \/ pollSendCompletionQueueBlocking(p) \/ pollRecv(p)
    \/ PickPos(p) \/ UseOwnPos(p) \/ Clear(p) \/ AwaitByte(p)
    \/ PollPosition(p) \/ ClearPosition(p) \/ CopyMessage(p) \/ CheckMessage(p)

Adapter(p) == FetchRead(p) \/ PlaceByte(p) \/ FinishRequest(p)

Finished == \A p \in Peers : proc[p].pc > Len(Code(p))

\* Both sides are through, or one has failed and the other may wait for ever.
Stopped == (Finished \/ faults # {}) /\ UNCHANGED vars

Next == (\E p \in Peers : Thread(p) \/ Adapter(p) \/ LoseRequest(p) \/ LoseDatagram(p))
        \/ Stopped

Spec == Init /\ [][Next]_vars

\* Threads run (they spin, they are never blocked by each other) and adapters
\* carry out what is posted.
FairSpec == Spec /\ \A p \in Peers : WF_vars(Thread(p)) /\ WF_vars(Adapter(p))
-----------------------------------------------------------------------------
(* Properties                                                               *)

\* The shape of the state.
TypeOK ==
    /\ \A p \in Peers :
        /\ proc[p].pc \in 0..Len(Code(p)) + 1 /\ proc[p].round \in 1..Rounds
        /\ mem[p].buf \in [Addresses -> 0..Rounds]
        /\ nic[p].recvs \in 0..2 /\ Len(nic[p].wire) <= 3 /\ Len(nic[p].sendCq) <= 2
    /\ faults \subseteq {"connect", "opcode", "data", "swallowed", "dropped", "lost"}

\* What the server echoes and what the client compares is the whole message of
\* this round, none of it left from an earlier one (the code compares with a
\* string that is the same in every round and cannot tell).
EchoIsCurrent == \A p \in Peers :
    At(p, "check") \/ At(p, "copy") => \A b \in Bytes : Received(p, b) = proc[p].round

\* No request that is still being placed touches the message while it is read:
\* receive requests are posted again, and positions cleared, before the data is
\* used, which is sound only since the peer waits for the answer.
MessageStableWhileRead == \A p, q \in Peers :
    (At(p, "check") \/ At(p, "copy")) /\ nic[q].wire # <<>> =>
        LET w == Current(q)
        IN w.to = p => \A b \in w.left : w.at + b \notin {proc[p].from + k : k \in Bytes}

\* No side ever throws once connected: completions arrive in the order they are
\* polled for, and a receive request is always pending ("so incoming send don't
\* get swallowed").
NothingSwallowedOrThrown == faults \subseteq {"connect", "dropped", "lost"}

\* The poll function of the program finds a client that has written, whichever
\* slots are armed (judged once per program, where it starts).
PollFindsArmedSlot ==
    (\A p \in Peers : proc[p].pc = 1) => test(Prog.poll) /\ FindsArmedSlot(Prog.poll)

\* Every exchange whose requests arrive comes to its end: neither side waits for
\* what the other does only later. It need not end where the client gave up
\* connecting, where a datagram was lost, or where the first request found the
\* peer, which has sent its last TCP message, not connected yet.
ExchangeEnds == <>(Finished \/ faults \cap {"connect", "dropped", "lost"} # {})
=============================================================================
