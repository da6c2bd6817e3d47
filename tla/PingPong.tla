------------------------------ MODULE PingPong ------------------------------
(***************************************************************************)
(* apps/PingPong over include/SharedMemoryTransport: the client writes a   *)
(* message and reads one of the same size back, the server reads and       *)
(* writes it back. The transport cuts every write and read into chunks of  *)
(* at most BUFFER_SIZE (Size) bytes for the ring buffer.                   *)
(*                                                                         *)
(* The application is a caller of VirtualRingBuffer; MaxUnread is set to   *)
(* Word - 1 in the runs, so that what keeps its sends apart is only the    *)
(* protocol modelled here.                                                 *)
(***************************************************************************)
EXTENDS VirtualRingBuffer

CONSTANTS
    DataSizes,  \* the dataSize Ping and Pong are constructed with
    Rounds      \* bound: ping() calls of the client

ASSUME PingPongAssumption == DataSizes \subseteq Nat \ {0} /\ Rounds \in Nat
\* Both sides send and receive, in chunks of any length that fits the buffer.
ASSUME CallersAssumption == Senders = Side /\ Lengths = 1..Size

VARIABLES
    dataSize,   \* dataSize of this run, the same on both sides
    phase,      \* the transport call each side is in: "write" or "read", or
                \* "thrown" once ping() found a wrong echo
    left,       \* bytes that call has not handed to the ring buffer yet
    rounds,     \* ping() or pong() calls each side has completed
    intact      \* every byte read so far, by either side, was the one written
                \* at its place of the stream

appVars == <<dataSize, phase, left, rounds, intact>>
allVars == <<vars, appVars>>

\* Mutants: both sides begin with a write; both with a read.
First_BothWrite(s) == "write"
First_BothRead(s) == "read"

First(s) == IF s = "client" THEN "write" ELSE "read"    \* ping / pong

AppInit ==
    /\ Init
    /\ dataSize \in DataSizes
    /\ phase = [s \in Side |-> First(s)]
    /\ left = [s \in Side |-> dataSize]
    /\ rounds = [s \in Side |-> 0]
    /\ intact = TRUE

\* One iteration of the chunk loop of write_impl.
WriteChunk(s) ==
    /\ phase[s] = "write" /\ left[s] > 0 /\ rounds[s] < Rounds
    /\ LET chunk == Min2(left[s], Size)
       IN /\ BeginSend(s, chunk)
          /\ left' = [left EXCEPT ![s] = @ - chunk]
    /\ UNCHANGED <<dataSize, phase, rounds, intact>>

\* One iteration of the chunk loop of read_impl.
ReadChunk(s) ==
    /\ phase[s] = "read" /\ left[s] > 0 /\ rounds[s] < Rounds
    /\ LET chunk == Min2(left[s], Size)
       IN /\ BeginReceive(s, chunk, "waitAll")
          /\ left' = [left EXCEPT ![s] = @ - chunk]
    /\ UNCHANGED <<dataSize, phase, rounds, intact>>

\* buffer[i] != data[i] at the end of ping: the client, or the server whose
\* bytes it got back, has read a byte that was not the one written. (The model
\* tells all bytes of the stream apart.)
WrongEcho(s) == s = "client" /\ phase[s] = "read" /\ ~intact

\* The chunk loop is done: the first call of ping (pong) is followed by the
\* second, the second ends the round.
CallDone(s) ==
    /\ phase[s] # "thrown" /\ left[s] = 0 /\ pc[s] = "idle"
    /\ ~WrongEcho(s)
    /\ left' = [left EXCEPT ![s] = dataSize]
    /\ phase' = [phase EXCEPT ![s] = IF @ = "write" THEN "read" ELSE "write"]
    /\ rounds' = [rounds EXCEPT ![s] = IF phase[s] = First(s) THEN @ ELSE @ + 1]
    /\ UNCHANGED <<vars, dataSize, intact>>

\* ... or ping throws "received unexpected data".
Throw(s) ==
    /\ left[s] = 0 /\ pc[s] = "idle"
    /\ WrongEcho(s)
    /\ phase' = [phase EXCEPT ![s] = "thrown"]
    /\ UNCHANGED <<vars, dataSize, left, rounds, intact>>

\* The ring buffer call in progress goes on.
ContinueCall(s) ==
    /\ Step(s)
    /\ intact' = (intact /\ (pc[s] = "copyOut" => got'[s] = ByteAt(read[s] + copied[s])))
    /\ UNCHANGED <<dataSize, phase, left, rounds>>

App(s) == WriteChunk(s) \/ ReadChunk(s) \/ CallDone(s) \/ Throw(s) \/ ContinueCall(s)

AppNext == \E s \in Side : App(s)

\* Both programs run their loops without pause.
AppSpec == AppInit /\ [][AppNext]_allVars /\ \A s \in Side : WF_allVars(App(s))
-----------------------------------------------------------------------------
(* Properties                                                               *)

\* When ping() starts, nothing of an earlier exchange is left in either
\* direction: the buffer's full size is free for the new message.
QuietBetweenPings ==
    (phase["client"] = "write" /\ left["client"] = dataSize) =>
        Unread("client") = 0 /\ Unread("server") = 0

\* Request and response of at most the buffer's size never fill a buffer beyond
\* it, so the ring sees only the calls that VirtualRingBuffer's proofs assume.
Bounded == INSTANCE VirtualRingBuffer WITH MaxUnread <- Size
RespectsBuffer == Bounded!Init /\ [][dataSize <= Size => Bounded!Next]_vars

\* ping() never finds a wrong byte in the echo of a message that fits the
\* buffer: neither direction's bytes are overwritten or read too early, over
\* all rounds and whatever cachedRemoteRead started with.
EchoesMatch == dataSize <= Size => phase["client"] # "thrown"

(* The inductive invariant behind the theorems of PingPong_proofs            *)

\* Bytes of the ring buffer call in progress, which left no longer counts.
InCall(s) == IF pc[s] = "idle" THEN 0 ELSE len[s]

\* How far a side is in its exchange, by its own two counters. Chunks are the
\* only calls, and only receive (waitAll) is used for reading.
Progress(s) ==
    /\ phase[s] \in {"write", "read", "thrown"} /\ left[s] \in Nat
    /\ left[s] + InCall(s) <= dataSize
    /\ pc[s] \notin {"waitSome", "loadWritten"}
    /\ phase[s] = "write" => pc[s] \notin Receiving
    /\ phase[s] = "read" => pc[s] \notin Sending
    /\ phase[s] = "thrown" => left[s] = 0 /\ pc[s] = "idle"
    /\ IF phase[s] = First(s) THEN
            IF s = "client" THEN written[s] + InCall(s) + left[s] = read[s] + dataSize
                            ELSE read[s] + InCall(s) + left[s] = written[s] + dataSize
       ELSE IF s = "client" THEN read[s] + InCall(s) + left[s] = written[s]
                            ELSE written[s] + InCall(s) + left[s] = read[s]

AppInv == /\ CallsOK
          /\ dataSize \in DataSizes
          /\ phase \in [Side -> {"write", "read", "thrown"}] /\ left \in [Side -> Nat]
          /\ \A s \in Side : Progress(s)

\* The exchange comes to an end: client and server never wait for each other.
\* With messages of at most the buffer's size every ping() returns. A longer
\* one is streamed through the ring in chunks, which waitUntilSendFree does not
\* keep apart: there ping() returns or throws.
PingsComplete ==
    <>(rounds["client"] = Rounds \/ (dataSize > Size /\ phase["client"] = "thrown"))
=============================================================================
