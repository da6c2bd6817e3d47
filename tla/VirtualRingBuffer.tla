-------------------------- MODULE VirtualRingBuffer --------------------------
(***************************************************************************)
(* datastructures/VirtualRingBuffer: the shared memory ring behind         *)
(* SharedMemoryTransport. Each side owns one buffer it writes into         *)
(* (local) and one RingBufferInfo (localRw) with two counters: written,    *)
(* the bytes it has put into its own buffer, and read, the bytes it has    *)
(* taken out of the peer's buffer. The peer maps both and only reads them. *)
(*                                                                         *)
(* A side is one thread that runs one call at a time; every load and store *)
(* of shared memory is a step of its own, the copies go byte by byte.      *)
(*                                                                         *)
(* The counters start at 0 and are size_t; MaxBytes < Word bounds how much *)
(* one run sends, so they do not wrap, but differences with the            *)
(* uninitialised cachedRemoteRead do (USub).                               *)
(***************************************************************************)
EXTENDS Integers, Sequences

CONSTANTS
    Size,       \* size: bytes of each buffer
    Word,       \* 2^64 in the code, the range of a size_t
    MaxBytes,   \* bound: bytes one side writes in a run
    Lengths,    \* the lengths callers ask for
    Senders,    \* the sides whose application sends; their peers receive
    Garbage,    \* what uninitialised memory may hold
    MaxUnread   \* caller assumption: send is called only when the bytes the
                \* peer has not read, the new ones included, are at most this

ASSUME SizeAssumption == Size \in Nat \ {0}
ASSUME WordAssumption == Word \in Nat /\ Size < Word
ASSUME BytesAssumption == MaxBytes \in Nat /\ MaxBytes < Word
ASSUME LengthsAssumption == Lengths \subseteq 1..Size
ASSUME SendersAssumption == Senders \subseteq {"client", "server"}
ASSUME GarbageAssumption == Garbage \subseteq 0..Word - 1
ASSUME UnreadAssumption == MaxUnread \in Nat

VARIABLES
    written,            \* localRw.data->written of each side
    read,               \* localRw.data->read of each side
    local,              \* contents of the buffer each side writes
    cachedRemoteRead,   \* the member of that name; never initialised
    pc,                 \* where each side's thread is
    len,                \* length, maxSize or size of the call in progress
    copied,             \* bytes the call has copied so far
    got                 \* the byte receive copied to the caller last

vars == <<written, read, local, cachedRemoteRead, pc, len, copied, got>>

Side == {"client", "server"}
Peer(s) == IF s = "client" THEN "server" ELSE "client"

Cells == 0..Size - 1
ByteAt(p) == p + 1                  \* byte p of a stream; 0 is fresh memory
\* Mutant: a bitmask one too small.
Slot_ShortMask(p) == p % (Size - 1)
Slot(p) == p % Size                 \* p & bitmask, size being a power of two
USub(a, b) == (a - b) % Word        \* size_t subtraction
Min2(a, b) == IF a <= b THEN a ELSE b

Unread(s) == written[s] - read[Peer(s)]

\* Both objects are constructed: the counters and buffers are fresh shared
\* memory, cachedRemoteRead is whatever the allocation held.
Init ==
    /\ written = [s \in Side |-> 0]
    /\ read = [s \in Side |-> 0]
    /\ local = [s \in Side |-> [c \in Cells |-> 0]]
    /\ cachedRemoteRead \in [Side -> Garbage]
    /\ pc = [s \in Side |-> "idle"]
    /\ len = [s \in Side |-> 0]
    /\ copied = [s \in Side |-> 0]
    /\ got = [s \in Side |-> 0]

Goto(s, label) == pc' = [pc EXCEPT ![s] = label]

\* The arguments of a call, and its locals, live as long as the call.
Enter(s, n, label) ==
    /\ pc[s] = "idle"
    /\ len' = [len EXCEPT ![s] = n]
    /\ Goto(s, label)

\* Mutant: the next call goes on where this one stopped.
Return_KeepsCopied(s) == len' = [len EXCEPT ![s] = 0] /\ UNCHANGED copied /\ Goto(s, "idle")

Return(s) ==
    /\ len' = [len EXCEPT ![s] = 0]
    /\ copied' = [copied EXCEPT ![s] = 0]
    /\ Goto(s, "idle")

-----------------------------------------------------------------------------
(* send                                                                     *)

\* send(data, length) is called. Only this side writes written[s], so the
\* value loaded into localWritten stays the current one during the call.
BeginSend(s, n) ==
    /\ Enter(s, n, "checkFree")
    /\ written[s] + n <= MaxBytes
    /\ Unread(s) + n <= MaxUnread
    /\ UNCHANGED <<written, read, local, cachedRemoteRead, copied, got>>

\* Mutant: >= for >.
LooksFull_AtLimit(s, cached) == USub(written[s], cached) >= Size - len[s]

\* localWritten - cachedRemoteRead > size - length
LooksFull(s, cached) == USub(written[s], cached) > Size - len[s]

\* waitUntilSendFree, the test in front of the loop: it returns, and the
\* caller goes on to copy, when the cached value says there is NO room.
CheckFree(s) ==
    /\ pc[s] = "checkFree"
    /\ IF LooksFull(s, cachedRemoteRead[s])
       THEN Goto(s, "copyIn")
       ELSE Goto(s, "loadRead")
    /\ UNCHANGED <<written, read, local, cachedRemoteRead, len, copied, got>>

\* One round of the loop: reload the peer's counter, leave once it has room.
LoadRead(s) ==
    /\ pc[s] = "loadRead"
    /\ cachedRemoteRead' = [cachedRemoteRead EXCEPT ![s] = read[Peer(s)]]
    /\ IF LooksFull(s, read[Peer(s)])
       THEN Goto(s, "loadRead")
       ELSE Goto(s, "copyIn")
    /\ UNCHANGED <<written, read, local, len, copied, got>>

\* std::copy into the own buffer, one byte.
CopyIn(s) ==
    /\ pc[s] = "copyIn"
    /\ LET p == written[s] + copied[s]
       IN local' = [local EXCEPT ![s][Slot(p)] = ByteAt(p)]
    /\ copied' = [copied EXCEPT ![s] = @ + 1]
    /\ Goto(s, IF copied[s] + 1 = len[s] THEN "storeWritten" ELSE "copyIn")
    /\ UNCHANGED <<written, read, cachedRemoteRead, len, got>>

\* written.store(localWritten + length, release); send returns.
StoreWritten(s) ==
    /\ pc[s] = "storeWritten"
    /\ written' = [written EXCEPT ![s] = @ + len[s]]
    /\ Return(s)
    /\ UNCHANGED <<read, local, cachedRemoteRead, got>>

-----------------------------------------------------------------------------
(* receive and receiveSome                                                  *)

\* receive(whereTo, maxSize) or receiveSome(whereTo, maxSize) is called.
BeginReceive(s, n, wait) ==
    /\ Enter(s, n, wait)
    /\ UNCHANGED <<written, read, local, cachedRemoteRead, copied, got>>

\* Mutant: off by one.
Available_OffByOne(s) == USub(written[Peer(s)], read[s]) + 1

Available(s) == USub(written[Peer(s)], read[s])

\* waitUntilReceiveAvailable(maxSize, localRead) of receive returns.
WaitAll(s) ==
    /\ pc[s] = "waitAll"
    /\ Available(s) >= len[s]
    /\ Goto(s, "copyOut")
    /\ UNCHANGED <<written, read, local, cachedRemoteRead, len, copied, got>>

\* Mutant: receiveSome waits for all of maxSize.
WaitSome_ForAll(s) ==
    /\ pc[s] = "waitSome" /\ Available(s) >= len[s]
    /\ Goto(s, "loadWritten")
    /\ UNCHANGED <<written, read, local, cachedRemoteRead, len, copied, got>>

\* waitUntilReceiveAvailable(1, localRead) of receiveSome returns.
WaitSome(s) ==
    /\ pc[s] = "waitSome"
    /\ Available(s) >= 1
    /\ Goto(s, "loadWritten")
    /\ UNCHANGED <<written, read, local, cachedRemoteRead, len, copied, got>>

\* Mutant: takes maxSize bytes whatever is there.
LoadWritten_Unclipped(s) ==
    /\ pc[s] = "loadWritten"
    /\ Goto(s, "copyOut")
    /\ UNCHANGED <<written, read, local, cachedRemoteRead, len, copied, got>>

\* receiveSome loads written again and takes what is there, up to maxSize.
LoadWritten(s) ==
    /\ pc[s] = "loadWritten"
    /\ len' = [len EXCEPT ![s] = Min2(Available(s), @)]
    /\ Goto(s, "copyOut")
    /\ UNCHANGED <<written, read, local, cachedRemoteRead, copied, got>>

\* std::copy out of the peer's buffer, one byte.
CopyOut(s) ==
    /\ pc[s] = "copyOut"
    /\ got' = [got EXCEPT ![s] = local[Peer(s)][Slot(read[s] + copied[s])]]
    /\ copied' = [copied EXCEPT ![s] = @ + 1]
    /\ Goto(s, IF copied[s] + 1 = len[s] THEN "storeRead" ELSE "copyOut")
    /\ UNCHANGED <<written, read, local, cachedRemoteRead, len>>

\* read.store(localRead + size, release); the call returns size.
StoreRead(s) ==
    /\ pc[s] = "storeRead"
    /\ read' = [read EXCEPT ![s] = @ + len[s]]
    /\ Return(s)
    /\ UNCHANGED <<written, local, cachedRemoteRead, got>>

-----------------------------------------------------------------------------
\* A call that has begun goes on by itself ...
Step(s) ==
    \/ CheckFree(s) \/ LoadRead(s) \/ CopyIn(s) \/ StoreWritten(s)
    \/ WaitAll(s) \/ WaitSome(s) \/ LoadWritten(s) \/ CopyOut(s) \/ StoreRead(s)

\* ... but nothing obliges the application to make one.
Call(s) == \E n \in Lengths :
    \/ s \in Senders /\ BeginSend(s, n)
    \/ Peer(s) \in Senders /\ BeginReceive(s, n, "waitAll")
    \/ Peer(s) \in Senders /\ BeginReceive(s, n, "waitSome")

Next == \E s \in Side : Step(s) \/ Call(s)

Spec == Init /\ [][Next]_vars

\* Each side's thread keeps running: a call in progress whose next step is
\* possible is not suspended for ever (the waits are busy loops).
FairSpec == Spec /\ \A s \in Side : WF_vars(Step(s))
-----------------------------------------------------------------------------
(* Properties                                                               *)

Sending == {"checkFree", "loadRead", "copyIn", "storeWritten"}
Receiving == {"waitAll", "waitSome", "loadWritten", "copyOut", "storeRead"}

\* The shape of the state: counters in range, the call in progress described
\* by pc, len and copied.
TypeOK ==
    /\ written \in [Side -> 0..MaxBytes]
    /\ read \in [Side -> 0..MaxBytes]
    /\ local \in [Side -> [Cells -> 0..MaxBytes]]
    /\ cachedRemoteRead \in [Side -> 0..Word - 1]
    /\ pc \in [Side -> {"idle"} \cup Sending \cup Receiving]
    /\ len \in [Side -> 0..Size]
    /\ copied \in [Side -> 0..Size]
    /\ got \in [Side -> 0..MaxBytes]

\* Every byte that send has published and the peer has not yet released with
\* its store to read is still in the writer's buffer: no send overwrites it,
\* waitUntilSendFree having the task to "block until there is some space".
UnreadBytesIntact ==
    \A s \in Side : \A p \in read[Peer(s)]..written[s] - 1 :
        local[s][Slot(p)] = ByteAt(p)

\* The byte that receive or receiveSome hands to its caller is the next one of
\* the peer's stream, and the peer has published it.
ReceivesStreamInOrder ==
    \A s \in Side : (pc[s] \in {"copyOut", "storeRead"} /\ copied[s] > 0) =>
        /\ got[s] = ByteAt(read[s] + copied[s] - 1)
        /\ read[s] + copied[s] <= written[Peer(s)]

(* The inductive invariant behind the theorems of VirtualRingBuffer_proofs   *)

\* Where the writer s has filled its buffer up to, the bytes the send in
\* progress has copied but not published included.
Filled(s) == written[s] + (IF pc[s] \in {"copyIn", "storeWritten"} THEN copied[s] ELSE 0)

\* What a call in progress has established at each of its steps.
CallInv(s) ==
    /\ read[s] <= written[Peer(s)]
    /\ pc[s] \in Sending => /\ len[s] >= 1
                            /\ written[s] + len[s] <= MaxBytes
                            /\ Unread(s) + len[s] <= MaxUnread
    /\ pc[s] \in Receiving => len[s] >= 1
    /\ pc[s] = "loadWritten" => read[s] < written[Peer(s)]
    /\ pc[s] \in {"copyOut", "storeRead"} => read[s] + len[s] <= written[Peer(s)]
    /\ pc[s] \in {"copyIn", "copyOut"} => copied[s] < len[s]
    /\ pc[s] \in {"storeWritten", "storeRead"} => copied[s] = len[s]
    /\ pc[s] \notin {"copyIn", "copyOut", "storeWritten", "storeRead"} => copied[s] = 0

CallsOK == TypeOK /\ \A s \in Side : CallInv(s)

\* The contents of s's buffer between the reader's and the writer's position,
\* and what its reader has taken from it.
ContentInv(s) ==
    /\ Unread(s) <= MaxUnread
    /\ \A p \in read[Peer(s)]..Filled(s) - 1 : local[s][Slot(p)] = ByteAt(p)
    /\ (pc[s] \in {"copyOut", "storeRead"} /\ copied[s] > 0) =>
            got[s] = ByteAt(read[s] + copied[s] - 1)

RingInv == CallsOK /\ \A s \in Side : ContentInv(s)

\* A send that was called returns: the wait for space ends, whatever value
\* cachedRemoteRead happened to start with.
SendReturns == \A s \in Side : (pc[s] \in Sending) ~> (pc[s] = "idle")

\* A receiveSome that was called returns once the peer has published a byte it
\* has not read, even if that is less than maxSize.
ReceiveSomeReturns == \A s \in Side :
    (pc[s] = "waitSome" /\ written[Peer(s)] > read[s]) ~> (pc[s] = "idle")

\* The ring implements the byte streams of Transport.h. A stream's undelivered
\* part is read off the memory of the ring, so an overwritten byte shows.
Taken(s) == read[s] + (IF pc[s] \in {"copyOut", "storeRead"} THEN copied[s] ELSE 0)
Undelivered(s) == [i \in 1..(written[s] - Taken(Peer(s))) |->
                        local[s][Slot(Taken(Peer(s)) + i - 1)]]
Streams == INSTANCE ByteStream WITH
    MaxWrite <- Size,
    chan <- [s \in Side |-> Undelivered(s)],
    produced <- written,
    last <- got

\* Every step of the two threads is a write, a read of one byte, or invisible
\* to the users of the connection.
ImplementsStreams == Streams!Spec
=============================================================================
