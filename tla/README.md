# A TLA+ development for L5RDMA

L5RDMA is a collection of interchangeable transports (shared memory, TCP, UNIX
domain sockets, RDMA, and four multi-client servers) behind the CRTP interface
of `include/Transport.h`, with benchmarks on top. What makes it hard is that its
fast transports have no kernel between the two sides: a reader polls memory that
another thread, or a network adapter, is writing, and flow control is a pair of
counters.

## Inventory

| Part | State | Operations | Interacts through | Hard because | Correct means |
|---|---|---|---|---|---|
| `Transport` interface | - | write, read, readSome | CRTP | - | two byte streams, nothing lost, repeated or reordered |
| `VirtualRingBuffer` | per side: `written`, `read` (shared), buffer, `cachedRemoteRead` | send, receive, receiveSome | shared memory | two threads, no locks, uninitialised cache | unread bytes are not overwritten; calls return |
| `SharedMemoryTransport`, `apps/PingPong.h` | position in a call | chunked write/read, ping (compares the echo, throws), pong | the ring | both sides wait for each other; nothing but the alternation protects the buffer | echoes match, exchanges complete and stay within the buffer |
| `VirtualRDMARingBuffer`, `RDMAMessageBuffer` | `sendPos`, `messageCounter`, `remoteReadPos`, `sendBuf`; `localReadPos`, `receiveBuf` | send, sendParanoid, receive | RDMA writes and READs | torn messages, late fetch of data, stale position, stale events, wraparound | only whole messages are accepted, in order; sends return; send queue bounded |
| `CompletionQueuePair` | completion queues, event channel | polls, waitForCompletion | adapter | events and completions are consumed separately | no wait is missed, no completion is taken for another |
| `MulticlientRDMATransport`, `...RecvTransport`, `...DistinctMrTransport` | request slots, one `sendBuffer`, counters per connection; doorbells, receive requests or size words | accept, connect, send and receive on both sides | RDMA writes | many clients, shared buffers, validity byte never cleared, a size word half reset | each request taken once, each client gets its own answer, all are answered |
| `RdmaTransport` | position in a call | chunked write and read | RDMA ring | chunks fill the ring and are not inline | as the RDMA ring |
| `TcpTransport`, `DomainSocketsTransport`, `MulticlientTCPTransport`, `util/socket` | position in a call, kernel sockets | listen, connect with retries, accept, write and read loops, poll | kernel | partial transfers, a server that may not listen yet | each read returns the message that was written; exchanges end |
| `rawCommandBench`, `indirectWriteBench`, `multiclientPollingBench` | buffers, queue pairs, TCP connection | one program per protocol | verbs | receive requests posted at the right time, memory cleared at the right time, polling of memory being written | the echo is the current message; nothing is swallowed; exchanges end |
| poll functions of `multiclientPollingBench` | - | scalar, SSE, AVX, PCMP | - | mask widths | a client that has written is found |
| Bootstrap (`RDMANetworking`, `Network`, `RcQueuePair::connect`) | queue pair state | exchange of addresses | sockets | a client may write before the server is ready, and nothing is sent again | the loss of a first message does no other harm |
| KVStore, librdmacm, virtual memory, utilities | - | - | - | - | - |

`PROJECT.json` lists the components with what is modelled of each, and every
hazard at its line.

## Modules

Shared memory:

* **ByteStream** - the abstract specification of a connection: per writing side
  a queue of bytes; `Write` appends, `Read` hands out the oldest byte.
* **VirtualRingBuffer** - `datastructures/VirtualRingBuffer`. One thread per
  side; every load and store of a shared counter and every byte of the copies is
  a step. `BeginSend, CheckFree, LoadRead, CopyIn, StoreWritten` are the steps of
  `send` with `waitUntilSendFree`; `BeginReceive, WaitAll | WaitSome, LoadWritten,
  CopyOut, StoreRead` those of `receive` and `receiveSome`. The doubly mapped
  buffer is addressing modulo `Size`. `size_t` subtraction is modulo `Word`;
  `cachedRemoteRead` starts with any value of `Garbage`, as the code never
  initialises it. Bytes carry their stream position.
* **PingPong** - the loops of `apps/PingPong.h` over the chunk loops of
  `SharedMemoryTransport`, as callers of the ring. It extends VirtualRingBuffer,
  so every step of the calls is interleaved. `ping` compares what it has read and
  ends the client if it differs (`WrongEcho`, `Throw`); the history variable
  `intact` records whether any byte read so far was not the one written.
* **VirtualRingBuffer_proofs**, **PingPong_proofs** - the theorems.

RDMA rings:

* **CompletionQueuePair** - the send completion queue and its event channel as a
  record with the class's operations; used by the RDMA ring.
* **VirtualRDMARingBuffer** - one direction of the RDMA ring: sender thread,
  adapter, receiver thread. A cell is a word (size, payload, validity or zero).
  The adapter (external) carries out posted requests in order; it copies inline
  data when posted and other data later (`Fetch`), places words one by one
  (`Place`, front to back or, for the variants in `AnyOrder`, in any order),
  answers READs and reports completions. `FillSendBuf` is `send` up to the wait,
  `PostRead/PollRead` the wait for space, `PostMessage` the post,
  `GetEvent/RequestNotify/DrainThen` `waitForCompletion`; `PollSize/PollValidity`
  the polling loop of `receive`, `Wipe` and `Publish` its end, `CallbackThrows`
  its error path.
* **RDMAMessageBuffer** - extends it with the older ring: the same receiver and
  adapter, but a `send` that waits and copies part by part (`PostReadForPart`,
  `CopyPart`) and posts what crosses the end of the ring as two slices
  (`PostSlice`, `DrainSlice`).
* **VirtualRDMARingBuffer_proofs**, **RDMAMessageBuffer_proofs** - the theorems
  and the inductive invariants. `outbox` and the field `of` of a request (the
  message it carries a part of) are history: no guard reads them.

Multi-client RDMA:

* **MulticlientAnswer** - what the three transports share: the server's `send`
  from one buffer, and the client's `receive`.
* **MulticlientServer** - accept up to the queue pair's `connect`, the client's
  post, the loss of requests that arrive before the server has connected its pair
  (`LoseRequest`), the request slots, and the echo loop with its error paths.
* **MulticlientRDMATransport**, **MulticlientRDMARecvTransport**,
  **MulticlientRDMADistinctMrTransport** - how a request announces itself and is
  found: doorbells and `pollSSE`; immediate data, the shared receive queue and
  its completions; the size words, polled in turn and reset.
* **MulticlientRecvVsPoll** - the program `multiclientRecvVsPoll.cpp`, which
  instantiates all three over the same state: client threads that serve several
  clients each in turn, and one server. Its last section states the inductive
  invariants of the proofs.
* **MulticlientRecvVsPoll_proofs** - the theorems.

Verbs programs:

* **BenchPrograms** - the client and server programs of `rawCommandBench`,
  `indirectWriteBench` and `multiclientPollingBench`: for each, the sequence of
  calls of its set-up, its loop body and its end, in the order of the source.
* **PollFunctions** - the poll functions as arithmetic on masks, with `test`,
  the check of the source, and the stronger `FindsArmedSlot`.
* **VerbsExchange** - carries out a program of BenchPrograms: each call is an
  action on memory, queue pairs, completion queues and the TCP connection; the
  adapters place bytes one by one, consume receive requests, lose datagrams, and
  drop requests that arrive before the peer's queue pair is connected.
  A byte is the number of its round, so that an old byte shows; in the code all
  rounds send the same text.
* **PollFunctions_proofs**, **VerbsExchange_proofs** - the theorems.

Sockets:

* **SocketTransports** - listen, connect with its bounded retries, accept and the
  read and write loops of `util/socket` over a kernel that moves any number of
  bytes a call, for TCP and domain sockets; the poll loop of
  `MulticlientTCPTransport`; and the exchanges of `apps/PingPong.h` and
  `many2OneBench` with their comparisons. `chan` holds the bytes under way. The
  history variable `short` records that the multi-client server has taken a part
  of a message for a message. A client that gives up connecting, or throws, ends
  its process, and the model stops there (`Failed`).
* **SocketTransports_proofs** - the theorems and the inductive invariant.

**MC...** modules name what TLC runs; the .cfg files hold the values. Operators
named `Definition_Something` are mutants: plausible slips of the code in that
place, kept to show that each property would notice one.

## Runs

| Run | What it shows |
|---|---|
| `shm_ring` | With at most a buffer of bytes unread, for any initial `cachedRemoteRead`: unread bytes stay intact, receives hand out the stream in order, the ring implements ByteStream, sends return, receiveSome returns once a byte is there. |
| `shm_ring_streaming` (violation) | A sender that does not wait overwrites unread bytes: the early return of `waitUntilSendFree` is inverted. |
| `ping_pong` | With messages up to the buffer size every `ping()` returns with the right echo, nothing is left over between pings, and every call meets the assumption of `shm_ring` and of the theorems. A message of two chunks is streamed into the ring, which does not keep the chunks apart: there `ping()` returns or throws, and the run shows only that nobody waits for ever. |
| `rdma_ring` | All three senders, inline and fetched data, wraparound, too long and rejected messages: only whole messages are accepted, free ring memory is zero, the sender's position is never ahead. `sendParanoid` is safe with words placed in any order, the others with front-to-back placement. |
| `rdma_ring_streaming` | A ring filled by inline messages without pause: sends return, messages are consumed, and stale completion events never let more than two signaling windows pile up (the bound is tight). |
| `rdma_ring_overwrite` (violation) | Streamed messages above the inline limit, of the size of `RdmaTransport`'s chunks too: `sendBuf` is overwritten before the adapter has fetched it. |
| `multiclient` | One to three clients of two threads over each transport, requests starting while others are still being accepted: each request is taken once and whole, each client accepts only the answer to its own latest request, a receive request is always pending; also with requests and answers that are refused, and with requests lost to a pair that is not connected yet. Every request that fits is answered, except in threads that have lost one. |
| `shared_buffer` (violation) | Answers of 512 bytes or more share one buffer: a client can receive another's answer. |
| `torn` (violation) | The validity byte is never cleared: a half placed answer can be accepted. |
| `distinct_reset` (violation) | `*sizePtr = 0` clears one byte: a request of 256 bytes or more is taken twice. |
| `verbs_exchange` | Nineteen programs: each echo is the message of this round, whole; nothing still being placed touches a message while it is read; no send is swallowed, no completion is taken for another; each poll function finds a client that has written; every exchange ends unless a request, a datagram or the attempt to connect was lost. |
| `socket_transports` | TCP and domain sockets that buffer less than a message: each read returns the message that was written for it and every exchange ends, unless the client has used up its attempts to connect. The multi-client TCP server: the same, until `recv` returns a part of a message. |

The five violations are the findings of `PROJECT.json`, and the passing runs
beside them say under which conditions the same code is safe:

* `shm_ring` and `rdma_ring` assume callers that keep at most a buffer unread
  (`MaxUnread`); `rdma_ring_streaming` drops that assumption for inline messages.
* `multiclient` assumes that answers that are not inline occur with one client
  only (`LargeAlone`), that a client sees an answer all at once (`Torn = FALSE`),
  that the distinct-region server sees a request all at once (`TornRequests =
  FALSE`) and that sizes fit the byte that is reset (`Byte`). Doorbells and
  receive completions need no such assumption for requests, because they follow
  the data.
* A request that reaches a queue pair that is not connected yet is lost, and with
  it everything after it on that pair: `RcQueuePair::connect` sets timeout 0, with
  which a packet is never sent again, and retry count 0. The server connects after
  its last message to the client, so this can happen; the comment in
  `multiclientRecvVsPoll.cpp:65` hopes to avoid it, but only the clients wait for
  each other. `multiclient` and `verbs_exchange` include the loss: the safety
  properties hold with it, `RequestsAnswered` and `ExchangeEnds` except it.
* `RequestsAnswered` is about clients with a fixed number of requests, as in the
  benchmark. `pollSSE` always takes the highest doorbell of the first vector that
  has one, and the scan of the slots starts at the first: a client that keeps
  sending can starve another, and nothing in the code bounds how long.
* `verbs_exchange` places writes in any order, except for the programs in
  `Ordered`, which poll the first and last byte of one write and need
  front-to-back placement. `runParanoidWriteMemPolling` does not: it writes the
  first byte last.
* `socket_transports` lets the kernel split and join what is written, on every
  transport. The multi-client TCP server ignores how much `recv` returned. It is
  right only while messages arrive whole, and its properties are stated so
  (`short`).

### Bounds

Buffers of 4 bytes (shared memory) and 8 or 16 words (RDMA), with lengths from
the smallest to the whole buffer, wrap around at least twice within the bound on
bytes or messages (`MaxBytes`, `MaxSends`, `Rounds`, `MaxRequests`). `Word` is
16, larger than every difference of valid counters, with garbage values on both
sides of the wrap. Signaling windows are 2 to 4 instead of 4096 and 1024, so
that several pass in a run; `rdma_ring_streaming`'s ring holds two of them,
without which the bound on the send queue is not reached. Doorbell vectors hold
2 instead of 16, so that three clients take two of them. Two requests a client
let a second one meet what the first left. `verbs_exchange` has three rounds
(what is left from a round can show in the next, and so can what that one
leaves), three bytes a message (a first, a last, one between), positions that
overlap, and the poll functions at the vector widths of the code;
`MaxTries` is 1 instead of 10 there and in `socket_transports`: attempts fail,
succeed late, and run out. `socket_transports` sends 3 bytes through sockets that
buffer 2 (`SmallCapacity`), so that writers block in the middle of a message; the
two clients of the multi-client server have sockets that hold all 3
(`WholeCapacity`), so that whole and partial messages arrive. `MaxRequest` bounds
a request by what can be posted inline, `MaxMessage` an answer by the server's
`MAX_MESSAGESIZE`.

Deadlock is checked in `verbs_exchange`, where only a finished or failed program
may stop. Elsewhere applications may stop calling, and a receiver whose peer is
done waits for ever; that nobody waits in vain is stated as liveness.

### Fairness

Weak fairness of each thread's steps (all waits are busy loops, or calls that
the kernel ends when they can) and of the adapters (a reliable connection carries
out what is posted). No fairness is assumed of applications starting a send;
`rdma_ring_streaming` assumes that the receiving application keeps calling
`receive`, the other exchanges that both programs keep running. Nothing is
assumed of datagrams, or of requests that meet an unconnected queue pair: the
adapter may drop them and need not. `ExchangeEnds` excuses an exchange that has lost
one, and a client that has given up connecting; `ExchangesEnd` excuses the latter,
and a multi-client server that has taken a part for a message. `RequestsAnswered` is
about requests that fit the buffers and whose answers fit a message, the code
answers no other, and about threads none of whose clients lost a request.

## Theorems

`VirtualRingBuffer_proofs` proves, for every buffer size, word size, bound,
length set, initial garbage and both directions at once:

* `TypeCorrect`: `Spec => []TypeOK`. TypeOK alone is not inductive: that the
  counters stay in range needs that a receive in progress waited for bytes that
  are there. `CallInv` says per step what the call has established, and that the
  reader never passes the writer.
* `UnreadBytesSafe`: if `MaxUnread <= Size`, `Spec => []UnreadBytesIntact`.
* `StreamInOrder`: if `MaxUnread <= Size`, `Spec => []ReceivesStreamInOrder`.
* `RingImplementsStreams`: if `MaxUnread <= Size`, `Spec => ImplementsStreams`.

These rest on `ContentInv`: between the reader's position and the writer's, the
bytes of a send in progress included, every cell holds its byte. The copy of a
byte preserves it because two positions less than `Size` apart have different
slots (`ModInjective`). For the refinement, what is undelivered is the segment of
the stream between the two positions (`UndeliveredIsStream`), of which `CopyIn`
appends one byte and `CopyOut` takes the first; all other steps stutter. The
assumptions are the ones named in VirtualRingBuffer: sizes are positive, at most
`MaxBytes < Word` bytes are sent so that counters do not wrap, lengths are
between 1 and `Size`. The assumption `MaxUnread <= Size` is about callers, and is
what run `shm_ring_streaming` shows to be necessary.

`PingPong_proofs` discharges it for the program that uses the ring:

* `QuietBetween`: `AppSpec => []QuietBetweenPings`. The invariant `AppInv` relates
  the progress of the two loops to the counters of the ring.
* `RespectsBufferSize`: `AppSpec => RespectsBuffer`, every step of PingPong is one
  of a caller with at most `Size` unread bytes, if no message is longer than that.
* `EchoesIntact`: `AppSpec => []EchoesMatch`, `ping()` does not throw for a message
  that fits the buffer. `intact` stays true because every copied byte is delivered
  in order (`StreamInOrder`'s invariant, with the bound from `RespectsBufferSize`).
* `PingPongStreams`: hence PingPong's bytes are never overwritten, arrive in order
  and implement the two streams, with no assumption on callers left.

`MulticlientRecvVsPoll_proofs` proves, for every number of clients, threads,
requests, doorbells and every set of sizes, and for the three transports at once:

* `EchoTypeCorrect`: `Spec => []TypeInvariant`.
* `TakenOnce`: `Spec => []RequestsTakenOnce`.
* `AlwaysRecvsReady`: `Spec => []RecvsReady`.
* `AnswersMatch`: `Spec => []AnswersMatchRequests`.

All four assume `DirectSafe`: where the transport with distinct regions is tried,
requests are placed whole and their sizes are below `Byte`. Run `distinct_reset`
shows what happens otherwise. `AnswersMatch` also assumes `AnswerSafe`, the two
conditions that runs `torn` and `shared_buffer` show to be necessary. The inductive
invariant is `EchoInv`: a request is in one place at a time, with the client's
adapter, announced, or held by the server (`RequestInv`); a client has at most one
unread answer, and none while its request is pending (`AnswerInv`); the queue of
completions names each client at most once and together with the shared receive
queue has one entry per accepted connection (`RecvInv`, from which `RecvsReady`
follows by counting: `Leftover`). `AnswersInv` adds what the answer holds
(`MatchInv`). The one argument that is more than a case split is the end of the
doorbell scan, `NextVector`: stepping by `Group` modulo a multiple of `Group` stays
on vectors.

`VirtualRDMARingBuffer_proofs` proves, for every ring size, inline limit, signaling
window and set of lengths, and for `send` and `sendParanoid` at once:

* `RingInvariant`: `Spec => []RingInv`, the inductive invariant.
* `AcceptsWhole`: `Spec => []AcceptsWholeMessages`.
* `FreeRing`: `Spec => []FreeRingIsZero`.
* `ReadPosLowerBound`: `Spec => []ReadPosIsLowerBound`.

They assume `RingSafe`: `send` runs on an adapter that places the words of a write
front to back (`sendParanoid` may run on any), and either all messages are inline
or at most a ring of words is unread, which run `rdma_ring_overwrite` shows to be
necessary. The argument follows the words. Every position of the window of `Size`
words from the reader's position on is unposted or posted and not placed, and
then its cell is zero (`FreeInv`), or it is placed and its cell holds what its
request carries (`PlacedInv`). Requests are parts of messages in the order in which
they were sent (`KindInv`, `OrderInv`), and what they carry is `Sound`: if the last
word is the validity word then every word is right. The condition is needed because
a send that is refused as too large (VirtualRDMARingBuffer.h:49) has by then
overwritten words that the adapter may not have fetched; it overwrites the validity
word of every message it damages, so that such a message is never accepted.
`SeenInv` says what the receiver can see of a message at any time: no validity word
too early, a size word that is zero or right, and a validity word together with a
size word only when all of the payload is there. `PlaceSeen` shows that no placement
breaks it, by front-to-back order for `send` and by the order of the two requests
for `sendParanoid`. After a message is accepted nothing may be written to it
(`LeftInv`): the exception is the size word of an empty message, a zero, which can
arrive after the message was accepted on its validity word alone and does no harm
(`PlaceLate`).

`RDMAMessageBuffer_proofs` is about the specification that runs `rdma_ring` and
`rdma_ring_streaming` check, with the older class beside the two senders above:

* `SendQueue`: `MessageSpec => []SendQueueBounded`, for any caller and any order of
  placement.
* `OlderClassSafe`: the three invariants above hold of RDMAMessageBuffer.
* `ThreeClassesSafe`: they hold of `MessageSpec`, whichever class is used.
* `RingTypes`: `MessageSpec => []TypeOK`.
* `RingInMessageBuffer`: without the older class, `MessageSpec => Spec`.

`SendQueue` needs to know which completions are still to come. `QueueInv` says: at
most two signaled requests or completions are under way; what they will give back,
with the requests posted since the last signaled one, accounts for every slot of
the send queue in use; those since the last one are fewer than a window's worth; a
sender that waits has something to wait for; the completion of a READ is the last
one; and the queue is armed or its event is on the channel, except between the two
calls that take the event and arm it again (`EventInv`). An event that is left from
a completion that was polled makes `waitForCompletion` return at once, but only one
event can be left, so that a sender falls behind by one window and no more.

`OlderClassSafe` assumes only `SliceSafe`, that words of a write are placed front
to back. It asks nothing of the caller, because this `send` waits before it copies
each part: a part is copied only to cells that the receiver has given back. The
invariant `OlderRingInv` is simpler than the one above for that reason. There is a
frontier, the first position at which no word was placed yet. Below it, as far as
the receiver has not wiped, every cell holds its word; above it every cell is zero;
the writes not yet carried out follow each other from the frontier on, with the
second slice starting where the first ends; and `sendBuf` holds the words of
everything posted and not fetched. The receiver finds a size word or a validity word
of the message only below the frontier, hence a validity word only with all of the
message before it.

`RingTypes` adds `BoundsInv`: words are passed on and never made up, and no position
exceeds a ring for each message that was counted. The older class counts writes and
not messages, so the last message may be counted twice.

`SocketTransports_proofs` proves, for every number of clients, message size,
capacity and bound on attempts to connect:

* `WholeReads`: `Spec => []ReadsWholeMessages`.
* `SocketTypes`: `Spec => []TypeOK`.

Neither has an assumption. `SocketInv` has two parts. `TypeInv` holds always, also
of a multi-client server that has lost the boundaries of its messages. `Exchanges`
holds as long as no part was taken for a message (`short`), which only
`MulticlientTCPTransport::receive` can do, as it drops the count that `recv`
returns. It says that the exchange of a client is in one of four phases: its message
is on the way up, the server is writing the answer, the answer is on the way down,
or it has arrived. In each, a channel carries exactly the part of the message
between what one side has written and what the other has read (`Flow`), and what was
read is a prefix of the message.

`PollFunctions_proofs` proves `PollFunctionsFind`: each of the seven poll functions,
at the lane widths and mask sizes of the code, returns an armed slot, and one of the
first vector that has any, for every non-empty set of armed slots. The code's own
`test()`, and TLC, try a few. The reason is that a bit of the compare mask is set
exactly if its lane is armed (`MaskBits`), so that the highest set bit is the last
one of an armed lane and the division by the bits per lane is exact.
`VerbsExchange_proofs` concludes `PollFinds`: `Spec => []PollFindsArmedSlot`.

Model-checked only: liveness and everything else about fairness (outside the
prover's reach), and of VerbsExchange `TypeOK`, `EchoIsCurrent`,
`MessageStableWhileRead` and `NothingSwallowedOrThrown`. These depend on each of the
nineteen programs of BenchPrograms: an inductive invariant says for every call of a
program what has been posted, placed and cleared by then, and differs from program
to program.

## Not modelled

* Failing completions and broken connections: every one is an exception that
  ends the program; requests above the client's inline limit fail when posted.
  Peers that hang up, a client's process that ends with an exception included:
  `tcp::read` then loops for ever and the multi-client TCP server keeps returning
  the closed client (see the hazards).
* The chunk loops of `RdmaTransport`: each chunk is a `send` or `receive` of the
  ring, and chunks in a row are what `rdma_ring_overwrite` shows to go wrong; the
  source marks the client's loop as not working (`RdmaTransport.h:148`).
* Starvation of a client by others that never stop sending (see `RequestsAnswered`).
* Retransmission: the code switches it off, and the network between connected
  pairs is taken to lose nothing.
* Payload that contains the validity word or byte.
* Counter overflow after 2^64 bytes.
* `readSome` and `reset` of the socket and RDMA transports, `hasData`, unreliable
  connections (UC), which no program runs.
* Device discovery, memory registration, virtual memory helpers, librdmacm:
  calls into libraries without a protocol of their own.
* KVStore: a map behind one read and at most one write per request.
* The bandwidth, zero-copy, YCSB and slow-sender benchmarks, which time the same
  calls, and the timing and workload utilities.
* Several phases of a benchmark in a row: each starts with new sockets, queue
  pairs and buffers, except that a client may still reach the listening socket
  of the phase before.

## Plan

1. *Done:* the shared memory ring with its caller and its theorems, both RDMA
   rings, the three multi-client RDMA transports from accept on, the verbs
   programs of the benchmarks, the socket transports.
2. *Done:* theorems about the shared memory ring and its refinement, PingPong, the
   multi-client transports, the three senders of the RDMA rings and their send
   queue, the socket transports, and the poll functions.
3. Left: the invariants of the verbs programs, one program at a time; peers that
   hang up; `readSome` and `reset` of the socket and RDMA transports; the chunk loops
   of `RdmaTransport`, once its read works.
