------------------------ MODULE VirtualRDMARingBuffer ------------------------
(***************************************************************************)
(* datastructures/VirtualRDMARingBuffer, one direction: a sender that      *)
(* builds messages in its sendBuf and posts RDMA writes of them, the       *)
(* adapter that carries them out, and a receiver that finds them in its    *)
(* receiveBuf by polling memory. A message is a size word, the payload and *)
(* a validity word; a buffer cell of the model is one such word.           *)
(*                                                                         *)
(* The receiver zeroes what it has read and publishes its position in      *)
(* localReadPos, which the sender fetches with an RDMA READ when its       *)
(* copy says the ring is full. The opposite direction uses memory of its   *)
(* own and works the same way.                                             *)
(*                                                                         *)
(* Payload words are named by their position in the stream of all words    *)
(* sent; they differ from the validity word (payload data that contains    *)
(* 0xDEADDEADBEEFBEEF is outside the model).                               *)
(***************************************************************************)
EXTENDS Integers, Sequences, CompletionQueuePair

CONSTANTS
    Size,           \* words of each buffer
    MaxInline,      \* maxInlineSize, in words
    Window,         \* 4 * 1024: every Window-th message is signaled
    PayloadLens,    \* payload lengths the application sends
    RecvSizes,      \* maxSize values the application receives with
    Variants,       \* ways to send that are tried; "RDMAMessageBuffer" is another class
    AnyOrder,       \* those that run on an adapter that places words in any order
    MaxUnread,      \* caller assumption, as in VirtualRingBuffer
    MaxSends        \* bound: messages sent in a run

ASSUME SizeAssumption == Size \in Nat /\ Size >= 2
ASSUME WindowAssumption == Window \in Nat \ {0}
ASSUME LensAssumption == PayloadLens \subseteq Nat /\ RecvSizes \subseteq 0..Size - 2
ASSUME VariantsAssumption ==
    /\ Variants \subseteq {"send", "sendParanoid", "RDMAMessageBuffer"}
    /\ AnyOrder \subseteq Variants
ASSUME BoundsAssumption == MaxInline \in Nat /\ MaxUnread \in Nat /\ MaxSends \in Nat

VARIABLES
    \* sender
    sendPos, messageCounter, remoteReadPos, sendBuf,
    spc,            \* where the sender's thread is
    sending,        \* payload length of the send call in progress
    variant,        \* how this sender sends
    \* adapter
    sq,             \* the posted work requests, oldest first
    placed,         \* offsets of the oldest write that are in remote memory
    cq,             \* the sender's send completion queue
    used,           \* slots of the send queue in use
    unsignaled,     \* those posted after the last signaled request
    \* receiver
    localReadPos, receiveBuf,
    rpc, receiveSize, maxSize,
    \* history: the messages sent and not yet consumed, [at, len] the stream
    \* position and the payload length
    outbox

senderVars == <<sendPos, messageCounter, remoteReadPos, sendBuf, spc, sending, variant>>
adapterVars == <<sq, placed, cq, used, unsignaled>>
receiverVars == <<localReadPos, receiveBuf, rpc, receiveSize, maxSize>>
vars == <<senderVars, adapterVars, receiverVars, outbox>>

Cells == 0..Size - 1
Slot(p) == p % Size

\* Words. The size word of an empty message is a zero word.
Zero == <<"zero", 0>>
SizeWord(n) == IF n = 0 THEN Zero ELSE <<"size", n>>
Payload(p) == <<"payload", p>>
Validity == <<"validity", 0>>
AsSize(w) == IF w[1] = "size" THEN w[2] ELSE 0

\* sizeof(size) + dataSize + sizeof(validity)
Total(n) == n + 2

ReadId == 42
WriteId == 0

Init ==
    /\ sendPos = 0 /\ messageCounter = 0 /\ remoteReadPos = 0
    /\ sendBuf = [c \in Cells |-> Zero]
    /\ spc = "idle" /\ sending = 0 /\ variant \in Variants
    /\ sq = <<>> /\ placed = {} /\ cq = NewQueue /\ used = 0 /\ unsignaled = 0
    /\ localReadPos = 0
    /\ receiveBuf = [c \in Cells |-> Zero]
    /\ rpc = "idle" /\ receiveSize = 0 /\ maxSize = 0
    /\ outbox = <<>>
-----------------------------------------------------------------------------
(* The sender                                                               *)

\* The words of a message of n payload words at stream position p.
MessageWord(p, n, i) ==
    CASE i = 0     -> SizeWord(n)
      [] i = n + 1 -> Validity
      [] OTHER     -> Payload(p + i)

\* A buffer with words (a function on offsets) written at position from on.
Overlay(buf, from, words) ==
    [c \in Cells |-> IF \E i \in DOMAIN words : Slot(from + i) = c
                     THEN words[CHOOSE i \in DOMAIN words : Slot(from + i) = c]
                     ELSE buf[c]]

\* Mutant: a message larger than the buffer is not refused.
FillSendBuf_AnySize(n) ==
    /\ spc = "idle" /\ messageCounter < MaxSends
    /\ sendBuf' = Overlay(sendBuf, sendPos, [i \in 0..Total(n) - 1 |-> MessageWord(sendPos, n, i)])
    /\ sending' = n
    /\ spc' = "waitFree"
    /\ UNCHANGED <<sendPos, messageCounter, remoteReadPos, variant, adapterVars, receiverVars, outbox>>

\* send: doWork fills sendBuf, then size and validity words are added. None of
\* it waits for space, nor for the adapter to have read the previous contents.
FillSendBuf(n) ==
    /\ spc = "idle" /\ messageCounter < MaxSends
    /\ sendPos - localReadPos + Total(n) <= MaxUnread
    /\ Total(n) <= Size
    /\ sendBuf' = Overlay(sendBuf, sendPos, [i \in 0..Total(n) - 1 |-> MessageWord(sendPos, n, i)])
    /\ sending' = n
    /\ spc' = "waitFree"
    /\ UNCHANGED <<sendPos, messageCounter, remoteReadPos, variant, adapterVars, receiverVars, outbox>>

\* "data > buffersize!": thrown after doWork has written its data.
FillTooLarge(n) ==
    /\ spc = "idle" /\ messageCounter < MaxSends
    /\ Total(n) > Size /\ n < Size
    /\ sendBuf' = Overlay(sendBuf, sendPos + 1, [i \in 0..n - 1 |-> Payload(sendPos + 1 + i)])
    /\ UNCHANGED <<sendPos, messageCounter, remoteReadPos, spc, sending, variant, adapterVars,
                   receiverVars, outbox>>

SafeToWrite == Size - (sendPos - remoteReadPos)

\* The message being sent. Requests carry it as history.
ThisMessage == [at |-> sendPos, len |-> sending]

\* Post a READ of the peer's position.
SubmitRead ==
    /\ sq' = Append(sq, [op |-> "read", from |-> 0, len |-> 0, signaled |-> TRUE,
                         words |-> <<>>, frees |-> unsignaled + 1, of |-> ThisMessage])
    /\ used' = used + 1 /\ unsignaled' = 0
    /\ spc' = "pollRead"
    /\ UNCHANGED <<sendPos, messageCounter, remoteReadPos, sendBuf, sending, variant, placed, cq,
                   receiverVars, outbox>>

\* waitUntilSendFree, not enough space.
PostRead == spc = "waitFree" /\ Total(sending) > SafeToWrite /\ SubmitRead

\* pollSendCompletionQueue in the loop that waits for the READ: completions of
\* earlier writes are polled and dropped.
PollRead ==
    /\ spc = "pollRead" /\ HasCompletion(cq)
    /\ cq' = Polled(cq)
    /\ used' = used - NextCompletion(cq).frees
    /\ spc' = IF NextCompletion(cq).id = ReadId THEN "waitFree" ELSE "pollRead"
    /\ UNCHANGED <<sendPos, messageCounter, remoteReadPos, sendBuf, sending, variant, sq, placed,
                   unsignaled, receiverVars, outbox>>

\* Mutant: only the first message is signaled.
ShouldClearQueue_FirstOnly == messageCounter = 0

ShouldClearQueue == messageCounter % Window = 0

\* A write of n words of sendBuf at stream position from. Inline data is copied
\* when the request is posted, other data when the adapter gets to it.
Captured(from, n) == [i \in 1..n |-> sendBuf[Slot(from + i - 1)]]
WriteRequest(from, n, signaled, inline, frees) ==
    [op |-> "write", from |-> from, len |-> n, signaled |-> signaled, frees |-> frees,
     words |-> IF inline THEN Captured(from, n) ELSE <<>>, of |-> ThisMessage]

\* Mutant: size and payload posted the other way round.
MessageRequests_SizeFirst ==
    LET n == Total(sending)
    IN << WriteRequest(sendPos, 1, FALSE, TRUE, 0),
          WriteRequest(sendPos + 1, n - 1, ShouldClearQueue, n - 1 <= MaxInline, unsignaled + 2) >>

MessageRequests ==
    LET n == Total(sending)
    IN IF variant = "send"
       THEN << WriteRequest(sendPos, n, ShouldClearQueue, n <= MaxInline, unsignaled + 1) >>
       ELSE \* significant order: size is only visible after data
            << WriteRequest(sendPos + 1, n - 1, FALSE, n - 1 <= MaxInline, 0),
               WriteRequest(sendPos, 1, ShouldClearQueue, TRUE, unsignaled + 2) >>

SendDone ==
    /\ messageCounter' = messageCounter + 1
    /\ sendPos' = sendPos + Total(sending)
    /\ sending' = 0
    /\ spc' = "idle"

\* There is space: post the message, and wait if it is a signaled one.
PostMessage ==
    /\ spc = "waitFree" /\ Total(sending) <= SafeToWrite
    /\ sq' = sq \o MessageRequests
    /\ used' = used + Len(MessageRequests)
    /\ unsignaled' = IF ShouldClearQueue THEN 0 ELSE unsignaled + Len(MessageRequests)
    /\ outbox' = Append(outbox, ThisMessage)
    /\ IF ShouldClearQueue
       THEN spc' = "getEvent" /\ UNCHANGED <<messageCounter, sendPos, sending>>
       ELSE SendDone
    /\ UNCHANGED <<remoteReadPos, sendBuf, variant, placed, cq, receiverVars>>

\* waitForCompletion: take an event, of whichever completion raised it ...
GetEvent ==
    /\ spc = "getEvent" /\ HasEvent(cq)
    /\ cq' = EventTaken(cq)
    /\ spc' = "requestNotify"
    /\ UNCHANGED <<sendPos, messageCounter, remoteReadPos, sendBuf, sending, variant, sq, placed,
                   used, unsignaled, receiverVars, outbox>>

\* Mutant: the queue is not re-armed.
RequestNotify_Missing ==
    /\ spc = "requestNotify" /\ spc' = "drain"
    /\ UNCHANGED <<sendPos, messageCounter, remoteReadPos, sendBuf, sending, variant, adapterVars,
                   receiverVars, outbox>>

\* ... re-arm ...
RequestNotify ==
    /\ spc = "requestNotify"
    /\ cq' = NotifyRequested(cq)
    /\ spc' = "drain"
    /\ UNCHANGED <<sendPos, messageCounter, remoteReadPos, sendBuf, sending, variant, sq, placed,
                   used, unsignaled, receiverVars, outbox>>

\* ... and poll until the queue is empty; then the caller goes on.
DrainThen(done) ==
    /\ spc = "drain"
    /\ IF HasCompletion(cq)
       THEN /\ cq' = Polled(cq)
            /\ used' = used - NextCompletion(cq).frees
            /\ UNCHANGED <<sendPos, messageCounter, sending, spc>>
       ELSE done /\ UNCHANGED <<cq, used>>
    /\ UNCHANGED <<remoteReadPos, sendBuf, variant, sq, placed, unsignaled, receiverVars, outbox>>
Drain == DrainThen(SendDone)
-----------------------------------------------------------------------------
(* The adapter: carries out the oldest request, in order, reliably          *)

Oldest == Head(sq)

\* It reads the data of a write that was not inline from sendBuf: at the
\* latest now, when the request is next.
Fetch ==
    /\ sq # <<>> /\ Oldest.op = "write" /\ Oldest.words = <<>>
    /\ sq' = [sq EXCEPT ![1].words = Captured(Oldest.from, Oldest.len)]
    /\ UNCHANGED <<senderVars, placed, cq, used, unsignaled, receiverVars, outbox>>

\* One more word reaches the receiver's memory.
Place(i) ==
    /\ sq # <<>> /\ Oldest.op = "write" /\ Oldest.words # <<>>
    /\ i \in (0..Oldest.len - 1) \ placed
    /\ variant \notin AnyOrder => \A j \in 0..i - 1 : j \in placed
    /\ receiveBuf' = [receiveBuf EXCEPT ![Slot(Oldest.from + i)] = Oldest.words[i + 1]]
    /\ placed' = placed \cup {i}
    /\ UNCHANGED <<senderVars, sq, cq, used, unsignaled, localReadPos, rpc, receiveSize,
                   maxSize, outbox>>

\* The receiving adapter reads localReadPos for a READ.
SampleReadPos ==
    /\ sq # <<>> /\ Oldest.op = "read" /\ Oldest.words = <<>>
    /\ sq' = [sq EXCEPT ![1].words = <<localReadPos>>]
    /\ UNCHANGED <<senderVars, placed, cq, used, unsignaled, receiverVars, outbox>>

\* The oldest request is acknowledged; a READ's answer is stored first.
Acknowledge ==
    /\ sq # <<>> /\ Oldest.words # <<>>
    /\ Oldest.op = "write" => placed = 0..Oldest.len - 1
    /\ remoteReadPos' = IF Oldest.op = "read" THEN Oldest.words[1] ELSE remoteReadPos
    /\ cq' = IF Oldest.signaled
             THEN Completed(cq, IF Oldest.op = "read" THEN ReadId ELSE WriteId, Oldest.frees)
             ELSE cq
    /\ sq' = Tail(sq)
    /\ placed' = {}
    /\ UNCHANGED <<sendPos, messageCounter, sendBuf, spc, sending, variant, used, unsignaled,
                   receiverVars, outbox>>
-----------------------------------------------------------------------------
(* The receiver                                                             *)

\* receive(whereTo, maxSize); larger values of maxSize throw at once.
BeginReceive(n) ==
    /\ rpc = "idle"
    /\ maxSize' = n
    /\ rpc' = "pollSize"
    /\ UNCHANGED <<senderVars, adapterVars, localReadPos, receiveBuf, receiveSize, outbox>>

\* The poll loop reads the size word ...
PollSize ==
    /\ rpc = "pollSize"
    /\ receiveSize' = AsSize(receiveBuf[Slot(localReadPos)])
    /\ rpc' = "pollValidity"
    /\ UNCHANGED <<senderVars, adapterVars, localReadPos, receiveBuf, maxSize, outbox>>

\* Mutants: a size word is enough; the size word is not counted in the offset.
PollValidity_SizeOnly ==
    /\ rpc = "pollValidity"
    /\ rpc' = IF receiveSize # 0 THEN "callback" ELSE "pollSize"
    /\ UNCHANGED <<senderVars, adapterVars, localReadPos, receiveBuf, receiveSize, maxSize,
                   outbox>>
PollValidity_ShortOffset ==
    /\ rpc = "pollValidity"
    /\ rpc' = IF receiveBuf[Slot(localReadPos + receiveSize)] = Validity
              THEN "callback" ELSE "pollSize"
    /\ UNCHANGED <<senderVars, adapterVars, localReadPos, receiveBuf, receiveSize, maxSize,
                   outbox>>

\* ... and then the word where that size puts the validity word.
PollValidity ==
    /\ rpc = "pollValidity"
    /\ rpc' = IF receiveBuf[Slot(localReadPos + 1 + receiveSize)] = Validity
              THEN "callback" ELSE "pollSize"
    /\ UNCHANGED <<senderVars, adapterVars, localReadPos, receiveBuf, receiveSize, maxSize,
                   outbox>>

\* The callback throws on a message longer than maxSize: it is not consumed.
CallbackThrows ==
    /\ rpc = "callback" /\ receiveSize > maxSize
    /\ rpc' = "idle" /\ receiveSize' = 0 /\ maxSize' = 0
    /\ UNCHANGED <<senderVars, adapterVars, localReadPos, receiveBuf, outbox>>

\* Mutant: the validity word is left standing.
Wipe_Short ==
    /\ rpc = "callback" /\ receiveSize <= maxSize
    /\ receiveBuf' = Overlay(receiveBuf, localReadPos, [i \in 0..receiveSize + 1 - 1 |-> Zero])
    /\ rpc' = "publish"
    /\ UNCHANGED <<senderVars, adapterVars, localReadPos, receiveSize, maxSize, outbox>>

\* The callback has copied the payload; the message is wiped from the ring ...
Wipe ==
    /\ rpc = "callback" /\ receiveSize <= maxSize
    /\ receiveBuf' = Overlay(receiveBuf, localReadPos, [i \in 0..Total(receiveSize) - 1 |-> Zero])
    /\ rpc' = "publish"
    /\ UNCHANGED <<senderVars, adapterVars, localReadPos, receiveSize, maxSize, outbox>>

\* Mutant: gives back one word too many.
Publish_TooFar ==
    /\ rpc = "publish"
    /\ localReadPos' = localReadPos + Total(receiveSize) + 1
    /\ outbox' = Tail(outbox)
    /\ rpc' = "idle" /\ receiveSize' = 0 /\ maxSize' = 0
    /\ UNCHANGED <<senderVars, adapterVars, receiveBuf>>

\* ... and only then is its space given back: localReadPos.store(release).
Publish ==
    /\ rpc = "publish"
    /\ localReadPos' = localReadPos + Total(receiveSize)
    /\ outbox' = Tail(outbox)
    /\ rpc' = "idle" /\ receiveSize' = 0 /\ maxSize' = 0
    /\ UNCHANGED <<senderVars, adapterVars, receiveBuf>>
-----------------------------------------------------------------------------
BeginSend == \E n \in PayloadLens : FillSendBuf(n) \/ FillTooLarge(n)
Sender == PostRead \/ PollRead \/ PostMessage \/ GetEvent \/ RequestNotify \/ Drain
Adapter == Fetch \/ SampleReadPos \/ Acknowledge \/ \E i \in Cells : Place(i)
StartReceive == \E n \in RecvSizes : BeginReceive(n)
Receiver == PollSize \/ PollValidity \/ CallbackThrows \/ Wipe \/ Publish

Next == BeginSend \/ Sender \/ Adapter \/ StartReceive \/ Receiver

Spec == Init /\ [][Next]_vars

\* Threads run on, the adapter carries out what was posted, and the receiving
\* application comes back for more.
FairSpec ==
    Spec /\ WF_vars(Sender) /\ WF_vars(Adapter) /\ WF_vars(Receiver) /\ WF_vars(StartReceive)
-----------------------------------------------------------------------------
(* Properties                                                               *)

Words == {Zero, Validity} \cup {SizeWord(n) : n \in 0..Size} \cup {Payload(p) : p \in 0..(MaxSends + 1) * Size}

\* The shape of the state.
TypeOK ==
    /\ sendPos \in Nat /\ messageCounter \in 0..MaxSends + 1
    /\ remoteReadPos \in Nat /\ localReadPos \in Nat
    /\ sendBuf \in [Cells -> Words] /\ receiveBuf \in [Cells -> Words]
    /\ spc \in {"idle", "waitFree", "pollRead", "postSlice", "getEvent", "requestNotify", "drain"}
    /\ sending \in 0..Size - 2 /\ variant \in Variants
    /\ placed \subseteq Cells
    /\ cq.armed \in BOOLEAN /\ cq.events \in 0..1
    /\ used \in Nat /\ unsignaled \in 0..used
    /\ rpc \in {"idle", "pollSize", "pollValidity", "callback", "publish"}
    /\ receiveSize \in 0..Size - 2 /\ maxSize \in RecvSizes \cup {0}
    /\ outbox \in Seq([at : Nat, len : 0..Size - 2])

\* A message the receiver accepts is the oldest one sent, complete and
\* unchanged, and stays so while the callback looks at it: neither a partly
\* written message nor leftovers of an earlier one pass the validity check.
AcceptsWholeMessages ==
    rpc = "callback" =>
        /\ outbox # <<>>
        /\ receiveSize = Head(outbox).len
        /\ \A i \in 1..receiveSize :
              receiveBuf[Slot(localReadPos + i)] = Payload(localReadPos + i)

\* Where posted messages end, the one being waited for included.
PostedEnd == sendPos +
    (IF spc \in {"postSlice", "getEvent", "requestNotify", "drain"} THEN Total(sending) ELSE 0)

\* Ring memory that holds no posted message is zero, and the posted ones fit
\* the ring: a poll at the next message's place finds no stale words there.
FreeRingIsZero ==
    /\ PostedEnd - localReadPos <= Size
    /\ \A p \in PostedEnd..localReadPos + Size - 1 : receiveBuf[Slot(p)] = Zero

\* The sender's view of the receiver's position is old but never ahead.
ReadPosIsLowerBound == remoteReadPos <= localReadPos /\ localReadPos <= PostedEnd

\* Slots of the send queue are freed only when a completion is polled. Events
\* that a READ's completion left on the channel let waitForCompletion return
\* before its own write is done, yet the requests never pile up beyond those of
\* two signaling windows (maxOutstandingSendWrs is 33 short of four).
RequestsPerMessage == IF "sendParanoid" \in Variants THEN 2 ELSE 1
SendQueueBounded == used <= 2 * Window * RequestsPerMessage

\* Every send returns, as long as the receiver keeps receiving: neither the
\* wait for space nor the wait for a completion event is missed for ever.
SendReturns == (spc # "idle") ~> (spc = "idle")

\* Every message that was posted is consumed.
MessagesConsumed == \A k \in 1..MaxSends : (Len(outbox) >= k) ~> (Len(outbox) < k)
=============================================================================
