----------------------- MODULE RDMAMessageBuffer_proofs -----------------------
(***************************************************************************)
(* Three classes of senders and one adapter and receiver: what is proved   *)
(* of the specification that puts RDMAMessageBuffer beside the senders of  *)
(* VirtualRDMARingBuffer. The send queue is bounded in all of them (Shape  *)
(* and QueueInv). The messages of the older class arrive whole             *)
(* (OlderRingInv), whatever its caller does; with the invariant of         *)
(* VirtualRDMARingBuffer_proofs that covers the three, and with it every   *)
(* variable keeps its bounds (BoundsInv).                                  *)
(***************************************************************************)
EXTENDS RDMAMessageBuffer, VirtualRDMARingBuffer_proofs
-----------------------------------------------------------------------------
(* The shape of the state                                                   *)

\* The state of any of the classes, however its caller behaves.
Queue == [cqes : Seq([id : {ReadId, WriteId}, frees : Nat]), armed : BOOLEAN, events : Nat]
BufferShape ==
    /\ sendPos \in Nat /\ localReadPos \in Nat /\ remoteReadPos \in Nat
    /\ messageCounter \in Nat /\ variant \in Variants
    /\ sending \in 0..Size - 2 /\ receiveSize \in Nat
    /\ sendBuf \in [Cells -> AnyWord] /\ receiveBuf \in [Cells -> AnyWord]
    /\ sq \in Seq(Request) /\ cq \in Queue /\ used \in Int /\ unsignaled \in Nat
    /\ spc \in {"idle", "waitFree", "pollRead", "postSlice", "getEvent", "requestNotify", "drain"}
    /\ rpc \in {"idle", "pollSize", "pollValidity", "callback", "publish"}

\* How far the older class is with its message.
SliceShape ==
    /\ copied \in 0..sending + 2 /\ posted \in 0..sending + 2
    /\ spc = "idle" \/ ~IsMessageBuffer => copied = 0 /\ posted = 0
    /\ spc \in {"waitFree", "pollRead"} => copied \in {0, 1, sending + 1} /\ posted = 0
    /\ spc = "postSlice" => posted < sending + 2

\* A request carries a word for each of its cells, or a position.
WordsShape ==
    \A k \in 1..Len(sq) : sq[k].words # <<>> =>
        /\ sq[k].op = "write" => sq[k].words \in [1..sq[k].len -> AnyWord]
        /\ sq[k].op = "read" => sq[k].words[1] \in Nat

Shape == BufferShape /\ SliceShape /\ WordsShape

\* The words in sendBuf.
InBuffer == {sendBuf[c] : c \in Cells}

\* What posting does to the queue: c requests are added, of which the last may be
\* signaled and then gives back all since the one before it.
Posted(c, signaled, op) ==
    /\ sq' \in Seq(Request) /\ Len(sq') = Len(sq) + c
    /\ \A k \in 1..Len(sq) : sq'[k] = sq[k]
    /\ \A k \in Len(sq) + 1..Len(sq) + c :
          /\ sq'[k].op = op
          /\ sq'[k].signaled <=> signaled /\ k = Len(sq) + c
          /\ sq'[k].words # <<>> => op = "write" /\ sq'[k].words \in [1..sq'[k].len -> InBuffer]
    /\ signaled => sq'[Len(sq) + c].frees = unsignaled + c

\* The fields of a write.
LEMMA WriteShape ==
    ASSUME BufferShape, NEW from \in Nat, NEW n \in Nat \ {0},
           NEW signaled \in BOOLEAN, NEW inline \in BOOLEAN, NEW frees \in Nat,
           NEW r, r = WriteRequest(from, n, signaled, inline, frees)
    PROVE  /\ r \in Request /\ r.op = "write" /\ r.frees = frees /\ r.len = n
           /\ r.words # <<>> => r.words \in [1..n -> InBuffer]
  <1>1. sendPos \in Nat /\ sending \in Nat /\ sendBuf \in [Cells -> AnyWord]
    BY SizeAssumption DEF BufferShape
  <1>2. /\ r.op = "write" /\ r.from = from /\ r.len = n /\ r.signaled = signaled /\ r.frees = frees
        /\ r.words = (IF inline THEN Captured(from, n) ELSE <<>>)
        /\ r.of = ThisMessage
    BY DEF WriteRequest
  <1>3. r.of \in [at : Nat, len : Nat]
    BY <1>1, <1>2 DEF ThisMessage
  <1>4. /\ Captured(from, n) \in [1..n -> InBuffer] /\ Captured(from, n) \in Seq(AnyWord)
        /\ Captured(from, n) # <<>>
    <2>1. PICK w : w = Captured(from, n)
      OBVIOUS
    <2>2. /\ w \in [1..n -> AnyWord] /\ w \in Seq(AnyWord) /\ w # <<>>
          /\ \A i \in 1..n : w[i] = sendBuf[Slot(from + i - 1)]
      BY <1>1, <2>1, CapturedFacts
    <2>3. ASSUME NEW i \in 1..n PROVE w[i] \in InBuffer
      <3>1. PICK p \in Nat : p = from + i - 1
        OBVIOUS
      <3>2. Slot(p) \in Cells /\ w[i] = sendBuf[Slot(p)]
        BY <2>2, <3>1, SlotFacts
      <3> QED
        BY <3>2 DEF InBuffer
    <2>4. w \in [1..n -> InBuffer]
      BY <2>2, <2>3
    <2> QED
      BY <2>1, <2>2, <2>4
  <1>5. r \in Request
    <2>1. <<>> \in Seq(Nat)
      OBVIOUS
    <2>2. r.words \in Seq(AnyWord) \cup Seq(Nat)
      BY <1>2, <1>4, <2>1
    <2>3. r = [op |-> "write", from |-> from, len |-> n, signaled |-> signaled, frees |-> frees,
               words |-> r.words, of |-> r.of]
      BY <1>2 DEF WriteRequest
    <2> QED
      BY <2>2, <2>3, <1>3 DEF Request
  <1> QED
    BY <1>2, <1>4, <1>5

\* One more request at the end.
LEMMA PostedOne ==
    ASSUME sq \in Seq(Request), NEW r \in Request, sq' = Append(sq, r),
           r.words # <<>> => r.op = "write" /\ r.words \in [1..r.len -> InBuffer],
           r.signaled => r.frees = unsignaled + 1
    PROVE  Posted(1, r.signaled, r.op)
  <1>1. /\ sq' \in Seq(Request) /\ Len(sq') = Len(sq) + 1 /\ Len(sq) \in Nat
        /\ \A k \in 1..Len(sq) : sq'[k] = sq[k]
        /\ sq'[Len(sq) + 1] = r
    OBVIOUS
  <1>2. \A k \in Len(sq) + 1..Len(sq) + 1 : k = Len(sq) + 1
    BY <1>1
  <1>3. r.signaled \in BOOLEAN
    BY DEF Request
  <1> QED
    BY <1>1, <1>2, <1>3 DEF Posted

\* A READ is posted.
LEMMA ReadPosted ==
    ASSUME BufferShape, SubmitRead
    PROVE  Posted(1, TRUE, "read")
  <1> DEFINE r == [op |-> "read", from |-> 0, len |-> 0, signaled |-> TRUE,
                   words |-> <<>>, frees |-> unsignaled + 1, of |-> ThisMessage]
  <1>1. sq' = Append(sq, r) /\ sq \in Seq(Request)
    BY DEF SubmitRead, BufferShape
  <1>2. r \in Request /\ r.op = "read" /\ r.words = <<>> /\ r.signaled /\ r.frees = unsignaled + 1
    <2>1. ThisMessage \in [at : Nat, len : Nat]
      BY SizeAssumption DEF BufferShape, ThisMessage
    <2>2. <<>> \in Seq(Nat) /\ unsignaled + 1 \in Nat
      BY DEF BufferShape
    <2> QED
      BY <2>1, <2>2 DEF Request
  <1> HIDE DEF r
  <1>3. Posted(1, r.signaled, r.op)
    BY <1>1, <1>2, PostedOne
  <1>4. r.signaled = TRUE
    BY <1>2 DEF Request
  <1> QED
    BY <1>2, <1>3, <1>4

\* A message of the ring is posted, as one request or as two.
LEMMA MessagePosted ==
    ASSUME BufferShape, PostMessage, ~IsMessageBuffer
    PROVE  \E c \in 1..RequestsPerMessage :
              Len(MessageRequests) = c /\ Posted(c, ShouldClearQueue, "write")
  <1>1. /\ sendPos \in Nat /\ sending \in Nat /\ unsignaled \in Nat /\ MaxInline \in Nat
        /\ sq \in Seq(Request) /\ sq' = sq \o MessageRequests /\ Len(sq) \in Nat
    BY SizeAssumption, BoundsAssumption DEF BufferShape, PostMessage
  <1>2. ShouldClearQueue \in BOOLEAN
    BY DEF ShouldClearQueue
  <1> DEFINE n == sending + 2
             w == WriteRequest(sendPos, n, ShouldClearQueue, n <= MaxInline, unsignaled + 1)
             d == WriteRequest(sendPos + 1, n - 1, FALSE, n - 1 <= MaxInline, 0)
             z == WriteRequest(sendPos, 1, ShouldClearQueue, TRUE, unsignaled + 2)
  <1>3. MessageRequests = IF variant = "send" THEN <<w>> ELSE <<d, z>>
    BY <1>1 DEF MessageRequests, Total
  <1>4. /\ n \in Nat \ {0} /\ n - 1 \in Nat \ {0} /\ sendPos + 1 \in Nat /\ 1 \in Nat \ {0}
        /\ unsignaled + 1 \in Nat /\ unsignaled + 2 \in Nat /\ 0 \in Nat
        /\ (n <= MaxInline) \in BOOLEAN /\ (n - 1 <= MaxInline) \in BOOLEAN
        /\ FALSE \in BOOLEAN /\ TRUE \in BOOLEAN
    BY <1>1
  <1>5. CASE variant = "send"
    <2>1. /\ w \in Request /\ w.op = "write" /\ w.signaled = ShouldClearQueue
          /\ w.frees = unsignaled + 1
          /\ w.words # <<>> => w.words \in [1..w.len -> InBuffer]
      <3> DEFINE f == unsignaled + 1
                 i == n <= MaxInline
                 m == n
                 s == ShouldClearQueue
      <3>1. w = WriteRequest(sendPos, m, s, i, f)
        OBVIOUS
      <3>2. m \in Nat \ {0} /\ i \in BOOLEAN /\ f \in Nat /\ s \in BOOLEAN /\ sendPos \in Nat
        BY <1>1, <1>2, <1>4
      <3> HIDE DEF f, i, m, w, n, s
      <3>3. /\ w \in Request /\ w.op = "write" /\ w.frees = f /\ w.len = m
            /\ w.words # <<>> => w.words \in [1..m -> InBuffer]
        BY <3>1, <3>2, WriteShape
      <3>4. w.signaled = s
        BY <3>1 DEF WriteRequest
      <3> QED
        BY <3>3, <3>4 DEF f, s
    <2>2. MessageRequests = <<w>>
      BY <1>3, <1>5
    <2> HIDE DEF w, n
    <2>3. sq' = Append(sq, w) /\ Len(MessageRequests) = 1
      BY <2>1, <2>2, <1>1
    <2>4. Posted(1, w.signaled, w.op)
      BY <2>1, <2>3, <1>1, PostedOne
    <2>5. 1 \in 1..RequestsPerMessage
      BY DEF RequestsPerMessage
    <2> QED
      BY <2>1, <2>3, <2>4, <2>5
  <1>6. CASE variant # "send"
    <2>1. /\ d \in Request /\ d.op = "write" /\ d.signaled = FALSE
          /\ d.words # <<>> => d.words \in [1..d.len -> InBuffer]
      <3> DEFINE f == 0
                 i == n - 1 <= MaxInline
                 m == n - 1
                 from == sendPos + 1
                 s == FALSE
      <3>1. d = WriteRequest(from, m, s, i, f)
        OBVIOUS
      <3>2. m \in Nat \ {0} /\ i \in BOOLEAN /\ f \in Nat /\ from \in Nat /\ s \in BOOLEAN
        BY <1>4
      <3> HIDE DEF f, i, m, d, n, from, s
      <3>3. /\ d \in Request /\ d.op = "write" /\ d.len = m
            /\ d.frees = f
            /\ d.words # <<>> => d.words \in [1..m -> InBuffer]
        BY <3>1, <3>2, WriteShape
      <3>4. d.signaled = s
        BY <3>1 DEF WriteRequest
      <3> QED
        BY <3>3, <3>4 DEF s
    <2>2. /\ z \in Request /\ z.op = "write" /\ z.signaled = ShouldClearQueue
          /\ z.frees = unsignaled + 2
          /\ z.words # <<>> => z.words \in [1..z.len -> InBuffer]
      <3> DEFINE f == unsignaled + 2
                 i == TRUE
                 m == 1
                 s == ShouldClearQueue
      <3>1. z = WriteRequest(sendPos, m, s, i, f)
        OBVIOUS
      <3>2. m \in Nat \ {0} /\ i \in BOOLEAN /\ f \in Nat /\ s \in BOOLEAN /\ sendPos \in Nat
        BY <1>1, <1>2, <1>4
      <3> HIDE DEF f, i, m, z, s
      <3>3. /\ z \in Request /\ z.op = "write" /\ z.frees = f /\ z.len = m
            /\ z.words # <<>> => z.words \in [1..m -> InBuffer]
        BY <3>1, <3>2, WriteShape
      <3>4. z.signaled = s
        BY <3>1 DEF WriteRequest
      <3> QED
        BY <3>3, <3>4 DEF f, s
    <2>3. MessageRequests = <<d, z>>
      BY <1>3, <1>6
    <2> HIDE DEF w, n, d, z
    <2> DEFINE q == MessageRequests
    <2>4. q \in Seq(Request) /\ Len(q) = 2 /\ q[1] = d /\ q[2] = z
      BY <2>1, <2>2, <2>3
    <2>5. sq' = sq \o q
      BY <1>1
    <2> HIDE DEF q
    <2>6. /\ sq' \in Seq(Request) /\ Len(sq') = Len(sq) + 2
          /\ \A k \in 1..Len(sq) : sq'[k] = sq[k]
          /\ sq'[Len(sq) + 1] = d /\ sq'[Len(sq) + 2] = z
      <3>1. /\ sq' \in Seq(Request) /\ Len(sq') = Len(sq) + Len(q)
            /\ \A k \in 1..Len(sq) + Len(q) :
                  sq'[k] = IF k <= Len(sq) THEN sq[k] ELSE q[k - Len(sq)]
        <4>1. sq \in Seq(Request) /\ q \in Seq(Request)
          BY <1>1, <2>4
        <4> QED
          BY <4>1, <2>5, ConcatProperties
      <3>2. Len(sq) + 1 \in 1..Len(sq) + 2 /\ Len(sq) + 2 \in 1..Len(sq) + 2
        BY <1>1
      <3>3. sq'[Len(sq) + 1] = q[1] /\ sq'[Len(sq) + 2] = q[2]
        BY <3>1, <3>2, <2>4, <1>1
      <3> QED
        BY <3>1, <3>3, <2>4, <1>1
    <2>7. \A k \in Len(sq) + 1..Len(sq) + 2 : k = Len(sq) + 1 \/ k = Len(sq) + 2
      BY <1>1
    <2>8. Len(sq) + 1 # Len(sq) + 2
      BY <1>1
    <2>9. Posted(2, ShouldClearQueue, "write")
      BY <2>1, <2>2, <2>6, <2>7, <2>8, <1>2 DEF Posted
    <2>10. RequestsPerMessage = 2
      <3>1. variant = "sendParanoid"
        BY <1>6, VariantsAssumption DEF BufferShape, IsMessageBuffer
      <3> QED
        BY <3>1 DEF BufferShape, RequestsPerMessage
    <2>11. Len(MessageRequests) = 2 /\ 2 \in 1..RequestsPerMessage
      BY <2>4, <2>10 DEF q
    <2> QED
      BY <2>9, <2>11
  <1> QED
    BY <1>5, <1>6

\* A slice of the older class is posted.
LEMMA SlicePosted ==
    ASSUME BufferShape, SliceShape, PostSlice
    PROVE  /\ Posted(1, ShouldClearQueue, "write")
           /\ SliceEnd \in posted + 1..sending + 2
  <1>1. /\ sendPos \in Nat /\ sending \in Nat /\ unsignaled \in Nat /\ MaxInline \in Nat
        /\ sq \in Seq(Request) /\ posted \in Nat /\ posted < sending + 2 /\ sending + 2 <= Size
    BY SizeAssumption, BoundsAssumption DEF BufferShape, SliceShape, PostSlice
  <1>2. ShouldClearQueue \in BOOLEAN
    BY DEF ShouldClearQueue
  <1>3. SliceEnd \in posted + 1..sending + 2
    <2>1. Slot(sendPos) \in 0..Size - 1
      BY <1>1, SlotFacts DEF Cells
    <2> QED
      BY <2>1, <1>1, SizeAssumption DEF SliceEnd, Total
  <1> DEFINE n == SliceEnd - posted
             from == sendPos + posted
             i == n <= MaxInline
             f == unsignaled + 1
             s == ShouldClearQueue
             r == WriteRequest(from, n, s, i, f)
  <1>4. /\ n \in Nat \ {0} /\ from \in Nat /\ i \in BOOLEAN /\ f \in Nat /\ s \in BOOLEAN
        /\ r = WriteRequest(from, n, s, i, f)
    BY <1>1, <1>2, <1>3
  <1>5. sq' = Append(sq, r) /\ f = unsignaled + 1
    BY DEF PostSlice
  <1> HIDE DEF n, from, i, r, f, s
  <1>6. /\ r \in Request /\ r.op = "write" /\ r.frees = f /\ r.len = n
        /\ r.words # <<>> => r.words \in [1..n -> InBuffer]
    BY <1>4, WriteShape
  <1>7. r.signaled = ShouldClearQueue
    BY <1>4 DEF WriteRequest, s
  <1>8. Posted(1, r.signaled, r.op)
    BY <1>1, <1>5, <1>6, PostedOne
  <1> QED
    BY <1>3, <1>6, <1>7, <1>8

\* Posting keeps the shape of the requests.
LEMMA PostedShape ==
    ASSUME sendBuf \in [Cells -> AnyWord], sq \in Seq(Request), WordsShape, NEW c \in Nat, NEW signaled, NEW op,
           Posted(c, signaled, op)
    PROVE  sq' \in Seq(Request) /\ WordsShape'
  <1>1. Len(sq) \in Nat /\ sq' \in Seq(Request)
    BY DEF Posted
  <1>2. ASSUME NEW k \in 1..Len(sq'), sq'[k].words # <<>>
        PROVE  /\ sq'[k].op = "write" => sq'[k].words \in [1..sq'[k].len -> AnyWord]
               /\ sq'[k].op = "read" => sq'[k].words[1] \in Nat
    <2>1. k \in 1..Len(sq) \/ k \in Len(sq) + 1..Len(sq) + c
      BY <1>1 DEF Posted
    <2>2. CASE k \in 1..Len(sq)
      BY <2>2, <1>2 DEF Posted, WordsShape
    <2>3. CASE k \in Len(sq) + 1..Len(sq) + c
      <3>1. sq'[k].op = op /\ op = "write" /\ sq'[k].words \in [1..sq'[k].len -> InBuffer]
        BY <2>3, <1>2 DEF Posted
      <3>2. InBuffer \subseteq AnyWord
        BY DEF InBuffer
      <3> QED
        BY <3>1, <3>2
    <2> QED
      BY <2>1, <2>2, <2>3
  <1> QED
    BY <1>1, <1>2 DEF WordsShape

\* The beginning.
LEMMA ShapeStarts == MessageInit => Shape
  <1> SUFFICES ASSUME MessageInit PROVE Shape
    OBVIOUS
  <1>1. BufferShape
    <2>1. cq \in Queue
      BY DEF MessageInit, Init, NewQueue, Queue
    <2>2. [c \in Cells |-> Zero] \in [Cells -> AnyWord]
      BY WordFacts
    <2>3. sq \in Seq(Request)
      BY DEF MessageInit, Init
    <2> QED
      BY <2>1, <2>2, <2>3, SizeAssumption DEF BufferShape, MessageInit, Init
  <1>2. SliceShape /\ WordsShape
    BY DEF SliceShape, WordsShape, MessageInit, Init
  <1> QED
    BY <1>1, <1>2 DEF Shape

\* A caller begins to send.
LEMMA BeginShape ==
    ASSUME Shape, BeginBuffer
    PROVE  Shape' /\ \/ spc' = "waitFree" /\ spc = "idle"
                     \/ spc' = spc
  <1>1. BufferShape /\ SliceShape /\ WordsShape
    BY DEF Shape
  <1>2. ASSUME NEW n \in PayloadLens, BeginMessage(n)
        PROVE  Shape' /\ spc' = "waitFree" /\ spc = "idle"
    <2>1. n \in 0..Size - 2
      BY <1>2, LensAssumption, SizeAssumption DEF BeginMessage, Total
    <2>2. BufferShape'
      BY <1>1, <1>2, <2>1 DEF BeginMessage, BufferShape, adapterVars, receiverVars
    <2>3. SliceShape' /\ WordsShape'
      BY <1>1, <1>2, <2>1, SizeAssumption
         DEF BeginMessage, SliceShape, WordsShape, IsMessageBuffer, adapterVars, messageVars
    <2> QED
      BY <1>2, <2>2, <2>3 DEF Shape, BeginMessage
  <1>3. ASSUME NEW n \in PayloadLens, FillSendBuf(n), UNCHANGED messageVars
        PROVE  Shape' /\ spc' = "waitFree" /\ spc = "idle"
    <2>1. n \in 0..Size - 2 /\ sendPos \in Nat /\ sendBuf \in [Cells -> AnyWord]
      BY <1>1, <1>3, LensAssumption, SizeAssumption DEF FillSendBuf, Total, BufferShape
    <2> DEFINE w == [i \in 0..Total(n) - 1 |-> MessageWord(sendPos, n, i)]
               t == Total(n)
    <2>2. t \in Nat /\ t <= Size /\ w \in [0..t - 1 -> AnyWord]
      <3>1. t = n + 2 /\ t \in Nat /\ t <= Size /\ n \in Nat
        BY <2>1, SizeAssumption DEF Total
      <3>2. \A i \in 0..t - 1 : i \in 0..n + 1
        BY <3>1
      <3>3. \A i \in 0..t - 1 : MessageWord(sendPos, n, i) \in AnyWord
        BY <3>1, <3>2, <2>1, MessageWordFacts
      <3> QED
        BY <3>1, <3>3
    <2>3. sendBuf' = Overlay(sendBuf, sendPos, w)
      BY <1>3 DEF FillSendBuf
    <2> HIDE DEF w, t
    <2>4. sendBuf' \in [Cells -> AnyWord]
      BY <2>1, <2>2, <2>3, OverlayFacts
    <2>5. BufferShape'
      BY <1>1, <1>3, <2>1, <2>4 DEF FillSendBuf, BufferShape, adapterVars, receiverVars
    <2>6. SliceShape' /\ WordsShape'
      BY <1>1, <1>3, <2>1, SizeAssumption
         DEF FillSendBuf, SliceShape, WordsShape, IsMessageBuffer, adapterVars, messageVars
    <2> QED
      BY <1>3, <2>5, <2>6 DEF Shape, FillSendBuf
  <1>4. ASSUME NEW n \in PayloadLens, FillTooLarge(n), UNCHANGED messageVars
        PROVE  Shape' /\ spc' = spc
    <2>1. n \in Nat /\ n <= Size /\ sendPos + 1 \in Nat /\ sendBuf \in [Cells -> AnyWord]
      BY <1>1, <1>4, LensAssumption, SizeAssumption DEF FillTooLarge, BufferShape
    <2> DEFINE w == [i \in 0..n - 1 |-> Payload(sendPos + 1 + i)]
               p == sendPos + 1
    <2>2. w \in [0..n - 1 -> AnyWord]
      <3>1. \A i \in 0..n - 1 : sendPos + 1 + i \in Nat
        BY <2>1
      <3>2. \A i \in 0..n - 1 : Payload(sendPos + 1 + i) \in AnyWord
        BY <3>1, WordFacts
      <3> QED
        BY <3>2
    <2>3. sendBuf' = Overlay(sendBuf, p, w) /\ p \in Nat
      BY <1>4, <2>1 DEF FillTooLarge
    <2> HIDE DEF w, p
    <2>4. sendBuf' \in [Cells -> AnyWord]
      BY <2>1, <2>2, <2>3, OverlayFacts
    <2>5. BufferShape'
      BY <1>1, <1>4, <2>4 DEF FillTooLarge, BufferShape, adapterVars, receiverVars
    <2>6. SliceShape' /\ WordsShape'
      BY <1>1, <1>4
         DEF FillTooLarge, SliceShape, WordsShape, IsMessageBuffer, adapterVars, messageVars
    <2> QED
      BY <1>4, <2>5, <2>6 DEF Shape, FillTooLarge
  <1> QED
    BY <1>2, <1>3, <1>4 DEF BeginBuffer, BeginSend

\* The older class copies a part of a message.
LEMMA CopyShape ==
    ASSUME Shape, CopyPart, IsMessageBuffer
    PROVE  Shape'
  <1>1. BufferShape /\ SliceShape /\ WordsShape
    BY DEF Shape
  <1>2. /\ sendPos \in Nat /\ sendBuf \in [Cells -> AnyWord] /\ sending \in 0..Size - 2
        /\ copied \in {0, 1, sending + 1} /\ posted = 0 /\ Size \in Nat
    BY <1>1, SizeAssumption DEF BufferShape, SliceShape, CopyPart
  <1> DEFINE t == PartLen
             w == [i \in 0..t - 1 |-> MessageWord(sendPos, sending, copied + i)]
             p == sendPos + copied
  <1>3. /\ t \in Nat /\ t <= Size /\ copied + t \in {1, sending + 1, sending + 2}
        /\ copied + t # sending + 2 => copied + t \in {1, sending + 1}
    BY <1>2 DEF PartLen
  <1>4. w \in [0..t - 1 -> AnyWord]
    <2>1. sending \in Nat
      BY <1>2
    <2>2. \A i \in 0..t - 1 : copied + i \in 0..sending + 1
      BY <1>2, <1>3
    <2>3. \A i \in 0..t - 1 : MessageWord(sendPos, sending, copied + i) \in AnyWord
      BY <1>2, <2>1, <2>2, MessageWordFacts
    <2> QED
      BY <2>3
  <1>5. sendBuf' = Overlay(sendBuf, p, w) /\ p \in Nat
    BY <1>2 DEF CopyPart
  <1>6. copied' = copied + t /\ posted' = posted /\ sending' = sending /\ variant' = variant
    BY DEF CopyPart
  <1>7. spc' = IF copied' = sending + 2 THEN "postSlice" ELSE "waitFree"
    BY DEF CopyPart, Total
  <1> HIDE DEF w, p, t
  <1>8. sendBuf' \in [Cells -> AnyWord]
    BY <1>2, <1>3, <1>4, <1>5, OverlayFacts
  <1>9. BufferShape'
    BY <1>1, <1>8 DEF CopyPart, BufferShape, adapterVars, receiverVars
  <1>10. SliceShape'
    <2>1. sending + 2 \in Nat /\ sending + 1 \in Nat
      BY <1>2
    <2>2. spc' = "postSlice" \/ spc' = "waitFree"
      BY <1>7
    <2>3. IsMessageBuffer => IsMessageBuffer'
      BY <1>6 DEF IsMessageBuffer
    <2>4. copied' \in 0..sending + 2
      BY <1>2, <1>3, <1>6
    <2>5. spc' = "waitFree" => copied' \in {0, 1, sending + 1}
      BY <1>2, <1>3, <1>6, <1>7
    <2> QED
      BY <1>2, <1>6, <2>1, <2>2, <2>3, <2>4, <2>5 DEF SliceShape
  <1>11. WordsShape'
    BY <1>1 DEF CopyPart, WordsShape, adapterVars
  <1> QED
    BY <1>9, <1>10, <1>11 DEF Shape

\* Posting changes the queue, and where the sender is.
LEMMA PostShape ==
    ASSUME Shape,
           \/ SubmitRead /\ spc = "waitFree" /\ UNCHANGED messageVars
           \/ PostMessage /\ ~IsMessageBuffer /\ UNCHANGED messageVars
           \/ PostSlice /\ IsMessageBuffer
    PROVE  Shape'
  <1>1. /\ BufferShape /\ SliceShape /\ WordsShape /\ sq \in Seq(Request)
        /\ sendBuf \in [Cells -> AnyWord]
    BY DEF Shape, BufferShape
  <1>2. CASE SubmitRead /\ spc = "waitFree" /\ UNCHANGED messageVars
    <2>1. sq' \in Seq(Request) /\ WordsShape'
      <3>1. Posted(1, TRUE, "read")
        BY <1>1, <1>2, ReadPosted
      <3> QED
        BY <3>1, <1>1, PostedShape
    <2>2. BufferShape'
      BY <1>1, <1>2, <2>1 DEF SubmitRead, BufferShape, receiverVars
    <2>3. SliceShape'
      BY <1>1, <1>2 DEF SubmitRead, SliceShape, IsMessageBuffer, messageVars
    <2> QED
      BY <2>1, <2>2, <2>3 DEF Shape
  <1>3. CASE PostMessage /\ ~IsMessageBuffer /\ UNCHANGED messageVars
    <2>3. sq' \in Seq(Request) /\ WordsShape' /\ used' \in Int /\ unsignaled' \in Nat
      <3>1. PICK c \in 1..RequestsPerMessage :
                Len(MessageRequests) = c /\ Posted(c, ShouldClearQueue, "write")
        BY <1>1, <1>3, MessagePosted
      <3>2. c \in Nat
        BY DEF RequestsPerMessage
      <3>3. sq' \in Seq(Request) /\ WordsShape'
        BY <1>1, <3>1, <3>2, PostedShape
      <3>4. used' \in Int /\ unsignaled' \in Nat
        BY <1>1, <1>3, <3>1, <3>2 DEF PostMessage, BufferShape
      <3> QED
        BY <3>3, <3>4
    <2>4. BufferShape'
      <3>2. /\ messageCounter' \in Nat /\ sendPos' \in Nat /\ sending' \in 0..Size - 2
            /\ spc' \in {"getEvent", "idle"}
        BY <1>1, <1>3, SizeAssumption DEF PostMessage, SendDone, BufferShape, Total
      <3> QED
        BY <1>1, <1>3, <2>3, <3>2 DEF PostMessage, BufferShape, receiverVars
    <2>5. SliceShape'
      <3>1. spc' \in {"getEvent", "idle"}
        BY <1>3 DEF PostMessage, SendDone
      <3>2. copied' = 0 /\ posted' = 0
        BY <1>1, <1>3 DEF PostMessage, SliceShape, messageVars
      <3>3. sending' \in 0..Size - 2
        BY <2>4 DEF BufferShape
      <3>4. 0 \in 0..sending' + 2
        <4> DEFINE n == sending'
        <4>1. n \in 0..Size - 2
          BY <3>3
        <4> HIDE DEF n
        <4>2. 0 \in 0..n + 2
          BY <4>1, SizeAssumption
        <4> QED
          BY <4>2 DEF n
      <3> QED
        BY <3>1, <3>2, <3>4 DEF SliceShape
    <2> QED
      BY <2>3, <2>4, <2>5 DEF Shape
  <1>4. CASE PostSlice /\ IsMessageBuffer
    <2>1. Posted(1, ShouldClearQueue, "write") /\ SliceEnd \in posted + 1..sending + 2
      BY <1>1, <1>4, SlicePosted
    <2>2. sq' \in Seq(Request) /\ WordsShape'
      BY <1>1, <2>1, PostedShape
    <2>3. /\ messageCounter \in Nat /\ sendPos \in Nat /\ sending \in Nat /\ posted \in Nat
          /\ unsignaled \in Nat /\ used \in Int
      BY <1>1, SizeAssumption DEF BufferShape, SliceShape
    <2>4. CASE ShouldClearQueue
      <3>1. /\ spc' = "getEvent" /\ posted' = SliceEnd /\ unsignaled' = 0 /\ used' = used + 1
            /\ UNCHANGED <<messageCounter, sendPos, sending, copied, variant>>
        BY <1>4, <2>4 DEF PostSlice
      <3>2. BufferShape'
        BY <1>1, <1>4, <2>2, <2>3, <3>1 DEF PostSlice, BufferShape, receiverVars
      <3>3. SliceShape'
        BY <1>1, <1>4, <2>1, <2>3, <3>1 DEF SliceShape, IsMessageBuffer
      <3> QED
        BY <2>2, <3>2, <3>3 DEF Shape
    <2>5. CASE ~ShouldClearQueue
      <3>1. /\ messageCounter' = messageCounter + 1 /\ unsignaled' = unsignaled + 1
            /\ used' = used + 1 /\ variant' = variant
            /\ IF SliceEnd < sending + 2
               THEN spc' = "postSlice" /\ posted' = SliceEnd /\ UNCHANGED <<sendPos, sending, copied>>
               ELSE /\ spc' = "idle" /\ sending' = 0 /\ copied' = 0 /\ posted' = 0
                    /\ sendPos' = sendPos + sending + 2
        BY <1>4, <2>5, <2>3 DEF PostSlice, SliceDone, Total
      <3>2. BufferShape'
        <4>1. /\ messageCounter' \in Nat /\ unsignaled' \in Nat /\ used' \in Int
              /\ sendPos' \in Nat /\ sending' \in 0..Size - 2 /\ spc' \in {"postSlice", "idle"}
          BY <1>1, <2>3, <3>1, SizeAssumption DEF BufferShape
        <4> QED
          BY <1>1, <1>4, <2>2, <4>1 DEF PostSlice, BufferShape, receiverVars
      <3>3. SliceShape'
        BY <1>1, <1>4, <2>1, <2>3, <3>1 DEF SliceShape, IsMessageBuffer
      <3> QED
        BY <2>2, <3>2, <3>3 DEF Shape
    <2> QED
      BY <2>4, <2>5
  <1> QED
    BY <1>2, <1>3, <1>4

\* Polling gives back what the completion frees.
LEMMA PolledQueue ==
    ASSUME cq \in Queue, HasCompletion(cq), NEW q, q = Polled(cq)
    PROVE  /\ q \in Queue /\ q.armed = cq.armed /\ q.events = cq.events
           /\ cq.cqes \in Seq([id : {ReadId, WriteId}, frees : Nat]) /\ Len(cq.cqes) \in Nat
           /\ Len(cq.cqes) > 0
           /\ Len(q.cqes) = Len(cq.cqes) - 1
           /\ \A k \in 1..Len(q.cqes) : q.cqes[k] = cq.cqes[k + 1]
           /\ NextCompletion(cq) = cq.cqes[1] /\ NextCompletion(cq).frees \in Nat
           /\ NextCompletion(cq).id \in {ReadId, WriteId}
  <1>1. /\ cq.cqes \in Seq([id : {ReadId, WriteId}, frees : Nat]) /\ cq.cqes # <<>>
        /\ cq.armed \in BOOLEAN /\ cq.events \in Nat
    BY DEF Queue, HasCompletion
  <1> DEFINE C == [id : {ReadId, WriteId}, frees : Nat]
             s == cq.cqes
             t == Tail(s)
  <1>2. q.cqes = t /\ q.armed = cq.armed /\ q.events = cq.events
    BY DEF Polled, Queue
  <1>3. q = [cqes |-> t, armed |-> cq.armed, events |-> cq.events]
    BY DEF Polled, Queue
  <1>4. NextCompletion(cq) = Head(s)
    BY DEF NextCompletion
  <1>5. s \in Seq(C) /\ s # <<>>
    BY <1>1
  <1> HIDE DEF s, C
  <1>6. /\ t \in Seq(C) /\ Len(t) = Len(s) - 1 /\ Len(s) \in Nat
        /\ \A k \in 1..Len(t) : t[k] = s[k + 1]
    BY <1>5, HeadTailProperties
  <1>7. Head(s) = s[1] /\ s[1] \in C /\ Len(s) > 0
    BY <1>5
  <1> HIDE DEF t
  <1>8. q \in Queue
    BY <1>1, <1>3, <1>6 DEF Queue, C
  <1>9. s[1].frees \in Nat /\ s[1].id \in {ReadId, WriteId}
    BY <1>7 DEF C
  <1> QED
    BY <1>1, <1>2, <1>4, <1>6, <1>7, <1>8, <1>9 DEF s

\* Waiting for a READ or for a completion.
LEMMA WaitShape ==
    ASSUME Shape, PollRead \/ GetEvent \/ RequestNotify, UNCHANGED messageVars
    PROVE  Shape'
  <1>1. BufferShape /\ SliceShape /\ WordsShape /\ cq \in Queue
    BY DEF Shape, BufferShape
  <1>2. cq' \in Queue
    <2>1. PollRead => cq' \in Queue
      BY <1>1, PolledQueue DEF PollRead
    <2>2. GetEvent => cq' \in Queue
      BY <1>1 DEF GetEvent, Queue, HasEvent, EventTaken
    <2>3. RequestNotify => cq' \in Queue
      BY <1>1 DEF RequestNotify, Queue, NotifyRequested
    <2> QED
      BY <2>1, <2>2, <2>3
  <1>3. used' \in Int
    <2>1. PollRead => used' \in Int
      <3> SUFFICES ASSUME PollRead PROVE used' \in Int
        OBVIOUS
      <3>1. NextCompletion(cq).frees \in Nat
        BY <1>1, PolledQueue DEF PollRead
      <3>2. used \in Int /\ used' = used - NextCompletion(cq).frees
        BY <1>1 DEF PollRead, BufferShape
      <3> QED
        BY <3>1, <3>2
    <2> QED
      BY <1>1, <2>1 DEF GetEvent, RequestNotify, BufferShape
  <1>4. /\ spc = "pollRead" /\ spc' \in {"waitFree", "pollRead"}
        \/ spc' \in {"requestNotify", "drain"}
    BY DEF PollRead, GetEvent, RequestNotify
  <1>5. BufferShape'
    BY <1>1, <1>2, <1>3, <1>4
       DEF PollRead, GetEvent, RequestNotify, BufferShape, receiverVars
  <1>6. SliceShape'
    <2>1. UNCHANGED <<copied, posted, sending, variant>>
      BY DEF PollRead, GetEvent, RequestNotify, messageVars
    <2> QED
      BY <1>1, <1>4, <2>1 DEF SliceShape, IsMessageBuffer
  <1>7. WordsShape'
    BY <1>1 DEF PollRead, GetEvent, RequestNotify, WordsShape
  <1> QED
    BY <1>5, <1>6, <1>7 DEF Shape

\* The end of a wait for a completion.
LEMMA DrainShape ==
    ASSUME Shape, (Drain /\ ~IsMessageBuffer /\ UNCHANGED messageVars) \/ (DrainSlice /\ IsMessageBuffer)
    PROVE  Shape'
  <1>1. /\ BufferShape /\ SliceShape /\ WordsShape /\ cq \in Queue /\ messageCounter \in Nat
        /\ sendPos \in Nat /\ sending \in Nat /\ posted \in 0..sending + 2 /\ used \in Int
    BY SizeAssumption DEF Shape, BufferShape, SliceShape
  <1>2. /\ spc = "drain" /\ variant' = variant /\ sq' = sq
        /\ UNCHANGED <<remoteReadPos, sendBuf, placed, unsignaled, receiverVars>>
    BY DEF Drain, DrainSlice, DrainThen
  <1>3. CASE HasCompletion(cq)
    <2>1. /\ cq' = Polled(cq) /\ used' = used - NextCompletion(cq).frees
          /\ UNCHANGED <<sendPos, messageCounter, sending, spc, copied, posted>>
      BY <1>3 DEF Drain, DrainSlice, DrainThen, messageVars
    <2>2. cq' \in Queue /\ NextCompletion(cq).frees \in Nat
      BY <1>1, <1>3, <2>1, PolledQueue
    <2>3. BufferShape'
      BY <1>1, <1>2, <2>1, <2>2 DEF BufferShape, receiverVars
    <2>4. SliceShape'
      BY <1>1, <1>2, <2>1 DEF SliceShape, IsMessageBuffer
    <2> QED
      BY <1>1, <1>2, <2>3, <2>4 DEF Shape, WordsShape
  <1>4. CASE ~HasCompletion(cq)
    <2>1. /\ messageCounter' = messageCounter + 1 /\ UNCHANGED <<cq, used>>
          /\ \/ /\ spc' = "idle" /\ sending' = 0 /\ sendPos' = sendPos + sending + 2
                /\ copied' = 0 /\ posted' = 0
             \/ /\ IsMessageBuffer /\ spc' = "postSlice" /\ posted' = posted /\ posted < sending + 2
                /\ UNCHANGED <<sendPos, sending, copied>>
      <3>1. CASE Drain /\ ~IsMessageBuffer /\ UNCHANGED messageVars
        BY <1>1, <1>4, <3>1 DEF Drain, DrainThen, SendDone, Total, SliceShape, messageVars
      <3>2. CASE DrainSlice /\ IsMessageBuffer
        BY <1>1, <1>4, <3>2 DEF DrainSlice, DrainThen, SliceDone, Total
      <3> QED
        BY <3>1, <3>2
    <2>2. sendPos' \in Nat /\ sending' \in 0..Size - 2 /\ spc' \in {"idle", "postSlice"}
      BY <1>1, <2>1, SizeAssumption DEF BufferShape
    <2>3. BufferShape'
      BY <1>1, <1>2, <2>1, <2>2 DEF BufferShape, receiverVars
    <2>4. SliceShape'
      BY <1>1, <1>2, <2>1 DEF SliceShape, IsMessageBuffer
    <2> QED
      BY <1>1, <1>2, <2>3, <2>4 DEF Shape, WordsShape
  <1> QED
    BY <1>3, <1>4

\* An acknowledged request leaves the queue.
LEMMA Acknowledged ==
    ASSUME Shape, Acknowledge
    PROVE  /\ sq # <<>> /\ sq \in Seq(Request) /\ Len(sq) \in Nat /\ Len(sq) >= 1 /\ Oldest = sq[1]
           /\ sq[1] \in Request
           /\ sq' \in Seq(Request) /\ Len(sq') = Len(sq) - 1
           /\ \A k \in 1..Len(sq') : sq'[k] = sq[k + 1]
           /\ sq[1].words # <<>>
           /\ cq' = IF sq[1].signaled
                    THEN Completed(cq, IF sq[1].op = "read" THEN ReadId ELSE WriteId, sq[1].frees)
                    ELSE cq
           /\ remoteReadPos' = IF sq[1].op = "read" THEN sq[1].words[1] ELSE remoteReadPos
  <1>1. sq # <<>> /\ sq \in Seq(Request) /\ sq' = Tail(sq)
    BY DEF Acknowledge, Shape, BufferShape
  <1>2. /\ sq' \in Seq(Request) /\ Len(sq') = Len(sq) - 1
        /\ \A k \in 1..Len(sq') : sq'[k] = sq[k + 1]
    BY <1>1, HeadTailProperties
  <1>3. Oldest = sq[1]
    BY DEF Oldest
  <1>4. Len(sq) \in Nat /\ Len(sq) >= 1 /\ sq[1] \in Request
    BY <1>1
  <1>5. /\ Oldest.words # <<>>
        /\ cq' = IF Oldest.signaled
                 THEN Completed(cq, IF Oldest.op = "read" THEN ReadId ELSE WriteId, Oldest.frees)
                 ELSE cq
        /\ remoteReadPos' = IF Oldest.op = "read" THEN Oldest.words[1] ELSE remoteReadPos
    BY DEF Acknowledge
  <1> QED
    BY <1>1, <1>2, <1>3, <1>4, <1>5

\* The completion of a signaled request.
LEMMA CompletedQueue ==
    ASSUME cq \in Queue, NEW id \in {ReadId, WriteId}, NEW frees \in Nat,
           NEW q, q = Completed(cq, id, frees)
    PROVE  /\ q \in Queue /\ ~q.armed
           /\ q.events = IF cq.armed THEN cq.events + 1 ELSE cq.events
           /\ Len(cq.cqes) \in Nat /\ Len(q.cqes) = Len(cq.cqes) + 1
           /\ \A k \in 1..Len(cq.cqes) : q.cqes[k] = cq.cqes[k]
           /\ q.cqes[Len(cq.cqes) + 1].id = id /\ q.cqes[Len(cq.cqes) + 1].frees = frees
  <1> DEFINE C == [id : {ReadId, WriteId}, frees : Nat]
             s == cq.cqes
             c == [id |-> id, frees |-> frees]
             t == Append(s, c)
  <1>1. s \in Seq(C) /\ c \in C /\ cq.armed \in BOOLEAN /\ cq.events \in Nat
    BY DEF Queue
  <1>2. q = [cqes |-> t, armed |-> FALSE,
             events |-> IF cq.armed THEN cq.events + 1 ELSE cq.events]
    BY DEF Completed
  <1>3. c.id = id /\ c.frees = frees
    OBVIOUS
  <1> HIDE DEF s, c, C
  <1>4. /\ t \in Seq(C) /\ Len(t) = Len(s) + 1 /\ Len(s) \in Nat
        /\ \A k \in 1..Len(s) : t[k] = s[k]
        /\ t[Len(s) + 1] = c
    BY <1>1
  <1> HIDE DEF t
  <1>5. q \in Queue
    BY <1>1, <1>2, <1>4 DEF Queue, C
  <1>6. /\ q.cqes = t /\ ~q.armed
        /\ q.events = IF cq.armed THEN cq.events + 1 ELSE cq.events
    BY <1>2
  <1> QED
    BY <1>3, <1>4, <1>5, <1>6 DEF s

\* The adapter's steps.
LEMMA AdapterShape ==
    ASSUME Shape, Adapter, UNCHANGED messageVars
    PROVE  Shape'
  <1>1. /\ BufferShape /\ SliceShape /\ WordsShape /\ cq \in Queue /\ sq \in Seq(Request)
        /\ sendBuf \in [Cells -> AnyWord] /\ receiveBuf \in [Cells -> AnyWord]
    BY DEF Shape, BufferShape
  <1>2. SliceShape'
    BY <1>1 DEF Adapter, Fetch, SampleReadPos, Acknowledge, Place, SliceShape, IsMessageBuffer,
                senderVars, messageVars
  <1>3. CASE Fetch
    <2>1. /\ sq # <<>> /\ sq[1].op = "write" /\ sq[1] \in Request /\ sq[1].from \in Nat
          /\ sq[1].len \in Nat
      <3>1. sq # <<>> /\ Oldest.op = "write" /\ Oldest = sq[1]
        BY <1>3 DEF Fetch, Oldest
      <3>2. sq[1] \in Request
        BY <1>1, <3>1
      <3> QED
        BY <3>1, <3>2 DEF Request
    <2> DEFINE w == Captured(sq[1].from, sq[1].len)
    <2>2. sq' = [sq EXCEPT ![1].words = w]
      <3>1. Oldest = sq[1]
        BY DEF Oldest
      <3> QED
        BY <3>1, <1>3 DEF Fetch
    <2>3. w \in Seq(AnyWord) /\ w \in [1..sq[1].len -> AnyWord]
      <3>1. \A i \in 1..sq[1].len : sq[1].from + i - 1 \in Nat
        BY <2>1
      <3>2. \A i \in 1..sq[1].len : Slot(sq[1].from + i - 1) \in Cells
        BY <3>1, SlotFacts
      <3>3. w \in [1..sq[1].len -> AnyWord]
        BY <3>2, <1>1 DEF Captured
      <3> HIDE DEF w
      <3> QED
        BY <2>1, <3>3
    <2> HIDE DEF w
    <2>4. /\ sq' \in Seq(Request) /\ Len(sq') = Len(sq)
          /\ \A k \in 1..Len(sq) : k # 1 => sq'[k] = sq[k]
          /\ sq'[1].words = w /\ sq'[1].op = sq[1].op /\ sq'[1].len = sq[1].len
      BY <1>1, <2>1, <2>2, <2>3, WordsSet
    <2>5. BufferShape'
      BY <1>1, <1>3, <2>4 DEF Fetch, BufferShape, senderVars, receiverVars
    <2>6. WordsShape'
      BY <1>1, <2>1, <2>3, <2>4 DEF WordsShape
    <2> QED
      BY <1>2, <2>5, <2>6 DEF Shape
  <1>4. CASE SampleReadPos
    <2> DEFINE w == <<localReadPos>>
    <2>1. /\ sq # <<>> /\ sq[1].op = "read" /\ sq' = [sq EXCEPT ![1].words = w]
          /\ w \in Seq(Nat) /\ w[1] \in Nat
      BY <1>1, <1>4 DEF SampleReadPos, Oldest, BufferShape
    <2> HIDE DEF w
    <2>2. /\ sq' \in Seq(Request) /\ Len(sq') = Len(sq)
          /\ \A k \in 1..Len(sq) : k # 1 => sq'[k] = sq[k]
          /\ sq'[1].words = w /\ sq'[1].op = sq[1].op
      BY <1>1, <2>1, WordsSet
    <2>3. BufferShape'
      BY <1>1, <1>4, <2>2 DEF SampleReadPos, BufferShape, senderVars, receiverVars
    <2>4. WordsShape'
      BY <1>1, <2>1, <2>2 DEF WordsShape
    <2> QED
      BY <1>2, <2>3, <2>4 DEF Shape
  <1>5. CASE Acknowledge
    <2>1. /\ sq # <<>> /\ Len(sq) \in Nat /\ Len(sq) >= 1 /\ sq[1] \in Request
          /\ sq' \in Seq(Request) /\ Len(sq') = Len(sq) - 1
          /\ \A k \in 1..Len(sq') : sq'[k] = sq[k + 1]
          /\ sq[1].words # <<>>
          /\ cq' = IF sq[1].signaled
                   THEN Completed(cq, IF sq[1].op = "read" THEN ReadId ELSE WriteId, sq[1].frees)
                   ELSE cq
          /\ remoteReadPos' = IF sq[1].op = "read" THEN sq[1].words[1] ELSE remoteReadPos
      BY <1>5, Acknowledged
    <2>2. cq' \in Queue
      <3>1. CASE sq[1].signaled
        <4> DEFINE id == IF sq[1].op = "read" THEN ReadId ELSE WriteId
                   f == sq[1].frees
        <4>1. id \in {ReadId, WriteId} /\ f \in Nat /\ cq' = Completed(cq, id, f)
          BY <2>1, <3>1 DEF Request
        <4> HIDE DEF id, f
        <4> QED
          BY <4>1, <1>1, CompletedQueue
      <3>2. CASE ~sq[1].signaled
        BY <2>1, <3>2, <1>1
      <3> QED
        BY <3>1, <3>2
    <2>3. remoteReadPos' \in Nat
      BY <1>1, <2>1 DEF BufferShape, WordsShape
    <2>4. BufferShape'
      BY <1>1, <1>5, <2>1, <2>2, <2>3 DEF Acknowledge, BufferShape, receiverVars
    <2>5. WordsShape'
      <3> SUFFICES ASSUME NEW k \in 1..Len(sq'), sq'[k].words # <<>>
                   PROVE  /\ sq'[k].op = "write" => sq'[k].words \in [1..sq'[k].len -> AnyWord]
                          /\ sq'[k].op = "read" => sq'[k].words[1] \in Nat
        BY DEF WordsShape
      <3>1. k + 1 \in 1..Len(sq) /\ sq'[k] = sq[k + 1]
        BY <2>1
      <3> QED
        BY <3>1, <1>1 DEF WordsShape
    <2> QED
      BY <1>2, <2>4, <2>5 DEF Shape
  <1>6. ASSUME NEW i \in Cells, Place(i) PROVE Shape'
    <2>1. Oldest = sq[1] /\ sq # <<>> /\ sq[1] \in Request /\ 1 \in 1..Len(sq)
      BY <1>1, <1>6 DEF Place, Oldest
    <2>2. /\ sq[1].op = "write" /\ sq[1].words # <<>> /\ i \in 0..sq[1].len - 1
          /\ receiveBuf' = [receiveBuf EXCEPT ![Slot(sq[1].from + i)] = sq[1].words[i + 1]]
      BY <1>6, <2>1 DEF Place
    <2>3. sq[1].words \in [1..sq[1].len -> AnyWord] /\ sq[1].len \in Nat
      BY <1>1, <2>1, <2>2 DEF WordsShape, Request
    <2>4. sq[1].words[i + 1] \in AnyWord
      BY <2>2, <2>3
    <2>5. receiveBuf' \in [Cells -> AnyWord]
      BY <1>1, <2>2, <2>4
    <2>6. BufferShape'
      BY <1>1, <1>6, <2>5 DEF Place, BufferShape, senderVars
    <2>7. WordsShape'
      BY <1>1, <1>6 DEF Place, WordsShape
    <2> QED
      BY <1>2, <2>6, <2>7 DEF Shape
  <1> QED
    BY <1>3, <1>4, <1>5, <1>6 DEF Adapter

\* The receiver's steps.
LEMMA ReceiverShape ==
    ASSUME Shape, Receiver \/ StartReceive, UNCHANGED messageVars
    PROVE  Shape' /\ UNCHANGED <<senderVars, adapterVars>>
  <1>1. BufferShape /\ SliceShape /\ WordsShape
    BY DEF Shape
  <1>2. UNCHANGED <<senderVars, adapterVars>>
    BY DEF Receiver, StartReceive, BeginReceive, PollSize, PollValidity, CallbackThrows, Wipe,
           Publish
  <1>3. /\ localReadPos \in Nat /\ receiveSize \in Nat /\ receiveBuf \in [Cells -> AnyWord]
        /\ rpc \in {"idle", "pollSize", "pollValidity", "callback", "publish"}
    BY <1>1 DEF BufferShape
  <1>4. /\ localReadPos' \in Nat /\ receiveSize' \in Nat /\ receiveBuf' \in [Cells -> AnyWord]
        /\ rpc' \in {"idle", "pollSize", "pollValidity", "callback", "publish"}
    <2>1. CASE StartReceive
      BY <1>3, <2>1 DEF StartReceive, BeginReceive
    <2>2. CASE PollSize
      <3>1. Slot(localReadPos) \in Cells
        BY <1>3, SlotFacts
      <3>2. receiveBuf[Slot(localReadPos)] \in AnyWord
        BY <1>3, <3>1
      <3>3. AsSize(receiveBuf[Slot(localReadPos)]) \in Nat
        BY <3>2, WordFacts
      <3> QED
        BY <1>3, <2>2, <3>3 DEF PollSize
    <2>3. CASE PollValidity \/ CallbackThrows
      BY <1>3, <2>3 DEF PollValidity, CallbackThrows
    <2>4. CASE Wipe
      <3> DEFINE w == [c \in Cells |-> Zero]
      <3>1. Zero \in AnyWord
        BY WordFacts
      <3>2. receiveBuf' \in [Cells -> AnyWord]
        <4> DEFINE z == [i \in 0..Total(receiveSize) - 1 |-> Zero]
                   Hit(c) == \E i \in DOMAIN z : Slot(localReadPos + i) = c
                   At(c) == CHOOSE i \in DOMAIN z : Slot(localReadPos + i) = c
        <4>1. receiveBuf' = [c \in Cells |-> IF Hit(c) THEN z[At(c)] ELSE receiveBuf[c]]
          BY <2>4 DEF Wipe, Overlay
        <4>2. \A c \in Cells : Hit(c) => At(c) \in DOMAIN z
          OBVIOUS
        <4>3. \A i \in DOMAIN z : z[i] \in AnyWord
          BY <3>1
        <4> HIDE DEF Hit, At, z
        <4> QED
          BY <4>1, <4>2, <4>3, <1>3
      <3> QED
        BY <1>3, <2>4, <3>2 DEF Wipe
    <2>5. CASE Publish
      BY <1>3, <2>5 DEF Publish, Total
    <2> QED
      BY <2>1, <2>2, <2>3, <2>4, <2>5 DEF Receiver
  <1>5. BufferShape'
    BY <1>1, <1>2, <1>4 DEF BufferShape, senderVars, adapterVars
  <1>6. SliceShape' /\ WordsShape'
    BY <1>1, <1>2 DEF SliceShape, WordsShape, IsMessageBuffer, senderVars, adapterVars, messageVars
  <1> QED
    BY <1>2, <1>5, <1>6 DEF Shape

\* Every step keeps the shape.
LEMMA ShapeSteps ==
    ASSUME Shape, [MessageNext]_allVars
    PROVE  Shape'
  <1>1. CASE BeginBuffer
    BY <1>1, BeginShape
  <1>2. CASE BufferSender
    <2>1. CASE IsMessageBuffer /\ (PostReadForPart \/ CopyPart \/ PostSlice \/ DrainSlice)
      BY <2>1, CopyShape, PostShape, DrainShape DEF PostReadForPart
    <2>2. CASE ~IsMessageBuffer /\ (PostRead \/ PostMessage \/ Drain) /\ UNCHANGED messageVars
      BY <2>2, PostShape, DrainShape DEF PostRead
    <2>3. CASE (PollRead \/ GetEvent \/ RequestNotify) /\ UNCHANGED messageVars
      BY <2>3, WaitShape
    <2> QED
      BY <1>2, <2>1, <2>2, <2>3 DEF BufferSender
  <1>3. CASE BufferAdapter
    BY <1>3, AdapterShape DEF BufferAdapter
  <1>4. CASE BufferReceiver \/ BeginReceiving
    BY <1>4, ReceiverShape DEF BufferReceiver, BeginReceiving
  <1>5. CASE UNCHANGED allVars
    BY <1>5 DEF Shape, BufferShape, SliceShape, WordsShape, IsMessageBuffer, allVars, vars,
                senderVars, adapterVars, receiverVars, messageVars
  <1> QED
    BY <1>1, <1>2, <1>3, <1>4, <1>5 DEF MessageNext
-----------------------------------------------------------------------------
(* The send queue                                                           *)

\* The most slots one completion gives back.
WindowSlots == Window * RequestsPerMessage

\* At most two signaled requests are under way: i and j, 0 for none.
Signals(i, j) ==
    /\ i < j \/ (i = 0 /\ j = 0)
    /\ \A k \in 1..Len(sq) : sq[k].signaled <=> k \in {i, j}

\* The slots that request k and the n-th completion will give back. All slots in
\* use are accounted for by them and by what was posted after the last of them.
Owed(k) == IF k > 0 THEN sq[k].frees ELSE 0
Owing(n) == IF n <= Len(cq.cqes) THEN cq.cqes[n].frees ELSE 0
Balance(i, j) ==
    /\ Owed(i) <= WindowSlots /\ Owed(j) <= WindowSlots
    /\ Owing(1) <= WindowSlots /\ Owing(2) <= WindowSlots
    /\ used = Owing(1) + Owing(2) + Owed(i) + Owed(j) + unsignaled

\* Signaled requests and completions together are two, and one between sends.
AtMostTwo(i, j) ==
    /\ i > 0 => Len(cq.cqes) = 0
    /\ j > 0 => Len(cq.cqes) <= 1
    /\ Len(cq.cqes) <= 2
Between(i, j) ==
    spc \in {"idle", "waitFree", "postSlice"} =>
        /\ i = 0 /\ Len(cq.cqes) <= 1
        /\ j > 0 => Len(cq.cqes) = 0 /\ cq.armed

\* Whoever waits has posted a signaled request last. The queue is armed unless
\* the event of an earlier completion is still to be taken.
Waiting(i, j) ==
    spc \in {"pollRead", "getEvent", "requestNotify", "drain"} =>
        /\ unsignaled = 0
        /\ spc = "getEvent" /\ i > 0 => cq.armed
        /\ spc \in {"requestNotify", "drain"} => i = 0
        /\ spc = "drain" /\ j > 0 => cq.armed

\* The READ being waited for is the last of them, and there is no other.
ReadLast(i, j) ==
    /\ i > 0 => sq[i].op = "write"
    /\ j > 0 => sq[j].op = IF spc = "pollRead" THEN "read" ELSE "write"
    /\ spc = "pollRead" /\ j = 0 => Len(cq.cqes) > 0
    /\ \A k \in 1..Len(cq.cqes) :
          cq.cqes[k].id = IF spc = "pollRead" /\ j = 0 /\ k = Len(cq.cqes) THEN ReadId ELSE WriteId

\* The queue is armed, or its event is on the channel, or it is being re-armed.
EventInv ==
    IF spc = "requestNotify" THEN ~cq.armed /\ cq.events = 0
    ELSE cq.events = IF cq.armed THEN 0 ELSE 1

\* Requests since the last signaled one: those of the messages since the last
\* multiple of Window, which was signaled.
MaxUnsignaled(n) ==
    RequestsPerMessage * (IF n % Window = 0 THEN Window - 1 ELSE (n % Window) - 1)

QueueOK(i, j) ==
    /\ Signals(i, j) /\ Balance(i, j) /\ AtMostTwo(i, j)
    /\ Between(i, j) /\ Waiting(i, j) /\ ReadLast(i, j)
QueueInv ==
    /\ EventInv /\ unsignaled <= MaxUnsignaled(messageCounter)
    /\ \E i, j \in 0..Len(sq) : QueueOK(i, j)

\* The remainder is determined by a division.
LEMMA ModUnique ==
    ASSUME NEW W \in Nat \ {0}, NEW x \in Nat, NEW q \in Int, NEW r \in 0..W - 1, x = (W * q) + r
    PROVE  x % W = r
  <1> DEFINE p == q - (x \div W)
             d == (x % W) - r
  <1>1. x = (W * (x \div W)) + (x % W) /\ x \div W \in Int /\ x % W \in 0..W - 1
    OBVIOUS
  <1>2. p \in Int /\ d \in Int /\ d < W /\ -W < d
    BY <1>1
  <1>3. W * p = d
    BY <1>1
  <1> HIDE DEF p, d
  <1>4. CASE p = 0
    BY <1>1, <1>3, <1>4 DEF d
  <1>5. CASE p >= 1
    <2>1. W * p >= W
      BY <1>2, <1>5
    <2> QED
      BY <2>1, <1>2, <1>3
  <1>6. CASE p <= -1
    <2>1. W * p <= -W
      BY <1>2, <1>6
    <2> QED
      BY <2>1, <1>2, <1>3
  <1> QED
    BY <1>2, <1>4, <1>5, <1>6

\* The next number's remainder.
LEMMA ModNext ==
    ASSUME NEW W \in Nat \ {0}, NEW x \in Nat
    PROVE  /\ x % W \in 0..W - 1
           /\ (x + 1) % W = IF x % W = W - 1 THEN 0 ELSE (x % W) + 1
  <1> DEFINE q == x \div W
             r == x % W
  <1>1. x = (W * q) + r /\ q \in Int /\ r \in 0..W - 1
    OBVIOUS
  <1> HIDE DEF q, r
  <1>2. CASE r = W - 1
    <2> DEFINE y == x + 1
               p == q + 1
    <2>1. W * p = (W * q) + W
      BY <1>1
    <2>2. y \in Nat /\ p \in Int /\ y = (W * p) + 0 /\ 0 \in 0..W - 1
      BY <1>1, <1>2, <2>1
    <2> HIDE DEF y, p
    <2>3. y % W = 0
      BY <2>2, ModUnique
    <2> QED
      BY <1>1, <1>2, <2>3 DEF y, r
  <1>3. CASE r # W - 1
    <2> DEFINE y == x + 1
               s == r + 1
    <2>1. y \in Nat /\ s \in 0..W - 1 /\ y = (W * q) + s
      BY <1>1, <1>3
    <2> HIDE DEF y, s
    <2>2. y % W = s
      BY <2>1, <1>1, ModUnique
    <2> QED
      BY <1>1, <1>3, <2>2 DEF y, r, s
  <1> QED
    BY <1>2, <1>3

\* How many requests may be unsignaled.
LEMMA UnsignaledFacts ==
    ASSUME NEW n \in Nat
    PROVE  /\ RequestsPerMessage \in {1, 2} /\ WindowSlots \in Nat
           /\ 2 * Window * RequestsPerMessage = WindowSlots + WindowSlots
           /\ MaxUnsignaled(n) \in Nat /\ MaxUnsignaled(n) + RequestsPerMessage <= WindowSlots
           /\ MaxUnsignaled(n + 1) \in Nat
           /\ n % Window # 0 => MaxUnsignaled(n + 1) = MaxUnsignaled(n) + RequestsPerMessage
  <1> DEFINE R == RequestsPerMessage
             r == n % Window
             s == (n + 1) % Window
             a == IF r = 0 THEN Window - 1 ELSE r - 1
             b == IF s = 0 THEN Window - 1 ELSE s - 1
  <1>1. R \in {1, 2}
    BY DEF RequestsPerMessage
  <1>2. Window \in Nat /\ Window >= 1
    BY WindowAssumption
  <1>3. r \in 0..Window - 1 /\ s = IF r = Window - 1 THEN 0 ELSE r + 1
    BY WindowAssumption, ModNext
  <1>4. MaxUnsignaled(n) = R * a /\ MaxUnsignaled(n + 1) = R * b /\ WindowSlots = Window * R
    BY DEF MaxUnsignaled, WindowSlots
  <1> HIDE DEF R, r, s
  <1>5. /\ a \in Nat /\ b \in Nat /\ a + 1 <= Window
        /\ r # 0 => b = a + 1
    BY <1>2, <1>3
  <1> HIDE DEF a, b
  <1>6. /\ R * a \in Nat /\ R * b \in Nat /\ Window * R \in Nat /\ (R * a) + R <= Window * R
        /\ 2 * Window * R = (Window * R) + (Window * R)
        /\ r # 0 => R * b = (R * a) + R
    <2>1. CASE R = 1
      BY <1>2, <1>5, <2>1
    <2>2. CASE R = 2
      BY <1>2, <1>5, <2>2
    <2> QED
      BY <1>1, <2>1, <2>2
  <1> QED
    BY <1>1, <1>4, <1>6 DEF R, r

\* Requests and completions free a number of slots.
LEMMA Amounts ==
    ASSUME BufferShape
    PROVE  /\ Len(sq) \in Nat /\ Len(cq.cqes) \in Nat
           /\ \A k \in 0..Len(sq) : Owed(k) \in Nat /\ (k = 0 => Owed(k) = 0)
           /\ Owing(1) \in Nat /\ Owing(2) \in Nat
           /\ Len(cq.cqes) = 0 => Owing(1) = 0 /\ Owing(2) = 0
           /\ Len(cq.cqes) <= 1 => Owing(2) = 0
  <1> DEFINE C == [id : {ReadId, WriteId}, frees : Nat]
             s == cq.cqes
  <1>1. sq \in Seq(Request) /\ s \in Seq(C)
    BY DEF BufferShape, Queue
  <1>2. \A r \in Request : r.frees \in Nat
    BY DEF Request
  <1>3. \A c \in C : c.frees \in Nat
    OBVIOUS
  <1> HIDE DEF C, s
  <1>4. /\ Len(sq) \in Nat /\ Len(s) \in Nat
        /\ \A k \in 1..Len(sq) : sq[k] \in Request
        /\ \A k \in 1..Len(s) : s[k] \in C
    BY <1>1
  <1>5. \A k \in 1..Len(sq) : sq[k].frees \in Nat
    BY <1>2, <1>4
  <1>6. \A k \in 1..Len(s) : s[k].frees \in Nat
    BY <1>3, <1>4
  <1>7. \A k \in 0..Len(sq) : Owed(k) \in Nat /\ (k = 0 => Owed(k) = 0)
    BY <1>4, <1>5 DEF Owed
  <1>8. /\ Owing(1) \in Nat /\ Owing(2) \in Nat
        /\ Len(s) = 0 => Owing(1) = 0 /\ Owing(2) = 0
        /\ Len(s) <= 1 => Owing(2) = 0
    BY <1>4, <1>6 DEF Owing, s
  <1> QED
    BY <1>4, <1>7, <1>8 DEF s

\* The slots in use are those of two windows at most.
LEMMA QueueBound ==
    ASSUME Shape, QueueInv
    PROVE  SendQueueBounded
  <1>1. /\ messageCounter \in Nat /\ unsignaled \in Nat /\ used \in Int /\ sq \in Seq(Request)
        /\ cq \in Queue
        /\ spc \in {"idle", "waitFree", "pollRead", "postSlice", "getEvent", "requestNotify", "drain"}
    BY DEF Shape, BufferShape
  <1>2. PICK i \in 0..Len(sq), j \in 0..Len(sq) : QueueOK(i, j)
    BY DEF QueueInv
  <1>3. Balance(i, j) /\ AtMostTwo(i, j) /\ Between(i, j) /\ Waiting(i, j) /\ Signals(i, j)
    BY <1>2 DEF QueueOK
  <1>4. /\ i \in Nat /\ j \in Nat /\ Len(sq) \in Nat /\ i <= Len(sq) /\ j <= Len(sq)
    BY <1>1
  <1>5. /\ unsignaled + RequestsPerMessage <= WindowSlots /\ WindowSlots \in Nat
        /\ RequestsPerMessage \in {1, 2}
        /\ 2 * Window * RequestsPerMessage = WindowSlots + WindowSlots
    <2>1. unsignaled <= MaxUnsignaled(messageCounter)
      BY DEF QueueInv
    <2>2. /\ RequestsPerMessage \in {1, 2} /\ WindowSlots \in Nat
          /\ 2 * Window * RequestsPerMessage = WindowSlots + WindowSlots
          /\ MaxUnsignaled(messageCounter) \in Nat
          /\ MaxUnsignaled(messageCounter) + RequestsPerMessage <= WindowSlots
      BY <1>1, UnsignaledFacts
    <2> DEFINE m == MaxUnsignaled(messageCounter)
               R == RequestsPerMessage
    <2>3. unsignaled <= m /\ m \in Nat /\ R \in {1, 2} /\ m + R <= WindowSlots
      BY <2>1, <2>2
    <2> HIDE DEF m, R
    <2>4. unsignaled + R <= WindowSlots
      BY <1>1, <2>2, <2>3
    <2> QED
      BY <2>2, <2>4 DEF R
  <1>6. Len(cq.cqes) \in Nat
    BY <1>1 DEF Queue
  <1>7. /\ Owed(i) \in Nat /\ Owed(j) \in Nat
        /\ i = 0 => Owed(i) = 0
        /\ j = 0 => Owed(j) = 0
    BY Amounts DEF Shape
  <1>8. /\ Owing(1) \in Nat /\ Owing(2) \in Nat
        /\ Len(cq.cqes) = 0 => Owing(1) = 0 /\ Owing(2) = 0
        /\ Len(cq.cqes) <= 1 => Owing(2) = 0
    BY Amounts DEF Shape
  <1>9. (Len(cq.cqes) <= 1 /\ (j > 0 => Len(cq.cqes) = 0) /\ i = 0) \/ unsignaled = 0
    BY <1>1, <1>3 DEF Between, Waiting
  <1>10. /\ i > 0 => j > 0 /\ Len(cq.cqes) = 0
         /\ j > 0 => Len(cq.cqes) <= 1
         /\ Len(cq.cqes) <= 2
    BY <1>3, <1>4 DEF Signals, AtMostTwo
  <1>11. /\ Owed(i) <= WindowSlots /\ Owed(j) <= WindowSlots
         /\ Owing(1) <= WindowSlots /\ Owing(2) <= WindowSlots
         /\ used = Owing(1) + Owing(2) + Owed(i) + Owed(j) + unsignaled
    BY <1>3 DEF Balance
  <1> DEFINE a == Owed(i)
             b == Owed(j)
             c == Owing(1)
             d == Owing(2)
             n == Len(cq.cqes)
             R == RequestsPerMessage
  <1>12. used <= WindowSlots + WindowSlots
    <2>1. /\ a \in Nat /\ b \in Nat /\ c \in Nat /\ d \in Nat /\ n \in Nat /\ R \in {1, 2}
          /\ i = 0 => a = 0
          /\ j = 0 => b = 0
          /\ n = 0 => c = 0 /\ d = 0
          /\ n <= 1 => d = 0
          /\ (n <= 1 /\ (j > 0 => n = 0) /\ i = 0) \/ unsignaled = 0
          /\ i > 0 => j > 0 /\ n = 0
          /\ j > 0 => n <= 1
          /\ a <= WindowSlots /\ b <= WindowSlots /\ c <= WindowSlots /\ d <= WindowSlots
          /\ used = c + d + a + b + unsignaled /\ unsignaled + R <= WindowSlots
      BY <1>5, <1>6, <1>7, <1>8, <1>9, <1>10, <1>11
    <2> HIDE DEF a, b, c, d, n, R
    <2> QED
      BY <2>1, <1>1, <1>4, <1>5
  <1> QED
    BY <1>5, <1>12 DEF SendQueueBounded

\* At the beginning nothing is posted.
LEMMA QueueStarts ==
    ASSUME MessageInit, Shape
    PROVE  QueueInv
  <1>1. /\ sq = <<>> /\ cq = NewQueue /\ used = 0 /\ unsignaled = 0 /\ messageCounter = 0
        /\ spc = "idle"
    BY DEF MessageInit, Init
  <1>2. cq.cqes = <<>> /\ cq.armed /\ cq.events = 0
    BY <1>1 DEF NewQueue
  <1>3. Len(sq) = 0 /\ Len(cq.cqes) = 0
    BY <1>1, <1>2
  <1>4. EventInv
    BY <1>1, <1>2 DEF EventInv
  <1>5. 0 \in Nat /\ MaxUnsignaled(0) \in Nat /\ WindowSlots \in Nat
    BY UnsignaledFacts
  <1>6. unsignaled <= MaxUnsignaled(messageCounter)
    BY <1>1, <1>5
  <1>7. Owed(0) = 0 /\ Owing(1) = 0 /\ Owing(2) = 0
    BY <1>3 DEF Owed, Owing
  <1>8. Balance(0, 0)
    BY <1>1, <1>5, <1>7 DEF Balance
  <1>9. Signals(0, 0) /\ AtMostTwo(0, 0) /\ Between(0, 0) /\ Waiting(0, 0) /\ ReadLast(0, 0)
    BY <1>1, <1>3 DEF Signals, AtMostTwo, Between, Waiting, ReadLast
  <1>10. 0 \in 0..Len(sq)
    BY <1>3
  <1> QED
    BY <1>4, <1>6, <1>8, <1>9, <1>10 DEF QueueInv, QueueOK

\* Steps that change neither the queue's requests nor what they free.
LEMMA QueueSame ==
    ASSUME Shape, QueueInv, UNCHANGED <<cq, used, unsignaled, messageCounter>>,
           Len(sq') = Len(sq),
           \A k \in 1..Len(sq) : /\ sq'[k].signaled = sq[k].signaled /\ sq'[k].op = sq[k].op
                                 /\ sq'[k].frees = sq[k].frees,
           spc' = spc \/ (spc \in {"idle", "waitFree", "postSlice"}
                          /\ spc' \in {"idle", "waitFree", "postSlice"})
    PROVE  QueueInv'
  <1>1. PICK i \in 0..Len(sq), j \in 0..Len(sq) : QueueOK(i, j)
    BY DEF QueueInv
  <1>2. /\ Signals(i, j) /\ Balance(i, j) /\ AtMostTwo(i, j) /\ Between(i, j) /\ Waiting(i, j)
        /\ ReadLast(i, j)
    BY <1>1 DEF QueueOK
  <1>3. Len(sq) \in Nat
    BY Amounts DEF Shape
  <1>4. i \in 0..Len(sq') /\ j \in 0..Len(sq')
    OBVIOUS
  <1>5. Signals(i, j)'
    BY <1>2 DEF Signals
  <1>6. /\ Owed(i)' = Owed(i) /\ Owed(j)' = Owed(j)
        /\ Owing(1)' = Owing(1) /\ Owing(2)' = Owing(2)
    BY <1>3 DEF Owed, Owing
  <1>7. Balance(i, j)'
    BY <1>2, <1>6 DEF Balance
  <1>8. AtMostTwo(i, j)' /\ Between(i, j)' /\ Waiting(i, j)'
    BY <1>2 DEF AtMostTwo, Between, Waiting
  <1>9. ReadLast(i, j)'
    <2>1. spc' = "pollRead" <=> spc = "pollRead"
      OBVIOUS
    <2> QED
      BY <1>2, <1>3, <2>1 DEF ReadLast
  <1>10. EventInv'
    BY DEF QueueInv, EventInv
  <1>11. MaxUnsignaled(messageCounter)' = MaxUnsignaled(messageCounter)
    OBVIOUS
  <1>12. (unsignaled <= MaxUnsignaled(messageCounter))'
    BY <1>11 DEF QueueInv
  <1> QED
    BY <1>4, <1>5, <1>7, <1>8, <1>9, <1>10, <1>12 DEF QueueInv, QueueOK

\* Requests are posted between two waits.
LEMMA QueuePosted ==
    ASSUME Shape, QueueInv, spc \in {"waitFree", "postSlice"},
           NEW c \in 1..RequestsPerMessage, NEW signaled \in BOOLEAN, NEW op \in {"read", "write"},
           Posted(c, signaled, op), cq' = cq, used' = used + c,
           unsignaled' = IF signaled THEN 0 ELSE unsignaled + c,
           signaled => /\ spc' = IF op = "read" THEN "pollRead" ELSE "getEvent"
                       /\ messageCounter' = messageCounter,
           ~signaled => /\ spc' \in {"idle", "postSlice"} /\ messageCounter % Window # 0
                        /\ messageCounter' = messageCounter + 1
    PROVE  QueueInv'
  <1>1. PICK i \in 0..Len(sq), j \in 0..Len(sq) : QueueOK(i, j)
    BY DEF QueueInv
  <1>2. /\ Signals(i, j) /\ Balance(i, j) /\ AtMostTwo(i, j) /\ Between(i, j) /\ Waiting(i, j)
        /\ ReadLast(i, j)
    BY <1>1 DEF QueueOK
  <1>3. PICK N : N = Len(sq)
    OBVIOUS
  <1>4. /\ N \in Nat /\ Len(cq.cqes) \in Nat /\ unsignaled \in Nat /\ used \in Int
        /\ messageCounter \in Nat
    BY <1>3, Amounts DEF Shape, BufferShape
  <1>5. /\ RequestsPerMessage \in {1, 2} /\ WindowSlots \in Nat
        /\ MaxUnsignaled(messageCounter) \in Nat
        /\ MaxUnsignaled(messageCounter) + RequestsPerMessage <= WindowSlots
        /\ MaxUnsignaled(messageCounter + 1) \in Nat
        /\ messageCounter % Window # 0 =>
              MaxUnsignaled(messageCounter + 1) = MaxUnsignaled(messageCounter) + RequestsPerMessage
        /\ unsignaled <= MaxUnsignaled(messageCounter)
    BY <1>4, UnsignaledFacts DEF QueueInv
  <1>6. c \in Nat /\ c >= 1 /\ c <= RequestsPerMessage
    BY <1>5
  <1>7. /\ i = 0 /\ Len(cq.cqes) <= 1 /\ j \in Nat /\ j <= N
        /\ j > 0 => Len(cq.cqes) = 0 /\ cq.armed
    BY <1>2, <1>3, <1>4 DEF Between
  <1>8. /\ Len(sq') = N + c /\ \A k \in 1..N : sq'[k] = sq[k]
        /\ \A k \in N + 1..N + c : sq'[k].op = op /\ (sq'[k].signaled <=> signaled /\ k = N + c)
        /\ signaled => sq'[N + c].frees = unsignaled + c
    BY <1>3 DEF Posted
  <1>9. spc \notin {"pollRead", "requestNotify"} /\ spc' # "requestNotify"
    OBVIOUS
  <1>10. EventInv'
    BY <1>9 DEF QueueInv, EventInv
  <1>11. unsignaled + c <= WindowSlots
    <2> DEFINE m == MaxUnsignaled(messageCounter)
               R == RequestsPerMessage
    <2>1. m \in Nat /\ R \in {1, 2} /\ m + R <= WindowSlots /\ unsignaled <= m /\ c <= R
      BY <1>5, <1>6
    <2> HIDE DEF m, R
    <2> QED
      BY <2>1, <1>4, <1>5, <1>6
  <1>12. (unsignaled <= MaxUnsignaled(messageCounter))'
    <2>1. CASE signaled
      <3>1. unsignaled' = 0 /\ MaxUnsignaled(messageCounter)' = MaxUnsignaled(messageCounter)
        BY <2>1
      <3> QED
        BY <3>1, <1>5
    <2>2. CASE ~signaled
      <3>1. /\ unsignaled' = unsignaled + c
            /\ MaxUnsignaled(messageCounter)' = MaxUnsignaled(messageCounter + 1)
        BY <2>2
      <3>2. unsignaled + c <= MaxUnsignaled(messageCounter + 1)
        <4> DEFINE m == MaxUnsignaled(messageCounter)
                   q == MaxUnsignaled(messageCounter + 1)
                   R == RequestsPerMessage
        <4>1. m \in Nat /\ R \in {1, 2} /\ q = m + R /\ unsignaled <= m /\ c <= R
          BY <2>2, <1>5, <1>6
        <4> HIDE DEF m, q, R
        <4>2. unsignaled + c <= q
          BY <4>1, <1>4, <1>6
        <4> QED
          BY <4>2 DEF q
      <3> QED
        BY <3>1, <3>2
    <2> QED
      BY <2>1, <2>2
  <1>13. Owing(1)' = Owing(1) /\ Owing(2)' = Owing(2) /\ Owed(j)' = Owed(j) /\ Owed(0)' = 0
    BY <1>7, <1>8 DEF Owing, Owed
  <1>14. Owed(0) = 0 /\ Owed(j) \in Nat /\ Owing(1) \in Nat /\ Owing(2) \in Nat
    BY <1>3, <1>7, Amounts DEF Shape
  <1>15. /\ Owed(j) <= WindowSlots /\ Owing(1) <= WindowSlots /\ Owing(2) <= WindowSlots
         /\ used = Owing(1) + Owing(2) + Owed(0) + Owed(j) + unsignaled
    BY <1>2, <1>7 DEF Balance
  <1>16. \A k \in 1..N : sq[k].signaled <=> k = j
    BY <1>2, <1>3, <1>4, <1>7 DEF Signals
  <1>17. \A k \in 1..N + c : k \in 1..N \/ k \in N + 1..N + c
    BY <1>4, <1>6
  <1>18. CASE signaled
    <2>1. PICK b : b = N + c
      OBVIOUS
    <2>2. b \in Nat /\ b > N /\ b > 0 /\ j < b /\ b \in 0..Len(sq') /\ j \in 0..Len(sq')
      BY <2>1, <1>4, <1>6, <1>7, <1>8
    <2>3. Signals(j, b)'
      <3>1. ASSUME NEW k \in 1..N + c PROVE sq'[k].signaled <=> k \in {j, b}
        <4>1. CASE k \in 1..N
          BY <4>1, <2>1, <2>2, <1>4, <1>8, <1>16
        <4>2. CASE k \in N + 1..N + c
          BY <4>2, <1>18, <2>1, <2>2, <1>4, <1>7, <1>8
        <4> QED
          BY <4>1, <4>2, <1>17
      <3> QED
        BY <3>1, <2>2, <1>8 DEF Signals
    <2>4. Owed(b)' = unsignaled + c /\ unsignaled' = 0
      BY <1>18, <2>1, <2>2, <1>8 DEF Owed
    <2>5. Balance(j, b)'
      <3> DEFINE o == Owed(j)
                 p == Owing(1)
                 q == Owing(2)
      <3>1. /\ o \in Nat /\ p \in Nat /\ q \in Nat /\ used = p + q + 0 + o + unsignaled
            /\ o <= WindowSlots /\ p <= WindowSlots /\ q <= WindowSlots
        BY <1>14, <1>15
      <3>2. /\ Owed(j)' = o /\ Owing(1)' = p /\ Owing(2)' = q
            /\ Owed(b)' = unsignaled + c /\ unsignaled' = 0 /\ used' = used + c
        BY <2>4, <1>13
      <3> HIDE DEF o, p, q
      <3>3. used + c = p + q + o + (unsignaled + c) + 0
        BY <3>1, <1>4, <1>6
      <3> QED
        BY <3>1, <3>2, <3>3, <1>11 DEF Balance
    <2>6. AtMostTwo(j, b)'
      BY <1>4, <1>7 DEF AtMostTwo
    <2>7. spc' = (IF op = "read" THEN "pollRead" ELSE "getEvent")
      BY <1>18
    <2>8. Between(j, b)' /\ Waiting(j, b)'
      BY <2>4, <2>7, <1>7 DEF Between, Waiting
    <2>9. ReadLast(j, b)'
      <3>1. j > 0 => sq'[j].op = "write"
        BY <1>2, <1>4, <1>7, <1>8, <1>9 DEF ReadLast
      <3>2. sq'[b].op = IF spc' = "pollRead" THEN "read" ELSE "write"
        BY <2>1, <2>2, <2>7, <1>4, <1>6, <1>8
      <3>3. \A k \in 1..Len(cq'.cqes) : cq'.cqes[k].id = WriteId
        BY <1>2, <1>9 DEF ReadLast
      <3>4. b # 0 /\ b > 0
        BY <2>2
      <3> QED
        BY <3>1, <3>2, <3>3, <3>4 DEF ReadLast
    <2> QED
      BY <2>2, <2>3, <2>5, <2>6, <2>8, <2>9, <1>10, <1>12 DEF QueueInv, QueueOK
  <1>19. CASE ~signaled
    <2>1. 0 \in 0..Len(sq') /\ j \in 0..Len(sq')
      BY <1>4, <1>6, <1>7, <1>8
    <2>2. Signals(0, j)'
      <3>1. ASSUME NEW k \in 1..N + c PROVE sq'[k].signaled <=> k \in {0, j}
        <4>1. CASE k \in 1..N
          BY <4>1, <1>4, <1>8, <1>16
        <4>2. CASE k \in N + 1..N + c
          BY <4>2, <1>19, <1>4, <1>7, <1>8
        <4> QED
          BY <4>1, <4>2, <1>17
      <3> QED
        BY <3>1, <1>7, <1>8 DEF Signals
    <2>3. Balance(0, j)'
      <3> DEFINE o == Owed(j)
                 p == Owing(1)
                 q == Owing(2)
      <3>1. /\ o \in Nat /\ p \in Nat /\ q \in Nat /\ used = p + q + 0 + o + unsignaled
            /\ o <= WindowSlots /\ p <= WindowSlots /\ q <= WindowSlots
        BY <1>14, <1>15
      <3>2. /\ Owed(j)' = o /\ Owing(1)' = p /\ Owing(2)' = q /\ Owed(0)' = 0
            /\ unsignaled' = unsignaled + c /\ used' = used + c
        BY <1>13, <1>19
      <3> HIDE DEF o, p, q
      <3>3. used + c = p + q + 0 + o + (unsignaled + c) /\ 0 <= WindowSlots
        BY <3>1, <1>4, <1>5, <1>6
      <3> QED
        BY <3>1, <3>2, <3>3 DEF Balance
    <2>4. AtMostTwo(0, j)'
      BY <1>4, <1>7 DEF AtMostTwo
    <2>5. spc' \in {"idle", "postSlice"}
      BY <1>19
    <2>6. Between(0, j)' /\ Waiting(0, j)'
      BY <2>5, <1>7 DEF Between, Waiting
    <2>7. ReadLast(0, j)'
      <3>1. j > 0 => sq'[j].op = "write"
        BY <1>2, <1>4, <1>7, <1>8, <1>9 DEF ReadLast
      <3>2. \A k \in 1..Len(cq'.cqes) : cq'.cqes[k].id = WriteId
        BY <1>2, <1>9 DEF ReadLast
      <3> QED
        BY <2>5, <3>1, <3>2 DEF ReadLast
    <2> QED
      BY <2>1, <2>2, <2>3, <2>4, <2>6, <2>7, <1>10, <1>12 DEF QueueInv, QueueOK
  <1> QED
    BY <1>18, <1>19

\* A completion is polled: by the wait for a READ, or after an event.
LEMMA QueuePolled ==
    ASSUME Shape, QueueInv, HasCompletion(cq), cq' = Polled(cq), sq' = sq,
           used' = used - NextCompletion(cq).frees, UNCHANGED <<unsignaled, messageCounter>>,
           \/ spc = "drain" /\ spc' = "drain"
           \/ /\ spc = "pollRead"
              /\ spc' = IF NextCompletion(cq).id = ReadId THEN "waitFree" ELSE "pollRead"
    PROVE  QueueInv'
  <1>1. PICK i \in 0..Len(sq), j \in 0..Len(sq) : QueueOK(i, j)
    BY DEF QueueInv
  <1>2. /\ Signals(i, j) /\ Balance(i, j) /\ AtMostTwo(i, j) /\ Between(i, j) /\ Waiting(i, j)
        /\ ReadLast(i, j)
    BY <1>1 DEF QueueOK
  <1>3. PICK n : n = Len(cq.cqes)
    OBVIOUS
  <1>4. /\ Len(sq) \in Nat /\ n \in Nat /\ unsignaled \in Nat /\ used \in Int /\ cq \in Queue
        /\ i \in Nat /\ j \in Nat
    BY <1>3, Amounts DEF Shape, BufferShape
  <1>5. /\ n > 0 /\ Len(cq'.cqes) = n - 1
        /\ cq'.armed = cq.armed /\ cq'.events = cq.events
        /\ \A k \in 1..n - 1 : cq'.cqes[k] = cq.cqes[k + 1]
        /\ NextCompletion(cq) = cq.cqes[1]
    BY <1>3, <1>4, PolledQueue
  <1>6. /\ i = 0 /\ n <= 2 /\ (j > 0 => n = 1)
    <2>1. (i > 0 => n = 0) /\ (j > 0 => n <= 1) /\ n <= 2
      BY <1>2, <1>3 DEF AtMostTwo
    <2> QED
      BY <2>1, <1>4, <1>5
  <1>7. /\ Owed(0) = 0 /\ Owed(j) \in Nat /\ Owing(1) \in Nat /\ Owing(2) \in Nat
        /\ n <= 1 => Owing(2) = 0
    BY <1>3, <1>4, Amounts DEF Shape
  <1>8. NextCompletion(cq).frees = Owing(1) /\ Owing(1)' = Owing(2) /\ Owing(2)' = 0
    <2>1. Owing(1) = cq.cqes[1].frees
      BY <1>3, <1>4, <1>5 DEF Owing
    <2>2. Owing(2)' = 0
      BY <1>4, <1>5, <1>6 DEF Owing
    <2>3. CASE n = 1
      BY <2>3, <1>3, <1>5 DEF Owing
    <2>4. CASE n = 2
      <3>1. cq'.cqes[1] = cq.cqes[2] /\ Len(cq'.cqes) = 1
        <4>1. 1 \in 1..n - 1 /\ 1 + 1 = 2 /\ n - 1 = 1
          BY <2>4
        <4>2. cq'.cqes[1] = cq.cqes[1 + 1]
          BY <4>1, <1>5
        <4> QED
          BY <4>1, <4>2, <1>5
      <3>2. Owing(1)' = cq'.cqes[1].frees
        BY <3>1 DEF Owing
      <3>3. Owing(2) = cq.cqes[2].frees
        BY <2>4, <1>3 DEF Owing
      <3> QED
        BY <3>1, <3>2, <3>3, <2>1, <2>2, <1>5
    <2> QED
      BY <2>1, <2>2, <2>3, <2>4, <1>4, <1>5, <1>6
  <1>9. Owed(0)' = 0 /\ Owed(j)' = Owed(j)
    BY DEF Owed
  <1>10. Balance(0, j)'
    <2> DEFINE o == Owed(j)
               p == Owing(1)
               q == Owing(2)
    <2>1. /\ o \in Nat /\ p \in Nat /\ q \in Nat /\ used = p + q + 0 + o + unsignaled
          /\ o <= WindowSlots /\ q <= WindowSlots
      BY <1>2, <1>6, <1>7 DEF Balance
    <2>2. /\ Owed(j)' = o /\ Owed(0)' = 0 /\ Owing(1)' = q /\ Owing(2)' = 0
          /\ used' = used - p
      BY <1>8, <1>9
    <2>3. WindowSlots \in Nat
      BY UnsignaledFacts
    <2> HIDE DEF o, p, q
    <2>4. used - p = q + 0 + 0 + o + unsignaled /\ 0 <= WindowSlots
      BY <2>1, <2>3, <1>4
    <2> QED
      BY <2>1, <2>2, <2>4 DEF Balance
  <1>11. Signals(0, j)'
    BY <1>2, <1>6 DEF Signals
  <1>12. AtMostTwo(0, j)'
    BY <1>4, <1>5, <1>6 DEF AtMostTwo
  <1>13. Waiting(0, j)'
    <2>1. spc = "pollRead" \/ (spc = "drain" /\ spc' = "drain" /\ (j > 0 => cq.armed))
      BY <1>2 DEF Waiting
    <2>2. unsignaled = 0
      BY <1>2 DEF Waiting
    <2>3. spc' \in {"drain", "waitFree", "pollRead"}
      OBVIOUS
    <2> QED
      BY <2>1, <2>2, <2>3, <1>5 DEF Waiting
  <1>14. EventInv'
    BY <1>5 DEF QueueInv, EventInv
  <1>15. \A k \in 1..n : cq.cqes[k].id = IF spc = "pollRead" /\ j = 0 /\ k = n THEN ReadId ELSE WriteId
    BY <1>2, <1>3 DEF ReadLast
  <1>16. ReadId # WriteId
    BY DEF ReadId, WriteId
  <1>17. Between(0, j)' /\ ReadLast(0, j)'
    <2>1. CASE spc = "drain"
      <3>1. ASSUME NEW k \in 1..n - 1 PROVE cq'.cqes[k].id = WriteId
        <4>1. k + 1 \in 1..n /\ cq'.cqes[k] = cq.cqes[k + 1]
          BY <1>4, <1>5
        <4> QED
          BY <4>1, <2>1, <1>15
      <3>2. spc' = "drain" /\ (j > 0 => sq'[j].op = "write")
        BY <2>1, <1>2 DEF ReadLast
      <3> QED
        BY <3>1, <3>2, <1>5 DEF Between, ReadLast
    <2>2. CASE spc = "pollRead" /\ j = 0 /\ n = 1
      <3>1. NextCompletion(cq).id = ReadId
        BY <2>2, <1>5, <1>15
      <3>2. spc' = "waitFree" /\ Len(cq'.cqes) = 0
        BY <3>1, <2>2, <1>5
      <3> QED
        BY <3>2, <2>2 DEF Between, ReadLast
    <2>3. CASE spc = "pollRead" /\ ~(j = 0 /\ n = 1)
      <3>1. NextCompletion(cq).id = WriteId
        BY <2>3, <1>4, <1>5, <1>15
      <3>2. spc' = "pollRead"
        BY <3>1, <1>16, <2>3
      <3>3. ASSUME NEW k \in 1..n - 1
            PROVE  cq'.cqes[k].id = IF j = 0 /\ k = n - 1 THEN ReadId ELSE WriteId
        <4>1. k + 1 \in 1..n /\ cq'.cqes[k] = cq.cqes[k + 1] /\ (k + 1 = n <=> k = n - 1)
          BY <1>4, <1>5
        <4> QED
          BY <4>1, <1>15, <2>3
      <3>4. j > 0 => sq'[j].op = "read"
        BY <2>3, <1>2 DEF ReadLast
      <3>5. j = 0 => n - 1 > 0
        BY <2>3, <1>4, <1>5
      <3> QED
        BY <3>2, <3>3, <3>4, <3>5, <1>5 DEF Between, ReadLast
    <2> QED
      BY <2>1, <2>2, <2>3
  <1>18. (unsignaled <= MaxUnsignaled(messageCounter))'
    BY DEF QueueInv
  <1>19. 0 \in 0..Len(sq') /\ j \in 0..Len(sq')
    BY <1>4
  <1> QED
    BY <1>10, <1>11, <1>12, <1>13, <1>14, <1>17, <1>18, <1>19 DEF QueueInv, QueueOK

\* An event is taken, the queue re-armed, and found empty.
LEMMA QueueWaited ==
    ASSUME Shape, QueueInv, UNCHANGED <<sq, used, unsignaled>>,
           \/ GetEvent
           \/ RequestNotify
           \/ /\ spc = "drain" /\ ~HasCompletion(cq) /\ cq' = cq
              /\ spc' \in {"idle", "postSlice"} /\ messageCounter' = messageCounter + 1
    PROVE  QueueInv'
  <1>1. PICK i \in 0..Len(sq), j \in 0..Len(sq) : QueueOK(i, j)
    BY DEF QueueInv
  <1>2. /\ Signals(i, j) /\ Balance(i, j) /\ AtMostTwo(i, j) /\ Between(i, j) /\ Waiting(i, j)
        /\ ReadLast(i, j) /\ EventInv
    BY <1>1 DEF QueueOK, QueueInv
  <1>3. /\ Len(sq) \in Nat /\ unsignaled \in Nat /\ cq \in Queue /\ messageCounter \in Nat
        /\ i \in Nat /\ j \in Nat /\ cq.armed \in BOOLEAN /\ cq.events \in Nat
    BY Amounts DEF Shape, BufferShape, Queue
  <1>4. cq'.cqes = cq.cqes
    BY <1>3 DEF GetEvent, RequestNotify, EventTaken, NotifyRequested, Queue
  <1>5. Signals(i, j)' /\ AtMostTwo(i, j)' /\ Balance(i, j)'
    BY <1>2, <1>4 DEF Signals, AtMostTwo, Balance, Owed, Owing
  <1>6. ReadLast(i, j)'
    <2>1. spc # "pollRead" /\ spc' # "pollRead"
      BY DEF GetEvent, RequestNotify
    <2> QED
      BY <1>2, <1>4, <2>1 DEF ReadLast
  <1>7. unsignaled' = 0 /\ unsignaled = 0
    BY <1>2 DEF Waiting, GetEvent, RequestNotify
  <1>8. (unsignaled <= MaxUnsignaled(messageCounter))'
    <2>1. MaxUnsignaled(messageCounter) \in Nat /\ MaxUnsignaled(messageCounter + 1) \in Nat
      BY <1>3, UnsignaledFacts
    <2>2. messageCounter' = messageCounter \/ messageCounter' = messageCounter + 1
      BY DEF GetEvent, RequestNotify
    <2>3. \/ MaxUnsignaled(messageCounter)' = MaxUnsignaled(messageCounter)
          \/ MaxUnsignaled(messageCounter)' = MaxUnsignaled(messageCounter + 1)
      BY <2>2
    <2> QED
      BY <1>7, <2>1, <2>3
  <1>9. Between(i, j)' /\ Waiting(i, j)' /\ EventInv'
    <2>1. CASE GetEvent
      <3>1. spc = "getEvent" /\ spc' = "requestNotify" /\ cq.events > 0 /\ cq' = EventTaken(cq)
        BY <2>1 DEF GetEvent, HasEvent
      <3>2. ~cq.armed /\ cq.events = 1
        BY <1>2, <1>3, <3>1 DEF EventInv
      <3>3. i = 0
        BY <1>2, <1>3, <3>1, <3>2 DEF Waiting
      <3>4. ~cq'.armed /\ cq'.events = 0
        BY <1>3, <3>1, <3>2 DEF EventTaken, Queue
      <3> QED
        BY <1>7, <3>1, <3>3, <3>4 DEF Between, Waiting, EventInv
    <2>2. CASE RequestNotify
      <3>1. spc = "requestNotify" /\ spc' = "drain" /\ cq' = NotifyRequested(cq)
        BY <2>2 DEF RequestNotify
      <3>2. i = 0 /\ cq.events = 0
        BY <1>2, <3>1 DEF Waiting, EventInv
      <3>3. cq'.armed /\ cq'.events = 0
        BY <1>3, <3>1, <3>2 DEF NotifyRequested, Queue
      <3> QED
        BY <1>7, <3>1, <3>2, <3>3 DEF Between, Waiting, EventInv
    <2>3. CASE spc = "drain" /\ ~HasCompletion(cq) /\ cq' = cq /\ spc' \in {"idle", "postSlice"}
      <3>1. i = 0 /\ (j > 0 => cq.armed) /\ Len(cq.cqes) = 0
        BY <1>2, <2>3 DEF Waiting, HasCompletion
      <3> QED
        BY <1>2, <2>3, <3>1 DEF Between, Waiting, EventInv
    <2> QED
      BY <2>1, <2>2, <2>3
  <1> QED
    BY <1>5, <1>6, <1>8, <1>9 DEF QueueInv, QueueOK

\* The oldest request is acknowledged.
LEMMA QueueAcknowledged ==
    ASSUME Shape, QueueInv, Acknowledge
    PROVE  QueueInv'
  <1>1. PICK i \in 0..Len(sq), j \in 0..Len(sq) : QueueOK(i, j)
    BY DEF QueueInv
  <1>2. /\ Signals(i, j) /\ Balance(i, j) /\ AtMostTwo(i, j) /\ Between(i, j) /\ Waiting(i, j)
        /\ ReadLast(i, j) /\ EventInv /\ unsignaled <= MaxUnsignaled(messageCounter)
    BY <1>1 DEF QueueOK, QueueInv
  <1>3. PICK n, N : n = Len(cq.cqes) /\ N = Len(sq)
    OBVIOUS
  <1>4. /\ N \in Nat /\ N >= 1 /\ n \in Nat /\ unsignaled \in Nat /\ used \in Int /\ cq \in Queue
        /\ i \in 0..N /\ j \in 0..N /\ cq.armed \in BOOLEAN /\ cq.events \in Nat
    BY <1>3, Amounts, Acknowledged DEF Shape, BufferShape, Queue
  <1>5. UNCHANGED <<spc, used, unsignaled, messageCounter>>
    BY DEF Acknowledge
  <1>6. /\ Len(sq') = N - 1 /\ \A k \in 1..N - 1 : sq'[k] = sq[k + 1]
        /\ sq[1] \in Request
        /\ cq' = IF sq[1].signaled
                 THEN Completed(cq, IF sq[1].op = "read" THEN ReadId ELSE WriteId, sq[1].frees)
                 ELSE cq
    BY <1>3, Acknowledged
  <1>7. (unsignaled <= MaxUnsignaled(messageCounter))'
    BY <1>2, <1>5
  <1>8. /\ i < j \/ (i = 0 /\ j = 0)
        /\ \A k \in 1..N : sq[k].signaled <=> k \in {i, j}
    BY <1>2, <1>3 DEF Signals
  <1>9. PICK a, b : a = (IF i = 0 THEN 0 ELSE i - 1) /\ b = (IF j = 0 THEN 0 ELSE j - 1)
    OBVIOUS
  <1>10. a \in 0..N - 1 /\ b \in 0..N - 1 /\ (a < b \/ (a = 0 /\ b = 0))
    BY <1>4, <1>8, <1>9
  <1>11. Signals(a, b)'
    <2>1. ASSUME NEW k \in 1..N - 1 PROVE sq'[k].signaled <=> k \in {a, b}
      <3>1. k + 1 \in 1..N /\ sq'[k] = sq[k + 1]
        BY <1>4, <1>6
      <3>2. k + 1 \in {i, j} <=> k \in {a, b}
        BY <1>4, <1>9
      <3> QED
        BY <3>1, <3>2, <1>8
    <2> QED
      BY <2>1, <1>6, <1>10 DEF Signals
  <1>12. /\ a > 0 => a + 1 = i /\ sq'[a] = sq[i]
         /\ b > 0 => b + 1 = j /\ sq'[b] = sq[j]
    <2>1. a > 0 => a + 1 = i /\ a \in 1..N - 1
      BY <1>4, <1>9, <1>10
    <2>2. b > 0 => b + 1 = j /\ b \in 1..N - 1
      BY <1>4, <1>9, <1>10
    <2> QED
      BY <2>1, <2>2, <1>6
  <1>13. /\ Owed(i) \in Nat /\ Owed(j) \in Nat /\ Owed(0) = 0 /\ Owing(1) \in Nat /\ Owing(2) \in Nat
         /\ n = 0 => Owing(1) = 0 /\ Owing(2) = 0
         /\ n <= 1 => Owing(2) = 0
    BY <1>3, <1>4, Amounts DEF Shape
  <1>14. /\ Owed(a)' = IF a > 0 THEN Owed(i) ELSE 0
         /\ Owed(b)' = IF b > 0 THEN Owed(j) ELSE 0
    BY <1>4, <1>10, <1>12 DEF Owed
  <1>15. /\ Owed(i) <= WindowSlots /\ Owed(j) <= WindowSlots
         /\ Owing(1) <= WindowSlots /\ Owing(2) <= WindowSlots
         /\ used = Owing(1) + Owing(2) + Owed(i) + Owed(j) + unsignaled
    BY <1>2 DEF Balance
  <1>16. /\ i > 0 => n = 0
         /\ j > 0 => n <= 1
         /\ n <= 2
    BY <1>2, <1>3 DEF AtMostTwo
  <1>17. /\ i > 0 => sq[i].op = "write"
         /\ j > 0 => sq[j].op = IF spc = "pollRead" THEN "read" ELSE "write"
         /\ spc = "pollRead" /\ j = 0 => n > 0
         /\ \A k \in 1..n :
               cq.cqes[k].id = IF spc = "pollRead" /\ j = 0 /\ k = n THEN ReadId ELSE WriteId
    BY <1>2, <1>3 DEF ReadLast
  <1>18. CASE ~sq[1].signaled
    <2>1. cq' = cq
      BY <1>6, <1>18
    <2>2. (a = 0 <=> i = 0) /\ (b = 0 <=> j = 0) /\ (a > 0 <=> i > 0) /\ (b > 0 <=> j > 0)
      <3>1. i # 1 /\ j # 1
        BY <1>4, <1>8, <1>18
      <3> QED
        BY <3>1, <1>4, <1>9
    <2>3. Owed(a)' = Owed(i) /\ Owed(b)' = Owed(j)
      BY <2>2, <1>4, <1>13, <1>14
    <2>4. Balance(a, b)'
      BY <2>1, <2>3, <1>5, <1>15 DEF Balance, Owing
    <2>5. AtMostTwo(a, b)' /\ Between(a, b)' /\ Waiting(a, b)'
      BY <2>1, <2>2, <1>2, <1>5 DEF AtMostTwo, Between, Waiting
    <2>6. ReadLast(a, b)'
      BY <2>1, <2>2, <1>3, <1>5, <1>12, <1>17 DEF ReadLast
    <2>7. EventInv'
      BY <2>1, <1>2, <1>5 DEF EventInv
    <2> QED
      BY <2>4, <2>5, <2>6, <2>7, <1>6, <1>7, <1>10, <1>11 DEF QueueInv, QueueOK
  <1>19. CASE sq[1].signaled
    <2>1. PICK id, f : id = (IF sq[1].op = "read" THEN ReadId ELSE WriteId) /\ f = sq[1].frees
      OBVIOUS
    <2>2. id \in {ReadId, WriteId} /\ f \in Nat /\ cq' = Completed(cq, id, f)
      BY <1>6, <1>19, <2>1 DEF Request
    <2>3. /\ ~cq'.armed /\ cq'.events = IF cq.armed THEN cq.events + 1 ELSE cq.events
          /\ Len(cq'.cqes) = n + 1
          /\ \A k \in 1..n : cq'.cqes[k] = cq.cqes[k]
          /\ cq'.cqes[n + 1].id = id /\ cq'.cqes[n + 1].frees = f
      <3>1. cq \in Queue /\ n = Len(cq.cqes)
        BY <1>3, <1>4
      <3>2. PICK q : q = cq'
        OBVIOUS
      <3>3. q = Completed(cq, id, f)
        BY <3>2, <2>2
      <3>4. /\ ~q.armed /\ q.events = IF cq.armed THEN cq.events + 1 ELSE cq.events
            /\ Len(q.cqes) = Len(cq.cqes) + 1
            /\ \A k \in 1..Len(cq.cqes) : q.cqes[k] = cq.cqes[k]
            /\ q.cqes[Len(cq.cqes) + 1].id = id /\ q.cqes[Len(cq.cqes) + 1].frees = f
        BY <2>2, <3>1, <3>3, CompletedQueue
      <3> QED
        BY <3>1, <3>2, <3>4
    <2>4. EventInv'
      BY <2>3, <1>2, <1>4, <1>5 DEF EventInv
    <2>5. 1 \in {i, j}
      BY <1>4, <1>8, <1>19
    <2>6. CASE i = 1
      <3>1. j > 1 /\ n = 0 /\ a = 0 /\ b > 0 /\ spc \in {"pollRead", "getEvent"}
        <4>1. j > 1 /\ n = 0 /\ a = 0 /\ b > 0
          BY <2>6, <1>4, <1>8, <1>9, <1>16
        <4>2. spc \notin {"idle", "waitFree", "postSlice", "requestNotify", "drain"}
          BY <2>6, <1>2 DEF Between, Waiting
        <4> QED
          BY <4>1, <4>2 DEF Shape, BufferShape
      <3>2. f = Owed(i) /\ id = WriteId
        BY <2>1, <2>6, <1>17 DEF Owed
      <3>3. Owing(1)' = Owed(i) /\ Owing(2)' = 0
        BY <2>3, <3>1, <3>2 DEF Owing
      <3>4. Balance(a, b)'
        <4> DEFINE o == Owed(i)
                   p == Owed(j)
        <4>1. /\ o \in Nat /\ p \in Nat /\ used = 0 + 0 + o + p + unsignaled
              /\ o <= WindowSlots /\ p <= WindowSlots
          BY <3>1, <1>13, <1>15
        <4>2. Owing(1)' = o /\ Owing(2)' = 0 /\ Owed(a)' = 0 /\ Owed(b)' = p
          BY <3>1, <3>3, <1>14
        <4>3. WindowSlots \in Nat
          BY UnsignaledFacts
        <4> HIDE DEF o, p
        <4>4. used = o + 0 + 0 + p + unsignaled /\ 0 <= WindowSlots
          BY <4>1, <4>3, <1>4
        <4> QED
          BY <4>1, <4>2, <4>4, <1>5 DEF Balance
      <3>5. AtMostTwo(a, b)'
        BY <2>3, <3>1 DEF AtMostTwo
      <3>6. Between(a, b)' /\ Waiting(a, b)'
        BY <3>1, <1>2, <1>5 DEF Between, Waiting
      <3>7. ReadLast(a, b)'
        <4>1. \A k \in 1..n + 1 : cq'.cqes[k].id = WriteId
          BY <2>3, <3>1, <3>2
        <4>2. b # 0
          BY <3>1
        <4> QED
          BY <4>1, <4>2, <2>3, <3>1, <1>5, <1>12, <1>17 DEF ReadLast
      <3> QED
        BY <2>4, <3>4, <3>5, <3>6, <3>7, <1>6, <1>7, <1>10, <1>11 DEF QueueInv, QueueOK
    <2>7. CASE i # 1
      <3>1. i = 0 /\ j = 1 /\ a = 0 /\ b = 0 /\ n <= 1
        BY <2>5, <2>7, <1>4, <1>8, <1>9, <1>16
      <3>2. f = Owed(j) /\ id = IF spc = "pollRead" THEN ReadId ELSE WriteId
        BY <2>1, <3>1, <1>17 DEF Owed
      <3>3. /\ n = 0 => Owing(1)' = Owed(j) /\ Owing(2)' = 0
            /\ n = 1 => Owing(1)' = Owing(1) /\ Owing(2)' = Owed(j)
        <4>1. CASE n = 0
          <5>1. Len(cq'.cqes) = 1 /\ cq'.cqes[1].frees = f
            BY <4>1, <2>3
          <5> QED
            BY <4>1, <5>1, <3>2 DEF Owing
        <4>2. CASE n = 1
          <5>1. Len(cq'.cqes) = 2 /\ cq'.cqes[2].frees = f /\ cq'.cqes[1] = cq.cqes[1]
            BY <4>2, <2>3
          <5> QED
            BY <4>2, <5>1, <3>2, <1>3 DEF Owing
        <4> QED
          BY <4>1, <4>2
      <3>4. Balance(a, b)'
        <4> DEFINE o == Owed(j)
                   p == Owing(1)
        <4>1. /\ o \in Nat /\ p \in Nat /\ used = p + 0 + 0 + o + unsignaled
              /\ n = 0 => p = 0
              /\ o <= WindowSlots /\ p <= WindowSlots
          BY <3>1, <1>13, <1>15
        <4>2. /\ n = 0 => Owing(1)' = o /\ Owing(2)' = 0
              /\ n = 1 => Owing(1)' = p /\ Owing(2)' = o
              /\ Owed(a)' = 0 /\ Owed(b)' = 0
          BY <3>1, <3>3, <1>14
        <4>3. WindowSlots \in Nat
          BY UnsignaledFacts
        <4> HIDE DEF o, p
        <4>4. n = 0 => used = o + 0 + 0 + 0 + unsignaled
          BY <4>1, <1>4
        <4>5. used = p + o + 0 + 0 + unsignaled /\ 0 <= WindowSlots
          BY <4>1, <4>3, <1>4
        <4>6. n = 0 \/ n = 1
          BY <3>1, <1>4
        <4> QED
          BY <4>1, <4>2, <4>4, <4>5, <4>6, <1>5 DEF Balance
      <3>5. AtMostTwo(a, b)'
        BY <2>3, <3>1, <1>4 DEF AtMostTwo
      <3>6. Between(a, b)' /\ Waiting(a, b)'
        BY <2>3, <3>1, <1>2, <1>3, <1>4, <1>5 DEF Between, Waiting
      <3>7. ReadLast(a, b)'
        <4>1. ASSUME NEW k \in 1..n + 1
              PROVE  cq'.cqes[k].id = IF spc = "pollRead" /\ k = n + 1 THEN ReadId ELSE WriteId
          <5>1. CASE k = n + 1
            BY <5>1, <2>3, <3>2
          <5>2. CASE k # n + 1
            <6>1. k \in 1..n
              BY <5>2, <1>4
            <6> QED
              BY <5>2, <6>1, <2>3, <3>1, <1>17
          <5> QED
            BY <5>1, <5>2
        <4> QED
          BY <4>1, <2>3, <3>1, <1>4, <1>5 DEF ReadLast
      <3> QED
        BY <2>4, <3>4, <3>5, <3>6, <3>7, <1>6, <1>7, <1>10, <1>11 DEF QueueInv, QueueOK
    <2> QED
      BY <2>6, <2>7
  <1> QED
    BY <1>18, <1>19

\* Every step keeps the account of the queue.
LEMMA QueueSteps ==
    ASSUME Shape, QueueInv, [MessageNext]_allVars
    PROVE  QueueInv'
  <1>1. BufferShape /\ SliceShape /\ sq \in Seq(Request) /\ Len(sq) \in Nat
    BY DEF Shape, BufferShape
  <1>2. CASE BeginBuffer
    <2>1. UNCHANGED <<sq, cq, used, unsignaled, messageCounter>>
      BY <1>2 DEF BeginBuffer, BeginMessage, BeginSend, FillSendBuf, FillTooLarge, adapterVars
    <2>2. (spc = "idle" /\ spc' = "waitFree") \/ spc' = spc
      BY <1>2, BeginShape
    <2> QED
      BY <2>1, <2>2, QueueSame
  <1>3. CASE SubmitRead /\ spc = "waitFree"
    <2>1. Posted(1, TRUE, "read")
      BY <1>1, <1>3, ReadPosted
    <2>2. /\ cq' = cq /\ used' = used + 1 /\ unsignaled' = 0 /\ spc' = "pollRead"
          /\ messageCounter' = messageCounter
      BY <1>3 DEF SubmitRead
    <2>3. 1 \in 1..RequestsPerMessage /\ TRUE \in BOOLEAN /\ "read" \in {"read", "write"}
      BY DEF RequestsPerMessage
    <2> QED
      BY <1>3, <2>1, <2>2, <2>3, QueuePosted
  <1>4. CASE PostMessage /\ ~IsMessageBuffer
    <2>1. PICK c \in 1..RequestsPerMessage :
              Len(MessageRequests) = c /\ Posted(c, ShouldClearQueue, "write")
      BY <1>1, <1>4, MessagePosted
    <2>2. PICK s : s = ShouldClearQueue
      OBVIOUS
    <2>3. s \in BOOLEAN /\ Posted(c, s, "write") /\ (~s => messageCounter % Window # 0)
      BY <2>1, <2>2 DEF ShouldClearQueue
    <2>4. /\ cq' = cq /\ used' = used + c /\ unsignaled' = (IF s THEN 0 ELSE unsignaled + c)
          /\ spc = "waitFree"
          /\ s => spc' = "getEvent" /\ messageCounter' = messageCounter
          /\ ~s => spc' = "idle" /\ messageCounter' = messageCounter + 1
      BY <1>4, <2>1, <2>2 DEF PostMessage, SendDone
    <2> QED
      BY <2>3, <2>4, QueuePosted
  <1>5. CASE PostSlice
    <2>1. Posted(1, ShouldClearQueue, "write")
      BY <1>1, <1>5, SlicePosted
    <2>2. PICK s : s = ShouldClearQueue
      OBVIOUS
    <2>3. s \in BOOLEAN /\ Posted(1, s, "write") /\ (~s => messageCounter % Window # 0)
      BY <2>1, <2>2 DEF ShouldClearQueue
    <2>4. /\ cq' = cq /\ used' = used + 1 /\ unsignaled' = (IF s THEN 0 ELSE unsignaled + 1)
          /\ spc = "postSlice"
          /\ s => spc' = "getEvent" /\ messageCounter' = messageCounter
          /\ ~s => spc' \in {"idle", "postSlice"} /\ messageCounter' = messageCounter + 1
      BY <1>5, <2>2 DEF PostSlice, SliceDone
    <2>5. 1 \in 1..RequestsPerMessage
      BY DEF RequestsPerMessage
    <2> QED
      BY <2>3, <2>4, <2>5, QueuePosted
  <1>6. CASE CopyPart
    <2>1. /\ UNCHANGED <<sq, cq, used, unsignaled, messageCounter>>
          /\ spc = "waitFree" /\ spc' \in {"waitFree", "postSlice"}
      BY <1>6 DEF CopyPart, adapterVars
    <2> QED
      BY <2>1, QueueSame
  <1>7. CASE Drain \/ DrainSlice
    <2>1. spc = "drain" /\ UNCHANGED <<sq, unsignaled>>
      BY <1>7 DEF Drain, DrainSlice, DrainThen
    <2>2. CASE HasCompletion(cq)
      <3>1. /\ cq' = Polled(cq) /\ used' = used - NextCompletion(cq).frees
            /\ UNCHANGED <<messageCounter, spc>>
        BY <1>7, <2>2 DEF Drain, DrainSlice, DrainThen
      <3> QED
        BY <2>1, <2>2, <3>1, QueuePolled
    <2>3. CASE ~HasCompletion(cq)
      <3>1. /\ UNCHANGED <<cq, used>> /\ messageCounter' = messageCounter + 1
            /\ spc' \in {"idle", "postSlice"}
        BY <1>7, <2>3 DEF Drain, DrainSlice, DrainThen, SendDone, SliceDone
      <3> QED
        BY <2>1, <2>3, <3>1, QueueWaited
    <2> QED
      BY <2>2, <2>3
  <1>8. CASE PollRead
    BY <1>8, QueuePolled DEF PollRead
  <1>9. CASE GetEvent \/ RequestNotify
    BY <1>9, QueueWaited DEF GetEvent, RequestNotify
  <1>10. CASE BufferSender
    BY <1>10, <1>3, <1>4, <1>5, <1>6, <1>7, <1>8, <1>9
       DEF BufferSender, PostReadForPart, PostRead
  <1>11. CASE Fetch \/ SampleReadPos
    <2>1. UNCHANGED <<cq, used, unsignaled, messageCounter, spc>>
      BY <1>11 DEF Fetch, SampleReadPos, senderVars
    <2>2. PICK w : sq # <<>> /\ sq' = [sq EXCEPT ![1].words = w]
      BY <1>11 DEF Fetch, SampleReadPos
    <2>3. /\ Len(sq') = Len(sq)
          /\ \A k \in 1..Len(sq) : /\ sq'[k].signaled = sq[k].signaled /\ sq'[k].op = sq[k].op
                                   /\ sq'[k].frees = sq[k].frees
      <3>1. sq[1] \in Request /\ 1 \in 1..Len(sq)
        BY <1>1, <2>2
      <3> DEFINE r == [sq[1] EXCEPT !.words = w]
      <3>2. r.signaled = sq[1].signaled /\ r.op = sq[1].op /\ r.frees = sq[1].frees
        BY <3>1 DEF Request
      <3>3. sq' = [sq EXCEPT ![1] = r]
        BY <2>2
      <3> HIDE DEF r
      <3>4. sq'[1] = r /\ Len(sq') = Len(sq) /\ \A k \in 1..Len(sq) : k # 1 => sq'[k] = sq[k]
        BY <1>1, <3>1, <3>3
      <3> QED
        BY <3>2, <3>4
    <2> QED
      BY <2>1, <2>3, QueueSame
  <1>12. CASE \E i \in Cells : Place(i)
    <2>1. UNCHANGED <<sq, cq, used, unsignaled, messageCounter, spc>>
      BY <1>12 DEF Place, senderVars
    <2> QED
      BY <2>1, QueueSame
  <1>13. CASE BufferAdapter
    BY <1>13, <1>11, <1>12, QueueAcknowledged DEF BufferAdapter, Adapter
  <1>14. CASE BufferReceiver \/ BeginReceiving
    <2>1. UNCHANGED <<senderVars, adapterVars>>
      BY <1>14, ReceiverShape DEF BufferReceiver, BeginReceiving
    <2>2. UNCHANGED <<sq, cq, used, unsignaled, messageCounter, spc>>
      BY <2>1 DEF senderVars, adapterVars
    <2> QED
      BY <2>2, QueueSame
  <1>15. CASE UNCHANGED allVars
    <2>1. UNCHANGED <<sq, cq, used, unsignaled, messageCounter, spc>>
      BY <1>15 DEF allVars, vars, senderVars, adapterVars
    <2> QED
      BY <2>1, QueueSame
  <1> QED
    BY <1>2, <1>10, <1>13, <1>14, <1>15 DEF MessageNext

\* The account of the send queue holds in every state of the three classes.
THEOREM QueueInvariant == MessageSpec => [](Shape /\ QueueInv)
  <1>1. MessageInit => Shape /\ QueueInv
    BY ShapeStarts, QueueStarts
  <1>2. Shape /\ QueueInv /\ [MessageNext]_allVars => Shape' /\ QueueInv'
    BY ShapeSteps, QueueSteps
  <1> QED
    BY <1>1, <1>2, PTL DEF MessageSpec

\* A send queue with room for two signaling windows never overflows, whatever the
\* events that READs leave behind, for every window and in every class.
THEOREM SendQueue == MessageSpec => []SendQueueBounded
  <1>1. Shape /\ QueueInv => SendQueueBounded
    BY QueueBound
  <1> QED
    BY <1>1, QueueInvariant, PTL
-----------------------------------------------------------------------------
(* The messages of the older class                                          *)

\* Its writes need an adapter that places words in order. They need nothing of
\* the caller, because a part is copied only where the receiver has been.
SliceSafe == "RDMAMessageBuffer" \notin AnyOrder

\* Up to where words are posted, and up to where messages are announced.
PostedTo == sendPos + posted
SentEnd == sendPos + (IF posted > 0 THEN Total(sending) ELSE 0)

\* The messages that words may belong to, and that w is the word for position p.
Sent == {outbox[x] : x \in 1..Len(outbox)} \cup (IF spc = "idle" THEN {} ELSE {ThisMessage})
Right(p, w) ==
    \A m \in Sent : \A j \in 0..m.len + 1 : m.at + j = p => w = MessageWord(m.at, m.len, j)

\* The whole message is copied before any of it is posted.
PhaseInv ==
    /\ posted <= copied
    /\ spc \in {"postSlice", "getEvent", "requestNotify", "drain"} => copied = sending + 2
    /\ spc \in {"getEvent", "requestNotify", "drain"} => posted > 0

\* The positions the two sides and the READs under way know of each other; f is the
\* frontier, the first position that no word was placed at.
FrontierInv(f) ==
    /\ remoteReadPos <= localReadPos
    /\ \A k \in 1..Len(sq) : sq[k].op = "read" /\ sq[k].words # <<>> =>
            sq[k].words[1] <= localReadPos
    /\ Accepted <= f /\ f <= PostedTo
    /\ sendPos + copied <= localReadPos + Size

\* The messages follow each other from the reader's position on.
MessagesInv ==
    /\ outbox \in Seq(Message)
    /\ outbox = <<>> => localReadPos = SentEnd
    /\ outbox # <<>> => outbox[1].at = localReadPos /\ EndOf(outbox[Len(outbox)]) = SentEnd
    /\ \A x \in 1..Len(outbox) - 1 : EndOf(outbox[x]) = outbox[x + 1].at
    /\ \A x, y \in 1..Len(outbox) : x < y => EndOf(outbox[x]) <= outbox[y].at

\* The posted writes follow each other from the frontier on, and carry the right
\* words.
IsFirst(k) == \A j \in Writes : k <= j
IsNext(k, n) == k < n /\ \A j \in Writes : j <= k \/ n <= j
IsLast(k) == \A j \in Writes : j <= k
Started(f) ==
    \E c \in 0..sq[1].len :
        placed = 0..c - 1 /\ f = sq[1].from + c /\ (c > 0 => sq[1].words # <<>>)
SliceInv(k, f) ==
    /\ sq[k].len > 0 /\ sq[k].from + sq[k].len <= PostedTo
    /\ IsFirst(k) => IF k = 1 THEN Started(f) ELSE f = sq[k].from
    /\ \A n \in Writes : IsNext(k, n) => sq[n].from = sq[k].from + sq[k].len
    /\ IsLast(k) => sq[k].from + sq[k].len = PostedTo
    /\ sq[k].words # <<>> => \A i \in 1..sq[k].len :
            sq[k].from + i - 1 >= f => Right(sq[k].from + i - 1, sq[k].words[i])
SlicesInv(f) ==
    /\ \A k \in Writes : SliceInv(k, f)
    /\ Writes = {} => f = PostedTo
    /\ 1 \notin Writes => placed = {}

\* What is in the two buffers.
BufferInv == \A p \in localReadPos..sendPos + copied - 1 : Right(p, sendBuf[Slot(p)])
CellInv(p, f) ==
    IF Wiped <= p /\ p < f THEN Right(p, receiveBuf[Slot(p)]) ELSE receiveBuf[Slot(p)] = Zero
CellsInv(f) == \A p \in localReadPos..localReadPos + Size - 1 : CellInv(p, f)

\* What the receiver has found out.
FoundInv ==
    /\ rpc = "pollValidity" /\ receiveSize # 0 => outbox # <<>> /\ receiveSize = outbox[1].len
    /\ rpc \in {"callback", "publish"} => outbox # <<>> /\ receiveSize = outbox[1].len

OlderInv(f) ==
    /\ PhaseInv /\ FrontierInv(f) /\ MessagesInv /\ SlicesInv(f)
    /\ BufferInv /\ CellsInv(f) /\ FoundInv
OlderRingInv == \E f \in Nat : OlderInv(f)

\* The order of the positions, and what they are at each step of receive.
LEMMA OlderPositions ==
    ASSUME Shape, NEW f \in Nat, PhaseInv, FrontierInv(f)
    PROVE  /\ sendPos \in Nat /\ localReadPos \in Nat /\ remoteReadPos \in Nat /\ Size \in Nat
           /\ sending \in Nat /\ sending <= Size - 2 /\ receiveSize \in Nat
           /\ posted \in Nat /\ copied \in Nat /\ posted <= copied /\ copied <= sending + 2
           /\ PostedTo \in Nat /\ SentEnd \in Nat /\ Accepted \in Nat /\ Wiped \in Nat
           /\ PostedTo = sendPos + posted
           /\ SentEnd = sendPos + (IF posted > 0 THEN sending + 2 ELSE 0)
           /\ localReadPos <= Wiped /\ Wiped <= Accepted /\ Accepted <= f /\ f <= PostedTo
           /\ PostedTo <= SentEnd /\ PostedTo <= sendPos + copied
           /\ sendPos + copied <= localReadPos + Size
           /\ rpc = "publish" => Wiped = Accepted
           /\ rpc # "publish" => Wiped = localReadPos
           /\ rpc \in {"callback", "publish"} => Accepted = localReadPos + receiveSize + 2
           /\ rpc \notin {"callback", "publish"} => Accepted = localReadPos
  <1>1. /\ sendPos \in Nat /\ localReadPos \in Nat /\ receiveSize \in Nat /\ sending \in Nat
        /\ remoteReadPos \in Nat /\ Size \in Nat /\ sending <= Size - 2
        /\ posted \in Nat /\ copied \in Nat /\ copied <= sending + 2
    BY SizeAssumption DEF Shape, BufferShape, SliceShape
  <1>2. posted <= copied /\ sendPos + copied <= localReadPos + Size /\ Accepted <= f /\ f <= PostedTo
    BY DEF PhaseInv, FrontierInv
  <1>3. /\ PostedTo = sendPos + posted
        /\ SentEnd = sendPos + (IF posted > 0 THEN sending + 2 ELSE 0)
    BY <1>1 DEF PostedTo, SentEnd, Total
  <1>4. /\ rpc = "publish" => Wiped = localReadPos + receiveSize + 2
        /\ rpc # "publish" => Wiped = localReadPos
        /\ rpc \in {"callback", "publish"} => Accepted = localReadPos + receiveSize + 2
        /\ rpc \notin {"callback", "publish"} => Accepted = localReadPos
    BY <1>1 DEF Wiped, Accepted, Total
  <1>5. PostedTo \in Nat /\ SentEnd \in Nat /\ PostedTo <= SentEnd /\ PostedTo <= sendPos + copied
    BY <1>1, <1>2, <1>3
  <1>6. /\ Accepted \in Nat /\ Wiped \in Nat /\ localReadPos <= Wiped /\ Wiped <= Accepted
        /\ rpc = "publish" => Wiped = Accepted
    BY <1>1, <1>4
  <1> QED
    BY <1>1, <1>2, <1>3, <1>4, <1>5, <1>6

\* A message sent and not consumed lies between the reader and SentEnd.
LEMMA MessageFacts ==
    ASSUME MessagesInv, NEW x \in 1..Len(outbox)
    PROVE  /\ outbox[x] \in Message /\ outbox[x].at \in Nat /\ outbox[x].len \in 0..Size - 2
           /\ outbox[x].len \in Nat
           /\ EndOf(outbox[x]) = outbox[x].at + outbox[x].len + 2
           /\ localReadPos <= outbox[x].at /\ EndOf(outbox[x]) <= SentEnd
           /\ outbox # <<>> /\ outbox[1].at = localReadPos
           /\ x # 1 => EndOf(outbox[1]) <= outbox[x].at
  <1>1. /\ outbox \in Seq(Message) /\ Len(outbox) \in Nat
        /\ 1 \in 1..Len(outbox) /\ Len(outbox) \in 1..Len(outbox) /\ outbox # <<>>
    BY DEF MessagesInv
  <1>2. \A y \in 1..Len(outbox) :
            /\ outbox[y] \in Message /\ outbox[y].at \in Nat /\ outbox[y].len \in 0..Size - 2
            /\ outbox[y].len \in Nat /\ EndOf(outbox[y]) = outbox[y].at + outbox[y].len + 2
    <2> SUFFICES ASSUME NEW y \in 1..Len(outbox)
                 PROVE  /\ outbox[y] \in Message /\ outbox[y].at \in Nat
                        /\ outbox[y].len \in 0..Size - 2 /\ outbox[y].len \in Nat
                        /\ EndOf(outbox[y]) = outbox[y].at + outbox[y].len + 2
      OBVIOUS
    <2>1. outbox[y] \in Message
      BY <1>1
    <2>2. outbox[y].at \in Nat /\ outbox[y].len \in 0..Size - 2
      BY <2>1 DEF Message
    <2>3. outbox[y].len \in Nat
      BY <2>2, SizeAssumption
    <2> QED
      BY <2>1, <2>2, <2>3 DEF EndOf, Total
  <1>3. /\ outbox[1].at = localReadPos /\ EndOf(outbox[Len(outbox)]) = SentEnd
        /\ \A y, z \in 1..Len(outbox) : y < z => EndOf(outbox[y]) <= outbox[z].at
    BY <1>1 DEF MessagesInv
  <1>4. x # 1 => EndOf(outbox[1]) <= outbox[x].at
    BY <1>1, <1>3
  <1>5. localReadPos <= outbox[x].at
    BY <1>2, <1>3, <1>4, <1>1
  <1>6. EndOf(outbox[x]) <= SentEnd
    <2>1. CASE x = Len(outbox)
      BY <2>1, <1>3, <1>2
    <2>2. CASE x # Len(outbox)
      <3>1. EndOf(outbox[x]) <= outbox[Len(outbox)].at
        BY <2>2, <1>1, <1>3
      <3>2. outbox[Len(outbox)].at <= SentEnd /\ outbox[Len(outbox)].at \in Nat
        BY <1>1, <1>2, <1>3
      <3> QED
        BY <3>1, <3>2, <1>2, <1>3, <1>1
    <2> QED
      BY <2>1, <2>2
  <1> QED
    BY <1>1, <1>2, <1>3, <1>4, <1>5, <1>6

\* The fields of a posted write.
LEMMA SliceFacts ==
    ASSUME Shape, NEW k \in Writes
    PROVE  /\ k \in 1..Len(sq) /\ k \in Nat /\ Len(sq) \in Nat /\ sq[k] \in Request
           /\ sq[k].op = "write" /\ sq[k].from \in Nat /\ sq[k].len \in Nat
           /\ sq[k].words # <<>> => sq[k].words \in [1..sq[k].len -> AnyWord]
  <1>1. k \in 1..Len(sq) /\ sq \in Seq(Request) /\ sq[k].op = "write" /\ WordsShape
    BY DEF Writes, Shape, BufferShape
  <1>2. sq[k] \in Request /\ Len(sq) \in Nat /\ k \in Nat
    BY <1>1
  <1>3. sq[k].from \in Nat /\ sq[k].len \in Nat
    BY <1>2 DEF Request
  <1> QED
    BY <1>1, <1>2, <1>3 DEF WordsShape

\* A word that is right stays so as long as no message is added.
LEMMA StaysRight ==
    ASSUME Sent' \subseteq Sent, NEW p, NEW w, Right(p, w)
    PROVE  Right(p, w)'
  BY DEF Right

\* The words that were posted stay right.
KeepsRight == \A p \in Nat : \A w : p < PostedTo /\ Right(p, w) => Right(p, w)'

\* A step that posts nothing, seen from a request ...
LEMMA SameSlice ==
    ASSUME Shape, NEW f \in Nat, SlicesInv(f), PostedTo \in Nat, KeepsRight,
           UNCHANGED <<sq, placed, PostedTo>>
    PROVE  SlicesInv(f)'
  <1>1. Writes' = Writes
    BY DEF Writes
  <1>2. ASSUME NEW k \in Writes PROVE SliceInv(k, f)'
    <2>1. SliceInv(k, f)
      BY DEF SlicesInv
    <2>2. /\ IsFirst(k)' <=> IsFirst(k)
          /\ IsLast(k)' <=> IsLast(k)
          /\ Started(f)' <=> Started(f)
          /\ \A n : IsNext(k, n)' <=> IsNext(k, n)
      BY <1>1 DEF IsFirst, IsLast, IsNext, Started
    <2>3. ASSUME sq[k].words # <<>>, NEW i \in 1..sq[k].len, sq[k].from + i - 1 >= f
          PROVE  Right(sq[k].from + i - 1, sq[k].words[i])'
      <3>1. PICK p, w : p = sq[k].from + i - 1 /\ w = sq[k].words[i]
        OBVIOUS
      <3>2. Right(p, w)
        BY <2>1, <2>3, <3>1 DEF SliceInv
      <3>3. sq[k].from \in Nat /\ sq[k].len \in Nat /\ sq[k].from + sq[k].len <= PostedTo
        BY <2>1, SliceFacts DEF SliceInv
      <3>4. p \in Nat /\ p < PostedTo
        BY <3>1, <3>3
      <3>5. Right(p, w)'
        BY <3>2, <3>4 DEF KeepsRight
      <3> QED
        BY <3>1, <3>5
    <2> QED
      BY <1>1, <2>1, <2>2, <2>3 DEF SliceInv
  <1> QED
    BY <1>1, <1>2 DEF SlicesInv

\* ... and from a cell of the ring.
LEMMA SameCells ==
    ASSUME NEW f \in Nat, CellsInv(f), PostedTo \in Nat, f <= PostedTo, KeepsRight,
           localReadPos \in Nat, Size \in Nat, UNCHANGED <<receiveBuf, localReadPos, Wiped>>
    PROVE  CellsInv(f)'
  <1> SUFFICES ASSUME NEW p \in localReadPos..localReadPos + Size - 1 PROVE CellInv(p, f)'
    BY DEF CellsInv
  <1>1. PICK w : w = receiveBuf[Slot(p)]
    OBVIOUS
  <1>2. IF Wiped <= p /\ p < f THEN Right(p, w) ELSE w = Zero
    BY <1>1 DEF CellsInv, CellInv
  <1>3. p \in Nat /\ (p < f => p < PostedTo)
    OBVIOUS
  <1>4. Right(p, w) /\ p < f => Right(p, w)'
    BY <1>3 DEF KeepsRight
  <1> QED
    BY <1>1, <1>2, <1>4 DEF CellInv

\* A step of the sender that posts nothing.
LEMMA OlderQuiet ==
    ASSUME Shape, NEW f \in Nat, OlderInv(f),
           UNCHANGED <<sq, placed, receiveBuf, localReadPos, remoteReadPos, outbox, rpc, receiveSize>>,
           KeepsRight, PostedTo' = PostedTo, SentEnd' = SentEnd,
           PhaseInv', (sendPos + copied <= localReadPos + Size)', BufferInv'
    PROVE  OlderInv(f)'
  <1>1. Accepted' = Accepted /\ Wiped' = Wiped
    BY DEF Accepted, Wiped
  <1>2. FrontierInv(f)'
    BY <1>1 DEF OlderInv, FrontierInv
  <1>3. MessagesInv'
    BY DEF OlderInv, MessagesInv, EndOf
  <1>4. PostedTo \in Nat /\ f <= PostedTo /\ localReadPos \in Nat /\ Size \in Nat
    BY OlderPositions DEF OlderInv
  <1>5. SlicesInv(f)' /\ CellsInv(f)'
    BY <1>1, <1>4, SameSlice, SameCells DEF OlderInv
  <1>6. FoundInv'
    BY DEF OlderInv, FoundInv
  <1> QED
    BY <1>2, <1>3, <1>5, <1>6 DEF OlderInv

\* The words in sendBuf stay right if none is added.
LEMMA SameBuffer ==
    ASSUME BufferInv, Sent' \subseteq Sent, UNCHANGED <<sendBuf, localReadPos>>,
           sendPos \in Nat, copied \in Nat, sendPos' \in Nat, copied' \in Nat, localReadPos \in Nat,
           sendPos' + copied' = sendPos + copied
    PROVE  BufferInv'
  <1>1. PICK a \in Nat, b \in Nat : a = sendPos' /\ b = copied'
    OBVIOUS
  <1>2. a + b = sendPos + copied
    BY <1>1
  <1>3. ASSUME NEW p \in localReadPos..a + b - 1
        PROVE  Right(p, sendBuf[Slot(p)])'
    <2>1. PICK w : w = sendBuf[Slot(p)]
      OBVIOUS
    <2>2. p \in localReadPos..sendPos + copied - 1
      BY <1>2, <1>3
    <2>3. Right(p, w)
      BY <2>1, <2>2 DEF BufferInv
    <2>4. Right(p, w)'
      BY <2>3, StaysRight
    <2> QED
      BY <2>1, <2>4
  <1>4. BufferInv' <=> \A p \in localReadPos..a + b - 1 : Right(p, sendBuf[Slot(p)])'
    BY <1>1 DEF BufferInv
  <1> QED
    BY <1>3, <1>4

\* Waiting for a READ or a completion.
LEMMA OlderWaits ==
    ASSUME Shape, NEW f \in Nat, OlderInv(f), PollRead \/ GetEvent \/ RequestNotify,
           UNCHANGED messageVars
    PROVE  OlderInv(f)'
  <1>1. /\ UNCHANGED <<sq, placed, receiveBuf, localReadPos, remoteReadPos, outbox, rpc, receiveSize>>
        /\ UNCHANGED <<sendPos, copied, posted, sending, sendBuf>>
        /\ \/ spc = "pollRead" /\ spc' \in {"waitFree", "pollRead"}
           \/ spc = "getEvent" /\ spc' = "requestNotify"
           \/ spc = "requestNotify" /\ spc' = "drain"
    BY DEF PollRead, GetEvent, RequestNotify, receiverVars, messageVars
  <1>2. spc # "idle" /\ spc' # "idle"
    BY <1>1
  <1>3. Sent' \subseteq Sent /\ PostedTo' = PostedTo /\ SentEnd' = SentEnd
    BY <1>1, <1>2 DEF Sent, ThisMessage, PostedTo, SentEnd
  <1>4. PhaseInv'
    BY <1>1 DEF OlderInv, PhaseInv
  <1>5. (sendPos + copied <= localReadPos + Size)'
    BY <1>1 DEF OlderInv, FrontierInv
  <1>6. BufferInv'
    <2>1. sendPos \in Nat /\ copied \in Nat /\ localReadPos \in Nat
      BY OlderPositions DEF OlderInv
    <2> QED
      BY <1>1, <1>3, <2>1, SameBuffer DEF OlderInv
  <1> QED
    BY <1>1, <1>3, <1>4, <1>5, <1>6, StaysRight, OlderQuiet DEF KeepsRight

\* The end of a wait: the next completion, the next slice or the end of the send.
LEMMA OlderDrains ==
    ASSUME Shape, NEW f \in Nat, OlderInv(f), DrainSlice
    PROVE  OlderInv(f)'
  <1>1. /\ UNCHANGED <<sq, placed, receiveBuf, localReadPos, remoteReadPos, outbox, rpc, receiveSize>>
        /\ sendBuf' = sendBuf /\ spc = "drain"
    BY DEF DrainSlice, DrainThen, receiverVars
  <1>2. /\ sendPos \in Nat /\ sending \in Nat /\ posted \in Nat /\ posted > 0
        /\ copied = sending + 2 /\ posted <= copied
    BY <1>1, OlderPositions DEF OlderInv, PhaseInv
  <1>3. \/ UNCHANGED <<spc, sendPos, sending, copied, posted>>
        \/ spc' = "postSlice" /\ UNCHANGED <<sendPos, sending, copied, posted>>
        \/ /\ posted = sending + 2 /\ spc' = "idle" /\ sending' = 0 /\ copied' = 0 /\ posted' = 0
           /\ sendPos' = sendPos + (sending + 2)
    <2>1. CASE HasCompletion(cq)
      BY <2>1 DEF DrainSlice, DrainThen, messageVars
    <2>2. CASE ~HasCompletion(cq)
      BY <2>2, <1>2 DEF DrainSlice, DrainThen, SliceDone, Total
    <2> QED
      BY <2>1, <2>2
  <1>4. Sent' \subseteq Sent
    BY <1>1, <1>3 DEF Sent, ThisMessage
  <1>5. /\ PostedTo' = PostedTo /\ SentEnd' = SentEnd /\ (sendPos + copied)' = sendPos + copied
    BY <1>2, <1>3 DEF PostedTo, SentEnd, Total
  <1>6. PhaseInv'
    BY <1>1, <1>2, <1>3 DEF PhaseInv
  <1>7. (sendPos + copied <= localReadPos + Size)'
    BY <1>1, <1>5 DEF OlderInv, FrontierInv
  <1>8. BufferInv'
    <2>1. localReadPos \in Nat /\ copied \in Nat
      BY OlderPositions DEF OlderInv
    <2>2. sendPos' \in Nat /\ copied' \in Nat
      BY <1>2, <1>3
    <2> QED
      BY <1>1, <1>2, <1>4, <1>5, <2>1, <2>2, SameBuffer DEF OlderInv
  <1> QED
    BY <1>1, <1>4, <1>5, <1>6, <1>7, <1>8, StaysRight, OlderQuiet DEF KeepsRight

\* A part of the message is copied to where the receiver has been.
LEMMA OlderCopies ==
    ASSUME Shape, NEW f \in Nat, OlderInv(f), CopyPart
    PROVE  OlderInv(f)'
  <1>1. /\ UNCHANGED <<sq, placed, receiveBuf, localReadPos, remoteReadPos, outbox, rpc, receiveSize>>
        /\ UNCHANGED <<sendPos, sending, posted>> /\ spc = "waitFree" /\ ~NoSpace
        /\ copied' = copied + PartLen
        /\ spc' = IF copied' = Total(sending) THEN "postSlice" ELSE "waitFree"
    BY DEF CopyPart, adapterVars, receiverVars
  <1>2. /\ sendPos \in Nat /\ sending \in Nat /\ sending <= Size - 2 /\ Size \in Nat
        /\ copied \in {0, 1, sending + 1} /\ posted = 0 /\ remoteReadPos \in Nat
        /\ localReadPos \in Nat /\ remoteReadPos <= localReadPos
        /\ sendBuf \in [Cells -> AnyWord]
    BY <1>1, SizeAssumption, OlderPositions
       DEF Shape, BufferShape, SliceShape, OlderInv, FrontierInv
  <1> DEFINE t == PartLen
             w == [i \in 0..t - 1 |-> MessageWord(sendPos, sending, copied + i)]
             b == sendPos + copied
  <1>3. /\ t \in Nat /\ t <= Size /\ copied + t <= sending + 2
    BY <1>2 DEF PartLen
  <1>4. b + t <= localReadPos + Size
    BY <1>1, <1>2, <1>3 DEF NoSpace, SafeToWrite
  <1>5. \A i \in 0..t - 1 : w[i] = MessageWord(sendPos, sending, copied + i) /\ w[i] \in AnyWord
    <2> SUFFICES ASSUME NEW i \in 0..t - 1 PROVE MessageWord(sendPos, sending, copied + i) \in AnyWord
      OBVIOUS
    <2>1. copied + i \in 0..sending + 1
      BY <1>2, <1>3
    <2> QED
      BY <1>2, <2>1, MessageWordFacts
  <1>6. w \in [0..t - 1 -> AnyWord]
    BY <1>5
  <1>7. sendBuf' = Overlay(sendBuf, b, w) /\ b \in Nat
    BY <1>2 DEF CopyPart
  <1>8. /\ copied' = copied + t /\ copied \in Nat
        /\ spc' = "postSlice" => copied' = sending + 2
        /\ spc' \in {"postSlice", "waitFree"}
    BY <1>1, <1>2 DEF Total
  <1> HIDE DEF t, w, b
  <1>9. /\ \A i \in 0..t - 1 : sendBuf'[Slot(b + i)] = w[i]
        /\ \A p \in Nat : (p < b /\ b + t - p <= Size) => sendBuf'[Slot(p)] = sendBuf[Slot(p)]
    BY <1>2, <1>3, <1>6, <1>7, OverlayFacts
  <1>10. Sent' = Sent
    BY <1>1, <1>8 DEF Sent, ThisMessage
  <1>11. BufferInv'
    <2> SUFFICES ASSUME NEW p \in localReadPos..sendPos + (copied + t) - 1
                 PROVE  Right(p, sendBuf[Slot(p)])'
      BY <1>1, <1>8 DEF BufferInv
    <2>1. PICK v : v = sendBuf'[Slot(p)]
      OBVIOUS
    <2>2. CASE p < b
      <3>1. p \in localReadPos..sendPos + copied - 1 /\ v = sendBuf[Slot(p)]
        BY <1>2, <1>3, <1>4, <1>7, <1>8, <1>9, <2>1, <2>2 DEF b
      <3>2. Right(p, v)
        BY <3>1 DEF OlderInv, BufferInv
      <3> QED
        BY <2>1, <3>2, <1>10, StaysRight
    <2>3. CASE p >= b
      <3>1. p - b \in 0..t - 1 /\ b + (p - b) = p
        BY <1>2, <1>3, <1>7, <1>8, <2>3 DEF b
      <3>2. v = w[p - b]
        BY <1>9, <2>1, <3>1
      <3>3. copied + (p - b) = p - sendPos /\ p \in Nat
        BY <1>2, <1>8, <3>1 DEF b
      <3>4. v = MessageWord(sendPos, sending, p - sendPos)
        BY <1>5, <3>1, <3>2, <3>3
      <3>5. Right(p, v)
        <4> SUFFICES ASSUME NEW m \in Sent, NEW j \in 0..m.len + 1, m.at + j = p
                     PROVE  v = MessageWord(m.at, m.len, j)
          BY DEF Right
        <4>1. CASE m = ThisMessage
          <5>1. m.at = sendPos /\ m.len = sending
            BY <4>1 DEF ThisMessage
          <5>2. j = p - sendPos
            BY <1>2, <5>1, <3>3
          <5> QED
            BY <3>4, <5>1, <5>2
        <4>2. CASE m # ThisMessage
          <5>1. PICK x \in 1..Len(outbox) : m = outbox[x]
            BY <4>2 DEF Sent
          <5>2. /\ m.at \in Nat /\ m.len \in Nat /\ m.at + m.len + 2 <= SentEnd
            BY <5>1, MessageFacts DEF OlderInv
          <5>3. SentEnd = sendPos
            BY <1>2 DEF SentEnd
          <5> QED
            BY <1>2, <1>8, <2>3, <3>3, <5>2, <5>3 DEF b
        <4> QED
          BY <4>1, <4>2
      <3> QED
        BY <2>1, <3>5, <1>10, StaysRight
    <2> QED
      BY <1>2, <1>7, <2>2, <2>3
  <1>12. PostedTo' = PostedTo /\ SentEnd' = SentEnd
    BY <1>1 DEF PostedTo, SentEnd
  <1>13. PhaseInv'
    BY <1>1, <1>2, <1>3, <1>8 DEF PhaseInv
  <1>14. (sendPos + copied <= localReadPos + Size)'
    BY <1>1, <1>2, <1>3, <1>4, <1>8 DEF b
  <1> QED
    BY <1>1, <1>10, <1>11, <1>12, <1>13, <1>14, StaysRight, OlderQuiet DEF KeepsRight

\* A send begins: its words come after all that were posted.
LEMMA OlderBegins ==
    ASSUME Shape, NEW f \in Nat, OlderInv(f), NEW n, BeginMessage(n)
    PROVE  OlderInv(f)'
  <1>1. /\ UNCHANGED <<sq, placed, receiveBuf, localReadPos, remoteReadPos, outbox, rpc, receiveSize>>
        /\ UNCHANGED <<sendPos, sendBuf, copied, posted>> /\ spc = "idle" /\ spc' = "waitFree"
    BY DEF BeginMessage, adapterVars, receiverVars, messageVars
  <1>2. /\ copied = 0 /\ posted = 0 /\ sendPos \in Nat /\ localReadPos \in Nat /\ Size \in Nat
        /\ PostedTo = sendPos /\ sendPos + copied <= localReadPos + Size
    BY <1>1, OlderPositions DEF Shape, SliceShape, OlderInv
  <1>3. KeepsRight
    <2> SUFFICES ASSUME NEW p \in Nat, NEW w, p < PostedTo, Right(p, w),
                        NEW m \in Sent', NEW j \in 0..m.len + 1, m.at + j = p
                 PROVE  w = MessageWord(m.at, m.len, j)
      BY DEF KeepsRight, Right
    <2>1. m # ThisMessage'
      <3>1. ThisMessage'.at = sendPos
        BY <1>1 DEF ThisMessage
      <3>2. m.at = sendPos => m.at + j >= sendPos
        BY <1>2
      <3> QED
        BY <1>2, <3>1, <3>2
    <2>2. m \in Sent
      BY <1>1, <2>1 DEF Sent
    <2> QED
      BY <2>2 DEF Right
  <1>4. PostedTo' = PostedTo /\ SentEnd' = SentEnd
    BY <1>1, <1>2 DEF PostedTo, SentEnd
  <1>5. PhaseInv'
    BY <1>1, <1>2 DEF PhaseInv
  <1>6. (sendPos + copied <= localReadPos + Size)'
    BY <1>1, <1>2
  <1>7. BufferInv'
    <2> SUFFICES ASSUME NEW p \in localReadPos..sendPos + copied - 1
                 PROVE  Right(p, sendBuf[Slot(p)])'
      BY <1>1, <1>2 DEF BufferInv
    <2>1. PICK w : w = sendBuf[Slot(p)]
      OBVIOUS
    <2>2. Right(p, w) /\ p \in Nat /\ p < PostedTo
      BY <1>2, <2>1 DEF OlderInv, BufferInv
    <2>3. Right(p, w)'
      BY <2>2, <1>3 DEF KeepsRight
    <2> QED
      BY <1>1, <2>1, <2>3
  <1> QED
    BY <1>1, <1>3, <1>4, <1>5, <1>6, <1>7, OlderQuiet

\* A READ is posted.
LEMMA OlderReads ==
    ASSUME Shape, NEW f \in Nat, OlderInv(f), SubmitRead, spc = "waitFree", UNCHANGED messageVars
    PROVE  OlderInv(f)'
  <1>1. /\ UNCHANGED <<placed, receiveBuf, localReadPos, remoteReadPos, outbox, rpc, receiveSize>>
        /\ UNCHANGED <<sendPos, sending, sendBuf, copied, posted>> /\ spc' = "pollRead"
    BY DEF SubmitRead, receiverVars, messageVars
  <1>2. /\ sendPos \in Nat /\ copied \in Nat /\ localReadPos \in Nat
        /\ Size \in Nat /\ PostedTo \in Nat /\ f <= PostedTo
    BY OlderPositions DEF OlderInv
  <1>3. Posted(1, TRUE, "read") /\ Len(sq) \in Nat
    <2>1. BufferShape
      BY DEF Shape
    <2>2. sq \in Seq(Request)
      BY <2>1 DEF BufferShape
    <2>3. Len(sq) \in Nat
      BY <2>2
    <2>4. Posted(1, TRUE, "read")
      BY <2>1, ReadPosted
    <2> QED
      BY <2>3, <2>4
  <1>4. /\ Len(sq') = Len(sq) + 1 /\ \A k \in 1..Len(sq) : sq'[k] = sq[k]
        /\ sq'[Len(sq) + 1].op = "read" /\ sq'[Len(sq) + 1].words = <<>>
    BY <1>3 DEF Posted
  <1>5. Writes' = Writes
    BY <1>3, <1>4 DEF Writes
  <1>6. /\ PostedTo' = PostedTo /\ SentEnd' = SentEnd /\ Sent' = Sent
        /\ Accepted' = Accepted /\ Wiped' = Wiped
    BY <1>1 DEF PostedTo, SentEnd, Sent, ThisMessage, Accepted, Wiped
  <1>7. KeepsRight
    BY <1>6, StaysRight DEF KeepsRight
  <1>8. PhaseInv'
    BY <1>1 DEF OlderInv, PhaseInv
  <1>9. FrontierInv(f)'
    <2>1. ASSUME NEW k \in 1..Len(sq'), sq'[k].op = "read", sq'[k].words # <<>>
          PROVE  sq'[k].words[1] <= localReadPos'
      <3>1. k \in 1..Len(sq)
        BY <1>3, <1>4, <2>1
      <3> QED
        BY <1>1, <1>4, <2>1, <3>1 DEF OlderInv, FrontierInv
    <2> QED
      BY <1>1, <1>6, <2>1 DEF OlderInv, FrontierInv
  <1>10. MessagesInv'
    BY <1>1, <1>6 DEF OlderInv, MessagesInv, EndOf
  <1>11. SlicesInv(f)'
    <2>1. ASSUME NEW k \in Writes PROVE SliceInv(k, f)'
      <3>1. SliceInv(k, f)
        BY DEF OlderInv, SlicesInv
      <3>2. sq'[k] = sq[k] /\ (1 \in Writes => sq'[1] = sq[1])
        BY <1>4 DEF Writes
      <3>3. /\ IsFirst(k)' <=> IsFirst(k)
            /\ IsLast(k)' <=> IsLast(k)
            /\ k = 1 => (Started(f)' <=> Started(f))
            /\ \A n : IsNext(k, n)' <=> IsNext(k, n)
        BY <1>1, <1>5, <3>2 DEF IsFirst, IsLast, IsNext, Started
      <3>4. ASSUME sq[k].words # <<>>, NEW i \in 1..sq[k].len, sq[k].from + i - 1 >= f
            PROVE  Right(sq[k].from + i - 1, sq[k].words[i])'
        <4>1. PICK p, w : p = sq[k].from + i - 1 /\ w = sq[k].words[i]
          OBVIOUS
        <4>2. Right(p, w)
          BY <3>1, <3>4, <4>1 DEF SliceInv
        <4>3. Right(p, w)'
          BY <1>6, <4>2, StaysRight
        <4> QED
          BY <1>1, <3>2, <4>1, <4>3
      <3>5. \A n \in Writes : sq'[n] = sq[n]
        BY <1>4 DEF Writes
      <3> QED
        BY <1>5, <1>6, <3>1, <3>2, <3>3, <3>4, <3>5 DEF SliceInv
    <2> QED
      BY <1>1, <1>5, <1>6, <2>1 DEF OlderInv, SlicesInv
  <1>12. BufferInv'
    BY <1>1, <1>2, <1>6, SameBuffer DEF OlderInv
  <1>13. CellsInv(f)'
    BY <1>1, <1>2, <1>6, <1>7, SameCells DEF OlderInv
  <1>14. FoundInv'
    BY <1>1 DEF OlderInv, FoundInv
  <1> QED
    BY <1>8, <1>9, <1>10, <1>11, <1>12, <1>13, <1>14 DEF OlderInv

\* The write of a slice: the words of sendBuf from PostedTo on.
LEMMA SliceRequest ==
    ASSUME Shape, PostSlice
    PROVE  \E n \in Nat \ {0} :
             /\ posted + n <= sending + 2 /\ n = SliceEnd - posted
             /\ Len(sq) \in Nat /\ Len(sq') = Len(sq) + 1 /\ \A k \in 1..Len(sq) : sq'[k] = sq[k]
             /\ sq'[Len(sq) + 1].op = "write" /\ sq'[Len(sq) + 1].from = sendPos + posted
             /\ sq'[Len(sq) + 1].len = n
             /\ sq'[Len(sq) + 1].words # <<>> => \A i \in 1..n :
                    sq'[Len(sq) + 1].words[i] = sendBuf[Slot(sendPos + posted + i - 1)]
  <1>1. BufferShape /\ SliceShape
    BY DEF Shape
  <1>2. /\ sendPos \in Nat /\ sending \in Nat /\ posted \in Nat /\ sq \in Seq(Request)
        /\ sendBuf \in [Cells -> AnyWord]
    BY <1>1, SizeAssumption DEF BufferShape, SliceShape
  <1>3. SliceEnd \in posted + 1..sending + 2 /\ Posted(1, ShouldClearQueue, "write")
    BY <1>1, SlicePosted
  <1> DEFINE n == SliceEnd - posted
             from == sendPos + posted
             i == n <= MaxInline
             s == ShouldClearQueue
             g == unsignaled + 1
             r == WriteRequest(from, n, s, i, g)
  <1>4. n \in Nat \ {0} /\ posted + n <= sending + 2 /\ from \in Nat
    BY <1>2, <1>3
  <1>5. sq' = Append(sq, r)
    BY DEF PostSlice
  <1>6. r.op = "write" /\ r.from = from /\ r.len = n /\ (r.words # <<>> => r.words = Captured(from, n))
    BY DEF WriteRequest
  <1>7. n = SliceEnd - posted /\ from = sendPos + posted
    OBVIOUS
  <1> HIDE DEF n, from, i, s, g, r
  <1>8. \A j \in 1..n : Captured(from, n)[j] = sendBuf[Slot(from + j - 1)]
    BY <1>2, <1>4, CapturedFacts
  <1>9. Len(sq) \in Nat
    BY <1>2
  <1>10. Len(sq') = Len(sq) + 1 /\ sq'[Len(sq) + 1] = r
    BY <1>2, <1>5
  <1>11. \A k \in 1..Len(sq) : sq'[k] = sq[k]
    BY <1>2, <1>5
  <1>12. r.words # <<>> => \A j \in 1..n : r.words[j] = sendBuf[Slot(sendPos + posted + j - 1)]
    BY <1>6, <1>7, <1>8
  <1> QED
    BY <1>4, <1>6, <1>7, <1>9, <1>10, <1>11, <1>12

\* What posting a slice does to the positions.
LEMMA SliceOutcome ==
    ASSUME Shape, PhaseInv, PostSlice, NEW n \in Nat \ {0}, n = SliceEnd - posted,
           posted + n <= sending + 2
    PROVE  /\ UNCHANGED <<placed, receiveBuf, localReadPos, remoteReadPos, rpc, receiveSize, sendBuf>>
           /\ sendPos \in Nat /\ sending \in Nat /\ posted \in Nat /\ copied = sending + 2
           /\ sendPos' \in Nat /\ copied' \in Nat /\ sendPos' + copied' = sendPos + copied
           /\ PostedTo' = sendPos + posted + n /\ SentEnd' = sendPos + sending + 2 /\ PhaseInv'
           /\ outbox' = IF posted = 0 THEN Append(outbox, ThisMessage) ELSE outbox
           /\ spc = "postSlice" /\ (spc' = "idle" \/ ThisMessage' = ThisMessage)
  <1>1. /\ sendPos \in Nat /\ sending \in Nat /\ posted \in Nat /\ SliceEnd = posted + n
    <2>1. BufferShape /\ SliceShape
      BY DEF Shape
    <2>2. sendPos \in Nat /\ sending \in Nat /\ posted \in Nat
      BY <2>1, SizeAssumption DEF BufferShape, SliceShape
    <2>3. SliceEnd \in posted + 1..sending + 2
      BY <2>1, SlicePosted
    <2> QED
      BY <2>2, <2>3
  <1>2. /\ UNCHANGED <<placed, receiveBuf, localReadPos, remoteReadPos, rpc, receiveSize, sendBuf>>
        /\ outbox' = IF posted = 0 THEN Append(outbox, ThisMessage) ELSE outbox
        /\ spc = "postSlice"
    BY DEF PostSlice, receiverVars
  <1>3. copied = sending + 2
    BY <1>2 DEF PhaseInv
  <1>4. CASE ShouldClearQueue
    <2>1. spc' = "getEvent" /\ posted' = posted + n /\ UNCHANGED <<sendPos, sending, copied>>
      BY <1>1, <1>4 DEF PostSlice
    <2>2. PostedTo' = sendPos + posted + n /\ SentEnd' = sendPos + sending + 2
      BY <1>1, <2>1 DEF PostedTo, SentEnd, Total
    <2>3. PhaseInv'
      BY <1>1, <1>3, <2>1 DEF PhaseInv
    <2> QED
      BY <1>1, <1>2, <1>3, <2>1, <2>2, <2>3 DEF ThisMessage
  <1>5. CASE ~ShouldClearQueue /\ posted + n < sending + 2
    <2>1. spc' = "postSlice" /\ posted' = posted + n /\ UNCHANGED <<sendPos, sending, copied>>
      BY <1>1, <1>5 DEF PostSlice, SliceDone, Total
    <2>2. PostedTo' = sendPos + posted + n /\ SentEnd' = sendPos + sending + 2
      BY <1>1, <2>1 DEF PostedTo, SentEnd, Total
    <2>3. PhaseInv'
      BY <1>1, <1>3, <2>1 DEF PhaseInv
    <2> QED
      BY <1>1, <1>2, <1>3, <2>1, <2>2, <2>3 DEF ThisMessage
  <1>6. CASE ~ShouldClearQueue /\ ~(posted + n < sending + 2)
    <2>1. /\ spc' = "idle" /\ posted' = 0 /\ sending' = 0 /\ copied' = 0
          /\ sendPos' = sendPos + (sending + 2)
      BY <1>1, <1>6 DEF PostSlice, SliceDone, Total
    <2>2. posted + n = sending + 2
      BY <1>1, <1>6
    <2>3. PostedTo' = sendPos + posted + n /\ SentEnd' = sendPos + sending + 2
      BY <1>1, <2>1, <2>2 DEF PostedTo, SentEnd, Total
    <2>4. PhaseInv'
      BY <2>1 DEF PhaseInv
    <2> QED
      BY <1>1, <1>2, <1>3, <2>1, <2>3, <2>4
  <1> QED
    BY <1>4, <1>5, <1>6

\* The message that is announced with its first slice follows the others.
LEMMA SliceMessages ==
    ASSUME MessagesInv, sendPos \in Nat, sending \in 0..Size - 2, posted \in Nat,
           localReadPos' = localReadPos, SentEnd' = sendPos + sending + 2,
           outbox' = IF posted = 0 THEN Append(outbox, ThisMessage) ELSE outbox
    PROVE  MessagesInv'
  <1>1. outbox \in Seq(Message) /\ sending \in Nat
    BY SizeAssumption DEF MessagesInv
  <1>2. CASE posted > 0
    <2>1. SentEnd = sendPos + sending + 2 /\ outbox' = outbox
      BY <1>1, <1>2 DEF SentEnd, Total
    <2> QED
      BY <2>1 DEF MessagesInv, EndOf
  <1>3. CASE posted = 0
    <2> DEFINE m == ThisMessage
    <2>1. m \in Message /\ m.at = sendPos /\ EndOf(m) = sendPos + sending + 2
      BY <1>1 DEF ThisMessage, Message, EndOf, Total
    <2>2. SentEnd = sendPos
      BY <1>3 DEF SentEnd
    <2>3. outbox' = Append(outbox, m)
      BY <1>3
    <2> HIDE DEF m
    <2>4. /\ outbox' \in Seq(Message) /\ Len(outbox') = Len(outbox) + 1 /\ Len(outbox) \in Nat
          /\ \A x \in 1..Len(outbox) : outbox'[x] = outbox[x]
          /\ outbox'[Len(outbox) + 1] = m
      BY <1>1, <2>1, <2>3
    <2>5. outbox' # <<>>
      BY <2>4
    <2>6. \A x \in 1..Len(outbox) : EndOf(outbox[x]) <= sendPos
      BY <2>2, MessageFacts
    <2>7. outbox'[1].at = localReadPos' /\ EndOf(outbox'[Len(outbox')]) = SentEnd'
      <3>1. CASE outbox = <<>>
        <4>1. localReadPos = sendPos /\ outbox'[1] = m
          BY <2>2, <2>4, <3>1 DEF MessagesInv
        <4> QED
          BY <2>1, <2>4, <4>1
      <3>2. CASE outbox # <<>>
        <4>1. outbox'[1] = outbox[1] /\ outbox[1].at = localReadPos
          BY <1>1, <2>4, <3>2 DEF MessagesInv
        <4> QED
          BY <2>1, <2>4, <4>1
      <3> QED
        BY <3>1, <3>2
    <2>8. \A x \in 1..Len(outbox') - 1 : EndOf(outbox'[x]) = outbox'[x + 1].at
      <3> SUFFICES ASSUME NEW x \in 1..Len(outbox) PROVE EndOf(outbox'[x]) = outbox'[x + 1].at
        BY <2>4
      <3>1. CASE x = Len(outbox)
        <4>1. outbox # <<>>
          BY <2>4
        <4>2. EndOf(outbox[x]) = sendPos
          BY <2>2, <3>1, <4>1 DEF MessagesInv
        <4> QED
          BY <2>1, <2>4, <3>1, <4>2
      <3>2. CASE x # Len(outbox)
        <4>1. x \in 1..Len(outbox) - 1 /\ x + 1 \in 1..Len(outbox)
          BY <2>4, <3>2
        <4> QED
          BY <2>4, <4>1 DEF MessagesInv
      <3> QED
        BY <3>1, <3>2
    <2>9. \A x, y \in 1..Len(outbox') : x < y => EndOf(outbox'[x]) <= outbox'[y].at
      <3> SUFFICES ASSUME NEW x \in 1..Len(outbox'), NEW y \in 1..Len(outbox'), x < y
                   PROVE  EndOf(outbox'[x]) <= outbox'[y].at
        OBVIOUS
      <3>1. x \in 1..Len(outbox) /\ outbox'[x] = outbox[x]
        BY <2>4
      <3>2. CASE y \in 1..Len(outbox)
        BY <2>4, <3>1, <3>2 DEF MessagesInv
      <3>3. CASE y = Len(outbox) + 1
        BY <2>1, <2>4, <2>6, <3>1, <3>3
      <3> QED
        BY <2>4, <3>2, <3>3
    <2>10. (outbox # <<>> => outbox[1].at = localReadPos /\ EndOf(outbox[Len(outbox)]) = SentEnd)'
      BY <2>7 DEF EndOf
    <2>11. (\A x \in 1..Len(outbox) - 1 : EndOf(outbox[x]) = outbox[x + 1].at)'
      BY <2>8 DEF EndOf
    <2>12. (\A x, y \in 1..Len(outbox) : x < y => EndOf(outbox[x]) <= outbox[y].at)'
      BY <2>9 DEF EndOf
    <2> QED
      BY <2>4, <2>5, <2>10, <2>11, <2>12 DEF MessagesInv
  <1> QED
    BY <1>2, <1>3

\* A slice is posted.
LEMMA OlderPosts ==
    ASSUME Shape, NEW f \in Nat, OlderInv(f), PostSlice
    PROVE  OlderInv(f)'
  <1>1. PICK n \in Nat \ {0} :
            /\ posted + n <= sending + 2 /\ n = SliceEnd - posted
            /\ Len(sq) \in Nat /\ Len(sq') = Len(sq) + 1 /\ \A k \in 1..Len(sq) : sq'[k] = sq[k]
            /\ sq'[Len(sq) + 1].op = "write" /\ sq'[Len(sq) + 1].from = sendPos + posted
            /\ sq'[Len(sq) + 1].len = n
            /\ sq'[Len(sq) + 1].words # <<>> => \A i \in 1..n :
                    sq'[Len(sq) + 1].words[i] = sendBuf[Slot(sendPos + posted + i - 1)]
    BY SliceRequest
  <1>2. /\ UNCHANGED <<placed, receiveBuf, localReadPos, remoteReadPos, rpc, receiveSize, sendBuf>>
        /\ sendPos \in Nat /\ sending \in Nat /\ posted \in Nat /\ copied = sending + 2
        /\ sendPos' \in Nat /\ copied' \in Nat /\ sendPos' + copied' = sendPos + copied
        /\ PostedTo' = sendPos + posted + n /\ SentEnd' = sendPos + sending + 2 /\ PhaseInv'
        /\ outbox' = IF posted = 0 THEN Append(outbox, ThisMessage) ELSE outbox
        /\ spc = "postSlice" /\ (spc' = "idle" \/ ThisMessage' = ThisMessage)
    BY <1>1, SliceOutcome DEF OlderInv
  <1>3. /\ copied \in Nat /\ localReadPos \in Nat /\ Size \in Nat /\ PostedTo \in Nat
        /\ PostedTo = sendPos + posted /\ f <= PostedTo /\ localReadPos <= f
        /\ sendPos + copied <= localReadPos + Size /\ PostedTo + n <= sendPos + copied
    <2>1. /\ copied \in Nat /\ localReadPos \in Nat /\ Size \in Nat /\ PostedTo \in Nat
          /\ PostedTo = sendPos + posted /\ f <= PostedTo /\ localReadPos <= f
          /\ sendPos + copied <= localReadPos + Size
      BY OlderPositions DEF OlderInv
    <2>2. posted + n <= sending + 2
      BY <1>1
    <2>3. sendPos \in Nat /\ sending \in Nat /\ posted \in Nat /\ copied = sending + 2
      BY <1>2
    <2> QED
      BY <2>1, <2>2, <2>3
  <1>4. Accepted' = Accepted /\ Wiped' = Wiped
    BY <1>2 DEF Accepted, Wiped
  <1>5. Sent' \subseteq Sent
    <2>1. ThisMessage \in Sent
      BY <1>2 DEF Sent
    <2>2. ASSUME NEW x \in 1..Len(outbox') PROVE outbox'[x] \in Sent
      <3>1. CASE posted = 0
        <4>1. outbox \in Seq(Message) /\ outbox' = Append(outbox, ThisMessage)
          BY <1>2, <3>1 DEF OlderInv, MessagesInv
        <4>2. \/ x \in 1..Len(outbox) /\ outbox'[x] = outbox[x]
              \/ outbox'[x] = ThisMessage
          BY <4>1
        <4> QED
          BY <2>1, <4>2 DEF Sent
      <3>2. CASE posted # 0
        BY <1>2, <3>2 DEF Sent
      <3> QED
        BY <3>1, <3>2
    <2>3. spc' # "idle" => ThisMessage' \in Sent
      BY <1>2, <2>1
    <2>4. Sent' = {outbox'[x] : x \in 1..Len(outbox')}
                    \cup (IF spc' = "idle" THEN {} ELSE {ThisMessage'})
      BY DEF Sent
    <2> QED
      BY <2>2, <2>3, <2>4
  <1>6. KeepsRight
    BY <1>5, StaysRight DEF KeepsRight
  <1>7. FrontierInv(f)'
    <2>1. ASSUME NEW k \in 1..Len(sq'), sq'[k].op = "read", sq'[k].words # <<>>
          PROVE  sq'[k].words[1] <= localReadPos'
      <3>1. k \in 1..Len(sq)
        BY <1>1, <2>1
      <3> QED
        BY <1>1, <1>2, <2>1, <3>1 DEF OlderInv, FrontierInv
    <2>2. f <= PostedTo'
      BY <1>1, <1>2, <1>3
    <2>3. (sendPos + copied <= localReadPos + Size)'
      BY <1>2, <1>3
    <2>4. remoteReadPos' <= localReadPos' /\ Accepted' <= f
      BY <1>2, <1>4 DEF OlderInv, FrontierInv
    <2> QED
      BY <2>1, <2>2, <2>3, <2>4 DEF FrontierInv
  <1>8. MessagesInv'
    <2>1. sending \in 0..Size - 2
      BY DEF Shape, BufferShape
    <2> QED
      BY <1>2, <2>1, SliceMessages DEF OlderInv
  <1>a. PostedTo' = PostedTo + n
    BY <1>2, <1>3
  <1>b. PICK l \in Nat : l = Len(sq) + 1
    BY <1>1
  <1>c. /\ \A k \in 1..Len(sq) : sq'[k] = sq[k]
        /\ Len(sq) \in Nat /\ Len(sq') = l /\ sq'[l].op = "write" /\ sq'[l].from = PostedTo
        /\ sq'[l].len = n
        /\ sq'[l].words # <<>> => \A i \in 1..n :
                sq'[l].words[i] = sendBuf[Slot(sendPos + posted + i - 1)]
    BY <1>1, <1>3, <1>b
  <1>9. Writes' = Writes \cup {l} /\ \A k \in Writes : k \in 1..Len(sq) /\ k < l /\ sq'[k] = sq[k]
    BY <1>b, <1>c DEF Writes
  <1>10. SlicesInv(f)'
    <2>1. ASSUME NEW k \in Writes PROVE SliceInv(k, f)'
      <3>1. SliceInv(k, f) /\ sq'[k] = sq[k] /\ k \in 1..Len(sq) /\ k < l
        BY <1>9 DEF OlderInv, SlicesInv
      <3>2. sq[k].from \in Nat /\ sq[k].len \in Nat /\ sq[k].from + sq[k].len <= PostedTo
        BY <3>1, SliceFacts DEF SliceInv
      <3>3. sq[k].from + sq[k].len <= PostedTo'
        BY <1>3, <1>a, <3>2
      <3>4. IsFirst(k)' => IF k = 1 THEN Started(f)' ELSE f = sq[k].from
        <4>1. IsFirst(k)' => IsFirst(k)
          BY <1>9 DEF IsFirst
        <4>2. k = 1 => (Started(f)' <=> Started(f))
          BY <1>2, <3>1 DEF Started
        <4> QED
          BY <3>1, <4>1, <4>2 DEF SliceInv
      <3>5. ASSUME NEW i \in Writes', IsNext(k, i)'
            PROVE  sq'[i].from = sq[k].from + sq[k].len
        <4>1. k < i /\ \A j \in Writes : j <= k \/ i <= j
          BY <1>9, <3>5 DEF IsNext
        <4>2. CASE i \in Writes
          BY <1>9, <3>1, <4>1, <4>2 DEF SliceInv, IsNext
        <4>3. CASE i = l
          <5>1. IsLast(k)
            BY <1>b, <1>c, <1>9, <4>1, <4>3 DEF IsLast
          <5> QED
            BY <1>b, <1>c, <1>3, <3>1, <4>3, <5>1 DEF SliceInv
        <4> QED
          BY <1>9, <4>2, <4>3
      <3>6. ~IsLast(k)'
        <4>1. l \in Writes' /\ ~(l <= k)
          BY <1>b, <1>c, <1>9, <3>1
        <4> QED
          BY <4>1 DEF IsLast
      <3>7. ASSUME sq[k].words # <<>>, NEW i \in 1..sq[k].len, sq[k].from + i - 1 >= f
            PROVE  Right(sq[k].from + i - 1, sq[k].words[i])'
        <4>1. PICK p, w : p = sq[k].from + i - 1 /\ w = sq[k].words[i]
          OBVIOUS
        <4>2. Right(p, w)
          BY <3>1, <3>7, <4>1 DEF SliceInv
        <4>3. Right(p, w)'
          BY <1>5, <4>2, StaysRight
        <4> QED
          BY <1>2, <3>1, <4>1, <4>3
      <3>8. sq[k].len > 0
        BY <3>1 DEF SliceInv
      <3> QED
        BY <3>1, <3>3, <3>4, <3>5, <3>6, <3>7, <3>8 DEF SliceInv
    <2>2. SliceInv(l, f)'
      <3>1. /\ sq'[l].len = n /\ sq'[l].from = sendPos + posted /\ n > 0
            /\ sq'[l].from + sq'[l].len = PostedTo'
        BY <1>3, <1>a, <1>c
      <3>2. IsFirst(l)' => IF l = 1 THEN Started(f)' ELSE f = sq'[l].from
        <4> SUFFICES ASSUME IsFirst(l)' PROVE IF l = 1 THEN Started(f)' ELSE f = sq'[l].from
          OBVIOUS
        <4>1. Writes = {}
          BY <1>b, <1>c, <1>9 DEF IsFirst
        <4>2. f = PostedTo /\ placed = {}
          BY <4>1 DEF OlderInv, SlicesInv
        <4>3. f = sq'[l].from
          BY <1>b, <1>c, <1>3, <4>2
        <4>4. l = 1 => Started(f)'
          <5> SUFFICES ASSUME l = 1 PROVE Started(f)'
            OBVIOUS
          <5>1. 0 \in 0..n /\ 0..0 - 1 = {} /\ f = f + 0
            BY <1>b, <1>c
          <5>2. placed' = 0..0 - 1 /\ f = sq'[1].from + 0 /\ sq'[1].len = n
            BY <1>b, <1>c, <1>2, <4>2, <4>3, <5>1, <3>1
          <5> QED
            BY <5>1, <5>2 DEF Started
        <4> QED
          BY <4>3, <4>4
      <3>3. \A i \in Writes' : ~IsNext(l, i)'
        BY <1>b, <1>c, <1>9 DEF IsNext
      <3>4. ASSUME sq'[l].words # <<>>, NEW i \in 1..n
            PROVE  Right(sq[l].from + i - 1, sq[l].words[i])'
        <4>1. PICK p, w : p = sendPos + posted + i - 1 /\ w = sendBuf[Slot(p)]
          OBVIOUS
        <4>2. p \in localReadPos..sendPos + copied - 1
          BY <1>2, <1>3, <4>1
        <4>3. Right(p, w)
          BY <4>1, <4>2 DEF OlderInv, BufferInv
        <4>4. Right(p, w)'
          BY <1>5, <4>3, StaysRight
        <4>5. w = sq'[l].words[i]
          BY <1>c, <3>4, <4>1
        <4>6. p = sq'[l].from + i - 1
          BY <1>2, <3>1, <4>1
        <4> QED
          BY <4>4, <4>5, <4>6
      <3>5. sq'[l].len > 0 /\ sq'[l].from + sq'[l].len <= PostedTo'
        <4>1. PostedTo + n <= PostedTo + n
          BY <1>3
        <4> QED
          BY <1>a, <1>c, <3>1, <4>1
      <3> QED
        BY <3>1, <3>2, <3>3, <3>4, <3>5 DEF SliceInv
    <2>3. Writes' # {}
      BY <1>9
    <2>4. 1 \notin Writes' => placed' = {}
      BY <1>2, <1>9 DEF OlderInv, SlicesInv
    <2> QED
      BY <1>9, <2>1, <2>2, <2>3, <2>4 DEF SlicesInv
  <1>11. BufferInv'
    BY <1>2, <1>3, <1>5, SameBuffer DEF OlderInv
  <1>12. CellsInv(f)'
    BY <1>2, <1>3, <1>4, <1>6, SameCells DEF OlderInv
  <1>13. FoundInv'
    <2>1. outbox # <<>> => outbox' # <<>> /\ outbox'[1] = outbox[1]
      <3>1. outbox \in Seq(Message)
        BY DEF OlderInv, MessagesInv
      <3> QED
        BY <1>2, <3>1
    <2> QED
      BY <1>2, <2>1 DEF OlderInv, FoundInv
  <1> QED
    BY <1>2, <1>7, <1>8, <1>10, <1>11, <1>12, <1>13 DEF OlderInv

\* The adapter fetches the words of a write, or samples the position for a READ.
LEMMA OlderAnswers ==
    ASSUME Shape, NEW f \in Nat, OlderInv(f), sq # <<>>, NEW w \in Seq(AnyWord) \cup Seq(Nat),
           sq' = [sq EXCEPT ![1].words = w], sq[1].words = <<>>,
           UNCHANGED <<senderVars, placed, receiverVars, outbox, messageVars>>,
           sq[1].op = "read" => w[1] <= localReadPos,
           sq[1].op = "write" => w = Captured(sq[1].from, sq[1].len)
    PROVE  OlderInv(f)'
  <1>1. /\ UNCHANGED <<placed, receiveBuf, localReadPos, remoteReadPos, outbox, rpc, receiveSize>>
        /\ UNCHANGED <<sendPos, sending, sendBuf, copied, posted, spc>>
    BY DEF senderVars, receiverVars, messageVars
  <1>2. /\ sendPos \in Nat /\ copied \in Nat /\ localReadPos \in Nat /\ localReadPos <= f
        /\ Size \in Nat /\ PostedTo \in Nat /\ f <= PostedTo /\ PostedTo <= sendPos + copied
    BY OlderPositions DEF OlderInv
  <1>3. sq \in Seq(Request)
    BY DEF Shape, BufferShape
  <1>4. /\ Len(sq') = Len(sq) /\ 1 \in 1..Len(sq)
        /\ \A k \in 1..Len(sq) : k # 1 => sq'[k] = sq[k]
        /\ sq'[1].words = w /\ sq'[1].op = sq[1].op /\ sq'[1].from = sq[1].from
        /\ sq'[1].len = sq[1].len
    BY <1>3, WordsSet
  <1>5. Writes' = Writes
    BY <1>4 DEF Writes
  <1>6. /\ PostedTo' = PostedTo /\ SentEnd' = SentEnd /\ Sent' = Sent
        /\ Accepted' = Accepted /\ Wiped' = Wiped
    BY <1>1 DEF PostedTo, SentEnd, Sent, ThisMessage, Accepted, Wiped
  <1>7. KeepsRight
    BY <1>6, StaysRight DEF KeepsRight
  <1>8. PhaseInv'
    BY <1>1 DEF OlderInv, PhaseInv
  <1>9. FrontierInv(f)'
    <2>1. ASSUME NEW k \in 1..Len(sq'), sq'[k].op = "read", sq'[k].words # <<>>
          PROVE  sq'[k].words[1] <= localReadPos'
      <3>1. CASE k = 1
        BY <1>1, <1>4, <2>1, <3>1
      <3>2. CASE k # 1
        BY <1>1, <1>4, <2>1, <3>2 DEF OlderInv, FrontierInv
      <3> QED
        BY <3>1, <3>2
    <2> QED
      BY <1>1, <1>6, <2>1 DEF OlderInv, FrontierInv
  <1>10. MessagesInv'
    BY <1>1, <1>6 DEF OlderInv, MessagesInv, EndOf
  <1>11. SlicesInv(f)'
    <2>1. ASSUME NEW k \in Writes PROVE SliceInv(k, f)'
      <3>1. SliceInv(k, f)
        BY DEF OlderInv, SlicesInv
      <3>2. /\ sq'[k].from = sq[k].from /\ sq'[k].len = sq[k].len
            /\ \A n \in Writes : sq'[n].from = sq[n].from
        BY <1>4 DEF Writes
      <3>3. /\ IsFirst(k)' <=> IsFirst(k)
            /\ IsLast(k)' <=> IsLast(k)
            /\ \A n : IsNext(k, n)' <=> IsNext(k, n)
        BY <1>5 DEF IsFirst, IsLast, IsNext
      <3>4. k = 1 /\ IsFirst(k) => Started(f)'
        <4> SUFFICES ASSUME k = 1, IsFirst(k) PROVE Started(f)'
          OBVIOUS
        <4>1. PICK c \in 0..sq[1].len :
                  placed = 0..c - 1 /\ f = sq[1].from + c /\ (c > 0 => sq[1].words # <<>>)
          BY <3>1 DEF SliceInv, Started
        <4> QED
          BY <1>1, <1>4, <4>1 DEF Started
      <3>5. ASSUME sq'[k].words # <<>>, NEW i \in 1..sq[k].len, sq[k].from + i - 1 >= f
            PROVE  Right(sq[k].from + i - 1, sq[k].words[i])'
        <4>1. PICK p, v : p = sq[k].from + i - 1 /\ v = sq'[k].words[i]
          OBVIOUS
        <4>2. Right(p, v)
          <5>1. CASE k = 1
            <6>1. /\ sq[1].from \in Nat /\ sq[1].len \in Nat /\ sq[1].op = "write"
                  /\ sq[1].from + sq[1].len <= PostedTo
              BY <3>1, <5>1, SliceFacts DEF SliceInv
            <6>2. v = sendBuf[Slot(p)]
              <7>1. v = Captured(sq[1].from, sq[1].len)[i] /\ i \in 1..sq[1].len
                BY <1>4, <4>1, <5>1, <6>1
              <7> QED
                BY <4>1, <5>1, <7>1 DEF Captured
            <6>3. p \in localReadPos..sendPos + copied - 1
              <7>1. p = sq[1].from + i - 1 /\ p >= f /\ i \in 1..sq[1].len
                BY <3>5, <4>1, <5>1
              <7>2. p \in Nat /\ p < PostedTo
                BY <1>2, <6>1, <7>1
              <7> QED
                BY <1>2, <7>1, <7>2
            <6> QED
              BY <6>2, <6>3 DEF OlderInv, BufferInv
          <5>2. CASE k # 1
            <6>1. sq'[k] = sq[k]
              BY <1>4, <5>2 DEF Writes
            <6> QED
              BY <3>1, <3>5, <4>1, <6>1 DEF SliceInv
          <5> QED
            BY <5>1, <5>2
        <4>3. Right(p, v)'
          BY <1>6, <4>2, StaysRight
        <4>4. p = sq'[k].from + i - 1
          BY <3>2, <4>1
        <4> QED
          BY <4>1, <4>3, <4>4
      <3> QED
        BY <1>5, <1>6, <3>1, <3>2, <3>3, <3>4, <3>5 DEF SliceInv
    <2> QED
      BY <1>1, <1>5, <1>6, <2>1 DEF OlderInv, SlicesInv
  <1>12. BufferInv'
    BY <1>1, <1>2, <1>6, SameBuffer DEF OlderInv
  <1>13. CellsInv(f)'
    BY <1>1, <1>2, <1>6, <1>7, SameCells DEF OlderInv
  <1>14. FoundInv'
    BY <1>1 DEF OlderInv, FoundInv
  <1> QED
    BY <1>8, <1>9, <1>10, <1>11, <1>12, <1>13, <1>14 DEF OlderInv

\* A word is placed: the one at the frontier, because words are placed in order.
LEMMA OlderPlaces ==
    ASSUME Shape, NEW f \in Nat, OlderInv(f), NEW i, Place(i), SliceSafe, IsMessageBuffer,
           UNCHANGED messageVars
    PROVE  OlderInv(f + 1)'
  <1>1. /\ UNCHANGED <<sq, localReadPos, remoteReadPos, outbox, rpc, receiveSize>>
        /\ UNCHANGED <<sendPos, sending, sendBuf, copied, posted, spc>>
    BY DEF Place, senderVars, messageVars
  <1>2. /\ sendPos \in Nat /\ copied \in Nat /\ localReadPos \in Nat /\ localReadPos <= f
        /\ Size \in Nat /\ PostedTo \in Nat /\ Wiped <= f /\ Accepted \in Nat /\ Accepted <= f
        /\ PostedTo <= localReadPos + Size /\ Wiped \in Nat
    <2>1. /\ sendPos \in Nat /\ copied \in Nat /\ localReadPos \in Nat
          /\ localReadPos <= Wiped /\ Wiped <= Accepted /\ Accepted <= f
          /\ Size \in Nat /\ PostedTo \in Nat /\ Accepted \in Nat /\ Wiped \in Nat
          /\ PostedTo <= sendPos + copied /\ sendPos + copied <= localReadPos + Size
      BY OlderPositions DEF OlderInv
    <2> QED
      BY <2>1
  <1>3. Oldest = sq[1] /\ sq # <<>> /\ sq \in Seq(Request)
    BY DEF Oldest, Place, Shape, BufferShape
  <1>4. /\ sq[1].op = "write" /\ sq[1].words # <<>> /\ i \in 0..sq[1].len - 1 /\ i \notin placed
        /\ \A j \in 0..i - 1 : j \in placed
        /\ receiveBuf' = [receiveBuf EXCEPT ![Slot(sq[1].from + i)] = sq[1].words[i + 1]]
        /\ placed' = placed \cup {i}
    BY <1>3 DEF Place, SliceSafe, IsMessageBuffer
  <1>5. 1 \in Writes
    BY <1>3, <1>4 DEF Writes
  <1>6. SliceInv(1, f) /\ IsFirst(1)
    <2>1. \A k \in Writes : 1 <= k
      BY DEF Writes
    <2> QED
      BY <1>5, <2>1 DEF OlderInv, SlicesInv, IsFirst
  <1>7. /\ sq[1].from \in Nat /\ sq[1].len \in Nat /\ sq[1].from + sq[1].len <= PostedTo
        /\ sq[1].words \in [1..sq[1].len -> AnyWord]
    BY <1>4, <1>5, <1>6, SliceFacts DEF SliceInv
  <1>8. PICK c \in 0..sq[1].len : placed = 0..c - 1 /\ f = sq[1].from + c
    BY <1>6 DEF SliceInv, Started
  <1>9. i = c /\ placed' = 0..(c + 1) - 1 /\ c + 1 \in 0..sq[1].len /\ f < PostedTo
    <2>1. ~(c < i)
      <3>1. c < i => c \in 0..i - 1 /\ c \notin 0..c - 1
        BY <1>4, <1>7, <1>8
      <3> QED
        BY <1>4, <1>8, <3>1
    <2>2. ~(i < c)
      <3>1. i < c => i \in 0..c - 1
        BY <1>4, <1>7, <1>8
      <3> QED
        BY <1>4, <1>8, <3>1
    <2>3. i \in Int /\ c \in Int
      BY <1>4, <1>7, <1>8
    <2>4. i = c
      BY <2>1, <2>2, <2>3
    <2>5. 0..(c + 1) - 1 = (0..c - 1) \cup {c}
      BY <1>8
    <2>6. c + 1 \in 0..sq[1].len /\ f < PostedTo
      <3>1. \A n, b, e \in Nat : c \in 0..n - 1 /\ b + n <= e => c + 1 \in 0..n /\ b + c < e
        BY <2>3
      <3>2. c \in 0..sq[1].len - 1 /\ f = sq[1].from + c
        BY <1>4, <1>8, <2>4
      <3>3. PostedTo \in Nat
        BY <1>2
      <3> QED
        BY <1>7, <3>1, <3>2, <3>3
    <2> QED
      BY <1>4, <1>8, <2>4, <2>5, <2>6
  <1>10. PICK v : v = sq[1].words[c + 1]
    OBVIOUS
  <1>11. receiveBuf' = [receiveBuf EXCEPT ![Slot(f)] = v]
    BY <1>4, <1>8, <1>9, <1>10
  <1>12. Right(f, v)
    <2>1. c + 1 \in 1..sq[1].len /\ sq[1].from + (c + 1) - 1 = f
      BY <1>7, <1>8, <1>9
    <2>2. sq[1].from + (c + 1) - 1 >= f
      BY <2>1
    <2>3. Right(sq[1].from + (c + 1) - 1, sq[1].words[c + 1])
      BY <1>4, <1>6, <2>1, <2>2 DEF SliceInv
    <2> QED
      BY <1>10, <2>1, <2>3
  <1>13. /\ PostedTo' = PostedTo /\ SentEnd' = SentEnd /\ Sent' = Sent
         /\ Accepted' = Accepted /\ Wiped' = Wiped /\ Writes' = Writes
    BY <1>1 DEF PostedTo, SentEnd, Sent, ThisMessage, Accepted, Wiped, Writes
  <1>14. PhaseInv'
    BY <1>1 DEF OlderInv, PhaseInv
  <1>15. FrontierInv(f + 1)'
    <2>1. Accepted' <= f + 1 /\ f + 1 <= PostedTo'
      BY <1>2, <1>9, <1>13
    <2> QED
      BY <1>1, <2>1 DEF OlderInv, FrontierInv
  <1>16. MessagesInv'
    BY <1>1, <1>13 DEF OlderInv, MessagesInv, EndOf
  <1>17. SlicesInv(f + 1)'
    <2>1. ASSUME NEW k \in Writes PROVE SliceInv(k, f + 1)'
      <3>1. SliceInv(k, f)
        BY DEF OlderInv, SlicesInv
      <3>2. /\ IsLast(k)' <=> IsLast(k)
            /\ \A n : IsNext(k, n)' <=> IsNext(k, n)
        BY <1>13 DEF IsLast, IsNext
      <3>3. IsFirst(k)' => k = 1
        <4>1. 1 \in Writes'
          BY <1>5, <1>13
        <4>2. k >= 1 /\ k \in Nat
          BY SliceFacts DEF Writes
        <4> QED
          BY <4>1, <4>2 DEF IsFirst
      <3>4. Started(f + 1)'
        <4>1. f + 1 = sq[1].from + (c + 1)
          BY <1>7, <1>8
        <4> QED
          BY <1>1, <1>4, <1>9, <4>1 DEF Started
      <3>5. ASSUME sq[k].words # <<>>, NEW n \in 1..sq[k].len, sq[k].from + n - 1 >= f + 1
            PROVE  Right(sq[k].from + n - 1, sq[k].words[n])'
        <4>1. PICK p, w : p = sq[k].from + n - 1 /\ w = sq[k].words[n]
          OBVIOUS
        <4>2. sq[k].from + n - 1 >= f
          BY <3>5, SliceFacts
        <4>3. Right(p, w)
          BY <3>1, <3>5, <4>1, <4>2 DEF SliceInv
        <4>4. Right(p, w)'
          BY <1>13, <4>3, StaysRight
        <4> QED
          BY <1>1, <4>1, <4>4
      <3> QED
        BY <1>1, <1>13, <3>1, <3>2, <3>3, <3>4, <3>5 DEF SliceInv
    <2> QED
      BY <1>5, <1>13, <2>1 DEF SlicesInv
  <1>18. BufferInv'
    BY <1>1, <1>2, <1>13, SameBuffer DEF OlderInv
  <1>19. CellsInv(f + 1)'
    <2> SUFFICES ASSUME NEW p \in localReadPos..localReadPos + Size - 1
                 PROVE  IF Wiped <= p /\ p < f + 1
                        THEN Right(p, receiveBuf[Slot(p)])' ELSE receiveBuf'[Slot(p)] = Zero
      BY <1>1, <1>13 DEF CellsInv, CellInv
    <2>0. p \in Nat /\ Slot(p) \in Cells /\ Slot(f) \in Cells /\ receiveBuf \in [Cells -> AnyWord]
      BY <1>2, SlotFacts DEF Shape, BufferShape
    <2>1. CASE p = f
      <3>1. receiveBuf'[Slot(p)] = v
        BY <1>11, <2>0, <2>1
      <3>2. Right(p, v)'
        BY <1>12, <1>13, <2>1, StaysRight
      <3>3. Wiped <= p /\ p < f + 1
        BY <1>2, <2>1
      <3> QED
        BY <3>1, <3>2, <3>3
    <2>2. CASE p # f
      <3>1. Slot(p) # Slot(f)
        <4>1. p < f => f - p < Size
          BY <1>2, <1>9
        <4>2. f < p => p - f < Size
          BY <1>2
        <4> QED
          BY <2>0, <2>2, <4>1, <4>2, SlotFacts
      <3>2. PICK w : w = receiveBuf[Slot(p)]
        OBVIOUS
      <3>3. receiveBuf'[Slot(p)] = w
        BY <1>11, <2>0, <3>1, <3>2
      <3>4. IF Wiped <= p /\ p < f THEN Right(p, w) ELSE w = Zero
        BY <3>2 DEF OlderInv, CellsInv, CellInv
      <3>5. p < f + 1 <=> p < f
        BY <2>0, <2>2
      <3>6. Right(p, w) => Right(p, w)'
        BY <1>13, StaysRight
      <3> QED
        BY <3>3, <3>4, <3>5, <3>6
    <2> QED
      BY <2>1, <2>2
  <1>20. FoundInv'
    BY <1>1 DEF OlderInv, FoundInv
  <1> QED
    BY <1>14, <1>15, <1>16, <1>17, <1>18, <1>19, <1>20 DEF OlderInv

\* The writes that are left when the oldest request is acknowledged.
LEMMA WritesLeft ==
    ASSUME Shape, Acknowledge
    PROVE  /\ \A k \in Writes' : k \in Nat /\ k >= 1 /\ k + 1 \in Writes /\ sq'[k] = sq[k + 1]
           /\ \A k \in Writes : k # 1 => k - 1 \in Writes' /\ k \in Nat /\ k >= 2
  <1>1. /\ Len(sq) \in Nat /\ Len(sq') = Len(sq) - 1 /\ \A k \in 1..Len(sq') : sq'[k] = sq[k + 1]
    BY Acknowledged
  <1>2. \A k \in 1..Len(sq') : k \in Nat /\ k >= 1 /\ k + 1 \in 1..Len(sq)
    BY <1>1
  <1>3. \A k \in 1..Len(sq) : k # 1 => k - 1 \in 1..Len(sq') /\ (k - 1) + 1 = k /\ k \in Nat /\ k >= 2
    BY <1>1
  <1> QED
    BY <1>1, <1>2, <1>3 DEF Writes

\* The oldest request is carried out. If it is a write, the frontier is at its end.
LEMMA OlderAcknowledges ==
    ASSUME Shape, NEW f \in Nat, OlderInv(f), Acknowledge, UNCHANGED messageVars
    PROVE  OlderInv(f)'
  <1>1. /\ UNCHANGED <<receiveBuf, localReadPos, outbox, rpc, receiveSize>>
        /\ UNCHANGED <<sendPos, sending, sendBuf, copied, posted, spc>> /\ placed' = {}
    BY DEF Acknowledge, receiverVars, messageVars
  <1>2. /\ sendPos \in Nat /\ copied \in Nat /\ localReadPos \in Nat
        /\ Size \in Nat /\ PostedTo \in Nat /\ f <= PostedTo
    BY OlderPositions DEF OlderInv
  <1>3. /\ Oldest = sq[1] /\ sq # <<>> /\ 1 \in 1..Len(sq) /\ sq[1] \in Request
        /\ Len(sq) \in Nat /\ Len(sq') = Len(sq) - 1 /\ \A k \in 1..Len(sq') : sq'[k] = sq[k + 1]
        /\ sq[1].words # <<>>
        /\ remoteReadPos' = IF sq[1].op = "read" THEN sq[1].words[1] ELSE remoteReadPos
    BY Acknowledged
  <1>4. sq[1].op = "write" => placed = 0..sq[1].len - 1
    BY <1>3 DEF Acknowledge
  <1>5. /\ \A k \in Writes' : k \in Nat /\ k >= 1 /\ k + 1 \in Writes /\ sq'[k] = sq[k + 1]
        /\ \A k \in Writes : k # 1 => k - 1 \in Writes' /\ k \in Nat /\ k >= 2
    BY WritesLeft
  <1>6. /\ PostedTo' = PostedTo /\ SentEnd' = SentEnd /\ Sent' = Sent
        /\ Accepted' = Accepted /\ Wiped' = Wiped
    BY <1>1 DEF PostedTo, SentEnd, Sent, ThisMessage, Accepted, Wiped
  <1>7. KeepsRight
    BY <1>6, StaysRight DEF KeepsRight
  <1>8. PhaseInv'
    BY <1>1 DEF OlderInv, PhaseInv
  <1>9. FrontierInv(f)'
    <2>1. ASSUME NEW k \in 1..Len(sq'), sq'[k].op = "read", sq'[k].words # <<>>
          PROVE  sq'[k].words[1] <= localReadPos'
      <3>1. k + 1 \in 1..Len(sq) /\ sq'[k] = sq[k + 1]
        BY <1>3
      <3> QED
        BY <1>1, <2>1, <3>1 DEF OlderInv, FrontierInv
    <2>2. remoteReadPos' <= localReadPos'
      BY <1>1, <1>3 DEF OlderInv, FrontierInv
    <2> QED
      BY <1>1, <1>6, <2>1, <2>2 DEF OlderInv, FrontierInv
  <1>10. MessagesInv'
    BY <1>1, <1>6 DEF OlderInv, MessagesInv, EndOf
  <1>11. 1 \in Writes => IsFirst(1) /\ f = sq[1].from + sq[1].len /\ SliceInv(1, f)
    <2> SUFFICES ASSUME 1 \in Writes
                 PROVE  IsFirst(1) /\ f = sq[1].from + sq[1].len /\ SliceInv(1, f)
      OBVIOUS
    <2>1. SliceInv(1, f) /\ IsFirst(1)
      <3>1. \A k \in Writes : 1 <= k
        BY DEF Writes
      <3> QED
        BY <3>1 DEF OlderInv, SlicesInv, IsFirst
    <2>2. PICK c \in 0..sq[1].len : placed = 0..c - 1 /\ f = sq[1].from + c
      BY <2>1 DEF SliceInv, Started
    <2>3. sq[1].len \in Nat /\ placed = 0..sq[1].len - 1
      BY <1>4, SliceFacts
    <2>4. c = sq[1].len
      <3>1. c < sq[1].len => c \in 0..sq[1].len - 1 /\ c \notin 0..c - 1
        BY <2>2, <2>3
      <3>2. ~(c < sq[1].len)
        BY <2>2, <2>3, <3>1
      <3> QED
        BY <2>2, <2>3, <3>2
    <2> QED
      BY <2>1, <2>2, <2>4
  <1>12. SlicesInv(f)'
    <2>1. ASSUME NEW k \in Writes' PROVE SliceInv(k, f)'
      <3>1. PICK n \in Writes : n = k + 1 /\ k \in Nat /\ k >= 1 /\ n \in Nat /\ sq'[k] = sq[n]
        BY <1>5
      <3>2. SliceInv(n, f)
        BY DEF OlderInv, SlicesInv
      <3>3. ASSUME IsFirst(k)' PROVE f = sq[n].from
        <4>1. \A j \in Writes : j # 1 => n <= j
          <5> SUFFICES ASSUME NEW j \in Writes, j # 1 PROVE n <= j
            OBVIOUS
          <5>1. j - 1 \in Writes' /\ j \in Nat
            BY <1>5
          <5>2. k <= j - 1
            BY <3>3, <5>1 DEF IsFirst
          <5> QED
            BY <3>1, <5>1, <5>2
        <4>2. CASE 1 \in Writes
          <5>1. IsNext(1, n)
            <6>1. 1 < n /\ \A j \in Writes : j <= 1 \/ n <= j
              BY <3>1, <4>1
            <6> QED
              BY <6>1 DEF IsNext
          <5> QED
            BY <1>11, <4>2, <5>1 DEF SliceInv
        <4>3. CASE 1 \notin Writes
          <5>1. IsFirst(n) /\ n # 1
            BY <3>1, <4>1, <4>3 DEF IsFirst
          <5> QED
            BY <3>2, <5>1 DEF SliceInv
        <4> QED
          BY <4>2, <4>3
      <3>4. IsFirst(k)' => IF k = 1 THEN Started(f)' ELSE f = sq'[k].from
        <4> SUFFICES ASSUME IsFirst(k)' PROVE IF k = 1 THEN Started(f)' ELSE f = sq'[k].from
          OBVIOUS
        <4>1. f = sq'[k].from
          BY <3>1, <3>3
        <4>2. k = 1 => Started(f)'
          <5> SUFFICES ASSUME k = 1 PROVE Started(f)'
            OBVIOUS
          <5>1. sq[n].len \in Nat /\ sq[n].from \in Nat
            BY SliceFacts
          <5>2. 0 \in 0..sq[n].len /\ 0..0 - 1 = {} /\ f = f + 0
            BY <5>1
          <5>3. placed' = 0..0 - 1 /\ f = sq'[1].from + 0 /\ 0 \in 0..sq'[1].len
            BY <1>1, <3>1, <4>1, <5>2
          <5> QED
            BY <5>3 DEF Started
        <4> QED
          BY <4>1, <4>2
      <3>5. ASSUME NEW i \in Writes', IsNext(k, i)'
            PROVE  sq'[i].from = sq'[k].from + sq'[k].len
        <4>1. PICK l \in Writes : l = i + 1 /\ i \in Nat /\ l \in Nat /\ sq'[i] = sq[l]
          BY <1>5
        <4>2. IsNext(n, l)
          <5>1. n < l
            BY <3>1, <3>5, <4>1 DEF IsNext
          <5>2. ASSUME NEW j \in Writes PROVE j <= n \/ l <= j
            <6>1. CASE j = 1
              BY <3>1, <6>1
            <6>2. CASE j # 1
              <7>1. j - 1 \in Writes' /\ j \in Nat
                BY <1>5, <6>2
              <7>2. j - 1 <= k \/ i <= j - 1
                BY <3>5, <7>1 DEF IsNext
              <7> QED
                BY <3>1, <4>1, <7>1, <7>2
            <6> QED
              BY <6>1, <6>2
          <5> QED
            BY <5>1, <5>2 DEF IsNext
        <4> QED
          BY <3>1, <3>2, <4>1, <4>2 DEF SliceInv
      <3>6. IsLast(k)' => IsLast(n)
        <4> SUFFICES ASSUME IsLast(k)', NEW j \in Writes PROVE j <= n
          BY DEF IsLast
        <4>1. CASE j = 1
          BY <3>1, <4>1
        <4>2. CASE j # 1
          <5>1. j - 1 \in Writes' /\ j \in Nat
            BY <1>5, <4>2
          <5>2. j - 1 <= k
            BY <5>1 DEF IsLast
          <5> QED
            BY <3>1, <5>1, <5>2
        <4> QED
          BY <4>1, <4>2
      <3>7. ASSUME sq'[k].words # <<>>, NEW i \in 1..sq'[k].len, sq'[k].from + i - 1 >= f
            PROVE  Right(sq[k].from + i - 1, sq[k].words[i])'
        <4>1. PICK p, w : p = sq'[k].from + i - 1 /\ w = sq'[k].words[i]
          OBVIOUS
        <4>2. Right(p, w)
          BY <3>1, <3>2, <3>7, <4>1 DEF SliceInv
        <4>3. Right(p, w)'
          BY <1>6, <4>2, StaysRight
        <4> QED
          BY <4>1, <4>3
      <3>8. /\ sq'[k].len > 0 /\ sq'[k].from + sq'[k].len <= PostedTo'
            /\ IsLast(n) => sq'[k].from + sq'[k].len = PostedTo'
        BY <1>6, <3>1, <3>2 DEF SliceInv
      <3> QED
        BY <3>4, <3>5, <3>6, <3>7, <3>8 DEF SliceInv
    <2>2. Writes' = {} => f = PostedTo'
      <3> SUFFICES ASSUME Writes' = {} PROVE f = PostedTo
        BY <1>6
      <3>1. \A j \in Writes : j = 1
        BY <1>5
      <3>2. CASE 1 \in Writes
        <4>1. IsLast(1)
          BY <3>1 DEF IsLast
        <4> QED
          BY <1>11, <3>2, <4>1 DEF SliceInv
      <3>3. CASE 1 \notin Writes
        BY <3>1, <3>3 DEF OlderInv, SlicesInv
      <3> QED
        BY <3>2, <3>3
    <2> QED
      BY <1>1, <2>1, <2>2 DEF SlicesInv
  <1>13. BufferInv'
    BY <1>1, <1>2, <1>6, SameBuffer DEF OlderInv
  <1>14. CellsInv(f)'
    BY <1>1, <1>2, <1>6, <1>7, SameCells DEF OlderInv
  <1>15. FoundInv'
    BY <1>1 DEF OlderInv, FoundInv
  <1> QED
    BY <1>8, <1>9, <1>10, <1>12, <1>13, <1>14, <1>15 DEF OlderInv

\* A step of the receiver that changes neither the ring nor its position.
LEMMA OlderLooks ==
    ASSUME Shape, NEW f \in Nat, OlderInv(f),
           UNCHANGED <<senderVars, adapterVars, localReadPos, receiveBuf, outbox, messageVars>>,
           Wiped' = Wiped, Accepted' <= f, FoundInv'
    PROVE  OlderInv(f)'
  <1>1. /\ UNCHANGED <<sq, placed, receiveBuf, localReadPos, remoteReadPos, outbox>>
        /\ UNCHANGED <<sendPos, sending, sendBuf, copied, posted, spc>>
    BY DEF senderVars, adapterVars, messageVars
  <1>2. /\ sendPos \in Nat /\ copied \in Nat /\ localReadPos \in Nat
        /\ Size \in Nat /\ PostedTo \in Nat /\ f <= PostedTo
    BY OlderPositions DEF OlderInv
  <1>3. PostedTo' = PostedTo /\ SentEnd' = SentEnd /\ Sent' = Sent
    BY <1>1 DEF PostedTo, SentEnd, Sent, ThisMessage
  <1>4. KeepsRight
    BY <1>3, StaysRight DEF KeepsRight
  <1>5. PhaseInv'
    BY <1>1 DEF OlderInv, PhaseInv
  <1>6. FrontierInv(f)'
    BY <1>1, <1>3 DEF OlderInv, FrontierInv
  <1>7. MessagesInv'
    BY <1>1, <1>3 DEF OlderInv, MessagesInv, EndOf
  <1>8. SlicesInv(f)' /\ CellsInv(f)'
    BY <1>1, <1>2, <1>3, <1>4, SameSlice, SameCells DEF OlderInv
  <1>9. BufferInv'
    BY <1>1, <1>2, <1>3, SameBuffer DEF OlderInv
  <1> QED
    BY <1>5, <1>6, <1>7, <1>8, <1>9 DEF OlderInv

\* What the receiver sees of the oldest message: a word that is not zero is the
\* right one, and then everything before it is there.
LEMMA OlderSees ==
    ASSUME Shape, NEW f \in Nat, OlderInv(f), rpc # "publish", NEW j \in 0..Size - 1,
           receiveBuf[Slot(localReadPos + j)] # Zero
    PROVE  /\ localReadPos + j < f /\ outbox # <<>> /\ outbox[1].len \in 0..Size - 2
           /\ j <= outbox[1].len + 1 =>
                receiveBuf[Slot(localReadPos + j)] = MessageWord(localReadPos, outbox[1].len, j)
  <1>1. /\ localReadPos \in Nat /\ Size \in Nat /\ Wiped = localReadPos
        /\ f <= SentEnd /\ SentEnd \in Nat
    <2>1. /\ localReadPos \in Nat /\ Size \in Nat /\ Wiped = localReadPos
          /\ f <= PostedTo /\ PostedTo <= SentEnd /\ PostedTo \in Nat /\ SentEnd \in Nat
      BY OlderPositions DEF OlderInv
    <2> QED
      BY <2>1
  <1>2. PICK p \in Nat : p = localReadPos + j
    BY <1>1
  <1>3. p \in localReadPos..localReadPos + Size - 1 /\ receiveBuf[Slot(p)] # Zero
    BY <1>1, <1>2
  <1>4. Wiped <= p /\ p < f /\ Right(p, receiveBuf[Slot(p)])
    BY <1>3 DEF OlderInv, CellsInv, CellInv
  <1>5. outbox # <<>>
    <2>1. localReadPos < SentEnd
      BY <1>1, <1>2, <1>4
    <2> QED
      BY <1>1, <2>1 DEF OlderInv, MessagesInv
  <1>6. 1 \in 1..Len(outbox)
    <2>1. outbox \in Seq(Message)
      BY DEF OlderInv, MessagesInv
    <2> QED
      BY <1>5, <2>1
  <1>7. outbox[1].len \in 0..Size - 2 /\ outbox[1].at = localReadPos
    BY <1>6, MessageFacts DEF OlderInv
  <1>8. outbox[1] \in Sent
    BY <1>6 DEF Sent
  <1>9. ASSUME j <= outbox[1].len + 1
        PROVE  receiveBuf[Slot(p)] = MessageWord(localReadPos, outbox[1].len, j)
    <2>1. j \in 0..outbox[1].len + 1 /\ outbox[1].at + j = p
      BY <1>1, <1>2, <1>7, <1>9
    <2>2. receiveBuf[Slot(p)] = MessageWord(outbox[1].at, outbox[1].len, j)
      BY <1>4, <1>8, <2>1 DEF Right
    <2> QED
      BY <1>7, <2>2
  <1> QED
    BY <1>2, <1>4, <1>5, <1>7, <1>9

\* The poll loop.
LEMMA OlderPolls ==
    ASSUME Shape, NEW f \in Nat, OlderInv(f), UNCHANGED messageVars,
           StartReceive \/ PollSize \/ PollValidity \/ CallbackThrows
    PROVE  OlderInv(f)'
  <1>1. UNCHANGED <<senderVars, adapterVars, localReadPos, receiveBuf, outbox, messageVars>>
    BY DEF StartReceive, BeginReceive, PollSize, PollValidity, CallbackThrows
  <1>2. /\ localReadPos \in Nat /\ Size \in Nat /\ receiveSize \in Nat /\ localReadPos <= f
        /\ Size >= 2
    <2>1. /\ localReadPos \in Nat /\ Size \in Nat /\ receiveSize \in Nat
          /\ localReadPos <= Wiped /\ Wiped <= Accepted /\ Accepted <= f
          /\ Wiped \in Nat /\ Accepted \in Nat
      BY OlderPositions DEF OlderInv
    <2> QED
      BY <2>1, SizeAssumption
  <1>3. rpc # "publish" /\ rpc' # "publish"
    BY DEF StartReceive, BeginReceive, PollSize, PollValidity, CallbackThrows
  <1>4. Wiped' = Wiped
    BY <1>1, <1>2, <1>3 DEF Wiped
  <1>5. CASE StartReceive \/ CallbackThrows
    <2>1. rpc' \in {"idle", "pollSize"}
      BY <1>5 DEF StartReceive, BeginReceive, CallbackThrows
    <2>2. Accepted' <= f
      BY <1>1, <1>2, <2>1 DEF Accepted
    <2>3. FoundInv'
      BY <2>1 DEF FoundInv
    <2> QED
      BY <1>1, <1>4, <2>2, <2>3, OlderLooks
  <1>6. CASE PollSize
    <2>1. rpc' = "pollValidity" /\ receiveSize' = AsSize(receiveBuf[Slot(localReadPos)])
      BY <1>6 DEF PollSize
    <2>2. Accepted' <= f
      BY <1>1, <1>2, <2>1 DEF Accepted
    <2>3. FoundInv'
      <3> SUFFICES ASSUME receiveSize' # 0 PROVE outbox # <<>> /\ receiveSize' = outbox[1].len
        BY <1>1, <2>1 DEF FoundInv
      <3>1. receiveBuf[Slot(localReadPos)] # Zero
        BY <2>1, WordFacts
      <3>2. 0 \in 0..Size - 1 /\ localReadPos + 0 = localReadPos
        BY <1>2
      <3>3. /\ outbox # <<>> /\ outbox[1].len \in 0..Size - 2
            /\ 0 <= outbox[1].len + 1 =>
                receiveBuf[Slot(localReadPos + 0)] = MessageWord(localReadPos, outbox[1].len, 0)
        BY <1>3, <3>1, <3>2, OlderSees
      <3>4. outbox[1].len \in Nat
        BY <1>2, <3>3
      <3>5. receiveBuf[Slot(localReadPos)] = SizeWord(outbox[1].len)
        <4>1. 0 <= outbox[1].len + 1 /\ 0 \in 0..outbox[1].len + 1
          BY <3>4
        <4>2. MessageWord(localReadPos, outbox[1].len, 0) = SizeWord(outbox[1].len)
          BY <1>2, <3>4, <4>1, MessageWordFacts
        <4> QED
          BY <3>2, <3>3, <4>1, <4>2
      <3>6. AsSize(SizeWord(outbox[1].len)) = outbox[1].len
        BY <3>4, WordFacts
      <3> QED
        BY <2>1, <3>3, <3>5, <3>6
    <2> QED
      BY <1>1, <1>4, <2>2, <2>3, OlderLooks
  <1>7. CASE PollValidity
    <2>1. /\ rpc = "pollValidity" /\ receiveSize' = receiveSize
          /\ rpc' = IF receiveBuf[Slot(localReadPos + 1 + receiveSize)] = Validity
                    THEN "callback" ELSE "pollSize"
      BY <1>7 DEF PollValidity
    <2>2. CASE receiveBuf[Slot(localReadPos + 1 + receiveSize)] # Validity
      <3>1. rpc' = "pollSize"
        BY <2>1, <2>2
      <3>2. Accepted' <= f
        BY <1>1, <1>2, <3>1 DEF Accepted
      <3>3. FoundInv'
        BY <3>1 DEF FoundInv
      <3> QED
        BY <1>1, <1>4, <3>2, <3>3, OlderLooks
    <2>3. CASE receiveBuf[Slot(localReadPos + 1 + receiveSize)] = Validity
      <3> DEFINE j == 1 + receiveSize
      <3>1. receiveSize # 0 => outbox # <<>> /\ receiveSize = outbox[1].len
        BY <2>1 DEF OlderInv, FoundInv
      <3>2. receiveSize # 0 => receiveSize \in 0..Size - 2
        <4> SUFFICES ASSUME receiveSize # 0 PROVE receiveSize \in 0..Size - 2
          OBVIOUS
        <4>1. outbox \in Seq(Message) /\ outbox # <<>>
          BY <3>1 DEF OlderInv, MessagesInv
        <4>2. 1 \in 1..Len(outbox)
          BY <4>1
        <4> QED
          BY <3>1, <4>2, MessageFacts DEF OlderInv
      <3>3. j \in 0..Size - 1 /\ localReadPos + j = localReadPos + 1 + receiveSize
        BY <1>2, <3>2
      <3>4. receiveBuf[Slot(localReadPos + j)] = Validity /\ Validity # Zero
        BY <2>3, <3>3, WordFacts
      <3> HIDE DEF j
      <3>5. /\ localReadPos + j < f /\ outbox # <<>> /\ outbox[1].len \in 0..Size - 2
            /\ j <= outbox[1].len + 1 =>
                receiveBuf[Slot(localReadPos + j)] = MessageWord(localReadPos, outbox[1].len, j)
        BY <1>3, <3>3, <3>4, OlderSees
      <3>6. outbox[1].len \in Nat
        BY <1>2, <3>5
      <3>7. receiveSize = outbox[1].len
        <4>1. CASE receiveSize = 0
          <5>1. j \in 0..outbox[1].len + 1 /\ j = 1
            BY <3>6, <4>1 DEF j
          <5>2. MessageWord(localReadPos, outbox[1].len, j) = Validity
            BY <3>4, <3>5, <5>1, <3>6
          <5>3. j = outbox[1].len + 1
            BY <1>2, <3>6, <5>1, <5>2, MessageWordFacts
          <5> QED
            BY <3>6, <4>1, <5>1, <5>3
        <4> QED
          BY <3>1, <4>1
      <3>8. rpc' = "callback"
        BY <2>1, <2>3
      <3>9. Accepted' <= f
        <4>1. Accepted' = localReadPos + (receiveSize + 2)
          BY <1>1, <2>1, <3>8 DEF Accepted, Total
        <4> QED
          BY <1>2, <3>3, <3>5, <4>1 DEF j
      <3>10. FoundInv'
        BY <1>1, <2>1, <3>5, <3>7, <3>8 DEF FoundInv
      <3> QED
        BY <1>1, <1>4, <3>9, <3>10, OlderLooks
    <2> QED
      BY <2>2, <2>3
  <1> QED
    BY <1>5, <1>6, <1>7

\* The accepted message is wiped.
LEMMA OlderWipes ==
    ASSUME Shape, NEW f \in Nat, OlderInv(f), UNCHANGED messageVars, Wipe
    PROVE  OlderInv(f)'
  <1>1. /\ UNCHANGED <<sq, placed, localReadPos, remoteReadPos, outbox, receiveSize>>
        /\ UNCHANGED <<sendPos, sending, sendBuf, copied, posted, spc>>
        /\ rpc = "callback" /\ rpc' = "publish"
    BY DEF Wipe, senderVars, adapterVars, messageVars
  <1>2. /\ sendPos \in Nat /\ copied \in Nat /\ localReadPos \in Nat /\ receiveSize \in Nat
        /\ Size \in Nat /\ PostedTo \in Nat /\ f <= PostedTo /\ Wiped = localReadPos
        /\ Accepted = localReadPos + receiveSize + 2 /\ Accepted <= f
    BY <1>1, OlderPositions DEF OlderInv
  <1>3. outbox # <<>> /\ receiveSize = outbox[1].len /\ outbox \in Seq(Message)
    BY <1>1 DEF OlderInv, FoundInv, MessagesInv
  <1>4. receiveSize + 2 <= Size
    <2>1. 1 \in 1..Len(outbox)
      BY <1>3
    <2>2. receiveSize \in 0..Size - 2
      BY <1>3, <2>1, MessageFacts DEF OlderInv
    <2> QED
      BY <1>2, <2>2
  <1>5. Wiped' = Accepted /\ Accepted' = Accepted
    BY <1>1, <1>2 DEF Wiped, Accepted, Total
  <1>6. PostedTo' = PostedTo /\ SentEnd' = SentEnd /\ Sent' = Sent
    BY <1>1 DEF PostedTo, SentEnd, Sent, ThisMessage
  <1>7. KeepsRight
    BY <1>6, StaysRight DEF KeepsRight
  <1>8. PhaseInv'
    BY <1>1 DEF OlderInv, PhaseInv
  <1>9. FrontierInv(f)'
    BY <1>1, <1>2, <1>5, <1>6 DEF OlderInv, FrontierInv
  <1>10. MessagesInv'
    BY <1>1, <1>6 DEF OlderInv, MessagesInv, EndOf
  <1>11. SlicesInv(f)'
    BY <1>1, <1>2, <1>6, <1>7, SameSlice DEF OlderInv
  <1>12. BufferInv'
    BY <1>1, <1>2, <1>6, SameBuffer DEF OlderInv
  <1> DEFINE n == receiveSize + 2
             z == [i \in 0..n - 1 |-> Zero]
  <1>13. receiveBuf' = Overlay(receiveBuf, localReadPos, z) /\ receiveBuf \in [Cells -> AnyWord]
    BY <1>2 DEF Wipe, Total, Shape, BufferShape
  <1>14. n \in Nat /\ n <= Size /\ Accepted = localReadPos + n
    BY <1>2, <1>4
  <1>15. z \in [0..n - 1 -> AnyWord] /\ \A i \in 0..n - 1 : z[i] = Zero
    BY WordFacts
  <1> HIDE DEF n, z
  <1>16. /\ \A i \in 0..n - 1 : receiveBuf'[Slot(localReadPos + i)] = z[i]
         /\ \A p \in Nat : p >= localReadPos + n /\ p - localReadPos < Size =>
                receiveBuf'[Slot(p)] = receiveBuf[Slot(p)]
    BY <1>2, <1>13, <1>14, <1>15, OverlayFacts
  <1>17. CellsInv(f)'
    <2> SUFFICES ASSUME NEW p \in localReadPos..localReadPos + Size - 1
                 PROVE  IF Accepted <= p /\ p < f
                        THEN Right(p, receiveBuf[Slot(p)])' ELSE receiveBuf'[Slot(p)] = Zero
      BY <1>1, <1>5 DEF CellsInv, CellInv
    <2>1. PICK w : w = receiveBuf[Slot(p)]
      OBVIOUS
    <2>2. IF localReadPos <= p /\ p < f THEN Right(p, w) ELSE w = Zero
      BY <1>2, <2>1 DEF OlderInv, CellsInv, CellInv
    <2>3. CASE p < Accepted
      <3>1. p - localReadPos \in 0..n - 1 /\ localReadPos + (p - localReadPos) = p
        BY <1>2, <1>14, <2>3
      <3>2. receiveBuf'[Slot(p)] = Zero
        BY <1>15, <1>16, <3>1
      <3> QED
        BY <1>2, <2>3, <3>2
    <2>4. CASE ~(p < Accepted)
      <3>1. p \in Nat /\ p >= localReadPos + n /\ p - localReadPos < Size /\ localReadPos <= p
            /\ Accepted <= p
        BY <1>2, <1>14, <2>4
      <3>2. receiveBuf'[Slot(p)] = w
        BY <1>16, <2>1, <3>1
      <3>3. Right(p, w) => Right(p, w)'
        BY <1>6, StaysRight
      <3> QED
        BY <2>2, <3>1, <3>2, <3>3
    <2> QED
      BY <2>3, <2>4
  <1>18. FoundInv'
    BY <1>1 DEF OlderInv, FoundInv
  <1> QED
    BY <1>8, <1>9, <1>10, <1>11, <1>12, <1>17, <1>18 DEF OlderInv

\* The messages that are left when the oldest is consumed.
LEMMA MessagesLeft ==
    ASSUME MessagesInv, outbox # <<>>, outbox' = Tail(outbox), localReadPos' = EndOf(outbox[1]),
           SentEnd' = SentEnd
    PROVE  MessagesInv' /\ {outbox'[x] : x \in 1..Len(outbox')} \subseteq
                                {outbox[x] : x \in 1..Len(outbox)}
  <1>1. outbox \in Seq(Message)
    BY DEF MessagesInv
  <1>2. /\ outbox' \in Seq(Message) /\ Len(outbox) \in Nat /\ Len(outbox') = Len(outbox) - 1
        /\ \A x \in 1..Len(outbox') : outbox'[x] = outbox[x + 1]
    BY <1>1, HeadTailProperties
  <1>3. \A x \in 1..Len(outbox') : x + 1 \in 1..Len(outbox)
    BY <1>2
  <1>4. outbox' = <<>> => localReadPos' = SentEnd'
    <2> SUFFICES ASSUME outbox' = <<>> PROVE EndOf(outbox[1]) = SentEnd
      OBVIOUS
    <2>1. PICK t \in Seq(Message) : t = outbox' /\ Len(t) = Len(outbox) - 1
      BY <1>2
    <2>2. Len(outbox) = 1
      <3>1. t = <<>>
        BY <2>1
      <3>2. Len(t) = 0
        BY <3>1
      <3> QED
        BY <1>2, <2>1, <3>2
    <2> QED
      BY <2>2 DEF MessagesInv
  <1>5. outbox' # <<>> => outbox'[1].at = localReadPos' /\ EndOf(outbox'[Len(outbox')]) = SentEnd'
    <2> SUFFICES ASSUME outbox' # <<>>
                 PROVE  outbox'[1].at = localReadPos' /\ EndOf(outbox'[Len(outbox')]) = SentEnd'
      OBVIOUS
    <2>1. 1 \in 1..Len(outbox') /\ Len(outbox') \in 1..Len(outbox')
      BY <1>2
    <2>2. outbox'[1] = outbox[2] /\ outbox'[Len(outbox')] = outbox[Len(outbox)]
      BY <1>2, <2>1
    <2>3. 1 \in 1..Len(outbox) - 1
      BY <1>2, <2>1
    <2>4. EndOf(outbox[1]) = outbox[1 + 1].at /\ EndOf(outbox[Len(outbox)]) = SentEnd
      BY <2>3 DEF MessagesInv
    <2> QED
      BY <2>2, <2>4
  <1>6. \A x \in 1..Len(outbox') - 1 : EndOf(outbox'[x]) = outbox'[x + 1].at
    <2> SUFFICES ASSUME NEW x \in 1..Len(outbox') - 1 PROVE EndOf(outbox'[x]) = outbox'[x + 1].at
      OBVIOUS
    <2>1. x \in 1..Len(outbox') /\ x + 1 \in 1..Len(outbox') /\ x + 1 \in 1..Len(outbox) - 1
      BY <1>2
    <2>2. outbox'[x] = outbox[x + 1] /\ outbox'[x + 1] = outbox[(x + 1) + 1]
      BY <1>2, <2>1
    <2> QED
      BY <2>1, <2>2 DEF MessagesInv
  <1>7. \A x, y \in 1..Len(outbox') : x < y => EndOf(outbox'[x]) <= outbox'[y].at
    <2> SUFFICES ASSUME NEW x \in 1..Len(outbox'), NEW y \in 1..Len(outbox'), x < y
                 PROVE  EndOf(outbox'[x]) <= outbox'[y].at
      OBVIOUS
    <2>1. x + 1 \in 1..Len(outbox) /\ y + 1 \in 1..Len(outbox) /\ x + 1 < y + 1
      BY <1>2
    <2>2. outbox'[x] = outbox[x + 1] /\ outbox'[y] = outbox[y + 1]
      BY <1>2
    <2> QED
      BY <2>1, <2>2 DEF MessagesInv
  <1>8. (outbox # <<>> => outbox[1].at = localReadPos /\ EndOf(outbox[Len(outbox)]) = SentEnd)'
    BY <1>5 DEF EndOf
  <1>9. (\A x \in 1..Len(outbox) - 1 : EndOf(outbox[x]) = outbox[x + 1].at)'
    BY <1>6 DEF EndOf
  <1>10. (\A x, y \in 1..Len(outbox) : x < y => EndOf(outbox[x]) <= outbox[y].at)'
    BY <1>7 DEF EndOf
  <1>11. MessagesInv'
    BY <1>2, <1>4, <1>8, <1>9, <1>10 DEF MessagesInv
  <1> QED
    BY <1>2, <1>3, <1>11

\* The space of the message is given back: the window moves on by a message, and
\* the cells that it comes to cover are the ones that were wiped.
LEMMA OlderPublishes ==
    ASSUME Shape, NEW f \in Nat, OlderInv(f), UNCHANGED messageVars, Publish
    PROVE  OlderInv(f)'
  <1>1. /\ UNCHANGED <<sq, placed, receiveBuf, remoteReadPos>>
        /\ UNCHANGED <<sendPos, sending, sendBuf, copied, posted, spc>>
        /\ rpc = "publish" /\ rpc' = "idle" /\ outbox' = Tail(outbox)
    BY DEF Publish, senderVars, adapterVars, messageVars
  <1>2. /\ sendPos \in Nat /\ copied \in Nat /\ localReadPos \in Nat /\ receiveSize \in Nat
        /\ Size \in Nat /\ PostedTo \in Nat /\ f <= PostedTo /\ Wiped = Accepted
        /\ Accepted = localReadPos + receiveSize + 2 /\ Accepted <= f /\ Accepted \in Nat
        /\ remoteReadPos \in Nat
        /\ PostedTo <= sendPos + copied /\ sendPos + copied <= localReadPos + Size
    BY <1>1, OlderPositions DEF OlderInv
  <1>3. outbox # <<>> /\ receiveSize = outbox[1].len /\ outbox \in Seq(Message)
    BY <1>1 DEF OlderInv, FoundInv, MessagesInv
  <1>4. PICK a \in Nat : a = Accepted
    BY <1>2
  <1>5. localReadPos' = a /\ Wiped' = a /\ Accepted' = a
    <2>1. localReadPos' = localReadPos + (receiveSize + 2)
      BY DEF Publish, Total
    <2>2. localReadPos' = a
      BY <1>2, <1>4, <2>1
    <2>3. Wiped' = a + 0 /\ Accepted' = a + 0
      BY <1>1, <2>2 DEF Wiped, Accepted
    <2> QED
      BY <2>2, <2>3
  <1>6. PostedTo' = PostedTo /\ SentEnd' = SentEnd
    BY <1>1 DEF PostedTo, SentEnd
  <1>7. MessagesInv' /\ Sent' \subseteq Sent
    <2>1. 1 \in 1..Len(outbox)
      BY <1>3
    <2>2. EndOf(outbox[1]) = outbox[1].at + outbox[1].len + 2 /\ outbox[1].at = localReadPos
      BY <2>1, MessageFacts DEF OlderInv
    <2>3. localReadPos' = EndOf(outbox[1])
      BY <1>2, <1>3, <1>4, <1>5, <2>2
    <2>4. MessagesInv' /\ {outbox'[x] : x \in 1..Len(outbox')} \subseteq
                                {outbox[x] : x \in 1..Len(outbox)}
      BY <1>1, <1>3, <1>6, <2>3, MessagesLeft DEF OlderInv
    <2> QED
      BY <1>1, <2>4 DEF Sent, ThisMessage
  <1>8. KeepsRight
    BY <1>7, StaysRight DEF KeepsRight
  <1>9. PhaseInv'
    BY <1>1 DEF OlderInv, PhaseInv
  <1>10. FrontierInv(f)'
    <2>1. remoteReadPos' <= a
      BY <1>1, <1>2, <1>4 DEF OlderInv, FrontierInv
    <2>2. \A k \in 1..Len(sq) : sq[k].op = "read" /\ sq[k].words # <<>> => sq[k].words[1] <= a
      <3> SUFFICES ASSUME NEW k \in 1..Len(sq), sq[k].op = "read", sq[k].words # <<>>
                   PROVE  sq[k].words[1] <= a
        OBVIOUS
      <3>1. sq[k].words[1] <= localReadPos /\ sq[k].words[1] \in Nat
        BY DEF OlderInv, FrontierInv, Shape, WordsShape
      <3> QED
        BY <1>2, <1>4, <3>1
    <2>3. sendPos + copied <= a + Size /\ a <= f /\ f <= PostedTo'
      BY <1>2, <1>4, <1>6
    <2> QED
      BY <1>1, <1>5, <2>1, <2>2, <2>3 DEF FrontierInv
  <1>11. SlicesInv(f)'
    BY <1>1, <1>2, <1>6, <1>8, SameSlice DEF OlderInv
  <1>12. BufferInv'
    <2> SUFFICES ASSUME NEW p \in a..sendPos + copied - 1
                 PROVE  Right(p, sendBuf[Slot(p)])'
      BY <1>1, <1>5 DEF BufferInv
    <2>1. PICK w : w = sendBuf[Slot(p)]
      OBVIOUS
    <2>2. p \in localReadPos..sendPos + copied - 1
      BY <1>2, <1>4
    <2>3. Right(p, w)
      BY <2>1, <2>2 DEF OlderInv, BufferInv
    <2>4. Right(p, w)'
      BY <1>7, <2>3, StaysRight
    <2> QED
      BY <1>1, <2>1, <2>4
  <1>13. CellsInv(f)'
    <2> SUFFICES ASSUME NEW p \in a..a + Size - 1
                 PROVE  IF a <= p /\ p < f
                        THEN Right(p, receiveBuf[Slot(p)])' ELSE receiveBuf[Slot(p)] = Zero
      BY <1>1, <1>5 DEF CellsInv, CellInv
    <2>1. PICK w : w = receiveBuf[Slot(p)]
      OBVIOUS
    <2>2. CASE p < localReadPos + Size
      <3>1. p \in localReadPos..localReadPos + Size - 1
        BY <1>2, <1>4, <2>2
      <3>2. IF a <= p /\ p < f THEN Right(p, w) ELSE w = Zero
        BY <1>2, <1>4, <2>1, <3>1 DEF OlderInv, CellsInv, CellInv
      <3>3. Right(p, w) => Right(p, w)'
        BY <1>7, StaysRight
      <3> QED
        BY <1>1, <2>1, <3>2, <3>3
    <2>3. CASE ~(p < localReadPos + Size)
      <3>1. PICK q \in Nat : q = p - Size
        BY <1>2, <2>3
      <3>2. q \in localReadPos..localReadPos + Size - 1 /\ q < a /\ p = q + Size /\ ~(p < f)
        BY <1>2, <1>4, <2>3, <3>1
      <3>3. receiveBuf[Slot(q)] = Zero
        <4>1. ~(a <= q)
          BY <3>1, <3>2
        <4> QED
          BY <1>2, <1>4, <3>2, <4>1 DEF OlderInv, CellsInv, CellInv
      <3>4. Slot(p) = Slot(q)
        BY <3>1, <3>2, SlotFacts
      <3> QED
        BY <3>2, <3>3, <3>4
    <2> QED
      BY <2>2, <2>3
  <1>14. FoundInv'
    BY <1>1 DEF FoundInv
  <1> QED
    BY <1>7, <1>9, <1>10, <1>11, <1>12, <1>13, <1>14 DEF OlderInv

\* The beginning.
LEMMA OlderStarts ==
    ASSUME MessageInit
    PROVE  OlderRingInv
  <1>1. /\ sendPos = 0 /\ remoteReadPos = 0 /\ localReadPos = 0 /\ copied = 0 /\ posted = 0
        /\ spc = "idle" /\ rpc = "idle" /\ sq = <<>> /\ placed = {} /\ outbox = <<>>
        /\ receiveBuf = [c \in Cells |-> Zero] /\ sending = 0 /\ receiveSize = 0
    BY DEF MessageInit, Init
  <1>2. /\ PostedTo = 0 /\ SentEnd = 0 /\ Accepted = 0 /\ Wiped = 0 /\ Writes = {}
        /\ Size \in Nat /\ 0 \in Nat
    BY <1>1, SizeAssumption DEF PostedTo, SentEnd, Accepted, Wiped, Writes
  <1>3. PhaseInv /\ FoundInv
    BY <1>1 DEF PhaseInv, FoundInv
  <1>4. FrontierInv(0)
    BY <1>1, <1>2 DEF FrontierInv
  <1>5. MessagesInv
    BY <1>1, <1>2 DEF MessagesInv
  <1>6. SlicesInv(0)
    BY <1>1, <1>2 DEF SlicesInv
  <1>7. BufferInv
    BY <1>1 DEF BufferInv
  <1>8. CellsInv(0)
    <2> SUFFICES ASSUME NEW p \in 0..0 + Size - 1 PROVE CellInv(p, 0)
      BY <1>1 DEF CellsInv
    <2>1. p \in Nat /\ ~(p < 0)
      BY <1>2
    <2>2. Slot(p) \in Cells
      BY <2>1, SlotFacts
    <2> QED
      BY <1>1, <2>1, <2>2 DEF CellInv
  <1>9. OlderInv(0) /\ 0 \in Nat
    BY <1>1, <1>2, <1>3, <1>4, <1>5, <1>6, <1>7, <1>8 DEF OlderInv
  <1> QED
    BY <1>9 DEF OlderRingInv

\* Every step of the older class keeps its invariant.
LEMMA OlderSteps ==
    ASSUME SliceSafe, Shape, IsMessageBuffer, OlderRingInv, [MessageNext]_allVars
    PROVE  OlderRingInv'
  <1>1. PICK f \in Nat : OlderInv(f)
    BY DEF OlderRingInv
  <1>2. CASE BeginBuffer
    <2>1. PICK n \in PayloadLens : BeginMessage(n)
      BY <1>2 DEF BeginBuffer
    <2>2. OlderInv(f)'
      BY <1>1, <2>1, OlderBegins
    <2> QED
      BY <2>2 DEF OlderRingInv
  <1>3. CASE BufferSender
    <2>1. CASE PostReadForPart
      BY <1>1, <2>1, OlderReads DEF PostReadForPart, OlderRingInv
    <2>2. CASE CopyPart \/ PostSlice \/ DrainSlice
      <3>1. OlderInv(f)'
        BY <1>1, <2>2, OlderCopies, OlderPosts, OlderDrains
      <3> QED
        BY <3>1 DEF OlderRingInv
    <2>3. CASE (PollRead \/ GetEvent \/ RequestNotify) /\ UNCHANGED messageVars
      <3>1. OlderInv(f)'
        BY <1>1, <2>3, OlderWaits
      <3> QED
        BY <3>1 DEF OlderRingInv
    <2> QED
      BY <1>3, <2>1, <2>2, <2>3 DEF BufferSender
  <1>4. CASE Fetch /\ UNCHANGED messageVars
    <2>1. /\ sq # <<>> /\ sq[1].op = "write" /\ sq[1].words = <<>>
          /\ sq' = [sq EXCEPT ![1].words = Captured(sq[1].from, sq[1].len)]
      <3>1. Oldest = sq[1]
        BY DEF Oldest
      <3> QED
        BY <1>4, <3>1 DEF Fetch
    <2>2. 1 \in Writes
      <3>1. sq \in Seq(Request)
        BY DEF Shape, BufferShape
      <3>2. 1 \in 1..Len(sq)
        BY <2>1, <3>1
      <3> QED
        BY <2>1, <3>2 DEF Writes
    <2>3. /\ sq[1].from \in Nat /\ sq[1].len \in Nat \ {0}
          /\ sendBuf \in [Cells -> AnyWord]
      <3>1. sq[1].from \in Nat /\ sq[1].len \in Nat
        BY <2>2, SliceFacts
      <3>2. sq[1].len > 0
        BY <1>1, <2>2 DEF OlderInv, SlicesInv, SliceInv
      <3> QED
        BY <3>1, <3>2 DEF Shape, BufferShape
    <2>4. PICK w \in Seq(AnyWord) : w = Captured(sq[1].from, sq[1].len)
      BY <2>3, CapturedFacts
    <2>5. UNCHANGED <<senderVars, placed, receiverVars, outbox, messageVars>>
      BY <1>4 DEF Fetch
    <2>6. OlderInv(f)'
      BY <1>1, <2>1, <2>4, <2>5, OlderAnswers
    <2> QED
      BY <2>6 DEF OlderRingInv
  <1>5. CASE SampleReadPos /\ UNCHANGED messageVars
    <2>1. PICK w : w = <<localReadPos>>
      OBVIOUS
    <2>2. sq # <<>> /\ sq[1].op = "read" /\ sq[1].words = <<>> /\ sq' = [sq EXCEPT ![1].words = w]
      <3>1. Oldest = sq[1]
        BY DEF Oldest
      <3> QED
        BY <1>5, <2>1, <3>1 DEF SampleReadPos
    <2>3. localReadPos \in Nat
      BY DEF Shape, BufferShape
    <2>4. w \in Seq(Nat) /\ w[1] <= localReadPos
      BY <2>1, <2>3
    <2>5. UNCHANGED <<senderVars, placed, receiverVars, outbox, messageVars>>
      BY <1>5 DEF SampleReadPos
    <2>6. OlderInv(f)'
      BY <1>1, <2>2, <2>4, <2>5, OlderAnswers
    <2> QED
      BY <2>6 DEF OlderRingInv
  <1>6. CASE Acknowledge /\ UNCHANGED messageVars
    <2>1. OlderInv(f)'
      BY <1>1, <1>6, OlderAcknowledges
    <2> QED
      BY <2>1 DEF OlderRingInv
  <1>7. CASE (\E i \in Cells : Place(i)) /\ UNCHANGED messageVars
    <2>1. PICK i \in Cells : Place(i)
      BY <1>7
    <2>2. OlderInv(f + 1)'
      BY <1>1, <1>7, <2>1, OlderPlaces
    <2>3. PICK g \in Nat : g = f + 1
      OBVIOUS
    <2>4. OlderInv(g)'
      BY <2>2, <2>3
    <2> QED
      BY <2>4 DEF OlderRingInv
  <1>8. CASE BufferReceiver \/ BeginReceiving
    <2>1. CASE (StartReceive \/ PollSize \/ PollValidity \/ CallbackThrows) /\ UNCHANGED messageVars
      <3>1. OlderInv(f)'
        BY <1>1, <2>1, OlderPolls
      <3> QED
        BY <3>1 DEF OlderRingInv
    <2>2. CASE (Wipe \/ Publish) /\ UNCHANGED messageVars
      <3>1. OlderInv(f)'
        BY <1>1, <2>2, OlderWipes, OlderPublishes
      <3> QED
        BY <3>1 DEF OlderRingInv
    <2> QED
      BY <1>8, <2>1, <2>2 DEF BufferReceiver, BeginReceiving, Receiver
  <1>9. CASE UNCHANGED allVars
    <2>1. /\ UNCHANGED <<senderVars, adapterVars, localReadPos, receiveBuf, outbox, messageVars>>
          /\ UNCHANGED <<rpc, receiveSize>>
      BY <1>9 DEF allVars, vars, receiverVars
    <2>2. Wiped' = Wiped /\ Accepted' = Accepted /\ FoundInv'
      BY <1>1, <2>1 DEF Wiped, Accepted, OlderInv, FoundInv
    <2>3. Accepted <= f
      BY <1>1 DEF OlderInv, FrontierInv
    <2>4. OlderInv(f)'
      BY <1>1, <2>1, <2>2, <2>3, OlderLooks
    <2> QED
      BY <2>4 DEF OlderRingInv
  <1> QED
    BY <1>2, <1>3, <1>4, <1>5, <1>6, <1>7, <1>8, <1>9 DEF MessageNext, BufferAdapter, Adapter

\* What the invariant says of the ring.
LEMMA OlderSafe ==
    ASSUME Shape, OlderRingInv
    PROVE  AcceptsWholeMessages /\ FreeRingIsZero /\ ReadPosIsLowerBound
  <1>1. PICK f \in Nat : OlderInv(f)
    BY DEF OlderRingInv
  <1>2. /\ sendPos \in Nat /\ copied \in Nat /\ posted \in Nat /\ localReadPos \in Nat
        /\ Size \in Nat /\ sending \in Nat /\ receiveSize \in Nat
        /\ PostedTo = sendPos + posted /\ copied <= sending + 2
        /\ localReadPos <= Wiped /\ Wiped <= Accepted /\ Accepted <= f /\ f <= PostedTo
        /\ Accepted \in Nat /\ Wiped \in Nat
        /\ sendPos + copied <= localReadPos + Size
        /\ rpc = "callback" => Wiped = localReadPos /\ Accepted = localReadPos + receiveSize + 2
    BY <1>1, OlderPositions DEF OlderInv
  <1>3. PostedEnd \in Nat /\ PostedTo <= PostedEnd /\ PostedEnd <= sendPos + copied
    <2>1. CASE spc \in {"postSlice", "getEvent", "requestNotify", "drain"}
      <3>1. PostedEnd = sendPos + (sending + 2)
        BY <2>1 DEF PostedEnd, Total
      <3>2. copied = sending + 2 /\ posted <= copied
        BY <1>1, <2>1 DEF OlderInv, PhaseInv
      <3> QED
        BY <1>2, <3>1, <3>2
    <2>2. CASE spc \notin {"postSlice", "getEvent", "requestNotify", "drain"}
      <3>1. PostedEnd = sendPos
        BY <1>2, <2>2 DEF PostedEnd
      <3>2. posted = 0
        <4>1. spc \in {"idle", "waitFree", "pollRead"}
          BY <2>2 DEF Shape, BufferShape
        <4> QED
          BY <4>1 DEF Shape, SliceShape
      <3> QED
        BY <1>2, <3>1, <3>2
    <2> QED
      BY <2>1, <2>2
  <1>4. ReadPosIsLowerBound
    <2>1. localReadPos <= PostedTo /\ PostedTo \in Nat
      BY <1>2
    <2>2. localReadPos <= PostedEnd
      BY <1>2, <1>3, <2>1
    <2> QED
      BY <1>1, <2>2 DEF ReadPosIsLowerBound, OlderInv, FrontierInv
  <1>5. FreeRingIsZero
    <2>1. PICK e \in Nat : e = PostedEnd
      BY <1>3
    <2>2. e - localReadPos <= Size /\ f <= e /\ localReadPos <= f
      BY <1>2, <1>3, <2>1
    <2>3. ASSUME NEW p \in e..localReadPos + Size - 1 PROVE receiveBuf[Slot(p)] = Zero
      <3>1. p \in localReadPos..localReadPos + Size - 1 /\ ~(p < f)
        BY <1>2, <2>2, <2>3
      <3> QED
        BY <1>1, <3>1 DEF OlderInv, CellsInv, CellInv
    <2> QED
      BY <2>1, <2>2, <2>3 DEF FreeRingIsZero
  <1>6. AcceptsWholeMessages
    <2> SUFFICES ASSUME rpc = "callback"
                 PROVE  /\ outbox # <<>> /\ receiveSize = Head(outbox).len
                        /\ \A i \in 1..receiveSize :
                              receiveBuf[Slot(localReadPos + i)] = Payload(localReadPos + i)
      BY DEF AcceptsWholeMessages
    <2>1. outbox # <<>> /\ receiveSize = outbox[1].len /\ outbox \in Seq(Message)
      BY <1>1 DEF OlderInv, FoundInv, MessagesInv
    <2>2. Head(outbox) = outbox[1] /\ 1 \in 1..Len(outbox)
      BY <2>1
    <2>3. outbox[1] \in Sent /\ outbox[1].at = localReadPos /\ receiveSize <= Size - 2
      BY <1>1, <2>1, <2>2, MessageFacts DEF Sent, OlderInv
    <2>4. ASSUME NEW i \in 1..receiveSize
          PROVE  receiveBuf[Slot(localReadPos + i)] = Payload(localReadPos + i)
      <3>1. PICK p \in Nat : p = localReadPos + i
        BY <1>2
      <3>2. p \in localReadPos..localReadPos + Size - 1 /\ Wiped <= p /\ p < f
            /\ i \in 0..receiveSize + 1
        BY <1>2, <2>3, <3>1
      <3>3. Right(p, receiveBuf[Slot(p)])
        BY <1>1, <3>2 DEF OlderInv, CellsInv, CellInv
      <3>4. receiveBuf[Slot(p)] = MessageWord(localReadPos, receiveSize, i)
        BY <2>1, <2>3, <3>1, <3>2, <3>3 DEF Right
      <3>5. MessageWord(localReadPos, receiveSize, i) = Payload(localReadPos + i)
        BY <1>2, <3>2, MessageWordFacts
      <3> QED
        BY <3>1, <3>4, <3>5
    <2> QED
      BY <2>1, <2>2, <2>4
  <1> QED
    BY <1>4, <1>5, <1>6

-----------------------------------------------------------------------------
(* The three classes                                                        *)

\* A sender is of one class. Those of VirtualRDMARingBuffer never take a step of
\* the older class, and its variables do not disturb them.
LEMMA OneClass ==
    ASSUME [MessageNext]_allVars
    PROVE  variant' = variant /\ (~IsMessageBuffer => [Next]_vars)
  <1>1. ~IsMessageBuffer => [Next]_vars
    BY DEF MessageNext, BeginBuffer, BufferSender, BufferAdapter, BufferReceiver,
           BeginReceiving, Next, Sender, allVars
  <1>2. BeginBuffer => variant' = variant
    BY DEF BeginBuffer, BeginMessage, BeginSend, FillSendBuf, FillTooLarge
  <1>3. BufferSender => variant' = variant
    BY DEF BufferSender, PostReadForPart, CopyPart, PostSlice, DrainSlice, PostRead, SubmitRead,
           PostMessage, Drain, DrainThen, PollRead, GetEvent, RequestNotify
  <1>4. BufferAdapter => variant' = variant
    BY DEF BufferAdapter, Adapter, Fetch, SampleReadPos, Acknowledge, Place, senderVars
  <1>5. BufferReceiver \/ BeginReceiving => variant' = variant
    BY DEF BufferReceiver, BeginReceiving, StartReceive, BeginReceive, Receiver, PollSize,
           PollValidity, CallbackThrows, Wipe, Publish, senderVars
  <1>6. UNCHANGED allVars => variant' = variant
    BY DEF allVars, vars, senderVars
  <1> QED
    BY <1>1, <1>2, <1>3, <1>4, <1>5, <1>6 DEF MessageNext

\* The older class keeps its invariant, whatever its caller does and whatever it
\* reads of the receiver's position and when.
THEOREM OlderInvariant ==
    ASSUME SliceSafe
    PROVE  MessageSpec => [](Shape /\ (IsMessageBuffer => OlderRingInv))
  <1>1. MessageInit => Shape /\ (IsMessageBuffer => OlderRingInv)
    BY ShapeStarts, OlderStarts
  <1>2. Shape /\ (IsMessageBuffer => OlderRingInv) /\ [MessageNext]_allVars =>
            Shape' /\ (IsMessageBuffer => OlderRingInv)'
    <2> SUFFICES ASSUME Shape, IsMessageBuffer => OlderRingInv, [MessageNext]_allVars
                 PROVE  Shape' /\ (IsMessageBuffer' => OlderRingInv')
      OBVIOUS
    <2>1. IsMessageBuffer' <=> IsMessageBuffer
      BY OneClass DEF IsMessageBuffer
    <2> QED
      BY <2>1, ShapeSteps, OlderSteps
  <1> QED
    BY <1>1, <1>2, PTL DEF MessageSpec

\* The messages of the older class arrive whole, its ring is zero where the
\* receiver polls next, and its view of the receiver is never ahead: for every ring
\* size, message size and caller, words being placed in order.
THEOREM OlderClassSafe ==
    ASSUME SliceSafe
    PROVE  MessageSpec =>
              [](IsMessageBuffer => AcceptsWholeMessages /\ FreeRingIsZero /\ ReadPosIsLowerBound)
  <1>1. Shape /\ (IsMessageBuffer => OlderRingInv) =>
            (IsMessageBuffer => AcceptsWholeMessages /\ FreeRingIsZero /\ ReadPosIsLowerBound)
    BY OlderSafe
  <1> QED
    BY <1>1, OlderInvariant, PTL

\* The invariant of VirtualRDMARingBuffer's senders holds beside the older class.
THEOREM NewerInvariant ==
    ASSUME RingSafe
    PROVE  MessageSpec => [](~IsMessageBuffer => RingInv)
  <1>1. MessageInit => (~IsMessageBuffer => RingInv)
    BY RingStarts DEF MessageInit
  <1>2. (~IsMessageBuffer => RingInv) /\ [MessageNext]_allVars => (~IsMessageBuffer => RingInv)'
    <2> SUFFICES ASSUME ~IsMessageBuffer => RingInv, [MessageNext]_allVars, ~IsMessageBuffer'
                 PROVE  RingInv'
      OBVIOUS
    <2>1. ~IsMessageBuffer /\ [Next]_vars
      BY OneClass DEF IsMessageBuffer
    <2> QED
      BY <2>1, RingSteps
  <1> QED
    BY <1>1, <1>2, PTL DEF MessageSpec

\* The specification that run rdma_ring checks, with all three classes: what the
\* receiver accepts is whole, free ring memory is zero and the sender never
\* overtakes the receiver.
THEOREM ThreeClassesSafe ==
    ASSUME RingSafe, SliceSafe
    PROVE  MessageSpec => [](AcceptsWholeMessages /\ FreeRingIsZero /\ ReadPosIsLowerBound)
  <1>1. (~IsMessageBuffer => RingInv) =>
            (~IsMessageBuffer => AcceptsWholeMessages /\ FreeRingIsZero /\ ReadPosIsLowerBound)
    BY RingSafety
  <1> QED
    BY <1>1, NewerInvariant, OlderClassSafe, PTL

\* Without the older class, the specification is that of VirtualRDMARingBuffer.
THEOREM RingInMessageBuffer ==
    ASSUME "RDMAMessageBuffer" \notin Variants
    PROVE  MessageSpec => Spec
  <1>1. MessageInit => Init /\ ~IsMessageBuffer
    BY DEF MessageInit, Init, IsMessageBuffer
  <1>2. ~IsMessageBuffer /\ [MessageNext]_allVars => [Next]_vars /\ ~IsMessageBuffer'
    BY OneClass DEF IsMessageBuffer
  <1> QED
    BY <1>1, <1>2, PTL DEF MessageSpec, Spec
-----------------------------------------------------------------------------
(* The bounds of the state                                                  *)

\* The last stream position of a run, and the words that occur in one.
Limit == (MaxSends + 1) * Size
LowWord ==
    {Zero, Validity} \cup {SizeWord(n) : n \in 0..Size - 2} \cup {Payload(p) : p \in 0..Limit}

\* The older class counts the writes of a message, so that the message with the
\* last number may be counted twice.
CountInv ==
    /\ sendPos <= messageCounter * Size
    /\ messageCounter <= MaxSends + 1
    /\ spc # "idle" => messageCounter <= MaxSends
    /\ spc # "idle" /\ (posted = 0 \/ (spc # "postSlice" /\ posted < sending + 2)) =>
            messageCounter < MaxSends

\* Words are passed on and never made up.
WordsInv ==
    /\ sendBuf \in [Cells -> LowWord] /\ receiveBuf \in [Cells -> LowWord]
    /\ \A k \in Writes : sq[k].words # <<>> =>
            \A i \in 1..sq[k].len : sq[k].words[i] \in LowWord

BoundsInv ==
    /\ CountInv /\ WordsInv
    /\ placed \subseteq Cells
    /\ receiveSize \in 0..Size - 2 /\ maxSize \in RecvSizes \cup {0}

\* Positions of counted messages.
LEMMA Products ==
    ASSUME NEW a \in Nat, NEW b \in Nat, a <= b
    PROVE  a * Size \in Nat /\ a * Size <= b * Size /\ (a + 1) * Size = a * Size + Size
  <1>1. Size \in Nat
    BY SizeAssumption
  <1>2. PICK d \in Nat : d = b - a
    OBVIOUS
  <1>3. b * Size = a * Size + d * Size
    BY <1>1, <1>2
  <1>4. a * Size \in Nat /\ d * Size \in Nat
    BY <1>1
  <1> QED
    BY <1>1, <1>3, <1>4

\* A message that may still be counted lies below the limit.
LEMMA Room ==
    ASSUME Shape, CountInv, messageCounter < MaxSends
    PROVE  sendPos \in Nat /\ Size \in Nat /\ Limit \in Nat /\ sendPos + Size <= Limit
  <1>1. sendPos \in Nat /\ messageCounter \in Nat /\ MaxSends \in Nat /\ Size \in Nat
    BY SizeAssumption, BoundsAssumption DEF Shape, BufferShape
  <1>2. PICK c \in Nat, d \in Nat : c = messageCounter + 1 /\ d = MaxSends + 1
    BY <1>1
  <1>3. c <= d /\ messageCounter <= c
    BY <1>1, <1>2
  <1>4. c * Size <= d * Size /\ c * Size \in Nat
    BY <1>2, <1>3, Products
  <1>5. d * Size \in Nat
    BY <1>1, <1>2
  <1>6. c * Size = messageCounter * Size + Size
    BY <1>1, <1>2
  <1>7. sendPos <= messageCounter * Size /\ messageCounter * Size \in Nat
    BY <1>1 DEF CountInv
  <1> QED
    BY <1>1, <1>2, <1>4, <1>5, <1>6, <1>7 DEF Limit

\* The count of messages at each step of a send.
LEMMA CountSteps ==
    ASSUME Shape, IsMessageBuffer => OlderRingInv, CountInv, [MessageNext]_allVars
    PROVE  CountInv'
  <1>1. /\ sendPos \in Nat /\ messageCounter \in Nat /\ MaxSends \in Nat /\ Size \in Nat
        /\ sending \in Nat /\ sending + 2 <= Size /\ posted \in Nat /\ posted <= sending + 2
    BY SizeAssumption, BoundsAssumption DEF Shape, BufferShape, SliceShape
  <1>2. CASE UNCHANGED <<sendPos, messageCounter>> /\ messageCounter < MaxSends
    BY <1>1, <1>2 DEF CountInv
  <1>3. CASE /\ UNCHANGED <<sendPos, messageCounter, sending, posted>>
             /\ spc # "idle" => spc' = spc \/ (spc # "postSlice" /\ spc' # "postSlice" /\ spc' # "idle")
             /\ spc = "idle" => spc' = spc
    <2>1. posted' = 0 <=> posted = 0
      BY <1>3
    <2> QED
      BY <1>1, <1>3, <2>1 DEF CountInv
  <1>4. CASE /\ messageCounter' = messageCounter + 1 /\ sendPos' = sendPos + (sending + 2)
             /\ spc # "idle" /\ spc' = "idle"
    <2>1. PICK m \in Nat : m = messageCounter * Size
      BY <1>1
    <2>2. (messageCounter + 1) * Size = m + Size
      BY <1>1, <2>1
    <2>3. sendPos <= m
      BY <2>1 DEF CountInv
    <2>4. sendPos' <= messageCounter' * Size
      BY <1>1, <1>4, <2>1, <2>2, <2>3
    <2>5. messageCounter <= MaxSends
      BY <1>4 DEF CountInv
    <2>6. messageCounter' <= MaxSends + 1
      BY <1>1, <1>4, <2>5
    <2> QED
      BY <1>4, <2>4, <2>6 DEF CountInv
  <1>5. CASE /\ messageCounter' = messageCounter + 1 /\ sendPos' = sendPos
             /\ messageCounter < MaxSends /\ spc' = "postSlice" /\ posted' \in Nat \ {0}
    <2>1. PICK m \in Nat : m = messageCounter * Size
      BY <1>1
    <2>2. (messageCounter + 1) * Size = m + Size
      BY <1>1, <2>1
    <2>3. sendPos <= m
      BY <2>1 DEF CountInv
    <2>4. sendPos' <= messageCounter' * Size
      BY <1>1, <1>5, <2>1, <2>2, <2>3
    <2>5. messageCounter' <= MaxSends /\ messageCounter' <= MaxSends + 1
      BY <1>1, <1>5
    <2> QED
      BY <1>5, <2>4, <2>5 DEF CountInv
  <1>6. CASE BeginBuffer
    <2>1. UNCHANGED <<sendPos, messageCounter>> /\ messageCounter < MaxSends
      BY <1>6 DEF BeginBuffer, BeginMessage, BeginSend, FillSendBuf, FillTooLarge
    <2> QED
      BY <2>1, <1>2
  <1>7. CASE PostReadForPart \/ PostRead \/ CopyPart
    <2>1. UNCHANGED <<sendPos, messageCounter>> /\ spc = "waitFree"
      BY <1>7 DEF PostReadForPart, PostRead, CopyPart, SubmitRead
    <2>2. posted = 0
      BY <2>1 DEF Shape, SliceShape
    <2>3. messageCounter < MaxSends
      BY <2>1, <2>2 DEF CountInv
    <2> QED
      BY <2>1, <2>3, <1>2
  <1>8. CASE PostMessage /\ ~IsMessageBuffer /\ UNCHANGED messageVars
    <2>1. spc = "waitFree" /\ posted = 0
      BY <1>8 DEF PostMessage, Shape, SliceShape
    <2>2. messageCounter < MaxSends
      BY <2>1 DEF CountInv
    <2>3. \/ UNCHANGED <<sendPos, messageCounter>>
          \/ /\ messageCounter' = messageCounter + 1 /\ sendPos' = sendPos + (sending + 2)
             /\ spc' = "idle"
      BY <1>8 DEF PostMessage, SendDone, Total
    <2> QED
      BY <2>1, <2>2, <2>3, <1>2, <1>4
  <1>9. CASE PostSlice
    <2>1. PICK e \in Nat : e = SliceEnd /\ e > posted /\ e <= sending + 2
      <3>1. SliceEnd \in posted + 1..sending + 2
        BY <1>9, SlicePosted DEF Shape
      <3> QED
        BY <1>1, <3>1
    <2>2. CASE ShouldClearQueue
      <3>1. /\ spc = "postSlice" /\ spc' = "getEvent" /\ posted' = e
            /\ UNCHANGED <<sendPos, messageCounter, sending>>
        BY <1>9, <2>1, <2>2 DEF PostSlice
      <3>2. messageCounter <= MaxSends /\ messageCounter <= MaxSends + 1
            /\ sendPos <= messageCounter * Size
        BY <1>1, <3>1 DEF CountInv
      <3>3. CASE posted = 0
        <4>1. messageCounter < MaxSends
          BY <3>1, <3>3 DEF CountInv
        <4> QED
          BY <3>1, <4>1, <1>2
      <3>4. CASE posted # 0
        <4>1. e = sending + 2
          BY <2>1, <3>4 DEF SliceEnd, Total
        <4>2. ~(posted' = 0 \/ (spc' # "postSlice" /\ posted' < sending' + 2))
          BY <1>1, <3>1, <4>1
        <4>3. (sendPos <= messageCounter * Size)' /\ (messageCounter <= MaxSends + 1)'
              /\ (messageCounter <= MaxSends)'
          BY <3>1, <3>2
        <4> QED
          BY <4>2, <4>3 DEF CountInv
      <3> QED
        BY <3>3, <3>4
    <2>3. CASE ~ShouldClearQueue
      <3>1. spc = "postSlice" /\ SliceDone(e)
        BY <1>9, <2>1, <2>3 DEF PostSlice
      <3>2. CASE e < sending + 2
        <4>1. /\ messageCounter' = messageCounter + 1 /\ sendPos' = sendPos
              /\ spc' = "postSlice" /\ posted' = e
          BY <3>1, <3>2 DEF SliceDone, Total
        <4>2. posted = 0
          BY <2>1, <3>2, <1>1 DEF SliceEnd, Total
        <4>3. messageCounter < MaxSends
          BY <3>1, <4>2 DEF CountInv
        <4>4. e \in Nat \ {0}
          BY <1>1, <2>1
        <4> QED
          BY <4>1, <4>3, <4>4, <1>5
      <3>3. CASE ~(e < sending + 2)
        <4>1. /\ messageCounter' = messageCounter + 1 /\ sendPos' = sendPos + (sending + 2)
              /\ spc' = "idle"
          BY <3>1, <3>3 DEF SliceDone, Total
        <4> QED
          BY <3>1, <4>1, <1>4
      <3> QED
        BY <3>2, <3>3
    <2> QED
      BY <2>2, <2>3
  <1>10. CASE Drain /\ ~IsMessageBuffer /\ UNCHANGED messageVars
    <2>1. spc = "drain"
      BY <1>10 DEF Drain, DrainThen
    <2>2. \/ UNCHANGED <<sendPos, messageCounter, sending, posted, spc>>
          \/ /\ messageCounter' = messageCounter + 1 /\ sendPos' = sendPos + (sending + 2)
             /\ spc' = "idle"
      BY <1>10 DEF Drain, DrainThen, SendDone, Total, messageVars
    <2> QED
      BY <2>1, <2>2, <1>3, <1>4
  <1>11. CASE DrainSlice /\ IsMessageBuffer
    <2>1. spc = "drain"
      BY <1>11 DEF DrainSlice, DrainThen
    <2>2. \/ UNCHANGED <<sendPos, messageCounter, sending, posted, spc>>
          \/ SliceDone(posted)
      BY <1>11 DEF DrainSlice, DrainThen, messageVars
    <2>3. CASE SliceDone(posted)
      <3>1. CASE posted < sending + 2
        <4>1. /\ messageCounter' = messageCounter + 1 /\ sendPos' = sendPos
              /\ spc' = "postSlice" /\ posted' = posted
          BY <2>3, <3>1 DEF SliceDone, Total
        <4>2. messageCounter < MaxSends
          BY <2>1, <3>1 DEF CountInv
        <4>3. posted \in Nat \ {0}
          BY <1>1, <1>11, <2>1 DEF OlderRingInv, OlderInv, PhaseInv
        <4> QED
          BY <4>1, <4>2, <4>3, <1>5
      <3>2. CASE ~(posted < sending + 2)
        <4>1. /\ messageCounter' = messageCounter + 1 /\ sendPos' = sendPos + (sending + 2)
              /\ spc' = "idle"
          BY <2>3, <3>2 DEF SliceDone, Total
        <4> QED
          BY <2>1, <4>1, <1>4
      <3> QED
        BY <3>1, <3>2
    <2> QED
      BY <2>1, <2>2, <2>3, <1>3
  <1>12. CASE (PollRead \/ GetEvent \/ RequestNotify) /\ UNCHANGED messageVars
    <2>1. /\ UNCHANGED <<sendPos, messageCounter, sending, posted>>
          /\ spc \in {"pollRead", "getEvent", "requestNotify"}
          /\ spc' \in {"pollRead", "waitFree", "requestNotify", "drain"}
      BY <1>12 DEF PollRead, GetEvent, RequestNotify, messageVars
    <2> QED
      BY <2>1, <1>3
  <1>13. CASE BufferSender
    BY <1>13, <1>7, <1>8, <1>9, <1>10, <1>11, <1>12 DEF BufferSender
  <1>14. CASE BufferAdapter \/ BufferReceiver \/ BeginReceiving \/ UNCHANGED allVars
    <2>1. UNCHANGED <<sendPos, messageCounter, sending, spc>>
      BY <1>14 DEF BufferAdapter, Adapter, Fetch, SampleReadPos, Acknowledge, Place, BufferReceiver,
                   BeginReceiving, Receiver, StartReceive, BeginReceive, PollSize, PollValidity,
                   CallbackThrows, Wipe, Publish, allVars, vars, senderVars
    <2>2. posted' = posted
      BY <1>14 DEF BufferAdapter, BufferReceiver, BeginReceiving, allVars, messageVars
    <2> QED
      BY <2>1, <2>2, <1>3
  <1> QED
    BY <1>6, <1>13, <1>14 DEF MessageNext

\* The words of a message, below the limit.
LEMMA LowWords ==
    ASSUME NEW p \in Nat, NEW n \in 0..Size - 2, NEW i \in 0..n + 1, Limit \in Nat,
           p + Size <= Limit
    PROVE  MessageWord(p, n, i) \in LowWord
  <1>1. n \in Nat /\ Size \in Nat
    BY SizeAssumption
  <1>2. CASE i = 0
    <2>1. MessageWord(p, n, i) = SizeWord(n)
      BY <1>1, <1>2, MessageWordFacts
    <2> QED
      BY <2>1 DEF LowWord
  <1>3. CASE i = n + 1
    <2>1. MessageWord(p, n, i) = Validity
      BY <1>1, <1>3, MessageWordFacts
    <2> QED
      BY <2>1 DEF LowWord
  <1>4. CASE i \in 1..n
    <2>1. MessageWord(p, n, i) = Payload(p + i)
      BY <1>1, <1>4, MessageWordFacts
    <2>2. p + i \in 0..Limit
      BY <1>1, <1>4
    <2> QED
      BY <2>1, <2>2 DEF LowWord
  <1> QED
    BY <1>1, <1>2, <1>3, <1>4

\* A buffer that words are written to.
LEMMA OverlayLow ==
    ASSUME NEW buf \in [Cells -> LowWord], NEW from, NEW words,
           \A i \in DOMAIN words : words[i] \in LowWord
    PROVE  Overlay(buf, from, words) \in [Cells -> LowWord]
  <1> DEFINE Hit(c) == \E i \in DOMAIN words : Slot(from + i) = c
             At(c) == CHOOSE i \in DOMAIN words : Slot(from + i) = c
  <1>1. Overlay(buf, from, words) = [c \in Cells |-> IF Hit(c) THEN words[At(c)] ELSE buf[c]]
    BY DEF Overlay
  <1>2. \A c \in Cells : Hit(c) => At(c) \in DOMAIN words
    OBVIOUS
  <1> HIDE DEF Hit, At
  <1> QED
    BY <1>1, <1>2

\* Requests that are posted carry words of sendBuf.
LEMMA PostedLow ==
    ASSUME Shape, WordsInv, NEW c \in Nat, NEW signaled, NEW op, Posted(c, signaled, op),
           UNCHANGED <<sendBuf, receiveBuf>>
    PROVE  WordsInv'
  <1>1. Len(sq) \in Nat /\ Len(sq') = Len(sq) + c
    BY DEF Shape, BufferShape, Posted
  <1>2. ASSUME NEW k \in Writes', sq'[k].words # <<>>, NEW i \in 1..sq'[k].len
        PROVE  sq'[k].words[i] \in LowWord
    <2>1. k \in 1..Len(sq') /\ sq'[k].op = "write"
      BY DEF Writes
    <2>2. k \in 1..Len(sq) \/ k \in Len(sq) + 1..Len(sq) + c
      BY <1>1, <2>1
    <2>3. CASE k \in 1..Len(sq)
      <3>1. sq'[k] = sq[k]
        BY <2>3 DEF Posted
      <3>2. k \in Writes
        BY <2>1, <2>3, <3>1 DEF Writes
      <3> QED
        BY <1>2, <3>1, <3>2 DEF WordsInv
    <2>4. CASE k \in Len(sq) + 1..Len(sq) + c
      <3>1. sq'[k].words \in [1..sq'[k].len -> InBuffer]
        BY <1>2, <2>4 DEF Posted
      <3>2. InBuffer \subseteq LowWord
        BY DEF InBuffer, WordsInv
      <3> QED
        BY <1>2, <3>1, <3>2
    <2> QED
      BY <2>2, <2>3, <2>4
  <1> QED
    BY <1>2 DEF WordsInv

\* Words are passed on: from sendBuf to requests, from there into the ring.
LEMMA WordsSteps ==
    ASSUME Shape, CountInv, WordsInv, [MessageNext]_allVars
    PROVE  WordsInv'
  <1>1. /\ sendPos \in Nat /\ MaxSends \in Nat /\ Size \in Nat /\ sq \in Seq(Request)
        /\ sending \in 0..Size - 2 /\ sending \in Nat /\ copied \in Nat /\ Len(sq) \in Nat
    BY SizeAssumption, BoundsAssumption DEF Shape, BufferShape, SliceShape
  <1>2. CASE UNCHANGED <<sendBuf, receiveBuf, sq>>
    BY <1>2 DEF WordsInv, Writes
  <1>3. CASE UNCHANGED <<receiveBuf, sq>> /\ sendBuf' \in [Cells -> LowWord]
    BY <1>3 DEF WordsInv, Writes
  <1>4. CASE UNCHANGED <<sendBuf, sq>> /\ receiveBuf' \in [Cells -> LowWord]
    BY <1>4 DEF WordsInv, Writes
  <1>5. CASE BeginBuffer
    <2>1. CASE \E n \in PayloadLens : BeginMessage(n)
      BY <2>1, <1>2 DEF BeginMessage, adapterVars, receiverVars
    <2>2. ASSUME NEW n \in PayloadLens, FillSendBuf(n) PROVE WordsInv'
      <3>1. /\ sendPos + Size <= Limit /\ Limit \in Nat
            /\ n \in 0..Size - 2 /\ n \in Nat
        BY <2>2, Room, LensAssumption, SizeAssumption DEF FillSendBuf, Total
      <3> DEFINE w == [i \in 0..Total(n) - 1 |-> MessageWord(sendPos, n, i)]
      <3>2. \A i \in DOMAIN w : w[i] \in LowWord
        <4>1. \A i \in 0..Total(n) - 1 : i \in 0..n + 1
          BY <3>1 DEF Total
        <4> QED
          BY <1>1, <3>1, <4>1, LowWords
      <3>3. sendBuf' = Overlay(sendBuf, sendPos, w) /\ UNCHANGED <<receiveBuf, sq>>
        BY <2>2 DEF FillSendBuf, adapterVars, receiverVars
      <3> HIDE DEF w
      <3>4. sendBuf' \in [Cells -> LowWord]
        BY <3>2, <3>3, OverlayLow DEF WordsInv
      <3> QED
        BY <3>3, <3>4, <1>3
    <2>3. ASSUME NEW n \in PayloadLens, FillTooLarge(n) PROVE WordsInv'
      <3>1. sendPos + Size <= Limit /\ Limit \in Nat /\ n \in Nat /\ n < Size
        BY <2>3, Room, LensAssumption DEF FillTooLarge
      <3> DEFINE w == [i \in 0..n - 1 |-> Payload(sendPos + 1 + i)]
                 p == sendPos + 1
      <3>2. \A i \in DOMAIN w : w[i] \in LowWord
        <4>1. \A i \in 0..n - 1 : sendPos + 1 + i \in 0..Limit
          BY <1>1, <3>1
        <4> QED
          BY <4>1 DEF LowWord
      <3>3. sendBuf' = Overlay(sendBuf, p, w) /\ UNCHANGED <<receiveBuf, sq>>
        BY <2>3 DEF FillTooLarge, adapterVars, receiverVars
      <3> HIDE DEF w, p
      <3>4. sendBuf' \in [Cells -> LowWord]
        BY <3>2, <3>3, OverlayLow DEF WordsInv
      <3> QED
        BY <3>3, <3>4, <1>3
    <2> QED
      BY <1>5, <2>1, <2>2, <2>3 DEF BeginBuffer, BeginSend
  <1>6. CASE SubmitRead
    <2>1. Posted(1, TRUE, "read") /\ UNCHANGED <<sendBuf, receiveBuf>>
      BY <1>6, ReadPosted DEF Shape, SubmitRead, receiverVars
    <2> QED
      BY <2>1, PostedLow
  <1>7. CASE PostMessage /\ ~IsMessageBuffer
    <2>1. PICK c \in 1..RequestsPerMessage : Posted(c, ShouldClearQueue, "write")
      BY <1>7, MessagePosted DEF Shape
    <2>2. c \in Nat
      BY DEF RequestsPerMessage
    <2>3. UNCHANGED <<sendBuf, receiveBuf>>
      BY <1>7 DEF PostMessage, receiverVars
    <2>4. PICK s : s = ShouldClearQueue
      OBVIOUS
    <2>5. Posted(c, s, "write")
      BY <2>1, <2>4
    <2> QED
      BY <2>2, <2>3, <2>5, PostedLow
  <1>8. CASE PostSlice
    <2>1. PICK s : s = ShouldClearQueue
      OBVIOUS
    <2>2. Posted(1, s, "write")
      BY <1>8, <2>1, SlicePosted DEF Shape
    <2>3. UNCHANGED <<sendBuf, receiveBuf>>
      BY <1>8 DEF PostSlice, receiverVars
    <2> QED
      BY <2>2, <2>3, PostedLow
  <1>9. CASE CopyPart
    <2>1. /\ spc = "waitFree" /\ posted = 0 /\ copied \in {0, 1, sending + 1}
          /\ UNCHANGED <<receiveBuf, sq>>
      BY <1>9 DEF CopyPart, Shape, SliceShape, adapterVars, receiverVars
    <2>2. sendPos + Size <= Limit /\ Limit \in Nat
      <3>1. messageCounter < MaxSends
        BY <2>1 DEF CountInv
      <3> QED
        BY <3>1, Room
    <2> DEFINE w == [i \in 0..PartLen - 1 |-> MessageWord(sendPos, sending, copied + i)]
               p == sendPos + copied
    <2>3. \A i \in DOMAIN w : w[i] \in LowWord
      <3>1. \A i \in 0..PartLen - 1 : copied + i \in 0..sending + 1
        BY <1>1, <2>1 DEF PartLen
      <3>2. \A i \in 0..PartLen - 1 : MessageWord(sendPos, sending, copied + i) \in LowWord
        BY <1>1, <2>2, <3>1, LowWords
      <3> QED
        BY <3>2
    <2>4. sendBuf' = Overlay(sendBuf, p, w)
      BY <1>9 DEF CopyPart
    <2> HIDE DEF w, p
    <2>5. sendBuf' \in [Cells -> LowWord]
      BY <2>3, <2>4, OverlayLow DEF WordsInv
    <2> QED
      BY <2>1, <2>5, <1>3
  <1>10. CASE PollRead \/ GetEvent \/ RequestNotify \/ Drain \/ DrainSlice
    BY <1>10, <1>2 DEF PollRead, GetEvent, RequestNotify, Drain, DrainSlice, DrainThen, receiverVars
  <1>11. CASE BufferSender
    BY <1>11, <1>6, <1>7, <1>8, <1>9, <1>10 DEF BufferSender, PostReadForPart, PostRead
  <1>12. ASSUME NEW w \in Seq(AnyWord) \cup Seq(Nat), sq # <<>>, sq' = [sq EXCEPT ![1].words = w],
                UNCHANGED <<sendBuf, receiveBuf>>,
                sq[1].op = "write" => \A i \in 1..sq[1].len : w[i] \in LowWord
         PROVE  WordsInv'
    <2>1. /\ Len(sq') = Len(sq) /\ 1 \in 1..Len(sq)
          /\ \A k \in 1..Len(sq) : k # 1 => sq'[k] = sq[k]
          /\ sq'[1].words = w /\ sq'[1].op = sq[1].op /\ sq'[1].len = sq[1].len
      BY <1>1, <1>12, WordsSet
    <2>2. ASSUME NEW k \in Writes', sq'[k].words # <<>>, NEW i \in 1..sq'[k].len
          PROVE  sq'[k].words[i] \in LowWord
      <3>1. k \in 1..Len(sq) /\ sq'[k].op = "write"
        BY <2>1 DEF Writes
      <3>2. CASE k = 1
        BY <1>12, <2>1, <2>2, <3>1, <3>2
      <3>3. CASE k # 1
        <4>1. sq'[k] = sq[k] /\ k \in Writes
          BY <2>1, <3>1, <3>3 DEF Writes
        <4> QED
          BY <2>2, <4>1 DEF WordsInv
      <3> QED
        BY <3>2, <3>3
    <2> QED
      BY <1>12, <2>2 DEF WordsInv
  <1>13. CASE Fetch
    <2>1. /\ sq # <<>> /\ sq[1].op = "write" /\ UNCHANGED <<sendBuf, receiveBuf>>
          /\ sq' = [sq EXCEPT ![1].words = Captured(sq[1].from, sq[1].len)]
      <3>1. Oldest = sq[1]
        BY DEF Oldest
      <3> QED
        BY <1>13, <3>1 DEF Fetch, senderVars, receiverVars
    <2>2. sq[1].from \in Nat /\ sq[1].len \in Nat
      <3>1. sq[1] \in Request
        BY <1>1, <2>1
      <3> QED
        BY <3>1 DEF Request
    <2>3. PICK w : w = Captured(sq[1].from, sq[1].len)
      OBVIOUS
    <2>4. \A i \in 1..sq[1].len : w[i] \in LowWord /\ w[i] \in AnyWord
      <3> SUFFICES ASSUME NEW i \in 1..sq[1].len PROVE w[i] \in LowWord /\ w[i] \in AnyWord
        OBVIOUS
      <3>1. PICK p \in Nat : p = sq[1].from + i - 1
        BY <2>2
      <3>2. w[i] = sendBuf[Slot(p)] /\ Slot(p) \in Cells
        BY <2>3, <3>1, SlotFacts DEF Captured
      <3> QED
        BY <3>2 DEF WordsInv, Shape, BufferShape
    <2>5. w \in Seq(AnyWord)
      <3>1. w \in [1..sq[1].len -> AnyWord]
        <4>1. w = [i \in 1..sq[1].len |-> w[i]]
          BY <2>3 DEF Captured
        <4> QED
          BY <2>4, <4>1
      <3> QED
        BY <2>2, <3>1
    <2> QED
      BY <2>1, <2>3, <2>4, <2>5, <1>12
  <1>14. CASE SampleReadPos
    <2>1. PICK w : w = <<localReadPos>>
      OBVIOUS
    <2>2. /\ sq # <<>> /\ sq[1].op = "read" /\ UNCHANGED <<sendBuf, receiveBuf>>
          /\ sq' = [sq EXCEPT ![1].words = w]
      <3>1. Oldest = sq[1]
        BY DEF Oldest
      <3> QED
        BY <1>14, <2>1, <3>1 DEF SampleReadPos, senderVars, receiverVars
    <2>3. w \in Seq(Nat)
      <3>1. localReadPos \in Nat
        BY DEF Shape, BufferShape
      <3> QED
        BY <2>1, <3>1
    <2> QED
      BY <2>2, <2>3, <1>12
  <1>15. CASE Acknowledge
    <2>1. \A k \in Writes' : k + 1 \in Writes /\ sq'[k] = sq[k + 1]
      BY <1>15, WritesLeft
    <2>2. UNCHANGED <<sendBuf, receiveBuf>>
      BY <1>15 DEF Acknowledge, receiverVars
    <2> QED
      BY <2>1, <2>2 DEF WordsInv
  <1>16. ASSUME NEW i \in Cells, Place(i) PROVE WordsInv'
    <2>1. /\ sq # <<>> /\ sq[1].op = "write" /\ sq[1].words # <<>> /\ i \in 0..sq[1].len - 1
          /\ UNCHANGED <<sendBuf, sq>>
          /\ receiveBuf' = [receiveBuf EXCEPT ![Slot(sq[1].from + i)] = sq[1].words[i + 1]]
      <3>1. Oldest = sq[1]
        BY DEF Oldest
      <3> QED
        BY <1>16, <3>1 DEF Place, senderVars
    <2>2. 1 \in Writes
      <3>1. 1 \in 1..Len(sq)
        BY <1>1, <2>1
      <3> QED
        BY <2>1, <3>1 DEF Writes
    <2>3. i + 1 \in 1..sq[1].len
      <3>1. sq[1].len \in Nat
        BY <2>2, SliceFacts
      <3> QED
        BY <2>1, <3>1
    <2>4. sq[1].words[i + 1] \in LowWord
      BY <2>1, <2>2, <2>3 DEF WordsInv
    <2>5. receiveBuf' \in [Cells -> LowWord]
      BY <2>1, <2>4 DEF WordsInv
    <2> QED
      BY <2>1, <2>5, <1>4
  <1>17. CASE BufferAdapter
    BY <1>17, <1>13, <1>14, <1>15, <1>16 DEF BufferAdapter, Adapter
  <1>18. CASE Wipe
    <2> DEFINE w == [i \in 0..Total(receiveSize) - 1 |-> Zero]
    <2>1. \A i \in DOMAIN w : w[i] \in LowWord
      BY DEF LowWord
    <2>2. receiveBuf' = Overlay(receiveBuf, localReadPos, w) /\ UNCHANGED <<sendBuf, sq>>
      BY <1>18 DEF Wipe, senderVars, adapterVars
    <2> HIDE DEF w
    <2>3. receiveBuf' \in [Cells -> LowWord]
      BY <2>1, <2>2, OverlayLow DEF WordsInv
    <2> QED
      BY <2>2, <2>3, <1>4
  <1>19. CASE StartReceive \/ PollSize \/ PollValidity \/ CallbackThrows \/ Publish
    BY <1>19, <1>2 DEF StartReceive, BeginReceive, PollSize, PollValidity, CallbackThrows, Publish,
                       senderVars, adapterVars
  <1>20. CASE UNCHANGED allVars
    BY <1>20, <1>2 DEF allVars, vars, senderVars, adapterVars, receiverVars
  <1> QED
    BY <1>5, <1>11, <1>17, <1>18, <1>19, <1>20
       DEF MessageNext, BufferReceiver, BeginReceiving, Receiver

\* What the receiver and the adapter have under way.
LEMMA BoundsSteps ==
    ASSUME Shape, IsMessageBuffer => OlderRingInv, BoundsInv, [MessageNext]_allVars
    PROVE  BoundsInv'
  <1>1. CountInv' /\ WordsInv'
    BY CountSteps, WordsSteps DEF BoundsInv
  <1>2. placed' \subseteq Cells
    <2>1. CASE BufferAdapter
      BY <2>1 DEF BufferAdapter, Adapter, Fetch, SampleReadPos, Acknowledge, Place, BoundsInv
    <2>2. CASE BeginBuffer \/ BufferSender
      BY <2>2 DEF BeginBuffer, BeginMessage, BeginSend, FillSendBuf, FillTooLarge, BufferSender,
                  PostReadForPart, PostRead, SubmitRead, CopyPart, PostSlice, DrainSlice, PostMessage,
                  Drain, DrainThen, PollRead, GetEvent, RequestNotify, adapterVars, BoundsInv
    <2>3. CASE BufferReceiver \/ BeginReceiving \/ UNCHANGED allVars
      BY <2>3 DEF BufferReceiver, BeginReceiving, Receiver, StartReceive, BeginReceive, PollSize,
                  PollValidity, CallbackThrows, Wipe, Publish, allVars, vars, adapterVars, BoundsInv
    <2> QED
      BY <2>1, <2>2, <2>3 DEF MessageNext
  <1>3. receiveSize' \in 0..Size - 2 /\ maxSize' \in RecvSizes \cup {0}
    <2>1. CASE UNCHANGED <<receiveSize, maxSize>>
      BY <2>1 DEF BoundsInv
    <2>2. CASE BeginBuffer \/ BufferSender
      <3>1. UNCHANGED <<receiveSize, maxSize>>
        BY <2>2 DEF BeginBuffer, BeginMessage, BeginSend, FillSendBuf, FillTooLarge, BufferSender,
                  PostReadForPart, PostRead, SubmitRead, CopyPart, PostSlice, DrainSlice, PostMessage,
                  Drain, DrainThen, PollRead, GetEvent, RequestNotify, receiverVars
      <3> QED
        BY <2>1, <3>1
    <2>3. CASE BufferAdapter
      <3>1. UNCHANGED <<receiveSize, maxSize>>
        BY <2>3 DEF BufferAdapter, Adapter, Fetch, SampleReadPos, Acknowledge, Place, receiverVars
      <3> QED
        BY <2>1, <3>1
    <2>4. CASE PollSize
      <3>1. /\ receiveSize' = AsSize(receiveBuf[Slot(localReadPos)]) /\ maxSize' = maxSize
            /\ localReadPos \in Nat /\ Size \in Nat /\ Size >= 2
        BY <2>4, SizeAssumption DEF PollSize, Shape, BufferShape
      <3>2. PICK w : w = receiveBuf[Slot(localReadPos)]
        OBVIOUS
      <3>3. w \in LowWord
        <4>1. Slot(localReadPos) \in Cells
          BY <3>1, SlotFacts
        <4> QED
          BY <3>2, <4>1 DEF BoundsInv, WordsInv
      <3>4. AsSize(w) \in 0..Size - 2
        <4>1. CASE w \in {Zero, Validity} \cup {Payload(p) : p \in 0..Limit}
          <5>1. AsSize(w) = 0
            <6>1. \A p \in 0..Limit : p \in Nat
              BY <3>1, BoundsAssumption DEF Limit
            <6> QED
              BY <4>1, <6>1, WordFacts
          <5> QED
            BY <3>1, <5>1
        <4>2. CASE \E n \in 0..Size - 2 : w = SizeWord(n)
          <5>1. PICK n \in 0..Size - 2 : w = SizeWord(n)
            BY <4>2
          <5>2. n \in Nat
            BY <3>1
          <5>3. AsSize(w) = n
            BY <5>1, <5>2, WordFacts
          <5> QED
            BY <5>3
        <4> QED
          BY <3>3, <4>1, <4>2 DEF LowWord
      <3> QED
        BY <3>1, <3>2, <3>4 DEF BoundsInv
    <2>5. CASE StartReceive
      BY <2>5 DEF StartReceive, BeginReceive, BoundsInv
    <2>6. CASE PollValidity \/ Wipe \/ UNCHANGED allVars
      <3>1. UNCHANGED <<receiveSize, maxSize>>
        BY <2>6 DEF PollValidity, Wipe, allVars, vars, receiverVars
      <3> QED
        BY <2>1, <3>1
    <2>7. CASE CallbackThrows \/ Publish
      BY <2>7, SizeAssumption DEF CallbackThrows, Publish, BoundsInv
    <2> QED
      BY <2>2, <2>3, <2>4, <2>5, <2>6, <2>7 DEF MessageNext, BufferReceiver, BeginReceiving, Receiver
  <1> QED
    BY <1>1, <1>2, <1>3 DEF BoundsInv

\* The beginning.
LEMMA BoundsStart ==
    ASSUME MessageInit
    PROVE  BoundsInv
  <1>1. Size \in Nat /\ Size >= 2 /\ MaxSends \in Nat
    BY SizeAssumption, BoundsAssumption
  <1>2. /\ sendPos = 0 /\ messageCounter = 0 /\ spc = "idle" /\ sq = <<>> /\ placed = {}
        /\ sendBuf = [c \in Cells |-> Zero] /\ receiveBuf = [c \in Cells |-> Zero]
        /\ receiveSize = 0 /\ maxSize = 0
    BY DEF MessageInit, Init
  <1>3. CountInv
    BY <1>1, <1>2 DEF CountInv
  <1>4. WordsInv
    <2>1. Zero \in LowWord /\ Writes = {}
      BY <1>2 DEF LowWord, Writes
    <2> QED
      BY <1>2, <2>1 DEF WordsInv
  <1> QED
    BY <1>1, <1>2, <1>3, <1>4 DEF BoundsInv

\* The bounds are those of the type invariant.
LEMMA BoundsTypes ==
    ASSUME Shape, QueueInv, BoundsInv, outbox \in Seq(Message)
    PROVE  TypeOK
  <1>1. BufferShape /\ cq \in Queue /\ used \in Int /\ unsignaled \in Nat
    BY DEF Shape, BufferShape
  <1>2. messageCounter \in 0..MaxSends + 1
    <2>1. messageCounter \in Nat /\ messageCounter <= MaxSends + 1 /\ MaxSends \in Nat
      BY <1>1, BoundsAssumption DEF BufferShape, BoundsInv, CountInv
    <2> QED
      BY <2>1
  <1>3. cq.armed \in BOOLEAN /\ cq.events \in 0..1
    BY <1>1 DEF Queue, QueueInv, EventInv
  <1>4. used \in Nat /\ unsignaled \in 0..used
    <2>1. PICK i \in 0..Len(sq), j \in 0..Len(sq) : Balance(i, j)
      BY DEF QueueInv, QueueOK
    <2>2. PICK a, b, c, d : a = Owing(1) /\ b = Owing(2) /\ c = Owed(i) /\ d = Owed(j)
      OBVIOUS
    <2>3. a \in Nat /\ b \in Nat /\ c \in Nat /\ d \in Nat
      BY <2>1, <2>2, Amounts DEF Shape, BufferShape
    <2>4. used = a + b + c + d + unsignaled
      BY <2>1, <2>2 DEF Balance
    <2> QED
      BY <1>1, <2>3, <2>4
  <1>5. LowWord \subseteq Words
    <2>1. \A n \in 0..Size - 2 : n \in 0..Size
      BY SizeAssumption
    <2> QED
      BY <2>1 DEF LowWord, Words, Limit
  <1>6. sendBuf \in [Cells -> Words] /\ receiveBuf \in [Cells -> Words]
    BY <1>5 DEF BoundsInv, WordsInv
  <1>7. outbox \in Seq([at : Nat, len : 0..Size - 2])
    BY DEF Message
  <1> QED
    BY <1>1, <1>2, <1>3, <1>4, <1>6, <1>7 DEF TypeOK, BufferShape, BoundsInv

\* Every variable of the three classes keeps its type and its bound: no counter,
\* position or word leaves the range that the messages sent so far give it.
THEOREM RingTypes ==
    ASSUME RingSafe, SliceSafe
    PROVE  MessageSpec => []TypeOK
  <1>1. MessageInit => BoundsInv
    BY BoundsStart
  <1>2. Shape /\ (IsMessageBuffer => OlderRingInv) /\ BoundsInv /\ [MessageNext]_allVars => BoundsInv'
    BY BoundsSteps
  <1>3. MessageSpec => []BoundsInv
    BY <1>1, <1>2, OlderInvariant, PTL DEF MessageSpec
  <1>4. /\ Shape /\ QueueInv /\ BoundsInv
        /\ IsMessageBuffer => OlderRingInv
        /\ ~IsMessageBuffer => RingInv
        => TypeOK
    <2>1. OlderRingInv => outbox \in Seq(Message)
      BY DEF OlderRingInv, OlderInv, MessagesInv
    <2>2. RingInv => outbox \in Seq(Message)
      BY DEF RingInv, OutboxInv
    <2> QED
      BY <2>1, <2>2, BoundsTypes
  <1> QED
    BY <1>3, <1>4, QueueInvariant, OlderInvariant, NewerInvariant, PTL
=============================================================================
