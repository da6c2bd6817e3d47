--------------------- MODULE VirtualRDMARingBuffer_proofs ---------------------
(***************************************************************************)
(* That the RDMA ring is safe to poll, for every ring size, message length *)
(* and way to send: what the receiver accepts is the oldest message sent,  *)
(* whole, and the ring outside the posted messages is zero.                *)
(*                                                                         *)
(* The argument follows the words from the sender's buffer into the ring.  *)
(* A stream position is either not posted, or posted and not yet placed    *)
(* (its cell is zero, so nothing can be read from it), or placed and its   *)
(* cell holds what its request carries. RingInv says this for every        *)
(* position of the window of Size words from the receiver's position on,   *)
(* together with what the requests may carry.                              *)
(***************************************************************************)
EXTENDS VirtualRDMARingBuffer, SequenceTheorems, TLAPS

\* What the theorems ask of the setting: send relies on an adapter that places
\* the words of a write in order, and unless all messages are inline the caller
\* leaves at most one ring of words unread, so that a message is not built over
\* one the adapter has yet to fetch.
AllInline == \A n \in PayloadLens : Total(n) <= MaxInline
RingSafe == "send" \notin AnyOrder /\ (MaxUnread <= Size \/ AllInline)
-----------------------------------------------------------------------------
(* The inductive invariant                                                  *)

AnyWord == {"zero", "size", "payload", "validity"} \X Nat
Request == [op : {"read", "write"}, from : Nat, len : Nat, signaled : BOOLEAN, frees : Nat,
            words : Seq(AnyWord) \cup Seq(Nat), of : [at : Nat, len : Nat]]
Message == [at : Nat, len : 0..Size - 2]

EndOf(m) == m.at + Total(m.len)
Writes == {k \in 1..Len(sq) : sq[k].op = "write"}

\* A message is posted whole, or as its data and its size.
IsWhole(r) == r.from = r.of.at /\ r.len = Total(r.of.len)
IsData(r) == r.from = r.of.at + 1 /\ r.len = r.of.len + 1
IsSize(r) == r.from = r.of.at /\ r.len = 1 /\ r.words # <<>> /\ r.words[1] = SizeWord(r.of.len)

\* Stream positions that are posted and not in the receiver's memory.
Covers(k, p) == sq[k].from <= p /\ p < sq[k].from + sq[k].len
InPlace(k, p) == k = 1 /\ p - sq[k].from \in placed
Unplaced(p) == \E k \in Writes : Covers(k, p) /\ ~InPlace(k, p)

\* What the adapter has captured or will. A send that is refused as too large
\* has overwritten sendBuf, so that words may be wrong; but then the validity
\* word is, too.
Content(r) == IF r.words # <<>> THEN r.words ELSE Captured(r.from, r.len)
Sound(r) ==
    /\ \A i \in 1..r.len : Content(r)[i] = Validity => r.from + i - 1 = r.of.at + r.of.len + 1
    /\ Content(r)[r.len] = Validity => \A i \in 1..r.len :
            Content(r)[i] = MessageWord(r.of.at, r.of.len, r.from + i - 1 - r.of.at)
    /\ r.from = r.of.at => AsSize(Content(r)[1]) \in {0, r.of.len}

\* Up to where the receiver has accepted messages, and wiped them.
Accepted == localReadPos + (IF rpc \in {"callback", "publish"} THEN Total(receiveSize) ELSE 0)
Wiped == localReadPos + (IF rpc = "publish" THEN Total(receiveSize) ELSE 0)

\* A request is a part of a posted message; data and size come in that order.
KindInv(k) ==
    /\ sq[k].of.len \in 0..Size - 2 /\ EndOf(sq[k].of) <= PostedEnd
    /\ IsWhole(sq[k]) \/ IsData(sq[k]) \/ IsSize(sq[k])
    /\ IsWhole(sq[k]) => variant = "send"
    /\ IsData(sq[k]) => k + 1 \in Writes /\ IsSize(sq[k + 1]) /\ sq[k + 1].of = sq[k].of

\* What a request carries.
DataInv(k) ==
    /\ sq[k].words # <<>> => sq[k].words \in [1..sq[k].len -> AnyWord]
    /\ AllInline => sq[k].words # <<>>
    /\ Sound(sq[k])

\* The requests of a message that is accepted are carried out, but for the size
\* word of an empty one, which is as good as there. The message of any other
\* request is not consumed.
LeftInv(k) ==
    sq[k].of.at < Accepted =>
        \/ k = 1 /\ placed = 0..sq[k].len - 1
        \/ IsSize(sq[k]) /\ sq[k].of.len = 0 /\ receiveBuf[Slot(sq[k].from)] = Zero
SentInv(k) == sq[k].of.at >= localReadPos => \E x \in 1..Len(outbox) : outbox[x] = sq[k].of

\* Requests are in the order of their messages.
OrderInv(k) ==
    \A j \in Writes : j < k =>
        \/ sq[j].of = sq[k].of /\ IsData(sq[j]) /\ IsSize(sq[k])
        \/ EndOf(sq[j].of) <= sq[k].of.at

RequestInv == \A k \in Writes : KindInv(k) /\ DataInv(k) /\ LeftInv(k) /\ SentInv(k) /\ OrderInv(k)

\* The request being carried out.
PlacedInv ==
    /\ 1 \notin Writes => placed = {}
    /\ 1 \in Writes =>
        /\ placed \subseteq 0..sq[1].len - 1 /\ (placed # {} => sq[1].words # <<>>)
        /\ sq[1].of.at >= Wiped =>
                \A i \in placed : receiveBuf[Slot(sq[1].from + i)] = sq[1].words[i + 1]
        /\ variant = "send" => \A i \in placed : 0..i \subseteq placed

\* The messages follow each other from the reader's position on.
OutboxInv ==
    /\ outbox \in Seq(Message)
    /\ outbox = <<>> => localReadPos = PostedEnd
    /\ outbox # <<>> => outbox[1].at = localReadPos /\ EndOf(outbox[Len(outbox)]) = PostedEnd
    /\ \A x \in 1..Len(outbox) - 1 : EndOf(outbox[x]) = outbox[x + 1].at
    /\ \A x, y \in 1..Len(outbox) : x < y => EndOf(outbox[x]) <= outbox[y].at

\* What the receiver can see of a message it has not accepted.
Seen(m, i) == receiveBuf[Slot(m.at + i)]
DataPlaced(m) == \A i \in 1..m.len : ~Unplaced(m.at + i)
SeenInv(m) ==
    /\ \A i \in 0..m.len : Seen(m, i) # Validity
    /\ AsSize(Seen(m, 0)) \in {0, m.len}
    /\ Seen(m, m.len + 1) = Validity /\ DataPlaced(m) =>
            \A i \in 1..m.len : Seen(m, i) = Payload(m.at + i)
    /\ Seen(m, m.len + 1) = Validity /\ Seen(m, 0) # Zero => DataPlaced(m)
MessageInv == \A x \in 1..Len(outbox) : outbox[x].at >= Wiped => SeenInv(outbox[x])

\* Memory with no message in it, or with one not placed yet.
FreeInv ==
    \A p \in localReadPos..localReadPos + Size - 1 :
        p < Wiped \/ p >= PostedEnd \/ Unplaced(p) => receiveBuf[Slot(p)] = Zero

\* The positions the two sides and the READs under way know of each other.
PositionInv ==
    /\ remoteReadPos <= localReadPos /\ localReadPos <= PostedEnd
    /\ PostedEnd - localReadPos <= Size
    /\ \A k \in 1..Len(sq) : sq[k].op = "read" /\ sq[k].words # <<>> =>
            sq[k].words[1] \in Nat /\ sq[k].words[1] <= localReadPos

\* The message in sendBuf that is waiting for space.
BuiltInv ==
    spc \in {"waitFree", "pollRead"} =>
        /\ sending \in PayloadLens
        /\ \A i \in 0..sending + 1 :
                sendBuf[Slot(sendPos + i)] = MessageWord(sendPos, sending, i)

\* What the receiver has found out.
ReceiverInv ==
    /\ rpc = "pollValidity" /\ receiveSize # 0 =>
            /\ outbox # <<>> /\ receiveSize = outbox[1].len
            /\ receiveBuf[Slot(localReadPos)] # Zero
    /\ rpc \in {"callback", "publish"} => outbox # <<>> /\ receiveSize = outbox[1].len
    /\ rpc = "callback" => \A i \in 1..receiveSize :
            receiveBuf[Slot(localReadPos + i)] = Payload(localReadPos + i)

RingShape ==
    /\ sendPos \in Nat /\ localReadPos \in Nat /\ remoteReadPos \in Nat
    /\ sending \in 0..Size - 2 /\ receiveSize \in Nat /\ unsignaled \in Nat
    /\ sendBuf \in [Cells -> AnyWord] /\ receiveBuf \in [Cells -> AnyWord]
    /\ sq \in Seq(Request)
    /\ spc \in {"idle", "waitFree", "pollRead", "getEvent", "requestNotify", "drain"}
    /\ rpc \in {"idle", "pollSize", "pollValidity", "callback", "publish"}

RingInv ==
    /\ RingShape /\ PositionInv /\ BuiltInv /\ OutboxInv
    /\ RequestInv /\ PlacedInv /\ FreeInv /\ MessageInv /\ ReceiverInv
-----------------------------------------------------------------------------
(* Slots, words and buffers                                                 *)

\* Positions closer than a ring length have different slots, and a ring length
\* further on is the same slot.
LEMMA ModDiffers ==
    ASSUME NEW S \in Nat \ {0}, NEW i \in Nat, NEW j \in Nat, i < j, j - i < S
    PROVE  i % S # j % S
  <1>1. i = (S * (i \div S)) + (i % S) /\ i \div S \in Int
    OBVIOUS
  <1>2. j = (S * (j \div S)) + (j % S) /\ j \div S \in Int
    OBVIOUS
  <1> SUFFICES ASSUME i % S = j % S PROVE FALSE
    OBVIOUS
  <1> DEFINE d == (j \div S) - (i \div S)
  <1>3. d \in Int /\ j - i = S * d
    BY <1>1, <1>2
  <1>4. CASE d <= 0
    <2>1. S * d <= 0
      BY <1>3, <1>4
    <2> QED
      BY <2>1, <1>3
  <1>5. CASE d >= 1
    <2>1. S * d >= S
      BY <1>3, <1>5
    <2> QED
      BY <2>1, <1>3
  <1> QED
    BY <1>3, <1>4, <1>5

\* Going round once more does not change the remainder.
LEMMA ModAgain ==
    ASSUME NEW S \in Nat \ {0}, NEW i \in Nat
    PROVE  (i + S) % S = i % S
  <1> DEFINE j == i + S
             q == (j \div S) - (i \div S) - 1
             d == (i % S) - (j % S)
  <1>1. i = (S * (i \div S)) + (i % S) /\ i \div S \in Int /\ i % S \in 0..S - 1
    OBVIOUS
  <1>2. j = (S * (j \div S)) + (j % S) /\ j \div S \in Int /\ j % S \in 0..S - 1
    OBVIOUS
  <1>3. q \in Int /\ d \in Int /\ d < S /\ -S < d
    BY <1>1, <1>2
  <1>4. S * q = d
    BY <1>1, <1>2
  <1> HIDE DEF q, d
  <1>5. CASE q = 0
    BY <1>4, <1>5, <1>1, <1>2 DEF d
  <1>6. CASE q >= 1
    <2>1. S * q >= S
      BY <1>3, <1>6
    <2> QED
      BY <2>1, <1>3, <1>4
  <1>7. CASE q <= -1
    <2>1. S * q <= -S
      BY <1>3, <1>7
    <2> QED
      BY <2>1, <1>3, <1>4
  <1> QED
    BY <1>3, <1>5, <1>6, <1>7

\* Slots are cells; positions less than Size apart have different ones, and
\* positions Size apart the same.
LEMMA SlotFacts ==
    /\ \A p \in Nat : Slot(p) \in Cells
    /\ \A p, q \in Nat : p < q /\ q - p < Size => Slot(p) # Slot(q)
    /\ \A p \in Nat : Slot(p + Size) = Slot(p)
  <1>1. \A p \in Nat : Slot(p) \in Cells
    BY SizeAssumption DEF Slot, Cells
  <1>2. \A p, q \in Nat : p < q /\ q - p < Size => Slot(p) # Slot(q)
    <2>1. Size \in Nat \ {0}
      BY SizeAssumption
    <2> SUFFICES ASSUME NEW p \in Nat, NEW q \in Nat, p < q, q - p < Size
                 PROVE  Slot(p) # Slot(q)
      OBVIOUS
    <2>2. p % Size # q % Size
      BY ModDiffers, <2>1
    <2> QED
      BY <2>2 DEF Slot
  <1>3. \A p \in Nat : Slot(p + Size) = Slot(p)
    <2>1. Size \in Nat \ {0}
      BY SizeAssumption
    <2> SUFFICES ASSUME NEW p \in Nat PROVE Slot(p + Size) = Slot(p)
      OBVIOUS
    <2>2. (p + Size) % Size = p % Size
      BY ModAgain, <2>1
    <2> QED
      BY <2>2 DEF Slot
  <1> QED
    BY <1>1, <1>2, <1>3

\* The kinds of words are told apart, and what they are as a size.
LEMMA WordFacts ==
    /\ Zero \in AnyWord /\ Validity \in AnyWord /\ Zero # Validity
    /\ AsSize(Zero) = 0 /\ AsSize(Validity) = 0
    /\ \A p \in Nat : Payload(p) \in AnyWord /\ Payload(p) # Validity /\ AsSize(Payload(p)) = 0
    /\ \A n \in Nat : /\ SizeWord(n) \in AnyWord /\ SizeWord(n) # Validity
                      /\ AsSize(SizeWord(n)) = n
    /\ SizeWord(0) = Zero
    /\ \A w \in AnyWord : AsSize(w) \in Nat
  <1>1. "zero" # "validity" /\ "payload" # "validity" /\ "size" # "validity"
    OBVIOUS
  <1>2. "zero" # "size" /\ "validity" # "size" /\ "payload" # "size"
    OBVIOUS
  <1>3. /\ Zero \in AnyWord /\ Validity \in AnyWord
        /\ \A p \in Nat : Payload(p) \in AnyWord /\ SizeWord(p) \in AnyWord
    BY DEF Zero, Validity, AnyWord, Payload, SizeWord
  <1>4. /\ Zero[1] = "zero" /\ Validity[1] = "validity"
        /\ \A p \in Nat : Payload(p)[1] = "payload"
        /\ \A n \in Nat : n # 0 => SizeWord(n)[1] = "size" /\ SizeWord(n)[2] = n
    BY DEF Zero, Validity, Payload, SizeWord
  <1>5. SizeWord(0) = Zero
    BY DEF SizeWord
  <1>6. \A w \in AnyWord : w[2] \in Nat
    BY DEF AnyWord
  <1>7. /\ AsSize(Zero) = 0 /\ AsSize(Validity) = 0
        /\ \A p \in Nat : AsSize(Payload(p)) = 0 /\ AsSize(SizeWord(p)) = p
        /\ \A w \in AnyWord : AsSize(w) \in Nat
    BY <1>2, <1>4, <1>5, <1>6 DEF AsSize
  <1>8. /\ Zero # Validity
        /\ \A p \in Nat : Payload(p) # Validity /\ SizeWord(p) # Validity
    BY <1>1, <1>4, <1>5
  <1> QED
    BY <1>3, <1>5, <1>7, <1>8

\* Which word of a message is where.
LEMMA MessageWordFacts ==
    ASSUME NEW p \in Nat, NEW n \in Nat, NEW i \in 0..n + 1
    PROVE  /\ MessageWord(p, n, i) \in AnyWord
           /\ i = 0 => MessageWord(p, n, i) = SizeWord(n)
           /\ i = n + 1 => MessageWord(p, n, i) = Validity
           /\ i \in 1..n => MessageWord(p, n, i) = Payload(p + i)
           /\ MessageWord(p, n, i) = Validity => i = n + 1
  <1>1. CASE i = 0
    <2>1. MessageWord(p, n, i) = SizeWord(n)
      BY <1>1 DEF MessageWord
    <2> QED
      BY <1>1, <2>1, WordFacts
  <1>2. CASE i = n + 1
    <2>1. MessageWord(p, n, i) = Validity
      BY <1>2 DEF MessageWord
    <2> QED
      BY <1>2, <2>1, WordFacts
  <1>3. CASE i \in 1..n
    <2>1. MessageWord(p, n, i) = Payload(p + i) /\ p + i \in Nat
      BY <1>3 DEF MessageWord
    <2> QED
      BY <1>3, <2>1, WordFacts
  <1> QED
    BY <1>1, <1>2, <1>3

\* What Overlay writes and what it leaves alone.
LEMMA OverlayFacts ==
    ASSUME NEW buf \in [Cells -> AnyWord], NEW from \in Nat, NEW n \in Nat, n <= Size,
           NEW words \in [0..n - 1 -> AnyWord]
    PROVE  /\ Overlay(buf, from, words) \in [Cells -> AnyWord]
           /\ \A i \in 0..n - 1 : Overlay(buf, from, words)[Slot(from + i)] = words[i]
           /\ \A p \in Nat :
                 (p < from /\ from + n - p <= Size) \/ (p >= from + n /\ p - from < Size) =>
                    Overlay(buf, from, words)[Slot(p)] = buf[Slot(p)]
           /\ \A c \in Cells : \/ Overlay(buf, from, words)[c] = buf[c]
                               \/ \E i \in 0..n - 1 : Overlay(buf, from, words)[c] = words[i]
  <1> DEFINE Hit(c) == \E i \in DOMAIN words : Slot(from + i) = c
             At(c) == CHOOSE i \in DOMAIN words : Slot(from + i) = c
  <1>1. DOMAIN words = 0..n - 1
    OBVIOUS
  <1>2. \A c \in Cells : Hit(c) => At(c) \in 0..n - 1 /\ Slot(from + At(c)) = c
    BY <1>1
  <1>3. Overlay(buf, from, words) = [c \in Cells |-> IF Hit(c) THEN words[At(c)] ELSE buf[c]]
    BY DEF Overlay
  <1>4. Overlay(buf, from, words) \in [Cells -> AnyWord]
    <2>1. \A c \in Cells : (IF Hit(c) THEN words[At(c)] ELSE buf[c]) \in AnyWord
      BY <1>2
    <2> HIDE DEF Hit, At
    <2> QED
      BY <2>1, <1>3
  <1>5. ASSUME NEW i \in 0..n - 1
        PROVE  Overlay(buf, from, words)[Slot(from + i)] = words[i]
    <2>1. Slot(from + i) \in Cells /\ from + i \in Nat
      BY SlotFacts
    <2>2. Hit(Slot(from + i))
      BY <1>1
    <2> DEFINE j == At(Slot(from + i))
    <2>3. j \in 0..n - 1 /\ Slot(from + j) = Slot(from + i)
      BY <2>1, <2>2, <1>2
    <2> HIDE DEF Hit, At, j
    <2>4. j = i
      <3>1. from + j \in Nat /\ from + i \in Nat
        BY <2>3
      <3>2. ~(from + j < from + i) /\ ~(from + i < from + j)
        BY <2>3, <3>1, SlotFacts, SizeAssumption
      <3> QED
        BY <3>2, <2>3
    <2>5. Overlay(buf, from, words)[Slot(from + i)] = words[At(Slot(from + i))]
      BY <1>3, <2>1, <2>2
    <2> QED
      BY <2>4, <2>5 DEF j
  <1>6. ASSUME NEW p \in Nat,
               (p < from /\ from + n - p <= Size) \/ (p >= from + n /\ p - from < Size)
        PROVE  Overlay(buf, from, words)[Slot(p)] = buf[Slot(p)]
    <2>1. Slot(p) \in Cells
      BY SlotFacts
    <2>2. ~Hit(Slot(p))
      <3> SUFFICES ASSUME NEW i \in 0..n - 1, Slot(from + i) = Slot(p) PROVE FALSE
        BY <1>1
      <3>1. from + i \in Nat
        OBVIOUS
      <3>2. CASE p < from
        BY <1>6, <3>1, <3>2, SlotFacts, SizeAssumption
      <3>3. CASE p >= from
        BY <1>6, <3>1, <3>3, SlotFacts, SizeAssumption
      <3> QED
        BY <3>2, <3>3
    <2> HIDE DEF Hit, At
    <2> QED
      BY <2>1, <2>2, <1>3
  <1>7. ASSUME NEW c \in Cells
        PROVE  \/ Overlay(buf, from, words)[c] = buf[c]
               \/ \E i \in 0..n - 1 : Overlay(buf, from, words)[c] = words[i]
    <2>1. Hit(c) => At(c) \in 0..n - 1
      BY <1>2
    <2> HIDE DEF Hit, At
    <2> QED
      BY <2>1, <1>3
  <1> QED
    BY <1>4, <1>5, <1>6, <1>7

\* The words a write reads from sendBuf.
LEMMA CapturedFacts ==
    ASSUME sendBuf \in [Cells -> AnyWord], NEW from \in Nat, NEW n \in Nat \ {0}
    PROVE  /\ Captured(from, n) \in [1..n -> AnyWord] /\ Captured(from, n) \in Seq(AnyWord)
           /\ Captured(from, n) # <<>>
           /\ \A i \in 1..n : Captured(from, n)[i] = sendBuf[Slot(from + i - 1)]
  <1>1. \A i \in 1..n : from + i - 1 \in Nat /\ Slot(from + i - 1) \in Cells
    BY SlotFacts
  <1>2. Captured(from, n) \in [1..n -> AnyWord]
    BY <1>1 DEF Captured
  <1>3. \A i \in 1..n : Captured(from, n)[i] = sendBuf[Slot(from + i - 1)]
    BY DEF Captured
  <1> HIDE DEF Captured
  <1>4. Captured(from, n) \in Seq(AnyWord)
    BY <1>2
  <1>5. Captured(from, n) # <<>>
    <2>1. DOMAIN Captured(from, n) = 1..n /\ 1 \in 1..n
      BY <1>2
    <2>2. DOMAIN <<>> = {}
      OBVIOUS
    <2> QED
      BY <2>1, <2>2
  <1> QED
    BY <1>2, <1>3, <1>4, <1>5
-----------------------------------------------------------------------------
(* Consequences of the invariant                                            *)

\* A request lies within its message, which is posted.
LEMMA RequestFacts ==
    ASSUME RingShape, NEW k \in Writes, KindInv(k)
    PROVE  /\ k \in 1..Len(sq) /\ sq[k] \in Request /\ sq[k].op = "write"
           /\ sq[k].from \in Nat /\ sq[k].len \in Nat \ {0}
           /\ sq[k].of.at \in Nat /\ sq[k].of.len \in 0..Size - 2
           /\ EndOf(sq[k].of) = sq[k].of.at + sq[k].of.len + 2
           /\ sq[k].of.at <= sq[k].from /\ sq[k].from + sq[k].len <= EndOf(sq[k].of)
           /\ EndOf(sq[k].of) <= PostedEnd
           /\ IsWhole(sq[k]) \/ IsData(sq[k]) \/ IsSize(sq[k])
  <1>1. k \in 1..Len(sq) /\ sq[k] \in Request /\ sq[k].op = "write"
    BY DEF RingShape, Writes
  <1>2. sq[k].from \in Nat /\ sq[k].len \in Nat /\ sq[k].of.at \in Nat
    BY <1>1 DEF Request
  <1> DEFINE r == sq[k]
  <1>3. /\ r.of.len \in 0..Size - 2 /\ EndOf(r.of) <= PostedEnd
        /\ IsWhole(r) \/ IsData(r) \/ IsSize(r)
    BY DEF KindInv
  <1>4. r.of.len \in Nat
    BY <1>3, SizeAssumption
  <1>5. EndOf(r.of) = r.of.at + r.of.len + 2
    BY <1>2, <1>4 DEF EndOf, Total
  <1>6. r.len > 0 /\ r.of.at <= r.from /\ r.from + r.len <= r.of.at + r.of.len + 2
    <2>1. CASE IsWhole(r)
      BY <2>1, <1>2, <1>4 DEF IsWhole, Total
    <2>2. CASE IsData(r)
      BY <2>2, <1>2, <1>4 DEF IsData
    <2>3. CASE IsSize(r)
      BY <2>3, <1>2, <1>4 DEF IsSize
    <2> QED
      BY <1>3, <2>1, <2>2, <2>3
  <1> QED
    BY <1>1, <1>2, <1>3, <1>5, <1>6

\* A message sent and not consumed lies between the reader and PostedEnd.
LEMMA OutboxFacts ==
    ASSUME OutboxInv, NEW x \in 1..Len(outbox)
    PROVE  /\ outbox[x] \in Message /\ outbox[x].at \in Nat /\ outbox[x].len \in 0..Size - 2
           /\ outbox[x].len \in Nat
           /\ EndOf(outbox[x]) = outbox[x].at + outbox[x].len + 2
           /\ localReadPos <= outbox[x].at /\ EndOf(outbox[x]) <= PostedEnd
           /\ outbox # <<>> /\ outbox[1].at = localReadPos
           /\ x # 1 => EndOf(outbox[1]) <= outbox[x].at
  <1>1. /\ outbox \in Seq(Message) /\ Len(outbox) \in Nat
        /\ 1 \in 1..Len(outbox) /\ Len(outbox) \in 1..Len(outbox) /\ outbox # <<>>
    BY DEF OutboxInv
  <1>2. \A y \in 1..Len(outbox) :
            /\ outbox[y] \in Message /\ outbox[y].at \in Nat /\ outbox[y].len \in 0..Size - 2
            /\ outbox[y].len \in Nat /\ EndOf(outbox[y]) = outbox[y].at + outbox[y].len + 2
    <2> SUFFICES ASSUME NEW y \in 1..Len(outbox)
                 PROVE  /\ outbox[y] \in Message /\ outbox[y].at \in Nat
                        /\ outbox[y].len \in 0..Size - 2 /\ outbox[y].len \in Nat
                        /\ EndOf(outbox[y]) = outbox[y].at + outbox[y].len + 2
      OBVIOUS
    <2>1. outbox[y] \in Message
      BY <1>1
    <2>2. outbox[y].at \in Nat /\ outbox[y].len \in 0..Size - 2
      BY <2>1 DEF Message
    <2>3. outbox[y].len \in Nat
      BY <2>2, SizeAssumption
    <2> QED
      BY <2>1, <2>2, <2>3 DEF EndOf, Total
  <1>3. /\ outbox[1].at = localReadPos /\ EndOf(outbox[Len(outbox)]) = PostedEnd
        /\ \A y, z \in 1..Len(outbox) : y < z => EndOf(outbox[y]) <= outbox[z].at
    BY <1>1 DEF OutboxInv
  <1>4. x # 1 => EndOf(outbox[1]) <= outbox[x].at
    BY <1>1, <1>3
  <1>5. localReadPos <= outbox[x].at
    BY <1>2, <1>3, <1>4, <1>1
  <1>6. EndOf(outbox[x]) <= PostedEnd
    <2>1. CASE x = Len(outbox)
      BY <2>1, <1>3, <1>2
    <2>2. CASE x # Len(outbox)
      <3>1. EndOf(outbox[x]) <= outbox[Len(outbox)].at
        BY <2>2, <1>1, <1>3
      <3>2. outbox[Len(outbox)].at <= PostedEnd /\ outbox[Len(outbox)].at \in Nat
        BY <1>1, <1>2, <1>3
      <3> QED
        BY <3>1, <3>2, <1>2, <1>3, <1>1
    <2> QED
      BY <2>1, <2>2
  <1> QED
    BY <1>1, <1>2, <1>3, <1>4, <1>5, <1>6

\* The order of the positions, and what they are at each step of receive.
LEMMA PositionFacts ==
    ASSUME RingShape, PositionInv, OutboxInv, ReceiverInv
    PROVE  /\ PostedEnd \in Nat /\ Accepted \in Nat /\ Wiped \in Nat /\ localReadPos \in Nat
           /\ localReadPos <= Wiped /\ Wiped <= Accepted /\ Accepted <= PostedEnd
           /\ localReadPos <= PostedEnd /\ PostedEnd <= localReadPos + Size
           /\ rpc = "publish" => Wiped = Accepted
           /\ rpc # "publish" => Wiped = localReadPos
           /\ rpc \in {"callback", "publish"} => Accepted = localReadPos + receiveSize + 2
           /\ rpc \notin {"callback", "publish"} => Accepted = localReadPos
           /\ rpc \in {"callback", "publish"} => outbox # <<>> /\ Accepted = EndOf(outbox[1])
  <1>1. /\ sendPos \in Nat /\ localReadPos \in Nat /\ receiveSize \in Nat /\ sending \in Nat
        /\ Size \in Nat
    BY SizeAssumption DEF RingShape
  <1>2. PostedEnd \in Nat
    BY <1>1 DEF PostedEnd, Total
  <1>3. /\ rpc = "publish" => Wiped = localReadPos + receiveSize + 2
        /\ rpc # "publish" => Wiped = localReadPos
        /\ rpc \in {"callback", "publish"} => Accepted = localReadPos + receiveSize + 2
        /\ rpc \notin {"callback", "publish"} => Accepted = localReadPos
    BY <1>1 DEF Wiped, Accepted, Total
  <1>4. localReadPos <= PostedEnd /\ PostedEnd <= localReadPos + Size
    BY <1>1, <1>2 DEF PositionInv
  <1>5. ASSUME rpc \in {"callback", "publish"}
        PROVE  outbox # <<>> /\ Accepted = EndOf(outbox[1]) /\ Accepted <= PostedEnd
    <2>1. outbox # <<>> /\ receiveSize = outbox[1].len
      BY <1>5 DEF ReceiverInv
    <2>2. 1 \in 1..Len(outbox)
      BY <2>1 DEF OutboxInv
    <2>3. /\ EndOf(outbox[1]) = outbox[1].at + outbox[1].len + 2
          /\ outbox[1].at = localReadPos /\ EndOf(outbox[1]) <= PostedEnd
      BY <2>2, OutboxFacts
    <2> QED
      BY <2>1, <2>3, <1>3, <1>5
  <1> QED
    BY <1>1, <1>2, <1>3, <1>4, <1>5

\* A request for words of the oldest message or earlier ones, and not consumed.
LEMMA OldestMessage ==
    ASSUME OutboxInv, NEW k \in Writes, SentInv(k), outbox # <<>>, sq[k].of.at \in Nat,
           sq[k].of.at >= localReadPos, sq[k].of.at < EndOf(outbox[1])
    PROVE  sq[k].of = outbox[1]
  <1>1. PICK x \in 1..Len(outbox) : outbox[x] = sq[k].of
    BY DEF SentInv
  <1>2. x # 1 => EndOf(outbox[1]) <= outbox[x].at
    BY OutboxFacts
  <1>3. 1 \in 1..Len(outbox)
    BY DEF OutboxInv
  <1>4. EndOf(outbox[1]) \in Nat
    BY <1>3, OutboxFacts
  <1> QED
    BY <1>1, <1>2, <1>4

-----------------------------------------------------------------------------
(* Parts of the invariant that a step leaves as they are                    *)

\* What is known of the requests depends on nothing a receiver's step changes.
LEMMA SameRequests ==
    ASSUME sq' = sq, NEW k
    PROVE  /\ Writes' = Writes
           /\ PostedEnd' = PostedEnd /\ variant' = variant => (KindInv(k)' <=> KindInv(k))
           /\ sendBuf' = sendBuf => (DataInv(k)' <=> DataInv(k))
           /\ OrderInv(k)' <=> OrderInv(k)
           /\ placed' = placed => \A p : Unplaced(p)' <=> Unplaced(p)
  <1>1. Writes' = Writes
    BY DEF Writes
  <1>2. PostedEnd' = PostedEnd /\ variant' = variant => (KindInv(k)' <=> KindInv(k))
    BY <1>1 DEF KindInv, IsWhole, IsData, IsSize, EndOf
  <1>3. sendBuf' = sendBuf => (DataInv(k)' <=> DataInv(k))
    BY DEF DataInv, Sound, Content, Captured
  <1>4. OrderInv(k)' <=> OrderInv(k)
    BY <1>1 DEF OrderInv, EndOf, IsData, IsSize
  <1>5. placed' = placed => \A p : Unplaced(p)' <=> Unplaced(p)
    BY <1>1 DEF Unplaced, Covers, InPlace
  <1> QED
    BY <1>1, <1>2, <1>3, <1>4, <1>5

\* Nor does what is known of the messages.
LEMMA SameOutbox ==
    ASSUME outbox' = outbox, localReadPos' = localReadPos, PostedEnd' = PostedEnd
    PROVE  OutboxInv' <=> OutboxInv
  BY DEF OutboxInv, EndOf

\* A step that moves no words into the ring, and accepts none.
LEMMA Building ==
    ASSUME RingInv, UNCHANGED <<sq, placed, receiveBuf, localReadPos, outbox, variant>>,
           PostedEnd' = PostedEnd, Accepted' = Accepted, Wiped' = Wiped,
           \A k \in Writes : DataInv(k)'
    PROVE  OutboxInv' /\ RequestInv' /\ PlacedInv' /\ FreeInv' /\ MessageInv'
  <1>1. OutboxInv'
    BY SameOutbox DEF RingInv
  <1>2. Writes' = Writes /\ \A p : Unplaced(p)' <=> Unplaced(p)
    BY SameRequests
  <1>3. RequestInv'
    <2> SUFFICES ASSUME NEW k \in Writes
                 PROVE  (KindInv(k) /\ DataInv(k) /\ LeftInv(k) /\ SentInv(k) /\ OrderInv(k))'
      BY <1>2 DEF RequestInv
    <2>1. KindInv(k) /\ DataInv(k) /\ LeftInv(k) /\ SentInv(k) /\ OrderInv(k)
      BY DEF RingInv, RequestInv
    <2>2. KindInv(k)' /\ DataInv(k)' /\ OrderInv(k)'
      BY <2>1, SameRequests
    <2>3. LeftInv(k)' /\ SentInv(k)'
      BY <2>1 DEF LeftInv, SentInv, IsSize
    <2> QED
      BY <2>2, <2>3
  <1>4. PlacedInv'
    BY <1>2 DEF RingInv, PlacedInv
  <1>5. FreeInv'
    BY <1>2 DEF RingInv, FreeInv
  <1>6. MessageInv'
    BY <1>2 DEF RingInv, MessageInv, SeenInv, Seen, DataPlaced
  <1> QED
    BY <1>1, <1>3, <1>4, <1>5, <1>6

\* The same for a step that leaves sendBuf alone, too.
LEMMA Idle ==
    ASSUME RingInv, UNCHANGED <<sq, placed, receiveBuf, localReadPos, outbox, sendBuf, variant>>,
           PostedEnd' = PostedEnd, Accepted' = Accepted, Wiped' = Wiped
    PROVE  OutboxInv' /\ RequestInv' /\ PlacedInv' /\ FreeInv' /\ MessageInv'
  <1>1. \A k \in Writes : DataInv(k)'
    <2> SUFFICES ASSUME NEW k \in Writes PROVE DataInv(k)'
      OBVIOUS
    <2>1. DataInv(k)
      BY DEF RingInv, RequestInv
    <2> QED
      BY <2>1, SameRequests
  <1> QED
    BY <1>1, Building
-----------------------------------------------------------------------------
(* The steps of the sender                                                  *)

\* The constructors leave zeroed memory and no requests.
LEMMA RingStarts == Init => RingInv
  <1> SUFFICES ASSUME Init PROVE RingInv
    OBVIOUS
  <1>1. /\ sendPos = 0 /\ localReadPos = 0 /\ remoteReadPos = 0 /\ sending = 0
        /\ receiveSize = 0 /\ unsignaled = 0 /\ spc = "idle" /\ rpc = "idle"
        /\ sq = <<>> /\ placed = {} /\ outbox = <<>>
        /\ sendBuf = [c \in Cells |-> Zero] /\ receiveBuf = [c \in Cells |-> Zero]
    BY DEF Init
  <1>2. Size \in Nat /\ Size >= 2
    BY SizeAssumption
  <1>3. RingShape
    BY <1>1, <1>2, WordFacts DEF RingShape
  <1>4. PostedEnd = 0 /\ Wiped = 0
    BY <1>1 DEF PostedEnd, Wiped
  <1>5. Writes = {}
    BY <1>1 DEF Writes
  <1>6. PositionInv
    BY <1>1, <1>2, <1>4 DEF PositionInv
  <1>7. BuiltInv /\ ReceiverInv
    BY <1>1 DEF BuiltInv, ReceiverInv
  <1>8. OutboxInv /\ MessageInv
    BY <1>1, <1>4 DEF OutboxInv, MessageInv
  <1>9. RequestInv /\ PlacedInv
    BY <1>1, <1>5 DEF RequestInv, PlacedInv
  <1>10. FreeInv
    BY <1>1, <1>2, SlotFacts DEF FreeInv
  <1> QED
    BY <1>3, <1>6, <1>7, <1>8, <1>9, <1>10 DEF RingInv

\* Polling and waiting for completions.
LEMMA PollReadStep ==
    ASSUME RingInv, PollRead
    PROVE  RingInv'
  <1>1. /\ UNCHANGED <<sq, placed, receiveBuf, localReadPos, outbox, sendBuf, variant, sendPos,
                       sending, rpc, receiveSize, remoteReadPos, unsignaled>>
        /\ spc = "pollRead" /\ spc' \in {"waitFree", "pollRead"}
    BY DEF PollRead, receiverVars
  <1>2. PostedEnd' = PostedEnd /\ Accepted' = Accepted /\ Wiped' = Wiped
    BY <1>1 DEF PostedEnd, Accepted, Wiped
  <1>3. OutboxInv' /\ RequestInv' /\ PlacedInv' /\ FreeInv' /\ MessageInv'
    BY <1>1, <1>2, Idle
  <1>4. RingShape'
    BY <1>1 DEF RingInv, RingShape
  <1>5. PositionInv'
    BY <1>1, <1>2 DEF RingInv, PositionInv
  <1>6. BuiltInv'
    BY <1>1 DEF RingInv, BuiltInv
  <1>7. ReceiverInv'
    BY <1>1 DEF RingInv, ReceiverInv
  <1> QED
    BY <1>3, <1>4, <1>5, <1>6, <1>7 DEF RingInv

\* waitForCompletion: the posted message ends where it did.
LEMMA WaitStep ==
    ASSUME RingInv, GetEvent \/ RequestNotify \/ Drain
    PROVE  RingInv'
  <1>1. /\ UNCHANGED <<sq, placed, receiveBuf, localReadPos, outbox, sendBuf, variant,
                       rpc, receiveSize, remoteReadPos, unsignaled>>
        /\ spc \in {"getEvent", "requestNotify", "drain"}
        /\ \/ /\ spc' \in {"getEvent", "requestNotify", "drain"}
              /\ sendPos' = sendPos /\ sending' = sending
           \/ spc' = "idle" /\ sendPos' = sendPos + Total(sending) /\ sending' = 0
    BY DEF GetEvent, RequestNotify, Drain, DrainThen, SendDone, receiverVars
  <1>2. sendPos \in Nat /\ sending \in 0..Size - 2 /\ Size \in Nat /\ Size >= 2
    BY SizeAssumption DEF RingInv, RingShape
  <1>3. PostedEnd' = PostedEnd /\ Accepted' = Accepted /\ Wiped' = Wiped
    BY <1>1, <1>2 DEF PostedEnd, Accepted, Wiped, Total
  <1>4. OutboxInv' /\ RequestInv' /\ PlacedInv' /\ FreeInv' /\ MessageInv'
    BY <1>1, <1>3, Idle
  <1>5. RingShape'
    <2>1. sendPos' \in Nat /\ sending' \in 0..Size - 2
      BY <1>1, <1>2 DEF Total
    <2> QED
      BY <2>1, <1>1 DEF RingInv, RingShape
  <1>6. PositionInv'
    BY <1>1, <1>3 DEF RingInv, PositionInv
  <1>7. BuiltInv'
    BY <1>1 DEF BuiltInv
  <1>8. ReceiverInv'
    BY <1>1 DEF RingInv, ReceiverInv
  <1> QED
    BY <1>4, <1>5, <1>6, <1>7, <1>8 DEF RingInv

\* receive begins with the poll.
LEMMA BeginReceiveStep ==
    ASSUME RingInv, NEW n, BeginReceive(n)
    PROVE  RingInv'
  <1>1. /\ UNCHANGED <<sq, placed, receiveBuf, localReadPos, outbox, sendBuf, variant, sendPos,
                       sending, spc, receiveSize, remoteReadPos, unsignaled>>
        /\ rpc = "idle" /\ rpc' = "pollSize"
    BY DEF BeginReceive, senderVars, adapterVars
  <1>2. PostedEnd' = PostedEnd /\ Accepted' = Accepted /\ Wiped' = Wiped
    BY <1>1 DEF PostedEnd, Accepted, Wiped
  <1>3. OutboxInv' /\ RequestInv' /\ PlacedInv' /\ FreeInv' /\ MessageInv'
    BY <1>1, <1>2, Idle
  <1>4. RingShape'
    BY <1>1 DEF RingInv, RingShape
  <1>5. PositionInv'
    BY <1>1, <1>2 DEF RingInv, PositionInv
  <1>6. BuiltInv'
    BY <1>1 DEF RingInv, BuiltInv
  <1>7. ReceiverInv'
    BY <1>1 DEF ReceiverInv
  <1> QED
    BY <1>3, <1>4, <1>5, <1>6, <1>7 DEF RingInv

\* A request that the adapter still has to fetch is for a message the receiver
\* has not accepted.
LEMMA Unfetched ==
    ASSUME RingInv, NEW k \in Writes, sq[k].words = <<>>
    PROVE  ~AllInline /\ sq[k].of.at >= Accepted /\ (IsWhole(sq[k]) \/ IsData(sq[k]))
  <1>1. RingShape /\ KindInv(k) /\ DataInv(k) /\ LeftInv(k) /\ PlacedInv /\ Accepted \in Nat
    BY PositionFacts DEF RingInv, RequestInv
  <1>2. sq[k].len \in Nat \ {0} /\ sq[k].of.at \in Nat
    BY <1>1, RequestFacts
  <1>3. ~IsSize(sq[k])
    BY DEF IsSize
  <1>4. ~(k = 1 /\ placed = 0..sq[k].len - 1)
    <2> SUFFICES ASSUME k = 1, placed = 0..sq[k].len - 1 PROVE FALSE
      OBVIOUS
    <2>1. 0 \in placed
      BY <1>2
    <2> QED
      BY <2>1, <1>1 DEF PlacedInv
  <1>5. sq[k].of.at >= Accepted
    BY <1>1, <1>2, <1>3, <1>4 DEF LeftInv
  <1>6. ~AllInline
    BY <1>1 DEF DataInv
  <1> QED
    BY <1>3, <1>5, <1>6, <1>1 DEF KindInv

\* A request whose words in sendBuf do not change carries the same.
LEMMA SameContent ==
    ASSUME sq' = sq, NEW k,
           sq[k].words = <<>> => Captured(sq[k].from, sq[k].len)' = Captured(sq[k].from, sq[k].len)
    PROVE  DataInv(k)' <=> DataInv(k)
  <1>1. Content(sq[k])' = Content(sq[k])
    BY DEF Content
  <1> QED
    BY <1>1 DEF DataInv, Sound

\* A message is built in sendBuf where no message waits to be fetched.
LEMMA FillStep ==
    ASSUME RingSafe, RingInv, NEW n \in PayloadLens, FillSendBuf(n)
    PROVE  RingInv'
  <1> DEFINE words == [i \in 0..Total(n) - 1 |-> MessageWord(sendPos, n, i)]
  <1>1. /\ UNCHANGED <<sq, placed, receiveBuf, localReadPos, outbox, variant, sendPos,
                       rpc, receiveSize, remoteReadPos, unsignaled>>
        /\ spc = "idle" /\ spc' = "waitFree" /\ sending' = n
        /\ sendPos - localReadPos + Total(n) <= MaxUnread /\ Total(n) <= Size
        /\ sendBuf' = Overlay(sendBuf, sendPos, words)
    BY DEF FillSendBuf, adapterVars, receiverVars
  <1>2. n \in Nat /\ Size \in Nat /\ MaxUnread \in Nat /\ Total(n) = n + 2
    BY LensAssumption, SizeAssumption, BoundsAssumption DEF Total
  <1>3. sendPos \in Nat /\ localReadPos \in Nat /\ sendBuf \in [Cells -> AnyWord] /\ RingShape
    BY DEF RingInv, RingShape
  <1>4. PostedEnd' = PostedEnd /\ Accepted' = Accepted /\ Wiped' = Wiped /\ PostedEnd = sendPos
    BY <1>1, <1>3 DEF PostedEnd, Accepted, Wiped
  <1>5. words \in [0..(n + 2) - 1 -> AnyWord] /\ n + 2 \in Nat /\ n + 2 <= Size
    BY <1>1, <1>2, <1>3, MessageWordFacts
  <1> HIDE DEF words
  <1>6. /\ sendBuf' \in [Cells -> AnyWord]
        /\ \A i \in 0..(n + 2) - 1 : sendBuf'[Slot(sendPos + i)] = words[i]
        /\ \A p \in Nat : p < sendPos /\ sendPos + (n + 2) - p <= Size =>
                sendBuf'[Slot(p)] = sendBuf[Slot(p)]
    BY <1>1, <1>3, <1>5, OverlayFacts
  <1>7. ASSUME NEW k \in Writes
        PROVE  DataInv(k)'
    <2>1. KindInv(k) /\ DataInv(k)
      BY DEF RingInv, RequestInv
    <2>2. ASSUME sq[k].words = <<>>
          PROVE  Captured(sq[k].from, sq[k].len)' = Captured(sq[k].from, sq[k].len)
      <3>1. MaxUnread <= Size /\ sq[k].of.at >= Accepted
        BY <2>2, Unfetched DEF RingSafe
      <3>2. Accepted >= localReadPos /\ Accepted \in Nat
        BY PositionFacts DEF RingInv
      <3>3. /\ sq[k].from \in Nat /\ sq[k].len \in Nat /\ sq[k].of.at \in Nat
            /\ sq[k].of.at <= sq[k].from /\ sq[k].from + sq[k].len <= PostedEnd
        BY <1>3, <1>4, <2>1, RequestFacts
      <3>4. ASSUME NEW i \in 1..sq[k].len
            PROVE  sendBuf'[Slot(sq[k].from + i - 1)] = sendBuf[Slot(sq[k].from + i - 1)]
        <4> DEFINE p == sq[k].from + i - 1
        <4>1. p \in Nat /\ p < sendPos /\ p >= localReadPos
          BY <1>3, <1>4, <3>1, <3>2, <3>3
        <4> HIDE DEF p
        <4>2. sendPos + (n + 2) - p <= Size
          BY <1>1, <1>2, <1>3, <3>1, <4>1
        <4>3. sendBuf'[Slot(p)] = sendBuf[Slot(p)]
          BY <4>1, <4>2, <1>6
        <4> QED
          BY <4>3 DEF p
      <3> QED
        BY <3>4, <1>1 DEF Captured
    <2> QED
      BY <2>1, <2>2, <1>1, SameContent
  <1>8. OutboxInv' /\ RequestInv' /\ PlacedInv' /\ FreeInv' /\ MessageInv'
    BY <1>1, <1>4, <1>7, Building
  <1>9. RingShape'
    BY <1>1, <1>2, <1>6 DEF RingInv, RingShape
  <1>10. PositionInv'
    BY <1>1, <1>4 DEF RingInv, PositionInv
  <1>11. BuiltInv'
    <2>1. \A i \in 0..n + 1 : sendBuf'[Slot(sendPos + i)] = MessageWord(sendPos, n, i)
      BY <1>2, <1>6 DEF words
    <2> QED
      BY <2>1, <1>1 DEF BuiltInv
  <1>12. ReceiverInv'
    BY <1>1 DEF RingInv, ReceiverInv
  <1> QED
    BY <1>8, <1>9, <1>10, <1>11, <1>12 DEF RingInv

\* What a refused message leaves in sendBuf: payload everywhere but in one slot.
LEMMA RefusedWords ==
    ASSUME RingInv, NEW n \in PayloadLens, FillTooLarge(n)
    PROVE  /\ sendBuf' \in [Cells -> AnyWord]
           /\ \A p \in Nat : localReadPos <= p /\ p < sendPos =>
                  IF p + Size = sendPos THEN sendBuf'[Slot(p)] = sendBuf[Slot(p)]
                                        ELSE sendBuf'[Slot(p)] = Payload(p + Size)
  <1> DEFINE words == [i \in 0..n - 1 |-> Payload(sendPos + 1 + i)]
  <1>1. /\ spc = "idle" /\ Total(n) > Size /\ n < Size
        /\ sendBuf' = Overlay(sendBuf, sendPos + 1, words)
    BY DEF FillTooLarge
  <1>2. n \in Nat /\ Size \in Nat /\ Size >= 2 /\ n = Size - 1
    BY <1>1, LensAssumption, SizeAssumption DEF Total
  <1>3. sendPos \in Nat /\ localReadPos \in Nat /\ sendBuf \in [Cells -> AnyWord] /\ RingShape
    BY DEF RingInv, RingShape
  <1>4. PostedEnd = sendPos /\ PostedEnd <= localReadPos + Size
    BY <1>1, <1>3, PositionFacts DEF PostedEnd, RingInv
  <1>5. words \in [0..n - 1 -> AnyWord] /\ n <= Size /\ sendPos + 1 \in Nat
    <2>1. \A i \in 0..n - 1 : sendPos + 1 + i \in Nat
      BY <1>3
    <2> QED
      BY <1>2, <1>3, <2>1, WordFacts
  <1>6. \A i \in 0..n - 1 : words[i] = Payload(sendPos + 1 + i)
    OBVIOUS
  <1> HIDE DEF words
  <1>7. /\ sendBuf' \in [Cells -> AnyWord]
        /\ \A i \in 0..n - 1 : sendBuf'[Slot(sendPos + 1 + i)] = words[i]
        /\ \A p \in Nat : p < sendPos + 1 /\ sendPos + 1 + n - p <= Size =>
                sendBuf'[Slot(p)] = sendBuf[Slot(p)]
    <2> DEFINE from == sendPos + 1
    <2>1. from \in Nat /\ sendBuf' = Overlay(sendBuf, from, words)
      BY <1>1, <1>5
    <2>0. n \in Nat /\ n <= Size
      BY <1>2
    <2> HIDE DEF from
    <2>2. /\ sendBuf' \in [Cells -> AnyWord]
          /\ \A i \in 0..n - 1 : sendBuf'[Slot(from + i)] = words[i]
          /\ \A p \in Nat : p < from /\ from + n - p <= Size =>
                sendBuf'[Slot(p)] = sendBuf[Slot(p)]
      BY <2>0, <2>1, <1>3, <1>5, OverlayFacts
    <2> QED
      BY <2>2 DEF from
  <1>8. ASSUME NEW p \in Nat, localReadPos <= p, p < sendPos
        PROVE  IF p + Size = sendPos THEN sendBuf'[Slot(p)] = sendBuf[Slot(p)]
                                     ELSE sendBuf'[Slot(p)] = Payload(p + Size)
    <2>1. Slot(p + Size) = Slot(p) /\ p + Size \in Nat
      BY <1>2, SlotFacts
    <2>2. CASE p + Size = sendPos
      <3>1. sendBuf'[Slot(sendPos)] = sendBuf[Slot(sendPos)]
        BY <1>2, <1>3, <1>7
      <3> QED
        BY <3>1, <2>1, <2>2
    <2>3. CASE p + Size # sendPos
      <3> DEFINE i == p + Size - sendPos - 1
      <3>1. i \in 0..n - 1 /\ sendPos + 1 + i = p + Size
        BY <1>2, <1>3, <1>4, <1>8, <2>3
      <3> HIDE DEF i
      <3>2. sendBuf'[Slot(p + Size)] = Payload(p + Size)
        BY <3>1, <1>6, <1>7
      <3> QED
        BY <3>2, <2>1, <2>3
    <2> QED
      BY <2>2, <2>3
  <1> QED
    BY <1>7, <1>8

\* A refused message overwrites the ones to be fetched, but then spoils their
\* validity words, too.
LEMMA TooLargeStep ==
    ASSUME RingInv, NEW n \in PayloadLens, FillTooLarge(n)
    PROVE  RingInv'
  <1>1. /\ UNCHANGED <<sq, placed, receiveBuf, localReadPos, outbox, variant, sendPos, sending,
                       spc, rpc, receiveSize, remoteReadPos, unsignaled>>
        /\ spc = "idle"
    BY DEF FillTooLarge, adapterVars, receiverVars
  <1>2. RingShape /\ sendPos \in Nat /\ localReadPos \in Nat /\ Size \in Nat /\ Size >= 2
    BY SizeAssumption DEF RingInv, RingShape
  <1>3. PostedEnd' = PostedEnd /\ Accepted' = Accepted /\ Wiped' = Wiped /\ PostedEnd = sendPos
    BY <1>1, <1>2 DEF PostedEnd, Accepted, Wiped
  <1>4. /\ Accepted \in Nat /\ localReadPos <= Accepted /\ sendPos <= localReadPos + Size
    BY <1>3, PositionFacts DEF RingInv
  <1>5. /\ sendBuf' \in [Cells -> AnyWord]
        /\ \A p \in Nat : localReadPos <= p /\ p < sendPos =>
                  IF p + Size = sendPos THEN sendBuf'[Slot(p)] = sendBuf[Slot(p)]
                                        ELSE sendBuf'[Slot(p)] = Payload(p + Size)
    BY RefusedWords
  <1>6. ASSUME NEW k \in Writes
        PROVE  DataInv(k)'
    <2>1. KindInv(k) /\ DataInv(k)
      BY DEF RingInv, RequestInv
    <2>2. CASE sq[k].words # <<>>
      BY <2>1, <2>2, <1>1, SameContent
    <2>3. CASE sq[k].words = <<>>
      <3> DEFINE r == sq[k]
                 at(i) == r.from + i - 1
      <3>1. ~AllInline /\ r.of.at >= Accepted /\ (IsWhole(r) \/ IsData(r))
        BY <2>3, Unfetched
      <3>2. /\ r.from \in Nat /\ r.len \in Nat \ {0} /\ r.of.at \in Nat /\ r.of.len \in Nat
            /\ r.of.at <= r.from /\ r.from + r.len <= sendPos
        BY <1>2, <1>3, <2>1, RequestFacts
      <3>3. /\ Content(r) = Captured(r.from, r.len)
            /\ Content(r)' = Captured(r.from, r.len)'
        BY <2>3, <1>1 DEF Content
      <3>4. \A i \in 1..r.len : /\ Content(r)[i] = sendBuf[Slot(at(i))]
                                /\ Content(r)'[i] = sendBuf'[Slot(at(i))]
        BY <1>1, <3>3 DEF Captured
      <3>5. Sound(r)
        BY <2>1 DEF DataInv
      <3>6. \A i \in 1..r.len : at(i) \in Nat /\ localReadPos <= at(i) /\ at(i) < sendPos
        BY <1>2, <1>4, <3>1, <3>2
      <3>7. ASSUME NEW i \in 1..r.len, Content(r)'[i] # Payload(at(i) + Size)
            PROVE  Content(r)'[i] = Content(r)[i] /\ i = 1 /\ r.from = r.of.at
        <4>1. at(i) + Size = sendPos /\ Content(r)'[i] = Content(r)[i]
          BY <1>5, <3>4, <3>6, <3>7
        <4>2. at(i) <= r.of.at
          BY <4>1, <1>2, <1>4, <3>1, <3>2
        <4> QED
          BY <4>1, <4>2, <3>2
      <3>8. \A i \in 1..r.len : Content(r)'[i] = Validity =>
                Content(r)'[i] = Content(r)[i] /\ i = 1 /\ r.from = r.of.at
        BY <3>6, <3>7, <1>2, WordFacts
      <3>9. \A i \in 1..r.len : Content(r)'[i] = Validity =>
                r.from + i - 1 = r.of.at + r.of.len + 1
        BY <3>8, <3>5 DEF Sound
      <3>10. Content(r)'[r.len] # Validity
        <4> SUFFICES ASSUME Content(r)'[r.len] = Validity PROVE FALSE
          OBVIOUS
        <4>1. r.len = 1 /\ r.from = r.of.at
          BY <3>2, <3>8
        <4> QED
          BY <4>1, <3>1, <3>2 DEF IsWhole, IsData, Total
      <3>11. r.from = r.of.at => AsSize(Content(r)'[1]) \in {0, r.of.len}
        <4>1. 1 \in 1..r.len /\ at(1) + Size \in Nat
          BY <1>2, <3>2, <3>6
        <4>2. CASE Content(r)'[1] = Payload(at(1) + Size)
          BY <4>1, <4>2, WordFacts
        <4>3. CASE Content(r)'[1] # Payload(at(1) + Size)
          BY <4>1, <4>3, <3>7, <3>5 DEF Sound
        <4> QED
          BY <4>2, <4>3
      <3>12. r' = r
        BY <1>1
      <3> HIDE DEF r
      <3>13. Sound(r)'
        BY <3>9, <3>10, <3>11, <3>12 DEF Sound
      <3> QED
        BY <3>13, <3>1, <2>3, <1>1 DEF DataInv, r
    <2> QED
      BY <2>2, <2>3
  <1>7. OutboxInv' /\ RequestInv' /\ PlacedInv' /\ FreeInv' /\ MessageInv'
    BY <1>1, <1>3, <1>6, Building
  <1>8. RingShape'
    BY <1>1, <1>5 DEF RingInv, RingShape
  <1>9. PositionInv'
    BY <1>1, <1>3 DEF RingInv, PositionInv
  <1>10. BuiltInv'
    BY <1>1 DEF BuiltInv
  <1>11. ReceiverInv'
    BY <1>1 DEF RingInv, ReceiverInv
  <1> QED
    BY <1>7, <1>8, <1>9, <1>10, <1>11 DEF RingInv

\* Whether a request is sound depends on sendBuf only.
LEMMA Soundness ==
    ASSUME sendBuf' = sendBuf, NEW j, NEW r, sq'[j] = r
    PROVE  Sound(sq[j])' <=> Sound(r)
  <1>1. Content(sq[j])' = Content(r)
    BY DEF Content, Captured
  <1> QED
    BY <1>1 DEF Sound

\* What is posted leaves the writes before it as they are.
LEMMA Posting ==
    ASSUME RingInv, Len(sq') \in Nat, Len(sq) <= Len(sq'),
           \A k \in 1..Len(sq) : sq'[k].op = sq[k].op, \A k \in Writes : sq'[k] = sq[k],
           UNCHANGED <<sendBuf, placed, receiveBuf, localReadPos, variant>>,
           Accepted' = Accepted, Wiped' = Wiped,
           PostedEnd' \in Nat, PostedEnd <= PostedEnd',
           Len(outbox') \in Nat, Len(outbox) <= Len(outbox'),
           \A x \in 1..Len(outbox) : outbox'[x] = outbox[x]
    PROVE  /\ \A k \in Writes : /\ k \in Writes'
                                /\ KindInv(k)' /\ DataInv(k)' /\ LeftInv(k)' /\ SentInv(k)' /\ OrderInv(k)'
           /\ \A k \in Writes' : k <= Len(sq) => k \in Writes
           /\ PlacedInv'
  <1>0. RingShape /\ PlacedInv /\ PostedEnd \in Nat /\ sq \in Seq(Request) /\ Len(sq) \in Nat
    BY PositionFacts DEF RingInv, RingShape
  <1>1. \A k \in Writes : k \in Writes'
    BY <1>0 DEF Writes
  <1>2. \A k \in Writes' : k <= Len(sq) => k \in Writes
    BY <1>0 DEF Writes
  <1>3. ASSUME NEW k \in Writes
        PROVE  KindInv(k)' /\ DataInv(k)' /\ LeftInv(k)' /\ SentInv(k)' /\ OrderInv(k)'
    <2>1. KindInv(k) /\ DataInv(k) /\ LeftInv(k) /\ SentInv(k) /\ OrderInv(k)
      BY DEF RingInv, RequestInv
    <2>2. k \in 1..Len(sq) /\ sq'[k] = sq[k] /\ \A j \in Writes : j \in 1..Len(sq) /\ sq'[j] = sq[j]
      BY DEF Writes
    <2>3. EndOf(sq[k].of) \in Nat
      BY <1>0, <2>1, RequestFacts
    <2>4. KindInv(k)'
      <3>1. /\ sq[k].of.len \in 0..Size - 2 /\ EndOf(sq[k].of) <= PostedEnd
            /\ IsWhole(sq[k]) \/ IsData(sq[k]) \/ IsSize(sq[k])
            /\ IsWhole(sq[k]) => variant = "send"
        BY <2>1 DEF KindInv
      <3>2. IsData(sq[k]) => k + 1 \in Writes' /\ IsSize(sq'[k + 1]) /\ sq'[k + 1].of = sq[k].of
        BY <2>1, <2>2, <1>1 DEF KindInv
      <3>3. EndOf(sq[k].of) <= PostedEnd'
        BY <3>1, <2>3, <1>0
      <3> QED
        BY <3>1, <3>2, <3>3, <2>2 DEF KindInv
    <2>5. DataInv(k)'
      BY <2>1, <2>2, Soundness DEF DataInv
    <2>6. LeftInv(k)'
      BY <2>1, <2>2 DEF LeftInv
    <2>7. SentInv(k)'
      <3>1. \A x \in 1..Len(outbox) : x \in 1..Len(outbox')
        BY DEF RingInv, OutboxInv
      <3> QED
        BY <2>1, <2>2, <3>1 DEF SentInv
    <2>8. OrderInv(k)'
      <3>1. \A j \in Writes' : j < k => j \in Writes /\ sq'[j] = sq[j]
        BY <1>0, <1>2, <2>2 DEF Writes
      <3> QED
        BY <2>1, <2>2, <3>1 DEF OrderInv
    <2> QED
      BY <2>4, <2>5, <2>6, <2>7, <2>8
  <1>4. PlacedInv'
    <2>1. CASE 1 \in Writes
      <3>1. sq'[1] = sq[1] /\ 1 \in Writes'
        BY <1>1, <2>1 DEF Writes
      <3> QED
        BY <3>1, <2>1, <1>0 DEF PlacedInv
    <2>2. CASE 1 \notin Writes
      BY <2>2, <1>0 DEF PlacedInv
    <2> QED
      BY <2>1, <2>2
  <1> QED
    BY <1>1, <1>2, <1>3, <1>4

\* A READ is posted.
LEMMA PostReadStep ==
    ASSUME RingInv, PostRead
    PROVE  RingInv'
  <1> DEFINE r == [op |-> "read", from |-> 0, len |-> 0, signaled |-> TRUE,
                   words |-> <<>>, frees |-> unsignaled + 1, of |-> ThisMessage]
  <1>1. /\ UNCHANGED <<placed, receiveBuf, localReadPos, outbox, sendBuf, variant, sendPos,
                       sending, rpc, receiveSize, remoteReadPos>>
        /\ spc = "waitFree" /\ spc' = "pollRead" /\ unsignaled' = 0 /\ sq' = Append(sq, r)
    BY DEF PostRead, SubmitRead, receiverVars
  <1>2. PostedEnd' = PostedEnd /\ Accepted' = Accepted /\ Wiped' = Wiped
    BY <1>1 DEF PostedEnd, Accepted, Wiped
  <1>3. /\ RingShape /\ PostedEnd \in Nat /\ sq \in Seq(Request) /\ Len(sq) \in Nat
        /\ Len(outbox) \in Nat
    <2>1. RingShape /\ OutboxInv /\ PostedEnd \in Nat
      BY PositionFacts DEF RingInv
    <2>2. sq \in Seq(Request) /\ outbox \in Seq(Message)
      BY <2>1 DEF RingShape, OutboxInv
    <2> QED
      BY <2>1, <2>2
  <1>4. r \in Request /\ r.op = "read" /\ r.words = <<>>
    <2>1. ThisMessage \in [at : Nat, len : Nat]
      BY <1>3, SizeAssumption DEF RingShape, ThisMessage
    <2>2. <<>> \in Seq(Nat) /\ unsignaled + 1 \in Nat
      BY <1>3 DEF RingShape
    <2> QED
      BY <2>1, <2>2 DEF Request
  <1> HIDE DEF r
  <1>5. /\ sq' \in Seq(Request) /\ Len(sq') = Len(sq) + 1
        /\ \A k \in 1..Len(sq) : sq'[k] = sq[k]
        /\ sq'[Len(sq) + 1] = r
    BY <1>1, <1>3, <1>4
  <1>6. /\ \A k \in Writes : /\ k \in Writes'
                             /\ KindInv(k)' /\ DataInv(k)' /\ LeftInv(k)' /\ SentInv(k)' /\ OrderInv(k)'
        /\ \A k \in Writes' : k <= Len(sq) => k \in Writes
        /\ PlacedInv'
    <2>1. \A k \in 1..Len(sq) : sq'[k].op = sq[k].op
      BY <1>5
    <2>2. \A k \in Writes : sq'[k] = sq[k]
      BY <1>5 DEF Writes
    <2>3. /\ Len(sq') \in Nat /\ Len(sq) <= Len(sq') /\ PostedEnd <= PostedEnd /\ PostedEnd' \in Nat
          /\ Len(outbox) <= Len(outbox) /\ Len(outbox') = Len(outbox)
      BY <1>1, <1>2, <1>3, <1>5
    <2>4. /\ UNCHANGED <<sendBuf, placed, receiveBuf, localReadPos, variant>>
          /\ \A x \in 1..Len(outbox) : outbox'[x] = outbox[x]
      BY <1>1
    <2> QED
      BY <2>1, <2>2, <2>3, <2>4, <1>2, <1>3, Posting
  <1>7. Writes' = Writes
    <2>1. \A k \in Writes' : k \in 1..Len(sq) + 1 /\ k # Len(sq) + 1
      BY <1>4, <1>5 DEF Writes
    <2> QED
      BY <2>1, <1>3, <1>6
  <1>8. RequestInv'
    BY <1>6, <1>7 DEF RequestInv
  <1>9. \A p : Unplaced(p)' <=> Unplaced(p)
    <2>1. \A k \in Writes : sq'[k] = sq[k]
      BY <1>5 DEF Writes
    <2> QED
      BY <1>1, <1>7, <2>1 DEF Unplaced, Covers, InPlace
  <1>10. OutboxInv'
    BY <1>1, <1>2, SameOutbox DEF RingInv
  <1>11. FreeInv'
    BY <1>1, <1>2, <1>9 DEF RingInv, FreeInv
  <1>12. MessageInv'
    BY <1>1, <1>2, <1>9 DEF RingInv, MessageInv, SeenInv, Seen, DataPlaced
  <1>13. RingShape'
    BY <1>1, <1>5 DEF RingInv, RingShape
  <1>14. PositionInv'
    <2>1. \A k \in 1..Len(sq') : sq'[k].op = "read" /\ sq'[k].words # <<>> =>
              sq'[k].words[1] \in Nat /\ sq'[k].words[1] <= localReadPos
      BY <1>3, <1>4, <1>5 DEF RingInv, PositionInv
    <2> QED
      BY <2>1, <1>1, <1>2 DEF RingInv, PositionInv
  <1>15. BuiltInv'
    BY <1>1 DEF RingInv, BuiltInv
  <1>16. ReceiverInv'
    BY <1>1 DEF RingInv, ReceiverInv
  <1> QED
    BY <1>6, <1>8, <1>10, <1>11, <1>12, <1>13, <1>14, <1>15, <1>16 DEF RingInv

\* The fields of a posted write, and that its words are the message's.
LEMMA WriteFacts ==
    ASSUME RingShape, BuiltInv, spc = "waitFree", NEW from \in Nat, NEW n \in Nat \ {0},
           sendPos <= from, from + n <= sendPos + sending + 2,
           NEW signaled \in BOOLEAN, NEW inline \in BOOLEAN, NEW frees \in Nat,
           NEW r, r = WriteRequest(from, n, signaled, inline, frees)
    PROVE  /\ r \in Request /\ r.op = "write" /\ r.from = from /\ r.len = n
           /\ r.of.at = sendPos /\ r.of.len = sending /\ r.of = ThisMessage
           /\ r.words # <<>> => r.words \in [1..n -> AnyWord]
           /\ inline => r.words # <<>>
           /\ \A i \in 1..n : Content(r)[i] = MessageWord(sendPos, sending, from + i - 1 - sendPos)
           /\ Sound(r)
  <1>1. sendPos \in Nat /\ sending \in Nat /\ sendBuf \in [Cells -> AnyWord]
    BY SizeAssumption DEF RingShape
  <1>2. /\ r.op = "write" /\ r.from = from /\ r.len = n /\ r.signaled = signaled /\ r.frees = frees
        /\ r.words = (IF inline THEN Captured(from, n) ELSE <<>>)
        /\ r.of = ThisMessage
    BY DEF WriteRequest
  <1>3. r.of.at = sendPos /\ r.of.len = sending /\ r.of \in [at : Nat, len : Nat]
    BY <1>1, <1>2 DEF ThisMessage
  <1>4. /\ Captured(from, n) \in [1..n -> AnyWord] /\ Captured(from, n) \in Seq(AnyWord)
        /\ Captured(from, n) # <<>>
        /\ \A i \in 1..n : Captured(from, n)[i] = sendBuf[Slot(from + i - 1)]
    BY <1>1, CapturedFacts
  <1>5. r \in Request
    <2>1. <<>> \in Seq(Nat)
      OBVIOUS
    <2>2. r.words \in Seq(AnyWord) \cup Seq(Nat)
      BY <1>2, <1>4, <2>1
    <2>3. r = [op |-> "write", from |-> from, len |-> n, signaled |-> signaled, frees |-> frees,
               words |-> r.words, of |-> r.of]
      BY <1>2 DEF WriteRequest
    <2> QED
      BY <2>2, <2>3, <1>3 DEF Request
  <1>6. Content(r) = Captured(from, n)
    BY <1>2, <1>4 DEF Content
  <1>7. ASSUME NEW i \in 1..n
        PROVE  Content(r)[i] = MessageWord(sendPos, sending, from + i - 1 - sendPos)
    <2> DEFINE j == from + i - 1 - sendPos
    <2>1. j \in 0..sending + 1 /\ sendPos + j = from + i - 1
      BY <1>1
    <2> HIDE DEF j
    <2>2. sendBuf[Slot(sendPos + j)] = MessageWord(sendPos, sending, j)
      BY <2>1 DEF BuiltInv
    <2> QED
      BY <2>1, <2>2, <1>4, <1>6 DEF j
  <1>8. Sound(r)
    <2>1. ASSUME NEW i \in 1..n, Content(r)[i] = Validity
          PROVE  from + i - 1 = sendPos + sending + 1
      <3> DEFINE j == from + i - 1 - sendPos
      <3>1. j \in 0..sending + 1
        BY <1>1
      <3>2. Content(r)[i] = MessageWord(sendPos, sending, j)
        BY <1>7
      <3> HIDE DEF j
      <3>3. j = sending + 1
        BY <1>1, <2>1, <3>1, <3>2, MessageWordFacts
      <3> QED
        BY <3>3, <1>1 DEF j
    <2>2. from = sendPos => AsSize(Content(r)[1]) = sending
      <3> SUFFICES ASSUME from = sendPos PROVE AsSize(Content(r)[1]) = sending
        OBVIOUS
      <3>1. 1 \in 1..n /\ from + 1 - 1 - sendPos = 0
        BY <1>1
      <3>2. Content(r)[1] = MessageWord(sendPos, sending, 0)
        BY <3>1, <1>7
      <3>3. MessageWord(sendPos, sending, 0) = SizeWord(sending)
        BY <1>1, MessageWordFacts
      <3> QED
        BY <3>2, <3>3, <1>1, WordFacts
    <2> QED
      BY <2>1, <2>2, <1>2, <1>3, <1>7 DEF Sound
  <1> QED
    BY <1>2, <1>3, <1>4, <1>5, <1>7, <1>8

\* The requests of a message: whole, or its data and then its size.
LEMMA MessageRequestsFacts ==
    ASSUME RingShape, BuiltInv, spc = "waitFree", NEW q, q = MessageRequests
    PROVE  /\ q \in Seq(Request) /\ Len(q) \in {1, 2}
           /\ \A j \in 1..Len(q) :
                 /\ q[j].op = "write" /\ q[j].of = ThisMessage
                 /\ q[j].words # <<>> => q[j].words \in [1..q[j].len -> AnyWord]
                 /\ AllInline => q[j].words # <<>>
                 /\ Sound(q[j]) /\ q[j].from >= sendPos
           /\ Len(q) = 1 => variant = "send" /\ IsWhole(q[1]) /\ ~IsData(q[1]) /\ ~IsSize(q[1])
           /\ Len(q) = 2 => /\ IsData(q[1]) /\ ~IsWhole(q[1]) /\ ~IsSize(q[1])
                            /\ IsSize(q[2]) /\ ~IsWhole(q[2]) /\ ~IsData(q[2])
  <1>1. sendPos \in Nat /\ sending \in Nat /\ unsignaled \in Nat /\ MaxInline \in Nat
    BY SizeAssumption, BoundsAssumption DEF RingShape
  <1>2. sending \in PayloadLens
    BY DEF BuiltInv
  <1>3. ShouldClearQueue \in BOOLEAN
    BY DEF ShouldClearQueue
  <1> DEFINE n == sending + 2
             w == WriteRequest(sendPos, n, ShouldClearQueue, n <= MaxInline, unsignaled + 1)
             d == WriteRequest(sendPos + 1, n - 1, FALSE, n - 1 <= MaxInline, 0)
             z == WriteRequest(sendPos, 1, ShouldClearQueue, TRUE, unsignaled + 2)
  <1>4. q = IF variant = "send" THEN <<w>> ELSE <<d, z>>
    BY <1>1 DEF MessageRequests, Total
  <1>5. AllInline => n <= MaxInline /\ n - 1 <= MaxInline
    BY <1>1, <1>2 DEF AllInline, Total
  <1>6. /\ n \in Nat \ {0} /\ n - 1 \in Nat \ {0} /\ sendPos + 1 \in Nat /\ 1 \in Nat \ {0}
        /\ unsignaled + 1 \in Nat /\ unsignaled + 2 \in Nat /\ 0 \in Nat
        /\ (n <= MaxInline) \in BOOLEAN /\ (n - 1 <= MaxInline) \in BOOLEAN
        /\ FALSE \in BOOLEAN /\ TRUE \in BOOLEAN
        /\ sendPos + n <= sendPos + sending + 2 /\ sendPos + 1 + (n - 1) <= sendPos + sending + 2
        /\ sendPos + 1 <= sendPos + sending + 2
    BY <1>1
  <1>7. /\ w \in Request /\ w.op = "write" /\ w.from = sendPos /\ w.len = n
        /\ w.of.at = sendPos /\ w.of.len = sending /\ w.of = ThisMessage
        /\ w.words # <<>> => w.words \in [1..n -> AnyWord]
        /\ AllInline => w.words # <<>>
        /\ Sound(w)
    <2> DEFINE from == sendPos
               m == n
               signaled == ShouldClearQueue
               inline == n <= MaxInline
               frees == unsignaled + 1
    <2>1. w = WriteRequest(from, m, signaled, inline, frees)
      OBVIOUS
    <2>2. /\ from \in Nat /\ m \in Nat \ {0} /\ signaled \in BOOLEAN /\ inline \in BOOLEAN
          /\ frees \in Nat /\ sendPos <= from /\ from + m <= sendPos + sending + 2
      BY <1>1, <1>3, <1>6
    <2> HIDE DEF from, m, signaled, inline, frees, w
    <2>3. /\ w \in Request /\ w.op = "write" /\ w.from = from /\ w.len = m
          /\ w.of.at = sendPos /\ w.of.len = sending /\ w.of = ThisMessage
          /\ w.words # <<>> => w.words \in [1..m -> AnyWord]
          /\ inline => w.words # <<>>
          /\ \A i \in 1..m : Content(w)[i] = MessageWord(sendPos, sending, from + i - 1 - sendPos)
          /\ Sound(w)
      BY <2>1, <2>2, WriteFacts
    <2> QED
      BY <2>3, <1>5 DEF from, m, inline
  <1>8. /\ d \in Request /\ d.op = "write" /\ d.from = sendPos + 1 /\ d.len = n - 1
        /\ d.of.at = sendPos /\ d.of.len = sending /\ d.of = ThisMessage
        /\ d.words # <<>> => d.words \in [1..n - 1 -> AnyWord]
        /\ AllInline => d.words # <<>>
        /\ Sound(d)
    <2> DEFINE from == sendPos + 1
               m == n - 1
               signaled == FALSE
               inline == n - 1 <= MaxInline
               frees == 0
    <2>1. d = WriteRequest(from, m, signaled, inline, frees)
      OBVIOUS
    <2>2. /\ from \in Nat /\ m \in Nat \ {0} /\ signaled \in BOOLEAN /\ inline \in BOOLEAN
          /\ frees \in Nat /\ sendPos <= from /\ from + m <= sendPos + sending + 2
      BY <1>1, <1>3, <1>6
    <2> HIDE DEF from, m, signaled, inline, frees, d
    <2>3. /\ d \in Request /\ d.op = "write" /\ d.from = from /\ d.len = m
          /\ d.of.at = sendPos /\ d.of.len = sending /\ d.of = ThisMessage
          /\ d.words # <<>> => d.words \in [1..m -> AnyWord]
          /\ inline => d.words # <<>>
          /\ \A i \in 1..m : Content(d)[i] = MessageWord(sendPos, sending, from + i - 1 - sendPos)
          /\ Sound(d)
      BY <2>1, <2>2, WriteFacts
    <2> QED
      BY <2>3, <1>5 DEF from, m, inline
  <1>9. /\ z \in Request /\ z.op = "write" /\ z.from = sendPos /\ z.len = 1
        /\ z.of.at = sendPos /\ z.of.len = sending /\ z.of = ThisMessage
        /\ z.words # <<>> => z.words \in [1..1 -> AnyWord]
        /\ z.words # <<>>
        /\ \A i \in 1..1 : Content(z)[i] = MessageWord(sendPos, sending, sendPos + i - 1 - sendPos)
        /\ Sound(z)
    <2> DEFINE from == sendPos
               m == 1
               signaled == ShouldClearQueue
               inline == TRUE
               frees == unsignaled + 2
    <2>1. z = WriteRequest(from, m, signaled, inline, frees)
      OBVIOUS
    <2>2. /\ from \in Nat /\ m \in Nat \ {0} /\ signaled \in BOOLEAN /\ inline \in BOOLEAN
          /\ frees \in Nat /\ sendPos <= from /\ from + m <= sendPos + sending + 2
      BY <1>1, <1>3, <1>6
    <2> HIDE DEF from, m, signaled, inline, frees, z
    <2>3. /\ z \in Request /\ z.op = "write" /\ z.from = from /\ z.len = m
          /\ z.of.at = sendPos /\ z.of.len = sending /\ z.of = ThisMessage
          /\ z.words # <<>> => z.words \in [1..m -> AnyWord]
          /\ inline => z.words # <<>>
          /\ \A i \in 1..m : Content(z)[i] = MessageWord(sendPos, sending, from + i - 1 - sendPos)
          /\ Sound(z)
      BY <2>1, <2>2, WriteFacts
    <2> QED
      BY <2>3, <1>1 DEF from, m, inline
  <1> HIDE DEF w, d, z
  <1>10. z.words[1] = SizeWord(sending)
    <2>1. z.words[1] = MessageWord(sendPos, sending, 0)
      BY <1>1, <1>9 DEF Content
    <2> QED
      BY <2>1, <1>1, MessageWordFacts
  <1>11. CASE variant = "send"
    <2>1. q = <<w>> /\ q \in Seq(Request) /\ Len(q) = 1 /\ q[1] = w
      BY <1>4, <1>7, <1>11
    <2>2. IsWhole(w) /\ ~IsData(w) /\ ~IsSize(w)
      BY <1>1, <1>7 DEF IsWhole, IsData, IsSize, Total
    <2> QED
      BY <2>1, <2>2, <1>1, <1>7, <1>11
  <1>12. CASE variant # "send"
    <2>1. q = <<d, z>> /\ q \in Seq(Request) /\ Len(q) = 2 /\ q[1] = d /\ q[2] = z
      BY <1>4, <1>8, <1>9, <1>12
    <2>2. IsData(d) /\ ~IsWhole(d) /\ ~IsSize(d)
      BY <1>1, <1>8 DEF IsWhole, IsData, IsSize, Total
    <2>3. IsSize(z) /\ ~IsWhole(z) /\ ~IsData(z)
      BY <1>1, <1>9, <1>10 DEF IsWhole, IsData, IsSize, Total
    <2>4. ASSUME NEW j \in 1..Len(q)
          PROVE  /\ q[j].op = "write" /\ q[j].of = ThisMessage
                 /\ q[j].words # <<>> => q[j].words \in [1..q[j].len -> AnyWord]
                 /\ AllInline => q[j].words # <<>>
                 /\ Sound(q[j]) /\ q[j].from >= sendPos
      <3>1. q[j] = d \/ q[j] = z
        BY <2>1
      <3>2. CASE q[j] = d
        <4>1. sendPos + 1 >= sendPos
          BY <1>1
        <4> QED
          BY <3>2, <4>1, <1>8
      <3>3. CASE q[j] = z
        <4>1. sendPos >= sendPos
          BY <1>1
        <4> QED
          BY <3>3, <4>1, <1>9
      <3> QED
        BY <3>1, <3>2, <3>3
    <2> QED
      BY <2>1, <2>2, <2>3, <2>4
  <1> QED
    BY <1>11, <1>12

\* A message that is posted has room: its cells are zero.
LEMMA PostMessageStep ==
    ASSUME RingInv, PostMessage
    PROVE  RingInv'
  <1> DEFINE q == MessageRequests
             m == ThisMessage
             N == Len(sq)
             X == Len(outbox)
  <1>1. /\ UNCHANGED <<placed, receiveBuf, localReadPos, sendBuf, variant, rpc, receiveSize,
                       remoteReadPos>>
        /\ spc = "waitFree" /\ Total(sending) <= SafeToWrite
        /\ sq' = sq \o q /\ outbox' = Append(outbox, m)
        /\ unsignaled' = IF ShouldClearQueue THEN 0 ELSE unsignaled + Len(q)
        /\ \/ spc' = "getEvent" /\ sendPos' = sendPos /\ sending' = sending
           \/ spc' = "idle" /\ sendPos' = sendPos + Total(sending) /\ sending' = 0
    BY DEF PostMessage, SendDone, receiverVars
  <1>0. /\ spc = "waitFree" /\ Total(sending) <= SafeToWrite
        /\ \/ spc' = "getEvent" /\ sendPos' = sendPos /\ sending' = sending
           \/ spc' = "idle" /\ sendPos' = sendPos + Total(sending) /\ sending' = 0
    BY <1>1
  <1>2. /\ RingShape /\ PositionInv /\ BuiltInv /\ OutboxInv /\ RequestInv /\ PlacedInv /\ FreeInv
        /\ MessageInv /\ ReceiverInv
    BY DEF RingInv
  <1>3. /\ sendPos \in Nat /\ sending \in Nat /\ sending \in 0..Size - 2 /\ Size \in Nat
        /\ localReadPos \in Nat /\ remoteReadPos \in Nat /\ unsignaled \in Nat
        /\ sq \in Seq(Request) /\ N \in Nat
    BY <1>2, SizeAssumption DEF RingShape
  <1>4. PostedEnd = sendPos /\ PostedEnd' = sendPos + sending + 2
    BY <1>0, <1>3 DEF PostedEnd, Total
  <1>5. /\ Accepted' = Accepted /\ Wiped' = Wiped /\ Accepted \in Nat /\ Wiped \in Nat
        /\ localReadPos <= Wiped /\ Accepted <= sendPos /\ Wiped <= sendPos
    BY <1>1, <1>2, <1>4, PositionFacts DEF Accepted, Wiped
  <1>6. localReadPos <= sendPos /\ sendPos + sending + 2 <= localReadPos + Size
    <2>1. remoteReadPos <= localReadPos /\ localReadPos <= PostedEnd
      BY <1>2 DEF PositionInv
    <2>2. sending + 2 <= Size - (sendPos - remoteReadPos)
      BY <1>0, <1>3 DEF SafeToWrite, Total
    <2> QED
      BY <2>1, <2>2, <1>3, <1>4
  <1>7. m \in Message /\ m.at = sendPos /\ m.len = sending /\ EndOf(m) = sendPos + sending + 2
    BY <1>3 DEF ThisMessage, Message, EndOf, Total
  <1>8. /\ q \in Seq(Request) /\ Len(q) \in {1, 2}
        /\ \A j \in 1..Len(q) :
              /\ q[j].op = "write" /\ q[j].of = m
              /\ q[j].words # <<>> => q[j].words \in [1..q[j].len -> AnyWord]
              /\ AllInline => q[j].words # <<>>
              /\ Sound(q[j]) /\ q[j].from >= sendPos
        /\ Len(q) = 1 => variant = "send" /\ IsWhole(q[1]) /\ ~IsData(q[1]) /\ ~IsSize(q[1])
        /\ Len(q) = 2 => /\ IsData(q[1]) /\ ~IsWhole(q[1]) /\ ~IsSize(q[1])
                         /\ IsSize(q[2]) /\ ~IsWhole(q[2]) /\ ~IsData(q[2])
    BY <1>1, <1>2, MessageRequestsFacts
  <1> HIDE DEF q, m
  <1>9. /\ outbox \in Seq(Message) /\ X \in Nat /\ outbox' \in Seq(Message)
        /\ Len(outbox') = X + 1 /\ outbox'[X + 1] = m
        /\ \A x \in 1..X : outbox'[x] = outbox[x]
    <2>1. outbox \in Seq(Message)
      BY <1>2 DEF OutboxInv
    <2> QED
      BY <2>1, <1>1, <1>7
  <1>10. /\ sq' \in Seq(Request) /\ Len(sq') = N + Len(q)
         /\ \A k \in 1..N : sq'[k] = sq[k]
         /\ \A k \in 1..Len(sq') : k > N => k - N \in 1..Len(q) /\ sq'[k] = q[k - N]
    BY <1>1, <1>3, <1>8, ConcatProperties
  <1> DEFINE L == Len(q)
  <1>11. L \in {1, 2} /\ Len(sq') = N + L
    BY <1>8, <1>10
  <1>12. /\ \A k \in Writes : /\ k \in Writes'
                              /\ KindInv(k)' /\ DataInv(k)' /\ LeftInv(k)' /\ SentInv(k)' /\ OrderInv(k)'
         /\ \A k \in Writes' : k <= N => k \in Writes
         /\ PlacedInv'
    <2>1. Len(sq') \in Nat /\ N <= Len(sq') /\ X + 1 \in Nat /\ X <= X + 1
      BY <1>3, <1>9, <1>11
    <2>2. PostedEnd' \in Nat /\ PostedEnd <= PostedEnd'
      BY <1>3, <1>4
    <2>3. \A k \in 1..N : sq'[k].op = sq[k].op
      BY <1>10
    <2>4. \A k \in Writes : sq'[k] = sq[k]
      BY <1>10 DEF Writes
    <2> QED
      BY <2>1, <2>2, <2>3, <2>4, <1>1, <1>5, <1>9, Posting
  <1>13. ASSUME NEW k \in Writes', k > N
         PROVE  k - N \in 1..L /\ sq'[k] = q[k - N] /\ k \in 1..N + L
    BY <1>10, <1>11, <1>13 DEF Writes
  <1>14. \A j \in 1..L : N + j \in Writes' /\ sq'[N + j] = q[j]
    <2> SUFFICES ASSUME NEW j \in 1..L PROVE N + j \in Writes' /\ sq'[N + j] = q[j]
      OBVIOUS
    <2>1. N + j \in 1..Len(sq') /\ N + j > N /\ (N + j) - N = j
      BY <1>3, <1>11
    <2>2. sq'[N + j] = q[j]
      BY <2>1, <1>10
    <2> QED
      BY <2>1, <2>2, <1>8 DEF Writes
  <1>15. ASSUME NEW k \in Writes', k > N
         PROVE  KindInv(k)' /\ DataInv(k)' /\ LeftInv(k)' /\ SentInv(k)' /\ OrderInv(k)'
    <2> DEFINE j == k - N
    <2>1. j \in 1..L /\ sq'[k] = q[j] /\ k = N + j
      BY <1>3, <1>13, <1>15
    <2> HIDE DEF j
    <2>2. /\ q[j].op = "write" /\ q[j].of = m /\ Sound(q[j])
          /\ q[j].words # <<>> => q[j].words \in [1..q[j].len -> AnyWord]
          /\ AllInline => q[j].words # <<>>
      BY <2>1, <1>8
    <2>3. DataInv(k)'
      BY <2>1, <2>2, <1>1, Soundness DEF DataInv
    <2>4. LeftInv(k)'
      BY <2>1, <2>2, <1>3, <1>5, <1>7 DEF LeftInv
    <2>5. SentInv(k)'
      <3>1. X + 1 \in 1..Len(outbox') /\ outbox'[X + 1] = sq'[k].of
        BY <2>1, <2>2, <1>9
      <3> QED
        BY <3>1 DEF SentInv
    <2>6. OrderInv(k)'
      <3> SUFFICES ASSUME NEW i \in Writes', i < k
                   PROVE  \/ sq'[i].of = sq'[k].of /\ IsData(sq'[i]) /\ IsSize(sq'[k])
                          \/ EndOf(sq'[i].of) <= sq'[k].of.at
        BY DEF OrderInv
      <3>1. CASE i > N
        <4>0. i - N \in 1..L /\ sq'[i] = q[i - N] /\ i \in 1..N + L
          BY <3>1, <1>13
        <4>1. i - N \in 1..L /\ sq'[i] = q[i - N] /\ sq'[i].of = m /\ i \in Nat
          BY <4>0, <1>3, <1>8, <1>11
        <4>2. L = 2 /\ i - N = 1 /\ j = 2
          BY <4>1, <2>1, <3>1, <1>3, <1>11
        <4>3. IsData(q[1]) /\ IsSize(q[2])
          BY <4>2, <1>8
        <4> QED
          BY <4>1, <4>2, <4>3, <2>1, <2>2
      <3>2. CASE ~(i > N)
        <4>1. i \in Writes /\ i \in 1..N
          BY <3>2, <1>3, <1>12 DEF Writes
        <4>2. sq'[i] = sq[i] /\ KindInv(i)
          BY <4>1, <1>2, <1>10 DEF RequestInv
        <4>3. EndOf(sq[i].of) <= PostedEnd
          BY <4>1, <4>2, <1>2, RequestFacts
        <4> QED
          BY <4>2, <4>3, <1>4, <1>7, <2>1, <2>2
      <3> QED
        BY <3>1, <3>2
    <2>7. KindInv(k)'
      <3>1. /\ sq'[k].of.len \in 0..Size - 2 /\ EndOf(sq'[k].of) <= PostedEnd'
        BY <2>1, <2>2, <1>3, <1>4, <1>7
      <3>2. CASE L = 1
        <4>1. j = 1 /\ IsWhole(sq'[k]) /\ ~IsData(sq'[k]) /\ ~IsSize(sq'[k]) /\ variant' = "send"
          BY <2>1, <3>2, <1>1, <1>8
        <4> QED
          BY <3>1, <4>1 DEF KindInv
      <3>3. CASE L = 2 /\ j = 1
        <4>1. IsData(sq'[k]) /\ ~IsWhole(sq'[k]) /\ ~IsSize(sq'[k])
          BY <2>1, <3>3, <1>8
        <4>2. N + 2 \in Writes' /\ sq'[N + 2] = q[2] /\ N + 2 = k + 1 /\ q[2].of = m
          BY <2>1, <3>3, <1>3, <1>8, <1>14
        <4>3. k + 1 \in Writes' /\ IsSize(sq'[k + 1]) /\ sq'[k + 1].of = sq'[k].of
          BY <4>2, <3>3, <1>8, <2>1, <2>2
        <4> QED
          BY <3>1, <4>1, <4>3 DEF KindInv
      <3>4. CASE L = 2 /\ j = 2
        <4>1. IsSize(sq'[k]) /\ ~IsWhole(sq'[k]) /\ ~IsData(sq'[k])
          BY <2>1, <3>4, <1>8
        <4> QED
          BY <3>1, <4>1 DEF KindInv
      <3> QED
        BY <3>2, <3>3, <3>4, <2>1, <1>11
    <2> QED
      BY <2>3, <2>4, <2>5, <2>6, <2>7
  <1>16. RequestInv'
    <2> SUFFICES ASSUME NEW k \in Writes'
                 PROVE  KindInv(k)' /\ DataInv(k)' /\ LeftInv(k)' /\ SentInv(k)' /\ OrderInv(k)'
      BY DEF RequestInv
    <2>1. k \in Nat
      BY DEF Writes
    <2> QED
      BY <2>1, <1>3, <1>12, <1>15
  <1>17. \A p \in Nat : p < sendPos => (Unplaced(p)' <=> Unplaced(p))
    <2> SUFFICES ASSUME NEW p \in Nat, p < sendPos PROVE Unplaced(p)' <=> Unplaced(p)
      OBVIOUS
    <2>1. ASSUME NEW k \in Writes
          PROVE  Covers(k, p)' = Covers(k, p) /\ InPlace(k, p)' = InPlace(k, p) /\ k \in Writes'
      <3>1. sq'[k] = sq[k] /\ k \in Writes'
        BY <1>10, <1>12 DEF Writes
      <3> QED
        BY <3>1, <1>1 DEF Covers, InPlace
    <2>2. ASSUME NEW k \in Writes', Covers(k, p)'
          PROVE  k \in Writes
      <3>1. CASE k > N
        <4>0. sq'[k] \in Request
          BY <1>10 DEF Writes
        <4>1. sq'[k].from >= sendPos /\ sq'[k].from \in Nat
          BY <3>1, <4>0, <1>8, <1>13 DEF Request
        <4>2. sq'[k].from <= p
          BY <2>2 DEF Covers
        <4> QED
          BY <4>1, <4>2, <1>3
      <3>2. CASE ~(k > N)
        BY <3>2, <1>3, <1>12 DEF Writes
      <3> QED
        BY <3>1, <3>2
    <2> QED
      BY <2>1, <2>2 DEF Unplaced
  <1>18. FreeInv'
    <2> SUFFICES ASSUME NEW p \in localReadPos..localReadPos + Size - 1,
                        p < Wiped \/ p >= PostedEnd' \/ Unplaced(p)'
                 PROVE  receiveBuf[Slot(p)] = Zero
      BY <1>1, <1>5 DEF FreeInv
    <2>1. p \in Nat
      BY <1>3
    <2>2. p < Wiped \/ p >= PostedEnd \/ Unplaced(p)
      BY <2>1, <1>3, <1>4, <1>17
    <2> QED
      BY <2>2, <1>2 DEF FreeInv
  <1>19. OutboxInv'
    <2>1. \A x \in 1..X + 1 : x \in 1..X \/ x = X + 1
      BY <1>9
    <2>2. X # 0 => X \in 1..X /\ outbox # <<>> /\ EndOf(outbox[X]) = sendPos
      BY <1>2, <1>4, <1>9 DEF OutboxInv
    <2>3. outbox'[1].at = localReadPos
      <3>1. CASE X = 0
        BY <3>1, <1>2, <1>4, <1>7, <1>9 DEF OutboxInv
      <3>2. CASE X # 0
        BY <3>2, <1>2, <1>9 DEF OutboxInv
      <3> QED
        BY <3>1, <3>2
    <2>4. \A x \in 1..X : EndOf(outbox'[x]) = outbox'[x + 1].at
      <3> SUFFICES ASSUME NEW x \in 1..X PROVE EndOf(outbox'[x]) = outbox'[x + 1].at
        OBVIOUS
      <3>1. CASE x = X
        BY <3>1, <2>2, <1>7, <1>9
      <3>2. CASE x # X
        BY <3>2, <1>2, <1>9 DEF OutboxInv
      <3> QED
        BY <3>1, <3>2
    <2>5. \A x, y \in 1..X + 1 : x < y => EndOf(outbox'[x]) <= outbox'[y].at
      <3> SUFFICES ASSUME NEW x \in 1..X + 1, NEW y \in 1..X + 1, x < y
                   PROVE  EndOf(outbox'[x]) <= outbox'[y].at
        OBVIOUS
      <3>1. x \in 1..X /\ outbox'[x] = outbox[x]
        BY <1>9
      <3>2. CASE y = X + 1
        <4>1. EndOf(outbox[x]) <= PostedEnd
          BY <3>1, <1>2, OutboxFacts
        <4> QED
          BY <4>1, <3>1, <3>2, <1>4, <1>7, <1>9
      <3>3. CASE y \in 1..X
        BY <3>1, <3>3, <1>2, <1>9 DEF OutboxInv
      <3> QED
        BY <3>2, <3>3, <2>1
    <2>6. outbox' # <<>> /\ EndOf(outbox'[X + 1]) = PostedEnd' /\ X + 1 - 1 = X
      BY <1>4, <1>7, <1>9
    <2> HIDE DEF X
    <2> QED
      BY <2>3, <2>4, <2>5, <2>6, <1>1, <1>9 DEF OutboxInv, EndOf
  <1>20. MessageInv'
    <2> SUFFICES ASSUME NEW x \in 1..X + 1, outbox'[x].at >= Wiped
                 PROVE  SeenInv(outbox[x])'
      BY <1>5, <1>9 DEF MessageInv
    <2>1. CASE x = X + 1
      <3>1. \A i \in 0..sending + 1 : receiveBuf[Slot(sendPos + i)] = Zero
        <4> SUFFICES ASSUME NEW i \in 0..sending + 1 PROVE receiveBuf[Slot(sendPos + i)] = Zero
          OBVIOUS
        <4>1. sendPos + i \in localReadPos..localReadPos + Size - 1 /\ sendPos + i >= PostedEnd
          BY <1>3, <1>4, <1>6
        <4> QED
          BY <4>1, <1>2 DEF FreeInv
      <3>2. outbox'[x] = m
        BY <2>1, <1>9
      <3>3. \A i \in 0..sending + 1 : Seen(outbox[x], i)' = Zero
        BY <3>1, <3>2, <1>1, <1>7 DEF Seen
      <3>4. 0 \in 0..sending + 1 /\ sending + 1 \in 0..sending + 1 /\ \A i \in 0..sending : i \in 0..sending + 1
        BY <1>3
      <3> QED
        BY <3>2, <3>3, <3>4, <1>7, WordFacts DEF SeenInv
    <2>2. CASE x \in 1..X
      <3>1. outbox'[x] = outbox[x] /\ SeenInv(outbox[x])
        BY <2>2, <1>2, <1>9 DEF MessageInv
      <3>2. /\ outbox[x].at \in Nat /\ outbox[x].len \in Nat
            /\ outbox[x].at + outbox[x].len + 2 <= sendPos
        BY <2>2, <1>2, <1>4, OutboxFacts
      <3>3. DataPlaced(outbox[x])' <=> DataPlaced(outbox[x])
        <4>1. \A i \in 1..outbox[x].len : outbox[x].at + i \in Nat /\ outbox[x].at + i < sendPos
          BY <3>2, <1>3
        <4> QED
          BY <4>1, <3>1, <1>17 DEF DataPlaced
      <3>4. \A i : Seen(outbox[x], i)' = Seen(outbox[x], i)
        BY <3>1, <1>1 DEF Seen
      <3> QED
        BY <3>1, <3>3, <3>4 DEF SeenInv
    <2> QED
      BY <2>1, <2>2, <1>9
  <1>21. RingShape'
    <2>1. sendPos' \in Nat /\ sending' \in 0..Size - 2 /\ unsignaled' \in Nat
      BY <1>1, <1>3, <1>11, SizeAssumption DEF Total
    <2> QED
      BY <2>1, <1>1, <1>2, <1>10 DEF RingShape
  <1>22. PositionInv'
    <2>1. \A k \in 1..Len(sq') : sq'[k].op = "read" /\ sq'[k].words # <<>> =>
              sq'[k].words[1] \in Nat /\ sq'[k].words[1] <= localReadPos
      <3> SUFFICES ASSUME NEW k \in 1..Len(sq'), sq'[k].op = "read", sq'[k].words # <<>>
                   PROVE  sq'[k].words[1] \in Nat /\ sq'[k].words[1] <= localReadPos
        OBVIOUS
      <3>1. CASE k > N
        BY <3>1, <1>8, <1>10
      <3>2. CASE ~(k > N)
        BY <3>2, <1>2, <1>3, <1>10 DEF PositionInv
      <3> QED
        BY <3>1, <3>2
    <2> QED
      BY <2>1, <1>1, <1>2, <1>3, <1>4, <1>6 DEF PositionInv
  <1>23. BuiltInv'
    BY <1>1 DEF BuiltInv
  <1>24. ReceiverInv'
    <2>1. outbox # <<>> => outbox' # <<>> /\ outbox'[1] = outbox[1]
      BY <1>9
    <2> QED
      BY <2>1, <1>1, <1>2 DEF ReceiverInv
  <1> QED
    BY <1>12, <1>16, <1>18, <1>19, <1>20, <1>21, <1>22, <1>23, <1>24 DEF RingInv

-----------------------------------------------------------------------------
(* The steps of the adapter                                                 *)

\* Fetch and SampleReadPos set the words of the oldest request only.
LEMMA WordsSet ==
    ASSUME sq \in Seq(Request), sq # <<>>, NEW w \in Seq(AnyWord) \cup Seq(Nat),
           sq' = [sq EXCEPT ![1].words = w]
    PROVE  /\ sq' \in Seq(Request) /\ Len(sq') = Len(sq) /\ 1 \in 1..Len(sq)
           /\ \A k \in 1..Len(sq) : k # 1 => sq'[k] = sq[k]
           /\ sq'[1].words = w /\ sq'[1].op = sq[1].op /\ sq'[1].from = sq[1].from
           /\ sq'[1].len = sq[1].len /\ sq'[1].of = sq[1].of
           /\ sq'[1].signaled = sq[1].signaled /\ sq'[1].frees = sq[1].frees
  <1>1. sq \in Seq(Request) /\ 1 \in 1..Len(sq) /\ sq[1] \in Request
    OBVIOUS
  <1> DEFINE r == [sq[1] EXCEPT !.words = w]
  <1>2. r \in Request
    BY <1>1 DEF Request
  <1>3. /\ r.words = w /\ r.op = sq[1].op /\ r.from = sq[1].from
        /\ r.len = sq[1].len /\ r.of = sq[1].of
        /\ r.signaled = sq[1].signaled /\ r.frees = sq[1].frees
    BY <1>1 DEF Request
  <1>4. sq' = [sq EXCEPT ![1] = r]
    OBVIOUS
  <1> HIDE DEF r
  <1>5. /\ sq' \in Seq(Request) /\ Len(sq') = Len(sq) /\ sq'[1] = r
        /\ \A k \in 1..Len(sq) : k # 1 => sq'[k] = sq[k]
    BY <1>1, <1>2, <1>4
  <1> QED
    BY <1>1, <1>3, <1>5

\* A write's words are fetched: they are the ones it was going to carry.
LEMMA FetchStep ==
    ASSUME RingInv, Fetch
    PROVE  RingInv'
  <1> DEFINE w == Captured(sq[1].from, sq[1].len)
  <1>1. /\ UNCHANGED <<placed, receiveBuf, localReadPos, outbox, sendBuf, variant, sendPos,
                       sending, spc, rpc, receiveSize, remoteReadPos, unsignaled>>
        /\ sq # <<>> /\ sq[1].op = "write" /\ sq[1].words = <<>>
        /\ sq' = [sq EXCEPT ![1].words = w]
    <2>1. Oldest = sq[1]
      BY DEF Oldest
    <2>2. /\ UNCHANGED <<placed, receiveBuf, localReadPos, outbox, sendBuf, variant, sendPos,
                       sending, spc, rpc, receiveSize, remoteReadPos, unsignaled>>
          /\ sq # <<>> /\ Oldest.op = "write" /\ Oldest.words = <<>>
          /\ sq' = [sq EXCEPT ![1].words = Captured(Oldest.from, Oldest.len)]
      BY DEF Fetch, senderVars, receiverVars
    <2> QED
      BY <2>1, <2>2
  <1>2. /\ RingShape /\ PositionInv /\ BuiltInv /\ OutboxInv /\ RequestInv /\ PlacedInv /\ FreeInv
        /\ MessageInv /\ ReceiverInv
    BY DEF RingInv
  <1>3. PostedEnd' = PostedEnd /\ Accepted' = Accepted /\ Wiped' = Wiped
    BY <1>1 DEF PostedEnd, Accepted, Wiped
  <1>4. sq \in Seq(Request) /\ 1 \in Writes
    <2>1. sq \in Seq(Request) /\ 1 \in 1..Len(sq)
      BY <1>1, <1>2 DEF RingShape
    <2> QED
      BY <2>1, <1>1 DEF Writes
  <1>5. KindInv(1) /\ DataInv(1) /\ SentInv(1) /\ OrderInv(1)
    BY <1>2, <1>4 DEF RequestInv
  <1>6. /\ sq[1].from \in Nat /\ sq[1].len \in Nat \ {0}
        /\ sq[1].of.at \in Nat /\ sq[1].of.len \in Nat
    <2>1. sq[1].of.len \in 0..Size - 2 /\ Size \in Nat
      BY <1>2, <1>4, <1>5, RequestFacts, SizeAssumption
    <2> QED
      BY <2>1, <1>2, <1>4, <1>5, RequestFacts
  <1>7. sq[1].of.at >= Accepted /\ (IsWhole(sq[1]) \/ IsData(sq[1])) /\ ~IsSize(sq[1])
    BY <1>1, <1>4, Unfetched DEF IsSize
  <1>8. w \in [1..sq[1].len -> AnyWord] /\ w \in Seq(AnyWord) /\ w # <<>>
    BY <1>2, <1>6, CapturedFacts DEF RingShape
  <1>9. w = Content(sq[1])
    BY <1>1 DEF Content
  <1> HIDE DEF w
  <1>10. /\ sq' \in Seq(Request) /\ Len(sq') = Len(sq)
         /\ \A k \in 1..Len(sq) : k # 1 => sq'[k] = sq[k]
         /\ sq'[1].words = w /\ sq'[1].op = sq[1].op /\ sq'[1].from = sq[1].from
         /\ sq'[1].len = sq[1].len /\ sq'[1].of = sq[1].of
    BY <1>1, <1>4, <1>8, WordsSet
  <1>11. Writes' = Writes
    BY <1>10 DEF Writes
  <1>12. \A k \in Writes : /\ sq'[k].from = sq[k].from /\ sq'[k].len = sq[k].len
                           /\ sq'[k].of = sq[k].of /\ (k # 1 => sq'[k] = sq[k])
    BY <1>10 DEF Writes
  <1>13. \A k \in Writes : /\ IsWhole(sq'[k]) <=> IsWhole(sq[k])
                           /\ IsData(sq'[k]) <=> IsData(sq[k])
                           /\ IsSize(sq'[k]) <=> IsSize(sq[k])
    <2>1. \A k \in Writes : /\ IsWhole(sq'[k]) <=> IsWhole(sq[k])
                            /\ IsData(sq'[k]) <=> IsData(sq[k])
      BY <1>12 DEF IsWhole, IsData
    <2>2. ~IsSize(sq'[1])
      BY <1>6, <1>7, <1>10 DEF IsWhole, IsData, IsSize, Total
    <2> QED
      BY <2>1, <2>2, <1>7, <1>12
  <1>14. \A p : Unplaced(p)' <=> Unplaced(p)
    BY <1>1, <1>11, <1>12 DEF Unplaced, Covers, InPlace
  <1>15. Content(sq[1])' = w
    BY <1>8, <1>10 DEF Content
  <1>16. RequestInv'
    <2> SUFFICES ASSUME NEW k \in Writes
                 PROVE  KindInv(k)' /\ DataInv(k)' /\ LeftInv(k)' /\ SentInv(k)' /\ OrderInv(k)'
      BY <1>11 DEF RequestInv
    <2>1. KindInv(k) /\ DataInv(k) /\ LeftInv(k) /\ SentInv(k) /\ OrderInv(k)
      BY <1>2 DEF RequestInv
    <2>2. KindInv(k)'
      BY <2>1, <1>1, <1>3, <1>11, <1>12, <1>13 DEF KindInv
    <2>3. SentInv(k)'
      BY <2>1, <1>1, <1>12 DEF SentInv
    <2>4. OrderInv(k)'
      BY <2>1, <1>11, <1>12, <1>13 DEF OrderInv
    <2>5. DataInv(k)' /\ LeftInv(k)'
      <3>1. CASE k = 1
        <4>1. Sound(sq[1])'
          BY <1>5, <1>9, <1>10, <1>15 DEF DataInv, Sound
        <4>2. Accepted \in Nat
          BY <1>2, PositionFacts
        <4> QED
          BY <3>1, <4>1, <4>2, <1>3, <1>6, <1>7, <1>8, <1>10 DEF DataInv, LeftInv
      <3>2. CASE k # 1
        <4>1. sq'[k] = sq[k]
          BY <3>2, <1>12
        <4>2. DataInv(k)'
          BY <4>1, <2>1, <1>1, Soundness DEF DataInv
        <4> QED
          BY <4>1, <4>2, <2>1, <1>1, <1>3 DEF LeftInv
      <3> QED
        BY <3>1, <3>2
    <2> QED
      BY <2>2, <2>3, <2>4, <2>5
  <1>17. PlacedInv'
    <2>1. placed = {}
      BY <1>1, <1>2, <1>4 DEF PlacedInv
    <2> QED
      BY <2>1, <1>1, <1>11, <1>4 DEF PlacedInv
  <1>18. OutboxInv'
    BY <1>1, <1>2, <1>3, SameOutbox
  <1>19. FreeInv'
    BY <1>1, <1>2, <1>3, <1>14 DEF FreeInv
  <1>20. MessageInv'
    BY <1>1, <1>2, <1>3, <1>14 DEF MessageInv, SeenInv, Seen, DataPlaced
  <1>21. RingShape'
    BY <1>1, <1>2, <1>10 DEF RingShape
  <1>22. PositionInv'
    <2>1. \A k \in 1..Len(sq') : sq'[k].op = "read" /\ sq'[k].words # <<>> =>
              sq'[k].words[1] \in Nat /\ sq'[k].words[1] <= localReadPos
      BY <1>1, <1>2, <1>10 DEF PositionInv
    <2> QED
      BY <2>1, <1>1, <1>2, <1>3 DEF PositionInv
  <1>23. BuiltInv' /\ ReceiverInv'
    BY <1>1, <1>2 DEF BuiltInv, ReceiverInv
  <1> QED
    BY <1>16, <1>17, <1>18, <1>19, <1>20, <1>21, <1>22, <1>23 DEF RingInv

\* A READ sees where the receiver is now.
LEMMA SampleStep ==
    ASSUME RingInv, SampleReadPos
    PROVE  RingInv'
  <1> DEFINE w == <<localReadPos>>
  <1>1. /\ UNCHANGED <<placed, receiveBuf, localReadPos, outbox, sendBuf, variant, sendPos,
                       sending, spc, rpc, receiveSize, remoteReadPos, unsignaled>>
        /\ sq # <<>> /\ sq[1].op = "read" /\ sq[1].words = <<>>
        /\ sq' = [sq EXCEPT ![1].words = w]
    BY DEF SampleReadPos, Oldest, senderVars, receiverVars
  <1>2. /\ RingShape /\ PositionInv /\ BuiltInv /\ OutboxInv /\ RequestInv /\ PlacedInv /\ FreeInv
        /\ MessageInv /\ ReceiverInv
    BY DEF RingInv
  <1>3. PostedEnd' = PostedEnd /\ Accepted' = Accepted /\ Wiped' = Wiped /\ PostedEnd \in Nat
    BY <1>1, <1>2, PositionFacts DEF PostedEnd, Accepted, Wiped
  <1>4. w \in Seq(Nat) /\ w[1] = localReadPos /\ localReadPos \in Nat
    BY <1>2 DEF RingShape
  <1> HIDE DEF w
  <1>5. /\ sq' \in Seq(Request) /\ Len(sq') = Len(sq) /\ 1 \in 1..Len(sq)
        /\ \A k \in 1..Len(sq) : k # 1 => sq'[k] = sq[k]
        /\ sq'[1].words = w /\ sq'[1].op = sq[1].op
    BY <1>1, <1>2, <1>4, WordsSet DEF RingShape
  <1>6. \A k \in 1..Len(sq) : sq'[k].op = sq[k].op
    BY <1>5
  <1>7. \A k \in Writes : sq'[k] = sq[k]
    BY <1>1, <1>5 DEF Writes
  <1>8. Writes' = Writes
    BY <1>5, <1>6 DEF Writes
  <1>9. /\ \A k \in Writes : /\ k \in Writes'
                             /\ KindInv(k)' /\ DataInv(k)' /\ LeftInv(k)' /\ SentInv(k)' /\ OrderInv(k)'
        /\ PlacedInv'
    <2>1. sq \in Seq(Request) /\ outbox \in Seq(Message)
      BY <1>2 DEF RingShape, OutboxInv
    <2>2. Len(sq) \in Nat /\ Len(outbox) \in Nat /\ Len(sq) <= Len(sq') /\ Len(outbox) <= Len(outbox)
      BY <2>1, <1>5
    <2> QED
      BY <2>2, <1>1, <1>3, <1>5, <1>6, <1>7, Posting
  <1>10. RequestInv'
    BY <1>8, <1>9 DEF RequestInv
  <1>11. \A p : Unplaced(p)' <=> Unplaced(p)
    BY <1>1, <1>7, <1>8 DEF Unplaced, Covers, InPlace
  <1>12. OutboxInv'
    BY <1>1, <1>2, <1>3, SameOutbox
  <1>13. FreeInv'
    BY <1>1, <1>2, <1>3, <1>11 DEF FreeInv
  <1>14. MessageInv'
    BY <1>1, <1>2, <1>3, <1>11 DEF MessageInv, SeenInv, Seen, DataPlaced
  <1>15. RingShape'
    BY <1>1, <1>2, <1>5 DEF RingShape
  <1>16. PositionInv'
    <2>1. \A k \in 1..Len(sq') : sq'[k].op = "read" /\ sq'[k].words # <<>> =>
              sq'[k].words[1] \in Nat /\ sq'[k].words[1] <= localReadPos
      BY <1>1, <1>2, <1>4, <1>5 DEF PositionInv
    <2> QED
      BY <2>1, <1>1, <1>2, <1>3 DEF PositionInv
  <1>17. BuiltInv' /\ ReceiverInv'
    BY <1>1, <1>2 DEF BuiltInv, ReceiverInv
  <1> QED
    BY <1>9, <1>10, <1>12, <1>13, <1>14, <1>15, <1>16, <1>17 DEF RingInv

\* The oldest request is done: the others move up.
LEMMA AcknowledgeStep ==
    ASSUME RingInv, Acknowledge
    PROVE  RingInv'
  <1>1. /\ UNCHANGED <<receiveBuf, localReadPos, outbox, sendBuf, variant, sendPos,
                       sending, spc, rpc, receiveSize, unsignaled>>
        /\ sq # <<>> /\ sq[1].words # <<>> /\ sq' = Tail(sq) /\ placed' = {}
        /\ sq[1].op = "write" => placed = 0..sq[1].len - 1
        /\ remoteReadPos' = IF sq[1].op = "read" THEN sq[1].words[1] ELSE remoteReadPos
    <2>1. Oldest = sq[1]
      BY DEF Oldest
    <2>2. /\ UNCHANGED <<receiveBuf, localReadPos, outbox, sendBuf, variant, sendPos,
                         sending, spc, rpc, receiveSize, unsignaled>>
          /\ sq # <<>> /\ Oldest.words # <<>> /\ sq' = Tail(sq) /\ placed' = {}
          /\ Oldest.op = "write" => placed = 0..Oldest.len - 1
          /\ remoteReadPos' = IF Oldest.op = "read" THEN Oldest.words[1] ELSE remoteReadPos
      BY DEF Acknowledge, receiverVars
    <2> QED
      BY <2>1, <2>2
  <1>2. /\ RingShape /\ PositionInv /\ BuiltInv /\ OutboxInv /\ RequestInv /\ PlacedInv /\ FreeInv
        /\ MessageInv /\ ReceiverInv
    BY DEF RingInv
  <1>3. PostedEnd' = PostedEnd /\ Accepted' = Accepted /\ Wiped' = Wiped /\ PostedEnd \in Nat
    BY <1>1, <1>2, PositionFacts DEF PostedEnd, Accepted, Wiped
  <1> DEFINE N == Len(sq)
  <1>4. sq \in Seq(Request) /\ N \in Nat /\ N >= 1
    BY <1>1, <1>2 DEF RingShape
  <1>5. /\ sq' \in Seq(Request) /\ Len(sq') = N - 1
        /\ \A k \in 1..N - 1 : sq'[k] = sq[k + 1]
    BY <1>1, <1>4, HeadTailProperties
  <1> HIDE DEF N
  <1>6. \A k \in Writes' : k + 1 \in Writes /\ sq'[k] = sq[k + 1] /\ k \in Nat /\ k >= 1
    <2> SUFFICES ASSUME NEW k \in Writes'
                 PROVE  k + 1 \in Writes /\ sq'[k] = sq[k + 1] /\ k \in Nat /\ k >= 1
      OBVIOUS
    <2>1. k \in 1..N - 1 /\ sq'[k].op = "write"
      BY <1>5 DEF Writes
    <2>2. k + 1 \in 1..N /\ sq'[k] = sq[k + 1]
      BY <2>1, <1>4, <1>5
    <2> QED
      BY <2>1, <2>2 DEF Writes, N
  <1>7. \A k \in Writes : k # 1 => k - 1 \in Writes' /\ sq'[k - 1] = sq[k] /\ k \in Nat /\ k > 1
    <2> SUFFICES ASSUME NEW k \in Writes, k # 1
                 PROVE  k - 1 \in Writes' /\ sq'[k - 1] = sq[k] /\ k \in Nat /\ k > 1
      OBVIOUS
    <2>1. k \in 1..N /\ sq[k].op = "write"
      BY DEF Writes, N
    <2>2. k - 1 \in 1..N - 1 /\ sq'[k - 1] = sq[(k - 1) + 1] /\ (k - 1) + 1 = k
      BY <2>1, <1>4, <1>5
    <2> QED
      BY <2>1, <2>2, <1>5 DEF Writes
  <1>8. RequestInv'
    <2> SUFFICES ASSUME NEW k \in Writes'
                 PROVE  KindInv(k)' /\ DataInv(k)' /\ LeftInv(k)' /\ SentInv(k)' /\ OrderInv(k)'
      BY DEF RequestInv
    <2> DEFINE j == k + 1
    <2>1. j \in Writes /\ sq'[k] = sq[j] /\ k \in Nat /\ j \in Nat /\ j > 1 /\ j # 1 /\ j - 1 = k
      BY <1>6
    <2> HIDE DEF j
    <2>2. KindInv(j) /\ DataInv(j) /\ LeftInv(j) /\ SentInv(j) /\ OrderInv(j)
      BY <2>1, <1>2 DEF RequestInv
    <2>3. KindInv(k)'
      <3>1. /\ sq[j].of.len \in 0..Size - 2 /\ EndOf(sq[j].of) <= PostedEnd
            /\ IsWhole(sq[j]) \/ IsData(sq[j]) \/ IsSize(sq[j])
            /\ IsWhole(sq[j]) => variant = "send"
        BY <2>2 DEF KindInv
      <3>2. IsData(sq[j]) => k + 1 \in Writes' /\ IsSize(sq'[k + 1]) /\ sq'[k + 1].of = sq[j].of
        <4> SUFFICES ASSUME IsData(sq[j])
                     PROVE  k + 1 \in Writes' /\ IsSize(sq'[k + 1]) /\ sq'[k + 1].of = sq[j].of
          OBVIOUS
        <4>1. j + 1 \in Writes /\ IsSize(sq[j + 1]) /\ sq[j + 1].of = sq[j].of
          BY <2>2 DEF KindInv
        <4>2. j + 1 # 1 /\ (j + 1) - 1 = k + 1
          BY <2>1
        <4> QED
          BY <4>1, <4>2, <1>7
      <3> QED
        BY <3>1, <3>2, <2>1, <1>1, <1>3 DEF KindInv
    <2>4. DataInv(k)'
      BY <2>1, <2>2, <1>1, Soundness DEF DataInv
    <2>5. LeftInv(k)'
      BY <2>1, <2>2, <1>1, <1>3 DEF LeftInv
    <2>6. SentInv(k)'
      BY <2>1, <2>2, <1>1 DEF SentInv
    <2>7. OrderInv(k)'
      <3> SUFFICES ASSUME NEW i \in Writes', i < k
                   PROVE  \/ sq'[i].of = sq'[k].of /\ IsData(sq'[i]) /\ IsSize(sq'[k])
                          \/ EndOf(sq'[i].of) <= sq'[k].of.at
        BY DEF OrderInv
      <3>1. i + 1 \in Writes /\ sq'[i] = sq[i + 1] /\ i + 1 < j
        BY <1>6, <2>1
      <3> QED
        BY <3>1, <2>1, <2>2 DEF OrderInv
    <2> QED
      BY <2>3, <2>4, <2>5, <2>6, <2>7
  <1>9. \A p \in Nat : Unplaced(p)' <=> Unplaced(p)
    <2> SUFFICES ASSUME NEW p \in Nat PROVE Unplaced(p)' <=> Unplaced(p)
      OBVIOUS
    <2>1. ASSUME NEW k \in Writes', Covers(k, p)'
          PROVE  Unplaced(p)
      <3>1. k + 1 \in Writes /\ k + 1 # 1 /\ sq'[k] = sq[k + 1]
        BY <1>6
      <3>2. Covers(k + 1, p) /\ ~InPlace(k + 1, p)
        BY <2>1, <3>1 DEF Covers, InPlace
      <3> QED
        BY <3>1, <3>2 DEF Unplaced
    <2>2. ASSUME NEW k \in Writes, Covers(k, p), ~InPlace(k, p)
          PROVE  Unplaced(p)'
      <3>1. k # 1
        <4> SUFFICES ASSUME k = 1 PROVE FALSE
          OBVIOUS
        <4>1. KindInv(1) /\ 1 \in Writes /\ sq[1].op = "write"
          BY <2>2, <1>2 DEF RequestInv, Writes
        <4>2. sq[1].from \in Nat /\ sq[1].len \in Nat
          BY <4>1, <1>2, RequestFacts
        <4>3. p - sq[1].from \in 0..sq[1].len - 1
          BY <4>2, <2>2 DEF Covers
        <4> QED
          BY <4>1, <4>3, <2>2, <1>1 DEF InPlace
      <3>2. k - 1 \in Writes' /\ sq'[k - 1] = sq[k]
        BY <3>1, <1>7
      <3>3. Covers(k - 1, p)' /\ ~InPlace(k - 1, p)'
        BY <3>2, <2>2, <1>1 DEF Covers, InPlace
      <3> QED
        BY <3>2, <3>3 DEF Unplaced
    <2> QED
      BY <2>1, <2>2 DEF Unplaced
  <1>10. PlacedInv'
    BY <1>1 DEF PlacedInv
  <1>11. OutboxInv'
    BY <1>1, <1>2, <1>3, SameOutbox
  <1>12. FreeInv'
    <2>1. \A p \in localReadPos..localReadPos + Size - 1 : p \in Nat
      BY <1>2, SizeAssumption DEF RingShape
    <2> QED
      BY <2>1, <1>1, <1>2, <1>3, <1>9 DEF FreeInv
  <1>13. MessageInv'
    <2> SUFFICES ASSUME NEW x \in 1..Len(outbox), outbox[x].at >= Wiped
                 PROVE  SeenInv(outbox[x])'
      BY <1>1, <1>3 DEF MessageInv
    <2>1. outbox[x].at \in Nat /\ outbox[x].len \in Nat
      BY <1>2, OutboxFacts
    <2>2. SeenInv(outbox[x])
      BY <1>2 DEF MessageInv
    <2>3. DataPlaced(outbox[x])' <=> DataPlaced(outbox[x])
      BY <2>1, <1>1, <1>9 DEF DataPlaced
    <2>4. \A i : Seen(outbox[x], i)' = Seen(outbox[x], i)
      BY <1>1 DEF Seen
    <2> QED
      BY <2>2, <2>3, <2>4, <1>1 DEF SeenInv
  <1>14. 1 \in 1..N /\ (sq[1].op = "read" => sq[1].words[1] \in Nat /\ sq[1].words[1] <= localReadPos)
    BY <1>1, <1>2, <1>4 DEF PositionInv, N
  <1>15. RingShape'
    <2>1. remoteReadPos' \in Nat
      BY <1>1, <1>2, <1>14 DEF RingShape
    <2> QED
      BY <2>1, <1>1, <1>2, <1>5 DEF RingShape
  <1>16. PositionInv'
    <2>1. remoteReadPos' <= localReadPos
      BY <1>1, <1>2, <1>14 DEF PositionInv
    <2>2. \A k \in 1..Len(sq') : sq'[k].op = "read" /\ sq'[k].words # <<>> =>
              sq'[k].words[1] \in Nat /\ sq'[k].words[1] <= localReadPos
      <3> SUFFICES ASSUME NEW k \in 1..N - 1, sq'[k].op = "read", sq'[k].words # <<>>
                   PROVE  sq'[k].words[1] \in Nat /\ sq'[k].words[1] <= localReadPos
        BY <1>5
      <3>1. k + 1 \in 1..Len(sq) /\ sq'[k] = sq[k + 1]
        BY <1>4, <1>5 DEF N
      <3> QED
        BY <3>1, <1>2 DEF PositionInv
    <2> QED
      BY <2>1, <2>2, <1>1, <1>2, <1>3 DEF PositionInv
  <1>17. BuiltInv' /\ ReceiverInv'
    BY <1>1, <1>2 DEF BuiltInv, ReceiverInv
  <1> QED
    BY <1>8, <1>10, <1>11, <1>12, <1>13, <1>15, <1>16, <1>17 DEF RingInv

\* The other requests write elsewhere.
LEMMA OthersElsewhere ==
    ASSUME RingShape, RequestInv, 1 \in Writes, NEW k \in Writes, k # 1, NEW q \in Nat, Covers(k, q)
    PROVE  q >= EndOf(sq[1].of) \/ (IsData(sq[1]) /\ sq[k].of = sq[1].of /\ q = sq[1].of.at)
  <1>1. KindInv(1) /\ KindInv(k) /\ OrderInv(k)
    BY DEF RequestInv
  <1>2. /\ sq[k].from \in Nat /\ sq[k].of.at \in Nat /\ sq[k].of.at <= sq[k].from
        /\ sq[k].len \in Nat /\ k \in 1..Len(sq)
    BY <1>1, RequestFacts
  <1>3. sq[1].of.at \in Nat /\ EndOf(sq[1].of) = sq[1].of.at + sq[1].of.len + 2 /\ sq[1].of.len \in Nat
    <2>1. sq[1].of.len \in 0..Size - 2 /\ Size \in Nat
      BY <1>1, RequestFacts, SizeAssumption
    <2> QED
      BY <2>1, <1>1, RequestFacts
  <1>4. 1 < k
    BY <1>2, RequestFacts DEF RingShape
  <1>5. CASE sq[1].of = sq[k].of /\ IsData(sq[1]) /\ IsSize(sq[k])
    BY <1>2, <1>3, <1>5 DEF Covers, IsSize
  <1>6. CASE EndOf(sq[1].of) <= sq[k].of.at
    BY <1>2, <1>3, <1>6 DEF Covers
  <1> QED
    BY <1>1, <1>4, <1>5, <1>6 DEF OrderInv

\* What Place changes, whoever is to read it.
LEMMA PlaceFacts ==
    ASSUME RingInv, NEW i \in Cells, Place(i)
    PROVE  /\ UNCHANGED <<sq, localReadPos, outbox, sendBuf, variant, sendPos, sending, spc, rpc,
                          receiveSize, remoteReadPos, unsignaled>>
           /\ 1 \in Writes /\ sq[1].words # <<>> /\ i \in 0..sq[1].len - 1 /\ i \notin placed
           /\ variant \notin AnyOrder => \A j \in 0..i - 1 : j \in placed
           /\ receiveBuf' = [receiveBuf EXCEPT ![Slot(sq[1].from + i)] = sq[1].words[i + 1]]
           /\ placed' = placed \cup {i}
           /\ PostedEnd' = PostedEnd /\ Accepted' = Accepted /\ Wiped' = Wiped
           /\ KindInv(1) /\ DataInv(1) /\ LeftInv(1) /\ SentInv(1)
           /\ sq[1].from \in Nat /\ sq[1].len \in Nat \ {0} /\ sq[1].of.at \in Nat
           /\ sq[1].of.len \in Nat /\ EndOf(sq[1].of) = sq[1].of.at + sq[1].of.len + 2
           /\ sq[1].of.at <= sq[1].from /\ sq[1].from + sq[1].len <= EndOf(sq[1].of)
           /\ EndOf(sq[1].of) <= PostedEnd
           /\ sq[1].words[i + 1] \in AnyWord /\ receiveBuf' \in [Cells -> AnyWord]
  <1>1. Oldest = sq[1]
    BY DEF Oldest
  <1>2. /\ sq # <<>> /\ Oldest.op = "write" /\ Oldest.words # <<>>
        /\ i \in (0..Oldest.len - 1) \ placed
        /\ variant \notin AnyOrder => \A j \in 0..i - 1 : j \in placed
        /\ receiveBuf' = [receiveBuf EXCEPT ![Slot(Oldest.from + i)] = Oldest.words[i + 1]]
        /\ placed' = placed \cup {i}
        /\ UNCHANGED <<sq, localReadPos, outbox, sendBuf, variant, sendPos, sending, spc, rpc,
                       receiveSize, remoteReadPos, unsignaled>>
    BY DEF Place, senderVars
  <1>3. PostedEnd' = PostedEnd /\ Accepted' = Accepted /\ Wiped' = Wiped
    BY <1>2 DEF PostedEnd, Accepted, Wiped
  <1>4. RingShape /\ RequestInv /\ sq \in Seq(Request) /\ receiveBuf \in [Cells -> AnyWord]
    BY DEF RingInv, RingShape
  <1>5. 1 \in Writes
    <2>1. 1 \in 1..Len(sq)
      BY <1>2, <1>4
    <2> QED
      BY <2>1, <1>1, <1>2 DEF Writes
  <1>6. KindInv(1) /\ DataInv(1) /\ LeftInv(1) /\ SentInv(1)
    BY <1>4, <1>5 DEF RequestInv
  <1>7. /\ sq[1].from \in Nat /\ sq[1].len \in Nat \ {0} /\ sq[1].of.at \in Nat
        /\ EndOf(sq[1].of) = sq[1].of.at + sq[1].of.len + 2
        /\ sq[1].of.at <= sq[1].from /\ sq[1].from + sq[1].len <= EndOf(sq[1].of)
        /\ EndOf(sq[1].of) <= PostedEnd /\ sq[1].of.len \in 0..Size - 2
    BY <1>4, <1>5, <1>6, RequestFacts
  <1>8. sq[1].of.len \in Nat
    BY <1>7, SizeAssumption
  <1>9. sq[1].words \in [1..sq[1].len -> AnyWord] /\ i + 1 \in 1..sq[1].len
    BY <1>1, <1>2, <1>6, <1>7 DEF DataInv
  <1>10. sq[1].words[i + 1] \in AnyWord
    BY <1>9
  <1>11. receiveBuf' \in [Cells -> AnyWord]
    <2> DEFINE w == sq[1].words[i + 1]
               c == Slot(sq[1].from + i)
    <2>1. w \in AnyWord /\ receiveBuf' = [receiveBuf EXCEPT ![c] = w]
      BY <1>1, <1>2, <1>10
    <2> HIDE DEF w, c
    <2> QED
      BY <2>1, <1>4
  <1> QED
    BY <1>1, <1>2, <1>3, <1>5, <1>6, <1>7, <1>8, <1>10, <1>11

\* The size word of an empty message that was accepted: a zero word on a zero.
LEMMA PlaceLate ==
    ASSUME RingInv, NEW i \in Cells, Place(i), sq[1].of.at < Accepted
    PROVE  RingInv'
  <1>1. /\ UNCHANGED <<sq, localReadPos, outbox, sendBuf, variant, sendPos, sending, spc, rpc,
                       receiveSize, remoteReadPos, unsignaled>>
        /\ 1 \in Writes /\ sq[1].words # <<>> /\ i \in 0..sq[1].len - 1 /\ i \notin placed
        /\ receiveBuf' = [receiveBuf EXCEPT ![Slot(sq[1].from + i)] = sq[1].words[i + 1]]
        /\ placed' = placed \cup {i}
        /\ PostedEnd' = PostedEnd /\ Accepted' = Accepted /\ Wiped' = Wiped
        /\ KindInv(1) /\ DataInv(1) /\ LeftInv(1) /\ SentInv(1)
        /\ sq[1].from \in Nat /\ sq[1].of.at \in Nat
    BY PlaceFacts
  <1>2. /\ RingShape /\ PositionInv /\ BuiltInv /\ OutboxInv /\ RequestInv /\ PlacedInv /\ FreeInv
        /\ MessageInv /\ ReceiverInv
    BY DEF RingInv
  <1>3. IsSize(sq[1]) /\ sq[1].of.len = 0 /\ receiveBuf[Slot(sq[1].from)] = Zero
    BY <1>1 DEF LeftInv
  <1>4. sq[1].from = sq[1].of.at /\ sq[1].len = 1 /\ sq[1].words[1] = Zero
    BY <1>3, WordFacts DEF IsSize
  <1>5. i = 0 /\ placed = {} /\ placed' = {0} /\ placed' = 0..sq[1].len - 1
    <2>1. i = 0
      BY <1>1, <1>4
    <2>2. placed \subseteq 0..sq[1].len - 1
      BY <1>1, <1>2 DEF PlacedInv
    <2>3. 0..sq[1].len - 1 = {0}
      BY <1>4
    <2>4. 0 \notin placed /\ placed' = placed \cup {0}
      BY <2>1, <1>1
    <2>5. placed = {}
      BY <2>2, <2>3, <2>4
    <2> QED
      BY <2>1, <2>3, <2>4, <2>5
  <1>6. receiveBuf' = receiveBuf
    <2> DEFINE c == Slot(sq[1].from)
    <2>0. sq[1].from + i = sq[1].from /\ i + 1 = 1
      BY <1>1, <1>5
    <2>1. receiveBuf' = [receiveBuf EXCEPT ![c] = Zero] /\ receiveBuf[c] = Zero
      BY <2>0, <1>1, <1>3, <1>4
    <2>2. receiveBuf \in [Cells -> AnyWord]
      BY <1>2 DEF RingShape
    <2> HIDE DEF c
    <2> QED
      BY <2>1, <2>2
  <1>7. \A p \in Nat : p > sq[1].of.at => (Unplaced(p)' <=> Unplaced(p))
    <2> SUFFICES ASSUME NEW p \in Nat, p > sq[1].of.at PROVE Unplaced(p)' <=> Unplaced(p)
      OBVIOUS
    <2>1. ~Covers(1, p)
      BY <1>1, <1>4 DEF Covers
    <2>2. \A k \in Writes : (Covers(k, p)' <=> Covers(k, p)) /\ (k # 1 => ~InPlace(k, p)' /\ ~InPlace(k, p))
      BY <1>1 DEF Covers, InPlace
    <2>3. Writes' = Writes
      BY <1>1, SameRequests
    <2> QED
      BY <2>1, <2>2, <2>3 DEF Unplaced
  <1>8. \A p : Unplaced(p)' => Unplaced(p)
    BY <1>1 DEF Unplaced, Covers, InPlace, Writes
  <1>9. sq[1].of.at <= localReadPos /\ localReadPos \in Nat
    <2>1. localReadPos \in Nat /\ Accepted \in Nat
      BY <1>2, PositionFacts
    <2>2. CASE sq[1].of.at < localReadPos
      BY <2>1, <2>2, <1>1
    <2>3. CASE sq[1].of.at >= localReadPos
      <3>1. outbox # <<>> /\ Accepted = EndOf(outbox[1])
        BY <2>1, <2>3, <1>1, <1>2, PositionFacts
      <3>2. sq[1].of = outbox[1]
        BY <2>3, <3>1, <1>1, <1>2, OldestMessage
      <3>3. outbox[1].at = localReadPos
        BY <3>1, <1>2 DEF OutboxInv
      <3> QED
        BY <3>2, <3>3, <2>1
    <2> QED
      BY <2>1, <2>2, <2>3, <1>1
  <1>10. RequestInv'
    <2> SUFFICES ASSUME NEW k \in Writes
                 PROVE  KindInv(k)' /\ DataInv(k)' /\ LeftInv(k)' /\ SentInv(k)' /\ OrderInv(k)'
      BY <1>1, SameRequests DEF RequestInv
    <2>1. KindInv(k) /\ DataInv(k) /\ LeftInv(k) /\ SentInv(k) /\ OrderInv(k)
      BY <1>2 DEF RequestInv
    <2>2. KindInv(k)' /\ DataInv(k)' /\ OrderInv(k)'
      BY <2>1, <1>1, SameRequests
    <2>3. SentInv(k)'
      BY <2>1, <1>1 DEF SentInv
    <2>4. LeftInv(k)'
      <3>1. CASE k = 1
        BY <3>1, <1>1, <1>5 DEF LeftInv
      <3>2. CASE k # 1
        BY <3>2, <2>1, <1>1, <1>6 DEF LeftInv
      <3> QED
        BY <3>1, <3>2
    <2> QED
      BY <2>2, <2>3, <2>4
  <1>11. PlacedInv'
    <2>1. receiveBuf'[Slot(sq[1].from + 0)] = sq[1].words[0 + 1]
      BY <1>1, <1>3, <1>4, <1>6
    <2>2. \A j \in {0} : receiveBuf'[Slot(sq[1].from + j)] = sq[1].words[j + 1]
      BY <2>1
    <2>3. \A j \in {0} : 0..j \subseteq {0}
      OBVIOUS
    <2>4. Writes' = Writes
      BY <1>1, SameRequests
    <2>5. {0} \subseteq 0..sq[1].len - 1
      BY <1>4
    <2> QED
      BY <2>2, <2>3, <2>4, <2>5, <1>1, <1>5 DEF PlacedInv
  <1>12. OutboxInv'
    BY <1>1, <1>2, SameOutbox
  <1>13. FreeInv'
    BY <1>1, <1>2, <1>6, <1>8 DEF FreeInv
  <1>14. MessageInv'
    <2> SUFFICES ASSUME NEW x \in 1..Len(outbox), outbox[x].at >= Wiped
                 PROVE  SeenInv(outbox[x])'
      BY <1>1 DEF MessageInv
    <2>1. outbox[x].at \in Nat /\ outbox[x].len \in Nat /\ localReadPos <= outbox[x].at
      BY <1>2, OutboxFacts
    <2>2. SeenInv(outbox[x])
      BY <1>2 DEF MessageInv
    <2>3. DataPlaced(outbox[x])' <=> DataPlaced(outbox[x])
      <3>1. \A j \in 1..outbox[x].len : outbox[x].at + j \in Nat /\ outbox[x].at + j > sq[1].of.at
        BY <2>1, <1>1, <1>9
      <3> QED
        BY <3>1, <1>1, <1>7 DEF DataPlaced
    <2>4. \A j : Seen(outbox[x], j)' = Seen(outbox[x], j)
      BY <1>1, <1>6 DEF Seen
    <2> QED
      BY <2>2, <2>3, <2>4, <1>1 DEF SeenInv
  <1>15. RingShape' /\ PositionInv' /\ BuiltInv' /\ ReceiverInv'
    BY <1>1, <1>2, <1>6 DEF RingShape, PositionInv, BuiltInv, ReceiverInv
  <1> QED
    BY <1>10, <1>11, <1>12, <1>13, <1>14, <1>15 DEF RingInv

\* Any other word: it fills the cell of its position, which was zero.
LEMMA PlaceOne ==
    ASSUME RingInv, NEW i \in Cells, Place(i), sq[1].of.at >= Accepted, NEW p, p = sq[1].from + i
    PROVE  /\ p \in Nat /\ p >= Accepted /\ p < PostedEnd /\ Covers(1, p)
           /\ p \in localReadPos..localReadPos + Size - 1
           /\ receiveBuf[Slot(p)] = Zero
           /\ receiveBuf'[Slot(p)] = sq[1].words[i + 1]
           /\ \A q \in localReadPos..localReadPos + Size - 1 :
                 q # p => receiveBuf'[Slot(q)] = receiveBuf[Slot(q)]
           /\ \A q \in Nat : Unplaced(q)' <=> Unplaced(q) /\ q # p
           /\ \A k \in Writes : sq[k].of.at >= Accepted
  <1>1. /\ sq' = sq /\ 1 \in Writes /\ i \in 0..sq[1].len - 1 /\ i \notin placed
        /\ receiveBuf' = [receiveBuf EXCEPT ![Slot(sq[1].from + i)] = sq[1].words[i + 1]]
        /\ placed' = placed \cup {i}
        /\ sq[1].from \in Nat /\ sq[1].len \in Nat \ {0} /\ sq[1].of.at \in Nat
        /\ sq[1].of.len \in Nat /\ EndOf(sq[1].of) = sq[1].of.at + sq[1].of.len + 2
        /\ sq[1].of.at <= sq[1].from /\ sq[1].from + sq[1].len <= EndOf(sq[1].of)
        /\ EndOf(sq[1].of) <= PostedEnd
    BY PlaceFacts
  <1>2. /\ RingShape /\ PositionInv /\ OutboxInv /\ RequestInv /\ FreeInv /\ ReceiverInv
        /\ receiveBuf \in [Cells -> AnyWord]
    BY DEF RingInv, RingShape
  <1>3. /\ PostedEnd \in Nat /\ Accepted \in Nat /\ localReadPos \in Nat /\ localReadPos <= Accepted
        /\ PostedEnd <= localReadPos + Size /\ Size \in Nat
    BY <1>2, PositionFacts, SizeAssumption
  <1>4. p \in Nat /\ p >= Accepted /\ p < PostedEnd /\ Covers(1, p) /\ p < EndOf(sq[1].of)
        /\ p >= sq[1].from
    BY <1>1, <1>3 DEF Covers
  <1>5. p \in localReadPos..localReadPos + Size - 1
    BY <1>3, <1>4
  <1>6. ~InPlace(1, p)
    BY <1>1, <1>4 DEF InPlace
  <1>7. receiveBuf[Slot(p)] = Zero
    <2>1. Unplaced(p)
      BY <1>1, <1>4, <1>6 DEF Unplaced
    <2> QED
      BY <2>1, <1>2, <1>5 DEF FreeInv
  <1>8. Slot(p) \in Cells
    BY <1>4, SlotFacts
  <1>9. receiveBuf'[Slot(p)] = sq[1].words[i + 1]
    BY <1>1, <1>2, <1>8
  <1>10. ASSUME NEW q \in localReadPos..localReadPos + Size - 1, q # p
         PROVE  receiveBuf'[Slot(q)] = receiveBuf[Slot(q)]
    <2>1. q \in Nat
      BY <1>3
    <2>2. Slot(q) \in Cells /\ Slot(q) # Slot(p)
      BY <2>1, <1>3, <1>4, <1>5, <1>10, SlotFacts
    <2> QED
      BY <2>2, <1>1, <1>2
  <1>11. \A k \in Writes : k # 1 => ~Covers(k, p)
    <2> SUFFICES ASSUME NEW k \in Writes, k # 1, Covers(k, p) PROVE FALSE
      OBVIOUS
    <2>1. p >= EndOf(sq[1].of) \/ (IsData(sq[1]) /\ p = sq[1].of.at)
      BY <1>1, <1>2, <1>4, OthersElsewhere
    <2> QED
      BY <2>1, <1>1, <1>3, <1>4 DEF IsData
  <1>12. ASSUME NEW q \in Nat
         PROVE  Unplaced(q)' <=> Unplaced(q) /\ q # p
    <2>1. Writes' = Writes /\ \A k \in Writes : Covers(k, q)' <=> Covers(k, q)
      BY <1>1 DEF Writes, Covers
    <2>2. \A k \in Writes : k # 1 => ~InPlace(k, q)' /\ ~InPlace(k, q)
      BY DEF InPlace
    <2>3. InPlace(1, q)' <=> InPlace(1, q) \/ q = p
      BY <1>1 DEF InPlace
    <2> QED
      BY <2>1, <2>2, <2>3, <1>1, <1>11 DEF Unplaced
  <1>13. ASSUME NEW k \in Writes
         PROVE  sq[k].of.at >= Accepted
    <2>1. CASE k = 1
      BY <2>1
    <2>2. CASE k # 1
      <3>1. KindInv(k) /\ OrderInv(k)
        BY <1>2 DEF RequestInv
      <3>2. sq[k].of.at \in Nat /\ k \in 1..Len(sq) /\ Len(sq) \in Nat
        BY <3>1, <1>2, RequestFacts DEF RingShape
      <3>3. 1 < k
        BY <2>2, <3>2
      <3>4. sq[1].of = sq[k].of \/ EndOf(sq[1].of) <= sq[k].of.at
        BY <3>1, <3>3, <1>1 DEF OrderInv
      <3>5. CASE sq[1].of = sq[k].of
        BY <3>5
      <3>6. CASE EndOf(sq[1].of) <= sq[k].of.at
        <4> DEFINE a == sq[1].of.at
                   e == EndOf(sq[1].of)
                   b == sq[k].of.at
               c == sq[1].of.len
        <4>1. a \in Nat /\ c \in Nat /\ e = a + c + 2
          BY <1>1
        <4>2. b \in Nat
          BY <3>2
        <4>3. e <= b
          BY <3>6
        <4>4. a >= Accepted
          OBVIOUS
        <4> HIDE DEF a, e, b, c
        <4>5. b >= Accepted
          BY <4>1, <4>2, <4>3, <4>4, <1>3
        <4> QED
          BY <4>5 DEF b
      <3> QED
        BY <3>4, <3>5, <3>6
    <2> QED
      BY <2>1, <2>2
  <1> QED
    BY <1>4, <1>5, <1>7, <1>9, <1>10, <1>12, <1>13

\* Names for the parts of the request being carried out.
Placing(i, r, m, f, l, ws, at, n, p) ==
    /\ r = sq[1] /\ f = r.from /\ l = r.len /\ ws = r.words
    /\ m = r.of /\ at = m.at /\ n = m.len /\ p = f + i

\* The message being written looks complete only when it is.
LEMMA PlaceSeen ==
    ASSUME RingInv, NEW i \in Cells, Place(i), sq[1].of.at >= Accepted, PlacedInv', FreeInv',
           NEW r, NEW m, NEW f, NEW l, NEW ws, NEW at, NEW n, NEW p,
           Placing(i, r, m, f, l, ws, at, n, p), SeenInv(m)
    PROVE  SeenInv(m)'
  <1>1. f \in Nat /\ l \in Nat \ {0} /\ at \in Nat /\ n \in Nat /\ i \in Nat /\ i < l
        /\ at <= f /\ f + l <= at + n + 2
    BY PlaceFacts DEF Placing
  <1>2. p = f + i /\ p \in Nat
    BY <1>1 DEF Placing
  <1>3. /\ RingShape /\ RequestInv /\ 1 \in Writes /\ 1 \in Writes' /\ Writes' = Writes
        /\ UNCHANGED <<sq, localReadPos, variant>>
    BY PlaceFacts, SameRequests DEF RingInv
  <1>4. r = sq[1] /\ r' = r /\ sq'[1] = r /\ m = r.of /\ m' = m
    BY <1>3 DEF Placing
  <1>5. localReadPos \in Nat /\ Size \in Nat /\ localReadPos <= at /\ at + n + 2 <= localReadPos + Size
    <2>1. PostedEnd \in Nat /\ localReadPos \in Nat /\ Accepted \in Nat /\ localReadPos <= Accepted
          /\ PostedEnd <= localReadPos + Size
      BY PositionFacts DEF RingInv
    <2>2. at + n + 2 <= PostedEnd /\ at >= Accepted
      BY PlaceFacts DEF Placing
    <2> QED
      BY <2>1, <2>2, <1>1, SizeAssumption
  <1>6. SeenInv(m) <=>
            /\ \A j \in 0..n : Seen(m, j) # Validity
            /\ AsSize(Seen(m, 0)) \in {0, n}
            /\ Seen(m, n + 1) = Validity /\ DataPlaced(m) =>
                    \A j \in 1..n : Seen(m, j) = Payload(at + j)
            /\ Seen(m, n + 1) = Validity /\ Seen(m, 0) # Zero => DataPlaced(m)
    BY DEF SeenInv, Placing
  <1>7. SeenInv(m)' <=>
            /\ \A j \in 0..n : Seen(m, j)' # Validity
            /\ AsSize(Seen(m, 0)') \in {0, n}
            /\ Seen(m, n + 1)' = Validity /\ DataPlaced(m)' =>
                    \A j \in 1..n : Seen(m, j)' = Payload(at + j)
            /\ Seen(m, n + 1)' = Validity /\ Seen(m, 0)' # Zero => DataPlaced(m)'
    BY DEF SeenInv, Placing
  <1>8. /\ DataPlaced(m) <=> \A j \in 1..n : ~Unplaced(at + j)
        /\ DataPlaced(m)' <=> \A j \in 1..n : ~Unplaced(at + j)'
    BY DEF DataPlaced, Placing
  <1>9. \A j : Seen(m, j) = receiveBuf[Slot(at + j)] /\ Seen(m, j)' = receiveBuf'[Slot(at + j)]
    BY DEF Seen, Placing
  <1>10. /\ receiveBuf'[Slot(p)] = ws[i + 1]
         /\ \A q \in localReadPos..localReadPos + Size - 1 :
                 q # p => receiveBuf'[Slot(q)] = receiveBuf[Slot(q)]
         /\ \A q \in Nat : Unplaced(q)' <=> Unplaced(q) /\ q # p
    <2>1. p = sq[1].from + i /\ ws = sq[1].words
      BY DEF Placing
    <2> QED
      BY <2>1, PlaceOne
  \* The cells of the message.
  <1>11. \A j \in 0..n + 1 : at + j \in localReadPos..localReadPos + Size - 1 /\ at + j \in Nat
    BY <1>1, <1>5
  <1>12. \A j \in 0..n + 1 : /\ at + j # p => Seen(m, j)' = Seen(m, j)
                             /\ at + j = p => Seen(m, j)' = ws[i + 1]
    BY <1>9, <1>10, <1>11
  \* A position not placed is seen as zero.
  <1>13. \A j \in 0..n + 1 : Unplaced(at + j)' => Seen(m, j)' = Zero
    <2>1. \A q \in localReadPos..localReadPos + Size - 1 : Unplaced(q)' => receiveBuf'[Slot(q)] = Zero
      BY <1>3 DEF FreeInv
    <2> QED
      BY <2>1, <1>9, <1>11
  \* A placed one is seen as its request has it.
  <1>14. ASSUME NEW j \in placed', NEW t, t = f + j - at
         PROVE  j \in 0..l - 1 /\ t \in 0..n + 1 /\ Seen(m, t)' = ws[j + 1]
    <2>1. sq'[1].of.at >= Wiped'
      <3>1. Wiped' = Wiped /\ Wiped <= Accepted /\ Wiped \in Nat /\ Accepted \in Nat
        BY PlaceFacts, PositionFacts DEF RingInv
      <3>2. at >= Accepted /\ sq'[1].of.at = at
        BY <1>3 DEF Placing
      <3> QED
        BY <3>1, <3>2, <1>1
    <2>2. j \in 0..l - 1 /\ receiveBuf'[Slot(f + j)] = ws[j + 1]
      <3>1. sq'[1].len = l /\ sq'[1].from = f /\ sq'[1].words = ws
        BY <1>3 DEF Placing
      <3>2. placed' \subseteq 0..sq'[1].len - 1
            /\ \A k \in placed' : receiveBuf'[Slot(sq'[1].from + k)] = sq'[1].words[k + 1]
        BY <2>1, <1>3 DEF PlacedInv
      <3> QED
        BY <3>1, <3>2
    <2>3. t \in 0..n + 1 /\ at + t = f + j
      BY <2>2, <1>1, <1>14
    <2> QED
      BY <2>2, <2>3, <1>9
  \* What is not unplaced is placed.
  <1>15. ASSUME NEW j \in 0..l - 1, NEW q, q = f + j, ~Unplaced(q)'
         PROVE  j \in placed'
    <2>1. q - f = j /\ f <= q /\ q < f + l
      BY <1>1, <1>15
    <2>2. sq'[1].len = l /\ sq'[1].from = f
      BY <1>3 DEF Placing
    <2>3. Covers(1, q)' /\ (InPlace(1, q)' <=> j \in placed')
      BY <2>1, <2>2 DEF Covers, InPlace
    <2> QED
      BY <2>3, <1>3, <1>15 DEF Unplaced
  \* Who else could write to it.
  <1>16. ASSUME NEW k \in Writes, k # 1, NEW q \in Nat, Covers(k, q), q < at + n + 2
         PROVE  q = at
    <2>1. q >= EndOf(sq[1].of) \/ q = sq[1].of.at
      BY <1>3, <1>16, OthersElsewhere
    <2>2. EndOf(sq[1].of) = at + (n + 2) /\ sq[1].of.at = at
      BY DEF EndOf, Placing, Total
    <2> QED
      BY <2>1, <2>2, <1>16, <1>1
  \* What the request carries.
  <1>17. /\ \A j \in 1..l : ws[j] = Validity => f + j - 1 = at + n + 1
         /\ ws[l] = Validity => \A j \in 1..l : ws[j] = MessageWord(at, n, f + j - 1 - at)
         /\ f = at => AsSize(ws[1]) \in {0, n}
    <2>1. Sound(sq[1]) /\ Content(sq[1]) = ws
      BY PlaceFacts DEF DataInv, Content, Placing
    <2> QED
      BY <2>1 DEF Sound, Placing
  <1>18. \/ f = at /\ l = 1 /\ IsSize(sq[1])
         \/ f = at + 1 /\ l = n + 1 /\ IsData(sq[1])
         \/ f = at /\ l = n + 2 /\ IsWhole(sq[1])
    BY PlaceFacts DEF KindInv, IsSize, IsData, IsWhole, Placing, Total
  <1>19. \A j \in 0..n : Seen(m, j)' # Validity
    <2> SUFFICES ASSUME NEW j \in 0..n, Seen(m, j)' = Validity PROVE FALSE
      OBVIOUS
    <2>1. j \in 0..n + 1
      BY <1>1
    <2>2. Seen(m, j) # Validity
      BY <1>6
    <2>3. at + j = p /\ ws[i + 1] = Validity
      BY <2>1, <2>2, <1>12
    <2>4. i + 1 \in 1..l
      BY <1>1
    <2>5. f + (i + 1) - 1 = at + n + 1
      BY <2>3, <2>4, <1>17
    <2> QED
      BY <2>1, <2>3, <2>5, <1>1, <1>2
  <1>20. AsSize(Seen(m, 0)') \in {0, n}
    <2>1. 0 \in 0..n + 1 /\ at + 0 = at
      BY <1>1
    <2>2. CASE at # p
      <3>1. Seen(m, 0)' = Seen(m, 0)
        BY <2>1, <2>2, <1>12
      <3> QED
        BY <3>1, <1>6
    <2>3. CASE at = p
      <3>1. f = at /\ i + 1 = 1
        BY <2>3, <1>1, <1>2
      <3>2. Seen(m, 0)' = ws[1]
        BY <2>1, <2>3, <3>1, <1>12
      <3> QED
        BY <3>1, <3>2, <1>17
    <2> QED
      BY <2>2, <2>3
  <1>21. CASE f = at /\ l = 1 /\ IsSize(sq[1])
    <2>1. p = at
      BY <1>21, <1>1, <1>2
    <2>2. \A j \in 1..n + 1 : at + j # p /\ at + j \in Nat /\ j \in 0..n + 1
      BY <2>1, <1>1
    <2>3. \A j \in 1..n : j \in 1..n + 1
      BY <1>1
    <2>4. n + 1 \in 1..n + 1
      BY <1>1
    <2>5. \A j \in 1..n + 1 : Seen(m, j)' = Seen(m, j)
      BY <2>2, <1>12
    <2>6. DataPlaced(m)
      <3> SUFFICES ASSUME NEW j \in 1..n, Unplaced(at + j) PROVE FALSE
        BY <1>8
      <3> DEFINE q == at + j
      <3>1. q \in Nat /\ q > at /\ q < at + n + 2
        BY <1>1
      <3>2. PICK k \in Writes : Covers(k, q)
        BY DEF Unplaced
      <3> HIDE DEF q
      <3>3. k # 1
        <4>1. sq[1].from = at /\ sq[1].len = 1
          BY <1>21 DEF Placing
        <4> QED
          BY <4>1, <3>1, <3>2, <1>1 DEF Covers
      <3> QED
        BY <3>1, <3>2, <3>3, <1>1, <1>16
    <2>7. DataPlaced(m)'
      BY <2>2, <2>3, <2>6, <1>8, <1>10
    <2>8. Seen(m, n + 1)' = Validity => \A j \in 1..n : Seen(m, j)' = Payload(at + j)
      BY <2>3, <2>4, <2>5, <2>6, <1>6
    <2> QED
      BY <2>7, <2>8, <1>7, <1>19, <1>20
  <1>22. CASE \/ f = at + 1 /\ l = n + 1 /\ IsData(sq[1])
              \/ f = at /\ l = n + 2 /\ IsWhole(sq[1])
    <2>1. f + l = at + n + 2 /\ f <= at + 1
      BY <1>1, <1>22
    <2> SUFFICES ASSUME Seen(m, n + 1)' = Validity
                 PROVE  /\ DataPlaced(m)' =>
                                \A j \in 1..n : Seen(m, j)' = Payload(at + j)
                        /\ Seen(m, 0)' # Zero => DataPlaced(m)'
      BY <1>7, <1>19, <1>20
    <2>2. l - 1 \in placed' /\ ws[l] = Validity
      <3>1. l - 1 \in 0..l - 1 /\ at + (n + 1) = f + (l - 1) /\ n + 1 \in 0..n + 1
        BY <2>1, <1>1
      <3>2. ~Unplaced(at + (n + 1))'
        BY <3>1, <1>13, WordFacts
      <3>3. l - 1 \in placed'
        BY <3>1, <3>2, <1>15
      <3>4. n + 1 = f + (l - 1) - at /\ (l - 1) + 1 = l
        BY <2>1, <1>1
      <3>5. Seen(m, n + 1)' = ws[(l - 1) + 1]
        BY <3>3, <3>4, <1>14
      <3> QED
        BY <3>3, <3>4, <3>5
    <2>3. ASSUME DataPlaced(m)', NEW j \in 1..n
          PROVE  Seen(m, j)' = Payload(at + j)
      <3> DEFINE t == at + j - f
      <3>1. /\ t \in 0..l - 1 /\ at + j = f + t /\ t + 1 \in 1..l
            /\ f + (t + 1) - 1 - at = j /\ j = f + t - at
        BY <2>1, <1>1
      <3>2. j # 0 /\ j # n + 1
        BY <1>1
      <3> HIDE DEF t
      <3>3. ~Unplaced(at + j)'
        BY <2>3, <1>8
      <3>4. t \in placed'
        BY <3>1, <3>3, <1>15
      <3>5. Seen(m, j)' = ws[t + 1]
        BY <3>1, <3>4, <1>14
      <3>6. ws[t + 1] = MessageWord(at, n, j)
        BY <3>1, <2>2, <1>17
      <3>7. MessageWord(at, n, j) = Payload(at + j)
        BY <3>2 DEF MessageWord
      <3> QED
        BY <3>5, <3>6, <3>7
    <2>4. ASSUME Seen(m, 0)' # Zero
          PROVE  DataPlaced(m)'
      <3>1. CASE f = at + 1 /\ l = n + 1 /\ IsData(sq[1])
        <4>1. 2 \in Writes /\ IsSize(sq[2]) /\ sq[2].of = m
          BY <3>1, <1>3, <1>4 DEF RequestInv, KindInv
        <4>2. sq'[2].from = at /\ sq'[2].len = 1
          BY <4>1, <1>3 DEF IsSize, Placing
        <4>3. Covers(2, at)' /\ ~InPlace(2, at)' /\ 2 \in Writes'
          BY <4>1, <4>2, <1>1, <1>3 DEF Covers, InPlace
        <4>4. at + 0 = at /\ 0 \in 0..n + 1
          BY <1>1
        <4>5. Unplaced(at)'
          BY <4>3 DEF Unplaced
        <4> QED
          BY <4>4, <4>5, <1>13, <2>4
      <3>2. CASE f = at /\ l = n + 2 /\ IsWhole(sq[1])
        <4>1. variant' = "send"
          BY <3>2, <1>3 DEF RequestInv, KindInv
        <4>2. 0..l - 1 \subseteq placed'
          BY <4>1, <2>2, <1>3 DEF PlacedInv
        <4> SUFFICES ASSUME NEW j \in 1..n, Unplaced(at + j)' PROVE FALSE
          BY <1>8
        <4> DEFINE q == at + j
        <4>3. q \in Nat /\ q > at /\ q < at + n + 2 /\ q - f \in 0..l - 1
          BY <3>2, <1>1
        <4>4. PICK k \in Writes' : Covers(k, q)' /\ ~InPlace(k, q)'
          BY DEF Unplaced
        <4> HIDE DEF q
        <4>5. k \in Writes /\ Covers(k, q)
          BY <4>4, <1>3 DEF Covers
        <4>6. k = 1
          BY <4>3, <4>5, <1>1, <1>16
        <4>7. sq'[1].from = f
          BY <1>3 DEF Placing
        <4> QED
          BY <4>2, <4>3, <4>4, <4>6, <4>7 DEF InPlace
      <3> QED
        BY <3>1, <3>2, <1>22
    <2> QED
      BY <2>3, <2>4
  <1> QED
    BY <1>18, <1>21, <1>22

\* A message whose words stay as they are looks as before.
LEMMA SameMessage ==
    ASSUME NEW at \in Nat, NEW n \in Nat, NEW m, m.at = at, m.len = n,
           \A q \in at..at + n + 1 :
                receiveBuf'[Slot(q)] = receiveBuf[Slot(q)] /\ (Unplaced(q)' <=> Unplaced(q)),
           SeenInv(m)
    PROVE  SeenInv(m)'
  <1>1. \A j \in 0..n + 1 : at + j \in at..at + n + 1
    OBVIOUS
  <1>2. \A j \in 0..n + 1 : Seen(m, j)' = Seen(m, j)
    BY <1>1 DEF Seen
  <1>3. /\ \A j \in 1..n : j \in 0..n + 1
        /\ \A j \in 0..n : j \in 0..n + 1
        /\ n + 1 \in 0..n + 1 /\ 0 \in 0..n + 1
    OBVIOUS
  <1>4. DataPlaced(m)' <=> DataPlaced(m)
    BY <1>1, <1>3 DEF DataPlaced
  <1> QED
    BY <1>2, <1>3, <1>4 DEF SeenInv

\* A word reaches the receiver's memory: no message looks complete too early.
LEMMA PlaceStep ==
    ASSUME RingSafe, RingInv, NEW i \in Cells, Place(i)
    PROVE  RingInv'
  <1>1. /\ UNCHANGED <<sq, localReadPos, outbox, sendBuf, variant, sendPos, sending, spc, rpc,
                       receiveSize, remoteReadPos, unsignaled>>
        /\ 1 \in Writes /\ sq[1].words # <<>> /\ i \in 0..sq[1].len - 1 /\ i \notin placed
        /\ variant \notin AnyOrder => \A j \in 0..i - 1 : j \in placed
        /\ placed' = placed \cup {i}
        /\ PostedEnd' = PostedEnd /\ Accepted' = Accepted /\ Wiped' = Wiped
        /\ SentInv(1) /\ receiveBuf' \in [Cells -> AnyWord]
    BY PlaceFacts
  <1>2. /\ RingShape /\ PositionInv /\ BuiltInv /\ OutboxInv /\ RequestInv /\ PlacedInv /\ FreeInv
        /\ MessageInv /\ ReceiverInv
    BY DEF RingInv
  <1>3. Accepted \in Nat /\ sq[1].of.at \in Nat
    BY <1>2, PlaceFacts, PositionFacts
  <1>4. CASE sq[1].of.at < Accepted
    BY <1>4, PlaceLate
  <1>5. CASE sq[1].of.at >= Accepted
    <2> DEFINE f == sq[1].from
               l == sq[1].len
               at == sq[1].of.at
               n == sq[1].of.len
               p == f + i
    <2>1. f \in Nat /\ l \in Nat \ {0} /\ at \in Nat /\ n \in Nat /\ i \in Nat /\ i < l
          /\ at <= f /\ f + l <= at + n + 2
      BY <1>1, PlaceFacts
    <2>2. /\ p \in Nat /\ p >= Accepted /\ p < PostedEnd
          /\ p \in localReadPos..localReadPos + Size - 1
          /\ receiveBuf[Slot(p)] = Zero
          /\ receiveBuf'[Slot(p)] = sq[1].words[i + 1]
          /\ \A q \in localReadPos..localReadPos + Size - 1 :
                 q # p => receiveBuf'[Slot(q)] = receiveBuf[Slot(q)]
          /\ \A q \in Nat : Unplaced(q)' <=> Unplaced(q) /\ q # p
          /\ \A k \in Writes : sq[k].of.at >= Accepted
      BY <1>5, PlaceOne
    <2>3. /\ PostedEnd \in Nat /\ Accepted \in Nat /\ Wiped \in Nat /\ localReadPos \in Nat
          /\ localReadPos <= Wiped /\ Wiped <= Accepted /\ Accepted <= PostedEnd
          /\ PostedEnd <= localReadPos + Size
          /\ rpc \in {"callback", "publish"} => Accepted = localReadPos + receiveSize + 2
      BY <1>2, PositionFacts
    <2>4. Size \in Nat /\ Size >= 2
      BY SizeAssumption
    <2>5. at >= Accepted /\ at + n + 2 <= PostedEnd
      BY <1>5, PlaceFacts
    <2>6. Writes' = Writes
      BY <1>1, SameRequests
    <2> HIDE DEF f, l, at, n, p
    <2>7. RequestInv'
      <3> SUFFICES ASSUME NEW k \in Writes
                   PROVE  KindInv(k)' /\ DataInv(k)' /\ LeftInv(k)' /\ SentInv(k)' /\ OrderInv(k)'
        BY <2>6 DEF RequestInv
      <3>1. KindInv(k) /\ DataInv(k) /\ LeftInv(k) /\ SentInv(k) /\ OrderInv(k)
        BY <1>2 DEF RequestInv
      <3>2. KindInv(k)' /\ DataInv(k)' /\ OrderInv(k)'
        BY <3>1, <1>1, SameRequests
      <3>3. SentInv(k)'
        BY <3>1, <1>1 DEF SentInv
      <3>4. LeftInv(k)'
        <4>1. sq[k].of.at >= Accepted /\ sq[k].of.at \in Nat
          BY <3>1, <2>2, <1>2, RequestFacts
        <4>2. ~(sq[k].of.at < Accepted)
          BY <4>1, <2>3
        <4> QED
          BY <4>2, <1>1 DEF LeftInv
      <3> QED
        BY <3>2, <3>3, <3>4
    <2>8. PlacedInv'
      <3>1. /\ placed \subseteq 0..l - 1
            /\ \A j \in placed : receiveBuf[Slot(f + j)] = sq[1].words[j + 1]
            /\ variant = "send" => \A j \in placed : 0..j \subseteq placed
        <4>1. sq[1].of.at >= Wiped
          BY <2>3, <1>3, <1>5
        <4> QED
          BY <4>1, <1>1, <1>2 DEF PlacedInv, f, l
      <3>2. \A j \in placed' : receiveBuf'[Slot(f + j)] = sq[1].words[j + 1]
        <4> SUFFICES ASSUME NEW j \in placed' PROVE receiveBuf'[Slot(f + j)] = sq[1].words[j + 1]
          OBVIOUS
        <4>1. CASE j = i
          BY <4>1, <2>2 DEF p
        <4>2. CASE j # i
          <5>1. j \in placed /\ j \in 0..l - 1
            BY <4>2, <3>1, <1>1
          <5>2. f + j # p /\ f + j \in localReadPos..localReadPos + Size - 1
            BY <4>2, <5>1, <2>1, <2>3, <2>4, <2>5 DEF p
          <5> QED
            BY <5>1, <5>2, <3>1, <2>2
        <4> QED
          BY <4>1, <4>2
      <3>3. variant = "send" => \A j \in placed' : 0..j \subseteq placed'
        <4> SUFFICES ASSUME variant = "send", NEW j \in placed', NEW h \in 0..j PROVE h \in placed'
          OBVIOUS
        <4>1. \A g \in 0..i - 1 : g \in placed
          BY <1>1 DEF RingSafe
        <4>2. CASE j = i
          <5>1. h = i \/ h \in 0..i - 1
            BY <4>2, <2>1
          <5> QED
            BY <5>1, <4>1, <1>1
        <4>3. CASE j # i
          BY <4>3, <3>1, <1>1
        <4> QED
          BY <4>2, <4>3
      <3>4. placed' \subseteq 0..l - 1
        BY <3>1, <2>1, <1>1
      <3> QED
        BY <3>2, <3>3, <3>4, <2>6, <1>1 DEF PlacedInv, f, l
    <2>9. OutboxInv'
      BY <1>1, <1>2, SameOutbox
    <2>10. FreeInv'
      <3> SUFFICES ASSUME NEW q \in localReadPos..localReadPos + Size - 1,
                          q < Wiped \/ q >= PostedEnd \/ Unplaced(q)'
                   PROVE  receiveBuf'[Slot(q)] = Zero
        BY <1>1 DEF FreeInv
      <3>1. q \in Nat
        BY <2>3
      <3>2. q # p
        BY <3>1, <2>2, <2>3
      <3>3. q < Wiped \/ q >= PostedEnd \/ Unplaced(q)
        BY <3>1, <2>2
      <3>4. receiveBuf[Slot(q)] = Zero
        BY <3>3, <1>2 DEF FreeInv
      <3> QED
        BY <3>2, <3>4, <2>2
    <2>11. MessageInv'
      <3> SUFFICES ASSUME NEW x \in 1..Len(outbox), outbox[x].at >= Wiped
                   PROVE  SeenInv(outbox[x])'
        BY <1>1 DEF MessageInv
      <3>1. SeenInv(outbox[x])
        BY <1>2 DEF MessageInv
      <3>2. PICK y \in 1..Len(outbox) : outbox[y] = sq[1].of
        <4>1. sq[1].of.at >= localReadPos
          BY <2>3, <1>3, <1>5
        <4> QED
          BY <4>1, <1>1 DEF SentInv
      <3>3. CASE x = y
        <4>1. PICK r, m, g, h, ws, a, b, q : Placing(i, r, m, g, h, ws, a, b, q)
          BY DEF Placing
        <4>2. m = outbox[x] /\ m = outbox'[x]
          BY <4>1, <3>2, <3>3, <1>1 DEF Placing
        <4>3. SeenInv(m)
          BY <4>2, <3>1
        <4>4. SeenInv(m)'
          BY <4>1, <4>3, <2>8, <2>10, <1>5, PlaceSeen
        <4> QED
          BY <4>2, <4>4
      <3>4. CASE x # y
        <4>0. PICK m, a, b : m = outbox[x] /\ a = m.at /\ b = m.len
          OBVIOUS
        <4>1. a \in Nat /\ b \in Nat /\ EndOf(m) = a + b + 2 /\ localReadPos <= a /\ EndOf(m) <= PostedEnd
          BY <4>0, <1>2, OutboxFacts
        <4>2. EndOf(m) <= outbox[y].at \/ EndOf(outbox[y]) <= a
          <5>1. x < y \/ y < x
            BY <3>4
          <5> QED
            BY <4>0, <5>1, <1>2 DEF OutboxInv
        <4>3. outbox[y].at = at /\ EndOf(outbox[y]) = at + n + 2
          BY <3>2, PlaceFacts DEF at, n
        <4>4. m.at = a /\ m.len = b
          BY <4>0
        <4>5. \A q \in a..a + b + 1 : /\ q \in localReadPos..localReadPos + Size - 1 /\ q \in Nat
                                     /\ q # p
          BY <4>1, <4>2, <4>3, <2>1, <2>3, <2>4 DEF p
        <4>6. \A q \in a..a + b + 1 :
                 receiveBuf'[Slot(q)] = receiveBuf[Slot(q)] /\ (Unplaced(q)' <=> Unplaced(q))
          BY <4>5, <2>2
        <4>7. SeenInv(m)
          BY <4>0, <3>1
        <4>8. SeenInv(m)'
          BY <4>1, <4>4, <4>6, <4>7, SameMessage
        <4> QED
          BY <4>0, <4>8, <1>1
      <3> QED
        BY <3>3, <3>4
    <2>12. ReceiverInv'
      <3>1. rpc = "pollValidity" /\ receiveSize # 0 => receiveBuf'[Slot(localReadPos)] # Zero
        <4> SUFFICES ASSUME rpc = "pollValidity", receiveSize # 0
                     PROVE  receiveBuf'[Slot(localReadPos)] # Zero
          OBVIOUS
        <4>1. receiveBuf[Slot(localReadPos)] # Zero
          BY <1>2 DEF ReceiverInv
        <4>2. localReadPos # p
          BY <4>1, <2>2
        <4>3. localReadPos \in localReadPos..localReadPos + Size - 1
          BY <2>3, <2>4
        <4> QED
          BY <4>1, <4>2, <4>3, <2>2
      <3>2. rpc = "callback" => \A j \in 1..receiveSize :
                receiveBuf'[Slot(localReadPos + j)] = Payload(localReadPos + j)
        <4> SUFFICES ASSUME rpc = "callback", NEW j \in 1..receiveSize
                     PROVE  receiveBuf'[Slot(localReadPos + j)] = Payload(localReadPos + j)
          OBVIOUS
        <4>1. receiveBuf[Slot(localReadPos + j)] = Payload(localReadPos + j)
          BY <1>2 DEF ReceiverInv
        <4>2. receiveSize \in Nat
          BY <1>2 DEF RingShape
        <4>3. localReadPos + j # p /\ localReadPos + j \in localReadPos..localReadPos + Size - 1
          BY <4>2, <2>2, <2>3, <2>4
        <4> QED
          BY <4>1, <4>3, <2>2
      <3> QED
        BY <3>1, <3>2, <1>1, <1>2 DEF ReceiverInv
    <2>13. RingShape' /\ PositionInv' /\ BuiltInv'
      BY <1>1, <1>2 DEF RingShape, PositionInv, BuiltInv
    <2> QED
      BY <2>7, <2>8, <2>9, <2>10, <2>11, <2>12, <2>13 DEF RingInv
  <1> QED
    BY <1>3, <1>4, <1>5
-----------------------------------------------------------------------------
(* The receiver                                                             *)

\* A step of the receiver that looks at the ring only.
LEMMA Watching ==
    ASSUME RingInv,
           UNCHANGED <<sq, placed, receiveBuf, localReadPos, outbox, sendBuf, variant, sendPos,
                       sending, spc, remoteReadPos, unsignaled>>,
           Wiped' = Wiped, \A k \in Writes : LeftInv(k)',
           receiveSize' \in Nat, rpc' \in {"idle", "pollSize", "pollValidity", "callback"},
           ReceiverInv'
    PROVE  RingInv'
  <1>1. /\ RingShape /\ PositionInv /\ BuiltInv /\ OutboxInv /\ RequestInv /\ PlacedInv /\ FreeInv
        /\ MessageInv
    BY DEF RingInv
  <1>2. PostedEnd' = PostedEnd
    BY DEF PostedEnd
  <1>3. OutboxInv'
    BY <1>1, <1>2, SameOutbox
  <1>4. Writes' = Writes /\ \A p : Unplaced(p)' <=> Unplaced(p)
    BY SameRequests
  <1>5. RequestInv'
    <2> SUFFICES ASSUME NEW k \in Writes
                 PROVE  KindInv(k)' /\ DataInv(k)' /\ LeftInv(k)' /\ SentInv(k)' /\ OrderInv(k)'
      BY <1>4 DEF RequestInv
    <2>1. KindInv(k) /\ DataInv(k) /\ SentInv(k) /\ OrderInv(k)
      BY <1>1 DEF RequestInv
    <2>2. KindInv(k)' /\ DataInv(k)' /\ OrderInv(k)'
      BY <2>1, <1>2, SameRequests
    <2>3. SentInv(k)'
      BY <2>1 DEF SentInv
    <2> QED
      BY <2>2, <2>3
  <1>6. PlacedInv'
    BY <1>1, <1>4 DEF PlacedInv
  <1>7. FreeInv'
    BY <1>1, <1>2, <1>4 DEF FreeInv
  <1>8. MessageInv'
    BY <1>1, <1>4 DEF MessageInv, SeenInv, Seen, DataPlaced
  <1>9. RingShape' /\ PositionInv' /\ BuiltInv'
    BY <1>1, <1>2 DEF RingShape, PositionInv, BuiltInv
  <1> QED
    BY <1>3, <1>5, <1>6, <1>7, <1>8, <1>9 DEF RingInv

\* A size word that is not zero is that of the oldest message.
LEMMA PollSizeStep ==
    ASSUME RingInv, PollSize
    PROVE  RingInv'
  <1>1. /\ UNCHANGED <<sq, placed, receiveBuf, localReadPos, outbox, sendBuf, variant, sendPos,
                       sending, spc, remoteReadPos, unsignaled>>
        /\ rpc = "pollSize" /\ rpc' = "pollValidity"
        /\ receiveSize' = AsSize(receiveBuf[Slot(localReadPos)])
    BY DEF PollSize, senderVars, adapterVars
  <1>2. /\ RingShape /\ PositionInv /\ OutboxInv /\ RequestInv /\ FreeInv /\ MessageInv /\ ReceiverInv
        /\ receiveBuf \in [Cells -> AnyWord]
    BY DEF RingInv, RingShape
  <1>3. Wiped = localReadPos /\ Wiped' = Wiped /\ Accepted' = Accepted
    BY <1>1, <1>2, PositionFacts DEF Wiped, Accepted
  <1>4. \A k \in Writes : LeftInv(k)'
    BY <1>1, <1>2, <1>3 DEF RequestInv, LeftInv, IsSize
  <1>5. localReadPos \in Nat /\ Size \in Nat /\ Size >= 2
    BY <1>2, SizeAssumption DEF RingShape
  <1>6. localReadPos \in localReadPos..localReadPos + Size - 1
    BY <1>5
  <1>7. receiveSize' \in Nat
    <2>1. receiveBuf[Slot(localReadPos)] \in AnyWord
      BY <1>2, <1>5, SlotFacts
    <2> QED
      BY <2>1, <1>1, WordFacts
  <1>8. ASSUME receiveSize' # 0
        PROVE  outbox # <<>> /\ receiveSize' = outbox[1].len /\ receiveBuf[Slot(localReadPos)] # Zero
    <2>1. receiveBuf[Slot(localReadPos)] # Zero
      BY <1>1, <1>8, WordFacts
    <2>2. outbox # <<>>
      <3> SUFFICES ASSUME outbox = <<>> PROVE FALSE
        OBVIOUS
      <3>1. localReadPos >= PostedEnd
        BY <1>2, <1>5 DEF OutboxInv
      <3> QED
        BY <3>1, <2>1, <1>2, <1>6 DEF FreeInv
    <2>3. 1 \in 1..Len(outbox)
      BY <2>2, <1>2 DEF OutboxInv
    <2>4. outbox[1].at = localReadPos
      BY <2>2, <1>2 DEF OutboxInv
    <2>5. SeenInv(outbox[1])
      <3>1. outbox[1].at >= Wiped
        BY <2>4, <1>3, <1>5
      <3> QED
        BY <2>3, <3>1, <1>2 DEF MessageInv
    <2>6. localReadPos + 0 = localReadPos
      BY <1>5
    <2>7. Seen(outbox[1], 0) = receiveBuf[Slot(localReadPos)]
      BY <2>4, <2>6 DEF Seen
    <2> QED
      BY <2>1, <2>2, <2>5, <2>7, <1>1, <1>8 DEF SeenInv
  <1>9. ReceiverInv'
    BY <1>1, <1>8 DEF ReceiverInv
  <1> QED
    BY <1>1, <1>3, <1>4, <1>7, <1>9, Watching

\* A message that was refused is still there, and is polled again.
LEMMA ThrowStep ==
    ASSUME RingInv, CallbackThrows
    PROVE  RingInv'
  <1>1. /\ UNCHANGED <<sq, placed, receiveBuf, localReadPos, outbox, sendBuf, variant, sendPos,
                       sending, spc, remoteReadPos, unsignaled>>
        /\ rpc = "callback" /\ rpc' = "idle" /\ receiveSize' = 0
    BY DEF CallbackThrows, senderVars, adapterVars
  <1>2. RingShape /\ PositionInv /\ OutboxInv /\ RequestInv /\ ReceiverInv
    BY DEF RingInv
  <1>3. /\ Wiped = localReadPos /\ Wiped' = localReadPos /\ Accepted' = localReadPos
        /\ localReadPos <= Accepted /\ Accepted \in Nat /\ localReadPos \in Nat
    BY <1>1, <1>2, PositionFacts DEF Wiped, Accepted
  <1>4. \A k \in Writes : LeftInv(k)'
    <2> SUFFICES ASSUME NEW k \in Writes PROVE LeftInv(k)'
      OBVIOUS
    <2>1. LeftInv(k) /\ KindInv(k)
      BY <1>2 DEF RequestInv
    <2>2. sq[k].of.at \in Nat
      BY <2>1, <1>2, RequestFacts
    <2>3. sq[k].of.at < localReadPos => sq[k].of.at < Accepted
      BY <2>2, <1>3
    <2> QED
      BY <2>1, <2>3, <1>1, <1>3 DEF LeftInv, IsSize
  <1>5. ReceiverInv'
    BY <1>1 DEF ReceiverInv
  <1> QED
    BY <1>1, <1>3, <1>4, <1>5, Watching

\* The message whose size and validity words the receiver has seen.
LEMMA AcceptedMessage ==
    ASSUME RingInv, rpc = "pollValidity", receiveBuf[Slot(localReadPos + 1 + receiveSize)] = Validity
    PROVE  /\ outbox # <<>> /\ receiveSize = outbox[1].len /\ outbox[1].at = localReadPos
           /\ receiveSize # 0 => receiveBuf[Slot(localReadPos)] # Zero
           /\ \A q \in localReadPos + 1..localReadPos + 1 + receiveSize : ~Unplaced(q)
           /\ \A j \in 1..receiveSize : receiveBuf[Slot(localReadPos + j)] = Payload(localReadPos + j)
  <1>1. /\ RingShape /\ PositionInv /\ OutboxInv /\ RequestInv /\ FreeInv /\ MessageInv /\ ReceiverInv
    BY DEF RingInv
  <1>2. /\ localReadPos \in Nat /\ Size \in Nat /\ Size >= 2 /\ receiveSize \in Nat
        /\ Wiped = localReadPos /\ PostedEnd <= localReadPos + Size /\ PostedEnd \in Nat
    BY <1>1, PositionFacts, SizeAssumption DEF RingShape
  <1>3. outbox # <<>>
    <2> SUFFICES ASSUME outbox = <<>> PROVE FALSE
      OBVIOUS
    <2>1. receiveSize = 0 /\ localReadPos = PostedEnd
      BY <1>1 DEF ReceiverInv, OutboxInv
    <2>2. localReadPos + 1 + receiveSize \in localReadPos..localReadPos + Size - 1
      BY <2>1, <1>2
    <2>3. localReadPos + 1 + receiveSize >= PostedEnd
      BY <2>1, <1>2
    <2> QED
      BY <2>2, <2>3, <1>1, WordFacts DEF FreeInv
  <1> DEFINE m == outbox[1]
             n == m.len
  <1>4. 1 \in 1..Len(outbox)
    BY <1>3, <1>1 DEF OutboxInv
  <1>5. n \in Nat /\ m.at = localReadPos /\ EndOf(m) = m.at + n + 2 /\ EndOf(m) <= PostedEnd
    BY <1>4, <1>1, OutboxFacts
  <1>6. SeenInv(m)
    <2>1. m.at >= Wiped
      BY <1>2, <1>5
    <2> QED
      BY <2>1, <1>1, <1>4 DEF MessageInv
  <1>7. \A j : Seen(m, j) = receiveBuf[Slot(localReadPos + j)]
    BY <1>5 DEF Seen
  <1>8. /\ \A j \in 0..n : Seen(m, j) # Validity
        /\ Seen(m, n + 1) = Validity /\ DataPlaced(m) => \A j \in 1..n : Seen(m, j) = Payload(m.at + j)
        /\ Seen(m, n + 1) = Validity /\ Seen(m, 0) # Zero => DataPlaced(m)
        /\ DataPlaced(m) <=> \A j \in 1..n : ~Unplaced(m.at + j)
    BY <1>6 DEF SeenInv, DataPlaced
  <1> HIDE DEF m, n
  <1>9. n = receiveSize
    <2>1. CASE receiveSize # 0
      BY <2>1, <1>1 DEF ReceiverInv, m, n
    <2>2. CASE receiveSize = 0
      <3>1. localReadPos + 1 + receiveSize = localReadPos + 1
        BY <2>2, <1>2
      <3>2. Seen(m, 1) = Validity
        BY <3>1, <1>7
      <3>3. 1 \notin 0..n
        BY <3>2, <1>8
      <3> QED
        BY <2>2, <3>3, <1>5
    <2> QED
      BY <2>1, <2>2
  <1>10. localReadPos + (n + 1) = localReadPos + 1 + receiveSize /\ localReadPos + 0 = localReadPos
    BY <1>9, <1>2, <1>5
  <1>11. Seen(m, n + 1) = Validity
    BY <1>10, <1>7
  <1>12. receiveSize # 0 => receiveBuf[Slot(localReadPos)] # Zero
    BY <1>1 DEF ReceiverInv
  <1>13. DataPlaced(m)
    <2>1. CASE receiveSize # 0
      <3>1. Seen(m, 0) # Zero
        BY <2>1, <1>7, <1>10, <1>12
      <3> QED
        BY <3>1, <1>8, <1>11
    <2>2. CASE receiveSize = 0
      <3>1. 1..n = {}
        BY <2>2, <1>9
      <3> QED
        BY <3>1, <1>8
    <2> QED
      BY <2>1, <2>2
  <1>14. ASSUME NEW q \in localReadPos + 1..localReadPos + 1 + receiveSize
         PROVE  ~Unplaced(q)
    <2>1. CASE q = localReadPos + 1 + receiveSize
      <3>1. q \in localReadPos..localReadPos + Size - 1
        BY <2>1, <1>2, <1>5, <1>9
      <3> QED
        BY <2>1, <3>1, <1>1, WordFacts DEF FreeInv
    <2>2. CASE q # localReadPos + 1 + receiveSize
      <3> DEFINE j == q - localReadPos
      <3>1. j \in 1..n /\ localReadPos + j = q
        BY <2>2, <1>2, <1>9
      <3> HIDE DEF j
      <3> QED
        BY <3>1, <1>5, <1>8, <1>13
    <2> QED
      BY <2>1, <2>2
  <1>15. \A j \in 1..receiveSize : receiveBuf[Slot(localReadPos + j)] = Payload(localReadPos + j)
    <2>1. \A j \in 1..n : Seen(m, j) = Payload(localReadPos + j)
      BY <1>5, <1>8, <1>11, <1>13
    <2> QED
      BY <2>1, <1>7, <1>9
  <1>16. receiveSize = outbox[1].len /\ outbox[1].at = localReadPos
    BY <1>5, <1>9 DEF m, n
  <1> QED
    BY <1>3, <1>12, <1>14, <1>15, <1>16

\* Its requests are carried out.
LEMMA AcceptedRequests ==
    ASSUME RingInv, rpc = "pollValidity", receiveBuf[Slot(localReadPos + 1 + receiveSize)] = Validity,
           NEW k \in Writes, sq[k].of.at < localReadPos + receiveSize + 2
    PROVE  \/ k = 1 /\ placed = 0..sq[k].len - 1
           \/ IsSize(sq[k]) /\ sq[k].of.len = 0 /\ receiveBuf[Slot(sq[k].from)] = Zero
  <1>1. /\ RingShape /\ PositionInv /\ OutboxInv /\ RequestInv /\ FreeInv /\ PlacedInv /\ ReceiverInv
        /\ KindInv(k) /\ LeftInv(k) /\ SentInv(k)
    BY DEF RingInv, RequestInv
  <1>2. /\ outbox # <<>> /\ receiveSize = outbox[1].len /\ outbox[1].at = localReadPos
        /\ receiveSize # 0 => receiveBuf[Slot(localReadPos)] # Zero
        /\ \A q \in localReadPos + 1..localReadPos + 1 + receiveSize : ~Unplaced(q)
    BY AcceptedMessage
  <1>3. /\ localReadPos \in Nat /\ Size \in Nat /\ Size >= 2 /\ receiveSize \in Nat
        /\ Accepted = localReadPos
    BY <1>1, PositionFacts, SizeAssumption DEF RingShape
  <1>4. sq[k].of.at \in Nat /\ sq[k].from \in Nat /\ sq[k].len \in Nat \ {0}
    BY <1>1, RequestFacts
  <1>5. CASE sq[k].of.at < localReadPos
    BY <1>1, <1>3, <1>5 DEF LeftInv
  <1>6. CASE sq[k].of.at >= localReadPos
    <2> DEFINE f == sq[k].from
               l == sq[k].len
               n == receiveSize
    <2>1. sq[k].of = outbox[1]
      <3>1. 1 \in 1..Len(outbox)
        BY <1>1, <1>2 DEF OutboxInv
      <3>2. EndOf(outbox[1]) = localReadPos + receiveSize + 2
        BY <3>1, <1>1, <1>2, OutboxFacts
      <3> QED
        BY <3>2, <1>1, <1>2, <1>4, <1>6, OldestMessage
    <2>2. \/ f = localReadPos /\ l = n + 2 /\ IsWhole(sq[k])
          \/ f = localReadPos + 1 /\ l = n + 1 /\ IsData(sq[k])
          \/ f = localReadPos /\ l = 1 /\ IsSize(sq[k])
      BY <2>1, <1>1, <1>2 DEF KindInv, IsWhole, IsData, IsSize, Total
    <2>3. f \in Nat /\ l \in Nat /\ n \in Nat
      BY <1>3, <1>4
    <2>4. k = 1 => placed \subseteq 0..l - 1
      BY <1>1 DEF PlacedInv
    <2>5. ASSUME NEW j \in 0..l - 1, NEW q, q = f + j, ~Unplaced(q)
          PROVE  k = 1 /\ j \in placed
      <3>1. q - f = j /\ f <= q /\ q < f + l
        BY <2>3, <2>5
      <3>2. Covers(k, q)
        BY <3>1 DEF Covers
      <3>3. InPlace(k, q)
        BY <3>2, <2>5 DEF Unplaced
      <3> QED
        BY <3>1, <3>3 DEF InPlace
    <2>6. sq[k].of.len = n
      BY <2>1, <1>2
    <2> HIDE DEF f, l, n
    <2>7. CASE f = localReadPos /\ l = n + 2 /\ IsWhole(sq[k])
      <3>1. l - 1 \in 0..l - 1 /\ f + (l - 1) = localReadPos + 1 + n
            /\ f + (l - 1) \in localReadPos + 1..localReadPos + 1 + n
        BY <2>3, <2>7, <1>3
      <3>2. k = 1 /\ l - 1 \in placed
        BY <3>1, <2>5, <1>2 DEF n
      <3>3. variant = "send"
        BY <2>7, <1>1 DEF KindInv
      <3>4. 0..l - 1 \subseteq placed
        BY <3>2, <3>3, <1>1 DEF PlacedInv
      <3> QED
        BY <3>2, <3>4, <2>4 DEF l
    <2>8. CASE f = localReadPos + 1 /\ l = n + 1 /\ IsData(sq[k])
      <3>1. \A j \in 0..l - 1 : f + j \in localReadPos + 1..localReadPos + 1 + n
        BY <2>3, <2>8, <1>3
      <3>2. \A j \in 0..l - 1 : k = 1 /\ j \in placed
        BY <3>1, <2>5, <1>2 DEF n
      <3>3. 0 \in 0..l - 1
        BY <2>3, <2>8
      <3> QED
        BY <3>2, <3>3, <2>4 DEF l
    <2>9. CASE f = localReadPos /\ l = 1 /\ IsSize(sq[k])
      <3>1. CASE ~Unplaced(localReadPos)
        <4>1. 0 \in 0..l - 1 /\ f + 0 = localReadPos /\ 0..l - 1 = {0}
          BY <2>3, <2>9, <1>3
        <4>2. k = 1 /\ 0 \in placed
          BY <4>1, <3>1, <2>5
        <4> QED
          BY <4>1, <4>2, <2>4 DEF l
      <3>2. CASE Unplaced(localReadPos)
        <4>1. localReadPos \in localReadPos..localReadPos + Size - 1
          BY <1>3
        <4>2. receiveBuf[Slot(localReadPos)] = Zero
          BY <4>1, <3>2, <1>1 DEF FreeInv
        <4>3. sq[k].of.len = 0
          BY <4>2, <2>6, <1>2 DEF n
        <4> QED
          BY <4>2, <4>3, <2>9 DEF f
      <3> QED
        BY <3>1, <3>2
    <2> QED
      BY <2>2, <2>7, <2>8, <2>9
  <1> QED
    BY <1>3, <1>4, <1>5, <1>6

\* A validity word where the size says: the message is complete.
LEMMA PollValidityStep ==
    ASSUME RingInv, PollValidity
    PROVE  RingInv'
  <1>1. /\ UNCHANGED <<sq, placed, receiveBuf, localReadPos, outbox, sendBuf, variant, sendPos,
                       sending, spc, remoteReadPos, unsignaled, receiveSize>>
        /\ rpc = "pollValidity"
        /\ rpc' = IF receiveBuf[Slot(localReadPos + 1 + receiveSize)] = Validity
                  THEN "callback" ELSE "pollSize"
    BY DEF PollValidity, senderVars, adapterVars
  <1>2. /\ RingShape /\ PositionInv /\ OutboxInv /\ RequestInv /\ ReceiverInv /\ receiveSize \in Nat
        /\ localReadPos \in Nat
    BY DEF RingInv, RingShape
  <1>3. Wiped' = Wiped
    BY <1>1 DEF Wiped
  <1>4. CASE receiveBuf[Slot(localReadPos + 1 + receiveSize)] # Validity
    <2>1. rpc' = "pollSize" /\ Accepted' = Accepted
      BY <1>1, <1>4 DEF Accepted
    <2>2. \A k \in Writes : LeftInv(k)'
      BY <2>1, <1>1, <1>2 DEF RequestInv, LeftInv, IsSize
    <2>3. ReceiverInv'
      BY <2>1 DEF ReceiverInv
    <2> QED
      BY <2>1, <2>2, <2>3, <1>1, <1>2, <1>3, Watching
  <1>5. CASE receiveBuf[Slot(localReadPos + 1 + receiveSize)] = Validity
    <2>1. rpc' = "callback" /\ Accepted' = localReadPos + receiveSize + 2
      BY <1>1, <1>2, <1>5 DEF Accepted, Total
    <2>2. \A k \in Writes : LeftInv(k)'
      <3> SUFFICES ASSUME NEW k \in Writes, sq[k].of.at < localReadPos + receiveSize + 2
                   PROVE  \/ k = 1 /\ placed = 0..sq[k].len - 1
                          \/ IsSize(sq[k]) /\ sq[k].of.len = 0 /\ receiveBuf[Slot(sq[k].from)] = Zero
        BY <2>1, <1>1 DEF LeftInv, IsSize
      <3> QED
        BY <1>1, <1>5, AcceptedRequests
    <2>3. ReceiverInv'
      <3>1. /\ outbox # <<>> /\ receiveSize = outbox[1].len
            /\ \A j \in 1..receiveSize : receiveBuf[Slot(localReadPos + j)] = Payload(localReadPos + j)
        BY <1>1, <1>5, AcceptedMessage
      <3> QED
        BY <3>1, <2>1, <1>1 DEF ReceiverInv
    <2> QED
      BY <2>1, <2>2, <2>3, <1>1, <1>2, <1>3, Watching
  <1> QED
    BY <1>4, <1>5

\* The consumed message becomes zero, no other word changes.
LEMMA WipeStep ==
    ASSUME RingInv, Wipe
    PROVE  RingInv'
  <1> DEFINE n == Total(receiveSize)
             zeros == [i \in 0..n - 1 |-> Zero]
  <1>1. /\ UNCHANGED <<sq, placed, localReadPos, outbox, sendBuf, variant, sendPos, sending, spc,
                       remoteReadPos, unsignaled, receiveSize>>
        /\ rpc = "callback" /\ rpc' = "publish"
        /\ receiveBuf' = Overlay(receiveBuf, localReadPos, zeros)
    BY DEF Wipe, senderVars, adapterVars
  <1>2. /\ RingShape /\ PositionInv /\ BuiltInv /\ OutboxInv /\ RequestInv /\ PlacedInv /\ FreeInv
        /\ MessageInv /\ ReceiverInv /\ receiveBuf \in [Cells -> AnyWord]
    BY DEF RingInv, RingShape
  <1>3. /\ PostedEnd \in Nat /\ Accepted \in Nat /\ localReadPos \in Nat /\ Size \in Nat
        /\ Wiped = localReadPos /\ Accepted <= PostedEnd /\ PostedEnd <= localReadPos + Size
        /\ receiveSize \in Nat /\ Accepted = localReadPos + receiveSize + 2
    BY <1>1, <1>2, PositionFacts, SizeAssumption DEF RingShape
  <1>4. n \in Nat /\ Accepted = localReadPos + n /\ n <= Size
    BY <1>3 DEF Total
  <1>5. PostedEnd' = PostedEnd /\ Accepted' = Accepted /\ Wiped' = Accepted
    BY <1>1 DEF PostedEnd, Accepted, Wiped
  <1>6. zeros \in [0..n - 1 -> AnyWord] /\ \A i \in 0..n - 1 : zeros[i] = Zero
    BY WordFacts
  <1> HIDE DEF n, zeros
  <1>7. /\ receiveBuf' \in [Cells -> AnyWord]
        /\ \A i \in 0..n - 1 : receiveBuf'[Slot(localReadPos + i)] = zeros[i]
        /\ \A p \in Nat :
             (p < localReadPos /\ localReadPos + n - p <= Size)
                \/ (p >= localReadPos + n /\ p - localReadPos < Size)
             => receiveBuf'[Slot(p)] = receiveBuf[Slot(p)]
        /\ \A c \in Cells : \/ receiveBuf'[c] = receiveBuf[c]
                            \/ \E i \in 0..n - 1 : receiveBuf'[c] = zeros[i]
    BY <1>1, <1>2, <1>3, <1>4, <1>6, OverlayFacts
  \* The message is zero, what follows is as before, and nothing becomes other than zero.
  <1>8. ASSUME NEW p \in Nat, localReadPos <= p, p < Accepted
        PROVE  receiveBuf'[Slot(p)] = Zero
    <2> DEFINE i == p - localReadPos
    <2>1. i \in 0..n - 1 /\ localReadPos + i = p
      BY <1>3, <1>4, <1>8
    <2> HIDE DEF i
    <2> QED
      BY <2>1, <1>6, <1>7
  <1>9. ASSUME NEW p \in Nat, Accepted <= p, p < localReadPos + Size
        PROVE  receiveBuf'[Slot(p)] = receiveBuf[Slot(p)]
    <2>1. p >= localReadPos + n /\ p - localReadPos < Size
      BY <1>3, <1>4, <1>9
    <2> QED
      BY <2>1, <1>7
  <1>10. \A p \in Nat : receiveBuf[Slot(p)] = Zero => receiveBuf'[Slot(p)] = Zero
    BY <1>6, <1>7, SlotFacts
  <1>11. Writes' = Writes /\ \A p : Unplaced(p)' <=> Unplaced(p)
    BY <1>1, SameRequests
  <1>12. RequestInv'
    <2> SUFFICES ASSUME NEW k \in Writes
                 PROVE  KindInv(k)' /\ DataInv(k)' /\ LeftInv(k)' /\ SentInv(k)' /\ OrderInv(k)'
      BY <1>11 DEF RequestInv
    <2>1. KindInv(k) /\ DataInv(k) /\ LeftInv(k) /\ SentInv(k) /\ OrderInv(k)
      BY <1>2 DEF RequestInv
    <2>2. KindInv(k)' /\ DataInv(k)' /\ OrderInv(k)'
      BY <2>1, <1>1, <1>5, SameRequests
    <2>3. SentInv(k)'
      BY <2>1, <1>1 DEF SentInv
    <2>4. sq[k].from \in Nat
      BY <2>1, <1>2, RequestFacts
    <2>5. LeftInv(k)'
      BY <2>1, <2>4, <1>1, <1>5, <1>10 DEF LeftInv, IsSize
    <2> QED
      BY <2>2, <2>3, <2>5
  <1>13. PlacedInv'
    <2>1. ASSUME 1 \in Writes, sq[1].of.at >= Accepted, NEW i \in placed
          PROVE  receiveBuf'[Slot(sq[1].from + i)] = sq[1].words[i + 1]
      <3> DEFINE f == sq[1].from
                 l == sq[1].len
                 at == sq[1].of.at
      <3>1. KindInv(1)
        BY <2>1, <1>2 DEF RequestInv
      <3>2. f \in Nat /\ l \in Nat /\ at \in Nat /\ at <= f
        BY <2>1, <3>1, <1>2, RequestFacts
      <3>3. f + l <= EndOf(sq[1].of) /\ EndOf(sq[1].of) <= PostedEnd /\ EndOf(sq[1].of) \in Nat
        <4>1. sq[1].of.len \in Nat
          BY <2>1, <3>1, <1>2, RequestFacts, SizeAssumption
        <4> QED
          BY <2>1, <3>1, <4>1, <1>2, RequestFacts
      <3>4. at >= Accepted
        BY <2>1
      <3>5. placed \subseteq 0..l - 1
        BY <2>1, <1>2 DEF PlacedInv
      <3>6. receiveBuf[Slot(f + i)] = sq[1].words[i + 1]
        <4>1. sq[1].of.at >= Wiped
          BY <2>1, <3>2, <1>3
        <4> QED
          BY <4>1, <2>1, <1>2 DEF PlacedInv
      <3> HIDE DEF f, l, at
      <3>7. f + i \in Nat /\ Accepted <= f + i /\ f + i < localReadPos + Size
        BY <3>2, <3>3, <3>4, <3>5, <1>3
      <3> QED
        BY <3>6, <3>7, <1>9 DEF f
    <2> QED
      BY <2>1, <1>1, <1>2, <1>5, <1>11 DEF PlacedInv
  <1>14. OutboxInv'
    BY <1>1, <1>2, <1>5, SameOutbox
  <1>15. FreeInv'
    <2> SUFFICES ASSUME NEW p \in localReadPos..localReadPos + Size - 1,
                        p < Accepted \/ p >= PostedEnd \/ Unplaced(p)
                 PROVE  receiveBuf'[Slot(p)] = Zero
      BY <1>1, <1>5, <1>11 DEF FreeInv
    <2>1. p \in Nat /\ localReadPos <= p
      BY <1>3
    <2>2. CASE p < Accepted
      BY <2>1, <2>2, <1>8
    <2>3. CASE p >= PostedEnd \/ Unplaced(p)
      <3>1. receiveBuf[Slot(p)] = Zero
        BY <2>3, <1>2 DEF FreeInv
      <3> QED
        BY <3>1, <2>1, <1>10
    <2> QED
      BY <2>2, <2>3
  <1>16. MessageInv'
    <2> SUFFICES ASSUME NEW x \in 1..Len(outbox), outbox[x].at >= Accepted
                 PROVE  SeenInv(outbox[x])'
      BY <1>1, <1>5 DEF MessageInv
    <2>1. PICK m, a, b : m = outbox[x] /\ a = m.at /\ b = m.len
      OBVIOUS
    <2>2. a \in Nat /\ b \in Nat /\ EndOf(m) = a + b + 2 /\ EndOf(m) <= PostedEnd /\ a >= Accepted
      BY <2>1, <1>2, OutboxFacts
    <2>3. SeenInv(m)
      <3>1. outbox[x].at >= Wiped
        BY <2>1, <2>2, <1>3
      <3> QED
        BY <2>1, <3>1, <1>2 DEF MessageInv
    <2>4. \A q \in a..a + b + 1 : q \in Nat /\ Accepted <= q /\ q < localReadPos + Size
      BY <2>2, <1>3
    <2>5. \A q \in a..a + b + 1 :
              receiveBuf'[Slot(q)] = receiveBuf[Slot(q)] /\ (Unplaced(q)' <=> Unplaced(q))
      BY <2>4, <1>9, <1>11
    <2>6. m.at = a /\ m.len = b
      BY <2>1
    <2>7. SeenInv(m)'
      BY <2>2, <2>3, <2>5, <2>6, SameMessage
    <2> QED
      BY <2>1, <2>7, <1>1
  <1>17. ReceiverInv'
    BY <1>1, <1>2 DEF ReceiverInv
  <1>18. RingShape' /\ PositionInv' /\ BuiltInv'
    BY <1>1, <1>2, <1>5, <1>7 DEF RingShape, PositionInv, BuiltInv
  <1> QED
    BY <1>12, <1>13, <1>14, <1>15, <1>16, <1>17, <1>18 DEF RingInv

\* Its place is free, and zero, for positions one ring further on.
LEMMA PublishStep ==
    ASSUME RingInv, Publish
    PROVE  RingInv'
  <1>1. /\ UNCHANGED <<sq, placed, receiveBuf, sendBuf, variant, sendPos, sending, spc,
                       remoteReadPos, unsignaled>>
        /\ rpc = "publish" /\ rpc' = "idle" /\ receiveSize' = 0
        /\ localReadPos' = localReadPos + Total(receiveSize)
        /\ outbox' = Tail(outbox)
    BY DEF Publish, senderVars, adapterVars
  <1>2. /\ RingShape /\ PositionInv /\ BuiltInv /\ OutboxInv /\ RequestInv /\ PlacedInv /\ FreeInv
        /\ MessageInv /\ ReceiverInv
    BY DEF RingInv
  <1>3. /\ PostedEnd \in Nat /\ Accepted \in Nat /\ localReadPos \in Nat /\ Size \in Nat /\ Size >= 2
        /\ Wiped = Accepted /\ localReadPos <= Accepted
        /\ Accepted <= PostedEnd /\ PostedEnd <= localReadPos + Size
        /\ outbox # <<>> /\ Accepted = EndOf(outbox[1])
    BY <1>1, <1>2, PositionFacts, SizeAssumption
  <1>4. localReadPos' = Accepted /\ Accepted > localReadPos
    <2>1. receiveSize \in Nat /\ Accepted = localReadPos + receiveSize + 2
      BY <1>1, <1>2, PositionFacts DEF RingShape
    <2> QED
      BY <2>1, <1>1, <1>3 DEF Total
  <1>5. PostedEnd' = PostedEnd /\ Accepted' = Accepted /\ Wiped' = Wiped
    BY <1>1, <1>3, <1>4 DEF PostedEnd, Accepted, Wiped
  <1>6. Writes' = Writes /\ \A p : Unplaced(p)' <=> Unplaced(p)
    BY <1>1, SameRequests
  <1> DEFINE N == Len(outbox)
  <1>7. /\ outbox' \in Seq(Message) /\ Len(outbox') = N - 1 /\ N \in Nat /\ N >= 1
        /\ \A x \in 1..N - 1 : outbox'[x] = outbox[x + 1]
    <2>1. outbox \in Seq(Message)
      BY <1>2 DEF OutboxInv
    <2> QED
      BY <2>1, <1>1, <1>3, HeadTailProperties
  <1>8. /\ outbox[1].at = localReadPos /\ EndOf(outbox[N]) = PostedEnd
        /\ \A x \in 1..N - 1 : EndOf(outbox[x]) = outbox[x + 1].at
        /\ \A x, y \in 1..N : x < y => EndOf(outbox[x]) <= outbox[y].at
    BY <1>2, <1>3 DEF OutboxInv
  <1> HIDE DEF N
  <1>9. OutboxInv'
    <2>1. outbox' = <<>> => localReadPos' = PostedEnd
      <3> SUFFICES ASSUME outbox' = <<>> PROVE Accepted = PostedEnd
        BY <1>4
      <3>1. N = 1
        BY <1>7
      <3> QED
        BY <3>1, <1>3, <1>8
    <2>2. outbox' # <<>> => outbox'[1].at = localReadPos' /\ EndOf(outbox'[Len(outbox')]) = PostedEnd
      <3> SUFFICES ASSUME outbox' # <<>>
                   PROVE  outbox'[1].at = Accepted /\ EndOf(outbox'[Len(outbox')]) = PostedEnd
        BY <1>4
      <3>1. N # 1
        BY <1>7
      <3>2. 1 \in 1..N - 1 /\ N - 1 \in 1..N - 1 /\ (N - 1) + 1 = N
        BY <3>1, <1>7
      <3>3. outbox'[1] = outbox[1 + 1] /\ EndOf(outbox[1]) = outbox[1 + 1].at
        BY <3>2, <1>7, <1>8
      <3>4. outbox'[N - 1] = outbox[N]
        BY <3>2, <1>7
      <3> QED
        BY <3>3, <3>4, <1>3, <1>7, <1>8
    <2>3. \A x \in 1..Len(outbox') - 1 : EndOf(outbox'[x]) = outbox'[x + 1].at
      <3> SUFFICES ASSUME NEW x \in 1..Len(outbox') - 1
                   PROVE  EndOf(outbox'[x]) = outbox'[x + 1].at
        OBVIOUS
      <3>1. x \in 1..N - 1 /\ x + 1 \in 1..N - 1
        BY <1>7
      <3> QED
        BY <3>1, <1>7, <1>8
    <2>4. \A x, y \in 1..Len(outbox') : x < y => EndOf(outbox'[x]) <= outbox'[y].at
      <3> SUFFICES ASSUME NEW x \in 1..Len(outbox'), NEW y \in 1..Len(outbox'), x < y
                   PROVE  EndOf(outbox'[x]) <= outbox'[y].at
        OBVIOUS
      <3>1. x \in 1..N - 1 /\ y \in 1..N - 1 /\ x + 1 \in 1..N /\ y + 1 \in 1..N /\ x + 1 < y + 1
        BY <1>7
      <3>2. EndOf(outbox[x + 1]) <= outbox[y + 1].at
        BY <3>1, <1>8
      <3> QED
        BY <3>1, <3>2, <1>7
    <2> QED
      BY <2>1, <2>2, <2>3, <2>4, <1>5, <1>7 DEF OutboxInv, EndOf
  <1>10. RequestInv'
    <2> SUFFICES ASSUME NEW k \in Writes
                 PROVE  KindInv(k)' /\ DataInv(k)' /\ LeftInv(k)' /\ SentInv(k)' /\ OrderInv(k)'
      BY <1>6 DEF RequestInv
    <2>1. KindInv(k) /\ DataInv(k) /\ LeftInv(k) /\ SentInv(k) /\ OrderInv(k)
      BY <1>2 DEF RequestInv
    <2>2. KindInv(k)' /\ DataInv(k)' /\ OrderInv(k)'
      BY <2>1, <1>1, <1>5, SameRequests
    <2>3. LeftInv(k)'
      BY <2>1, <1>1, <1>5 DEF LeftInv, IsSize
    <2>4. SentInv(k)'
      <3> SUFFICES ASSUME sq[k].of.at >= Accepted
                   PROVE  \E x \in 1..Len(outbox') : outbox'[x] = sq[k].of
        BY <1>1, <1>4 DEF SentInv
      <3>1. sq[k].of.at \in Nat
        BY <2>1, <1>2, RequestFacts
      <3>2. PICK x \in 1..N : outbox[x] = sq[k].of
        <4>1. sq[k].of.at >= localReadPos
          BY <3>1, <1>3
        <4> QED
          BY <4>1, <2>1 DEF SentInv, N
      <3>3. x # 1
        <4>1. sq[k].of.at # localReadPos
          BY <3>1, <1>3, <1>4
        <4> QED
          BY <4>1, <3>2, <1>8
      <3> DEFINE y == x - 1
      <3>4. y \in 1..N - 1 /\ y + 1 = x
        BY <3>3, <1>7
      <3> HIDE DEF y
      <3>5. outbox'[y] = sq[k].of
        BY <3>2, <3>4, <1>7
      <3> QED
        BY <3>4, <3>5, <1>7
    <2> QED
      BY <2>2, <2>3, <2>4
  <1>11. PlacedInv'
    BY <1>1, <1>2, <1>5, <1>6 DEF PlacedInv
  <1>12. FreeInv'
    <2> SUFFICES ASSUME NEW p \in Accepted..Accepted + Size - 1, p >= PostedEnd \/ Unplaced(p)
                 PROVE  receiveBuf[Slot(p)] = Zero
      <3>1. \A p \in Accepted..Accepted + Size - 1 : ~(p < Wiped)
        BY <1>3
      <3> QED
        BY <3>1, <1>1, <1>4, <1>5, <1>6 DEF FreeInv
    <2>1. p \in Nat
      BY <1>3
    <2>2. CASE p < localReadPos + Size
      <3>1. p \in localReadPos..localReadPos + Size - 1
        BY <2>1, <2>2, <1>3
      <3> QED
        BY <3>1, <1>2 DEF FreeInv
    \* The place of the consumed message, once more round the ring.
    <2>3. CASE p >= localReadPos + Size
      <3> DEFINE q == p - Size
      <3>1. q \in localReadPos..localReadPos + Size - 1 /\ q < Wiped /\ q \in Nat /\ q + Size = p
        BY <2>1, <2>3, <1>3
      <3> HIDE DEF q
      <3>2. receiveBuf[Slot(q)] = Zero
        BY <3>1, <1>2 DEF FreeInv
      <3>3. Slot(q + Size) = Slot(q)
        BY <3>1, SlotFacts
      <3> QED
        BY <3>1, <3>2, <3>3
    <2> QED
      BY <2>1, <2>2, <2>3, <1>3
  <1>13. MessageInv'
    <2> SUFFICES ASSUME NEW x \in 1..Len(outbox'), outbox'[x].at >= Wiped
                 PROVE  SeenInv(outbox[x])'
      BY <1>5 DEF MessageInv
    <2>1. PICK m : m = outbox'[x]
      OBVIOUS
    <2>2. m = outbox[x + 1] /\ x + 1 \in 1..Len(outbox)
      BY <2>1, <1>7 DEF N
    <2>3. SeenInv(m)
      BY <2>1, <2>2, <1>2 DEF MessageInv
    <2>4. SeenInv(m)'
      BY <2>3, <1>1, <1>6 DEF SeenInv, Seen, DataPlaced
    <2> QED
      BY <2>1, <2>4
  <1>14. PositionInv'
    BY <1>1, <1>2, <1>3, <1>4, <1>5 DEF PositionInv, RingShape
  <1>15. RingShape'
    BY <1>1, <1>2, <1>3, <1>4 DEF RingShape
  <1>16. BuiltInv' /\ ReceiverInv'
    BY <1>1, <1>2 DEF BuiltInv, ReceiverInv
  <1> QED
    BY <1>9, <1>10, <1>11, <1>12, <1>13, <1>14, <1>15, <1>16 DEF RingInv
-----------------------------------------------------------------------------
(* The theorems                                                             *)

\* Every step preserves the invariant.
LEMMA RingSteps ==
    ASSUME RingSafe, RingInv, [Next]_vars
    PROVE  RingInv'
  <1>1. CASE BeginSend
    BY <1>1, FillStep, TooLargeStep DEF BeginSend
  <1>2. CASE Sender
    BY <1>2, PostReadStep, PollReadStep, PostMessageStep, WaitStep DEF Sender
  <1>3. CASE Adapter
    BY <1>3, FetchStep, SampleStep, AcknowledgeStep, PlaceStep DEF Adapter
  <1>4. CASE StartReceive
    BY <1>4, BeginReceiveStep DEF StartReceive
  <1>5. CASE Receiver
    BY <1>5, PollSizeStep, PollValidityStep, ThrowStep, WipeStep, PublishStep DEF Receiver
  <1>6. CASE UNCHANGED vars
    <2>1. UNCHANGED <<sq, placed, receiveBuf, localReadPos, outbox, sendBuf, variant, sendPos,
                      sending, spc, rpc, receiveSize, remoteReadPos, unsignaled>>
      BY <1>6 DEF vars, senderVars, adapterVars, receiverVars
    <2>2. PostedEnd' = PostedEnd /\ Accepted' = Accepted /\ Wiped' = Wiped
      BY <2>1 DEF PostedEnd, Accepted, Wiped
    <2>3. OutboxInv' /\ RequestInv' /\ PlacedInv' /\ FreeInv' /\ MessageInv'
      BY <2>1, <2>2, Idle
    <2>4. RingShape' /\ PositionInv' /\ BuiltInv' /\ ReceiverInv'
      BY <2>1, <2>2 DEF RingInv, RingShape, PositionInv, BuiltInv, ReceiverInv
    <2> QED
      BY <2>3, <2>4 DEF RingInv
  <1> QED
    BY <1>1, <1>2, <1>3, <1>4, <1>5, <1>6 DEF Next

\* RingInv holds in every state of the ring.
THEOREM RingInvariant ==
    ASSUME RingSafe
    PROVE  Spec => []RingInv
  <1>1. RingInv /\ [Next]_vars => RingInv'
    BY RingSteps
  <1> QED
    BY <1>1, RingStarts, PTL DEF Spec

\* What the invariant says of the messages and of the ring.
LEMMA RingSafety ==
    ASSUME RingInv
    PROVE  AcceptsWholeMessages /\ FreeRingIsZero /\ ReadPosIsLowerBound
  <1>1. AcceptsWholeMessages
    <2> SUFFICES ASSUME rpc = "callback"
                 PROVE  /\ outbox # <<>>
                        /\ receiveSize = Head(outbox).len
                        /\ \A i \in 1..receiveSize :
                              receiveBuf[Slot(localReadPos + i)] = Payload(localReadPos + i)
      BY DEF AcceptsWholeMessages
    <2>1. /\ outbox # <<>> /\ receiveSize = outbox[1].len
          /\ \A i \in 1..receiveSize :
                receiveBuf[Slot(localReadPos + i)] = Payload(localReadPos + i)
      BY DEF RingInv, ReceiverInv
    <2>2. Head(outbox) = outbox[1]
      OBVIOUS
    <2> QED
      BY <2>1, <2>2
  <1>2. FreeRingIsZero
    <2>1. PostedEnd - localReadPos <= Size
      BY DEF RingInv, PositionInv
    <2>2. PostedEnd \in Nat /\ localReadPos \in Nat /\ Size \in Nat /\ localReadPos <= PostedEnd
      BY PositionFacts, SizeAssumption DEF RingInv
    <2>3. ASSUME NEW p \in PostedEnd..localReadPos + Size - 1
          PROVE  receiveBuf[Slot(p)] = Zero
      <3>1. p \in localReadPos..localReadPos + Size - 1 /\ p >= PostedEnd
        BY <2>2
      <3> QED
        BY <3>1 DEF RingInv, FreeInv
    <2> QED
      BY <2>1, <2>3 DEF FreeRingIsZero
  <1>3. ReadPosIsLowerBound
    BY DEF RingInv, PositionInv, ReadPosIsLowerBound
  <1> QED
    BY <1>1, <1>2, <1>3

\* The receiver never takes a message that is not there whole: what receive's
\* poll loop accepts is the oldest message sent, with its length and all of its
\* payload, whatever the order in which requests are built, fetched and placed.
THEOREM AcceptsWhole ==
    ASSUME RingSafe
    PROVE  Spec => []AcceptsWholeMessages
  <1>1. RingInv => AcceptsWholeMessages
    BY RingSafety
  <1> QED
    BY <1>1, RingInvariant, PTL

\* The place of the next message is always zero when the receiver gets there:
\* what is wiped before localReadPos is published is never too little, and the
\* posted messages never exceed the ring.
THEOREM FreeRing ==
    ASSUME RingSafe
    PROVE  Spec => []FreeRingIsZero
  <1>1. RingInv => FreeRingIsZero
    BY RingSafety
  <1> QED
    BY <1>1, RingInvariant, PTL

\* The sender's copy of the reader's position, which READs fetch while the
\* reader goes on, is never ahead of it: space is never used before it is free.
THEOREM ReadPosLowerBound ==
    ASSUME RingSafe
    PROVE  Spec => []ReadPosIsLowerBound
  <1>1. RingInv => ReadPosIsLowerBound
    BY RingSafety
  <1> QED
    BY <1>1, RingInvariant, PTL
=============================================================================
