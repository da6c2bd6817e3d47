---------------------- MODULE VirtualRingBuffer_proofs ----------------------
(***************************************************************************)
(* Proofs about VirtualRingBuffer for every buffer size, word width, run   *)
(* length and set of lengths.                                              *)
(***************************************************************************)
EXTENDS VirtualRingBuffer, SequenceTheorems, TLAPS

\* Two stream positions less than S apart have different slots: what makes the
\* masked index of the ring buffer safe while at most size bytes are unread.
LEMMA ModInjective ==
    ASSUME NEW S \in Nat \ {0}, NEW i \in Nat, NEW j \in Nat, i < j, j - i < S
    PROVE  i % S # j % S
  <1>1. i = (S * (i \div S)) + (i % S) /\ i \div S \in Int
    OBVIOUS
  <1>2. j = (S * (j \div S)) + (j % S) /\ j \div S \in Int
    OBVIOUS
  <1> SUFFICES ASSUME i % S = j % S PROVE FALSE
    OBVIOUS
  <1> DEFINE d == (j \div S) - (i \div S)
  <1>3. d \in Int /\ j - i = S * d
    BY <1>1, <1>2
  <1>4. CASE d <= 0
    <2>1. S * d <= 0
      BY <1>3, <1>4
    <2> QED
      BY <2>1, <1>3
  <1>5. CASE d >= 1
    <2>1. S * d >= S
      BY <1>3, <1>5
    <2> QED
      BY <2>1, <1>3
  <1> QED
    BY <1>3, <1>4, <1>5

\* A stream position has a slot in the buffer.
LEMMA SlotInCells == \A p \in Nat : Slot(p) \in Cells
  BY SizeAssumption DEF Slot, Cells

\* Slots of different positions that are less than Size apart are different.
LEMMA SlotsDiffer ==
    ASSUME NEW p \in Nat, NEW q \in Nat, p < q, q - p < Size
    PROVE  Slot(p) # Slot(q)
  BY ModInjective, SizeAssumption DEF Slot

\* The counters' difference does not wrap as long as the reader is behind.
LEMMA SubtractionExact ==
    ASSUME NEW a \in 0..MaxBytes, NEW b \in 0..MaxBytes, b <= a
    PROVE  USub(a, b) = a - b
  BY WordAssumption, BytesAssumption DEF USub

\* The two sides are each other's peers.
LEMMA PeerFacts ==
    ASSUME NEW s \in Side
    PROVE  /\ Peer(s) \in Side /\ Peer(s) # s /\ Peer(Peer(s)) = s
           /\ \A t \in Side : t = s \/ t = Peer(s)
  BY DEF Side, Peer

-----------------------------------------------------------------------------
\* Constructed rings have no call in progress.
LEMMA CallsInit == Init => CallsOK
  <1> SUFFICES ASSUME Init PROVE CallsOK
    OBVIOUS
  <1>1. TypeOK
    <2>1. cachedRemoteRead \in [Side -> 0..Word - 1]
      BY GarbageAssumption DEF Init
    <2>2. local \in [Side -> [Cells -> 0..MaxBytes]]
      BY BytesAssumption DEF Init
    <2> QED
      BY <2>1, <2>2, SizeAssumption, BytesAssumption
      DEF Init, TypeOK, Sending, Receiving
  <1>2. ASSUME NEW s \in Side PROVE CallInv(s)
    BY PeerFacts DEF Init, CallInv, Sending, Receiving
  <1> QED
    BY <1>1, <1>2 DEF CallsOK

\* What a call has established survives its own and the other side's steps.
LEMMA CallsStep == CallsOK /\ [Next]_vars => CallsOK'
  <1> SUFFICES ASSUME CallsOK, [Next]_vars PROVE CallsOK'
    OBVIOUS
  <1> USE SizeAssumption, WordAssumption, BytesAssumption, LengthsAssumption,
          UnreadAssumption
  <1>0. TypeOK /\ \A s \in Side : CallInv(s)
    BY DEF CallsOK
  <1>u. CASE UNCHANGED vars
    BY <1>u, <1>0
    DEF vars, CallsOK, TypeOK, CallInv, Unread, Sending, Receiving
  <1>n. ASSUME NEW s \in Side, Step(s) \/ Call(s)
        PROVE  CallsOK'
    <2>p. /\ Peer(s) \in Side /\ Peer(s) # s /\ Peer(Peer(s)) = s
          /\ \A t \in Side : t = s \/ t = Peer(s)
      BY PeerFacts
    <2>c. CallInv(s) /\ CallInv(Peer(s)) /\ TypeOK
      BY <1>0, <2>p
    <2>a. USub(written[Peer(s)], read[s]) = written[Peer(s)] - read[s]
      BY <2>c, <2>p, SubtractionExact DEF TypeOK, CallInv
    <2>s. SUFFICES TypeOK' /\ CallInv(s)' /\ CallInv(Peer(s))'
      BY <2>p DEF CallsOK
    <2>1. CASE \E n \in Lengths : BeginSend(s, n)
      BY <2>1, <2>p, <2>c
      DEF BeginSend, Enter, Goto, TypeOK, CallInv, Unread, Sending, Receiving
    <2>2. CASE \E n \in Lengths : BeginReceive(s, n, "waitAll")
      BY <2>2, <2>p, <2>c
      DEF BeginReceive, Enter, Goto, TypeOK, CallInv, Unread, Sending, Receiving
    <2>3. CASE \E n \in Lengths : BeginReceive(s, n, "waitSome")
      BY <2>3, <2>p, <2>c
      DEF BeginReceive, Enter, Goto, TypeOK, CallInv, Unread, Sending, Receiving
    <2>4. CASE CheckFree(s)
      BY <2>4, <2>p, <2>c
      DEF CheckFree, Goto, TypeOK, CallInv, Unread, Sending, Receiving
    <2>5. CASE LoadRead(s)
      BY <2>5, <2>p, <2>c
      DEF LoadRead, Goto, TypeOK, CallInv, Unread, Sending, Receiving
    <2>6. CASE CopyIn(s)
      <3> DEFINE p == written[s] + copied[s]
      <3>1. p \in Nat /\ ByteAt(p) \in 0..MaxBytes
        BY <2>6, <2>c DEF CopyIn, ByteAt, TypeOK, CallInv, Sending
      <3>2. local' \in [Side -> [Cells -> 0..MaxBytes]]
        BY <2>6, <2>c, <3>1, SlotInCells DEF CopyIn, TypeOK
      <3>3. TypeOK'
        BY <2>6, <2>c, <3>2
        DEF CopyIn, Goto, TypeOK, CallInv, Sending, Receiving
      <3> HIDE DEF p
      <3>4. CallInv(s)' /\ CallInv(Peer(s))'
        BY <2>6, <2>p, <2>c
        DEF CopyIn, Goto, TypeOK, CallInv, Unread, Sending, Receiving
      <3> QED
        BY <3>3, <3>4
    <2>7. CASE StoreWritten(s)
      BY <2>7, <2>p, <2>c
      DEF StoreWritten, Return, Goto, TypeOK, CallInv, Unread, Sending, Receiving
    <2>8. CASE WaitAll(s)
      BY <2>8, <2>p, <2>c, <2>a
      DEF WaitAll, Available, Goto, TypeOK, CallInv, Unread, Sending, Receiving
    <2>9. CASE WaitSome(s)
      BY <2>9, <2>p, <2>c, <2>a
      DEF WaitSome, Available, Goto, TypeOK, CallInv, Unread, Sending, Receiving
    <2>10. CASE LoadWritten(s)
      BY <2>10, <2>p, <2>c, <2>a
      DEF LoadWritten, Available, Min2, Goto, TypeOK, CallInv, Unread, Sending, Receiving
    <2>11. CASE CopyOut(s)
      <3>1. read[s] + copied[s] \in Nat
        BY <2>c DEF TypeOK
      <3>2. local[Peer(s)][Slot(read[s] + copied[s])] \in 0..MaxBytes
        BY <3>1, <2>p, <2>c, SlotInCells DEF TypeOK
      <3>3. got' \in [Side -> 0..MaxBytes]
        BY <3>2, <2>11, <2>c DEF CopyOut, TypeOK
      <3>4. TypeOK'
        BY <3>3, <2>11, <2>c
        DEF CopyOut, Goto, TypeOK, CallInv, Sending, Receiving
      <3>5. CallInv(s)' /\ CallInv(Peer(s))'
        BY <2>11, <2>p, <2>c
        DEF CopyOut, Goto, TypeOK, CallInv, Unread, Sending, Receiving
      <3> QED
        BY <3>4, <3>5
    <2>12. CASE StoreRead(s)
      BY <2>12, <2>p, <2>c
      DEF StoreRead, Return, Goto, TypeOK, CallInv, Unread, Sending, Receiving
    <2> QED
      BY <1>n, <2>1, <2>2, <2>3, <2>4, <2>5, <2>6, <2>7, <2>8, <2>9, <2>10,
         <2>11, <2>12 DEF Step, Call
  <1> QED
    BY <1>u, <1>n DEF Next

\* Type correctness, for every caller: no call runs past its buffer or the
\* counters, the reader never overtakes the writer.
THEOREM TypeCorrect == Spec => []TypeOK
  <1>1. CallsOK => TypeOK
    BY DEF CallsOK
  <1> QED
    BY CallsInit, CallsStep, <1>1, PTL DEF Spec

-----------------------------------------------------------------------------
\* Fresh rings hold no unread bytes.
LEMMA RingInit == Init => RingInv
  <1> SUFFICES ASSUME Init PROVE RingInv
    OBVIOUS
  <1>1. ASSUME NEW s \in Side PROVE ContentInv(s)
    BY PeerFacts, UnreadAssumption DEF Init, ContentInv, Unread, Filled
  <1> QED
    BY <1>1, CallsInit DEF RingInv

\* The step proof splits on the action; only the copies and the stores to the
\* counters disturb ContentInv.
LEMMA RingStep == MaxUnread <= Size /\ RingInv /\ [Next]_vars => RingInv'
  <1> SUFFICES ASSUME MaxUnread <= Size, RingInv, [Next]_vars PROVE RingInv'
    OBVIOUS
  <1> USE SizeAssumption, WordAssumption, BytesAssumption, LengthsAssumption,
          UnreadAssumption
  <1>0. CallsOK /\ CallsOK' /\ \A s \in Side : ContentInv(s)
    BY CallsStep DEF RingInv
  <1>t. TypeOK /\ TypeOK'
    BY <1>0 DEF CallsOK
  <1>u. CASE UNCHANGED vars
    BY <1>u, <1>0 DEF vars, RingInv, ContentInv, Unread, Filled
  <1>n. ASSUME NEW s \in Side, Step(s) \/ Call(s)
        PROVE  RingInv'
    <2> DEFINE r == Peer(s)
    <2>p. /\ r \in Side /\ r # s /\ Peer(r) = s
          /\ \A t \in Side : t = s \/ t = r
      BY PeerFacts
    <2>c. CallInv(s) /\ CallInv(r) /\ ContentInv(s) /\ ContentInv(r)
      BY <1>0, <2>p DEF CallsOK
    <2> HIDE DEF r
    <2>s. SUFFICES ContentInv(s)' /\ ContentInv(r)'
      BY <1>0, <2>p DEF RingInv
    <2> DEFINE Quiet == /\ UNCHANGED <<written, read, local, got>>
                        /\ UNCHANGED <<pc[r], copied[r]>>
                        /\ copied[s]' = 0
                        /\ pc[s]' \notin {"storeWritten", "storeRead"}
                        /\ copied[s] = 0
    <2>q. ASSUME Quiet PROVE ContentInv(s)' /\ ContentInv(r)'
      BY <2>q, <2>p, <2>c, <1>t DEF ContentInv, Unread, Filled, r, TypeOK
    <2>1. CASE \E n \in Lengths : BeginSend(s, n)
      <3>1. Quiet
        BY <2>1, <2>p, <2>c, <1>t
        DEF BeginSend, Enter, Goto, CallInv, TypeOK
      <3> QED
        BY <3>1, <2>q
    <2>2. CASE \E n \in Lengths : \E w \in {"waitAll", "waitSome"} : BeginReceive(s, n, w)
      <3>1. Quiet
        BY <2>2, <2>p, <2>c, <1>t
        DEF BeginReceive, Enter, Goto, CallInv, TypeOK
      <3> QED
        BY <3>1, <2>q
    <2>3. CASE CheckFree(s) \/ LoadRead(s) \/ WaitAll(s) \/ WaitSome(s) \/ LoadWritten(s)
      <3>1. Quiet
        BY <2>3, <2>p, <2>c, <1>t
        DEF CheckFree, LoadRead, WaitAll, WaitSome, LoadWritten, Goto, CallInv, TypeOK
      <3> QED
        BY <3>1, <2>q
    <2>4. CASE CopyIn(s)
      <3> DEFINE p == written[s] + copied[s]
      <3>a. /\ pc[s] = "copyIn" /\ pc[s]' \in {"copyIn", "storeWritten"}
            /\ copied[s]' = copied[s] + 1 /\ written' = written /\ read' = read
        BY <2>4, <1>t DEF CopyIn, Goto, TypeOK
      <3>b. /\ copied[s] < len[s] /\ written[s] - read[r] + len[s] <= MaxUnread
            /\ copied[s] \in Nat /\ written[s] \in Nat /\ read[r] \in Nat /\ len[s] \in Nat
        BY <3>a, <2>p, <2>c, <1>t DEF CallInv, TypeOK, Unread, Sending, r
      <3>1. /\ p \in Nat /\ Filled(s) = p /\ Filled(s)' = p + 1
            /\ read[r] \in Nat /\ p - read[r] < Size
        BY <3>a, <3>b DEF Filled
      <3>2. /\ local[s]' = [local[s] EXCEPT ![Slot(p)] = ByteAt(p)]
            /\ local[r]' = local[r]
        BY <2>4, <2>p, <1>t DEF CopyIn, TypeOK
      <3>3. Slot(p) \in Cells /\ local[s]'[Slot(p)] = ByteAt(p)
        BY <3>1, <3>2, SlotInCells, <1>t DEF TypeOK
      <3>4. ASSUME NEW q \in read[r]..p - 1
            PROVE  local[s]'[Slot(q)] = ByteAt(q)
        <4>1. q \in Nat /\ q < p /\ p - q < Size
          BY <3>1
        <4>2. Slot(q) # Slot(p) /\ Slot(q) \in Cells
          BY <4>1, <3>1, SlotsDiffer, SlotInCells
        <4>3. local[s][Slot(q)] = ByteAt(q)
          BY <2>c, <3>1 DEF ContentInv, r
        <4> QED
          BY <4>2, <4>3, <3>2, <1>t DEF TypeOK
      <3>5. \A q \in (read[r]..Filled(s) - 1)' : (local[s][Slot(q)] = ByteAt(q))'
        BY <3>1, <3>3, <3>4, <2>4 DEF CopyIn, Slot, ByteAt
      <3>6. ContentInv(s)'
        BY <3>5, <2>4, <2>c, <2>p, <1>t
        DEF ContentInv, CopyIn, Goto, Unread, TypeOK, r
      <3>7. ContentInv(r)'
        BY <3>2, <2>4, <2>c, <2>p, <1>t
        DEF ContentInv, CopyIn, Goto, Unread, Filled, TypeOK, Slot, ByteAt
      <3> QED
        BY <3>6, <3>7
    <2>5. CASE StoreWritten(s)
      BY <2>5, <2>p, <2>c, <1>t
      DEF StoreWritten, Return, Goto, ContentInv, CallInv, Unread, Filled, TypeOK,
          Sending, r
    <2>6. CASE CopyOut(s)
      <3>a. /\ read[s] \in Nat /\ copied[s] \in Nat /\ written[r] \in Nat
            /\ read[s] + copied[s] < written[r] /\ written[r] <= Filled(r)
        BY <2>6, <2>p, <2>c, <1>t DEF CopyOut, CallInv, Filled, TypeOK, r
      <3>b. Filled(r) \in Nat
        BY <2>p, <1>t DEF Filled, TypeOK
      <3>c. \A q \in read[s]..Filled(r) - 1 : local[r][Slot(q)] = ByteAt(q)
        BY <2>c, <2>p DEF ContentInv
      <3>d. local[r][Slot(read[s] + copied[s])] = ByteAt(read[s] + copied[s])
        BY <3>a, <3>b, <3>c
      <3>1. got[s]' = ByteAt(read[s] + copied[s])
        BY <3>d, <2>6, <2>p, <1>t DEF CopyOut, TypeOK, r
      <3> QED
        BY <3>1, <2>6, <2>p, <2>c, <1>t
        DEF CopyOut, Goto, ContentInv, CallInv, Unread, Filled, TypeOK, r
    <2>7. CASE StoreRead(s)
      BY <2>7, <2>p, <2>c, <1>t
      DEF StoreRead, Return, Goto, ContentInv, CallInv, Unread, Filled, TypeOK, r
    <2> QED
      BY <1>n, <2>1, <2>2, <2>3, <2>4, <2>5, <2>6, <2>7 DEF Step, Call
  <1> QED
    BY <1>u, <1>n DEF Next

\* No published byte is overwritten before its reader has released it, whatever
\* the sizes and the uninitialised cache, as long as callers never have more
\* than the buffer's size unread in flight (which the code itself does not
\* enforce: VirtualRingBuffer.cpp:37).
THEOREM UnreadBytesSafe ==
    ASSUME MaxUnread <= Size
    PROVE  Spec => []UnreadBytesIntact
  <1>1. RingInv => UnreadBytesIntact
    BY PeerFacts, BytesAssumption, SizeAssumption
    DEF RingInv, CallsOK, TypeOK, ContentInv, UnreadBytesIntact, Filled
  <1>2. RingInv /\ [Next]_vars => RingInv'
    BY RingStep
  <1> QED
    BY RingInit, <1>1, <1>2, PTL DEF Spec

\* Under the same assumption receive and receiveSome hand out the stream in
\* order, and only published bytes of it.
THEOREM StreamInOrder ==
    ASSUME MaxUnread <= Size
    PROVE  Spec => []ReceivesStreamInOrder
  <1>1. RingInv => ReceivesStreamInOrder
    BY PeerFacts, BytesAssumption, SizeAssumption
    DEF RingInv, CallsOK, TypeOK, ContentInv, CallInv, ReceivesStreamInOrder
  <1>2. RingInv /\ [Next]_vars => RingInv'
    BY RingStep
  <1> QED
    BY RingInit, <1>1, <1>2, PTL DEF Spec

-----------------------------------------------------------------------------
(* The refinement of ByteStream                                             *)

\* The bytes of a stream from position a up to, not including, position b.
Segment(a, b) == [i \in 1..(b - a) |-> ByteAt(a + i - 1)]

\* Taking the first byte of a segment leaves the segment that starts one later.
LEMMA SegmentHead ==
    ASSUME NEW a \in Nat, NEW b \in Nat, a < b
    PROVE  /\ Segment(a, b) # <<>>
           /\ Head(Segment(a, b)) = ByteAt(a)
           /\ Tail(Segment(a, b)) = Segment(a + 1, b)
  <1>1. Segment(a, b) \in Seq(Nat) /\ Len(Segment(a, b)) = b - a
    BY DEF Segment, ByteAt
  <1>2. Head(Segment(a, b)) = ByteAt(a)
    BY <1>1 DEF Segment, ByteAt
  <1>3. /\ Tail(Segment(a, b)) \in Seq(Nat) /\ Len(Tail(Segment(a, b))) = (b - a) - 1
        /\ \A i \in 1..((b - a) - 1) : Tail(Segment(a, b))[i] = Segment(a, b)[i + 1]
    BY <1>1
  <1>4. Segment(a + 1, b) \in Seq(Nat) /\ Len(Segment(a + 1, b)) = (b - a) - 1
    BY DEF Segment, ByteAt
  <1>5. \A i \in 1..((b - a) - 1) : Segment(a, b)[i + 1] = Segment(a + 1, b)[i]
    BY DEF Segment, ByteAt
  <1>6. Tail(Segment(a, b)) = Segment(a + 1, b)
    BY <1>3, <1>4, <1>5, SeqEqual
  <1>7. Segment(a, b) # <<>>
    BY <1>1
  <1> QED
    BY <1>2, <1>6, <1>7

\* Segments that meet make one segment.
LEMMA SegmentAppend ==
    ASSUME NEW a \in Nat, NEW b \in Nat, NEW c \in Nat, a <= b, b <= c
    PROVE  Segment(a, b) \o Segment(b, c) = Segment(a, c)
  <1> DEFINE old == Segment(a, b)
             new == Segment(b, c)
             whole == old \o new
  <1>1. old \in Seq(Nat) /\ Len(old) = b - a
    BY DEF Segment, ByteAt
  <1>2. new \in Seq(Nat) /\ Len(new) = c - b
    BY DEF Segment, ByteAt
  <1>3. Segment(a, c) \in Seq(Nat) /\ Len(Segment(a, c)) = c - a
    BY DEF Segment, ByteAt
  <1> HIDE DEF old, new
  <1>4. /\ whole \in Seq(Nat) /\ Len(whole) = Len(old) + Len(new)
        /\ \A i \in 1..Len(old) + Len(new) :
              whole[i] = IF i <= Len(old) THEN old[i] ELSE new[i - Len(old)]
    BY <1>1, <1>2, ConcatProperties
  <1>5. Len(old) + Len(new) = c - a
    BY <1>1, <1>2
  <1>6. \A i \in 1..(c - a) : whole[i] = Segment(a, c)[i]
    BY <1>1, <1>4, <1>5 DEF Segment, ByteAt, old, new
  <1> HIDE DEF whole
  <1>7. whole = Segment(a, c)
    BY <1>3, <1>4, <1>5, <1>6, SeqEqual
  <1> QED
    BY <1>7 DEF whole, old, new

\* The memory between the reader's and the writer's position is the stream.
StreamInMemory == \A s \in Side :
    /\ Taken(Peer(s)) \in Nat /\ written[s] \in Nat
    /\ Taken(Peer(s)) <= written[s]
    /\ Undelivered(s) = Segment(Taken(Peer(s)), written[s])

\* RingInv says so, in terms of what the reader has copied out already.
LEMMA UndeliveredIsStream == RingInv => StreamInMemory
  <1> SUFFICES ASSUME RingInv, NEW s \in Side
               PROVE  /\ Taken(Peer(s)) \in Nat /\ written[s] \in Nat
                      /\ Taken(Peer(s)) <= written[s]
                      /\ Undelivered(s) = Segment(Taken(Peer(s)), written[s])
    BY DEF StreamInMemory
  <1> DEFINE r == Peer(s)
  <1>p. r \in Side /\ Peer(r) = s
    BY PeerFacts
  <1>c. CallInv(r) /\ ContentInv(s) /\ TypeOK
    BY <1>p DEF RingInv, CallsOK
  <1>1. /\ Taken(r) \in Nat /\ written[s] \in Nat /\ Taken(r) <= written[s]
        /\ read[r] \in Nat /\ read[r] <= Taken(r) /\ Filled(s) \in Nat /\ written[s] <= Filled(s)
    BY <1>p, <1>c, SizeAssumption, BytesAssumption
    DEF CallInv, TypeOK, Taken, Filled
  <1>2. \A q \in Taken(r)..written[s] - 1 : local[s][Slot(q)] = ByteAt(q)
    BY <1>1, <1>c DEF ContentInv
  <1>3. \A i \in 1..(written[s] - Taken(r)) :
            local[s][Slot(Taken(r) + i - 1)] = ByteAt(Taken(r) + i - 1)
    BY <1>1, <1>2
  <1> QED
    BY <1>1, <1>3 DEF Undelivered, Segment

\* The ring buffer implements the byte streams of Transport.h: copying a byte
\* out is a read, the store to written is a write of the whole call, every
\* other step is invisible.
THEOREM RingImplementsStreams ==
    ASSUME MaxUnread <= Size
    PROVE  Spec => ImplementsStreams
  <1>i. RingInv /\ [Next]_vars => RingInv'
    BY RingStep
  <1>1. Init => Streams!Init
    BY PeerFacts DEF Init, Streams!Init, Undelivered, Taken
  <1>2. RingInv /\ RingInv' /\ [Next]_vars => [Streams!Next]_Streams!streamVars
    <2> SUFFICES ASSUME RingInv, RingInv', [Next]_vars
                 PROVE  Streams!Next \/ UNCHANGED Streams!streamVars
      OBVIOUS
    <2> DEFINE chan == [s \in Side |-> Undelivered(s)]
               seg == [s \in Side |-> Segment(Taken(Peer(s)), written[s])]
    <2>t. TypeOK /\ TypeOK' /\ \A s \in Side : CallInv(s)
      BY DEF RingInv, CallsOK
    <2>b. StreamInMemory /\ StreamInMemory'
      BY UndeliveredIsStream, PTL
    <2>c. chan = seg /\ chan' = seg'
      BY <2>b DEF StreamInMemory
    <2>u. ASSUME UNCHANGED written, UNCHANGED got, \A s \in Side : Taken(s)' = Taken(s)
          PROVE  UNCHANGED Streams!streamVars
      <3>1. seg' = seg
        BY <2>u, PeerFacts DEF Segment, ByteAt
      <3> QED
        BY <3>1, <2>c, <2>u DEF Streams!streamVars
    <2>1. CASE UNCHANGED vars
      BY <2>1, <2>u DEF vars, Taken
    <2>n. ASSUME NEW s \in Side, Step(s) \/ Call(s)
          PROVE  Streams!Next \/ UNCHANGED Streams!streamVars
      <3> DEFINE r == Peer(s)
      <3>p. /\ r \in Side /\ r # s /\ Peer(r) = s
            /\ \A t \in Side : t = s \/ t = r
        BY PeerFacts
      <3>c. CallInv(s) /\ CallInv(r)
        BY <2>t, <3>p
      <3>1. CASE Call(s) \/ CheckFree(s) \/ LoadRead(s) \/ CopyIn(s) \/ WaitAll(s)
                 \/ WaitSome(s) \/ LoadWritten(s)
        <4>1. UNCHANGED written /\ UNCHANGED got /\ UNCHANGED read
          BY <3>1 DEF Call, BeginSend, BeginReceive, CheckFree, LoadRead, CopyIn,
                      WaitAll, WaitSome, LoadWritten
        <4>2. Taken(r)' = Taken(r)
          BY <3>1, <3>p, <2>t
          DEF Call, BeginSend, BeginReceive, Enter, CheckFree, LoadRead, CopyIn,
              WaitAll, WaitSome, LoadWritten, Goto, Taken, TypeOK
        <4>3. Taken(s)' = Taken(s)
          BY <3>1, <3>c, <2>t
          DEF Call, BeginSend, BeginReceive, Enter, CheckFree, LoadRead, CopyIn,
              WaitAll, WaitSome, LoadWritten, Goto, Taken, TypeOK, CallInv
        <4> QED
          BY <4>1, <4>2, <4>3, <3>p, <2>u
      <3>2. CASE StoreRead(s)
        <4>1. UNCHANGED written /\ UNCHANGED got
          BY <3>2 DEF StoreRead
        <4>2. Taken(r)' = Taken(r) /\ Taken(s)' = Taken(s)
          BY <3>2, <3>p, <3>c, <2>t DEF StoreRead, Return, Goto, Taken, TypeOK, CallInv
        <4> QED
          BY <4>1, <4>2, <3>p, <2>u
      <3>3. CASE StoreWritten(s)
        <4>1. /\ written' = [written EXCEPT ![s] = @ + len[s]] /\ UNCHANGED got
              /\ len[s] \in 1..Size
              /\ Taken(r)' = Taken(r) /\ Taken(s)' = Taken(s)
          BY <3>3, <3>p, <3>c, <2>t
          DEF StoreWritten, Return, Goto, Taken, TypeOK, CallInv, Sending
        <4>2. seg'[r] = seg[r]
          BY <4>1, <3>p, <2>t DEF Segment, ByteAt, TypeOK
        <4>3. seg'[s] = seg[s] \o [i \in 1..len[s] |-> ByteAt(written[s] + i - 1)]
          <5>1. seg'[s] = Segment(Taken(r), written[s] + len[s])
            BY <4>1, <3>p, <2>t DEF Segment, ByteAt, TypeOK
          <5>2. seg[s] = Segment(Taken(r), written[s])
            OBVIOUS
          <5>3. Taken(r) \in Nat /\ written[s] \in Nat /\ len[s] \in Nat /\ Taken(r) <= written[s]
            BY <4>1, <2>b DEF StreamInMemory
          <5>4. [i \in 1..len[s] |-> ByteAt(written[s] + i - 1)]
                    = Segment(written[s], written[s] + len[s])
            BY <5>3 DEF Segment
          <5>5. Segment(Taken(r), written[s]) \o Segment(written[s], written[s] + len[s])
                    = Segment(Taken(r), written[s] + len[s])
            <6> DEFINE a == Taken(r)
                       b == written[s]
                       c == written[s] + len[s]
            <6>1. a \in Nat /\ b \in Nat /\ c \in Nat /\ a <= b /\ b <= c
              BY <5>3
            <6> HIDE DEF a, b, c
            <6>2. Segment(a, b) \o Segment(b, c) = Segment(a, c)
              BY <6>1, SegmentAppend
            <6> QED
              BY <6>2 DEF a, b, c
          <5> HIDE DEF seg
          <5> QED
            BY <5>1, <5>2, <5>4, <5>5
        <4>4. seg' = [seg EXCEPT ![s] = @ \o [i \in 1..len[s] |-> ByteAt(written[s] + i - 1)]]
          BY <4>2, <4>3, <3>p
        <4>5. Streams!Write(s, len[s])
          BY <4>1, <4>4, <2>c DEF Streams!Write, Streams!ByteAt, ByteAt
        <4> QED
          BY <4>1, <4>5 DEF Streams!Next
      <3>4. CASE CopyOut(s)
        <4>1. /\ written' = written
              /\ got' = [got EXCEPT ![s] = ByteAt(Taken(s))]
              /\ Taken(s)' = Taken(s) + 1 /\ Taken(r)' = Taken(r)
              /\ Taken(s) < written[r]
          <5>1. /\ written' = written
                /\ got' = [got EXCEPT ![s] = local[r][Slot(Taken(s))]]
                /\ Taken(s)' = Taken(s) + 1 /\ Taken(r)' = Taken(r)
                /\ Taken(s) < written[r] /\ Taken(s) \in Nat /\ written[r] \in Nat
            BY <3>4, <3>p, <3>c, <2>t DEF CopyOut, Goto, Taken, TypeOK, CallInv
          <5>2. Undelivered(r)[1] = Segment(Taken(s), written[r])[1]
            BY <2>b, <3>p DEF StreamInMemory
          <5>3. Undelivered(r)[1] = local[r][Slot(Taken(s))]
            BY <5>1, <3>p DEF Undelivered
          <5>4. Segment(Taken(s), written[r])[1] = ByteAt(Taken(s))
            BY <5>1 DEF Segment
          <5> QED
            BY <5>1, <5>2, <5>3, <5>4
        <4>2. seg'[s] = seg[s] /\ seg'[r] = Tail(seg[r]) /\ seg[r] # <<>>
              /\ Head(seg[r]) = ByteAt(Taken(s))
          <5>1. /\ seg'[s] = Segment(Taken(r), written[s])
                /\ seg'[r] = Segment(Taken(s) + 1, written[r])
            BY <4>1, <3>p DEF Segment, ByteAt
          <5>2. /\ seg[s] = Segment(Taken(r), written[s])
                /\ seg[r] = Segment(Taken(s), written[r])
            BY <3>p
          <5>3. Taken(s) \in Nat /\ written[r] \in Nat
            BY <2>b, <3>p DEF StreamInMemory
          <5> HIDE DEF seg
          <5> QED
            BY <4>1, <5>1, <5>2, <5>3, SegmentHead
        <4>3. seg' = [seg EXCEPT ![r] = Tail(@)]
          BY <4>2, <3>p
        <4>4. Streams!Read(r, s)
          BY <4>1, <4>2, <4>3, <2>c, <3>p DEF Streams!Read
        <4> QED
          BY <4>4, <3>p DEF Streams!Next
      <3> QED
        BY <2>n, <3>1, <3>2, <3>3, <3>4 DEF Step
    <2> QED
      BY <2>1, <2>n DEF Next
  <1> QED
    BY RingInit, <1>i, <1>1, <1>2, PTL DEF Spec, ImplementsStreams, Streams!Spec
=============================================================================
