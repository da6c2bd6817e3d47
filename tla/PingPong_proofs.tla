--------------------------- MODULE PingPong_proofs ---------------------------
(***************************************************************************)
(* Proofs about PingPong for every message size, buffer size and number of *)
(* rounds, and about the ring buffer underneath it: the protocol supplies  *)
(* what the proofs of VirtualRingBuffer assume of the ring's callers.      *)
(***************************************************************************)
EXTENDS PingPong, VirtualRingBuffer_proofs

\* Ping and Pong start with whole messages to write and to read.
LEMMA AppStarts == AppInit => AppInv
  <1> SUFFICES ASSUME AppInit PROVE AppInv
    OBVIOUS
  <1> USE PingPongAssumption
  <1>1. CallsOK
    BY CallsInit DEF AppInit
  <1>2. ASSUME NEW s \in Side PROVE Progress(s)
    BY DEF AppInit, Init, Progress, InCall, First, Side, Sending, Receiving
  <1> QED
    BY <1>1, <1>2 DEF AppInit, AppInv, First, Side

\* A chunk is a call the ring allows, every other step is the ring's own.
LEMMA AppStepsRing == AppInv /\ [AppNext]_allVars => [Next]_vars
  <1> SUFFICES ASSUME AppInv, AppNext PROVE Next \/ UNCHANGED vars
    BY DEF allVars, vars
  <1> PICK s \in Side : App(s)
    BY DEF AppNext
  <1>p. Peer(s) \in Side
    BY PeerFacts
  <1>1. CASE WriteChunk(s)
    <2> DEFINE n == Min2(left[s], Size)
    <2>1. n \in Lengths /\ BeginSend(s, n)
      BY <1>1, SizeAssumption, CallersAssumption DEF WriteChunk, AppInv, Min2
    <2> QED
      BY <2>1, CallersAssumption DEF Next, Call
  <1>2. CASE ReadChunk(s)
    <2> DEFINE n == Min2(left[s], Size)
    <2>1. n \in Lengths /\ BeginReceive(s, n, "waitAll")
      BY <1>2, SizeAssumption, CallersAssumption DEF ReadChunk, AppInv, Min2
    <2> QED
      BY <2>1, <1>p, CallersAssumption DEF Next, Call
  <1>3. CASE CallDone(s) \/ Throw(s)
    BY <1>3 DEF CallDone, Throw
  <1>4. CASE ContinueCall(s)
    BY <1>4 DEF ContinueCall, Next
  <1> QED
    BY <1>1, <1>2, <1>3, <1>4 DEF App

\* Where a side is in its exchange stays in step with its counters.
LEMMA AppSteps == AppInv /\ [AppNext]_allVars => AppInv'
  <1> SUFFICES ASSUME AppInv, [AppNext]_allVars PROVE AppInv'
    OBVIOUS
  <1> USE PingPongAssumption, SizeAssumption, BytesAssumption
  <1>0. CallsOK /\ CallsOK'
    BY AppStepsRing, CallsStep DEF AppInv
  <1>t. /\ TypeOK /\ TypeOK' /\ dataSize \in DataSizes /\ dataSize \in Nat
        /\ phase \in [Side -> {"write", "read", "thrown"}] /\ left \in [Side -> Nat]
        /\ \A s \in Side : Progress(s) /\ CallInv(s)
    BY <1>0 DEF CallsOK, AppInv
  <1>u. CASE UNCHANGED allVars
    BY <1>u, <1>0, <1>t DEF allVars, appVars, vars, AppInv, Progress, InCall
  <1>n. ASSUME NEW s \in Side, App(s) PROVE AppInv'
    <2> DEFINE r == Peer(s)
    <2>p. r \in Side /\ r # s /\ \A t \in Side : t = s \/ t = r
      BY PeerFacts
    <2>c. Progress(s) /\ Progress(r) /\ CallInv(s)
      BY <1>t, <2>p
    <2> HIDE DEF r
    <2>d. dataSize' = dataSize
      BY <1>n DEF App, WriteChunk, ReadChunk, CallDone, Throw, ContinueCall
    <2>s. SUFFICES /\ phase' \in [Side -> {"write", "read", "thrown"}] /\ left' \in [Side -> Nat]
                   /\ Progress(s)' /\ Progress(r)'
      BY <1>0, <1>t, <2>p, <2>d DEF AppInv
    <2>1. CASE WriteChunk(s)
      <3> DEFINE n == Min2(left[s], Size)
      <3>1. n \in 1..left[s]
        BY <2>1, <1>t DEF WriteChunk, Min2
      <3> HIDE DEF n
      <3>2. /\ BeginSend(s, n) /\ left' = [left EXCEPT ![s] = @ - n]
            /\ phase' = phase /\ phase[s] = "write"
        BY <2>1 DEF WriteChunk, n
      <3> QED
        BY <3>1, <3>2, <2>p, <2>c, <2>d, <1>t
        DEF BeginSend, Enter, Goto, TypeOK, Progress, InCall, First, Sending, Receiving
    <2>2. CASE ReadChunk(s)
      <3> DEFINE n == Min2(left[s], Size)
      <3>1. n \in 1..left[s]
        BY <2>2, <1>t DEF ReadChunk, Min2
      <3> HIDE DEF n
      <3>2. /\ BeginReceive(s, n, "waitAll") /\ left' = [left EXCEPT ![s] = @ - n]
            /\ phase' = phase /\ phase[s] = "read"
        BY <2>2 DEF ReadChunk, n
      <3> QED
        BY <3>1, <3>2, <2>p, <2>c, <2>d, <1>t
        DEF BeginReceive, Enter, Goto, TypeOK, Progress, InCall, First, Sending, Receiving
    <2>3. CASE CallDone(s)
      BY <2>3, <2>p, <2>c, <2>d, <1>t
      DEF CallDone, vars, TypeOK, Progress, InCall, First, Sending, Receiving
    <2>5. CASE Throw(s)
      BY <2>5, <2>p, <2>c, <2>d, <1>t
      DEF Throw, WrongEcho, vars, TypeOK, Progress, InCall, First, Sending, Receiving
    <2>4. CASE ContinueCall(s)
      <3>1. phase' = phase /\ left' = left
        BY <2>4 DEF ContinueCall
      <3>2. CASE CheckFree(s) \/ LoadRead(s) \/ CopyIn(s) \/ WaitAll(s) \/ CopyOut(s)
        BY <3>1, <3>2, <2>p, <2>c, <2>d, <1>t
        DEF CheckFree, LoadRead, CopyIn, WaitAll, CopyOut, Goto, TypeOK, Progress,
            InCall, First, Sending, Receiving
      <3>3. CASE StoreWritten(s)
        BY <3>1, <3>3, <2>p, <2>c, <2>d, <1>t
        DEF StoreWritten, Return, Goto, TypeOK, Progress, InCall, First, Sending, Receiving
      <3>4. CASE StoreRead(s)
        BY <3>1, <3>4, <2>p, <2>c, <2>d, <1>t
        DEF StoreRead, Return, Goto, TypeOK, Progress, InCall, First, Sending, Receiving
      <3>5. ~WaitSome(s) /\ ~LoadWritten(s)
        BY <2>c DEF WaitSome, LoadWritten, Progress
      <3> QED
        BY <2>4, <3>2, <3>3, <3>4, <3>5 DEF ContinueCall, Step
    <2> QED
      BY <1>n, <2>1, <2>2, <2>3, <2>4, <2>5 DEF App
  <1> QED
    BY <1>u, <1>n DEF AppNext

\* The counters of the two sides as the exchange orders them: client reads at
\* most what the server wrote, which is at most what the server read, and so on.
LEMMA Ordered ==
    ASSUME AppInv
    PROVE  /\ read["client"] <= written["server"] /\ written["server"] <= read["server"]
           /\ read["server"] <= written["client"]
           /\ written["client"] <= read["client"] + dataSize
           /\ \A s \in Side : written[s] \in Nat /\ read[s] \in Nat
           /\ dataSize \in Nat
  <1>1. "client" \in Side /\ "server" \in Side /\ Peer("client") = "server"
        /\ Peer("server") = "client" /\ "client" # "server"
    BY DEF Side, Peer
  <1>2. /\ TypeOK /\ CallInv("client") /\ CallInv("server")
        /\ Progress("client") /\ Progress("server") /\ dataSize \in Nat
    BY <1>1, PingPongAssumption DEF AppInv, CallsOK
  <1>3. InCall("client") \in Nat /\ InCall("server") \in Nat
    BY <1>1, <1>2, SizeAssumption DEF InCall, TypeOK
  <1> QED
    BY <1>1, <1>2, <1>3, BytesAssumption DEF TypeOK, CallInv, Progress, First

\* When ping() starts, nothing is left unread in either direction, for every
\* message size, those cut into several chunks included.
THEOREM QuietBetween == AppSpec => []QuietBetweenPings
  <1>1. AppInv => QuietBetweenPings
    <2> SUFFICES ASSUME AppInv, phase["client"] = "write", left["client"] = dataSize
                 PROVE  Unread("client") = 0 /\ Unread("server") = 0
      BY DEF QuietBetweenPings
    <2>1. "client" \in Side /\ "server" \in Side /\ Peer("client") = "server"
          /\ Peer("server") = "client"
      BY DEF Side, Peer
    <2>2. Progress("client") /\ InCall("client") \in Nat
      BY <2>1, SizeAssumption DEF AppInv, InCall, CallsOK, TypeOK
    <2>3. written["client"] <= read["client"]
      BY <2>1, <2>2, Ordered DEF Progress, First
    <2> QED
      BY <2>1, <2>3, Ordered DEF Unread
  <1> QED
    BY AppStarts, AppSteps, <1>1, PTL DEF AppSpec

-----------------------------------------------------------------------------
(* The protocol keeps the ring within its size                              *)

\* The bytes a side may still write in this call fit behind its unread ones.
LEMMA RoomForChunk ==
    ASSUME AppInv, NEW s \in Side, phase[s] = "write", pc[s] = "idle"
    PROVE  Unread(s) + left[s] <= dataSize
  <1>1. "client" \in Side /\ "server" \in Side /\ Peer("client") = "server"
        /\ Peer("server") = "client" /\ s \in {"client", "server"}
    BY DEF Side, Peer
  <1>2. Progress(s) /\ InCall(s) = 0
    BY DEF AppInv, InCall
  <1> QED
    BY <1>1, <1>2, Ordered DEF Progress, First, Unread

\* The exchange only makes the calls that VirtualRingBuffer's proofs allow.
LEMMA AppStepsBounded ==
    AppInv /\ [AppNext]_allVars => [dataSize <= Size => Bounded!Next]_vars
  <1> SUFFICES ASSUME AppInv, AppNext, dataSize <= Size
               PROVE  Bounded!Next \/ UNCHANGED vars
    BY DEF allVars, vars
  <1> PICK s \in Side : App(s)
    BY DEF AppNext
  <1>s. s \in Bounded!Side
    BY DEF Side, Bounded!Side
  <1>1. CASE WriteChunk(s)
    <2> DEFINE n == Min2(left[s], Size)
    <2>1. /\ n \in Lengths /\ n <= left[s] /\ BeginSend(s, n) /\ phase[s] = "write"
          /\ pc[s] = "idle" /\ left[s] \in Nat /\ n \in Nat
      BY <1>1, SizeAssumption, CallersAssumption DEF WriteChunk, AppInv, Min2, BeginSend, Enter
    <2> HIDE DEF n
    <2>2. Unread(s) \in Int
      BY Ordered, PeerFacts DEF Unread
    <2>3. dataSize \in Nat
      BY Ordered
    <2>4. Unread(s) + n <= Size
      BY <2>1, <2>2, <2>3, RoomForChunk, SizeAssumption
    <2>5. Bounded!BeginSend(s, n)
      BY <2>1, <2>4
      DEF BeginSend, Enter, Goto, Unread, Peer, Bounded!BeginSend, Bounded!Enter,
          Bounded!Goto, Bounded!Unread, Bounded!Peer
    <2> QED
      BY <1>s, <2>1, <2>5, CallersAssumption DEF Bounded!Next, Bounded!Call
  <1>2. CASE ReadChunk(s)
    <2> DEFINE n == Min2(left[s], Size)
    <2>1. n \in Lengths /\ BeginReceive(s, n, "waitAll")
      BY <1>2, SizeAssumption, CallersAssumption DEF ReadChunk, AppInv, Min2
    <2> HIDE DEF n
    <2>2. Bounded!BeginReceive(s, n, "waitAll") /\ Bounded!Peer(s) \in Senders
      BY <2>1, CallersAssumption
      DEF BeginReceive, Enter, Goto, Bounded!BeginReceive, Bounded!Enter, Bounded!Goto,
          Bounded!Peer, Side
    <2> QED
      BY <1>s, <2>1, <2>2 DEF Bounded!Next, Bounded!Call
  <1>3. CASE CallDone(s) \/ Throw(s)
    BY <1>3 DEF CallDone, Throw
  <1>4. CASE ContinueCall(s)
    <2>1. Bounded!Step(s)
      BY <1>4
      DEF ContinueCall, Step, CheckFree, LoadRead, CopyIn, StoreWritten, WaitAll, WaitSome, LoadWritten,
          CopyOut, StoreRead, LooksFull, Available, Min2, USub, Slot, ByteAt, Peer, Return, Goto,
          Bounded!Step, Bounded!CheckFree, Bounded!LoadRead, Bounded!CopyIn,
          Bounded!StoreWritten, Bounded!WaitAll, Bounded!WaitSome, Bounded!LoadWritten,
          Bounded!CopyOut, Bounded!StoreRead, Bounded!LooksFull, Bounded!Available,
          Bounded!Min2, Bounded!USub, Bounded!Slot, Bounded!ByteAt, Bounded!Peer,
          Bounded!Return, Bounded!Goto
    <2> QED
      BY <1>s, <2>1 DEF Bounded!Next
  <1> QED
    BY <1>1, <1>2, <1>3, <1>4 DEF App

\* Request and response never have more than the buffer's size unread, as long
\* as one message fits: the ring's own calls, seen alone, are those of callers
\* that keep to the buffer, which the ring does not enforce.
THEOREM RespectsBufferSize == AppSpec => RespectsBuffer
  <1>1. AppInit => Bounded!Init
    BY DEF AppInit, Init, Side, Cells, Bounded!Init, Bounded!Side, Bounded!Cells
  <1> QED
    BY AppStarts, AppSteps, AppStepsBounded, <1>1, PTL DEF AppSpec, RespectsBuffer

-----------------------------------------------------------------------------
(* The ring under the protocol                                              *)

\* The ring's results, for callers that keep at most Size bytes unread.
BoundedRing == INSTANCE VirtualRingBuffer_proofs WITH MaxUnread <- Size

\* The two instances of the ring take the same steps.
LEMMA BoundedSame ==
    /\ Bounded!Init => BoundedRing!Init
    /\ Bounded!Next => BoundedRing!Next
  <1>1. Bounded!Init => BoundedRing!Init
    BY DEF Bounded!Init, Bounded!Side, Bounded!Cells, BoundedRing!Init,
          BoundedRing!Side, BoundedRing!Cells
  <1>2. Bounded!Next => BoundedRing!Next
    BY DEF Bounded!Side, Bounded!Peer, Bounded!Cells, Bounded!Goto, Bounded!Enter,
          Bounded!Return, Bounded!Unread, Bounded!ByteAt, Bounded!Slot,
          Bounded!USub, Bounded!Min2, Bounded!BeginSend,
          Bounded!BeginReceive, Bounded!Available, Bounded!LooksFull,
          Bounded!CheckFree, Bounded!LoadRead, Bounded!CopyIn,
          Bounded!StoreWritten, Bounded!WaitAll, Bounded!WaitSome,
          Bounded!LoadWritten, Bounded!CopyOut, Bounded!StoreRead,
          Bounded!Step, Bounded!Call, Bounded!Next, BoundedRing!Side,
          BoundedRing!Peer, BoundedRing!Cells, BoundedRing!Goto,
          BoundedRing!Enter, BoundedRing!Return, BoundedRing!Unread,
          BoundedRing!ByteAt, BoundedRing!Slot, BoundedRing!USub,
          BoundedRing!Min2, BoundedRing!BeginSend,
          BoundedRing!BeginReceive, BoundedRing!Available,
          BoundedRing!LooksFull, BoundedRing!CheckFree,
          BoundedRing!LoadRead, BoundedRing!CopyIn,
          BoundedRing!StoreWritten, BoundedRing!WaitAll,
          BoundedRing!WaitSome, BoundedRing!LoadWritten,
          BoundedRing!CopyOut, BoundedRing!StoreRead, BoundedRing!Step,
          BoundedRing!Call, BoundedRing!Next
  <1> QED
    BY <1>1, <1>2

\* The constants of the bounded ring meet its assumptions.
LEMMA BoundedConstants ==
    /\ Size \in Nat \ {0} /\ (Word \in Nat /\ Size < Word)
    /\ (MaxBytes \in Nat /\ MaxBytes < Word) /\ Lengths \subseteq 1..Size
    /\ Senders \subseteq {"client", "server"} /\ Garbage \subseteq 0..Word - 1
    /\ Size \in Nat /\ Size <= Size
  BY SizeAssumption, WordAssumption, BytesAssumption, LengthsAssumption,
     SendersAssumption, GarbageAssumption

\* While messages fit, the ring under the protocol is a ring of bounded callers.
LEMMA RunsBoundedRing == AppSpec /\ [](dataSize <= Size) => BoundedRing!Spec
  <1>1. dataSize <= Size /\ [dataSize <= Size => Bounded!Next]_vars
            => [BoundedRing!Next]_BoundedRing!vars
    BY BoundedSame DEF vars, BoundedRing!vars
  <1>2. AppInit => BoundedRing!Init
    BY BoundedSame DEF AppInit, Init, Side, Cells, Bounded!Init, Bounded!Side, Bounded!Cells
  <1> QED
    BY AppStarts, AppSteps, AppStepsBounded, <1>1, <1>2, PTL DEF AppSpec, BoundedRing!Spec

\* The two instances read the same bytes.
LEMMA BoundedInOrder == BoundedRing!ReceivesStreamInOrder => ReceivesStreamInOrder
  BY DEF ReceivesStreamInOrder, Side, Peer, ByteAt, BoundedRing!ReceivesStreamInOrder,
         BoundedRing!Side, BoundedRing!Peer, BoundedRing!ByteAt

\* Client and server of PingPong over shared memory: no byte of a request or a
\* response is overwritten before its reader has released it, and the two
\* directions are the byte streams of Transport.h, as long as a message fits
\* into the buffer. Nothing is assumed of the ring's callers any more: the
\* protocol provides it.
THEOREM PingPongStreams ==
    ASSUME \A d \in DataSizes : d <= Size
    PROVE  AppSpec => []UnreadBytesIntact /\ []ReceivesStreamInOrder /\ ImplementsStreams
  <1>1. AppInv => dataSize <= Size
    BY DEF AppInv
  <1>2. AppSpec => BoundedRing!Spec
    BY AppStarts, AppSteps, RunsBoundedRing, <1>1, PTL DEF AppSpec
  <1>3. BoundedRing!Spec => []BoundedRing!UnreadBytesIntact
    BY BoundedConstants, BoundedRing!UnreadBytesSafe
  <1>4. BoundedRing!Spec => []BoundedRing!ReceivesStreamInOrder
    BY BoundedConstants, BoundedRing!StreamInOrder
  <1>5. BoundedRing!Spec => BoundedRing!ImplementsStreams
    BY BoundedConstants, BoundedRing!RingImplementsStreams
  <1>6. BoundedRing!UnreadBytesIntact => UnreadBytesIntact
    BY DEF UnreadBytesIntact, Side, Peer, Slot, ByteAt, BoundedRing!UnreadBytesIntact,
           BoundedRing!Side, BoundedRing!Peer, BoundedRing!Slot, BoundedRing!ByteAt
  <1>8. BoundedRing!ImplementsStreams => ImplementsStreams
    <2> USE DEF Side, BoundedRing!Side, Peer, BoundedRing!Peer, Slot, BoundedRing!Slot,
                Taken, BoundedRing!Taken, Undelivered, BoundedRing!Undelivered
    <2>1. BoundedRing!Streams!Init => Streams!Init
      BY DEF Streams!Init, BoundedRing!Streams!Init
    <2>2. [BoundedRing!Streams!Next]_BoundedRing!Streams!streamVars
              => [Streams!Next]_Streams!streamVars
      BY DEF Streams!Next, Streams!Write, Streams!Read, Streams!ByteAt, Streams!streamVars,
             BoundedRing!Streams!Next, BoundedRing!Streams!Write, BoundedRing!Streams!Read,
             BoundedRing!Streams!ByteAt, BoundedRing!Streams!streamVars
    <2> QED
      BY <2>1, <2>2, PTL
      DEF ImplementsStreams, BoundedRing!ImplementsStreams, Streams!Spec, BoundedRing!Streams!Spec
  <1> QED
    BY <1>2, <1>3, <1>4, <1>5, <1>6, BoundedInOrder, <1>8, PTL

\* ping() never throws "received unexpected data" for a message that fits the
\* buffer, for every buffer size, message size and number of rounds.
THEOREM EchoesIntact == AppSpec => []EchoesMatch
  <1> DEFINE Fits == dataSize <= Size
             Intact == intact /\ phase["client"] # "thrown"
  <1>1. [AppNext]_allVars => dataSize' = dataSize
    BY DEF AppNext, App, WriteChunk, ReadChunk, CallDone, Throw, ContinueCall, allVars, appVars
  <1>2. [AppNext]_allVars => (Fits <=> Fits')
    BY <1>1
  <1>3. AppSpec /\ []Fits => []ReceivesStreamInOrder
    <2>1. BoundedRing!Spec => []BoundedRing!ReceivesStreamInOrder
      BY BoundedConstants, BoundedRing!StreamInOrder
    <2> QED
      BY <2>1, RunsBoundedRing, BoundedInOrder, PTL
  <1>4. AppInit => Intact
    BY DEF AppInit, First, Side
  <1>5. ASSUME AppInv, Intact, [AppNext]_allVars, AppInv', ReceivesStreamInOrder'
        PROVE  Intact'
    <2>u. CASE UNCHANGED allVars
      BY <1>5, <2>u DEF allVars, appVars
    <2>n. ASSUME NEW s \in Side, App(s) PROVE Intact'
      <3>t. phase \in [Side -> {"write", "read", "thrown"}] /\ TypeOK /\ TypeOK' /\ CallInv(s)
        BY <1>5 DEF AppInv, CallsOK
      <3>1. CASE WriteChunk(s) \/ ReadChunk(s)
        BY <1>5, <3>1 DEF WriteChunk, ReadChunk
      <3>2. CASE CallDone(s)
        BY <1>5, <3>2, <3>t DEF CallDone
      <3>3. CASE Throw(s)
        BY <1>5, <3>3 DEF Throw, WrongEcho
      <3>4. CASE ContinueCall(s)
        <4>1. phase' = phase
          BY <3>4 DEF ContinueCall
        <4>2. ASSUME pc[s] = "copyOut" PROVE got'[s] = ByteAt(read[s] + copied[s])
          <5>1. CopyOut(s)
            BY <3>4, <4>2 DEF ContinueCall, Step, CheckFree, LoadRead, CopyIn, StoreWritten,
                              WaitAll, WaitSome, LoadWritten, StoreRead
          <5>2. /\ pc'[s] \in {"copyOut", "storeRead"} /\ copied'[s] = copied[s] + 1
                /\ read' = read /\ copied[s] \in Nat /\ read[s] \in Nat
            BY <5>1, <3>t, BytesAssumption, SizeAssumption DEF CopyOut, Goto, TypeOK
          <5>3. got'[s] = ByteAt(read'[s] + copied'[s] - 1)
            BY <5>2, <1>5 DEF ReceivesStreamInOrder, ByteAt
          <5> QED
            BY <5>2, <5>3 DEF ByteAt
        <4> QED
          BY <1>5, <3>4, <4>1, <4>2 DEF ContinueCall
      <3> QED
        BY <2>n, <3>1, <3>2, <3>3, <3>4 DEF App
    <2> QED
      BY <1>5, <2>u, <2>n DEF AppNext
  <1>6. AppSpec /\ []Fits => []Intact
    BY AppStarts, AppSteps, <1>3, <1>4, <1>5, PTL DEF AppSpec
  <1>7. Intact => EchoesMatch
    BY DEF EchoesMatch
  <1>8. ~Fits => EchoesMatch
    BY DEF EchoesMatch
  <1> HIDE DEF Fits, Intact
  <1> QED
    BY <1>2, <1>6, <1>7, <1>8, PTL DEF AppSpec
=============================================================================
