---------------------- MODULE SocketTransports_proofs ----------------------
(***************************************************************************)
(* Proofs about SocketTransports: whatever the sockets split or join, a    *)
(* read returns the one message that was written for it, until the         *)
(* multi-client server has taken a part for a message; and whatever it     *)
(* takes for a message, the state keeps its types and no socket holds more *)
(* than it buffers.                                                        *)
(*                                                                         *)
(* The exchange of a client is in one of four phases: its message is on    *)
(* the way up, the server's answer is being written, the answer is on its  *)
(* way down, or it has arrived. In each, what is in flight is exactly the  *)
(* part of the message between what one side has written and what the      *)
(* other has read.                                                         *)
(***************************************************************************)
EXTENDS SocketTransports, SequenceTheorems, WellFoundedInduction, TLAPS

Byte == {NoByte} \cup {MessageOf(c, r)[i] : c \in Clients, r \in Nat, i \in 1..DataSize}
Buffers == [1..DataSize -> Byte]
Directions == {"up", "down"}
Channels == [Directions -> [Clients -> Seq(Byte)]]
Pcs == {"listen", "accept", "connect", "write", "read", "poll", "answered", "check", "done",
        "thrown", "gaveUp"}
ThreadStates == [pc : Pcs, tries : 0..MaxTries + 1, round : Nat, current : 0..DataSize - 1,
                 buf : Buffers, with : Clients \cup {Server}]

\* The channel with bytes s carries the bytes a + 1 to b of the message m.
Flow(s, m, a, b) ==
    /\ a \in 0..DataSize /\ b \in a..DataSize
    /\ Len(s) = b - a
    /\ \A i \in 1..(b - a) : s[i] = m[a + i]

\* w is the n elements after the first a of s, in S; z is s and w.
Part(S, s, a, n, w) == w \in Seq(S) /\ Len(w) = n /\ \A i \in 1..n : w[i] = s[a + i]
Joined(S, s, w, z) ==
    /\ z \in Seq(S) /\ Len(z) = Len(s) + Len(w)
    /\ \A i \in 1..Len(s) + Len(w) : z[i] = IF i <= Len(s) THEN s[i] ELSE w[i - Len(s)]

\* The buffer holds the first n bytes of the message.
Prefix(buf, m, n) == \A i \in 1..n : buf[i] = m[i]

Carries(d, c, a, b) == Flow(chan[d][c], MessageOf(c, proc[c].round), a, b)
Empty(d, c) == Carries(d, c, 0, 0)

Reading(c) == proc[Server].pc = "read" /\ proc[Server].with = c
Writing(c) == proc[Server].pc = "write" /\ proc[Server].with = c

HasSent(c) == IF proc[c].pc = "read" THEN DataSize ELSE proc[c].current
HasRead(c) == IF Reading(c) THEN proc[Server].current ELSE 0

\* The client's message is being written and read.
Upward(c) ==
    /\ proc[c].pc \in {"connect", "gaveUp", "write", "read"}
    /\ proc[c].pc = "read" => proc[c].current = 0
    /\ Carries("up", c, HasRead(c), HasSent(c)) /\ Empty("down", c)
    /\ ~Writing(c)
    /\ Reading(c) => Prefix(proc[Server].buf, MessageOf(c, proc[c].round), proc[Server].current)

\* The server writes the answer.
Downward(c) ==
    /\ Writing(c) /\ proc[c].pc = "read"
    /\ proc[Server].buf = MessageOf(c, proc[c].round)
    /\ Empty("up", c) /\ Carries("down", c, proc[c].current, proc[Server].current)
    /\ Prefix(proc[c].buf, MessageOf(c, proc[c].round), proc[c].current)

\* The answer is written, the client has not read all of it.
OnTheWay(c) ==
    /\ ~Writing(c) /\ (Reading(c) => proc[Server].current = 0)
    /\ proc[c].pc = "read"
    /\ Empty("up", c) /\ Carries("down", c, proc[c].current, DataSize)
    /\ Prefix(proc[c].buf, MessageOf(c, proc[c].round), proc[c].current)

\* The client has read the answer.
Arrived(c) ==
    /\ ~Writing(c) /\ (Reading(c) => proc[Server].current = 0)
    /\ proc[c].pc \in {"check", "done"}
    /\ proc[c].pc = "check" => proc[c].buf = MessageOf(c, proc[c].round)
    /\ Empty("up", c) /\ Empty("down", c)

Exchange(c) == Upward(c) \/ Downward(c) \/ OnTheWay(c) \/ Arrived(c)

Shape ==
    /\ kind \in Kinds /\ short \in BOOLEAN
    /\ backlog \in Seq(Participants) /\ connections \in Seq(Participants)
    /\ chan \in Channels
    /\ proc \in [Clients \cup {Server} -> ThreadStates]
    /\ \A d \in Directions, c \in Clients : Len(chan[d][c]) <= Capacity[kind]

ServerOK ==
    /\ proc[Server].pc \in {"listen", "accept", "read", "write", "poll", "answered", "done"}
    /\ proc[Server].pc \notin {"read", "write"} => proc[Server].current = 0
    /\ proc[Server].pc \in {"read", "write", "answered"} => proc[Server].with \in Participants
    /\ proc[Server].pc = "read" => kind # "MulticlientTCP"
    /\ proc[Server].pc = "poll" => kind = "MulticlientTCP"

ClientPcs == {"connect", "gaveUp", "write", "read", "check", "done", "thrown"}
ClientsOK == \A c \in Clients :
    /\ proc[c].with = c
    /\ proc[c].pc \in ClientPcs
    /\ proc[c].pc \notin {"write", "read"} => proc[c].current = 0

TypeInv == Shape /\ ServerOK /\ ClientsOK
Exchanges == \A c \in Participants : Exchange(c)

SocketInv == TypeInv /\ (short \/ Exchanges)
-----------------------------------------------------------------------------
(* The constants, and the sets they make.                                   *)

\* The constants' types, and the threads'.
LEMMA Basics ==
    /\ DataSize \in Nat /\ DataSize > 0 /\ NumClients \in Nat /\ NumClients > 0 /\ MaxTries \in Nat
    /\ \A k \in Kinds : Capacity[k] \in Nat
    /\ Server \notin Clients /\ 0 \in Clients /\ Clients \subseteq Nat /\ Server \in Nat
    /\ Participants \subseteq Clients
<1>1. /\ DataSize \in Nat /\ DataSize > 0 /\ NumClients \in Nat /\ NumClients > 0 /\ MaxTries \in Nat
      /\ \A k \in Kinds : Capacity[k] \in Nat
  BY SocketAssumption DEF SocketAssumption
<1>3. Server \notin Clients /\ 0 \in Clients /\ Clients \subseteq Nat /\ Server \in Nat
  BY <1>1 DEF Server, Clients
<1>4. Participants \subseteq Clients
  BY <1>3 DEF Participants
<1> QED
  BY <1>1, <1>3, <1>4

\* A set of numbers that is not empty has a smallest one.
LEMMA SmallestExists ==
    ASSUME NEW T, T \subseteq Nat, T # {}
    PROVE  \E i \in T : \A j \in T : i <= j
<1> DEFINE R == OpToRel(<, Nat)
<1>1. IsWellFoundedOn(R, Nat)
  BY NatLessThanWellFounded
<1>2. \A x, y \in Nat : y < x => <<y, x>> \in R
  BY DEF OpToRel
<1> HIDE DEF R
<1>3. PICK i \in T : \A j \in T : ~(<<j, i>> \in R)
  BY <1>1, WFMin
<1>4. \A j \in T : i <= j
  <2> SUFFICES ASSUME NEW j \in T PROVE i <= j
    OBVIOUS
  <2>1. i \in Nat /\ j \in Nat /\ ~(j < i)
    BY <1>2, <1>3
  <2> QED
    BY <2>1
<1> QED
  BY <1>4

\* A message is a buffer full of bytes.
LEMMA MessageType ==
    ASSUME NEW c \in Clients, NEW r \in Nat
    PROVE  MessageOf(c, r) \in [1..DataSize -> Byte]
<1>1. \A i \in 1..DataSize : MessageOf(c, r)[i] \in Byte
  BY DEF Byte
<1>2. MessageOf(c, r) = [i \in 1..DataSize |-> MessageOf(c, r)[i]]
  BY DEF MessageOf
<1> QED
  BY <1>1, <1>2

\* An empty buffer is a buffer.
LEMMA EmptyBufferType == EmptyBuffer \in Buffers
BY DEF EmptyBuffer, Buffers, Byte
-----------------------------------------------------------------------------
(* What is in flight.                                                       *)

\* A subsequence is a part.
LEMMA SubSeqPart ==
    ASSUME NEW S, NEW s \in Seq(S), NEW a \in Nat, NEW b \in Nat, a <= b, b <= Len(s),
           NEW u, u = a + 1, NEW w, w = SubSeq(s, u, b)
    PROVE  Part(S, s, a, b - a, w)
<1>1. u \in Int /\ b \in Int /\ \A i \in u..b : i \in 1..Len(s)
  OBVIOUS
<1>2. \A i \in u..b : s[i] \in S
  BY <1>1
<1>3. /\ SubSeq(s, u, b) \in Seq(S)
      /\ Len(SubSeq(s, u, b)) = IF u <= b THEN b - u + 1 ELSE 0
      /\ \A i \in 1..b - u + 1 : SubSeq(s, u, b)[i] = s[u + i - 1]
  BY <1>1, <1>2, SubSeqProperties
<1>4. Len(w) = b - a
  BY <1>3
<1>5. ASSUME NEW i \in 1..(b - a) PROVE w[i] = s[a + i]
  <2>1. i \in 1..b - u + 1 /\ u + i - 1 = a + i
    OBVIOUS
  <2> QED
    BY <2>1, <1>3
<1> QED
  BY <1>3, <1>4, <1>5 DEF Part

\* What \o gives.
LEMMA ConcatJoined ==
    ASSUME NEW S, NEW s \in Seq(S), NEW w \in Seq(S), NEW z, z = s \o w
    PROVE  Joined(S, s, w, z)
BY ConcatProperties DEF Joined

\* A channel that carries nothing is empty, and the other way round.
LEMMA FlowEmpty ==
    ASSUME NEW s, NEW m, NEW m2, NEW a \in 0..DataSize, NEW b \in 0..DataSize, Flow(s, m, a, a)
    PROVE  Flow(s, m2, b, b) /\ Len(s) = 0
BY Basics DEF Flow

\* Writing: the next n bytes after b.
LEMMA FlowPut ==
    ASSUME NEW S, NEW s \in Seq(S), NEW m, NEW a, NEW b \in Nat, NEW n \in Nat, 0 < n,
           b + n <= DataSize, Flow(s, m, a, b), NEW w, Part(S, m, b, n, w), NEW z, Joined(S, s, w, z)
    PROVE  Flow(z, m, a, b + n)
<1>0. DataSize \in Nat /\ a \in Nat /\ b \in Nat /\ n \in Nat /\ a <= b /\ b + n <= DataSize
      /\ n > 0 /\ b + n \in a..DataSize /\ a \in 0..DataSize
  BY Basics DEF Flow
<1>1. w \in Seq(S) /\ Len(w) = n /\ \A i \in 1..n : w[i] = m[b + i]
  BY DEF Part
<1>2. /\ Len(z) = Len(s) + Len(w)
      /\ \A i \in 1..Len(s) + Len(w) : z[i] = IF i <= Len(s) THEN s[i] ELSE w[i - Len(s)]
  BY DEF Joined
<1>3. Len(s) = b - a /\ \A i \in 1..(b - a) : s[i] = m[a + i]
  BY DEF Flow
<1>4. ASSUME NEW i \in 1..((b + n) - a) PROVE z[i] = m[a + i]
  <2>1. z[i] = IF i <= b - a THEN s[i] ELSE w[i - (b - a)]
    <3>1. Len(s) + Len(w) = (b + n) - a
      BY <1>0, <1>1, <1>3
    <3> QED
      BY <3>1, <1>2, <1>3
  <2>2. CASE i <= b - a
    BY <2>1, <2>2, <1>3, <1>0
  <2>3. CASE i > b - a
    <3>1. i - (b - a) \in 1..n /\ b + (i - (b - a)) = a + i
      BY <2>3, <1>0
    <3> QED
      BY <3>1, <2>1, <2>3, <1>1, <1>0
  <2> QED
    BY <2>2, <2>3, <1>0
<1>6. Len(z) = (b + n) - a
  BY <1>0, <1>1, <1>2, <1>3
<1> QED
  BY <1>0, <1>4, <1>6 DEF Flow

\* Reading: n bytes are gone.
LEMMA FlowTake ==
    ASSUME NEW S, NEW s \in Seq(S), NEW m, NEW a \in Nat, NEW b \in Nat, NEW n \in Nat, 0 < n,
           a + n <= b, Flow(s, m, a, b), NEW w, Part(S, s, n, Len(s) - n, w)
    PROVE  Flow(w, m, a + n, b)
<1>0. DataSize \in Nat /\ a \in Nat /\ b \in Nat /\ n \in Nat /\ a <= b /\ b <= DataSize
      /\ n > 0 /\ n <= b - a
  BY Basics DEF Flow
<1>1. Len(s) = b - a /\ \A i \in 1..(b - a) : s[i] = m[a + i]
  BY DEF Flow
<1>2. Len(w) = b - (a + n) /\ \A i \in 1..(b - (a + n)) : w[i] = s[n + i]
  <2>1. Len(s) - n = b - (a + n)
    BY <1>0, <1>1
  <2> QED
    BY <2>1 DEF Part
<1>3. ASSUME NEW i \in 1..(b - (a + n)) PROVE w[i] = m[(a + n) + i]
  <2>1. n + i \in 1..(b - a) /\ a + (n + i) = (a + n) + i
    BY <1>0
  <2> QED
    BY <2>1, <1>1, <1>2
<1>5. a + n \in 0..DataSize /\ b \in (a + n)..DataSize
  BY <1>0
<1> QED
  BY <1>2, <1>3, <1>5 DEF Flow

\* A buffer into which bytes are placed is a buffer.
LEMMA PlacedType ==
    ASSUME NEW S, NEW buf \in [1..DataSize -> S], NEW a \in Nat, NEW w \in Seq(S)
    PROVE  Placed(buf, a, w) \in [1..DataSize -> S]
<1>1. \A i \in 1..Len(w) : w[i] \in S
  OBVIOUS
<1>2. \A i \in 1..DataSize : (IF i - a \in 1..Len(w) THEN w[i - a] ELSE buf[i]) \in S
  BY <1>1
<1> QED
  BY <1>2 DEF Placed

\* What is read goes after what was read before: the buffer holds a longer part
\* of the message.
LEMMA PlacedPrefix ==
    ASSUME NEW S, NEW s \in Seq(S), NEW m, NEW a \in Nat, NEW b \in Nat, NEW n \in Nat, 0 < n,
           a + n <= b, Flow(s, m, a, b), NEW buf, Prefix(buf, m, a), NEW w, Part(S, s, 0, n, w)
    PROVE  Prefix(Placed(buf, a, w), m, a + n)
<1>0. DataSize \in Nat /\ a \in Nat /\ b \in Nat /\ n \in Nat /\ a <= b /\ b <= DataSize
      /\ n > 0 /\ n <= b - a /\ Len(s) = b - a /\ \A i \in 1..(b - a) : s[i] = m[a + i]
  BY Basics DEF Flow
<1>1. w \in Seq(S) /\ Len(w) = n /\ \A i \in 1..n : w[i] = s[i]
  <2>1. w \in Seq(S) /\ Len(w) = n /\ \A i \in 1..n : w[i] = s[0 + i] /\ 0 + i = i
    BY <1>0 DEF Part
  <2> QED
    BY <2>1
<1> DEFINE q == Placed(buf, a, w)
<1>3. q = [i \in 1..DataSize |-> IF i - a \in 1..n THEN w[i - a] ELSE buf[i]]
  BY <1>1 DEF Placed
<1> HIDE DEF q
<1>5. ASSUME NEW i \in 1..(a + n) PROVE q[i] = m[i]
  <2>1. i \in 1..DataSize
    BY <1>0
  <2>2. CASE i - a \in 1..n
    <3>1. a + (i - a) = i /\ i - a \in 1..(b - a)
      BY <2>2, <1>0
    <3> QED
      BY <3>1, <2>1, <2>2, <1>0, <1>1, <1>3
  <2>3. CASE i - a \notin 1..n
    <3>1. i \in 1..a
      BY <2>3, <1>0
    <3> QED
      BY <3>1, <2>1, <2>3, <1>3 DEF Prefix
  <2> QED
    BY <2>2, <2>3
<1> QED
  BY <1>5 DEF Prefix, q

\* A buffer that holds all of the message is the message.
LEMMA WholeMessage ==
    ASSUME NEW S, NEW T, NEW buf \in [1..DataSize -> T], NEW m \in [1..DataSize -> S],
           Prefix(buf, m, DataSize)
    PROVE  buf = m
<1>1. \A i \in 1..DataSize : buf[i] = m[i]
  BY DEF Prefix
<1>2. buf = [i \in 1..DataSize |-> buf[i]] /\ m = [i \in 1..DataSize |-> m[i]]
  OBVIOUS
<1> QED
  BY <1>1, <1>2
-----------------------------------------------------------------------------
(* Steps that leave an exchange alone.                                      *)

\* An update of one channel of one client.
LEMMA OneChannel ==
    ASSUME NEW V, NEW f \in [Directions -> [Clients -> V]], NEW d \in Directions,
           NEW c \in Clients, NEW x \in V, NEW g, g = [f EXCEPT ![d][c] = x]
    PROVE  /\ g \in [Directions -> [Clients -> V]] /\ g[d][c] = x
           /\ \A e \in Directions, y \in Clients : e # d \/ y # c => g[e][y] = f[e][y]
OBVIOUS

\* Nothing of client c has changed but, perhaps, what the server does elsewhere.
LEMMA ExchangeKept ==
    ASSUME NEW c \in Clients, Exchange(c), proc'[c] = proc[c],
           \A d \in Directions : chan'[d][c] = chan[d][c],
           \/ proc'[Server] = proc[Server]
           \/ /\ ~Reading(c) /\ ~Writing(c) /\ ~Writing(c)'
              /\ Reading(c)' => proc'[Server].current = 0
    PROVE  Exchange(c)'
<1>1. chan'["up"][c] = chan["up"][c] /\ chan'["down"][c] = chan["down"][c]
  BY DEF Directions
<1>2. CASE proc'[Server] = proc[Server]
  <2>1. Upward(c) => Upward(c)'
    BY <1>1, <1>2 DEF Upward, Carries, Empty, Reading, Writing, HasRead, HasSent
  <2>2. Downward(c) => Downward(c)'
    BY <1>1, <1>2 DEF Downward, Carries, Empty, Reading, Writing
  <2>3. OnTheWay(c) => OnTheWay(c)'
    BY <1>1, <1>2 DEF OnTheWay, Carries, Empty, Reading, Writing
  <2>4. Arrived(c) => Arrived(c)'
    BY <1>1, <1>2 DEF Arrived, Carries, Empty, Reading, Writing
  <2> QED
    BY <2>1, <2>2, <2>3, <2>4 DEF Exchange
<1>3. CASE /\ ~Reading(c) /\ ~Writing(c) /\ ~Writing(c)'
           /\ Reading(c)' => proc'[Server].current = 0
  <2>1. Upward(c) => Upward(c)'
    <3>1. HasRead(c) = 0 /\ HasRead(c)' = 0 /\ HasSent(c)' = HasSent(c)
      BY <1>3 DEF HasRead, HasSent
    <3>2. Reading(c)' => Prefix(proc'[Server].buf, MessageOf(c, proc'[c].round), proc'[Server].current)
      BY <1>3 DEF Prefix
    <3> QED
      BY <1>1, <1>3, <3>1, <3>2 DEF Upward, Carries, Empty
  <2>2. ~Downward(c)
    BY <1>3 DEF Downward
  <2>3. OnTheWay(c) => OnTheWay(c)'
    BY <1>1, <1>3 DEF OnTheWay, Carries, Empty
  <2>4. Arrived(c) => Arrived(c)'
    BY <1>1, <1>3 DEF Arrived, Carries, Empty
  <2> QED
    BY <2>1, <2>2, <2>3, <2>4 DEF Exchange
<1> QED
  BY <1>2, <1>3

\* The invariant holds initially.
LEMMA Starts == Init => SocketInv
<1> SUFFICES ASSUME Init PROVE SocketInv
  OBVIOUS
<1>0. DataSize \in Nat /\ DataSize > 0 /\ Server \notin Clients /\ Server \in Nat /\ MaxTries \in Nat
      /\ Participants \subseteq Clients /\ \A k \in Kinds : Capacity[k] \in Nat
  BY Basics
<1>1. (\A d \in Directions, c \in Clients : chan[d][c] = <<>>) /\ chan \in Channels
  BY DEF Init, Directions, Channels
<1>2. EmptyBuffer \in Buffers
  BY EmptyBufferType
<1>3. \A t \in Clients \cup {Server} :
        /\ proc[t].pc = (IF t = Server THEN "listen" ELSE "connect")
        /\ proc[t].current = 0 /\ proc[t].with = t
        /\ proc[t] \in ThreadStates
  BY <1>0, <1>2 DEF Init, ThreadStates, Pcs
<1>4. proc \in [Clients \cup {Server} -> ThreadStates]
  BY <1>3 DEF Init
<1>5. Shape
  <2>1. \A d \in Directions, c \in Clients : Len(chan[d][c]) <= Capacity[kind]
    BY <1>0, <1>1 DEF Init
  <2>2. kind \in Kinds /\ backlog = <<>> /\ connections = <<>> /\ short = FALSE
    BY DEF Init
  <2>3. backlog \in Seq(Participants) /\ connections \in Seq(Participants)
    <3> DEFINE P == Participants
    <3> HIDE DEF P
    <3>1. <<>> \in Seq(P)
      OBVIOUS
    <3> QED
      BY <3>1, <2>2 DEF P
  <2>4. short \in BOOLEAN
    BY <2>2
  <2> QED
    BY <1>1, <1>4, <2>1, <2>2, <2>3, <2>4 DEF Shape
<1>6. ServerOK /\ ClientsOK
  BY <1>0, <1>3 DEF ServerOK, ClientsOK, ClientPcs
<1>7. ASSUME NEW c \in Participants PROVE Exchange(c)
  <2>0. c \in Clients /\ c # Server /\ Server \in Clients \cup {Server}
    BY <1>0
  <2>1. \A m : Flow(<<>>, m, 0, 0)
    BY <1>0 DEF Flow
  <2>2. Empty("up", c) /\ Empty("down", c)
    BY <2>0, <2>1, <1>1 DEF Empty, Carries, Directions
  <2>3. proc[c].pc = "connect" /\ proc[c].current = 0 /\ proc[Server].pc = "listen"
    BY <2>0, <1>3
  <2>4. HasSent(c) = 0 /\ HasRead(c) = 0 /\ ~Reading(c) /\ ~Writing(c)
    BY <2>3 DEF HasSent, HasRead, Reading, Writing
  <2> QED
    BY <2>2, <2>3, <2>4 DEF Exchange, Upward, Empty
<1> QED
  BY <1>5, <1>6, <1>7 DEF SocketInv, TypeInv, Exchanges
-----------------------------------------------------------------------------
(* Writing                                                                  *)

\* What the invariant says of the threads' records.
LEMMA ThreadFacts ==
    ASSUME Shape, NEW t \in Clients \cup {Server}
    PROVE  /\ proc[t] \in ThreadStates /\ proc[t].current \in 0..DataSize - 1
           /\ proc[t].round \in Nat /\ proc[t].buf \in Buffers /\ proc[t].pc \in Pcs
           /\ proc[t].tries \in 0..MaxTries + 1 /\ proc[t].with \in Clients \cup {Server}
           /\ DOMAIN proc = Clients \cup {Server}
BY DEF Shape, ThreadStates

\* A writer has the message of its client, and its channel carries what it has
\* written of it and its reader has not taken.
LEMMA WriterFacts ==
    ASSUME NEW t, NEW c \in Clients, Exchange(c), t = Server \/ t = c,
           proc[t].pc = "write", proc[t].with = c
    PROVE  /\ Data(t) = MessageOf(c, proc[c].round)
           /\ t = Server => Downward(c) /\ Carries("down", c, proc[c].current, proc[t].current)
           /\ t # Server => Upward(c) /\ Carries("up", c, HasRead(c), proc[t].current)
<1>1. c # Server
  BY Basics
<1>2. CASE t = Server
  <2>1. Downward(c)
    BY <1>2 DEF Exchange, Upward, OnTheWay, Arrived, Writing
  <2> QED
    BY <1>2, <2>1 DEF Downward, Data
<1>3. CASE t # Server
  <2>1. Upward(c) /\ t = c
    BY <1>3 DEF Exchange, Downward, OnTheWay, Arrived
  <2> QED
    BY <1>3, <2>1 DEF Upward, Data, HasSent
<1> QED
  BY <1>2, <1>3

\* What handing over n bytes to client c, or by it, does.
PutEffect(t, c, n) ==
    /\ UNCHANGED <<kind, backlog, connections, short>>
    /\ chan' \in Channels
    /\ \A e \in Directions, y \in Clients : e # Out(t) \/ y # c => chan'[e][y] = chan[e][y]
    /\ \E w : /\ Part(Byte, Data(t), proc[t].current, n, w)
              /\ Joined(Byte, chan[Out(t)][c], w, chan'[Out(t)][c])
    /\ proc' \in [Clients \cup {Server} -> ThreadStates]
    /\ \A u \in Clients \cup {Server} : u # t => proc'[u] = proc[u]
    /\ proc'[t].round = proc[t].round /\ proc'[t].buf = proc[t].buf /\ proc'[t].with = c
    /\ n = Left(t) => proc'[t].current = 0 /\ proc'[t].pc = (IF t = Server THEN "answered" ELSE "read")
    /\ n # Left(t) => proc'[t].current = proc[t].current + n /\ proc'[t].pc = "write"

\* Put has this effect.
LEMMA PutDoes ==
    ASSUME TypeInv, NEW t, NEW c \in Clients, t = Server \/ t = c,
           proc[t].pc = "write", proc[t].with = c, NEW n \in 1..Left(t), Put(t, n)
    PROVE  PutEffect(t, c, n)
<1>0. /\ t \in Clients \cup {Server} /\ DataSize \in Nat /\ DataSize > 0 /\ Shape
      /\ c # Server /\ c \in Clients \cup {Server}
  BY Basics DEF TypeInv
<1>1. /\ proc[t] \in ThreadStates /\ proc[t].current \in 0..DataSize - 1 /\ DOMAIN proc = Clients \cup {Server}
      /\ proc[t].buf \in Buffers /\ proc[c].round \in Nat
  BY <1>0, ThreadFacts
<1>2. n \in Nat /\ n > 0 /\ n <= DataSize - proc[t].current
  BY <1>0, <1>1 DEF Left
<1> DEFINE d == Out(t)
           m == Data(t)
           b == proc[t].current
           w == [i \in 1..n |-> m[b + i]]
           s == chan[d][c]
           z == s \o w
<1>3. d \in Directions
  BY DEF Out, Directions
<1>4. chan \in [Directions -> [Clients -> Seq(Byte)]] /\ s \in Seq(Byte)
  BY <1>0, <1>3 DEF Shape, Channels
<1>5. m \in [1..DataSize -> Byte]
  <2>1. CASE t = Server
    BY <2>1, <1>1 DEF Data, Buffers
  <2>2. CASE t # Server
    BY <2>2, <1>0, <1>1, MessageType DEF Data
  <2> QED
    BY <2>1, <2>2
<1>7. chan' = [chan EXCEPT ![d][c] = z] /\ UNCHANGED <<kind, backlog, connections, short>>
  BY DEF Put
<1>9. proc' = IF n = Left(t)
              THEN [proc EXCEPT ![t].current = 0, ![t].pc = IF t = Server THEN "answered" ELSE "read"]
              ELSE [proc EXCEPT ![t].current = b + n]
  BY DEF Put
<1>10. Part(Byte, m, b, n, w)
  <2>2. \A i \in 1..n : b + i \in 1..DataSize
    BY <1>0, <1>1, <1>2
  <2> HIDE DEF m, b
  <2>3. \A i \in 1..n : m[b + i] \in Byte
    BY <2>2, <1>5
  <2> QED
    BY <2>3, <1>2 DEF Part
<1>11. Joined(Byte, s, w, z)
  <2>1. w \in Seq(Byte) /\ s \in Seq(Byte) /\ z = s \o w
    BY <1>4, <1>10 DEF Part
  <2> HIDE DEF w, s, z
  <2> QED
    BY <2>1, ConcatJoined
<1>13. /\ chan' \in [Directions -> [Clients -> Seq(Byte)]] /\ chan'[d][c] = z
       /\ \A e \in Directions, y \in Clients : e # d \/ y # c => chan'[e][y] = chan[e][y]
  <2>1. z \in Seq(Byte)
    BY <1>11 DEF Joined
  <2> HIDE DEF d, z
  <2> QED
    BY <1>3, <1>4, <1>7, <2>1, OneChannel
<1>15. /\ \A u \in Clients \cup {Server} : u # t => proc'[u] = proc[u]
       /\ proc'[t].round = proc[t].round /\ proc'[t].buf = proc[t].buf /\ proc'[t].with = c
       /\ n = Left(t) => proc'[t].current = 0 /\ proc'[t].pc = (IF t = Server THEN "answered" ELSE "read")
       /\ n # Left(t) => proc'[t].current = b + n /\ proc'[t].pc = "write"
  BY <1>0, <1>1, <1>9 DEF ThreadStates
<1>16. proc' \in [Clients \cup {Server} -> ThreadStates]
  <2>1. proc'[t] \in ThreadStates
    <3>1. n # Left(t) => b + n \in 0..DataSize - 1
      BY <1>0, <1>1, <1>2 DEF Left
    <3>2. 0 \in 0..DataSize - 1
      BY <1>0
    <3> QED
      BY <1>0, <1>1, <1>9, <3>1, <3>2 DEF ThreadStates, Pcs
  <2> QED
    BY <2>1, <1>0, <1>1, <1>9, <1>15 DEF Shape
<1>17. \E v : Part(Byte, Data(t), proc[t].current, n, v) /\ Joined(Byte, chan[Out(t)][c], v, chan'[Out(t)][c])
  BY <1>10, <1>11, <1>13
<1> QED
  BY <1>7, <1>13, <1>15, <1>16, <1>17 DEF PutEffect, Channels

\* Handing over n bytes keeps the types, and a socket's bound.
LEMMA PutTypes ==
    ASSUME TypeInv, NEW t, NEW c \in Participants, t = Server \/ t = c,
           NEW n \in 1..Left(t), PutEffect(t, c, n), proc[t].pc = "write",
           Len(chan[Out(t)][c]) + n <= Capacity[kind]
    PROVE  TypeInv'
<1>0. /\ c \in Clients /\ c # Server /\ t \in Clients \cup {Server} /\ Shape /\ ServerOK /\ ClientsOK
      /\ Server \in Clients \cup {Server} /\ Server \notin Clients
  BY Basics DEF TypeInv
<1>1. Participants' = Participants /\ UNCHANGED <<kind, backlog, connections, short>>
  BY DEF Participants, PutEffect
<1>2. Shape'
  <2>1. ASSUME NEW e \in Directions, NEW y \in Clients PROVE Len(chan'[e][y]) <= Capacity[kind]
    <3>1. CASE e = Out(t) /\ y = c
      <4>1. PICK w : /\ Part(Byte, Data(t), proc[t].current, n, w)
                     /\ Joined(Byte, chan[Out(t)][c], w, chan'[Out(t)][c])
        BY DEF PutEffect
      <4>2. Len(chan'[e][y]) = Len(chan[Out(t)][c]) + n
        BY <3>1, <4>1 DEF Part, Joined
      <4> QED
        BY <4>2
    <3>2. CASE e # Out(t) \/ y # c
      BY <3>2, <1>0 DEF Shape, PutEffect
    <3> QED
      BY <3>1, <3>2
  <2>2. kind' \in Kinds /\ backlog' \in Seq(Participants)' /\ connections' \in Seq(Participants)'
    BY <1>0, <1>1 DEF Shape
  <2>3. short' \in BOOLEAN
    BY <1>0, <1>1 DEF Shape
  <2>4. chan' \in Channels /\ proc' \in [Clients \cup {Server} -> ThreadStates]
    BY DEF PutEffect
  <2> QED
    BY <2>1, <2>2, <2>3, <2>4, <1>1 DEF Shape
<1>3. ServerOK'
  <2>1. CASE t = Server
    <3>1. /\ proc'[Server].pc \in {"answered", "write"} /\ proc'[Server].with = c
          /\ proc'[Server].pc = "answered" => proc'[Server].current = 0
      BY <2>1 DEF PutEffect
    <3> QED
      BY <3>1, <1>1 DEF ServerOK
  <2>2. CASE t # Server
    <3>1. proc'[Server] = proc[Server]
      BY <2>2, <1>0 DEF PutEffect
    <3> QED
      BY <3>1, <1>0, <1>1 DEF ServerOK
  <2> QED
    BY <2>1, <2>2
<1>4. ClientsOK'
  <2> SUFFICES ASSUME NEW y \in Clients
               PROVE  /\ proc'[y].with = y
                      /\ proc'[y].pc \in ClientPcs
                      /\ proc'[y].pc \notin {"write", "read"} => proc'[y].current = 0
    BY DEF ClientsOK
  <2>1. CASE y = t
    BY <2>1, <1>0 DEF PutEffect, ClientPcs
  <2>2. CASE y # t
    <3>1. proc'[y] = proc[y]
      BY <2>2 DEF PutEffect
    <3> QED
      BY <3>1, <1>0 DEF ClientsOK
  <2> QED
    BY <2>1, <2>2
<1> QED
  BY <1>2, <1>3, <1>4 DEF TypeInv

\* It keeps the exchanges.
LEMMA PutExchanges ==
    ASSUME TypeInv, Exchanges, NEW t, NEW c \in Participants, t = Server \/ t = c,
           NEW n \in 1..Left(t), PutEffect(t, c, n), proc[t].pc = "write", proc[t].with = c
    PROVE  Exchanges'
<1>0. /\ c \in Clients /\ c # Server /\ t \in Clients \cup {Server} /\ Shape /\ Exchange(c)
      /\ Server \in Clients \cup {Server} /\ DataSize \in Nat /\ Participants \subseteq Clients
      /\ Server \notin Clients
  BY Basics DEF TypeInv, Exchanges
<1>1. Participants' = Participants
  BY DEF Participants, PutEffect
<1>2. proc[t].current \in 0..DataSize - 1 /\ n \in Nat /\ n > 0 /\ n <= DataSize - proc[t].current
      /\ Left(t) = DataSize - proc[t].current
  BY <1>0, ThreadFacts DEF Left
<1> DEFINE d == Out(t)
           m == MessageOf(c, proc[c].round)
           b == proc[t].current
           s == chan[d][c]
           z == chan'[d][c]
<1>3. /\ Data(t) = m
      /\ t = Server => Downward(c) /\ Carries("down", c, proc[c].current, b)
      /\ t # Server => Upward(c) /\ Carries("up", c, HasRead(c), b)
  BY <1>0, WriterFacts
<1>4. d \in Directions /\ s \in Seq(Byte)
  BY <1>0 DEF Shape, Out, Directions, Channels
<1>5. /\ \A u \in Clients \cup {Server} : u # t => proc'[u] = proc[u]
      /\ proc'[t].round = proc[t].round /\ proc'[t].buf = proc[t].buf /\ proc'[t].with = c
      /\ n = DataSize - b => proc'[t].current = 0 /\ proc'[t].pc = (IF t = Server THEN "answered" ELSE "read")
      /\ n # DataSize - b => proc'[t].current = b + n /\ proc'[t].pc = "write"
      /\ \A e \in Directions, y \in Clients : e # d \/ y # c => chan'[e][y] = chan[e][y]
  BY <1>2 DEF PutEffect
<1>6. ASSUME NEW a, Flow(s, m, a, b) PROVE Flow(z, m, a, b + n)
  <2>1. PICK w : Part(Byte, m, b, n, w) /\ Joined(Byte, s, w, z)
    BY <1>3 DEF PutEffect
  <2>2. b \in Nat /\ b + n <= DataSize
    BY <1>0, <1>2
  <2> HIDE DEF d, m, b, s, z
  <2> QED
    BY <2>1, <2>2, <1>2, <1>4, <1>6, FlowPut
<1>20. ASSUME NEW y \in Participants, y # c PROVE Exchange(y)'
  <2>1. Exchange(y) /\ y \in Clients /\ y # t
    BY <1>20, <1>0 DEF Exchanges
  <2>2. proc'[y] = proc[y] /\ \A e \in Directions : chan'[e][y] = chan[e][y]
    BY <2>1, <1>20, <1>5
  <2>3. CASE t = Server
    <3>1. ~Reading(y) /\ ~Writing(y) /\ ~Writing(y)' /\ ~Reading(y)'
      BY <2>3, <1>20, <1>5 DEF Reading, Writing
    <3> QED
      BY <3>1, <2>1, <2>2, ExchangeKept
  <2>4. CASE t # Server
    <3>1. proc'[Server] = proc[Server]
      BY <2>4, <1>0, <1>5
    <3> QED
      BY <3>1, <2>1, <2>2, ExchangeKept
  <2> QED
    BY <2>3, <2>4
<1>21. Exchange(c)'
  <2>1. CASE t = Server
    <3>1. d = "down" /\ proc'[c] = proc[c] /\ "up" \in Directions
      BY <2>1, <1>0, <1>5 DEF Out, Directions
    <3>2. Flow(chan'["down"][c], m, proc[c].current, b + n)
      BY <2>1, <3>1, <1>3, <1>6 DEF Carries
    <3>3. chan'["up"][c] = chan["up"][c]
      BY <3>1, <1>0, <1>5
    <3>4. Empty("up", c)' /\ proc'[c].pc = "read" /\ Prefix(proc'[c].buf, m, proc'[c].current)
      BY <2>1, <3>1, <3>3, <1>3 DEF Downward, Empty, Carries
    <3>5. CASE n = DataSize - b
      <4>1. b + n = DataSize /\ ~Writing(c)' /\ ~Reading(c)'
        BY <2>1, <3>5, <1>0, <1>2, <1>5 DEF Reading, Writing
      <4>2. OnTheWay(c)'
        BY <4>1, <3>1, <3>2, <3>4 DEF OnTheWay, Carries
      <4> QED
        BY <4>2 DEF Exchange
    <3>6. CASE n # DataSize - b
      <4>1. Writing(c)' /\ proc'[Server].current = b + n /\ proc'[Server].buf = m
        BY <2>1, <3>6, <1>3, <1>5 DEF Writing, Downward
      <4>2. Downward(c)'
        BY <4>1, <3>1, <3>2, <3>4 DEF Downward, Carries
      <4> QED
        BY <4>2 DEF Exchange
    <3> QED
      BY <3>5, <3>6
  <2>2. CASE t # Server
    <3>1. d = "up" /\ proc'[Server] = proc[Server] /\ t = c /\ "down" \in Directions
      BY <2>2, <1>0, <1>5 DEF Out, Directions
    <3>2. Flow(chan'["up"][c], m, HasRead(c), b + n)
      BY <2>2, <3>1, <1>3, <1>6 DEF Carries
    <3>3. chan'["down"][c] = chan["down"][c]
      BY <3>1, <1>0, <1>5
    <3>4. MessageOf(c, proc'[c].round) = m /\ HasRead(c)' = HasRead(c)
      BY <3>1, <1>5 DEF HasRead, Reading
    <3>5. HasSent(c)' = b + n /\ proc'[c].pc \in {"write", "read"}
          /\ (proc'[c].pc = "read" => proc'[c].current = 0)
      BY <2>2, <3>1, <1>0, <1>2, <1>5 DEF HasSent
    <3>6. Empty("down", c)' /\ ~Writing(c)'
          /\ (Reading(c)' => Prefix(proc'[Server].buf, m, proc'[Server].current))
      BY <2>2, <3>1, <3>3, <3>4, <1>3 DEF Upward, Empty, Carries, Reading, Writing
    <3>7. Upward(c)'
      BY <3>2, <3>4, <3>5, <3>6 DEF Upward, Carries
    <3> QED
      BY <3>7 DEF Exchange
  <2> QED
    BY <2>1, <2>2
<1> QED
  BY <1>1, <1>20, <1>21 DEF Exchanges
-----------------------------------------------------------------------------
(* Reading                                                                  *)

\* What taking n bytes from client c, or by it, does; the call goes on by done.
TakeEffect(t, c, n, done) ==
    /\ UNCHANGED <<kind, backlog, connections>>
    /\ chan' \in Channels
    /\ \A e \in Directions, y \in Clients : e # In(t) \/ y # c => chan'[e][y] = chan[e][y]
    /\ Part(Byte, chan[In(t)][c], n, Len(chan[In(t)][c]) - n, chan'[In(t)][c])
    /\ \E u : /\ Part(Byte, chan[In(t)][c], 0, n, u)
              /\ proc'[t].buf = Placed(proc[t].buf, proc[t].current, u)
    /\ proc' \in [Clients \cup {Server} -> ThreadStates]
    /\ \A y \in Clients \cup {Server} : y # t => proc'[y] = proc[y]
    /\ proc'[t].round = proc[t].round /\ proc'[t].with = c
    /\ done >= Left(t) => proc'[t].current = 0 /\ proc'[t].pc = (IF t = Server THEN "write" ELSE "check")
    /\ ~(done >= Left(t)) => proc'[t].current = proc[t].current + done /\ proc'[t].pc = proc[t].pc

\* Take has this effect.
LEMMA TakeDoes ==
    ASSUME TypeInv, NEW t, NEW c \in Clients, t = Server \/ t = c,
           NEW n \in Nat, n <= Len(chan[In(t)][c]), NEW done \in Nat, Take(t, c, n, done)
    PROVE  TakeEffect(t, c, n, done)
<1>0. /\ t \in Clients \cup {Server} /\ DataSize \in Nat /\ DataSize > 0 /\ Shape
      /\ c # Server /\ c \in Clients \cup {Server}
  BY Basics DEF TypeInv
<1>1. /\ proc[t] \in ThreadStates /\ proc[t].current \in 0..DataSize - 1 /\ DOMAIN proc = Clients \cup {Server}
      /\ proc[t].buf \in Buffers
  BY <1>0, ThreadFacts
<1> DEFINE d == In(t)
           a == proc[t].current
           s == chan[d][c]
           u == SubSeq(s, 1, n)
           w == SubSeq(s, n + 1, Len(s))
           buf == proc[t].buf
           all == done >= Left(t)
<1>3. d \in Directions
  BY DEF In, Directions
<1>4. chan \in [Directions -> [Clients -> Seq(Byte)]] /\ s \in Seq(Byte)
  BY <1>0, <1>3 DEF Shape, Channels
<1>8. Part(Byte, s, 0, n, u) /\ Part(Byte, s, n, Len(s) - n, w)
  <2>1. Len(s) \in Nat /\ 0 \in Nat /\ 0 <= n /\ n <= Len(s) /\ Len(s) <= Len(s) /\ 1 = 0 + 1 /\ n - 0 = n
    BY <1>4
  <2> DEFINE v == n + 1
             e == Len(s)
             o == 1
  <2>2. v = n + 1 /\ e \in Nat /\ n <= e /\ e <= Len(s) /\ w = SubSeq(s, v, e) /\ u = SubSeq(s, o, n) /\ o = 0 + 1
    BY <2>1
  <2> HIDE DEF s, w, u, v, e, o
  <2>3. Part(Byte, s, 0, n - 0, u)
    BY <2>1, <2>2, <1>4, SubSeqPart
  <2>4. Part(Byte, s, n, e - n, w)
    BY <2>1, <2>2, <1>4, SubSeqPart
  <2> QED
    BY <2>1, <2>3, <2>4 DEF e
<1>11. Placed(buf, a, u) \in Buffers
  <2>1. u \in Seq(Byte) /\ buf \in [1..DataSize -> Byte] /\ a \in Nat
    BY <1>0, <1>1, <1>8 DEF Part, Buffers
  <2>2. Placed(buf, a, u) \in [1..DataSize -> Byte]
    <3> HIDE DEF u, buf, a
    <3> QED
      BY <2>1, PlacedType
  <2> QED
    BY <2>2 DEF Buffers
<1>12. chan' = [chan EXCEPT ![d][c] = w] /\ UNCHANGED <<kind, backlog, connections>>
  BY DEF Take
<1>14. proc' = [proc EXCEPT ![t].with = c, ![t].buf = Placed(@, a, u),
                            ![t].current = IF all THEN 0 ELSE @ + done,
                            ![t].pc = IF ~all THEN @ ELSE IF t = Server THEN "write" ELSE "check"]
  BY DEF Take
<1>15. /\ chan' \in [Directions -> [Clients -> Seq(Byte)]] /\ chan'[d][c] = w
       /\ \A e \in Directions, y \in Clients : e # d \/ y # c => chan'[e][y] = chan[e][y]
  <2>1. w \in Seq(Byte)
    BY <1>8 DEF Part
  <2> HIDE DEF d, w
  <2> QED
    BY <1>3, <1>4, <2>1, <1>12, OneChannel
<1>17. /\ \A y \in Clients \cup {Server} : y # t => proc'[y] = proc[y]
       /\ proc'[t].round = proc[t].round /\ proc'[t].buf = Placed(buf, a, u) /\ proc'[t].with = c
       /\ all => proc'[t].current = 0 /\ proc'[t].pc = (IF t = Server THEN "write" ELSE "check")
       /\ ~all => proc'[t].current = a + done /\ proc'[t].pc = proc[t].pc
  <2> HIDE DEF all, u
  <2> QED
    BY <1>0, <1>1, <1>14 DEF ThreadStates
<1>18. proc' \in [Clients \cup {Server} -> ThreadStates]
  <2>1. ~all => a + done \in 0..DataSize - 1
    BY <1>0, <1>1 DEF Left
  <2>2. 0 \in 0..DataSize - 1
    BY <1>0
  <2>3. proc'[t] \in ThreadStates
    <3> HIDE DEF all, u
    <3> QED
      BY <1>0, <1>1, <1>11, <1>14, <2>1, <2>2 DEF ThreadStates, Pcs
  <2>4. \A y \in Clients \cup {Server} : proc'[y] \in ThreadStates
    BY <2>3, <1>0, <1>17 DEF Shape
  <2>5. proc' = [y \in Clients \cup {Server} |-> proc'[y]]
    <3> HIDE DEF all, u
    <3> QED
      BY <1>1, <1>14
  <2> QED
    BY <2>4, <2>5
<1>19. \E v : Part(Byte, chan[In(t)][c], 0, n, v) /\ proc'[t].buf = Placed(proc[t].buf, proc[t].current, v)
  BY <1>8, <1>17
<1>20. Part(Byte, chan[In(t)][c], n, Len(chan[In(t)][c]) - n, chan'[In(t)][c])
  BY <1>8, <1>15
<1> QED
  BY <1>12, <1>15, <1>17, <1>18, <1>19, <1>20 DEF TakeEffect, Channels

\* Taking bytes keeps the types.
LEMMA TakeTypes ==
    ASSUME TypeInv, NEW t, NEW c \in Participants, t = Server \/ t = c, NEW n \in Nat, NEW done,
           TakeEffect(t, c, n, done), short' \in BOOLEAN,
           t # Server => proc[t].pc = "read",
           t = Server => proc[t].pc = "read" \/ (proc[t].pc = "poll" /\ done >= Left(t))
    PROVE  TypeInv'
<1>0. /\ c \in Clients /\ c # Server /\ t \in Clients \cup {Server} /\ Shape /\ ServerOK /\ ClientsOK
      /\ Server \in Clients \cup {Server} /\ Server \notin Clients
  BY Basics DEF TypeInv
<1>1. Participants' = Participants /\ UNCHANGED <<kind, backlog, connections>>
  BY DEF Participants, TakeEffect
<1>2. Shape'
  <2>1. ASSUME NEW e \in Directions, NEW y \in Clients PROVE Len(chan'[e][y]) <= Capacity[kind]
    <3>0. Len(chan[e][y]) <= Capacity[kind] /\ Capacity[kind] \in Nat /\ chan[e][y] \in Seq(Byte)
      BY <1>0, Basics DEF Shape, Channels
    <3>1. CASE e = In(t) /\ y = c
      <4>1. Len(chan'[e][y]) = Len(chan[e][y]) - n
        BY <3>1 DEF TakeEffect, Part
      <4>2. Len(chan[e][y]) \in Nat
        BY <3>0
      <4> QED
        BY <4>1, <4>2, <3>0
    <3>2. CASE e # In(t) \/ y # c
      BY <3>0, <3>2 DEF TakeEffect
    <3> QED
      BY <3>1, <3>2
  <2>2. kind' \in Kinds /\ backlog' \in Seq(Participants)' /\ connections' \in Seq(Participants)'
    BY <1>0, <1>1 DEF Shape
  <2>4. chan' \in Channels /\ proc' \in [Clients \cup {Server} -> ThreadStates]
    BY DEF TakeEffect
  <2> QED
    BY <2>1, <2>2, <2>4, <1>1 DEF Shape
<1>3. ServerOK'
  <2>1. CASE t = Server
    <3>1. /\ proc'[Server].with = c
          /\ \/ proc'[Server].pc = "write"
             \/ proc'[Server].pc = "read" /\ proc[Server].pc = "read"
      BY <2>1 DEF TakeEffect
    <3> QED
      BY <3>1, <1>0, <1>1 DEF ServerOK
  <2>2. CASE t # Server
    <3>1. proc'[Server] = proc[Server]
      BY <2>2, <1>0 DEF TakeEffect
    <3> QED
      BY <3>1, <1>0, <1>1 DEF ServerOK
  <2> QED
    BY <2>1, <2>2
<1>4. ClientsOK'
  <2> SUFFICES ASSUME NEW y \in Clients
               PROVE  /\ proc'[y].with = y
                      /\ proc'[y].pc \in ClientPcs
                      /\ proc'[y].pc \notin {"write", "read"} => proc'[y].current = 0
    BY DEF ClientsOK
  <2>1. CASE y = t
    BY <2>1, <1>0 DEF TakeEffect, ClientPcs
  <2>2. CASE y # t
    <3>1. proc'[y] = proc[y]
      BY <2>2 DEF TakeEffect
    <3> QED
      BY <3>1, <1>0 DEF ClientsOK
  <2> QED
    BY <2>1, <2>2
<1> QED
  BY <1>2, <1>3, <1>4 DEF TypeInv

\* t may read from client c: the bytes after its own are those of the message up
\* to b, and its buffer holds the ones before.
Reads(t, c, b) ==
    /\ Carries(In(t), c, proc[t].current, b)
    /\ Prefix(proc[t].buf, MessageOf(c, proc[c].round), proc[t].current)
    /\ t = Server => /\ Upward(c) /\ b = HasSent(c) /\ proc[Server].pc \in {"read", "poll"}
                     /\ proc[Server].pc = "read" => proc[Server].with = c
    /\ t # Server => /\ proc[c].pc = "read"
                     /\ \/ Downward(c) /\ b = proc[Server].current
                        \/ OnTheWay(c) /\ b = DataSize

\* Taking n of them keeps the exchanges.
LEMMA TakeExchanges ==
    ASSUME TypeInv, Exchanges, NEW t, NEW c \in Participants, t = Server \/ t = c, NEW b \in Nat,
           Reads(t, c, b), NEW n \in Nat, 0 < n, proc[t].current + n <= b,
           TakeEffect(t, c, n, n), (t = Server /\ proc[Server].pc = "poll") => n >= Left(t)
    PROVE  Exchanges'
<1>0. /\ c \in Clients /\ c # Server /\ t \in Clients \cup {Server} /\ Participants \subseteq Clients
      /\ DataSize \in Nat /\ DataSize > 0 /\ Shape /\ Exchange(c) /\ Server \in Clients \cup {Server}
      /\ Server \notin Clients /\ c \in Clients \cup {Server}
  BY Basics DEF TypeInv, Exchanges
<1>1. /\ proc[t].current \in 0..DataSize - 1 /\ proc[c].round \in Nat /\ proc[c].current \in 0..DataSize - 1
      /\ proc[t].buf \in Buffers
  BY <1>0, ThreadFacts
<1> DEFINE d == In(t)
           m == MessageOf(c, proc[c].round)
           a == proc[t].current
           s == chan[d][c]
           w == chan'[d][c]
           buf == proc[t].buf
           new == proc'[t].buf
           all == n >= DataSize - a
<1>3. d \in Directions
  BY DEF In, Directions
<1>4. s \in Seq(Byte)
  BY <1>0, <1>3 DEF Shape, Channels
<1>5. m \in [1..DataSize -> Byte]
  BY <1>0, <1>1, MessageType
<1>6. Flow(s, m, a, b) /\ Prefix(buf, m, a)
  BY DEF Reads, Carries
<1>7. a \in Nat /\ a + n <= b /\ b <= DataSize
  <2>1. a \in Nat /\ a + n <= b /\ b \in a..DataSize
    BY <1>0, <1>1, <1>6 DEF Flow
  <2> QED
    BY <2>1, <1>0
<1>10. Flow(w, m, a + n, b)
  <2>1. Part(Byte, s, n, Len(s) - n, w)
    BY DEF TakeEffect
  <2> HIDE DEF d, m, a, s, w
  <2> QED
    BY <2>1, <1>4, <1>6, <1>7, FlowTake
<1>11. Prefix(new, m, a + n) /\ new \in [1..DataSize -> Byte]
  <2>1. PICK u : Part(Byte, s, 0, n, u) /\ new = Placed(buf, a, u)
    BY DEF TakeEffect
  <2>2. new \in [1..DataSize -> Byte]
    BY <1>0 DEF TakeEffect, ThreadStates, Buffers
  <2> HIDE DEF d, m, a, s, buf, new
  <2> QED
    BY <2>1, <2>2, <1>4, <1>6, <1>7, PlacedPrefix
<1>17. /\ \A y \in Clients \cup {Server} : y # t => proc'[y] = proc[y]
       /\ proc'[t].round = proc[t].round /\ proc'[t].with = c
       /\ all => proc'[t].current = 0 /\ proc'[t].pc = (IF t = Server THEN "write" ELSE "check")
       /\ ~all => proc'[t].current = a + n /\ proc'[t].pc = proc[t].pc
       /\ \A e \in Directions, y \in Clients : e # d \/ y # c => chan'[e][y] = chan[e][y]
  BY DEF TakeEffect, Left
<1>19. Participants' = Participants
  BY DEF Participants, TakeEffect
<1>21. (t = Server /\ proc[Server].pc = "poll") => all
  BY DEF Left
<1>23. ASSUME NEW y \in Participants, y # c PROVE Exchange(y)'
  <2>1. Exchange(y) /\ y \in Clients /\ y # t
    BY <1>23, <1>0 DEF Exchanges
  <2>2. proc'[y] = proc[y] /\ \A e \in Directions : chan'[e][y] = chan[e][y]
    BY <2>1, <1>23, <1>17
  <2>3. CASE t = Server
    <3>1. ~Reading(y) /\ ~Writing(y) /\ ~Writing(y)' /\ ~Reading(y)'
      BY <2>3, <1>23, <1>17 DEF Reading, Writing, Reads
    <3> QED
      BY <3>1, <2>1, <2>2, ExchangeKept
  <2>4. CASE t # Server
    <3>1. proc'[Server] = proc[Server]
      BY <2>4, <1>0, <1>17
    <3> QED
      BY <3>1, <2>1, <2>2, ExchangeKept
  <2> QED
    BY <2>3, <2>4
<1>24. ASSUME all PROVE a + n = DataSize /\ b = DataSize /\ new = m /\ \A m2 : Flow(w, m2, 0, 0)
  <2>1. a + n = DataSize /\ b = DataSize
    BY <1>24, <1>0, <1>7
  <2>2. Prefix(new, m, DataSize) /\ Flow(w, m, DataSize, DataSize)
    BY <2>1, <1>10, <1>11
  <2>3. new = m
    <3> HIDE DEF new, m
    <3> QED
      BY <1>5, <1>11, <2>2, WholeMessage
  <2>4. ASSUME NEW m2 PROVE Flow(w, m2, 0, 0)
    <3> DEFINE e == DataSize
               o == 0
    <3>1. Flow(w, m, e, e) /\ e \in 0..DataSize /\ o \in 0..DataSize
      BY <2>2, <1>0
    <3>2. Flow(w, m2, o, o)
      <4> HIDE DEF w, m, e, o
      <4> QED
        BY <3>1, FlowEmpty
    <3> QED
      BY <3>2
  <2> QED
    BY <2>1, <2>3, <2>4
<1>25. Exchange(c)'
  <2>1. CASE t = Server
    <3>1. d = "up" /\ proc'[c] = proc[c] /\ "down" \in Directions /\ Upward(c) /\ b = HasSent(c)
      BY <2>1, <1>0, <1>17 DEF In, Directions, Reads
    <3>3. chan'["down"][c] = chan["down"][c]
      BY <3>1, <1>0, <1>17
    <3>4. Empty("down", c)'
      BY <3>1, <3>3 DEF Upward, Empty, Carries
    <3>5. CASE all
      <4>1. proc'[Server].pc = "write" /\ proc'[Server].with = c /\ proc'[Server].current = 0
            /\ proc'[Server].buf = m
        BY <2>1, <3>5, <1>17, <1>24
      <4>2. proc[c].pc = "read" /\ proc[c].current = 0
        <5>1. proc[c].pc = "read" \/ b <= DataSize - 1
          BY <3>1, <1>0, <1>1 DEF HasSent
        <5> QED
          BY <5>1, <3>1, <3>5, <1>0, <1>24 DEF Upward
      <4>3. Empty("up", c)'
        BY <3>1, <3>5, <1>24 DEF Empty, Carries
      <4>4. Prefix(proc'[c].buf, m, 0)
        BY DEF Prefix
      <4>5. Downward(c)'
        BY <4>1, <4>2, <4>3, <4>4, <3>1, <3>4 DEF Downward, Writing, Empty, Carries
      <4> QED
        BY <4>5 DEF Exchange
    <3>6. CASE ~all
      <4>1. proc[Server].pc = "read" /\ proc[Server].with = c
        BY <2>1, <3>6, <1>21 DEF Reads
      <4>2. proc'[Server].pc = "read" /\ proc'[Server].with = c /\ proc'[Server].current = a + n
            /\ proc'[Server].buf = new
        BY <2>1, <3>6, <4>1, <1>17
      <4>3. Reading(c)' /\ ~Writing(c)' /\ HasRead(c)' = a + n /\ HasSent(c)' = b
        BY <4>2, <3>1 DEF Reading, Writing, HasRead, HasSent
      <4>4. Carries("up", c, HasRead(c), HasSent(c))'
        BY <4>3, <3>1, <1>10 DEF Carries
      <4>5. Prefix(proc'[Server].buf, MessageOf(c, proc'[c].round), proc'[Server].current)
        BY <4>2, <3>1, <1>11
      <4>6. Upward(c)'
        BY <4>3, <4>4, <4>5, <3>1, <3>4 DEF Upward
      <4> QED
        BY <4>6 DEF Exchange
    <3> QED
      BY <3>5, <3>6
  <2>2. CASE t # Server
    <3>1. d = "down" /\ proc'[Server] = proc[Server] /\ t = c /\ "up" \in Directions
      BY <2>2, <1>0, <1>17 DEF In, Directions
    <3>3. chan'["up"][c] = chan["up"][c]
      BY <3>1, <1>0, <1>17
    <3>4. proc[c].pc = "read" /\ MessageOf(c, proc'[c].round) = m
      BY <2>2, <3>1, <1>17 DEF Reads
    <3>5. Empty("up", c)
      BY <2>2 DEF Reads, Downward, OnTheWay
    <3>6. Empty("up", c)'
      BY <3>3, <3>4, <3>5 DEF Empty, Carries
    <3>7. CASE all
      <4>1. proc'[c].pc = "check" /\ proc'[c].buf = m
        BY <2>2, <3>1, <3>7, <1>17, <1>24
      <4>2. OnTheWay(c)
        <5>1. ~Downward(c) \/ b # proc[Server].current
          <6>1. proc[Server].current \in 0..DataSize - 1
            BY <1>0, ThreadFacts
          <6> QED
            BY <6>1, <3>7, <1>0, <1>24
        <5> QED
          BY <5>1, <2>2 DEF Reads
      <4>3. ~Writing(c)' /\ (Reading(c)' => proc'[Server].current = 0)
        BY <4>2, <3>1 DEF OnTheWay, Reading, Writing
      <4>4. Empty("down", c)'
        BY <3>1, <3>7, <1>24 DEF Empty, Carries
      <4>5. Arrived(c)'
        BY <4>1, <4>3, <4>4, <3>4, <3>6 DEF Arrived
      <4> QED
        BY <4>5 DEF Exchange
    <3>8. CASE ~all
      <4>1. proc'[c].pc = "read" /\ proc'[c].current = a + n /\ proc'[c].buf = new
        BY <2>2, <3>1, <3>4, <3>8, <1>17
      <4>2. Flow(chan'["down"][c], MessageOf(c, proc'[c].round), proc'[c].current, b)
            /\ Prefix(proc'[c].buf, MessageOf(c, proc'[c].round), proc'[c].current)
        BY <4>1, <3>1, <3>4, <1>10, <1>11
      <4>3. CASE Downward(c) /\ b = proc[Server].current
        <5>1. Writing(c)' /\ proc'[Server].buf = m /\ proc'[Server].current = b
          BY <4>3, <3>1 DEF Downward, Writing
        <5>2. Downward(c)'
          BY <5>1, <4>1, <4>2, <3>4, <3>6 DEF Downward, Carries
        <5> QED
          BY <5>2 DEF Exchange
      <4>4. CASE OnTheWay(c) /\ b = DataSize
        <5>1. ~Writing(c)' /\ (Reading(c)' => proc'[Server].current = 0)
          BY <4>4, <3>1 DEF OnTheWay, Reading, Writing
        <5>2. OnTheWay(c)'
          BY <5>1, <4>1, <4>2, <4>4, <3>6 DEF OnTheWay, Carries
        <5> QED
          BY <5>2 DEF Exchange
      <4> QED
        BY <4>3, <4>4, <2>2 DEF Reads
    <3> QED
      BY <3>7, <3>8
  <2> QED
    BY <2>1, <2>2
<1> QED
  BY <1>19, <1>23, <1>25 DEF Exchanges
-----------------------------------------------------------------------------
(* The steps                                                                *)

\* What each step keeps: the types in any case, the exchanges as long as no part
\* is taken for a message.
Keeps ==
    /\ TypeInv'
    /\ short => short'
    /\ Exchanges /\ ~short' => Exchanges'

\* The client a thread that writes or reads is connected to.
LEMMA Partner ==
    ASSUME TypeInv, NEW t \in Threads, proc[t].pc \in {"write", "read"}
    PROVE  proc[t].with \in Participants /\ (t = Server \/ t = proc[t].with) /\ t \in Clients \cup {Server}
<1>1. t \in Participants \/ t = Server
  BY DEF Threads
<1>2. Participants \subseteq Clients
  BY Basics
<1>3. CASE t = Server
  BY <1>3 DEF TypeInv, ServerOK
<1>4. CASE t \in Participants
  BY <1>2, <1>4 DEF TypeInv, ClientsOK
<1> QED
  BY <1>1, <1>3, <1>4

\* A reader whose channel is not empty reads from the right place.
LEMMA ReaderFacts ==
    ASSUME TypeInv, Exchanges, NEW t \in Threads, proc[t].pc = "read",
           NEW c, c = proc[t].with, Len(chan[In(t)][c]) > 0
    PROVE  \E b \in Nat : Reads(t, c, b) /\ Len(chan[In(t)][c]) = b - proc[t].current
<1>1. c \in Participants /\ (t = Server \/ t = c) /\ t \in Clients \cup {Server}
  BY Partner
<1>2. Exchange(c) /\ c # Server /\ DataSize \in Nat /\ DataSize > 0 /\ c \in Clients \cup {Server}
      /\ proc[t].current \in Nat
  BY <1>1, Basics, ThreadFacts DEF TypeInv, Exchanges
<1>3. Empty(In(t), c) => Len(chan[In(t)][c]) = 0
  BY DEF Empty, Carries, Flow
<1>4. \A b : Carries(In(t), c, proc[t].current, b) =>
            b \in Nat /\ Len(chan[In(t)][c]) = b - proc[t].current
  BY <1>2 DEF Carries, Flow
<1>5. CASE t = Server
  <2>1. In(t) = "up" /\ Reading(c)
    BY <1>5 DEF In, Reading
  <2>2. Upward(c)
    BY <2>1, <1>2, <1>3 DEF Exchange, Downward, OnTheWay, Arrived
  <2>3. Carries("up", c, proc[t].current, HasSent(c))
        /\ Prefix(proc[t].buf, MessageOf(c, proc[c].round), proc[t].current)
    BY <2>1, <2>2, <1>5 DEF Upward, HasRead
  <2>4. Reads(t, c, HasSent(c))
    BY <2>1, <2>2, <2>3, <1>5 DEF Reads
  <2> QED
    BY <2>1, <2>3, <2>4, <1>4
<1>6. CASE t # Server
  <2>1. In(t) = "down" /\ t = c
    BY <1>1, <1>6 DEF In
  <2>2. Downward(c) \/ OnTheWay(c)
    BY <2>1, <1>2, <1>3 DEF Exchange, Upward, Arrived
  <2>3. PICK b : /\ Carries("down", c, proc[t].current, b)
                 /\ Prefix(proc[t].buf, MessageOf(c, proc[c].round), proc[t].current)
                 /\ \/ Downward(c) /\ b = proc[Server].current
                    \/ OnTheWay(c) /\ b = DataSize
    BY <2>1, <2>2 DEF Downward, OnTheWay
  <2>4. Reads(t, c, b)
    BY <2>1, <2>3, <1>6 DEF Reads
  <2> QED
    BY <2>1, <2>3, <2>4, <1>4
<1> QED
  BY <1>5, <1>6

\* A socket takes some bytes.
LEMMA SendBytesKeeps ==
    ASSUME TypeInv, NEW t \in Threads, proc[t].pc = "write", SendBytes(t)
    PROVE  Keeps
<1> DEFINE c == proc[t].with
<1>1. PICK n \in 1..Left(t) : Len(chan[Out(t)][c]) + n <= Capacity[kind] /\ Put(t, n)
  BY DEF SendBytes
<1>2. c \in Participants /\ (t = Server \/ t = c) /\ c \in Clients /\ proc[t].with = c
  BY Partner, Basics
<1> HIDE DEF c
<1>3. PutEffect(t, c, n)
  BY <1>1, <1>2, PutDoes
<1>4. TypeInv'
  BY <1>1, <1>2, <1>3, PutTypes
<1>5. Exchanges => Exchanges'
  BY <1>1, <1>2, <1>3, PutExchanges
<1> QED
  BY <1>3, <1>4, <1>5 DEF Keeps, PutEffect

\* A socket gives some bytes.
LEMMA RecvBytesKeeps ==
    ASSUME TypeInv, NEW t \in Threads, proc[t].pc = "read", RecvBytes(t)
    PROVE  Keeps
<1> DEFINE c == proc[t].with
           s == chan[In(t)][c]
<1>1. PICK n \in 1..Min2(Left(t), Len(s)) : Take(t, c, n, n) /\ UNCHANGED short
  BY DEF RecvBytes
<1>2. c \in Participants /\ (t = Server \/ t = c) /\ t \in Clients \cup {Server} /\ c \in Clients
  BY Partner, Basics
<1>3. proc[t].current \in Nat /\ Left(t) \in Nat /\ Len(s) \in Nat
  <2>1. s \in Seq(Byte)
    BY <1>2 DEF TypeInv, Shape, In, Directions, Channels
  <2> QED
    BY <2>1, <1>2, ThreadFacts, Basics DEF Left, TypeInv
<1>4. n \in Nat /\ 0 < n /\ n <= Len(s) /\ Len(s) > 0
  <2> HIDE DEF s
  <2> QED
    BY <1>1, <1>3 DEF Min2
<1>5. TakeEffect(t, c, n, n)
  BY <1>1, <1>2, <1>4, TakeDoes
<1>6. TypeInv'
  <2>1. short' \in BOOLEAN
    BY <1>1 DEF TypeInv, Shape
  <2> HIDE DEF c
  <2> QED
    BY <2>1, <1>2, <1>4, <1>5, TakeTypes
<1>7. ASSUME Exchanges PROVE Exchanges'
  <2>1. PICK b \in Nat : Reads(t, c, b) /\ Len(s) = b - proc[t].current
    BY <1>4, <1>7, ReaderFacts
  <2>2. proc[t].current + n <= b
    <3> HIDE DEF s
    <3> QED
      BY <1>3, <1>4, <2>1
  <2>3. ~(t = Server /\ proc[Server].pc = "poll")
    OBVIOUS
  <2> HIDE DEF c
  <2> QED
    BY <2>1, <2>2, <2>3, <1>2, <1>4, <1>5, <1>7, TakeExchanges
<1> QED
  BY <1>1, <1>6, <1>7 DEF Keeps

\* The multi-client server takes a message, or a part, of the client poll names.
LEMMA MulticlientReceiveKeeps ==
    ASSUME TypeInv, multiclientReceive
    PROVE  Keeps
<1> DEFINE c == connections[CHOOSE i \in Readable : \A j \in Readable : i <= j]
           s == chan["up"][c]
<1>1. proc[Server].pc = "poll" /\ proc[Server].current = 0
  BY DEF multiclientReceive, TypeInv, ServerOK
<1>2. PICK n \in 1..Min2(DataSize, Len(s)) : Take(Server, c, n, DataSize) /\ short' = (short \/ n < DataSize)
  BY DEF multiclientReceive
<1>3. c \in Participants
  <2>1. PICK i0 \in Readable : TRUE
    BY DEF multiclientReceive
  <2>2. \E i \in Readable : \A j \in Readable : i <= j
    <3>1. Readable \subseteq Nat /\ Readable # {}
      BY <2>1 DEF Readable
    <3> QED
      BY <3>1, SmallestExists
  <2>3. (CHOOSE i \in Readable : \A j \in Readable : i <= j) \in Readable
    BY <2>2
  <2>4. \A i \in Readable : connections[i] \in Participants
    BY DEF Readable, TypeInv, Shape
  <2> QED
    BY <2>3, <2>4
<1>4. c \in Clients /\ Server \in Clients \cup {Server} /\ c # Server /\ DataSize \in Nat /\ DataSize > 0
      /\ In(Server) = "up" /\ s \in Seq(Byte) /\ Left(Server) = DataSize
  <2>1. c \in Clients /\ c # Server /\ DataSize \in Nat /\ DataSize > 0
    BY <1>3, Basics
  <2>2. chan \in Channels
    BY DEF TypeInv, Shape
  <2> HIDE DEF c
  <2>3. In(Server) = "up" /\ s \in Seq(Byte)
    BY <2>1, <2>2 DEF In, Directions, Channels
  <2>4. Left(Server) = DataSize
    BY <2>1, <1>1 DEF Left
  <2> QED
    BY <2>1, <2>3, <2>4
<1>5. n \in Nat /\ 0 < n /\ n <= Len(s) /\ n <= DataSize /\ Len(s) \in Nat
  <2>1. Len(s) \in Nat
    BY <1>4
  <2> HIDE DEF s
  <2> QED
    BY <2>1, <1>2, <1>4 DEF Min2
<1>6. TakeEffect(Server, c, n, DataSize)
  <2>1. n <= Len(chan[In(Server)][c])
    BY <1>4, <1>5
  <2> HIDE DEF c
  <2> QED
    BY <2>1, <1>2, <1>4, <1>5, TakeDoes
<1>7. TypeInv'
  <2>1. short' \in BOOLEAN /\ DataSize >= Left(Server)
    BY <1>2, <1>4
  <2> HIDE DEF c
  <2> QED
    BY <2>1, <1>1, <1>3, <1>5, <1>6, TakeTypes
<1>8. ASSUME Exchanges, ~short' PROVE Exchanges'
  <2>1. n = DataSize
    <3>1. ~(n < DataSize)
      BY <1>2, <1>8
    <3> QED
      BY <3>1, <1>4, <1>5
  <2>2. Upward(c) /\ HasRead(c) = 0
    <3>1. Empty("up", c) => Len(s) = 0
      BY DEF Empty, Carries, Flow
    <3>2. ~Empty("up", c) /\ Exchange(c)
      BY <3>1, <1>3, <1>5, <1>8 DEF Exchanges
    <3> QED
      BY <3>2, <1>1 DEF Exchange, Downward, OnTheWay, Arrived, Reading, HasRead
  <2>3. HasSent(c) = DataSize
    <3>1. Len(s) = HasSent(c) - 0 /\ HasSent(c) \in 0..DataSize
      BY <2>2 DEF Upward, Carries, Flow
    <3> HIDE DEF s, c
    <3> QED
      BY <3>1, <2>1, <1>4, <1>5
  <2>4. Reads(Server, c, DataSize)
    <3>1. Carries("up", c, 0, DataSize)
      BY <2>2, <2>3 DEF Upward
    <3>2. Prefix(proc[Server].buf, MessageOf(c, proc[c].round), 0)
      BY DEF Prefix
    <3> QED
      BY <3>1, <3>2, <2>2, <2>3, <1>1, <1>4 DEF Reads
  <2>5. TakeEffect(Server, c, n, n) /\ n >= Left(Server) /\ proc[Server].current + n <= DataSize
    BY <2>1, <1>1, <1>4, <1>6
  <2> HIDE DEF c
  <2> QED
    BY <2>4, <2>5, <1>3, <1>4, <1>5, <1>8, TakeExchanges
<1> QED
  BY <1>2, <1>7, <1>8 DEF Keeps

\* A step of one thread that moves no data keeps the invariant when it keeps
\* that thread's part.
LEMMA ControlKeeps ==
    ASSUME TypeInv, NEW t \in Clients \cup {Server}, UNCHANGED <<kind, chan, short>>,
           proc' \in [Clients \cup {Server} -> ThreadStates],
           \A u \in Clients \cup {Server} : u # t => proc'[u] = proc[u],
           backlog' \in Seq(Participants), connections' \in Seq(Participants),
           proc'[t].current = proc[t].current,
           t = Server => /\ proc[Server].pc \notin {"read", "write"}
                         /\ proc'[Server].pc # "write" /\ ServerOK',
           t # Server => /\ proc'[t].with = t
                         /\ proc'[t].pc \in ClientPcs
                         /\ proc'[t].pc \notin {"write", "read"} => proc'[t].current = 0
                         /\ Exchanges /\ t \in Participants => Exchange(t)'
    PROVE  Keeps
<1>0. /\ Participants \subseteq Clients /\ Server \notin Clients /\ Shape /\ ServerOK /\ ClientsOK
      /\ Server \in Clients \cup {Server}
  BY Basics DEF TypeInv
<1>1. Participants' = Participants /\ kind' = kind /\ chan' = chan /\ short' = short
  BY DEF Participants
<1>2. Shape'
  <2>1. kind' \in Kinds /\ backlog' \in Seq(Participants)' /\ connections' \in Seq(Participants)'
    BY <1>0, <1>1 DEF Shape
  <2>2. short' \in BOOLEAN
    BY <1>0, <1>1 DEF Shape
  <2> QED
    BY <2>1, <2>2, <1>0, <1>1 DEF Shape
<1>3. ServerOK'
  <2>1. CASE t = Server
    BY <2>1
  <2>2. CASE t # Server
    BY <2>2, <1>0, <1>1 DEF ServerOK
  <2> QED
    BY <2>1, <2>2
<1>4. ClientsOK'
  <2> SUFFICES ASSUME NEW y \in Clients
               PROVE  /\ proc'[y].with = y
                      /\ proc'[y].pc \in ClientPcs
                      /\ proc'[y].pc \notin {"write", "read"} => proc'[y].current = 0
    BY DEF ClientsOK
  <2>1. CASE y = t
    BY <2>1, <1>0
  <2>2. CASE y # t
    BY <2>2, <1>0 DEF ClientsOK
  <2> QED
    BY <2>1, <2>2
<1>6. ASSUME Exchanges, NEW y \in Participants PROVE Exchange(y)'
  <2>1. CASE y = t
    BY <2>1, <1>0, <1>6
  <2>2. CASE y # t
    <3>1. Exchange(y) /\ y \in Clients /\ proc'[y] = proc[y]
          /\ \A d \in Directions : chan'[d][y] = chan[d][y]
      BY <2>2, <1>0, <1>1, <1>6 DEF Exchanges
    <3>2. CASE t = Server
      <4>1. ~Reading(y) /\ ~Writing(y) /\ ~Writing(y)' /\ proc'[Server].current = 0
        BY <3>2, <1>0 DEF Reading, Writing, ServerOK
      <4> QED
        BY <4>1, <3>1, ExchangeKept
    <3>3. CASE t # Server
      <4>1. proc'[Server] = proc[Server]
        BY <3>3, <1>0
      <4> QED
        BY <4>1, <3>1, ExchangeKept
    <3> QED
      BY <3>2, <3>3
  <2> QED
    BY <2>1, <2>2
<1>7. Exchanges => Exchanges'
  BY <1>1, <1>6 DEF Exchanges
<1> QED
  BY <1>1, <1>2, <1>3, <1>4, <1>7 DEF Keeps, TypeInv

\* The server's steps that move no data.
LEMMA ServerKeeps ==
    ASSUME TypeInv, Listen \/ Accept \/ Answered
    PROVE  Keeps
<1>0. /\ Participants \subseteq Clients /\ Server \notin Clients /\ Shape /\ ServerOK
      /\ Server \in Clients \cup {Server} /\ DOMAIN proc = Clients \cup {Server}
      /\ proc[Server] \in ThreadStates
  BY Basics, ThreadFacts DEF TypeInv
<1>1. ASSUME Listen PROVE Keeps
  <2>1. proc' = [proc EXCEPT ![Server].pc = "accept"] /\ proc[Server].pc = "listen"
        /\ UNCHANGED <<kind, backlog, connections, chan, short>>
    BY <1>1 DEF Listen
  <2>2. proc'[Server] \in ThreadStates /\ proc'[Server].current = proc[Server].current
        /\ proc'[Server].pc = "accept" /\ \A u \in Clients \cup {Server} : u # Server => proc'[u] = proc[u]
    BY <2>1, <1>0 DEF ThreadStates, Pcs
  <2>3. proc' \in [Clients \cup {Server} -> ThreadStates]
    BY <2>1, <2>2, <1>0 DEF Shape
  <2>4. ServerOK'
    BY <2>1, <2>2, <1>0 DEF ServerOK
  <2>5. backlog' \in Seq(Participants) /\ connections' \in Seq(Participants)
    BY <2>1, <1>0 DEF Shape
  <2> QED
    BY <2>1, <2>2, <2>3, <2>4, <2>5, <1>0, ControlKeeps
<1>2. ASSUME Accept PROVE Keeps
  <2> DEFINE h == Head(backlog)
             P == Participants
  <2>1. /\ proc[Server].pc = "accept" /\ backlog # <<>> /\ connections' = Append(connections, h)
        /\ backlog' = Tail(backlog) /\ UNCHANGED <<kind, chan, short>>
        /\ proc' = [proc EXCEPT ![Server].with = h,
                ![Server].pc = IF kind # "MulticlientTCP" THEN "read"
                               ELSE IF Clients \subseteq ToSet(connections') THEN "poll" ELSE "accept"]
    BY <1>2 DEF Accept
  <2>2. h \in P /\ backlog' \in Seq(P) /\ connections' \in Seq(P)
    <3>1. backlog \in Seq(P) /\ connections \in Seq(P)
      BY <1>0 DEF Shape
    <3> HIDE DEF P
    <3> QED
      BY <3>1, <2>1
  <2>3. h \in Clients \cup {Server}
    BY <2>2, <1>0
  <2>4. /\ proc'[Server].current = proc[Server].current /\ proc'[Server].with = h
        /\ proc'[Server].pc \in {"read", "poll", "accept"}
        /\ proc'[Server].pc = "read" => kind # "MulticlientTCP"
        /\ proc'[Server].pc = "poll" => kind = "MulticlientTCP"
        /\ \A u \in Clients \cup {Server} : u # Server => proc'[u] = proc[u]
    <3> HIDE DEF h
    <3> QED
      BY <2>1, <1>0 DEF ThreadStates
  <2>5. proc'[Server] \in ThreadStates
    <3> HIDE DEF h
    <3> QED
      BY <2>1, <2>3, <1>0 DEF ThreadStates, Pcs
  <2>6. proc' \in [Clients \cup {Server} -> ThreadStates]
    <3>1. \A u \in Clients \cup {Server} : proc'[u] \in ThreadStates
      BY <2>4, <2>5, <1>0 DEF Shape
    <3>2. proc' = [u \in Clients \cup {Server} |-> proc'[u]]
      <4> HIDE DEF h
      <4> QED
        BY <2>1, <1>0
    <3> QED
      BY <3>1, <3>2
  <2>7. ServerOK'
    <3>1. Participants' = Participants /\ kind' = kind /\ proc[Server].current = 0
      BY <2>1, <1>0 DEF Participants, ServerOK
    <3> QED
      BY <3>1, <2>2, <2>4 DEF ServerOK
  <2> QED
    BY <2>1, <2>2, <2>4, <2>6, <2>7, <1>0, ControlKeeps
<1>3. ASSUME Answered PROVE Keeps
  <2> DEFINE total == IF kind = "MulticlientTCP" THEN Rounds * NumClients ELSE Rounds
  <2>1. /\ proc[Server].pc = "answered" /\ UNCHANGED <<kind, backlog, connections, chan, short>>
        /\ proc' = [proc EXCEPT ![Server].round = @ + 1,
                ![Server].pc = IF proc[Server].round = total THEN "done"
                               ELSE IF kind = "MulticlientTCP" THEN "poll" ELSE "read"]
    BY <1>3 DEF Answered
  <2> HIDE DEF total
  <2>2. proc[Server].round + 1 \in Nat
    BY <1>0 DEF ThreadStates
  <2>4. /\ proc'[Server].current = proc[Server].current /\ proc'[Server].with = proc[Server].with
        /\ proc'[Server].pc \in {"read", "poll", "done"}
        /\ proc'[Server].pc = "read" => kind # "MulticlientTCP"
        /\ proc'[Server].pc = "poll" => kind = "MulticlientTCP"
        /\ \A u \in Clients \cup {Server} : u # Server => proc'[u] = proc[u]
    BY <2>1, <1>0 DEF ThreadStates
  <2>5. proc'[Server] \in ThreadStates
    BY <2>1, <2>2, <1>0 DEF ThreadStates, Pcs
  <2>6. proc' \in [Clients \cup {Server} -> ThreadStates]
    <3>1. \A u \in Clients \cup {Server} : proc'[u] \in ThreadStates
      BY <2>4, <2>5, <1>0 DEF Shape
    <3>2. proc' = [u \in Clients \cup {Server} |-> proc'[u]]
      BY <2>1, <1>0
    <3> QED
      BY <3>1, <3>2
  <2>7. ServerOK'
    <3>1. Participants' = Participants /\ kind' = kind /\ proc[Server].current = 0
          /\ proc[Server].with \in Participants
      BY <2>1, <1>0 DEF Participants, ServerOK
    <3> QED
      BY <3>1, <2>4 DEF ServerOK
  <2>8. backlog' \in Seq(Participants) /\ connections' \in Seq(Participants)
    BY <2>1, <1>0 DEF Shape
  <2> QED
    BY <2>1, <2>4, <2>6, <2>7, <2>8, <1>0, ControlKeeps
<1> QED
  BY <1>1, <1>2, <1>3

\* A client that tries to connect.
LEMMA ConnectKeeps ==
    ASSUME TypeInv, NEW c \in Participants, Connect(c) \/ ConnectFails(c)
    PROVE  Keeps
<1>0. /\ Participants \subseteq Clients /\ Server \notin Clients /\ Shape /\ c \in Clients
      /\ c # Server /\ c \in Clients \cup {Server} /\ DOMAIN proc = Clients \cup {Server}
      /\ Server \in Clients \cup {Server} /\ proc[c].with = c /\ MaxTries \in Nat
      /\ proc[c] \in ThreadStates /\ proc[c].tries \in 0..MaxTries + 1
  BY Basics, ThreadFacts DEF TypeInv, ClientsOK
<1> DEFINE P == Participants
<1>1. /\ proc[c].pc = "connect" /\ connections' = connections /\ UNCHANGED <<kind, chan, short>>
      /\ backlog' = backlog \/ backlog' = Append(backlog, c)
      /\ \/ proc' = [proc EXCEPT ![c].pc = "write"]
         \/ proc' = [proc EXCEPT ![c].pc = "gaveUp"]
         \/ proc[c].tries <= MaxTries /\ proc' = [proc EXCEPT ![c].tries = @ + 1]
  BY <1>0 DEF Connect, ConnectFails
<1>2. proc[c].current = 0
  BY <1>0, <1>1 DEF TypeInv, ClientsOK
<1>3. /\ proc'[c] \in ThreadStates /\ proc'[c].current = proc[c].current /\ proc'[c].with = proc[c].with
      /\ proc'[c].round = proc[c].round /\ proc'[c].pc \in {"connect", "write", "gaveUp"}
      /\ \A u \in Clients \cup {Server} : u # c => proc'[u] = proc[u]
  <2>1. proc[c].tries <= MaxTries => proc[c].tries + 1 \in 0..MaxTries + 1
    BY <1>0
  <2> QED
    BY <2>1, <1>0, <1>1 DEF ThreadStates, Pcs
<1>4. proc' \in [Clients \cup {Server} -> ThreadStates]
  <2>1. \A u \in Clients \cup {Server} : proc'[u] \in ThreadStates
    BY <1>3, <1>0 DEF Shape
  <2>2. proc' = [u \in Clients \cup {Server} |-> proc'[u]]
    BY <1>1, <1>0
  <2> QED
    BY <2>1, <2>2
<1>5. backlog' \in Seq(P) /\ connections' \in Seq(P)
  <2>1. backlog \in Seq(P) /\ connections \in Seq(P) /\ c \in P
    BY <1>0 DEF Shape
  <2> HIDE DEF P
  <2> QED
    BY <2>1, <1>1
<1>6. ASSUME Exchanges PROVE Exchange(c)'
  <2>1. Upward(c)
    BY <1>1, <1>6 DEF Exchanges, Exchange, Downward, OnTheWay, Arrived
  <2>2. proc'[Server] = proc[Server] /\ HasSent(c)' = HasSent(c) /\ HasRead(c)' = HasRead(c)
    BY <1>0, <1>1, <1>3 DEF HasSent, HasRead, Reading
  <2>3. Upward(c)'
    BY <2>1, <2>2, <1>1, <1>3 DEF Upward, Carries, Empty, Reading, Writing
  <2> QED
    BY <2>3 DEF Exchange
<1>7. proc'[c].pc \in ClientPcs /\ proc'[c].with = c /\ proc'[c].current = 0
  BY <1>0, <1>2, <1>3 DEF ClientPcs
<1> QED
  BY <1>0, <1>1, <1>3, <1>4, <1>5, <1>6, <1>7, ControlKeeps

\* A client that compares what it has read.
LEMMA CheckKeeps ==
    ASSUME TypeInv, NEW c \in Participants, Check(c)
    PROVE  Keeps
<1>0. /\ Participants \subseteq Clients /\ Server \notin Clients /\ Shape /\ c \in Clients
      /\ c # Server /\ c \in Clients \cup {Server} /\ DOMAIN proc = Clients \cup {Server}
      /\ Server \in Clients \cup {Server} /\ proc[c].with = c /\ DataSize \in Nat
      /\ proc[c] \in ThreadStates /\ EmptyBuffer \in Buffers /\ proc[c].round \in Nat
  BY Basics, ThreadFacts, EmptyBufferType DEF TypeInv, ClientsOK
<1>1. proc[c].pc = "check" /\ UNCHANGED <<kind, backlog, connections, chan, short>> /\ proc[c].current = 0
  BY <1>0 DEF Check, TypeInv, ClientsOK
<1>2. proc' = IF proc[c].buf # MessageOf(c, proc[c].round) THEN [proc EXCEPT ![c].pc = "thrown"]
              ELSE IF proc[c].round = Rounds THEN [proc EXCEPT ![c].pc = "done"]
              ELSE [proc EXCEPT ![c].pc = "write", ![c].round = @ + 1,
                        ![c].buf = IF kind = "MulticlientTCP" THEN @ ELSE EmptyBuffer]
  BY DEF Check
<1>3. proc[c].round + 1 \in Nat
  BY <1>0
<1>4. /\ proc'[c].current = proc[c].current /\ proc'[c].with = proc[c].with
      /\ proc'[c].pc \in {"write", "done", "thrown"} /\ proc'[c].round \in Nat
      /\ proc[c].buf = MessageOf(c, proc[c].round) => proc'[c].pc # "thrown"
      /\ \A u \in Clients \cup {Server} : u # c => proc'[u] = proc[u]
  BY <1>2, <1>3, <1>0 DEF ThreadStates
<1>5. proc'[c] \in ThreadStates
  BY <1>2, <1>3, <1>0 DEF ThreadStates, Pcs
<1>6. proc' \in [Clients \cup {Server} -> ThreadStates]
  <2>1. \A u \in Clients \cup {Server} : proc'[u] \in ThreadStates
    BY <1>4, <1>5, <1>0 DEF Shape
  <2>2. proc' = [u \in Clients \cup {Server} |-> proc'[u]]
    BY <1>2, <1>0
  <2> QED
    BY <2>1, <2>2
<1>7. backlog' \in Seq(Participants) /\ connections' \in Seq(Participants)
  BY <1>1, <1>0 DEF Shape
<1>8. ASSUME Exchanges PROVE Exchange(c)'
  <2>1. Arrived(c) /\ proc[c].buf = MessageOf(c, proc[c].round)
    BY <1>1, <1>8 DEF Exchanges, Exchange, Upward, Downward, OnTheWay, Arrived
  <2>2. Empty("up", c)' /\ Empty("down", c)'
    <3> DEFINE m == MessageOf(c, proc[c].round)
               m2 == MessageOf(c, proc'[c].round)
               o == 0
    <3>1. ASSUME NEW d \in Directions PROVE Flow(chan[d][c], m2, o, o)
      <4> DEFINE s == chan[d][c]
      <4>1. Flow(s, m, o, o) /\ o \in 0..DataSize
        BY <2>1, <1>0 DEF Arrived, Empty, Carries, Directions
      <4>2. Flow(s, m2, o, o)
        <5> HIDE DEF m, m2, o, s
        <5> QED
          BY <4>1, FlowEmpty
      <4> QED
        BY <4>2
    <3> QED
      BY <3>1, <1>1 DEF Empty, Carries, Directions
  <2>3. proc'[Server] = proc[Server] /\ (Reading(c) => proc[Server].current = 0) /\ ~Writing(c)
    BY <2>1, <1>4, <1>0 DEF Arrived
  <2>4. CASE proc'[c].pc = "done"
    <3>1. Arrived(c)'
      BY <2>2, <2>3, <2>4 DEF Arrived, Reading, Writing
    <3> QED
      BY <3>1 DEF Exchange
  <2>5. CASE proc'[c].pc = "write"
    <3>1. HasSent(c)' = 0 /\ HasRead(c)' = 0
      BY <2>3, <2>5, <1>1, <1>4 DEF HasSent, HasRead, Reading
    <3>2. Reading(c)' => Prefix(proc'[Server].buf, MessageOf(c, proc'[c].round), proc'[Server].current)
      BY <2>3 DEF Prefix, Reading
    <3>3. Upward(c)'
      BY <3>1, <3>2, <2>2, <2>3, <2>5 DEF Upward, Empty, Writing
    <3> QED
      BY <3>3 DEF Exchange
  <2> QED
    BY <2>1, <2>4, <2>5, <1>4
<1>9. proc'[c].pc \in ClientPcs /\ proc'[c].with = c /\ proc'[c].current = 0
  BY <1>0, <1>1, <1>4 DEF ClientPcs
<1> QED
  BY <1>0, <1>1, <1>4, <1>6, <1>7, <1>8, <1>9, ControlKeeps
-----------------------------------------------------------------------------
(* The theorems                                                             *)

\* The invariant is inductive: it bounds the exchanges until the multi-client
\* server takes a part for a message, and the types for ever.
THEOREM SocketInvariant == Spec => []SocketInv
<1>1. SocketInv /\ [Next]_vars => SocketInv'
  <2> SUFFICES ASSUME SocketInv, [Next]_vars PROVE SocketInv'
    OBVIOUS
  <2>1. CASE UNCHANGED vars
    <3>1. TypeInv'
      <4>1. Shape /\ ServerOK /\ ClientsOK
        BY DEF SocketInv, TypeInv
      <4>2. Shape'
        BY <4>1, <2>1 DEF vars, Shape, Participants
      <4>3. ServerOK' /\ ClientsOK'
        BY <4>1, <2>1 DEF vars, ServerOK, ClientsOK, Participants
      <4> QED
        BY <4>2, <4>3 DEF TypeInv
    <3>2. Exchanges => Exchanges'
      BY <2>1 DEF vars, Exchanges, Exchange, Upward, Downward, OnTheWay, Arrived, Carries, Empty,
                  Reading, Writing, HasSent, HasRead, Participants
    <3>3. short' = short
      BY <2>1 DEF vars
    <3> QED
      BY <3>1, <3>2, <3>3 DEF SocketInv
  <2>2. ASSUME NEW t \in Threads, Thread(t) PROVE SocketInv'
    <3>0. TypeInv
      BY DEF SocketInv
    <3>1. ASSUME tcpWrite(t) \/ domainWrite(t) PROVE Keeps
      BY <3>0, <3>1, SendBytesKeeps DEF tcpWrite, domainWrite
    <3>2. ASSUME tcpRead(t) \/ domainRead(t) PROVE Keeps
      BY <3>0, <3>2, RecvBytesKeeps DEF tcpRead, domainRead
    <3>3. ASSUME t # Server PROVE t \in Participants
      BY <3>3 DEF Threads
    <3>4. Keeps
      BY <2>2, <3>0, <3>1, <3>2, <3>3, MulticlientReceiveKeeps, ServerKeeps, ConnectKeeps, CheckKeeps
         DEF Thread
    <3>5. TypeInv' /\ (short => short') /\ (Exchanges /\ ~short' => Exchanges') /\ (short \/ Exchanges)
      BY <3>4 DEF Keeps, SocketInv
    <3> QED
      BY <3>5 DEF SocketInv
  <2> QED
    BY <2>1, <2>2 DEF Next
<1>2. Init => SocketInv
  BY Starts
<1> QED
  BY <1>1, <1>2, PTL DEF Spec

\* Every read returns the one whole message that was written for it, and no
\* client throws, for any number of clients, message size, socket capacity and
\* number of rounds, however the sockets split and join the bytes; for the
\* multi-client server, until a recv has returned a part of a message.
THEOREM WholeReads == Spec => []ReadsWholeMessages
<1>1. SocketInv => ReadsWholeMessages
  <2> SUFFICES ASSUME SocketInv, ~short
               PROVE  /\ proc[Server].pc = "write" =>
                         proc[Server].buf = MessageOf(proc[Server].with, proc[proc[Server].with].round)
                      /\ \A c \in Participants : proc[c].pc = "check" => proc[c].buf = MessageOf(c, proc[c].round)
                      /\ \A t \in Threads : proc[t].pc # "thrown"
    BY DEF ReadsWholeMessages
  <2>1. ServerOK /\ \A c \in Participants : Exchange(c)
    BY DEF SocketInv, TypeInv, Exchanges
  <2>2. ASSUME proc[Server].pc = "write"
        PROVE  proc[Server].buf = MessageOf(proc[Server].with, proc[proc[Server].with].round)
    <3>1. proc[Server].with \in Participants
      BY <2>1, <2>2 DEF ServerOK
    <3>2. Downward(proc[Server].with)
      BY <2>1, <2>2, <3>1 DEF Exchange, Upward, OnTheWay, Arrived, Writing
    <3> QED
      BY <3>2 DEF Downward
  <2>3. ASSUME NEW c \in Participants
        PROVE  /\ proc[c].pc = "check" => proc[c].buf = MessageOf(c, proc[c].round)
               /\ proc[c].pc # "thrown"
    BY <2>1, <2>3 DEF Exchange, Upward, Downward, OnTheWay, Arrived
  <2>4. \A t \in Threads : proc[t].pc # "thrown"
    BY <2>1, <2>3 DEF Threads, ServerOK
  <2> QED
    BY <2>2, <2>3, <2>4
<1> QED
  BY <1>1, SocketInvariant, PTL

\* The threads' records keep their types, a client tries to connect at most
\* MaxTries + 2 times, and no socket ever holds more than it buffers, after a
\* part was taken for a message too.
THEOREM SocketTypes == Spec => []TypeOK
<1>1. SocketInv => TypeOK
  <2> SUFFICES ASSUME SocketInv PROVE TypeOK
    OBVIOUS
  <2>0. Shape
    BY DEF SocketInv, TypeInv
  <2>1. Threads \subseteq Clients \cup {Server}
    BY Basics DEF Threads
  <2>2. ASSUME NEW t \in Threads
        PROVE  /\ proc[t].pc \in Pcs /\ proc[t].tries \in 0..MaxTries + 1
               /\ proc[t].current \in 0..DataSize - 1 /\ proc[t].with \in Clients \cup {Server}
    BY <2>0, <2>1, <2>2, ThreadFacts
  <2>3. \A d \in {"up", "down"}, c \in Clients : Len(chan[d][c]) <= Capacity[kind]
    BY <2>0 DEF Shape, Directions
  <2>4. short \in BOOLEAN
    BY <2>0 DEF Shape
  <2> QED
    BY <2>2, <2>3, <2>4 DEF TypeOK, Pcs
<1> QED
  BY <1>1, SocketInvariant, PTL
=============================================================================
